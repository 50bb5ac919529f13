--------------------------- MODULE OfflineStation ---------------------------
(***************************************************************************)
(* A workstation working without the server: the offline forms of the      *)
(* staff client, the transaction files they write in the client's profile, *)
(* the login window's export and import of that file, and the client's     *)
(* side of an upload.                                                      *)
(*                                                                         *)
(* Abstracted: what a row says apart from its form and barcode, the checks *)
(* of digits and of blocked patrons (staff may go on in any case), layout. *)
(***************************************************************************)
EXTENDS OfflineFiles

CONSTANTS
    Exporting,    \* TRUE if staff use the export and import buttons
    Beside,       \* TRUE if other windows are used while their dialogs are open
    PrintFails,   \* forms whose receipts can fail to print
    MaxCopies     \* bound: copies of a row put aside at a workstation before an import

ASSUME StationAssumption == /\ {Exporting, Beside} \subseteq BOOLEAN
                            /\ PrintFails \subseteq ListForms
                            /\ MaxCopies \in Nat

VARIABLES
    scanned,      \* rows keyed so far
    list,         \* rows shown in the lists of the forms
    local_lock,   \* [Stations \X Forms -> BOOLEAN], one flag per form
    oils_lock,    \* [Stations -> Nat], the window's count of locks
    written,      \* rows written to a file at least once (history)
    pending,      \* [Stations -> file]: pending_xacts
    transition,   \* [Stations -> file]: the file renamed for an upload
    left,         \* [Stations -> file]: earlier transition files never moved on
    complete,     \* [Stations -> file]: files renamed .complete
    exported,     \* [Stations -> file]: purged copies, pending_xacts_exported_*
    medium,       \* the exported file, outside the client
    dialog,       \* [Stations -> ...]: the export or import dialog that is open
    cli           \* [Stations -> ...]: "waiting" while an upload is unanswered

formvars == <<scanned, list, local_lock, oils_lock, written>>
filevars == <<transition, left, complete>>
exportvars == <<exported, medium, dialog>>
stationvars == <<formvars, pending, filevars, exportvars, cli>>

ListOf(w, f) == {r \in list : StationOf[r] = w /\ FormOf[r] = f}
Page(w) == {w} \X Forms

\* How often a row is in the files of a workstation that may still be uploaded,
\* and in all of its files.
Uploadable(r, w) == pending[w][r] + transition[w][r] + left[w][r]
CopiesAt(r, w) == Uploadable(r, w) + complete[w][r] + exported[w][r]

StationInit ==
    /\ scanned = {} /\ list = {} /\ written = {}
    /\ local_lock = [p \in Stations \X Forms |-> FALSE]
    /\ oils_lock = [w \in Stations |-> 0]
    /\ pending = [w \in Stations |-> Empty]
    /\ transition = [w \in Stations |-> Empty]
    /\ left = [w \in Stations |-> Empty]
    /\ complete = [w \in Stations |-> Empty]
    /\ exported = [w \in Stations |-> Empty]
    /\ medium = Empty
    /\ dialog = [w \in Stations |-> "none"]
    /\ cli = [w \in Stations |-> "idle"]

-----------------------------------------------------------------------------
(* The forms *)

\* Mutant of Lock: oils_lock_page without allow_multiple_locks.
LockOnce(w, f) ==
    /\ local_lock' = [local_lock EXCEPT ![<<w, f>>] = TRUE]
    /\ oils_lock' = [oils_lock EXCEPT ![w] = IF @ > 0 THEN @ ELSE 1]

Lock(w, f) ==
    /\ local_lock' = [local_lock EXCEPT ![<<w, f>>] = TRUE]
    /\ oils_lock' = [oils_lock EXCEPT ![w] = @ + IF local_lock[<<w, f>>] THEN 0 ELSE 1]

\* Mutant of Unlock: unlocks the whole page.
UnlockPage(w, f) ==
    /\ local_lock' = [p \in Stations \X Forms |-> p \notin Page(w) /\ local_lock[p]]
    /\ oils_lock' = [oils_lock EXCEPT ![w] = 0]

\* Mutant of Unlock: counted down by the save and again by the next patron.
UnlockTwice(w, f) ==
    /\ local_lock' = [local_lock EXCEPT ![<<w, f>>] = FALSE]
    /\ oils_lock' = [oils_lock EXCEPT ![w] = IF local_lock[<<w, f>>] THEN @ - 2 ELSE @]

Unlock(w, f) ==
    /\ local_lock' = [local_lock EXCEPT ![<<w, f>>] = FALSE]
    /\ oils_lock' = [oils_lock EXCEPT ![w] = IF local_lock[<<w, f>>] /\ @ > 0 THEN @ - 1 ELSE @]

\* Only the forms that lend refuse a barcode their list already shows.
AlreadyScanned(r) ==
    /\ FormOf[r] \in {"checkout", "renew"}
    /\ \E q \in ListOf(StationOf[r], FormOf[r]) : ItemOf[q] = ItemOf[r]

Append(r) ==
    /\ r \notin scanned /\ FormOf[r] \in ListForms /\ ~AlreadyScanned(r)
    /\ scanned' = scanned \union {r} /\ list' = list \union {r}
    /\ Lock(StationOf[r], FormOf[r])
    /\ UNCHANGED <<written, pending, filevars, exportvars, cli>>

\* The rows of the list go to the file and the form is unlocked; only then is
\* the receipt printed, and the list is emptied by the print's callback.
\* Bound: the receipt of a row fails to print once at most.
Save(w, f) ==
    LET rows == ListOf(w, f)
    IN  /\ rows # {}
        /\ pending' = [pending EXCEPT ![w] = Plus(@, Bag(rows))]
        /\ written' = written \union rows
        /\ Unlock(w, f)
        /\ \/ list' = list \ rows
           \/ f \in PrintFails /\ rows \cap written = {} /\ list' = list
        /\ UNCHANGED <<scanned, filevars, exportvars, cli>>

\* Only checkout's cancel button empties the list; the form stays locked.
Cancel(w) ==
    /\ ListOf(w, "checkout") # {}
    /\ list' = list \ ListOf(w, "checkout")
    /\ UNCHANGED <<scanned, local_lock, oils_lock, written, pending, filevars, exportvars, cli>>

\* Keying in the registration form locks it.
KeyPatron(w) ==
    /\ \E r \in Rows \ scanned : StationOf[r] = w /\ FormOf[r] = "register"
    /\ Lock(w, "register")
    /\ UNCHANGED <<scanned, list, written, pending, filevars, exportvars, cli>>

Register(r) ==
    LET w == StationOf[r]
    IN  /\ r \notin scanned /\ FormOf[r] = "register"
        /\ scanned' = scanned \union {r} /\ written' = written \union {r}
        /\ pending' = [pending EXCEPT ![w] = Plus(@, Bag({r}))]
        /\ Unlock(w, "register")
        /\ UNCHANGED <<list, filevars, exportvars, cli>>

ClearRegister(w) ==
    /\ local_lock[<<w, "register">>] /\ Unlock(w, "register")
    /\ UNCHANGED <<scanned, list, written, pending, filevars, exportvars, cli>>

Closed(w) ==
    /\ list' = {r \in list : StationOf[r] # w}
    /\ local_lock' = [p \in Stations \X Forms |-> p \notin Page(w) /\ local_lock[p]]
    /\ oils_lock' = [oils_lock EXCEPT ![w] = 0]

\* The window asks before it closes while a lock is held.
Close(w) ==
    /\ oils_lock[w] = 0 /\ Closed(w)
    /\ UNCHANGED <<scanned, written, pending, filevars, exportvars, cli>>

CloseConfirmed(w) ==
    /\ oils_lock[w] > 0 /\ Closed(w)
    /\ UNCHANGED <<scanned, written, pending, filevars, exportvars, cli>>

\* The client dies: while a form is being saved, some of its rows are written.
Crash(w) ==
    /\ \E f \in ListForms : \E S \in SUBSET ListOf(w, f) :
          /\ pending' = [pending EXCEPT ![w] = Plus(@, Bag(S))]
          /\ written' = written \union S
    /\ Closed(w)
    /\ left' = [left EXCEPT ![w] = Plus(@, transition[w])]
    /\ transition' = [transition EXCEPT ![w] = Empty]
    /\ dialog' = [dialog EXCEPT ![w] = "none"]
    /\ cli' = [cli EXCEPT ![w] = "idle"]
    /\ UNCHANGED <<scanned, complete, exported, medium>>

-----------------------------------------------------------------------------
(* The login window's export and import.  A file picker or a question is   *)
(* open between the steps, while the offline window, a window of its own,  *)
(* can go on saving.  There is one medium, in use at one place at a time.  *)

NoDialog == \A w \in Stations : dialog[w] = "none"

Export(w) ==
    /\ Exporting /\ NoDialog /\ Exists(pending[w])
    /\ medium' = pending[w]
    /\ dialog' = [dialog EXCEPT ![w] = "exported"]
    /\ UNCHANGED <<formvars, pending, filevars, exported, cli>>

ExportPurge(w) ==
    /\ dialog[w] = "exported"
    /\ exported' = [exported EXCEPT ![w] = Plus(@, pending[w])]
    /\ pending' = [pending EXCEPT ![w] = Empty]
    /\ dialog' = [dialog EXCEPT ![w] = "none"]
    /\ UNCHANGED <<formvars, filevars, medium, cli>>

ExportKeep(w) ==
    /\ dialog[w] = "exported"
    /\ dialog' = [dialog EXCEPT ![w] = "none"]
    /\ UNCHANGED <<formvars, pending, filevars, exported, medium, cli>>

\* Mutant of ImportAsk: no look at the outstanding transactions.
ImportOver(w) ==
    /\ Exporting /\ NoDialog /\ Exists(medium)
    /\ \A r \in Rows : CopiesAt(r, w) < MaxCopies + pending[w][r]
    /\ dialog' = [dialog EXCEPT ![w] = "importing"]
    /\ UNCHANGED <<formvars, pending, filevars, exported, medium, cli>>

ImportAsk(w) ==
    /\ Exporting /\ NoDialog /\ ~Exists(pending[w]) /\ Exists(medium)
    /\ \A r \in Rows : CopiesAt(r, w) < MaxCopies + pending[w][r]
    /\ dialog' = [dialog EXCEPT ![w] = "importing"]
    /\ UNCHANGED <<formvars, pending, filevars, exported, medium, cli>>

\* write_content('truncate'): what the file held by now is gone.
Import(w) ==
    /\ dialog[w] = "importing" /\ Exists(medium)
    /\ pending' = [pending EXCEPT ![w] = medium]
    /\ dialog' = [dialog EXCEPT ![w] = "imported"]
    /\ UNCHANGED <<formvars, filevars, exported, medium, cli>>

\* Staff let the client delete the external copy, or keep it, or gave up
\* picking a file.
ImportEnd(w) ==
    /\ dialog[w] \in {"importing", "imported"}
    /\ dialog' = [dialog EXCEPT ![w] = "none"]
    /\ \/ medium' = medium
       \/ dialog[w] = "imported" /\ medium' = Empty
    /\ UNCHANGED <<formvars, pending, filevars, exported, cli>>

-----------------------------------------------------------------------------
(* The client's side of an upload *)

\* rename_file: the name of an earlier transition file is forgotten.
Rename(w) ==
    /\ Exists(pending[w])
    /\ left' = [left EXCEPT ![w] = Plus(@, transition[w])]
    /\ transition' = [transition EXCEPT ![w] = pending[w]]
    /\ pending' = [pending EXCEPT ![w] = Empty]
    /\ cli' = [cli EXCEPT ![w] = "waiting"]
    /\ UNCHANGED <<formvars, complete, exportvars>>

\* revert_file: not over transactions saved since.
Revert(w) ==
    /\ cli[w] = "waiting"
    /\ cli' = [cli EXCEPT ![w] = "idle"]
    /\ IF Exists(pending[w])
       THEN UNCHANGED <<pending, transition>>
       ELSE /\ pending' = [pending EXCEPT ![w] = transition[w]]
            /\ transition' = [transition EXCEPT ![w] = Empty]
    /\ UNCHANGED <<formvars, left, complete, exportvars>>

\* archive_file
Archive(w) ==
    /\ cli[w] = "waiting"
    /\ cli' = [cli EXCEPT ![w] = "idle"]
    /\ complete' = [complete EXCEPT ![w] = Plus(@, transition[w])]
    /\ transition' = [transition EXCEPT ![w] = Empty]
    /\ UNCHANGED <<formvars, pending, left, exportvars>>

\* No answer ever calls handle_event, and staff turn to something else.
GiveUp(w) ==
    /\ cli[w] = "waiting"
    /\ cli' = [cli EXCEPT ![w] = "idle"]
    /\ UNCHANGED <<formvars, pending, filevars, exportvars>>

FormStep(w) ==
    \/ \E r \in Rows : StationOf[r] = w /\ (Append(r) \/ Register(r))
    \/ \E f \in ListForms : Save(w, f)
    \/ Cancel(w) \/ KeyPatron(w) \/ ClearRegister(w)
    \/ Close(w) \/ CloseConfirmed(w) \/ Crash(w)

ExportStep(w) ==
    \/ Export(w) \/ ExportPurge(w) \/ ExportKeep(w)
    \/ ImportAsk(w) \/ Import(w) \/ ImportEnd(w)

UploadStep(w) == Rename(w) \/ Revert(w) \/ Archive(w) \/ GiveUp(w)

\* A workstation whose uploads may be answered in any way.
StationNext ==
    \E w \in Stations :
        \/ (Beside \/ dialog[w] = "none") /\ (FormStep(w) \/ UploadStep(w))
        \/ ExportStep(w)

StationSpec == StationInit /\ [][StationNext]_stationvars

-----------------------------------------------------------------------------
StationTypeOK ==
    /\ scanned \subseteq Rows /\ list \subseteq scanned /\ written \subseteq scanned
    /\ local_lock \in [Stations \X Forms -> BOOLEAN]
    /\ oils_lock \in [Stations -> Nat]
    /\ \A f \in {pending, transition, left, complete, exported} : f \in [Stations -> File]
    /\ medium \in File
    /\ dialog \in [Stations -> {"none", "exported", "importing", "imported"}]
    /\ cli \in [Stations -> {"idle", "waiting"}]

\* A row that is only on the screen keeps its form locked, whatever was
\* saved, cancelled or closed before.  (local_lock, offline_*.js)
LockedWhileUnsaved ==
    \A r \in list \ written : local_lock[<<StationOf[r], FormOf[r]>>]

\* The window's count of locks is the number of its locked forms, so that it
\* does not close unasked over a locked form.  (oils_lock_page, global_util.js)
LocksCounted ==
    \A w \in Stations :
        oils_lock[w] = Cardinality({f \in Forms : local_lock[<<w, f>>]})

\* Closing without a question throws no unsaved row away.
CloseLosesNothing ==
    [][\A w \in Stations : Close(w) => {r \in list : StationOf[r] = w} \subseteq written]_stationvars

\* A row that was saved stays in some file, of its workstation or of the one
\* it was carried to: no upload that is refused, unanswered or cut short by a
\* crash, no purge and no import drops it.
SavedIsKept ==
    \A r \in written : medium[r] > 0 \/ \E w \in Stations : CopiesAt(r, w) > 0

\* ... and in one file only, once: no sequence of uploads, refusals, conflicts
\* and crashes leaves two copies of a transaction.
SavedOnce ==
    \A r \in written : CopiesAt(r, StationOf[r]) = 1
=============================================================================
