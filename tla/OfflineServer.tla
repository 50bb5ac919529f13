---------------------------- MODULE OfflineServer ----------------------------
(***************************************************************************)
(* offline.pl: the CGI program that keeps the sessions of offline          *)
(* transactions, takes the files the workstations upload, and forks a      *)
(* child that runs all of a session's rows against the live system.        *)
(*                                                                         *)
(* Every request is a process of its own.  It looks at the session's flags *)
(* when it starts; an upload writes its file and only then its row of      *)
(* offline.script, an execution sets in_process only once the forked child *)
(* has connected to the network again.                                     *)
(*                                                                         *)
(* Abstracted: permissions, what a checkout, checkin or registration does  *)
(* on the live system (Circulation models it) beyond changing the status   *)
(* of the item, log files, the delta (the client has added it already).    *)
(***************************************************************************)
EXTENDS OfflineFiles

CONSTANTS
    Sessions,     \* keys of offline.session
    Runs,         \* children forked by action=execute
    Items,        \* barcodes of items
    TimeOf,       \* [Rows -> Nat]: timestamp of a row, corrected by its delta
    Now,          \* the time when rows are run, later than all of theirs
    SkipForms,    \* forms with the setting skip_*_if_newer_status_changed_time
    Careful,      \* TRUE if staff let a request finish before the next one
    MaxFaults     \* bound: processes that die, connections that are lost

Desk == "desk"
CircForms == {"checkout", "renew", "checkin"}

ASSUME ServerAssumption ==
    /\ TimeOf \in [Rows -> Nat] /\ Now \in Nat /\ \A r \in Rows : TimeOf[r] < Now
    /\ \A r \in Rows : FormOf[r] \in CircForms => ItemOf[r] \in Items
    /\ SkipForms \subseteq CircForms
    /\ Careful \in BOOLEAN /\ MaxFaults \in Nat /\ Desk \notin Runs

VARIABLES
    made,         \* sessions created
    in_process,   \* sessions with the flag
    ended,        \* sessions with an end_time
    scripts,      \* [Sessions -> SUBSET Stations]: offline.script
    log,          \* [Sessions -> [Stations -> file]]: pending/<session>/<ws>.log
    archive,      \* the same files, below archive/
    num_complete, \* [Sessions -> Nat]
    load,         \* [Stations -> record]: the upload request being served
    run,          \* [Runs -> record]: the child
    changed,      \* [Items -> record]: status_changed_time, and who set it
    results,      \* [Rows -> Nat]: result lines of a row
    skipped,      \* rows answered SKIP_ASSET_CHANGED
    faults

sesvars == <<made, in_process, ended, scripts, num_complete>>
diskvars == <<log, archive>>
outvars == <<changed, results, skipped>>
servervars == <<sesvars, diskvars, load, run, outvars, faults>>

NoLoad == [st |-> "none"]
NoRun == [st |-> "none"]

ServerInit ==
    /\ made = {} /\ in_process = {} /\ ended = {}
    /\ scripts = [s \in Sessions |-> {}]
    /\ log = [s \in Sessions |-> [w \in Stations |-> Empty]]
    /\ archive = log
    /\ num_complete = [s \in Sessions |-> 0]
    /\ load = [w \in Stations |-> NoLoad]
    /\ run = [c \in Runs |-> NoRun]
    /\ changed \in [Items -> [at : 0..Now, by : {Desk}]]
    /\ results = Empty /\ skipped = {}
    /\ faults = 0

Busy(w) == load[w].st \in {"checked", "written"}
Quiet == /\ \A w \in Stations : ~Busy(w)
         /\ \A c \in Runs : run[c].st # "forked"

Fault == faults < MaxFaults /\ faults' = faults + 1

-----------------------------------------------------------------------------
(* action=create and action=load *)

CreateSession(s) ==
    /\ s \notin made /\ made' = made \union {s}
    /\ UNCHANGED <<in_process, ended, scripts, num_complete, diskvars, load, run, outvars, faults>>

\* Mutant of Refused: a session being executed is not refused.
RefusedWhenDone(w, s) == w \in scripts[s] \/ s \in ended

Refused(w, s) == w \in scripts[s] \/ s \in in_process \/ s \in ended

\* The request arrives with its file and passes the three tests, or does not.
LoadStart(w, s, body) ==
    /\ load[w].st = "none" /\ s \in made
    /\ Careful => Quiet
    /\ load' = [load EXCEPT ![w] =
                    IF Refused(w, s) THEN [st |-> "err"]
                    ELSE [st |-> "checked", ses |-> s, body |-> body]]
    /\ UNCHANGED <<sesvars, diskvars, run, outvars, faults>>

\* open(FILE, ">>$outfile"): after what an upload that died has left there.
LoadWrite(w) ==
    /\ load[w].st = "checked"
    /\ log' = [log EXCEPT ![load[w].ses][w] = Plus(@, load[w].body)]
    /\ load' = [load EXCEPT ![w].st = "written"]
    /\ UNCHANGED <<sesvars, archive, run, outvars, faults>>

\* Mutant of LoadNoFile: the error comes after the file was written.
LoadNoScript(w) ==
    /\ load[w].st = "written" /\ Fault
    /\ load' = [load EXCEPT ![w] = [st |-> "err"]]
    /\ UNCHANGED <<sesvars, diskvars, run, outvars>>

\* OFFLINE_FILE_ERROR
LoadNoFile(w) ==
    /\ load[w].st = "checked" /\ Fault
    /\ load' = [load EXCEPT ![w] = [st |-> "err"]]
    /\ UNCHANGED <<sesvars, diskvars, run, outvars>>

LoadScript(w) ==
    /\ load[w].st = "written"
    /\ scripts' = [scripts EXCEPT ![load[w].ses] = @ \union {w}]
    /\ load' = [load EXCEPT ![w] = [st |-> "ok"]]
    /\ UNCHANGED <<made, in_process, ended, num_complete, diskvars, run, outvars, faults>>

\* The process dies: the browser gets an error page, which calls nothing.
LoadDie(w) ==
    /\ Busy(w) /\ Fault
    /\ load' = [load EXCEPT ![w] = NoLoad]
    /\ UNCHANGED <<sesvars, diskvars, run, outvars>>

-----------------------------------------------------------------------------
(* action=execute *)

\* Mutant of Commands: every file of the directory is read.
CommandsOfDirectory(s) == {r \in Rows : \E w \in Stations : log[s][w][r] > 0}

Commands(s) == {r \in Rows : \E w \in scripts[s] : log[s][w][r] > 0}

\* The parent's tests, ol_collect_commands and the fork.  A row is one
\* command: no file holds it twice as long as receipts print (the theorem
\* SavedOnceInAFile of OfflineProofs).
Execute(c, s) ==
    /\ run[c].st = "none" /\ s \in made /\ s \notin in_process /\ s \notin ended
    /\ Careful => Quiet
    /\ run' = [run EXCEPT ![c] = [st |-> "forked", ses |-> s, n |-> num_complete[s],
                                  seen |-> {}, skip |-> {}, todo |-> Commands(s)]]
    /\ UNCHANGED <<sesvars, diskvars, load, outvars, faults>>

RunBegin(c) ==
    /\ run[c].st = "forked"
    /\ in_process' = in_process \union {run[c].ses}
    /\ run' = [run EXCEPT ![c].st = "running"]
    /\ UNCHANGED <<made, ended, scripts, num_complete, diskvars, load, outvars, faults>>

\* Registrations come first, then the rows in the order of their times.
Before(q, r) ==
    IF (FormOf[q] = "register") # (FormOf[r] = "register")
    THEN FormOf[q] = "register"
    ELSE TimeOf[q] < TimeOf[r]

IsNext(c, r) == r \in run[c].todo /\ \A q \in run[c].todo : ~Before(q, r)

\* The test for a newer status, by a handler for `form': it is made for the
\* first row of an item, and holds for all of the item's rows in the run.
LooksAt(c, r, form) ==
    form \in SkipForms /\ FormOf[r] \in CircForms /\ ItemOf[r] \notin run[c].seen

\* Mutant of Skips: only the row that was looked at is skipped.
SkipsOnce(c, r, form) == LooksAt(c, r, form) /\ changed[ItemOf[r]].at >= TimeOf[r]

Skips(c, r, form) ==
    \/ FormOf[r] \in CircForms /\ ItemOf[r] \in run[c].skip
    \/ LooksAt(c, r, form) /\ changed[ItemOf[r]].at >= TimeOf[r]

\* The forms whose handlers a row goes through: a checkout of an item that is
\* out to the same patron goes on as a renewal.
Handlers(r) == IF FormOf[r] = "checkout" THEN {{"checkout"}, {"checkout", "renew"}}
               ELSE {{FormOf[r]}}

\* A request to the live system changes the item's status, or fails there.
Asks(c, r) ==
    \/ changed' = changed
    \/ /\ FormOf[r] \in CircForms
       /\ changed' = [changed EXCEPT ![ItemOf[r]] = [at |-> Now, by |-> c]]

\* Mutant of Seen: the barcode is never remembered.
SeenNever(c, r, hs) == run[c].seen

Seen(c, r, hs) ==
    IF \E h \in hs : LooksAt(c, r, h) THEN run[c].seen \union {ItemOf[r]} ELSE run[c].seen

RunRow(c) ==
    /\ run[c].st = "running"
    /\ \E r \in Rows : \E hs \in Handlers(r) :
        LET skips == \E h \in hs : Skips(c, r, h)
        IN  /\ IsNext(c, r)
            /\ run' = [run EXCEPT
                   ![c].todo = @ \ {r}, ![c].n = @ + 1,
                   ![c].seen = Seen(c, r, hs),
                   ![c].skip = IF skips THEN @ \union {ItemOf[r]} ELSE @]
            /\ results' = [results EXCEPT ![r] = @ + 1]
            /\ num_complete' = [num_complete EXCEPT ![run[c].ses] = run[c].n + 1]
            /\ IF skips
               THEN skipped' = skipped \union {r} /\ changed' = changed
               ELSE Asks(c, r) /\ skipped' = skipped
    /\ UNCHANGED <<made, in_process, ended, scripts, diskvars, load, faults>>

\* The connection is lost after the request was made: the loop makes it again.
RunRetry(c) ==
    /\ run[c].st = "running" /\ Fault
    /\ \E r \in Rows :
        LET h == FormOf[r]
        IN  /\ IsNext(c, r) /\ ~Skips(c, r, h)
            /\ run' = [run EXCEPT ![c].seen = Seen(c, r, {h})]
            /\ Asks(c, r)
    /\ UNCHANGED <<sesvars, diskvars, load, results, skipped>>

RunEnd(c) ==
    /\ run[c].st = "running" /\ run[c].todo = {}
    /\ ended' = ended \union {run[c].ses}
    /\ in_process' = in_process \ {run[c].ses}
    /\ run' = [run EXCEPT ![c].st = "ended"]
    /\ UNCHANGED <<made, scripts, num_complete, diskvars, load, outvars, faults>>

\* mv of every file in the session's directory, over those moved before.
RunArchive(c) ==
    LET s == run[c].ses
    IN  /\ run[c].st = "ended"
        /\ archive' = [archive EXCEPT ![s] =
               [w \in Stations |-> IF Exists(log[s][w]) THEN log[s][w] ELSE archive[s][w]]]
        /\ log' = [log EXCEPT ![s] = [w \in Stations |-> Empty]]
        /\ run' = [run EXCEPT ![c] = [st |-> "done", ses |-> s]]
        /\ UNCHANGED <<sesvars, load, outvars, faults>>

RunDie(c) ==
    /\ run[c].st \in {"forked", "running", "ended"} /\ Fault
    /\ run' = [run EXCEPT ![c] = [st |-> "dead", ses |-> run[c].ses]]
    /\ UNCHANGED <<sesvars, diskvars, load, outvars>>

RunStep(c) == RunBegin(c) \/ RunRow(c) \/ RunEnd(c) \/ RunArchive(c)
LoadStep(w) == LoadWrite(w) \/ LoadScript(w)
FaultStep == \/ \E w \in Stations : LoadNoFile(w) \/ LoadDie(w)
             \/ \E c \in Runs : RunRetry(c) \/ RunDie(c)

-----------------------------------------------------------------------------
LoadOK(l) == \/ l.st \in {"none", "err", "ok"}
             \/ l.st \in {"checked", "written"} /\ l.ses \in Sessions /\ l.body \in File
RunOK(x) ==
    \/ x.st = "none"
    \/ x.st \in {"done", "dead"} /\ x.ses \in Sessions
    \/ /\ x.st \in {"forked", "running", "ended"} /\ x.ses \in Sessions
       /\ x.todo \subseteq Rows /\ x.n \in Nat
       /\ x.seen \subseteq Items /\ x.skip \subseteq x.seen

ServerTypeOK ==
    /\ in_process \subseteq made /\ ended \subseteq made /\ made \subseteq Sessions
    /\ scripts \in [Sessions -> SUBSET Stations]
    /\ {log, archive} \subseteq [Sessions -> [Stations -> File]]
    /\ num_complete \in [Sessions -> Nat]
    /\ \A w \in Stations : LoadOK(load[w])
    /\ \A c \in Runs : RunOK(run[c])
    /\ changed \in [Items -> [at : 0..Now, by : Runs \union {Desk}]]
    /\ results \in File /\ skipped \subseteq Rows
    /\ faults \in 0..MaxFaults

InLog(s, r) == \E w \in scripts[s] : log[s][w][r] + archive[s][w][r] > 0

\* A session that has ended has run every transaction uploaded to it.
EndedIsRun == \A s \in ended : \A r \in Rows : InLog(s, r) => results[r] > 0

\* The transactions of an item in one session are all run or all skipped: a
\* checkout is not replayed without its checkin.  (%seen_barcode)
SkipsWholeItem ==
    \A s \in ended : \A q, r \in Rows :
        (/\ InLog(s, q) /\ InLog(s, r) /\ {FormOf[q], FormOf[r]} \subseteq CircForms
         /\ ItemOf[q] = ItemOf[r])
            => (q \in skipped) = (r \in skipped)

\* An item is skipped for what others did to it, not for what this run did.
SkipsForOthers ==
    [][\A c \in Runs : \A i \in Items :
          (run[c].st = "running" /\ run'[c].st = "running"
           /\ i \in run'[c].skip /\ i \notin run[c].skip) => changed[i].by # c]_servervars
=============================================================================
