---------------------------- MODULE OfflineProofs ----------------------------
(***************************************************************************)
(* Proofs about OfflineStation, and about OfflineCirc, which joins the     *)
(* workstations to the server: nothing keyed is lost at a workstation, a   *)
(* saved row is in one file, and each row reaches the live system once.    *)
(***************************************************************************)
EXTENDS OfflineCirc, FiniteSetTheorems, TLAPS

-----------------------------------------------------------------------------
(* Files.                                                                  *)

LEMMA FileOf ==
    /\ Empty \in File
    /\ \A S : Bag(S) \in File
    /\ \A f, g \in File : Plus(f, g) \in File
BY DEF File, Empty, Bag, Plus

LEMMA AtRow ==
    /\ \A r \in Rows : Empty[r] = 0
    /\ \A S : \A r \in Rows : Bag(S)[r] = IF r \in S THEN 1 ELSE 0
    /\ \A f, g \in File : \A r \in Rows : Plus(f, g)[r] = f[r] + g[r]
BY DEF File, Empty, Bag, Plus

-----------------------------------------------------------------------------
(* Types.                                                                  *)

LEMMA InitType == StationInit => StationTypeOK
BY FileOf DEF StationInit, StationTypeOK

LEMMA TypeStep == StationTypeOK /\ [StationNext]_stationvars => StationTypeOK'
<1> SUFFICES ASSUME StationTypeOK, [StationNext]_stationvars PROVE StationTypeOK'
  OBVIOUS
<1> USE FileOf, RowAssumption DEF StationTypeOK
<1>1. ASSUME NEW r \in Rows, Append(r) PROVE StationTypeOK'
  BY <1>1 DEF Append, Lock, filevars, exportvars, ListForms, Forms
<1>2. ASSUME NEW r \in Rows, Register(r) PROVE StationTypeOK'
  BY <1>2 DEF Register, Unlock, filevars, exportvars, Forms
<1>3. ASSUME NEW w \in Stations, NEW f \in ListForms, Save(w, f) PROVE StationTypeOK'
  BY <1>3 DEF Save, ListOf, Unlock, filevars, exportvars, ListForms, Forms
<1>4. ASSUME NEW w \in Stations, Cancel(w) PROVE StationTypeOK'
  BY <1>4 DEF Cancel, ListOf, filevars, exportvars
<1>5. ASSUME NEW w \in Stations, KeyPatron(w) PROVE StationTypeOK'
  BY <1>5 DEF KeyPatron, Lock, filevars, exportvars, Forms
<1>6. ASSUME NEW w \in Stations, ClearRegister(w) PROVE StationTypeOK'
  BY <1>6 DEF ClearRegister, Unlock, filevars, exportvars, Forms
<1>7. ASSUME NEW w \in Stations, Close(w) PROVE StationTypeOK'
  BY <1>7 DEF Close, Closed, Page, filevars, exportvars
<1>8. ASSUME NEW w \in Stations, CloseConfirmed(w) PROVE StationTypeOK'
  BY <1>8 DEF CloseConfirmed, Closed, Page, filevars, exportvars
<1>9. ASSUME NEW w \in Stations, Crash(w) PROVE StationTypeOK'
  BY <1>9 DEF Crash, ListOf, Closed, Page
<1>10. ASSUME NEW w \in Stations, Export(w) PROVE StationTypeOK'
  BY <1>10 DEF Export, formvars, filevars
<1>11. ASSUME NEW w \in Stations, ExportPurge(w) PROVE StationTypeOK'
  BY <1>11 DEF ExportPurge, formvars, filevars
<1>12. ASSUME NEW w \in Stations, ExportKeep(w) PROVE StationTypeOK'
  BY <1>12 DEF ExportKeep, formvars, filevars
<1>13. ASSUME NEW w \in Stations, ImportAsk(w) PROVE StationTypeOK'
  BY <1>13 DEF ImportAsk, formvars, filevars
<1>14. ASSUME NEW w \in Stations, Import(w) PROVE StationTypeOK'
  BY <1>14 DEF Import, formvars, filevars
<1>15. ASSUME NEW w \in Stations, ImportEnd(w) PROVE StationTypeOK'
  BY <1>15 DEF ImportEnd, formvars, filevars
<1>16. ASSUME NEW w \in Stations, Rename(w) PROVE StationTypeOK'
  BY <1>16 DEF Rename, formvars, exportvars
<1>17. ASSUME NEW w \in Stations, Revert(w) PROVE StationTypeOK'
  BY <1>17 DEF Revert, formvars, exportvars
<1>18. ASSUME NEW w \in Stations, Archive(w) PROVE StationTypeOK'
  BY <1>18 DEF Archive, formvars, exportvars
<1>19. ASSUME NEW w \in Stations, GiveUp(w) PROVE StationTypeOK'
  BY <1>19 DEF GiveUp, formvars, filevars, exportvars
<1>20. ASSUME UNCHANGED stationvars PROVE StationTypeOK'
  BY <1>20 DEF stationvars, formvars, filevars, exportvars
<1>21. QED
  BY <1>1, <1>2, <1>3, <1>4, <1>5, <1>6, <1>7, <1>8, <1>9, <1>10, <1>11, <1>12,
     <1>13, <1>14, <1>15, <1>16, <1>17, <1>18, <1>19, <1>20
  DEF StationNext, FormStep, ExportStep, UploadStep

-----------------------------------------------------------------------------
(* Locks: a row that is only on the screen keeps its form locked, and the  *)
(* window counts its locked forms.                                         *)

Locked(w) == {f \in Forms : local_lock[<<w, f>>]}

\* No row on a list comes from the registration form, which has none.
ListedForms == \A r \in list : FormOf[r] \in ListForms

LockInv == StationTypeOK /\ ListedForms /\ LockedWhileUnsaved /\ LocksCounted

LEMMA FormsFinite == IsFiniteSet(Forms)
<1>1. IsFiniteSet({"checkout"})
  BY FS_Singleton
<1>2. IsFiniteSet({"checkout"} \cup {"renew"})
  BY <1>1, FS_AddElement
<1>3. IsFiniteSet({"checkout"} \cup {"renew"} \cup {"in_house_use"})
  BY <1>2, FS_AddElement
<1>4. IsFiniteSet({"checkout"} \cup {"renew"} \cup {"in_house_use"} \cup {"checkin"})
  BY <1>3, FS_AddElement
<1>5. IsFiniteSet({"checkout"} \cup {"renew"} \cup {"in_house_use"} \cup {"checkin"}
                    \cup {"register"})
  BY <1>4, FS_AddElement
<1>6. Forms = {"checkout"} \cup {"renew"} \cup {"in_house_use"} \cup {"checkin"}
                \cup {"register"}
  BY DEF Forms
<1>7. QED
  BY <1>5, <1>6

LEMMA LockedFinite == \A w : IsFiniteSet(Locked(w))
BY FormsFinite, FS_Subset DEF Locked

LEMMA LockCounts ==
    ASSUME StationTypeOK, LocksCounted, NEW w \in Stations, NEW f \in Forms, Lock(w, f)
    PROVE  LocksCounted'
<1> SUFFICES ASSUME NEW v \in Stations
             PROVE  oils_lock'[v] = Cardinality(Locked(v)')
  BY DEF LocksCounted, Locked
<1>1. oils_lock[v] = Cardinality(Locked(v))
  BY DEF LocksCounted, Locked
<1>2. CASE v # w
  <2>1. Locked(v)' = Locked(v)
    BY <1>2 DEF Locked, Lock, StationTypeOK
  <2>2. oils_lock'[v] = oils_lock[v]
    BY <1>2 DEF Lock, StationTypeOK
  <2>3. QED
    BY <1>1, <2>1, <2>2
<1>3. CASE v = w
  <2>1. Locked(w)' = Locked(w) \cup {f}
    BY DEF Locked, Lock, StationTypeOK
  <2>2. f \in Locked(w) <=> local_lock[<<w, f>>]
    BY DEF Locked
  <2>3. oils_lock'[w] = oils_lock[w] + IF local_lock[<<w, f>>] THEN 0 ELSE 1
    BY DEF Lock, StationTypeOK
  <2>4. Cardinality(Locked(w) \cup {f}) =
            IF f \in Locked(w) THEN Cardinality(Locked(w)) ELSE Cardinality(Locked(w)) + 1
    BY LockedFinite, FS_AddElement
  <2>5. QED
    BY <1>1, <1>3, <2>1, <2>2, <2>3, <2>4 DEF StationTypeOK
<1>4. QED
  BY <1>2, <1>3

LEMMA UnlockCounts ==
    ASSUME StationTypeOK, LocksCounted, NEW w \in Stations, NEW f \in Forms, Unlock(w, f)
    PROVE  LocksCounted'
<1> SUFFICES ASSUME NEW v \in Stations
             PROVE  oils_lock'[v] = Cardinality(Locked(v)')
  BY DEF LocksCounted, Locked
<1>1. oils_lock[v] = Cardinality(Locked(v))
  BY DEF LocksCounted, Locked
<1>2. CASE v # w
  <2>1. Locked(v)' = Locked(v)
    BY <1>2 DEF Locked, Unlock, StationTypeOK
  <2>2. oils_lock'[v] = oils_lock[v]
    BY <1>2 DEF Unlock, StationTypeOK
  <2>3. QED
    BY <1>1, <2>1, <2>2
<1>3. CASE v = w
  <2>1. Locked(w)' = Locked(w) \ {f}
    BY DEF Locked, Unlock, StationTypeOK
  <2>2. f \in Locked(w) <=> local_lock[<<w, f>>]
    BY DEF Locked
  <2>3. Cardinality(Locked(w) \ {f}) =
            IF f \in Locked(w) THEN Cardinality(Locked(w)) - 1 ELSE Cardinality(Locked(w))
    BY LockedFinite, FS_RemoveElement
  <2>4. f \in Locked(w) => Cardinality(Locked(w)) > 0
    <3>1. f \in Locked(w) => Cardinality(Locked(w)) # 0
      BY LockedFinite, FS_EmptySet
    <3>2. Cardinality(Locked(w)) \in Nat
      BY <1>1, <1>3 DEF StationTypeOK
    <3>3. QED
      BY <3>1, <3>2
  <2>5. oils_lock'[w] = IF local_lock[<<w, f>>] /\ oils_lock[w] > 0
                        THEN oils_lock[w] - 1 ELSE oils_lock[w]
    BY DEF Unlock, StationTypeOK
  <2>6. QED
    BY <1>1, <1>3, <2>1, <2>2, <2>3, <2>4, <2>5 DEF StationTypeOK
<1>4. QED
  BY <1>2, <1>3

LEMMA ClosedCounts ==
    ASSUME StationTypeOK, LocksCounted, NEW w \in Stations, Closed(w)
    PROVE  LocksCounted'
<1> SUFFICES ASSUME NEW v \in Stations
             PROVE  oils_lock'[v] = Cardinality(Locked(v)')
  BY DEF LocksCounted, Locked
<1>1. CASE v # w
  <2>1. Locked(v)' = Locked(v)
    BY <1>1 DEF Locked, Closed, Page, StationTypeOK
  <2>2. oils_lock'[v] = oils_lock[v]
    BY <1>1 DEF Closed, StationTypeOK
  <2>3. QED
    BY <2>1, <2>2 DEF LocksCounted, Locked
<1>2. CASE v = w
  <2>1. Locked(w)' = {}
    BY DEF Locked, Closed, Page, StationTypeOK
  <2>2. oils_lock'[w] = 0
    BY DEF Closed, StationTypeOK
  <2>3. QED
    BY <1>2, <2>1, <2>2, FS_EmptySet
<1>3. QED
  BY <1>1, <1>2

\* What only shortens the list, or leaves it, and the locks alone.
LEMMA Unlocked ==
    ASSUME LockInv, list' \subseteq list, written' = written,
           local_lock' = local_lock, oils_lock' = oils_lock
    PROVE  ListedForms' /\ LockedWhileUnsaved' /\ LocksCounted'
<1>1. ListedForms' /\ LockedWhileUnsaved'
  BY DEF LockInv, ListedForms, LockedWhileUnsaved
<1>2. LocksCounted'
  BY DEF LockInv, LocksCounted
<1>3. QED
  BY <1>1, <1>2

LEMMA ClosedKeeps ==
    ASSUME LockInv, NEW w \in Stations, Closed(w), written \subseteq written'
    PROVE  ListedForms' /\ LockedWhileUnsaved' /\ LocksCounted'
<1>1. ListedForms'
  BY DEF LockInv, ListedForms, Closed
<1>2. LockedWhileUnsaved'
  BY RowAssumption DEF LockInv, LockedWhileUnsaved, Closed, Page, StationTypeOK
<1>3. LocksCounted'
  BY ClosedCounts DEF LockInv
<1>4. QED
  BY <1>1, <1>2, <1>3

LEMMA InitLock == StationInit => LockInv
<1> SUFFICES ASSUME StationInit PROVE LockInv
  OBVIOUS
<1>1. ListedForms /\ LockedWhileUnsaved
  BY DEF StationInit, ListedForms, LockedWhileUnsaved
<1>2. ASSUME NEW w \in Stations
      PROVE  oils_lock[w] = Cardinality({f \in Forms : local_lock[<<w, f>>]})
  <2>1. {f \in Forms : local_lock[<<w, f>>]} = {}
    BY DEF StationInit
  <2>2. QED
    BY <2>1, FS_EmptySet DEF StationInit
<1>3. QED
  BY <1>1, <1>2, InitType DEF LockInv, LocksCounted

LEMMA LockStep == LockInv /\ [StationNext]_stationvars => LockInv'
<1> SUFFICES ASSUME LockInv, [StationNext]_stationvars PROVE LockInv'
  OBVIOUS
<1>t. StationTypeOK /\ StationTypeOK'
  BY TypeStep DEF LockInv
<1> DEFINE Kept == ListedForms' /\ LockedWhileUnsaved' /\ LocksCounted'
<1>1. ASSUME NEW r \in Rows, Append(r) PROVE Kept
  <2>1. FormOf[r] \in Forms /\ StationOf[r] \in Stations
    BY RowAssumption
  <2>2. LocksCounted'
    BY <1>1, <2>1, LockCounts DEF LockInv, Append
  <2>3. ListedForms'
    BY <1>1 DEF LockInv, ListedForms, Append
  <2>4. LockedWhileUnsaved'
    BY <1>1, <2>1, RowAssumption DEF LockInv, LockedWhileUnsaved, Append, Lock, StationTypeOK
  <2>5. QED
    BY <2>2, <2>3, <2>4
<1>2. ASSUME NEW r \in Rows, Register(r) PROVE Kept
  <2>1. StationOf[r] \in Stations /\ "register" \in Forms
    BY RowAssumption DEF Forms
  <2>2. LocksCounted'
    BY <1>2, <2>1, UnlockCounts DEF LockInv, Register
  <2>3. ListedForms'
    BY <1>2 DEF LockInv, ListedForms, Register
  <2>4. LockedWhileUnsaved'
    BY <1>2, <2>1, RowAssumption
    DEF LockInv, ListedForms, ListForms, LockedWhileUnsaved, Register, Unlock, StationTypeOK
  <2>5. QED
    BY <2>2, <2>3, <2>4
<1>3. ASSUME NEW w \in Stations, NEW f \in ListForms, Save(w, f) PROVE Kept
  <2>1. f \in Forms
    BY DEF ListForms
  <2>2. LocksCounted'
    BY <1>3, <2>1, UnlockCounts DEF LockInv, Save
  <2>3. list' \subseteq list
    BY <1>3 DEF Save
  <2>4. ListedForms'
    BY <2>3 DEF LockInv, ListedForms
  <2>5. LockedWhileUnsaved'
    <3> SUFFICES ASSUME NEW r \in list' \ written'
                 PROVE  local_lock'[<<StationOf[r], FormOf[r]>>]
      BY DEF LockedWhileUnsaved
    <3>1. r \in list \ written /\ r \notin ListOf(w, f)
      BY <1>3, <2>3 DEF Save
    <3>2. <<StationOf[r], FormOf[r]>> # <<w, f>>
      BY <3>1 DEF ListOf
    <3>3. local_lock[<<StationOf[r], FormOf[r]>>]
      BY <3>1 DEF LockInv, LockedWhileUnsaved
    <3>4. r \in Rows /\ StationOf[r] \in Stations /\ FormOf[r] \in Forms
      BY <3>1, RowAssumption DEF LockInv, StationTypeOK
    <3>5. QED
      BY <1>3, <2>1, <3>2, <3>3, <3>4 DEF Save, Unlock, LockInv, StationTypeOK
  <2>6. QED
    BY <2>2, <2>4, <2>5
<1>4. ASSUME NEW w \in Stations, Cancel(w) PROVE Kept
  BY <1>4, Unlocked DEF Cancel
<1>5. ASSUME NEW w \in Stations, KeyPatron(w) PROVE Kept
  <2>1. LocksCounted'
    BY <1>5, LockCounts DEF LockInv, KeyPatron, Forms
  <2>2. ListedForms'
    BY <1>5 DEF LockInv, ListedForms, KeyPatron
  <2>3. LockedWhileUnsaved'
    BY <1>5, RowAssumption DEF LockInv, LockedWhileUnsaved, KeyPatron, Lock, StationTypeOK
  <2>4. QED
    BY <2>1, <2>2, <2>3
<1>6. ASSUME NEW w \in Stations, ClearRegister(w) PROVE Kept
  <2>1. LocksCounted'
    BY <1>6, UnlockCounts DEF LockInv, ClearRegister, Forms
  <2>2. ListedForms'
    BY <1>6 DEF LockInv, ListedForms, ClearRegister
  <2>3. LockedWhileUnsaved'
    BY <1>6, RowAssumption
    DEF LockInv, ListedForms, ListForms, LockedWhileUnsaved, ClearRegister, Unlock, StationTypeOK
  <2>4. QED
    BY <2>1, <2>2, <2>3
<1>7. ASSUME NEW w \in Stations, Close(w) PROVE Kept
  BY <1>7, ClosedKeeps DEF Close
<1>8. ASSUME NEW w \in Stations, CloseConfirmed(w) PROVE Kept
  BY <1>8, ClosedKeeps DEF CloseConfirmed
<1>9. ASSUME NEW w \in Stations, Crash(w) PROVE Kept
  <2>1. Closed(w) /\ written \subseteq written'
    BY <1>9 DEF Crash
  <2>2. QED
    BY <2>1, ClosedKeeps
<1>10. ASSUME NEW w \in Stations, ExportStep(w) PROVE Kept
  <2>1. UNCHANGED formvars
    BY <1>10 DEF ExportStep, Export, ExportPurge, ExportKeep, ImportAsk, Import, ImportEnd
  <2>2. QED
    BY <2>1, Unlocked DEF formvars
<1>11. ASSUME NEW w \in Stations, UploadStep(w) PROVE Kept
  <2>1. UNCHANGED formvars
    BY <1>11 DEF UploadStep, Rename, Revert, Archive, GiveUp
  <2>2. QED
    BY <2>1, Unlocked DEF formvars
<1>12. ASSUME UNCHANGED stationvars PROVE Kept
  BY <1>12, Unlocked DEF stationvars, formvars
<1>13. Kept
  BY <1>1, <1>2, <1>3, <1>4, <1>5, <1>6, <1>7, <1>8, <1>9, <1>10, <1>11, <1>12
  DEF StationNext, FormStep
<1>14. QED
  BY <1>t, <1>13 DEF LockInv

\* Types: the lists show only rows that were keyed, and every file holds each
\* row a natural number of times.
THEOREM TypeCorrect == StationSpec => []StationTypeOK
<1>1. StationInit => StationTypeOK
  BY InitType
<1>2. StationTypeOK /\ [StationNext]_stationvars => StationTypeOK'
  BY TypeStep
<1>3. QED
  BY <1>1, <1>2, PTL DEF StationSpec

THEOREM LocksInvariant == StationSpec => []LockInv
<1>1. StationInit => LockInv
  BY InitLock
<1>2. LockInv /\ [StationNext]_stationvars => LockInv'
  BY LockStep
<1>3. QED
  BY <1>1, <1>2, PTL DEF StationSpec

\* A row that is only on the screen keeps its form locked.
THEOREM UnsavedIsLocked == StationSpec => []LockedWhileUnsaved
<1>1. LockInv => LockedWhileUnsaved
  BY DEF LockInv
<1>2. QED
  BY <1>1, LocksInvariant, PTL

\* The window counts its locked forms.
THEOREM LocksAreCounted == StationSpec => []LocksCounted
<1>1. LockInv => LocksCounted
  BY DEF LockInv
<1>2. QED
  BY <1>1, LocksInvariant, PTL

\* A window without locks shows nothing that is not saved.
LEMMA UnlockedShowsSaved ==
    ASSUME LockInv, NEW w \in Stations, oils_lock[w] = 0
    PROVE  {r \in list : StationOf[r] = w} \subseteq written
<1>1. Locked(w) = {}
  <2>1. Cardinality(Locked(w)) = 0
    BY DEF LockInv, LocksCounted, Locked
  <2>2. QED
    BY <2>1, LockedFinite, FS_EmptySet
<1>2. ASSUME NEW r \in list, StationOf[r] = w, r \notin written PROVE FALSE
  <2>1. local_lock[<<w, FormOf[r]>>]
    BY <1>2 DEF LockInv, LockedWhileUnsaved
  <2>2. FormOf[r] \in Locked(w)
    BY <2>1, RowAssumption DEF Locked, LockInv, StationTypeOK
  <2>3. QED
    BY <1>1, <2>2
<1>3. QED
  BY <1>2

\* Closing without a question throws no unsaved row away.
THEOREM ClosingLosesNothing == StationSpec => CloseLosesNothing
<1>1. LockInv =>
        [\A w \in Stations : Close(w) =>
            {r \in list : StationOf[r] = w} \subseteq written]_stationvars
  BY UnlockedShowsSaved DEF Close
<1>2. QED
  BY <1>1, LocksInvariant, PTL DEF CloseLosesNothing

-----------------------------------------------------------------------------
(* Files: what is saved stays in some file, and without copies put aside   *)
(* by hand in one file only.                                               *)

\* What a step of a workstation's forms and uploads does to its files: new
\* rows are written once, every other row stays in the files it is in, or
\* moves from one to another of them.
Moves(w, S) ==
    /\ written' = written \cup S
    /\ \A r \in Rows : \A v \in Stations :
          CopiesAt(r, v)' = CopiesAt(r, v) + IF v = w /\ r \in S THEN 1 ELSE 0
    /\ \A v \in Stations : v # w => pending'[v] = pending[v]
    /\ \A v \in Stations : dialog'[v] \in {dialog[v], "none"}

\* The rows it writes are keyed at the workstation, and new if nothing that
\* was saved is still on a list; if every receipt prints this stays so.
Fresh(w, S) ==
    /\ S \subseteq {r \in Rows : StationOf[r] = w}
    /\ list \cap written = {} => S \cap written = {}
    /\ PrintFails = {} /\ list \cap written = {} => list' \cap written' = {}

LEMMA Copies ==
    ASSUME StationTypeOK, NEW r \in Rows, NEW w \in Stations
    PROVE  /\ {pending[w][r], transition[w][r], left[w][r], complete[w][r], exported[w][r]}
                  \subseteq Nat
           /\ CopiesAt(r, w) = pending[w][r] + transition[w][r] + left[w][r]
                                 + complete[w][r] + exported[w][r]
           /\ CopiesAt(r, w) \in Nat
BY DEF StationTypeOK, File, CopiesAt, Uploadable

\* A step that writes the rows S to the pending file, once each.
LEMMA Writing ==
    ASSUME StationTypeOK, NEW w \in Stations, NEW S \in SUBSET Rows,
           pending' = [pending EXCEPT ![w] = Plus(@, Bag(S))],
           written' = written \cup S,
           UNCHANGED <<filevars, exported, dialog>>
    PROVE  Moves(w, S)
<1>1. ASSUME NEW r \in Rows, NEW v \in Stations
      PROVE  CopiesAt(r, v)' = CopiesAt(r, v) + IF v = w /\ r \in S THEN 1 ELSE 0
  <2>1. Plus(pending[w], Bag(S))[r] = pending[w][r] + IF r \in S THEN 1 ELSE 0
    <3>1. pending[w] \in File /\ Bag(S) \in File
      BY FileOf DEF StationTypeOK
    <3>2. Plus(pending[w], Bag(S))[r] = pending[w][r] + Bag(S)[r]
      BY <3>1, AtRow
    <3>3. Bag(S)[r] = IF r \in S THEN 1 ELSE 0
      BY AtRow
    <3>4. QED
      BY <3>2, <3>3
  <2>2. pending'[v][r] = pending[v][r] + IF v = w /\ r \in S THEN 1 ELSE 0
    BY <2>1, Copies DEF StationTypeOK
  <2>3. QED
    BY <2>2, Copies DEF CopiesAt, Uploadable, filevars
<1>2. QED
  BY <1>1 DEF Moves, StationTypeOK

\* A step that writes nothing new and leaves the lists alone or shortens them.
LEMMA NothingNew ==
    ASSUME StationTypeOK, NEW w \in Stations, list' \subseteq list, written' = written
    PROVE  Fresh(w, {})
BY DEF Fresh

\* Every step of the forms.
LEMMA FormMoves ==
    ASSUME StationTypeOK, NEW w \in Stations, FormStep(w)
    PROVE  \E S \in SUBSET Rows : Moves(w, S) /\ Fresh(w, S)
<1>1. ASSUME NEW r \in Rows, StationOf[r] = w, Append(r)
      PROVE  Moves(w, {}) /\ Fresh(w, {})
  <2>1. written' = written /\ r \notin written /\ list' = list \cup {r}
    BY <1>1 DEF Append, StationTypeOK
  <2>2. Fresh(w, {})
    BY <2>1 DEF Fresh
  <2>3. Moves(w, {})
    BY <1>1, Copies DEF Append, Moves, CopiesAt, Uploadable, filevars, exportvars, StationTypeOK
  <2>4. QED
    BY <2>2, <2>3
<1>2. ASSUME NEW r \in Rows, StationOf[r] = w, Register(r)
      PROVE  Moves(w, {r}) /\ Fresh(w, {r})
  <2>1. Moves(w, {r})
    BY <1>2, Writing DEF Register, exportvars
  <2>2. Fresh(w, {r})
    BY <1>2 DEF Register, Fresh, StationTypeOK
  <2>3. QED
    BY <2>1, <2>2
<1>3. ASSUME NEW f \in ListForms, Save(w, f)
      PROVE  Moves(w, ListOf(w, f)) /\ Fresh(w, ListOf(w, f)) /\ ListOf(w, f) \in SUBSET Rows
  <2>1. ListOf(w, f) \in SUBSET Rows
    BY DEF ListOf, StationTypeOK
  <2>2. Moves(w, ListOf(w, f))
    BY <1>3, <2>1, Writing DEF Save, exportvars
  <2>3. ListOf(w, f) \subseteq list /\ \A r \in ListOf(w, f) : StationOf[r] = w
    BY DEF ListOf
  <2>4. /\ written' = written \cup ListOf(w, f)
        /\ list' = list \ ListOf(w, f) \/ (f \in PrintFails /\ list' = list)
    BY <1>3 DEF Save
  <2>5. Fresh(w, ListOf(w, f))
    BY <2>1, <2>3, <2>4 DEF Fresh
  <2>6. QED
    BY <2>1, <2>2, <2>5
<1>4. ASSUME Crash(w)
      PROVE  \E S \in SUBSET Rows : Moves(w, S) /\ Fresh(w, S)
  <2>1. PICK f \in ListForms : \E S \in SUBSET ListOf(w, f) :
            /\ pending' = [pending EXCEPT ![w] = Plus(@, Bag(S))]
            /\ written' = written \cup S
    BY <1>4 DEF Crash
  <2>s. PICK S \in SUBSET ListOf(w, f) :
            /\ pending' = [pending EXCEPT ![w] = Plus(@, Bag(S))]
            /\ written' = written \cup S
    BY <2>1
  <2>2. S \in SUBSET Rows /\ S \subseteq list /\ \A r \in S : StationOf[r] = w
    BY <2>s DEF ListOf, StationTypeOK
  <2>3. Fresh(w, S)
    BY <1>4, <2>s, <2>2 DEF Crash, Closed, Fresh
  <2>4. ASSUME NEW r \in Rows, NEW v \in Stations
        PROVE  CopiesAt(r, v)' = CopiesAt(r, v) + IF v = w /\ r \in S THEN 1 ELSE 0
    <3>1. /\ pending[w] \in File /\ Bag(S) \in File
          /\ left[w] \in File /\ transition[w] \in File
      BY FileOf DEF StationTypeOK
    <3>2. Plus(pending[w], Bag(S))[r] = pending[w][r] + IF r \in S THEN 1 ELSE 0
      <4>1. Plus(pending[w], Bag(S))[r] = pending[w][r] + Bag(S)[r]
        BY <3>1, AtRow
      <4>2. Bag(S)[r] = IF r \in S THEN 1 ELSE 0
        BY AtRow
      <4>3. QED
        BY <4>1, <4>2
    <3>3. Plus(left[w], transition[w])[r] = left[w][r] + transition[w][r]
      BY <3>1, AtRow
    <3>4. pending'[v][r] = pending[v][r] + IF v = w /\ r \in S THEN 1 ELSE 0
      BY <2>s, <3>2, Copies DEF StationTypeOK
    <3>5. /\ left'[v][r] \in Nat /\ transition'[v][r] \in Nat
          /\ left'[v][r] + transition'[v][r] = left[v][r] + transition[v][r]
      <4>1. CASE v = w
        <5>1. left'[v][r] = left[w][r] + transition[w][r]
          BY <1>4, <3>3, <4>1 DEF Crash, StationTypeOK
        <5>2. transition'[v][r] = 0
          BY <1>4, <4>1, AtRow DEF Crash, StationTypeOK
        <5>3. QED
          BY <4>1, <5>1, <5>2, Copies
      <4>2. CASE v # w
        BY <1>4, <4>2, Copies DEF Crash, StationTypeOK
      <4>3. QED
        BY <4>1, <4>2
    <3>6. complete'[v][r] = complete[v][r] /\ exported'[v][r] = exported[v][r]
      BY <1>4 DEF Crash
    <3>7. QED
      <4>1. CopiesAt(r, v)' = pending'[v][r] + transition'[v][r] + left'[v][r]
                                + complete'[v][r] + exported'[v][r]
        BY DEF CopiesAt, Uploadable
      <4>2. CopiesAt(r, v) = pending[v][r] + transition[v][r] + left[v][r]
                               + complete[v][r] + exported[v][r]
        BY DEF CopiesAt, Uploadable
      <4>3. /\ pending[v][r] \in Nat /\ transition[v][r] \in Nat /\ left[v][r] \in Nat
            /\ complete[v][r] \in Nat /\ exported[v][r] \in Nat
        BY Copies
      <4>4. QED
        BY <3>4, <3>5, <3>6, <4>1, <4>2, <4>3, SMTT(30)
  <2>5. Moves(w, S)
    BY <1>4, <2>s, <2>4 DEF Moves, Crash, StationTypeOK
  <2>6. QED
    BY <2>2, <2>3, <2>5
<1>5. ASSUME \/ Cancel(w) \/ KeyPatron(w) \/ ClearRegister(w)
             \/ Close(w) \/ CloseConfirmed(w)
      PROVE  Moves(w, {}) /\ Fresh(w, {})
  <2>1. /\ list' \subseteq list
        /\ UNCHANGED <<written, pending, filevars, exportvars>>
    BY <1>5 DEF Cancel, KeyPatron, ClearRegister, Close, CloseConfirmed, Closed
  <2>2. Moves(w, {})
    BY <2>1, Copies DEF Moves, CopiesAt, Uploadable, filevars, exportvars, StationTypeOK
  <2>3. QED
    BY <2>1, <2>2, NothingNew
<1>6. QED
  BY <1>1, <1>2, <1>3, <1>4, <1>5 DEF FormStep

\* Every step of an upload, whatever the answer.
LEMMA UploadMoves ==
    ASSUME StationTypeOK, NEW w \in Stations, UploadStep(w)
    PROVE  Moves(w, {}) /\ Fresh(w, {})
<1>1. UNCHANGED <<formvars, exportvars>>
  BY DEF UploadStep, Rename, Revert, Archive, GiveUp
<1>2. ASSUME NEW r \in Rows, NEW v \in Stations
      PROVE  CopiesAt(r, v)' = CopiesAt(r, v)
  <2>1. /\ pending[v][r] \in Nat /\ transition[v][r] \in Nat /\ left[v][r] \in Nat
        /\ complete[v][r] \in Nat /\ exported[v][r] \in Nat
    BY Copies
  <2>2. /\ transition[w] \in File /\ left[w] \in File /\ complete[w] \in File
    BY DEF StationTypeOK
  <2>3. /\ Plus(left[w], transition[w])[r] = left[w][r] + transition[w][r]
        /\ Plus(complete[w], transition[w])[r] = complete[w][r] + transition[w][r]
        /\ Empty[r] = 0
    BY <2>2, AtRow
  <2>4. CASE Rename(w)
    BY <2>1, <2>3, <2>4 DEF Rename, CopiesAt, Uploadable, exportvars, StationTypeOK
  <2>5. CASE Revert(w)
    <3>1. CASE Exists(pending[w])
      BY <2>5, <3>1 DEF Revert, CopiesAt, Uploadable, exportvars
    <3>2. CASE ~Exists(pending[w])
      <4>1. pending[w][r] = 0
        BY <3>2, AtRow DEF Exists
      <4>2. QED
        BY <2>1, <2>3, <2>5, <3>2, <4>1
        DEF Revert, CopiesAt, Uploadable, exportvars, StationTypeOK
    <3>3. QED
      BY <3>1, <3>2
  <2>6. CASE Archive(w)
    BY <2>1, <2>3, <2>6 DEF Archive, CopiesAt, Uploadable, exportvars, StationTypeOK
  <2>7. CASE GiveUp(w)
    BY <2>7 DEF GiveUp, CopiesAt, Uploadable, filevars, exportvars
  <2>8. QED
    BY <2>4, <2>5, <2>6, <2>7 DEF UploadStep
<1>3. \A v \in Stations : v # w => pending'[v] = pending[v]
  BY DEF UploadStep, Rename, Revert, Archive, GiveUp, StationTypeOK
<1>4. Moves(w, {})
  BY <1>1, <1>2, <1>3, Copies DEF Moves, formvars, exportvars
<1>5. QED
  BY <1>1, <1>4, NothingNew DEF formvars

-----------------------------------------------------------------------------
(* What is saved is kept: when the dialogs of the login window are dealt   *)
(* with before another window is used, an import writes over nothing.      *)

ImportsOverNothing ==
    \A w \in Stations : dialog[w] = "importing" => ~Exists(pending[w])

InSomeFile == \A r \in written : \E w \in Stations : CopiesAt(r, w) > 0

KeptInv == StationTypeOK /\ ImportsOverNothing /\ InSomeFile

LEMMA MovesKeeps ==
    ASSUME KeptInv, StationTypeOK', NEW w \in Stations, dialog[w] = "none",
           NEW S \in SUBSET Rows, Moves(w, S)
    PROVE  ImportsOverNothing' /\ InSomeFile'
<1>1. ImportsOverNothing'
  BY DEF KeptInv, ImportsOverNothing, Moves
<1>2. InSomeFile'
  <2> SUFFICES ASSUME NEW r \in written'
               PROVE  \E v \in Stations : CopiesAt(r, v)' > 0
    BY DEF InSomeFile
  <2>1. r \in Rows /\ (r \in written \/ r \in S)
    BY DEF KeptInv, StationTypeOK, Moves
  <2>2. CASE r \in S
    <3>1. CopiesAt(r, w)' = CopiesAt(r, w) + 1
      BY <2>1, <2>2 DEF Moves
    <3>2. QED
      BY <2>1, <3>1, Copies DEF KeptInv
  <2>3. CASE r \in written
    <3>1. PICK v \in Stations : CopiesAt(r, v) > 0
      BY <2>3 DEF KeptInv, InSomeFile
    <3>2. CopiesAt(r, v)' = CopiesAt(r, v) + IF v = w /\ r \in S THEN 1 ELSE 0
      BY <2>1 DEF Moves
    <3>3. CopiesAt(r, v)' > 0
      BY <2>1, <3>1, <3>2, Copies DEF KeptInv
    <3>4. QED
      BY <3>3
  <2>4. QED
    BY <2>1, <2>2, <2>3
<1>3. QED
  BY <1>1, <1>2

LEMMA ExportKeeps ==
    ASSUME KeptInv, NEW w \in Stations, ExportStep(w)
    PROVE  ImportsOverNothing' /\ InSomeFile'
<1>1. UNCHANGED <<formvars, filevars>>
  BY DEF ExportStep, Export, ExportPurge, ExportKeep, ImportAsk, Import, ImportEnd
<1>2. ASSUME NEW r \in Rows, NEW v \in Stations
      PROVE  CopiesAt(r, v)' \in Nat /\ CopiesAt(r, v)' >= CopiesAt(r, v)
  <2>1. /\ pending[v][r] \in Nat /\ transition[v][r] \in Nat /\ left[v][r] \in Nat
        /\ complete[v][r] \in Nat /\ exported[v][r] \in Nat
    BY Copies DEF KeptInv
  <2>2. CASE Export(w) \/ ExportKeep(w) \/ ImportAsk(w) \/ ImportEnd(w)
    BY <2>1, <2>2
    DEF Export, ExportKeep, ImportAsk, ImportEnd, CopiesAt, Uploadable, filevars
  <2>3. CASE ExportPurge(w)
    <3>1. pending[w] \in File /\ exported[w] \in File
      BY DEF KeptInv, StationTypeOK
    <3>2. /\ Plus(exported[w], pending[w])[r] = exported[w][r] + pending[w][r]
          /\ Empty[r] = 0
      BY <3>1, AtRow
    <3>3. QED
      BY <2>1, <2>3, <3>2
      DEF ExportPurge, CopiesAt, Uploadable, filevars, KeptInv, StationTypeOK
  <2>4. CASE Import(w)
    <3>1. pending[w][r] = 0 /\ medium[r] \in Nat
      BY <2>4, AtRow
      DEF Import, KeptInv, ImportsOverNothing, Exists, StationTypeOK, File
    <3>2. QED
      BY <2>1, <2>4, <3>1
      DEF Import, CopiesAt, Uploadable, filevars, KeptInv, StationTypeOK
  <2>5. QED
    BY <2>2, <2>3, <2>4 DEF ExportStep
<1>3. InSomeFile'
  <2> SUFFICES ASSUME NEW r \in written'
               PROVE  \E v \in Stations : CopiesAt(r, v)' > 0
    BY DEF InSomeFile
  <2>1. r \in Rows /\ r \in written
    BY <1>1 DEF KeptInv, StationTypeOK, formvars
  <2>2. PICK v \in Stations : CopiesAt(r, v) > 0
    BY <2>1 DEF KeptInv, InSomeFile
  <2>3. CopiesAt(r, v)' \in Nat /\ CopiesAt(r, v)' >= CopiesAt(r, v) /\ CopiesAt(r, v) \in Nat
    BY <1>2, <2>1, Copies DEF KeptInv
  <2>4. QED
    BY <2>2, <2>3
<1>4. ImportsOverNothing'
  <2>1. CASE ImportAsk(w)
    BY <2>1 DEF ImportAsk, KeptInv, ImportsOverNothing, StationTypeOK
  <2>2. CASE Export(w) \/ ExportPurge(w) \/ ExportKeep(w) \/ Import(w) \/ ImportEnd(w)
    BY <2>2 DEF Export, ExportPurge, ExportKeep, Import, ImportEnd,
                KeptInv, ImportsOverNothing, StationTypeOK
  <2>3. QED
    BY <2>1, <2>2 DEF ExportStep
<1>5. QED
  BY <1>3, <1>4

\* A row that was saved stays in some file.
THEOREM SavedRowsKept == ~Beside => (StationSpec => []SavedIsKept)
<1> SUFFICES ASSUME ~Beside PROVE StationSpec => []SavedIsKept
  OBVIOUS
<1>1. StationInit => KeptInv
  BY InitType DEF StationInit, KeptInv, ImportsOverNothing, InSomeFile
<1>2. KeptInv /\ [StationNext]_stationvars => KeptInv'
  <2> SUFFICES ASSUME KeptInv, [StationNext]_stationvars PROVE KeptInv'
    OBVIOUS
  <2>1. StationTypeOK'
    BY TypeStep DEF KeptInv
  <2>2. ASSUME NEW w \in Stations, dialog[w] = "none", FormStep(w) \/ UploadStep(w)
        PROVE  KeptInv'
    <3>1. \E S \in SUBSET Rows : Moves(w, S)
      BY <2>2, FormMoves, UploadMoves DEF KeptInv
    <3>2. QED
      BY <2>1, <2>2, <3>1, MovesKeeps DEF KeptInv
  <2>3. ASSUME NEW w \in Stations, ExportStep(w) PROVE KeptInv'
    BY <2>1, <2>3, ExportKeeps DEF KeptInv
  <2>4. CASE UNCHANGED stationvars
    BY <2>4 DEF KeptInv, StationTypeOK, ImportsOverNothing, InSomeFile, CopiesAt, Uploadable,
                stationvars, formvars, filevars, exportvars
  <2>5. QED
    BY <2>2, <2>3, <2>4 DEF StationNext
<1>3. KeptInv => SavedIsKept
  BY DEF KeptInv, InSomeFile, SavedIsKept
<1>4. QED
  BY <1>1, <1>2, <1>3, PTL DEF StationSpec

-----------------------------------------------------------------------------
(* ... and in one file only, once, when no copies are put aside by hand    *)
(* and every receipt prints: rows are written from a list they then leave, *)
(* and an upload moves them from file to file.                             *)

OneCopy ==
    \A r \in Rows : \A w \in Stations :
        CopiesAt(r, w) = IF w = StationOf[r] /\ r \in written THEN 1 ELSE 0

OnceInv ==
    /\ StationTypeOK /\ OneCopy
    /\ list \cap written = {}
    /\ NoDialog

\* Every step of the forms and of an upload keeps one copy of every saved row.
LEMMA OnceKept ==
    ASSUME PrintFails = {}, OnceInv, NEW w \in Stations, FormStep(w) \/ UploadStep(w)
    PROVE  OnceInv'
<1>1. StationTypeOK'
  <2>1. StationNext
    BY DEF OnceInv, NoDialog, StationNext
  <2>2. QED
    BY <2>1, TypeStep DEF OnceInv
<1>2. PICK S \in SUBSET Rows : Moves(w, S) /\ Fresh(w, S)
  BY FormMoves, UploadMoves DEF OnceInv
<1>3. list' \cap written' = {} /\ S \cap written = {} /\ written' = written \cup S
  BY <1>2 DEF OnceInv, Fresh, Moves
<1>4. NoDialog'
  BY <1>2 DEF OnceInv, NoDialog, Moves
<1>5. OneCopy'
  <2> SUFFICES ASSUME NEW r \in Rows, NEW v \in Stations
               PROVE  CopiesAt(r, v)' = IF v = StationOf[r] /\ r \in written' THEN 1 ELSE 0
    BY DEF OneCopy
  <2>1. CopiesAt(r, v) = IF v = StationOf[r] /\ r \in written THEN 1 ELSE 0
    BY DEF OnceInv, OneCopy
  <2>2. CopiesAt(r, v)' = CopiesAt(r, v) + IF v = w /\ r \in S THEN 1 ELSE 0
    BY <1>2 DEF Moves
  <2>3. r \in S => StationOf[r] = w /\ r \notin written
    BY <1>2, <1>3 DEF Fresh
  <2>4. QED
    BY <1>3, <2>1, <2>2, <2>3
<1>6. QED
  BY <1>1, <1>3, <1>4, <1>5 DEF OnceInv

LEMMA InitOnce == StationInit => OnceInv
<1> SUFFICES ASSUME StationInit PROVE OneCopy
  BY InitType DEF StationInit, OnceInv, NoDialog
<1>1. QED
  BY AtRow DEF StationInit, OneCopy, CopiesAt, Uploadable

\* No sequence of uploads, refusals, conflicts and crashes leaves two copies.
THEOREM SavedOnceInAFile ==
    ~Exporting /\ PrintFails = {} => (StationSpec => []SavedOnce)
<1> SUFFICES ASSUME ~Exporting, PrintFails = {} PROVE StationSpec => []SavedOnce
  OBVIOUS
<1>1. StationInit => OnceInv
  BY InitOnce
<1>2. OnceInv /\ [StationNext]_stationvars => OnceInv'
  <2> SUFFICES ASSUME OnceInv, [StationNext]_stationvars PROVE OnceInv'
    OBVIOUS
  <2>1. ASSUME NEW w \in Stations, FormStep(w) \/ UploadStep(w)
        PROVE  OnceInv'
    BY <2>1, OnceKept
  <2>2. ASSUME NEW w \in Stations, ExportStep(w) PROVE FALSE
    BY <2>2 DEF OnceInv, NoDialog, ExportStep, Export, ExportPurge, ExportKeep,
                ImportAsk, Import, ImportEnd
  <2>3. CASE UNCHANGED stationvars
    BY <2>3 DEF OnceInv, StationTypeOK, OneCopy, CopiesAt, Uploadable, NoDialog,
                stationvars, formvars, filevars, exportvars
  <2>4. QED
    BY <2>1, <2>2, <2>3 DEF StationNext
<1>3. OnceInv => SavedOnce
  BY RowAssumption DEF OnceInv, OneCopy, SavedOnce, StationTypeOK
<1>4. QED
  BY <1>1, <1>2, <1>3, PTL DEF StationSpec

-----------------------------------------------------------------------------
(* Workstations and server joined.                                         *)

Tended == Careful /\ PrintFails = {}

-----------------------------------------------------------------------------
(* The invariant.                                                          *)

ActiveStates == {"forked", "running", "ended"}
ActiveChildren == [st : ActiveStates, ses : Sessions, n : Nat,
                   seen : SUBSET Items, skip : SUBSET Items, todo : SUBSET Rows]
Children == {NoRun} \union [st : {"done", "dead"}, ses : Sessions] \union ActiveChildren
BusyLoads == [st : {"checked", "written"}, ses : Sessions, body : File]
Loads == {NoLoad} \union [st : {"err", "ok"}] \union BusyLoads

Active(c) == run[c].st \in ActiveStates

\* What TypeOK leaves open: requests and children are records of these kinds.
Shapes ==
    /\ load \in [Stations -> Loads] /\ run \in [Runs -> Children]
    /\ in_process \subseteq made /\ ended \subseteq made /\ made \subseteq Sessions
    /\ scripts \in [Sessions -> SUBSET Stations]
    /\ log \in [Sessions -> [Stations -> File]]
    /\ archive \in [Sessions -> [Stations -> File]]
    /\ num_complete \in [Sessions -> Nat]
    /\ changed \in [Items -> [at : 0..Now, by : Runs \union {Desk}]]
    /\ results \in File /\ skipped \subseteq Rows
    /\ faults \in 0..MaxFaults
    /\ view \in [Stations -> [up : SUBSET Sessions, ex : SUBSET Sessions]]
    /\ wire \in [Stations -> Request \union {NoRequest}]

\* The flags of a session keep uploads and executions of it apart.
NotArchived(s) == \A w \in Stations : \A r \in Rows : archive[s][w][r] = 0

UploadsApart ==
    \A w \in Stations : Busy(w) =>
        /\ load[w].ses \in made \ (in_process \union ended)
        /\ w \notin scripts[load[w].ses]
        /\ \A c \in Runs : run[c].st # "forked"

RunsApart ==
    /\ \A c \in Runs :
          /\ Active(c) => run[c].ses \in made /\ run[c].skip \subseteq run[c].seen
          /\ run[c].st = "forked" => run[c].ses \notin in_process \union ended
          /\ run[c].st = "running" => run[c].ses \in in_process \ ended
          /\ run[c].st = "ended" => run[c].ses \in ended /\ NotArchived(run[c].ses)
    /\ \A c, d \in Runs : Active(c) /\ Active(d) /\ run[c].ses = run[d].ses => c = d
    /\ \A s \in Sessions \ ended : NotArchived(s)

\* How often row r is in the files a session has of workstation w.
Lines(s, w, r) == log[s][w][r] + archive[s][w][r]

\* Row r was saved at w and will not go out with its next upload.
Sent(w, r) == r \in written /\ StationOf[r] = w /\ pending[w][r] = 0

\* Row r is on the way to the server, or with a request at the server.
OnWire(w, r) == wire[w] # NoRequest /\ wire[w].body[r] > 0
AtRequest(w, r) == Busy(w) /\ load[w].body[r] > 0

\* The server has kept nothing of a row that is on its way or will come back.
Undelivered(w, r) ==
    \/ OnWire(w, r)
    \/ load[w].st = "checked" /\ load[w].body[r] > 0
    \/ cli[w] = "waiting" /\ load[w].st = "err" /\ transition[w][r] > 0

RowTravels(w, r) ==
    /\ \A s \in Sessions : Lines(s, w, r) > 0 => Sent(w, r)
    /\ OnWire(w, r) \/ AtRequest(w, r) => Sent(w, r)
    /\ \A s, t \in Sessions : Lines(s, w, r) > 0 /\ Lines(t, w, r) > 0 => s = t
    /\ Undelivered(w, r) => \A s \in Sessions : Lines(s, w, r) = 0
    /\ load[w].st = "written" /\ load[w].body[r] > 0 => Lines(load[w].ses, w, r) > 0
    /\ cli[w] = "waiting" /\ load[w].st = "ok" /\ transition[w][r] > 0 => r \in Uploaded
    /\ complete[w][r] > 0 => r \in Uploaded

\* The request a client waits for is about its transition file.
Awaits(w) ==
    /\ wire[w] # NoRequest => load[w].st = "none"
    /\ cli[w] = "waiting" /\ wire[w] # NoRequest => wire[w].body = transition[w]
    /\ cli[w] = "waiting" /\ Busy(w) => load[w].body = transition[w]

TravelInv == \A w \in Stations : Awaits(w) /\ \A r \in Rows : RowTravels(w, r)

\* A child has what was uploaded to its session still to do, or has done it.
Done(r) == results[r] > 0 \/ r \in skipped

RunsAll ==
    \A c \in Runs : run[c].st \in {"forked", "running"} =>
        \A r \in Rows :
            /\ InLog(run[c].ses, r) => r \in run[c].todo \/ results[r] > 0
            /\ r \in run[c].todo => InLog(run[c].ses, r) /\ ~Done(r)

RunsOnly ==
    \A r \in Rows : Done(r) => \E s \in in_process \union ended : InLog(s, r)

ServerInv == UploadsApart /\ RunsApart
WorkInv == RunsAll /\ RunsOnly /\ EndedIsRun
CircInv == OnceInv /\ Shapes /\ ServerInv /\ TravelInv /\ WorkInv

\* Skipping, if the three settings for it agree.
Uniform == SkipForms \in {{}, CircForms}

OneAnswer ==
    \A c \in Runs : run[c].st = "running" =>
        \A r \in Rows :
            InLog(run[c].ses, r) /\ r \notin run[c].todo /\ FormOf[r] \in CircForms =>
                /\ SkipForms # {} => ItemOf[r] \in run[c].seen
                /\ (r \in skipped) = (ItemOf[r] \in run[c].skip)

OwnChanges ==
    \A c \in Runs : \A i \in Items :
        changed[i].by = c =>
            /\ run[c].st \notin {"none", "forked"}
            /\ run[c].st = "running" /\ SkipForms # {} => i \in run[c].seen

SkipInv == OneAnswer /\ OwnChanges /\ SkipsWholeItem

-----------------------------------------------------------------------------
(* Types.                                                                  *)

LEMMA LoadFacts ==
    ASSUME Shapes, NEW w \in Stations
    PROVE  /\ load[w].st \in {"none", "err", "ok", "checked", "written"}
           /\ load[w].st = "none" => load[w] = NoLoad
           /\ Busy(w) => load[w] \in BusyLoads
           /\ Busy(w) => load[w].ses \in Sessions /\ load[w].body \in File
<1>1. load[w] \in Loads
  BY DEF Shapes
<1>2. QED
  BY <1>1 DEF Loads, BusyLoads, Busy, NoLoad

LEMMA RunFacts ==
    ASSUME Shapes, NEW c \in Runs
    PROVE  /\ run[c].st \in {"none", "done", "dead"} \union ActiveStates
           /\ run[c].st \in {"done", "dead"} => run[c].ses \in Sessions
           /\ Active(c) => run[c] \in ActiveChildren
<1>1. run[c] \in Children
  BY DEF Shapes
<1>2. QED
  BY <1>1 DEF Children, ActiveChildren, Active, ActiveStates, NoRun

LEMMA ActiveFacts ==
    ASSUME NEW x \in ActiveChildren
    PROVE  /\ x.st \in ActiveStates /\ x.ses \in Sessions /\ x.n \in Nat
           /\ x.seen \subseteq Items /\ x.skip \subseteq Items /\ x.todo \subseteq Rows
BY DEF ActiveChildren

\* The session's files of a station, and the station's wire.
LEMMA FileFacts ==
    ASSUME Shapes, NEW s \in Sessions, NEW w \in Stations, NEW r \in Rows
    PROVE  /\ log[s][w] \in File /\ archive[s][w] \in File
           /\ log[s][w][r] \in Nat /\ archive[s][w][r] \in Nat
           /\ Lines(s, w, r) \in Nat
BY DEF Shapes, File, Lines

LEMMA WireFacts ==
    ASSUME Shapes, NEW w \in Stations, wire[w] # NoRequest
    PROVE  wire[w].ses \in Sessions /\ wire[w].body \in File
<1>1. wire[w] \in Request
  BY DEF Shapes
<1>2. QED
  BY <1>1 DEF Request

LEMMA RequestKinds ==
    /\ NoLoad \in Loads /\ [st |-> "err"] \in Loads /\ [st |-> "ok"] \in Loads
    /\ \A s \in Sessions : \A f \in File :
          [st |-> "checked", ses |-> s, body |-> f] \in BusyLoads
    /\ \A x \in BusyLoads : [x EXCEPT !.st = "written"] \in BusyLoads
    /\ BusyLoads \subseteq Loads
BY DEF Loads, BusyLoads, NoLoad

LEMMA ChildKinds ==
    /\ NoRun \in Children
    /\ \A s \in Sessions : /\ [st |-> "done", ses |-> s] \in Children
                           /\ [st |-> "dead", ses |-> s] \in Children
    /\ ActiveChildren \subseteq Children
    /\ \A x \in ActiveChildren : \A st \in ActiveStates :
          [x EXCEPT !.st = st] \in ActiveChildren
BY DEF Children, ActiveChildren, ActiveStates

\* InLog, in terms of lines.
LEMMA InLogLines ==
    ASSUME NEW s \in Sessions, NEW r \in Rows
    PROVE  InLog(s, r) <=> \E w \in scripts[s] : Lines(s, w, r) > 0
BY DEF InLog, Lines

LEMMA InitShapes == Init => Shapes
BY FileOf, RequestKinds, ChildKinds, ServerAssumption
DEF Init, ServerInit, Shapes

\* What the page shows after a request.
LEMMA Shown ==
    ASSUME Shapes, made' \subseteq Sessions, NEW w \in Stations, Retrieve(w)
    PROVE  view' \in [Stations -> [up : SUBSET Sessions, ex : SUBSET Sessions]]
<1>1. ViewOf(w) \in [up : SUBSET Sessions, ex : SUBSET Sessions]
  BY DEF ViewOf
<1>2. QED
  BY <1>1 DEF Retrieve, Shapes

\* The record of a request or of a child is replaced.
LEMMA LoadShapes ==
    ASSUME Shapes, NEW w \in Stations, NEW x \in Loads, load' = [load EXCEPT ![w] = x]
    PROVE  load' \in [Stations -> Loads]
BY DEF Shapes

LEMMA RunShapes ==
    ASSUME Shapes, NEW c \in Runs, NEW x \in Children, run' = [run EXCEPT ![c] = x]
    PROVE  run' \in [Runs -> Children]
BY DEF Shapes

LEMMA SeenItems ==
    ASSUME NEW c \in Runs, NEW r \in Rows, NEW hs, run[c] \in ActiveChildren
    PROVE  /\ Seen(c, r, hs) \in SUBSET Items /\ run[c].seen \subseteq Seen(c, r, hs)
           /\ \A h \in hs : LooksAt(c, r, h) => ItemOf[r] \in Seen(c, r, hs)
BY ServerAssumption, ActiveFacts DEF Seen, LooksAt

\* A child's request to the live system.
LEMMA AskShapes ==
    ASSUME Shapes, NEW c \in Runs, NEW r \in Rows, Asks(c, r)
    PROVE  changed' \in [Items -> [at : 0..Now, by : Runs \union {Desk}]]
<1>1. Now \in 0..Now
  BY ServerAssumption
<1>2. [at |-> Now, by |-> c] \in [at : 0..Now, by : Runs \union {Desk}]
  BY <1>1
<1>3. QED
  BY <1>2 DEF Asks, Shapes

\* The row a child does next.
RowRun(c, r, hs) ==
    LET skips == \E h \in hs : Skips(c, r, h)
    IN  /\ IsNext(c, r)
        /\ run' = [run EXCEPT
               ![c].todo = @ \ {r}, ![c].n = @ + 1,
               ![c].seen = Seen(c, r, hs),
               ![c].skip = IF skips THEN @ \union {ItemOf[r]} ELSE @]
        /\ results' = [results EXCEPT ![r] = @ + 1]
        /\ num_complete' = [num_complete EXCEPT ![run[c].ses] = run[c].n + 1]
        /\ IF skips
           THEN skipped' = skipped \union {r} /\ changed' = changed
           ELSE Asks(c, r) /\ skipped' = skipped

Going(x, todo, n, seen, skip) ==
    [x EXCEPT !.todo = todo, !.n = n, !.seen = seen, !.skip = skip]

LEMMA GoingFacts ==
    ASSUME NEW x \in ActiveChildren, NEW todo \in SUBSET Rows, NEW n \in Nat,
           NEW seen \in SUBSET Items, NEW skip \in SUBSET Items
    PROVE  LET y == Going(x, todo, n, seen, skip) IN
           /\ y \in ActiveChildren /\ y.st = x.st /\ y.ses = x.ses
           /\ y.todo = todo /\ y.seen = seen /\ y.skip = skip
BY DEF Going, ActiveChildren

LEMMA RowRunFacts ==
    ASSUME Shapes, NEW c \in Runs, NEW r \in Rows, NEW hs, Active(c), RowRun(c, r, hs),
           run[c].skip \subseteq run[c].seen
    PROVE  LET x == run'[c] IN
           /\ run' = [run EXCEPT ![c] = x] /\ x \in ActiveChildren
           /\ x.st = run[c].st /\ x.ses = run[c].ses
           /\ x.todo = run[c].todo \ {r} /\ x.seen = Seen(c, r, hs)
           /\ x.skip = IF \E h \in hs : Skips(c, r, h)
                       THEN run[c].skip \union {ItemOf[r]} ELSE run[c].skip
           /\ x.skip \subseteq x.seen
<1> DEFINE skip == IF \E h \in hs : Skips(c, r, h)
                   THEN run[c].skip \union {ItemOf[r]} ELSE run[c].skip
           x == Going(run[c], run[c].todo \ {r}, run[c].n + 1, Seen(c, r, hs), skip)
<1>1. run[c] \in ActiveChildren /\ run \in [Runs -> Children]
  BY RunFacts DEF Shapes
<1>2. run' = [run EXCEPT ![c] = x]
  BY <1>1 DEF RowRun, Going
<1>3. run'[c] = x
  BY <1>1, <1>2
<1>4. Seen(c, r, hs) \in SUBSET Items /\ run[c].seen \subseteq Seen(c, r, hs)
  BY <1>1, SeenItems
<1>5. ASSUME NEW h \in hs, Skips(c, r, h)
      PROVE  ItemOf[r] \in Items /\ ItemOf[r] \in Seen(c, r, hs)
  <2>1. CASE ItemOf[r] \in run[c].skip
    BY <1>1, <1>4, <2>1, ActiveFacts
  <2>2. CASE LooksAt(c, r, h)
    BY <1>1, <2>2, SeenItems
  <2>3. QED
    BY <1>5, <2>1, <2>2 DEF Skips
<1>a. skip \in SUBSET Items /\ run[c].n + 1 \in Nat /\ run[c].todo \ {r} \in SUBSET Rows
  BY <1>1, <1>5, ActiveFacts
<1> HIDE DEF skip
<1>6. /\ x \in ActiveChildren
      /\ x.st = run[c].st /\ x.ses = run[c].ses
      /\ x.todo = run[c].todo \ {r} /\ x.seen = Seen(c, r, hs) /\ x.skip = skip
  BY <1>1, <1>4, <1>a, GoingFacts
<1> HIDE DEF x
<1>7. x.skip \subseteq x.seen
  BY <1>4, <1>5, <1>6 DEF skip
<1>8. QED
  BY <1>2, <1>3, <1>6, <1>7 DEF skip

WithState(x, st) == [x EXCEPT !.st = st]

LEMMA NewState ==
    ASSUME NEW x \in ActiveChildren, NEW st \in ActiveStates
    PROVE  LET y == WithState(x, st) IN
           /\ y \in ActiveChildren /\ y.st = st /\ y.ses = x.ses
           /\ y.todo = x.todo /\ y.seen = x.seen /\ y.skip = x.skip
BY DEF ActiveChildren, WithState

LEMMA NewSeen ==
    ASSUME NEW x \in ActiveChildren, NEW seen \in SUBSET Items
    PROVE  LET y == [x EXCEPT !.seen = seen] IN
           /\ y \in ActiveChildren /\ y.st = x.st /\ y.ses = x.ses
           /\ y.todo = x.todo /\ y.seen = seen /\ y.skip = x.skip
BY DEF ActiveChildren

LEMMA ForkFacts ==
    ASSUME Shapes, NEW c \in Runs, NEW s \in Sessions, Execute(c, s)
    PROVE  LET x == run'[c] IN
           /\ run' = [run EXCEPT ![c] = x] /\ x \in ActiveChildren
           /\ x.st = "forked" /\ x.ses = s
           /\ x.todo = Commands(s) /\ x.seen = {} /\ x.skip = {}
<1> DEFINE x == [st |-> "forked", ses |-> s, n |-> num_complete[s],
                 seen |-> {}, skip |-> {}, todo |-> Commands(s)]
<1>1. x \in ActiveChildren
  BY DEF ActiveChildren, ActiveStates, Commands, Shapes
<1>2. run' = [run EXCEPT ![c] = x] /\ run'[c] = x
  BY DEF Execute, Shapes
<1>3. /\ x.st = "forked" /\ x.ses = s
      /\ x.todo = Commands(s) /\ x.seen = {} /\ x.skip = {}
  OBVIOUS
<1> HIDE DEF x
<1>4. QED
  BY <1>1, <1>2, <1>3

LEMMA StateFacts ==
    ASSUME Shapes, NEW c \in Runs, RunBegin(c) \/ RunEnd(c)
    PROVE  LET x == run'[c] IN
           /\ run' = [run EXCEPT ![c] = x] /\ x \in ActiveChildren
           /\ x.st = IF RunBegin(c) THEN "running" ELSE "ended"
           /\ x.ses = run[c].ses
           /\ x.todo = run[c].todo /\ x.seen = run[c].seen /\ x.skip = run[c].skip
<1>1. run[c] \in ActiveChildren
  BY RunFacts DEF RunBegin, RunEnd, Active, ActiveStates
<1>2. ASSUME NEW st \in {"running", "ended"}, run' = [run EXCEPT ![c].st = st]
      PROVE  LET x == run'[c] IN
             /\ run' = [run EXCEPT ![c] = x] /\ x \in ActiveChildren
             /\ x.st = st /\ x.ses = run[c].ses
             /\ x.todo = run[c].todo /\ x.seen = run[c].seen /\ x.skip = run[c].skip
  <2> DEFINE x == WithState(run[c], st)
  <2>1. run' = [run EXCEPT ![c] = x] /\ run'[c] = x
    BY <1>2 DEF Shapes, WithState
  <2>2. /\ x \in ActiveChildren /\ x.st = st /\ x.ses = run[c].ses
        /\ x.todo = run[c].todo /\ x.seen = run[c].seen /\ x.skip = run[c].skip
    BY <1>1, NewState DEF ActiveStates
  <2> HIDE DEF x
  <2>3. QED
    BY <2>1, <2>2
<1>3. RunBegin(c) => run' = [run EXCEPT ![c].st = "running"] /\ run[c].st = "forked"
  BY DEF RunBegin
<1>4. RunEnd(c) => run' = [run EXCEPT ![c].st = "ended"] /\ run[c].st = "running"
  BY DEF RunEnd
<1>5. QED
  BY <1>2, <1>3, <1>4

LEMMA RetryFacts ==
    ASSUME Shapes, NEW c \in Runs, RunRetry(c)
    PROVE  LET x == run'[c] IN
           /\ run' = [run EXCEPT ![c] = x] /\ x \in ActiveChildren
           /\ run[c].st = "running"
           /\ x.st = run[c].st /\ x.ses = run[c].ses
           /\ x.todo = run[c].todo /\ run[c].seen \subseteq x.seen /\ x.skip = run[c].skip
           /\ \E r \in Rows : Asks(c, r) /\ x.seen = Seen(c, r, {FormOf[r]})
<1>1. run[c] \in ActiveChildren /\ run[c].st = "running"
  BY RunFacts DEF RunRetry, Active, ActiveStates
<1>2. PICK r \in Rows : /\ run' = [run EXCEPT ![c].seen = Seen(c, r, {FormOf[r]})]
                        /\ Asks(c, r)
  BY DEF RunRetry
<1> DEFINE x == [run[c] EXCEPT !.seen = Seen(c, r, {FormOf[r]})]
<1>3. run' = [run EXCEPT ![c] = x] /\ run'[c] = x
  BY <1>2 DEF Shapes
<1>4. Seen(c, r, {FormOf[r]}) \in SUBSET Items /\ run[c].seen \subseteq Seen(c, r, {FormOf[r]})
  BY <1>1, SeenItems
<1>5. /\ x \in ActiveChildren /\ x.st = run[c].st /\ x.ses = run[c].ses
      /\ x.todo = run[c].todo /\ x.seen = Seen(c, r, {FormOf[r]}) /\ x.skip = run[c].skip
  BY <1>1, <1>4, NewSeen
<1> HIDE DEF x
<1>6. QED
  BY <1>1, <1>2, <1>3, <1>4, <1>5

LEMMA LastFacts ==
    ASSUME Shapes, NEW c \in Runs, RunArchive(c) \/ RunDie(c)
    PROVE  LET x == run'[c] IN
           /\ run' = [run EXCEPT ![c] = x] /\ x \in Children
           /\ x.st \in {"done", "dead"} /\ x.ses = run[c].ses
<1>1. run[c].ses \in Sessions
  BY RunFacts, ActiveFacts DEF RunArchive, RunDie, Active, ActiveStates
<1>2. PICK st \in {"done", "dead"} : run' = [run EXCEPT ![c] = [st |-> st, ses |-> run[c].ses]]
  BY DEF RunArchive, RunDie
<1> DEFINE x == [st |-> st, ses |-> run[c].ses]
<1>3. x \in Children /\ x.st \in {"done", "dead"} /\ x.ses = run[c].ses
  BY <1>1 DEF Children
<1> HIDE DEF x
<1>4. run' = [run EXCEPT ![c] = x] /\ run'[c] = x
  BY <1>2 DEF Shapes, x
<1>5. QED
  BY <1>3, <1>4
LEMMA FaultCounted ==
    ASSUME Shapes, Fault
    PROVE  faults' \in 0..MaxFaults
BY ServerAssumption DEF Shapes, Fault

LEMMA ShapesStep ==
    ASSUME OnceInv, Shapes, ServerInv, Next
    PROVE  Shapes'
<1> USE DEF sesvars, diskvars, outvars
<1>1. ASSUME NEW w \in Stations, StationActs(w) PROVE Shapes'
  BY <1>1 DEF StationActs, servervars, Shapes
<1>2. ASSUME NEW w \in Stations, Refresh(w) PROVE Shapes'
  <2>1. UNCHANGED <<servervars, wire>> /\ Retrieve(w)
    BY <1>2 DEF Refresh
  <2>2. view' \in [Stations -> [up : SUBSET Sessions, ex : SUBSET Sessions]]
    BY <2>1, Shown DEF servervars, Shapes
  <2>3. QED
    BY <2>1, <2>2 DEF servervars, Shapes
<1>3. ASSUME NEW w \in Stations, Arrive(w) PROVE Shapes'
  <2>1. wire[w].ses \in Sessions /\ wire[w].body \in File
    BY <1>3, WireFacts DEF Arrive
  <2>2. PICK x \in Loads : load' = [load EXCEPT ![w] = x]
    BY <1>3, <2>1, RequestKinds DEF Arrive, LoadStart
  <2>3. load' \in [Stations -> Loads]
    BY <2>2, LoadShapes
  <2>4. QED
    BY <1>3, <2>3 DEF Arrive, LoadStart, Shapes
<1>4. ASSUME NEW w \in Stations, RequestLost(w) PROVE Shapes'
  BY <1>4, FaultCounted DEF RequestLost, Shapes
<1>5. ASSUME NEW w \in Stations, Answer(w) PROVE Shapes'
  <2>1. load' \in [Stations -> Loads]
    BY <1>5, RequestKinds, LoadShapes DEF Answer
  <2>2. UNCHANGED <<sesvars, diskvars, run, outvars, faults, wire>>
        /\ (Retrieve(w) \/ UNCHANGED view)
    BY <1>5 DEF Answer
  <2>3. view' \in [Stations -> [up : SUBSET Sessions, ex : SUBSET Sessions]]
    BY <2>2, Shown DEF Shapes
  <2>4. QED
    BY <2>1, <2>2, <2>3 DEF Shapes
<1>6. ASSUME NEW w \in Stations, NEW s \in Sessions, Create(w, s) PROVE Shapes'
  <2>1. view' \in [Stations -> [up : SUBSET Sessions, ex : SUBSET Sessions]]
    BY <1>6, Shown DEF Create, CreateSession, Shapes
  <2>2. QED
    BY <1>6, <2>1 DEF Create, CreateSession, Shapes
<1>7. ASSUME NEW w \in Stations, NEW s \in Sessions, Upload(w, s) PROVE Shapes'
  <2>1. [ses |-> s, body |-> pending[w]] \in Request
    BY DEF Request, OnceInv, StationTypeOK
  <2>2. QED
    BY <1>7, <2>1 DEF Upload, servervars, Shapes
<1>8. ASSUME NEW w \in Stations, NEW c \in Runs, NEW s \in Sessions, ExecuteSession(w, c, s)
      PROVE  Shapes'
  <2>1. Execute(c, s) /\ UNCHANGED wire /\ Retrieve(w)
    BY <1>8 DEF ExecuteSession
  <2>2. run' \in [Runs -> Children]
    BY <2>1, ForkFacts, ChildKinds, RunShapes
  <2>3. view' \in [Stations -> [up : SUBSET Sessions, ex : SUBSET Sessions]]
    BY <2>1, Shown DEF Execute, Shapes
  <2>4. QED
    BY <2>1, <2>2, <2>3 DEF Execute, Shapes
<1>9. ASSUME NEW w \in Stations, LoadWrite(w), UNCHANGED <<view, wire>> PROVE Shapes'
  <2>1. load[w] \in BusyLoads /\ load[w].ses \in Sessions /\ load[w].body \in File
    BY <1>9, LoadFacts DEF LoadWrite, Busy
  <2>2. load' \in [Stations -> Loads]
    BY <1>9, <2>1, RequestKinds, LoadShapes DEF LoadWrite, Shapes
  <2>3. Plus(log[load[w].ses][w], load[w].body) \in File
    BY <2>1, FileOf DEF Shapes
  <2>4. log' \in [Sessions -> [Stations -> File]]
    BY <1>9, <2>1, <2>3 DEF LoadWrite, Shapes
  <2>5. QED
    BY <1>9, <2>2, <2>4 DEF LoadWrite, Shapes
<1>10. ASSUME NEW w \in Stations, LoadScript(w), UNCHANGED <<view, wire>> PROVE Shapes'
  <2>1. load[w].ses \in Sessions
    BY <1>10, LoadFacts DEF LoadScript, Busy
  <2>2. load' \in [Stations -> Loads]
    BY <1>10, RequestKinds, LoadShapes DEF LoadScript
  <2>3. scripts' \in [Sessions -> SUBSET Stations]
    BY <1>10, <2>1 DEF LoadScript, Shapes
  <2>4. QED
    BY <1>10, <2>2, <2>3 DEF LoadScript, Shapes
<1>11. ASSUME NEW w \in Stations, LoadNoFile(w) \/ LoadDie(w), UNCHANGED <<view, wire>>
       PROVE  Shapes'
  <2>1. load' \in [Stations -> Loads]
    BY <1>11, RequestKinds, LoadShapes DEF LoadNoFile, LoadDie
  <2>2. faults' \in 0..MaxFaults
    BY <1>11, FaultCounted DEF LoadNoFile, LoadDie
  <2>3. QED
    BY <1>11, <2>1, <2>2 DEF LoadNoFile, LoadDie, Shapes
<1>12. ASSUME NEW c \in Runs, RunBegin(c) \/ RunEnd(c), UNCHANGED <<view, wire>>
       PROVE  Shapes'
  <2>1. run' \in [Runs -> Children]
    BY <1>12, StateFacts, ChildKinds, RunShapes
  <2>2. run[c].ses \in made
    BY <1>12 DEF RunBegin, RunEnd, ServerInv, RunsApart, Active, ActiveStates
  <2>3. in_process' \subseteq made /\ ended' \subseteq made
    BY <1>12, <2>2 DEF RunBegin, RunEnd, Shapes
  <2>4. UNCHANGED <<made, scripts, num_complete, log, archive, load, changed, results,
                    skipped, faults>>
    BY <1>12 DEF RunBegin, RunEnd
  <2>5. QED
    BY <1>12, <2>1, <2>3, <2>4 DEF Shapes
<1>13. ASSUME NEW c \in Runs, RunRow(c), UNCHANGED <<view, wire>> PROVE Shapes'
  <2>1. PICK r \in Rows : \E hs \in Handlers(r) : RowRun(c, r, hs)
    BY <1>13 DEF RunRow, RowRun
  <2>2. PICK hs : RowRun(c, r, hs)
    BY <2>1
  <2>3. Active(c) /\ run[c].skip \subseteq run[c].seen /\ run[c] \in ActiveChildren
    BY <1>13, RunFacts DEF RunRow, ServerInv, RunsApart, Active, ActiveStates
  <2>a. run' = [run EXCEPT ![c] = run'[c]] /\ run'[c] \in ActiveChildren
    BY <2>2, <2>3, RowRunFacts
  <2>4. run' \in [Runs -> Children]
    BY <2>a, ChildKinds, RunShapes
  <2>5. results' \in File
    BY <2>2 DEF RowRun, Shapes, File
  <2>6. num_complete' \in [Sessions -> Nat]
    BY <2>2, <2>3, ActiveFacts DEF RowRun, Shapes
  <2>7. skipped' \subseteq Rows
    BY <2>2 DEF RowRun, Shapes
  <2>8. changed' \in [Items -> [at : 0..Now, by : Runs \union {Desk}]]
    BY <2>2, AskShapes DEF RowRun, Shapes
  <2>9. QED
    BY <1>13, <2>4, <2>5, <2>6, <2>7, <2>8 DEF RunRow, Shapes
<1>14. ASSUME NEW c \in Runs, RunArchive(c), UNCHANGED <<view, wire>> PROVE Shapes'
  <2>1. run' \in [Runs -> Children]
    BY <1>14, LastFacts, RunShapes
  <2>2. archive' \in [Sessions -> [Stations -> File]]
    BY <1>14 DEF RunArchive, Shapes
  <2>3. log' \in [Sessions -> [Stations -> File]]
    BY <1>14, FileOf DEF RunArchive, Shapes
  <2>4. QED
    BY <1>14, <2>1, <2>2, <2>3 DEF RunArchive, Shapes
<1>15. ASSUME NEW c \in Runs, RunRetry(c), UNCHANGED <<view, wire>> PROVE Shapes'
  <2>1. run' = [run EXCEPT ![c] = run'[c]] /\ run'[c] \in ActiveChildren
    BY <1>15, RetryFacts
  <2>a. run' \in [Runs -> Children]
    BY <2>1, ChildKinds, RunShapes
  <2>2. changed' \in [Items -> [at : 0..Now, by : Runs \union {Desk}]]
    BY <1>15, RetryFacts, AskShapes
  <2>3. faults' \in 0..MaxFaults
    BY <1>15, FaultCounted DEF RunRetry
  <2>4. QED
    BY <1>15, <2>a, <2>2, <2>3 DEF RunRetry, Shapes
<1>16. ASSUME NEW c \in Runs, RunDie(c), UNCHANGED <<view, wire>> PROVE Shapes'
  <2>1. run' \in [Runs -> Children]
    BY <1>16, LastFacts, RunShapes
  <2>2. faults' \in 0..MaxFaults
    BY <1>16, FaultCounted DEF RunDie
  <2>3. QED
    BY <1>16, <2>1, <2>2 DEF RunDie, Shapes
<1>17. QED
  BY <1>1, <1>2, <1>3, <1>4, <1>5, <1>6, <1>7, <1>8, <1>9, <1>10, <1>11, <1>12,
     <1>13, <1>14, <1>15, <1>16
  DEF Next, ServerActs, LoadStep, RunStep, FaultStep

-----------------------------------------------------------------------------
(* A session is not executed while a file comes in, and by one child.      *)

\* Children are not forked while requests are being served, if staff wait.
LEMMA Waits ==
    ASSUME Careful, Quiet
    PROVE  /\ \A w \in Stations : ~Busy(w)
           /\ \A c \in Runs : run[c].st # "forked"
BY DEF Quiet

\* A request that ends, or goes on with its session.
LEMMA UploadGoesOn ==
    ASSUME UploadsApart, NEW w \in Stations,
           \A v \in Stations \ {w} : load'[v] = load[v],
           Busy(w)' => Busy(w) /\ load'[w].ses = load[w].ses,
           made \subseteq made', UNCHANGED <<in_process, ended, run>>,
           \A v \in Stations : \A s \in Sessions : v # w \/ Busy(w)' =>
               (v \in scripts'[s] <=> v \in scripts[s]),
           \A v \in Stations : Busy(v) => load[v].ses \in Sessions
    PROVE  UploadsApart'
<1> SUFFICES ASSUME NEW v \in Stations, Busy(v)'
             PROVE  /\ load'[v].ses \in made' \ (in_process' \union ended')
                    /\ v \notin scripts'[load'[v].ses]
                    /\ \A c \in Runs : run'[c].st # "forked"
  BY DEF UploadsApart
<1>1. Busy(v) /\ load'[v].ses = load[v].ses
  BY DEF Busy
<1>2. load[v].ses \in Sessions
  BY <1>1
<1>3. QED
  BY <1>1, <1>2 DEF UploadsApart

\* A child that goes on with its session, in the same state.
LEMMA ChildGoesOn ==
    ASSUME Shapes, RunsApart, NEW c \in Runs,
           \A d \in Runs \ {c} : run'[d] = run[d],
           Active(c)' => /\ run'[c].st = run[c].st /\ run'[c].ses = run[c].ses
                         /\ run'[c].skip \subseteq run'[c].seen,
           \A s \in Sessions : NotArchived(s) =>
               NotArchived(s)' \/ (s \in ended /\ run[c].st = "ended" /\ s = run[c].ses
                                   /\ ~Active(c)'),
           UNCHANGED <<made, in_process, ended>>
    PROVE  RunsApart'
<1>1. \A d \in Runs : Active(d)' => /\ Active(d) /\ run'[d].st = run[d].st
                                    /\ run'[d].ses = run[d].ses
                                    /\ run'[d].skip \subseteq run'[d].seen
  BY DEF Active, RunsApart
<1>2. \A d \in Runs : Active(d) => run[d].ses \in Sessions
  BY RunFacts, ActiveFacts
<1>3. ASSUME NEW d \in Runs, run'[d].st = "ended"
      PROVE  NotArchived(run[d].ses)'
  <2>1. Active(d) /\ Active(d)' /\ run[d].st = "ended"
    BY <1>1, <1>3 DEF Active, ActiveStates
  <2>2. PICK s \in Sessions : s = run[d].ses
    BY <1>2, <2>1
  <2>3. NotArchived(s) /\ s = run'[d].ses
    BY <1>1, <2>1, <2>2 DEF RunsApart
  <2>4. run[c].st = "ended" /\ s = run[c].ses => d = c
    BY <2>1, <2>2 DEF RunsApart, Active, ActiveStates
  <2>5. NotArchived(s)'
    BY <2>1, <2>3, <2>4
  <2>6. QED
    BY <2>3, <2>5 DEF NotArchived
<1>4. \A s \in Sessions \ ended' : NotArchived(s)'
  BY DEF RunsApart
<1>5. \A d \in Runs :
          /\ Active(d)' => run'[d].ses \in made' /\ run'[d].skip \subseteq run'[d].seen
          /\ run'[d].st = "forked" => run'[d].ses \notin in_process' \union ended'
          /\ run'[d].st = "running" => run'[d].ses \in in_process' \ ended'
          /\ run'[d].st = "ended" => run'[d].ses \in ended'
  BY <1>1 DEF Active, ActiveStates, RunsApart
<1>6. \A d, e \in Runs : Active(d)' /\ Active(e)' /\ run'[d].ses = run'[e].ses => d = e
  BY <1>1 DEF RunsApart
<1>7. QED
  BY <1>3, <1>4, <1>5, <1>6 DEF RunsApart

\* A child's step beside the uploads.
LEMMA UploadsStay ==
    ASSUME UploadsApart, UNCHANGED <<load, scripts, made>>,
           in_process' \union ended' \subseteq in_process \union ended,
           \A c \in Runs : run'[c].st = "forked" => run[c].st = "forked"
    PROVE  UploadsApart'
BY DEF UploadsApart, Busy

LEMMA OtherChildren ==
    ASSUME Shapes, NEW c \in Runs, NEW x, run' = [run EXCEPT ![c] = x]
    PROVE  \A d \in Runs \ {c} : run'[d] = run[d]
BY DEF Shapes

LEMMA OtherRequests ==
    ASSUME Shapes, NEW w \in Stations, NEW x, load' = [load EXCEPT ![w] = x]
    PROVE  load'[w] = x /\ \A v \in Stations \ {w} : load'[v] = load[v]
BY DEF Shapes

LEMMA RequestEnds ==
    ASSUME Shapes, NEW w \in Stations, NEW x \in {NoLoad, [st |-> "err"], [st |-> "ok"]},
           load' = [load EXCEPT ![w] = x]
    PROVE  ~Busy(w)' /\ \A v \in Stations \ {w} : load'[v] = load[v]
<1>1. load'[w] = x /\ \A v \in Stations \ {w} : load'[v] = load[v]
  BY OtherRequests
<1>2. x.st \notin {"checked", "written"}
  BY DEF NoLoad
<1>3. QED
  BY <1>1, <1>2 DEF Busy

LEMMA ServerInit0 == Init => ServerInv
BY AtRow DEF Init, ServerInit, ServerInv, UploadsApart, RunsApart, NotArchived, Busy,
             NoLoad, NoRun, Active, ActiveStates

\* A step that leaves the server as it is, or creates a session.
LEMMA ServerIdle ==
    ASSUME ServerInv, UNCHANGED <<in_process, ended, scripts, archive, load, run>>,
           made \subseteq made'
    PROVE  ServerInv'
<1>1. UploadsApart'
  BY DEF ServerInv, UploadsApart, Busy
<1>2. \A s : NotArchived(s) => NotArchived(s)'
  BY DEF NotArchived
<1>3. \A c \in Runs :
          /\ Active(c)' => run'[c].ses \in made' /\ run'[c].skip \subseteq run'[c].seen
          /\ run'[c].st = "forked" => run'[c].ses \notin in_process' \union ended'
          /\ run'[c].st = "running" => run'[c].ses \in in_process' \ ended'
          /\ run'[c].st = "ended" => run'[c].ses \in ended'
  BY DEF ServerInv, RunsApart, Active
<1>4. \A c \in Runs : run'[c].st = "ended" => NotArchived(run[c].ses)'
  BY DEF ServerInv, RunsApart, NotArchived
<1>5. \A c, d \in Runs : Active(c)' /\ Active(d)' /\ run'[c].ses = run'[d].ses => c = d
  BY DEF ServerInv, RunsApart, Active
<1>6. \A s \in Sessions \ ended' : NotArchived(s)'
  BY <1>2 DEF ServerInv, RunsApart
<1>7. RunsApart'
  BY <1>3, <1>4, <1>5, <1>6 DEF RunsApart
<1>8. QED
  BY <1>1, <1>7 DEF ServerInv

\* A step of the upload's request.
LEMMA RunsBeside ==
    ASSUME RunsApart, UNCHANGED <<made, in_process, ended, archive, run>>
    PROVE  RunsApart'
<1>1. \A s : NotArchived(s) => NotArchived(s)'
  BY DEF NotArchived
<1>2. \A c \in Runs : run'[c].st = "ended" => NotArchived(run[c].ses)'
  BY DEF RunsApart, NotArchived
<1>3. \A s \in Sessions \ ended' : NotArchived(s)'
  BY <1>1 DEF RunsApart
<1>4. /\ \A c \in Runs :
          /\ Active(c)' => run'[c].ses \in made' /\ run'[c].skip \subseteq run'[c].seen
          /\ run'[c].st = "forked" => run'[c].ses \notin in_process' \union ended'
          /\ run'[c].st = "running" => run'[c].ses \in in_process' \ ended'
          /\ run'[c].st = "ended" => run'[c].ses \in ended'
      /\ \A c, d \in Runs : Active(c)' /\ Active(d)' /\ run'[c].ses = run'[d].ses => c = d
  BY DEF RunsApart, Active
<1>5. QED
  BY <1>2, <1>3, <1>4 DEF RunsApart

LEMMA ServerStep ==
    ASSUME Careful, Shapes, ServerInv, Next
    PROVE  ServerInv'
<1> USE DEF sesvars, diskvars, outvars
<1>q. ASSUME UNCHANGED <<in_process, ended, scripts, archive, load, run, made>>
      PROVE  ServerInv'
  BY <1>q, ServerIdle
<1>b. \A v \in Stations : Busy(v) => load[v].ses \in Sessions
  BY LoadFacts
<1>1. ASSUME NEW w \in Stations, StationActs(w) \/ Refresh(w) \/ RequestLost(w) PROVE ServerInv'
  BY <1>1, <1>q DEF StationActs, Refresh, RequestLost, servervars
<1>2. ASSUME NEW w \in Stations, NEW s \in Sessions, Upload(w, s) PROVE ServerInv'
  BY <1>2, <1>q DEF Upload, servervars
<1>3. ASSUME NEW w \in Stations, NEW s \in Sessions, Create(w, s) PROVE ServerInv'
  BY <1>3, ServerIdle DEF Create, CreateSession
<1>4. ASSUME NEW w \in Stations, Arrive(w) PROVE ServerInv'
  <2> DEFINE s == wire[w].ses
  <2>1. /\ Quiet /\ s \in made /\ load[w].st = "none"
        /\ UNCHANGED <<made, in_process, ended, scripts, archive, run>>
        /\ load' = [load EXCEPT ![w] =
                    IF Refused(w, s) THEN [st |-> "err"]
                    ELSE [st |-> "checked", ses |-> s, body |-> wire[w].body]]
    BY <1>4 DEF Arrive, LoadStart
  <2>2. \A v \in Stations \ {w} : load'[v] = load[v] /\ ~Busy(v)
    BY <2>1, OtherRequests, Waits
  <2>3. Busy(w)' => ~Refused(w, s) /\ load'[w].ses = s
    BY <2>1, OtherRequests DEF Busy
  <2>4. UploadsApart'
    <3> SUFFICES ASSUME NEW v \in Stations, Busy(v)'
                 PROVE  /\ load'[v].ses \in made' \ (in_process' \union ended')
                        /\ v \notin scripts'[load'[v].ses]
                        /\ \A c \in Runs : run'[c].st # "forked"
      BY DEF UploadsApart
    <3>1. v = w
      BY <2>2 DEF Busy
    <3>2. QED
      BY <2>1, <2>3, <3>1, Waits DEF Refused
  <2>5. QED
    BY <2>1, <2>4, RunsBeside DEF ServerInv
<1>5. ASSUME NEW w \in Stations, Answer(w) \/ LoadNoFile(w) \/ LoadDie(w) PROVE ServerInv'
  <2>1. PICK x \in {NoLoad, [st |-> "err"]} : load' = [load EXCEPT ![w] = x]
    BY <1>5 DEF Answer, LoadNoFile, LoadDie
  <2>2. UNCHANGED <<made, in_process, ended, scripts, archive, run>>
    BY <1>5 DEF Answer, LoadNoFile, LoadDie
  <2>3. ~Busy(w)' /\ \A v \in Stations \ {w} : load'[v] = load[v]
    BY <2>1, RequestEnds
  <2>4. UploadsApart'
    BY <1>b, <2>2, <2>3, UploadGoesOn DEF ServerInv
  <2>5. QED
    BY <2>2, <2>4, RunsBeside DEF ServerInv
<1>6. ASSUME NEW w \in Stations, LoadWrite(w) PROVE ServerInv'
  <2>1. load[w] \in BusyLoads /\ Busy(w)
    BY <1>6, LoadFacts DEF LoadWrite, Busy
  <2>2. load'[w].ses = load[w].ses /\ \A v \in Stations \ {w} : load'[v] = load[v]
    BY <1>6, <2>1 DEF LoadWrite, Shapes, BusyLoads
  <2>3. UNCHANGED <<made, in_process, ended, scripts, archive, run>>
    BY <1>6 DEF LoadWrite
  <2>4. UploadsApart'
    BY <1>b, <2>1, <2>2, <2>3, UploadGoesOn DEF ServerInv
  <2>5. QED
    BY <2>3, <2>4, RunsBeside DEF ServerInv
<1>7. ASSUME NEW w \in Stations, LoadScript(w) PROVE ServerInv'
  <2>1. load' = [load EXCEPT ![w] = [st |-> "ok"]] /\ load[w].ses \in Sessions
    BY <1>7, LoadFacts DEF LoadScript, Busy
  <2>2. ~Busy(w)' /\ \A v \in Stations \ {w} : load'[v] = load[v]
    BY <2>1, RequestEnds
  <2>3. \A v \in Stations : \A s \in Sessions :
            v # w => (v \in scripts'[s] <=> v \in scripts[s])
    BY <1>7, <2>1 DEF LoadScript, Shapes
  <2>4. UNCHANGED <<made, in_process, ended, archive, run>>
    BY <1>7 DEF LoadScript
  <2>5. UploadsApart'
    BY <1>b, <2>2, <2>3, <2>4, UploadGoesOn DEF ServerInv
  <2>6. QED
    BY <2>4, <2>5, RunsBeside DEF ServerInv
<1>8. ASSUME NEW w \in Stations, NEW c \in Runs, NEW s \in Sessions, ExecuteSession(w, c, s)
      PROVE  ServerInv'
  <2>1. /\ Execute(c, s) /\ Quiet /\ run[c].st = "none"
        /\ s \in made \ (in_process \union ended)
        /\ UNCHANGED <<made, in_process, ended, scripts, archive, load>>
    BY <1>8 DEF ExecuteSession, Execute
  <2>2. /\ \A d \in Runs \ {c} : run'[d] = run[d]
        /\ run'[c].st = "forked" /\ run'[c].ses = s /\ run'[c].skip = {}
    BY <2>1, ForkFacts, OtherChildren
  <2>3. UploadsApart'
    BY <2>1, Waits DEF UploadsApart, Busy
  <2>4. \A d \in Runs \ {c} : Active(d) => run[d].ses # s
    BY <2>1, Waits DEF ServerInv, RunsApart, Active, ActiveStates
  <2>5. /\ \A d \in Runs :
            /\ Active(d)' => run'[d].ses \in made' /\ run'[d].skip \subseteq run'[d].seen
            /\ run'[d].st = "forked" => run'[d].ses \notin in_process' \union ended'
            /\ run'[d].st = "running" => run'[d].ses \in in_process' \ ended'
            /\ run'[d].st = "ended" => run'[d].ses \in ended'
        /\ \A d, e \in Runs : Active(d)' /\ Active(e)' /\ run'[d].ses = run'[e].ses => d = e
    BY <2>1, <2>2, <2>4 DEF ServerInv, RunsApart, Active
  <2>6. \A t : NotArchived(t) => NotArchived(t)'
    BY <2>1 DEF NotArchived
  <2>7. ASSUME NEW d \in Runs, run'[d].st = "ended" PROVE NotArchived(run[d].ses)'
    <3>1. d # c /\ run[d].st = "ended" /\ run'[d] = run[d]
      BY <2>2, <2>7
    <3>2. QED
      BY <2>1, <3>1 DEF ServerInv, RunsApart, NotArchived
  <2>8. \A t \in Sessions \ ended' : NotArchived(t)'
    BY <2>1, <2>6 DEF ServerInv, RunsApart
  <2>9. QED
    BY <2>3, <2>5, <2>7, <2>8 DEF ServerInv, RunsApart
<1>9. ASSUME NEW c \in Runs, RunBegin(c) PROVE ServerInv'
  <2> DEFINE s == run[c].ses
  <2>1. /\ run[c].st = "forked" /\ in_process' = in_process \union {s}
        /\ UNCHANGED <<made, ended, scripts, archive, load>>
    BY <1>9 DEF RunBegin
  <2>2. /\ \A d \in Runs \ {c} : run'[d] = run[d]
        /\ run'[c].st = "running" /\ run'[c].ses = s
        /\ run'[c].skip = run[c].skip /\ run'[c].seen = run[c].seen
    BY <1>9, StateFacts, OtherChildren
  <2>3. UploadsApart'
    BY <2>1 DEF ServerInv, UploadsApart, Busy
  <2>4. /\ Active(c) /\ s \in made /\ s \notin in_process \union ended
        /\ run[c].skip \subseteq run[c].seen
        /\ \A d \in Runs \ {c} : Active(d) => run[d].ses # s
    BY <2>1 DEF ServerInv, RunsApart, Active, ActiveStates
  <2>5. \A d \in Runs :
            /\ Active(d)' => run'[d].ses \in made' /\ run'[d].skip \subseteq run'[d].seen
            /\ run'[d].st = "forked" => run'[d].ses \notin in_process' \union ended'
            /\ run'[d].st = "running" => run'[d].ses \in in_process' \ ended'
            /\ run'[d].st = "ended" => run'[d].ses \in ended'
    BY <2>1, <2>2, <2>4 DEF ServerInv, RunsApart, Active, ActiveStates
  <2>6. \A d, e \in Runs : Active(d)' /\ Active(e)' /\ run'[d].ses = run'[e].ses => d = e
    BY <2>2, <2>4 DEF ServerInv, RunsApart, Active
  <2>7. ASSUME NEW d \in Runs, run'[d].st = "ended" PROVE NotArchived(run[d].ses)'
    <3>1. d # c /\ run[d].st = "ended" /\ run'[d] = run[d]
      BY <2>2, <2>7
    <3>2. QED
      BY <2>1, <3>1 DEF ServerInv, RunsApart, NotArchived
  <2>8. \A t \in Sessions \ ended' : NotArchived(t)'
    BY <2>1 DEF ServerInv, RunsApart, NotArchived
  <2>9. QED
    BY <2>3, <2>5, <2>6, <2>7, <2>8 DEF ServerInv, RunsApart
<1>10. ASSUME NEW c \in Runs, RunEnd(c) PROVE ServerInv'
  <2> DEFINE s == run[c].ses
  <2>1. /\ run[c].st = "running" /\ in_process' = in_process \ {s}
        /\ ended' = ended \union {s}
        /\ UNCHANGED <<made, scripts, archive, load>>
    BY <1>10 DEF RunEnd
  <2>2. /\ \A d \in Runs \ {c} : run'[d] = run[d]
        /\ run'[c].st = "ended" /\ run'[c].ses = s
        /\ run'[c].skip = run[c].skip /\ run'[c].seen = run[c].seen
    <3>1. ~RunBegin(c)
      BY <2>1 DEF RunBegin
    <3>2. QED
      BY <1>10, <3>1, StateFacts, OtherChildren
  <2>4. /\ Active(c) /\ s \in made /\ s \in in_process \ ended
        /\ run[c].skip \subseteq run[c].seen
        /\ \A d \in Runs \ {c} : Active(d) => run[d].ses # s
    BY <2>1 DEF ServerInv, RunsApart, Active, ActiveStates
  <2>3. UploadsApart'
    BY <2>1, <2>2, <2>4, UploadsStay DEF ServerInv
  <2>5. \A d \in Runs :
            /\ Active(d)' => run'[d].ses \in made' /\ run'[d].skip \subseteq run'[d].seen
            /\ run'[d].st = "forked" => run'[d].ses \notin in_process' \union ended'
            /\ run'[d].st = "running" => run'[d].ses \in in_process' \ ended'
            /\ run'[d].st = "ended" => run'[d].ses \in ended'
    BY <2>1, <2>2, <2>4 DEF ServerInv, RunsApart, Active, ActiveStates
  <2>6. \A d, e \in Runs : Active(d)' /\ Active(e)' /\ run'[d].ses = run'[e].ses => d = e
    BY <2>2, <2>4 DEF ServerInv, RunsApart, Active
  <2>7. ASSUME NEW d \in Runs, run'[d].st = "ended" PROVE NotArchived(run[d].ses)'
    <3>1. CASE d = c
      <4>1. s \in Sessions
        BY <2>4 DEF Shapes
      <4>2. NotArchived(s)
        BY <2>4, <4>1 DEF ServerInv, RunsApart
      <4>3. QED
        BY <2>1, <2>2, <3>1, <4>2 DEF NotArchived
    <3>2. CASE d # c
      <4>1. run[d].st = "ended" /\ run'[d] = run[d]
        BY <2>2, <2>7, <3>2
      <4>2. QED
        BY <2>1, <4>1 DEF ServerInv, RunsApart, NotArchived
    <3>3. QED
      BY <3>1, <3>2
  <2>8. \A t \in Sessions \ ended' : NotArchived(t)'
    BY <2>1 DEF ServerInv, RunsApart, NotArchived
  <2>9. QED
    BY <2>3, <2>5, <2>6, <2>7, <2>8 DEF ServerInv, RunsApart
<1>11. ASSUME NEW c \in Runs, RunRow(c) \/ RunRetry(c) PROVE ServerInv'
  <2>1. /\ run[c].st = "running"
        /\ UNCHANGED <<made, in_process, ended, scripts, archive, load>>
    BY <1>11 DEF RunRow, RunRetry
  <2>2. Active(c) /\ run[c].skip \subseteq run[c].seen
    BY <2>1 DEF ServerInv, RunsApart, Active, ActiveStates
  <2>3. /\ \A d \in Runs \ {c} : run'[d] = run[d]
        /\ run'[c].st = "running" /\ run'[c].ses = run[c].ses
        /\ run'[c].skip \subseteq run'[c].seen
    <3>1. CASE RunRow(c)
      <4>1. PICK r \in Rows : \E hs \in Handlers(r) : RowRun(c, r, hs)
        BY <3>1 DEF RunRow, RowRun
      <4>2. PICK hs : RowRun(c, r, hs)
        BY <4>1
      <4>3. QED
        BY <2>1, <2>2, <4>2, RowRunFacts, OtherChildren
    <3>2. CASE RunRetry(c)
      BY <2>1, <2>2, <3>2, RetryFacts, OtherChildren
    <3>3. QED
      BY <1>11, <3>1, <3>2
  <2>4. UploadsApart'
    BY <2>1, <2>3, UploadsStay DEF ServerInv
  <2>5. \A s : NotArchived(s) => NotArchived(s)'
    BY <2>1 DEF NotArchived
  <2>6. RunsApart'
    BY <2>1, <2>3, <2>5, ChildGoesOn DEF ServerInv
  <2>7. QED
    BY <2>4, <2>6 DEF ServerInv
<1>12. ASSUME NEW c \in Runs, RunArchive(c) \/ RunDie(c) PROVE ServerInv'
  <2>1. /\ UNCHANGED <<made, in_process, ended, scripts, load>>
        /\ Active(c)
    BY <1>12 DEF RunArchive, RunDie, Active, ActiveStates
  <2>2. /\ \A d \in Runs \ {c} : run'[d] = run[d]
        /\ run'[c].st \in {"done", "dead"}
    BY <1>12, LastFacts, OtherChildren
  <2>3. ~Active(c)'
    BY <2>2 DEF Active, ActiveStates
  <2>4. UploadsApart'
    BY <2>1, <2>2, UploadsStay DEF ServerInv
  <2>5. ASSUME NEW s \in Sessions, NotArchived(s)
        PROVE  NotArchived(s)' \/ (s \in ended /\ run[c].st = "ended" /\ s = run[c].ses)
    <3>1. CASE RunDie(c)
      BY <2>5, <3>1 DEF RunDie, NotArchived
    <3>2. CASE RunArchive(c)
      <4>1. run[c].st = "ended" /\ run[c].ses \in ended
        BY <3>2 DEF RunArchive, ServerInv, RunsApart
      <4>2. s # run[c].ses => archive'[s] = archive[s]
        BY <3>2 DEF RunArchive, Shapes
      <4>3. QED
        BY <2>5, <4>1, <4>2 DEF NotArchived
    <3>3. QED
      BY <1>12, <3>1, <3>2
  <2>6. RunsApart'
    BY <2>1, <2>2, <2>3, <2>5, ChildGoesOn DEF ServerInv
  <2>7. QED
    BY <2>4, <2>6 DEF ServerInv
<1>13. QED
  BY <1>1, <1>2, <1>3, <1>4, <1>5, <1>6, <1>7, <1>8, <1>9, <1>10, <1>11, <1>12
  DEF Next, ServerActs, LoadStep, RunStep, FaultStep

-----------------------------------------------------------------------------
(* A row goes to the server once, in one request to one session.           *)

LinesKept ==
    /\ scripts' = scripts
    /\ \A s \in Sessions : \A w \in Stations : \A r \in Rows :
          Lines(s, w, r)' = Lines(s, w, r)

LogsKept == \A s \in Sessions : \A r \in Rows : InLog(s, r)' <=> InLog(s, r)

LEMMA KeptLines ==
    ASSUME Shapes, LinesKept
    PROVE  LogsKept
<1> SUFFICES ASSUME NEW s \in Sessions, NEW r \in Rows PROVE InLog(s, r)' <=> InLog(s, r)
  BY DEF LogsKept
<1>1. scripts'[s] = scripts[s] /\ scripts[s] \subseteq Stations
  BY DEF LinesKept, Shapes
<1>2. QED
  BY <1>1 DEF LinesKept, Lines, InLog

LEMMA KeptLogs ==
    ASSUME LogsKept
    PROVE  Uploaded' = Uploaded
BY DEF LogsKept, Uploaded

LEMMA DiskKept ==
    ASSUME UNCHANGED <<scripts, log, archive>>
    PROVE  LinesKept
BY DEF LinesKept, Lines

\* Moving the files of a session that has ended loses none of them.
LEMMA ArchiveKeeps ==
    ASSUME Shapes, ServerInv, NEW c \in Runs, RunArchive(c)
    PROVE  LinesKept
<1> DEFINE t == run[c].ses
<1>1. t \in Sessions /\ NotArchived(t)
  BY RunFacts, ActiveFacts
  DEF RunArchive, ServerInv, RunsApart, Active, ActiveStates
<1>2. ASSUME NEW s \in Sessions, NEW w \in Stations, NEW r \in Rows
      PROVE  log'[s][w][r] + archive'[s][w][r] = log[s][w][r] + archive[s][w][r]
  <2>1. CASE s # t
    BY <2>1 DEF RunArchive, Shapes
  <2>2. CASE s = t
    <3>1. archive'[s] = [v \in Stations |-> IF Exists(log[s][v]) THEN log[s][v]
                                            ELSE archive[s][v]]
      BY <1>1, <2>2 DEF RunArchive, Shapes
    <3>2. log'[s] = [v \in Stations |-> Empty]
      BY <1>1, <2>2 DEF RunArchive, Shapes
    <3>3. log'[s][w][r] = 0 /\ archive[s][w][r] = 0 /\ Empty[r] = 0
      BY <1>1, <2>2, <3>2, AtRow DEF NotArchived
    <3>4. log[s][w][r] \in Nat
      BY FileFacts
    <3>5. CASE Exists(log[s][w])
      BY <3>1, <3>3, <3>4, <3>5
    <3>6. CASE ~Exists(log[s][w])
      BY <3>1, <3>3, <3>4, <3>6 DEF Exists
    <3>7. QED
      BY <3>5, <3>6
  <2>3. QED
    BY <2>1, <2>2
<1>3. scripts' = scripts
  BY DEF RunArchive, sesvars
<1>4. QED
  BY <1>2, <1>3 DEF LinesKept, Lines

\* The file comes before its row of offline.script: nothing is uploaded yet.
LEMMA WriteKeeps ==
    ASSUME Shapes, ServerInv, NEW w \in Stations, LoadWrite(w)
    PROVE  /\ LogsKept
           /\ load[w].ses \in Sessions /\ load[w].body \in File
           /\ \A s \in Sessions : \A v \in Stations : \A r \in Rows :
                 Lines(s, v, r)' = Lines(s, v, r) +
                     IF s = load[w].ses /\ v = w THEN load[w].body[r] ELSE 0
<1> DEFINE t == load[w].ses
<1>1. Busy(w) /\ t \in Sessions /\ load[w].body \in File /\ w \notin scripts[t]
  BY LoadFacts DEF LoadWrite, Busy, ServerInv, UploadsApart
<1>2. ASSUME NEW s \in Sessions, NEW v \in Stations, NEW r \in Rows
      PROVE  log'[s][v][r] + archive'[s][v][r] = log[s][v][r] + archive[s][v][r] +
                     IF s = t /\ v = w THEN load[w].body[r] ELSE 0
  <2>1. archive' = archive /\ archive[s][v][r] \in Nat /\ log[s][v][r] \in Nat
    BY FileFacts DEF LoadWrite
  <2>2. load[w].body[r] \in Nat
    BY <1>1 DEF File
  <2>3. CASE s = t /\ v = w
    <3>1. log'[s][v] = Plus(log[s][v], load[w].body)
      BY <1>1, <2>3 DEF LoadWrite, Shapes
    <3>2. log'[s][v][r] = log[s][v][r] + load[w].body[r]
      BY <1>1, <3>1, AtRow, FileFacts
    <3>3. QED
      BY <2>1, <2>2, <2>3, <3>2
  <2>4. CASE ~(s = t /\ v = w)
    <3>1. log'[s][v] = log[s][v]
      BY <1>1, <2>4 DEF LoadWrite, Shapes
    <3>2. QED
      BY <2>1, <2>4, <3>1
  <2>5. QED
    BY <2>3, <2>4
<1> HIDE DEF t
<1>3. \A s \in Sessions : \A v \in Stations : \A r \in Rows :
          Lines(s, v, r)' = Lines(s, v, r) +
              IF s = t /\ v = w THEN load[w].body[r] ELSE 0
  BY <1>2 DEF Lines
<1>4. ASSUME NEW s \in Sessions, NEW r \in Rows PROVE InLog(s, r)' <=> InLog(s, r)
  <2>1. scripts'[s] = scripts[s] /\ scripts[s] \subseteq Stations
    BY DEF LoadWrite, sesvars, Shapes
  <2>2. \A v \in scripts[s] : Lines(s, v, r)' = Lines(s, v, r)
    <3> SUFFICES ASSUME NEW v \in scripts[s] PROVE Lines(s, v, r)' = Lines(s, v, r)
      OBVIOUS
    <3>1. v \in Stations /\ ~(s = t /\ v = w)
      BY <1>1, <2>1
    <3>2. Lines(s, v, r) \in Nat
      BY <3>1, FileFacts
    <3>3. QED
      BY <1>3, <3>1, <3>2
  <2>3. QED
    BY <2>1, <2>2 DEF InLog, Lines
<1>5. QED
  BY <1>1, <1>3, <1>4 DEF LogsKept, t

LEMMA ScriptKeeps ==
    ASSUME Shapes, NEW w \in Stations, LoadScript(w)
    PROVE  /\ load[w].ses \in Sessions
           /\ \A s \in Sessions : \A v \in Stations : \A r \in Rows :
                 Lines(s, v, r)' = Lines(s, v, r)
           /\ \A s \in Sessions : \A r \in Rows :
                 InLog(s, r)' <=> InLog(s, r) \/ (s = load[w].ses /\ Lines(s, w, r) > 0)
           /\ Uploaded \subseteq Uploaded'
<1>1. load[w].ses \in Sessions
  BY LoadFacts DEF LoadScript, Busy
<1>2. UNCHANGED <<log, archive>>
  BY DEF LoadScript, diskvars
<1>3. \A s \in Sessions :
         scripts'[s] = IF s = load[w].ses THEN scripts[s] \union {w} ELSE scripts[s]
  BY <1>1 DEF LoadScript, Shapes
<1>4. ASSUME NEW s \in Sessions, NEW r \in Rows
      PROVE  InLog(s, r)' <=> InLog(s, r) \/ (s = load[w].ses /\ Lines(s, w, r) > 0)
  <2>1. InLog(s, r)' <=> \E v \in scripts'[s] : Lines(s, v, r) > 0
    BY <1>2 DEF InLog, Lines
  <2>2. CASE s = load[w].ses
    BY <1>3, <2>1, <2>2, InLogLines
  <2>3. CASE s # load[w].ses
    BY <1>3, <2>1, <2>3, InLogLines
  <2>4. QED
    BY <2>2, <2>3
<1>5. Uploaded \subseteq Uploaded'
  BY <1>4 DEF Uploaded
<1>6. QED
  BY <1>1, <1>2, <1>4, <1>5 DEF Lines

\* A workstation's own steps: nothing that was sent comes back, and a client
\* that still waits does so for the same file.
LEMMA FormWrites ==
    ASSUME OnceInv, NEW w \in Stations, FormStep(w)
    PROVE  /\ \A v \in Stations : \A r \in Rows : Sent(v, r) => Sent(v, r)'
           /\ \A v \in Stations :
                 cli'[v] = "waiting" => cli[v] = "waiting" /\ transition'[v] = transition[v]
           /\ complete' = complete
<1> USE DEF OnceInv, StationTypeOK
<1>1. ASSUME NEW S \in SUBSET Rows, S \cap written = {}, written' = written \union S,
             pending' = [pending EXCEPT ![w] = Plus(@, Bag(S))]
      PROVE  \A v \in Stations : \A r \in Rows : Sent(v, r) => Sent(v, r)'
  <2> SUFFICES ASSUME NEW v \in Stations, NEW r \in Rows, Sent(v, r)
               PROVE  Sent(v, r)'
    OBVIOUS
  <2>1. r \in written /\ StationOf[r] = v /\ pending[v][r] = 0 /\ r \notin S
    BY <1>1 DEF Sent
  <2>2. pending[v] \in File /\ Bag(S) \in File
    BY FileOf
  <2>3. Plus(pending[v], Bag(S))[r] = pending[v][r] + Bag(S)[r]
    BY <2>2, AtRow
  <2>4. Bag(S)[r] = 0
    BY <2>1, AtRow
  <2>5. pending'[v][r] = 0
    BY <1>1, <2>1, <2>3, <2>4
  <2>6. QED
    BY <1>1, <2>1, <2>5 DEF Sent
<1>2. ASSUME NEW r \in Rows, StationOf[r] = w, Append(r)
      PROVE  UNCHANGED <<written, pending, transition, complete, cli>>
  BY <1>2 DEF Append, filevars
<1>3. ASSUME NEW r \in Rows, StationOf[r] = w, Register(r)
      PROVE  /\ \A v \in Stations : \A q \in Rows : Sent(v, q) => Sent(v, q)'
             /\ UNCHANGED <<transition, complete, cli>>
  <2>1. {r} \in SUBSET Rows /\ {r} \cap written = {}
    BY <1>3 DEF Register
  <2>2. /\ written' = written \union {r}
        /\ pending' = [pending EXCEPT ![w] = Plus(@, Bag({r}))]
        /\ UNCHANGED <<transition, complete, cli>>
    BY <1>3 DEF Register, filevars
  <2>3. QED
    BY <1>1, <2>1, <2>2
<1>4. ASSUME NEW f \in ListForms, Save(w, f)
      PROVE  /\ \A v \in Stations : \A r \in Rows : Sent(v, r) => Sent(v, r)'
             /\ UNCHANGED <<transition, complete, cli>>
  <2>1. ListOf(w, f) \in SUBSET Rows /\ ListOf(w, f) \cap written = {}
    BY DEF ListOf
  <2>2. /\ written' = written \union ListOf(w, f)
        /\ pending' = [pending EXCEPT ![w] = Plus(@, Bag(ListOf(w, f)))]
        /\ UNCHANGED <<transition, complete, cli>>
    BY <1>4 DEF Save, filevars
  <2>3. QED
    BY <1>1, <2>1, <2>2
<1>5. ASSUME \/ Cancel(w) \/ KeyPatron(w) \/ ClearRegister(w)
             \/ Close(w) \/ CloseConfirmed(w)
      PROVE  UNCHANGED <<written, pending, transition, complete, cli>>
  BY <1>5 DEF Cancel, KeyPatron, ClearRegister, Close, CloseConfirmed, filevars
<1>6. ASSUME Crash(w)
      PROVE  /\ \A v \in Stations : \A r \in Rows : Sent(v, r) => Sent(v, r)'
             /\ complete' = complete /\ cli' = [cli EXCEPT ![w] = "idle"]
             /\ transition' = [transition EXCEPT ![w] = Empty]
  <2>0. PICK f \in ListForms : \E S \in SUBSET ListOf(w, f) :
            /\ pending' = [pending EXCEPT ![w] = Plus(@, Bag(S))]
            /\ written' = written \union S
    BY <1>6 DEF Crash
  <2>1. PICK S \in SUBSET ListOf(w, f) :
            /\ pending' = [pending EXCEPT ![w] = Plus(@, Bag(S))]
            /\ written' = written \union S
    BY <2>0
  <2>2. S \in SUBSET Rows /\ S \cap written = {}
    BY DEF ListOf
  <2>3. /\ complete' = complete /\ cli' = [cli EXCEPT ![w] = "idle"]
        /\ transition' = [transition EXCEPT ![w] = Empty]
    BY <1>6 DEF Crash
  <2>4. QED
    BY <1>1, <2>1, <2>2, <2>3
<1>7. ASSUME UNCHANGED <<written, pending>>
      PROVE  \A v \in Stations : \A r \in Rows : Sent(v, r) => Sent(v, r)'
  BY <1>7 DEF Sent
<1>8. ASSUME NEW v \in Stations, cli' = [cli EXCEPT ![w] = "idle"],
             transition' = [transition EXCEPT ![w] = Empty]
      PROVE  cli'[v] = "waiting" => cli[v] = "waiting" /\ transition'[v] = transition[v]
  BY <1>8
<1>9. QED
  BY <1>2, <1>3, <1>4, <1>5, <1>6, <1>7, <1>8 DEF FormStep

\* Nothing that concerns an upload of station v changes.
TravelKept(v) ==
    /\ wire'[v] = wire[v] /\ load'[v] = load[v] /\ complete'[v] = complete[v]
    /\ cli'[v] = "waiting" => cli[v] = "waiting" /\ transition'[v] = transition[v]
    /\ \A r \in Rows : Sent(v, r) => Sent(v, r)'
    /\ \A s \in Sessions : \A r \in Rows : Lines(s, v, r)' = Lines(s, v, r)

Travels(v) == Awaits(v) /\ \A r \in Rows : RowTravels(v, r)

LEMMA TravelsOn ==
    ASSUME Shapes, NEW v \in Stations, Travels(v), TravelKept(v), Uploaded \subseteq Uploaded'
    PROVE  Travels(v)'
<1>1. Awaits(v)'
  BY DEF Travels, TravelKept, Awaits, Busy
<1>2. ASSUME NEW r \in Rows PROVE RowTravels(v, r)'
  <2> USE DEF Travels, TravelKept
  <2>1. RowTravels(v, r)
    OBVIOUS
  <2>2. /\ Sent(v, r) => Sent(v, r)'
        /\ \A s \in Sessions : Lines(s, v, r)' = Lines(s, v, r)
    OBVIOUS
  <2>3. (OnWire(v, r)' => OnWire(v, r)) /\ (AtRequest(v, r)' => AtRequest(v, r))
    BY DEF OnWire, AtRequest, Busy
  <2>4. Undelivered(v, r)' => Undelivered(v, r)
    BY DEF Undelivered, OnWire
  <2>5. load[v].st = "written" => load[v].ses \in Sessions
    BY LoadFacts DEF Busy
  <2>6. load'[v].st = "written" /\ load'[v].body[r] > 0 => Lines(load[v].ses, v, r)' > 0
    <3> SUFFICES ASSUME load'[v].st = "written", load'[v].body[r] > 0
                 PROVE  Lines(load[v].ses, v, r)' > 0
      OBVIOUS
    <3>1. PICK s \in Sessions : s = load[v].ses /\ s = load'[v].ses
      BY <2>5
    <3>2. Lines(s, v, r) > 0
      BY <2>1, <3>1 DEF RowTravels
    <3>3. Lines(s, v, r)' > 0
      BY <2>2, <3>2
    <3>4. QED
      BY <3>1, <3>3 DEF Lines
  <2>7. /\ cli'[v] = "waiting" /\ load'[v].st = "ok" /\ transition'[v][r] > 0
              => r \in Uploaded'
        /\ complete'[v][r] > 0 => r \in Uploaded'
    BY <2>1 DEF RowTravels
  <2>8. QED
    BY <2>1, <2>2, <2>3, <2>4, <2>6, <2>7 DEF RowTravels
<1>3. QED
  BY <1>1, <1>2 DEF Travels

\* The other workstations during a step of w.
Elsewhere(w) == \A v \in Stations \ {w} : TravelKept(v)

LEMMA TravelElsewhere ==
    ASSUME Shapes, TravelInv, NEW w \in Stations, Elsewhere(w), Uploaded \subseteq Uploaded',
           Travels(w)'
    PROVE  TravelInv'
<1>1. \A v \in Stations \ {w} : Travels(v)'
  BY TravelsOn DEF TravelInv, Travels, Elsewhere
<1>2. \A v \in Stations : Travels(v)'
  BY <1>1
<1>3. QED
  BY <1>2 DEF TravelInv, Travels

\* Steps that are no part of an upload.
LEMMA TravelQuiet ==
    ASSUME Shapes, TravelInv, LinesKept, UNCHANGED <<wire, load, complete>>,
           \A v \in Stations :
              /\ cli'[v] = "waiting" => cli[v] = "waiting" /\ transition'[v] = transition[v]
              /\ \A r \in Rows : Sent(v, r) => Sent(v, r)'
    PROVE  TravelInv'
<1>1. Uploaded' = Uploaded
  BY KeptLines, KeptLogs
<1>2. \A v \in Stations : TravelKept(v)
  BY DEF TravelKept, LinesKept
<1>3. \A v \in Stations : Travels(v)'
  BY <1>1, <1>2, TravelsOn DEF TravelInv, Travels
<1>4. QED
  BY <1>3 DEF TravelInv, Travels

LEMMA SentStays ==
    ASSUME UNCHANGED <<written, pending>>
    PROVE  \A v \in Stations : \A r \in Rows : Sent(v, r) => Sent(v, r)'
BY DEF Sent


\* The answers and the ends of a request, in which nothing is added to the disk.
LEMMA TravelLost ==
    ASSUME Shapes, TravelInv, NEW w \in Stations, RequestLost(w)
    PROVE  TravelInv'
<1>1. LinesKept /\ UNCHANGED <<load, stationvars>>
  BY DiskKept DEF RequestLost, sesvars, diskvars
<1>2. /\ wire'[w] = NoRequest
      /\ \A v \in Stations \ {w} : wire'[v] = wire[v]
  BY DEF RequestLost, Shapes
<1>3. Uploaded' = Uploaded
  BY <1>1, KeptLines, KeptLogs
<1>4. Elsewhere(w)
  BY <1>1, <1>2, SentStays
  DEF Elsewhere, TravelKept, LinesKept, stationvars, formvars, filevars
<1>5. UNCHANGED <<cli, transition, complete, pending, written>>
  BY <1>1 DEF stationvars, formvars, filevars
<1>6. Awaits(w)'
  BY <1>1, <1>2, <1>5 DEF Awaits, TravelInv, Busy
<1>7. ASSUME NEW r \in Rows PROVE RowTravels(w, r)'
  <2>1. RowTravels(w, r) /\ (Sent(w, r) => Sent(w, r)')
        /\ \A s \in Sessions : Lines(s, w, r)' = Lines(s, w, r)
    BY <1>1, <1>5, SentStays DEF TravelInv, LinesKept
  <2>2. ~OnWire(w, r)' /\ (AtRequest(w, r)' => AtRequest(w, r))
    BY <1>1, <1>2 DEF OnWire, AtRequest, Busy
  <2>3. Undelivered(w, r)' => Undelivered(w, r)
    BY <1>1, <1>5, <2>2 DEF Undelivered
  <2>4. load'[w].st = "written" /\ load'[w].body[r] > 0 => Lines(load[w].ses, w, r)' > 0
    <3> SUFFICES ASSUME load'[w].st = "written", load'[w].body[r] > 0
                 PROVE  Lines(load[w].ses, w, r)' > 0
      OBVIOUS
    <3>1. PICK s \in Sessions : s = load[w].ses /\ s = load'[w].ses
      BY <1>1, LoadFacts DEF Busy
    <3>2. Lines(s, w, r)' > 0
      BY <1>1, <2>1, <3>1 DEF RowTravels
    <3>3. QED
      BY <3>1, <3>2 DEF Lines
  <2>5. QED
    BY <1>1, <1>3, <1>5, <2>1, <2>2, <2>3, <2>4 DEF RowTravels
<1>8. QED
  BY <1>3, <1>4, <1>6, <1>7, TravelElsewhere DEF Travels

LEMMA TravelArrive ==
    ASSUME Shapes, TravelInv, NEW w \in Stations, Arrive(w)
    PROVE  TravelInv'
<1>1. LinesKept /\ UNCHANGED stationvars
  BY DiskKept DEF Arrive, LoadStart, sesvars, diskvars
<1>2. /\ wire[w] # NoRequest /\ wire'[w] = NoRequest
      /\ \A v \in Stations \ {w} : wire'[v] = wire[v]
  BY DEF Arrive, Shapes
<1>3. /\ load[w].st = "none"
      /\ \/ load'[w] = [st |-> "err"]
         \/ load'[w] = [st |-> "checked", ses |-> wire[w].ses, body |-> wire[w].body]
      /\ \A v \in Stations \ {w} : load'[v] = load[v]
  BY DEF Arrive, LoadStart, Shapes
<1>4. Uploaded' = Uploaded
  BY <1>1, KeptLines, KeptLogs
<1>5. Elsewhere(w)
  BY <1>1, <1>2, <1>3, SentStays
  DEF Elsewhere, TravelKept, LinesKept, stationvars, formvars, filevars
<1>6. UNCHANGED <<cli, transition, complete, pending, written>>
  BY <1>1 DEF stationvars, formvars, filevars
<1>7. Awaits(w)'
  BY <1>2, <1>3, <1>6 DEF Awaits, TravelInv, Busy
<1>8. ASSUME NEW r \in Rows PROVE RowTravels(w, r)'
  <2>1. RowTravels(w, r) /\ (Sent(w, r) => Sent(w, r)')
        /\ \A s \in Sessions : Lines(s, w, r)' = Lines(s, w, r)
    BY <1>1, <1>6, SentStays DEF TravelInv, LinesKept
  <2>2. ~OnWire(w, r)' /\ (AtRequest(w, r)' => OnWire(w, r))
    BY <1>2, <1>3 DEF OnWire, AtRequest, Busy
  <2>3. Undelivered(w, r)' => Undelivered(w, r)
    BY <1>2, <1>3, <1>6, <2>2 DEF Undelivered, OnWire, TravelInv, Awaits
  <2>4. load'[w].st \notin {"written", "ok"}
    BY <1>3
  <2>5. QED
    BY <1>4, <1>6, <2>1, <2>2, <2>3, <2>4 DEF RowTravels
<1>9. QED
  BY <1>4, <1>5, <1>7, <1>8, TravelElsewhere DEF Travels

LEMMA TravelFails ==
    ASSUME Shapes, TravelInv, NEW w \in Stations, LoadNoFile(w) \/ LoadDie(w),
           UNCHANGED <<stationvars, wire>>
    PROVE  TravelInv'
<1>1. LinesKept
  BY DiskKept DEF LoadNoFile, LoadDie, sesvars, diskvars
<1>2. /\ \/ load[w].st = "checked" /\ load'[w] = [st |-> "err"]
         \/ load'[w] = [st |-> "none"]
      /\ Busy(w) /\ \A v \in Stations \ {w} : load'[v] = load[v]
  BY DEF LoadNoFile, LoadDie, Shapes, NoLoad, Busy
<1>3. Uploaded' = Uploaded
  BY <1>1, KeptLines, KeptLogs
<1>4. Elsewhere(w)
  BY <1>1, <1>2, SentStays
  DEF Elsewhere, TravelKept, LinesKept, stationvars, formvars, filevars
<1>5. UNCHANGED <<cli, transition, complete, pending, written>>
  BY DEF stationvars, formvars, filevars
<1>6. wire[w] = NoRequest /\ wire'[w] = NoRequest
  BY <1>2 DEF TravelInv, Awaits, Busy
<1>7. Awaits(w)'
  BY <1>2, <1>6 DEF Awaits, Busy
<1>8. ASSUME NEW r \in Rows PROVE RowTravels(w, r)'
  <2>1. RowTravels(w, r) /\ (Sent(w, r) => Sent(w, r)')
        /\ \A s \in Sessions : Lines(s, w, r)' = Lines(s, w, r)
    BY <1>1, <1>5, SentStays DEF TravelInv, LinesKept
  <2>2. ~OnWire(w, r)' /\ ~AtRequest(w, r)'
    BY <1>2, <1>6 DEF OnWire, AtRequest, Busy
  <2>3. Undelivered(w, r)' => Undelivered(w, r)
    BY <1>2, <1>5, <2>2 DEF Undelivered, Busy, TravelInv, Awaits
  <2>4. load'[w].st \notin {"written", "ok"}
    BY <1>2
  <2>5. QED
    BY <1>3, <1>5, <2>1, <2>2, <2>3, <2>4 DEF RowTravels
<1>9. QED
  BY <1>3, <1>4, <1>7, <1>8, TravelElsewhere DEF Travels

LEMMA TravelWrite ==
    ASSUME Shapes, ServerInv, TravelInv, NEW w \in Stations, LoadWrite(w),
           UNCHANGED <<stationvars, wire>>
    PROVE  TravelInv'
<1> DEFINE t == load[w].ses
           body == load[w].body
<1>1. /\ t \in Sessions /\ body \in File
      /\ \A s \in Sessions : \A v \in Stations : \A r \in Rows :
            Lines(s, v, r)' = Lines(s, v, r) + IF s = t /\ v = w THEN body[r] ELSE 0
      /\ LogsKept
  BY WriteKeeps
<1>2. /\ load[w].st = "checked" /\ load'[w].st = "written"
      /\ load'[w].ses = t /\ load'[w].body = body
      /\ \A v \in Stations \ {w} : load'[v] = load[v]
  <2>1. load[w].st = "checked" /\ load' = [load EXCEPT ![w].st = "written"]
    BY DEF LoadWrite
  <2>2. load[w] \in BusyLoads
    BY <2>1, LoadFacts DEF Busy
  <2>3. QED
    BY <2>1, <2>2 DEF Shapes, BusyLoads
<1>3. Uploaded' = Uploaded
  BY <1>1, KeptLogs
<1>4. \A s \in Sessions : \A v \in Stations : \A r \in Rows : Lines(s, v, r) \in Nat
  BY FileFacts
<1> HIDE DEF t, body
<1>5. UNCHANGED <<cli, transition, complete, pending, written>>
  BY DEF stationvars, formvars, filevars
<1>6. \A v \in Stations \ {w} : \A s \in Sessions : \A r \in Rows :
          Lines(s, v, r)' = Lines(s, v, r)
  BY <1>1, <1>4
<1>7. Elsewhere(w)
  BY <1>2, <1>5, <1>6, SentStays DEF Elsewhere, TravelKept
<1>8. wire[w] = NoRequest /\ wire'[w] = NoRequest
  BY <1>2 DEF TravelInv, Awaits
<1>9. Awaits(w)'
  BY <1>2, <1>5, <1>8 DEF Awaits, TravelInv, Busy, t, body
<1>10. ASSUME NEW r \in Rows PROVE RowTravels(w, r)'
  <2>1. RowTravels(w, r) /\ (Sent(w, r) => Sent(w, r)')
    BY <1>5, SentStays DEF TravelInv
  <2>2. body[r] \in Nat
    BY <1>1 DEF File
  <2>3. \A s \in Sessions : /\ Lines(s, w, r) \in Nat
                            /\ s # t => Lines(s, w, r)' = Lines(s, w, r)
                            /\ s = t => Lines(s, w, r)' = Lines(s, w, r) + body[r]
    BY <1>1, <1>4, <2>2
  <2>4. body[r] > 0 => Sent(w, r) /\ \A s \in Sessions : Lines(s, w, r) = 0
    BY <1>2, <2>1 DEF RowTravels, AtRequest, Undelivered, Busy, body
  <2>5. ~OnWire(w, r)' /\ (AtRequest(w, r)' => body[r] > 0)
    BY <1>2, <1>8 DEF OnWire, AtRequest
  <2>6. ~Undelivered(w, r)'
    BY <1>2, <2>5 DEF Undelivered
  <2>7. CASE body[r] > 0
    <3>1. \A s \in Sessions : Lines(s, w, r)' > 0 => s = t
      BY <2>3, <2>4, <2>7
    <3>2. PICK s \in Sessions : s = t
      BY <1>1
    <3>3. Lines(s, w, r)' > 0
      BY <1>1, <2>2, <2>3, <2>4, <2>7, <3>2
    <3>4. Lines(load[w].ses, w, r)' > 0
      BY <1>2, <3>2, <3>3 DEF Lines
    <3>5. Sent(w, r)'
      BY <2>1, <2>4, <2>7
    <3>6. /\ load'[w].st # "ok"
          /\ complete'[w][r] > 0 => r \in Uploaded'
      BY <1>2, <1>3, <1>5, <2>1 DEF RowTravels
    <3>7. QED
      BY <2>6, <3>1, <3>4, <3>5, <3>6 DEF RowTravels
  <2>8. CASE body[r] = 0
    <3>1. \A s \in Sessions : Lines(s, w, r)' = Lines(s, w, r)
      BY <2>3, <2>8
    <3>2. ~AtRequest(w, r)' /\ ~(load'[w].body[r] > 0)
      BY <1>2, <2>5, <2>8
    <3>3. QED
      BY <1>2, <1>3, <1>5, <2>1, <2>5, <2>6, <3>1, <3>2 DEF RowTravels
  <2>9. QED
    BY <2>2, <2>7, <2>8
<1>11. QED
  BY <1>3, <1>7, <1>9, <1>10, TravelElsewhere DEF Travels

LEMMA TravelScript ==
    ASSUME Shapes, TravelInv, NEW w \in Stations, LoadScript(w),
           UNCHANGED <<stationvars, wire>>
    PROVE  TravelInv'
<1> DEFINE t == load[w].ses
<1>1. /\ t \in Sessions
      /\ \A s \in Sessions : \A v \in Stations : \A r \in Rows :
            Lines(s, v, r)' = Lines(s, v, r)
      /\ \A s \in Sessions : \A r \in Rows :
            InLog(s, r)' <=> InLog(s, r) \/ (s = t /\ Lines(s, w, r) > 0)
      /\ Uploaded \subseteq Uploaded'
  BY ScriptKeeps
<1>2. /\ load[w].st = "written" /\ load'[w] = [st |-> "ok"]
      /\ \A v \in Stations \ {w} : load'[v] = load[v]
  BY DEF LoadScript, Shapes
<1>3. UNCHANGED <<cli, transition, complete, pending, written>>
  BY DEF stationvars, formvars, filevars
<1>4. Elsewhere(w)
  BY <1>1, <1>2, <1>3, SentStays DEF Elsewhere, TravelKept
<1>5. wire[w] = NoRequest /\ wire'[w] = NoRequest
  BY <1>2 DEF TravelInv, Awaits
<1>6. Awaits(w)'
  BY <1>2, <1>5 DEF Awaits, Busy
<1>7. ASSUME NEW r \in Rows PROVE RowTravels(w, r)'
  <2>1. RowTravels(w, r) /\ (Sent(w, r) => Sent(w, r)')
        /\ \A s \in Sessions : Lines(s, w, r)' = Lines(s, w, r)
    BY <1>1, <1>3, SentStays DEF TravelInv
  <2>2. ~OnWire(w, r)' /\ ~AtRequest(w, r)' /\ ~Undelivered(w, r)'
    BY <1>2, <1>5 DEF OnWire, AtRequest, Busy, Undelivered
  <2>3. ASSUME cli[w] = "waiting", transition[w][r] > 0 PROVE r \in Uploaded'
    <3>1. load[w].body[r] > 0
      BY <1>2, <2>3 DEF TravelInv, Awaits, Busy
    <3>2. Lines(t, w, r) > 0
      BY <1>2, <2>1, <3>1 DEF RowTravels
    <3>3. PICK s \in Sessions : s = t
      BY <1>1
    <3>4. InLog(s, r)'
      BY <1>1, <3>2, <3>3
    <3>5. QED
      BY <3>4 DEF Uploaded
  <2>4. QED
    BY <1>1, <1>2, <1>3, <2>1, <2>2, <2>3 DEF RowTravels
<1>8. QED
  BY <1>1, <1>4, <1>6, <1>7, TravelElsewhere DEF Travels

LEMMA TravelUpload ==
    ASSUME OnceInv, Shapes, TravelInv, NEW w \in Stations, NEW u \in Sessions, Upload(w, u)
    PROVE  TravelInv'
<1>1. LinesKept /\ load' = load /\ load[w].st = "none"
  BY DiskKept DEF Upload, servervars, sesvars, diskvars
<1>2. /\ pending' = [pending EXCEPT ![w] = Empty]
      /\ transition' = [transition EXCEPT ![w] = pending[w]]
      /\ cli' = [cli EXCEPT ![w] = "waiting"]
      /\ UNCHANGED <<complete, written>>
  BY DEF Upload, Rename, formvars
<1>3. /\ wire'[w] # NoRequest => wire'[w].body = pending[w]
      /\ \A v \in Stations \ {w} : wire'[v] = wire[v]
  BY DEF Upload, Shapes
<1>4. Uploaded' = Uploaded
  BY <1>1, KeptLines, KeptLogs
<1>5. /\ pending \in [Stations -> File] /\ transition \in [Stations -> File]
      /\ cli \in [Stations -> {"idle", "waiting"}]
  BY DEF OnceInv, StationTypeOK
<1>6. \A v \in Stations : \A r \in Rows : Sent(v, r) => Sent(v, r)'
  BY <1>2, <1>5, AtRow DEF Sent
<1>7. Elsewhere(w)
  BY <1>1, <1>2, <1>3, <1>5, <1>6 DEF Elsewhere, TravelKept, LinesKept
<1>8. transition'[w] = pending[w] /\ pending'[w] = Empty
  BY <1>2, <1>5
<1>9. Awaits(w)'
  BY <1>1, <1>3, <1>8 DEF Awaits, Busy
<1>10. ASSUME NEW r \in Rows PROVE RowTravels(w, r)'
  <2>1. RowTravels(w, r) /\ (Sent(w, r) => Sent(w, r)')
        /\ \A s \in Sessions : Lines(s, w, r)' = Lines(s, w, r)
    BY <1>1, <1>6 DEF TravelInv, LinesKept
  <2>2. pending[w][r] > 0 => StationOf[r] = w /\ r \in written
    <3>1. CopiesAt(r, w) = IF w = StationOf[r] /\ r \in written THEN 1 ELSE 0
      BY DEF OnceInv, OneCopy
    <3>2. pending[w][r] > 0 => CopiesAt(r, w) > 0
      BY Copies DEF OnceInv
    <3>3. QED
      BY <3>1, <3>2
  <2>3. pending'[w][r] = 0
    BY <1>8, AtRow
  <2>4. OnWire(w, r)' => pending[w][r] > 0
    BY <1>3 DEF OnWire
  <2>5. OnWire(w, r)' => Sent(w, r)' /\ ~Sent(w, r)
    BY <1>2, <2>2, <2>3, <2>4 DEF Sent
  <2>6. OnWire(w, r)' => \A s \in Sessions : Lines(s, w, r)' = 0
    <3>1. \A s \in Sessions : Lines(s, w, r) \in Nat
      BY FileFacts
    <3>2. QED
      BY <2>1, <2>5, <3>1 DEF RowTravels
  <2>7. ~AtRequest(w, r)' /\ (Undelivered(w, r)' => OnWire(w, r)')
    BY <1>1 DEF AtRequest, Busy, Undelivered
  <2>8. load'[w].st \notin {"written", "ok"}
    BY <1>1
  <2>9. QED
    BY <1>2, <1>4, <2>1, <2>5, <2>6, <2>7, <2>8 DEF RowTravels
<1>11. QED
  BY <1>4, <1>7, <1>9, <1>10, TravelElsewhere DEF Travels

LEMMA TravelAnswer ==
    ASSUME OnceInv, Shapes, TravelInv, NEW w \in Stations, Answer(w)
    PROVE  TravelInv'
<1>1. /\ LinesKept /\ wire' = wire /\ load'[w] = NoLoad
      /\ load[w].st \in {"ok", "err"}
      /\ \A v \in Stations \ {w} : load'[v] = load[v]
  BY DiskKept, OtherRequests DEF Answer, sesvars, diskvars
<1>2. Uploaded' = Uploaded
  BY <1>1, KeptLines, KeptLogs
<1>3. /\ pending \in [Stations -> File] /\ transition \in [Stations -> File]
      /\ complete \in [Stations -> File] /\ cli \in [Stations -> {"idle", "waiting"}]
  BY DEF OnceInv, StationTypeOK
<1>4. wire[w] = NoRequest
  BY <1>1 DEF TravelInv, Awaits
<1>5. written' = written
  BY DEF Answer, Archive, Revert, stationvars, formvars
<1>6. /\ \A v \in Stations \ {w} : /\ pending'[v] = pending[v] /\ complete'[v] = complete[v]
                                   /\ transition'[v] = transition[v] /\ cli'[v] = cli[v]
      /\ cli'[w] # "waiting"
  BY <1>3 DEF Answer, Archive, Revert, stationvars, formvars, filevars
<1>7. Elsewhere(w)
  BY <1>1, <1>5, <1>6 DEF Elsewhere, TravelKept, LinesKept, Sent
<1>8. Awaits(w)' /\ ~Busy(w)'
  BY <1>1, <1>6 DEF Awaits, Busy, NoLoad
<1>9. ASSUME NEW r \in Rows PROVE RowTravels(w, r)'
  <2>1. /\ RowTravels(w, r)
        /\ \A s \in Sessions : Lines(s, w, r)' = Lines(s, w, r)
    BY <1>1 DEF TravelInv, LinesKept
  <2>2. /\ ~OnWire(w, r)' /\ ~AtRequest(w, r)' /\ ~Undelivered(w, r)'
        /\ load'[w].st \notin {"written", "ok"}
    BY <1>1, <1>4, <1>8 DEF OnWire, AtRequest, Undelivered, NoLoad
  <2>3. complete'[w][r] > 0 => r \in Uploaded
    <3>1. CASE cli[w] = "waiting" /\ load[w].st = "ok"
      <4>1. complete'[w] = Plus(complete[w], transition[w])
        BY <1>3, <3>1 DEF Answer, Archive
      <4>2. complete'[w][r] = complete[w][r] + transition[w][r]
        BY <1>3, <4>1, AtRow
      <4>3. complete[w][r] \in Nat /\ transition[w][r] \in Nat
        BY Copies DEF OnceInv
      <4>4. QED
        BY <2>1, <3>1, <4>2, <4>3 DEF RowTravels
    <3>2. CASE ~(cli[w] = "waiting" /\ load[w].st = "ok")
      <4>1. complete' = complete
        BY <3>2 DEF Answer, Revert, stationvars, filevars
      <4>2. QED
        BY <2>1, <4>1 DEF RowTravels
    <3>3. QED
      BY <3>1, <3>2
  <2>4. ASSUME NEW s \in Sessions, Lines(s, w, r) > 0 PROVE Sent(w, r)'
    <3>1. Sent(w, r) /\ ~Undelivered(w, r)
      BY <2>1, <2>4 DEF RowTravels
    <3>2. pending'[w][r] = 0
      <4>1. CASE cli[w] = "waiting" /\ load[w].st = "err"
        <5>1. transition[w][r] = 0
          <6>1. ~(transition[w][r] > 0) /\ transition[w][r] \in Nat
            BY <3>1, <4>1, Copies DEF Undelivered, OnceInv
          <6>2. QED
            BY <6>1
        <5>2. pending'[w] = pending[w] \/ pending'[w] = transition[w]
          BY <1>3, <4>1 DEF Answer, Revert
        <5>3. QED
          BY <3>1, <5>1, <5>2 DEF Sent
      <4>2. CASE ~(cli[w] = "waiting" /\ load[w].st = "err")
        <5>1. pending' = pending
          BY <1>1, <4>2 DEF Answer, Archive, stationvars
        <5>2. QED
          BY <3>1, <5>1 DEF Sent
      <4>3. QED
        BY <4>1, <4>2
    <3>3. QED
      BY <1>5, <3>1, <3>2 DEF Sent
  <2>5. QED
    BY <1>2, <1>6, <2>1, <2>2, <2>3, <2>4 DEF RowTravels
<1>10. QED
  BY <1>2, <1>7, <1>8, <1>9, TravelElsewhere DEF Travels

LEMMA TravelInit == Init => TravelInv
<1> SUFFICES ASSUME Init PROVE TravelInv
  OBVIOUS
<1>1. \A w \in Stations : /\ wire[w] = NoRequest /\ load[w].st = "none"
                          /\ cli[w] = "idle" /\ complete[w] = Empty
  BY DEF Init, StationInit, ServerInit, NoLoad
<1>2. \A s \in Sessions : \A w \in Stations : \A r \in Rows : Lines(s, w, r) = 0
  BY AtRow DEF Init, ServerInit, Lines
<1>3. \A r \in Rows : Empty[r] = 0
  BY AtRow
<1>4. QED
  BY <1>1, <1>2, <1>3
  DEF TravelInv, Awaits, RowTravels, OnWire, AtRequest, Undelivered, Busy

LEMMA TravelStep ==
    ASSUME PrintFails = {}, OnceInv, Shapes, ServerInv, TravelInv, Next
    PROVE  TravelInv'
<1>1. ASSUME LinesKept, UNCHANGED <<stationvars, wire, load>> PROVE TravelInv'
  BY <1>1, TravelQuiet, SentStays DEF stationvars, formvars, filevars
<1>2. ASSUME NEW w \in Stations, StationActs(w) PROVE TravelInv'
  <2>1. LinesKept /\ UNCHANGED <<wire, load>>
    BY <1>2, DiskKept DEF StationActs, servervars, sesvars, diskvars
  <2>2. CASE FormStep(w)
    BY <2>1, <2>2, FormWrites, TravelQuiet
  <2>3. CASE GiveUp(w)
    <3>1. /\ UNCHANGED <<written, pending, transition, complete>>
          /\ cli' = [cli EXCEPT ![w] = "idle"]
      BY <2>3 DEF GiveUp, formvars, filevars
    <3>2. \A v \in Stations : cli'[v] = "waiting" => cli[v] = "waiting"
      BY <3>1 DEF OnceInv, StationTypeOK
    <3>3. QED
      BY <2>1, <3>1, <3>2, TravelQuiet, SentStays
  <2>4. QED
    BY <1>2, <2>2, <2>3 DEF StationActs
<1>3. ASSUME NEW w \in Stations, Refresh(w) PROVE TravelInv'
  BY <1>1, <1>3, DiskKept DEF Refresh, servervars, sesvars, diskvars
<1>4. ASSUME NEW w \in Stations, NEW s \in Sessions, Create(w, s) PROVE TravelInv'
  BY <1>1, <1>4, DiskKept DEF Create, CreateSession, diskvars
<1>5. ASSUME NEW w \in Stations, NEW s \in Sessions, NEW c \in Runs, ExecuteSession(w, c, s)
      PROVE  TravelInv'
  BY <1>1, <1>5, DiskKept DEF ExecuteSession, Execute, sesvars, diskvars
<1>6. ASSUME NEW w \in Stations, UNCHANGED <<stationvars, wire>>,
             LoadStep(w) \/ LoadNoFile(w) \/ LoadDie(w)
      PROVE  TravelInv'
  BY <1>6, TravelWrite, TravelScript, TravelFails DEF LoadStep
<1>7. ASSUME NEW c \in Runs, UNCHANGED <<stationvars, wire>>,
             RunStep(c) \/ RunRetry(c) \/ RunDie(c)
      PROVE  TravelInv'
  <2>1. load' = load
    BY <1>7 DEF RunStep, RunBegin, RunRow, RunEnd, RunArchive, RunRetry, RunDie
  <2>2. LinesKept
    <3>1. CASE RunArchive(c)
      BY <3>1, ArchiveKeeps
    <3>2. CASE RunBegin(c) \/ RunRow(c) \/ RunEnd(c) \/ RunRetry(c) \/ RunDie(c)
      BY <3>2, DiskKept
      DEF RunBegin, RunRow, RunEnd, RunRetry, RunDie, sesvars, diskvars
    <3>3. QED
      BY <1>7, <3>1, <3>2 DEF RunStep
  <2>3. QED
    BY <1>1, <1>7, <2>1, <2>2
<1>8. QED
  BY <1>2, <1>3, <1>4, <1>5, <1>6, <1>7, TravelLost, TravelArrive, TravelUpload, TravelAnswer
  DEF Next, ServerActs, FaultStep

LEMMA OnceStep ==
    ASSUME PrintFails = {}, OnceInv, Next
    PROVE  OnceInv'
<1>1. ASSUME stationvars' = stationvars PROVE OnceInv'
  BY <1>1 DEF OnceInv, StationTypeOK, OneCopy, CopiesAt, Uploadable, NoDialog,
              stationvars, formvars, filevars, exportvars
<1>2. ASSUME NEW w \in Stations, FormStep(w) \/ UploadStep(w) PROVE OnceInv'
  BY <1>2, OnceKept
<1>3. ASSUME NEW w \in Stations,
             \/ StationActs(w) \/ Refresh(w) \/ Arrive(w) \/ RequestLost(w) \/ Answer(w)
      PROVE  OnceInv'
  BY <1>1, <1>2, <1>3
  DEF StationActs, Refresh, Arrive, RequestLost, Answer, UploadStep
<1>4. ASSUME NEW w \in Stations, NEW s \in Sessions,
             \/ Create(w, s) \/ Upload(w, s) \/ \E c \in Runs : ExecuteSession(w, c, s)
      PROVE  OnceInv'
  BY <1>1, <1>2, <1>4 DEF Create, Upload, ExecuteSession, UploadStep
<1>5. QED
  BY <1>1, <1>3, <1>4 DEF Next, ServerActs

-----------------------------------------------------------------------------
(* A child runs what its session holds, and no other child runs that.      *)

LEMMA OneSession ==
    ASSUME Shapes, TravelInv, NEW r \in Rows, NEW s \in Sessions, NEW t \in Sessions,
           InLog(s, r), InLog(t, r)
    PROVE  s = t
<1>1. PICK w \in scripts[s] : Lines(s, w, r) > 0
  BY InLogLines
<1>2. PICK v \in scripts[t] : Lines(t, v, r) > 0
  BY InLogLines
<1>3. w \in Stations /\ v \in Stations
  BY DEF Shapes
<1>4. w = v
  BY <1>1, <1>2, <1>3 DEF TravelInv, RowTravels, Sent
<1>5. QED
  BY <1>1, <1>2, <1>3, <1>4 DEF TravelInv, RowTravels

Working(c) == run[c].st \in {"forked", "running"}

LEMMA WorkingFacts ==
    ASSUME Shapes, ServerInv, NEW c \in Runs, Working(c)
    PROVE  /\ Active(c) /\ run[c].ses \in Sessions /\ run[c].todo \subseteq Rows
           /\ run[c].ses \notin ended
           /\ \A d \in Runs : Active(d) /\ run[d].ses = run[c].ses => d = c
BY RunFacts, ActiveFacts DEF Working, Active, ActiveStates, ServerInv, RunsApart

\* Steps that run no row and end no session.
LEMMA WorkGoesOn ==
    ASSUME Shapes, ServerInv, WorkInv, LogsKept, UNCHANGED <<results, skipped, ended>>,
           in_process \subseteq in_process',
           \A d \in Runs : Working(d)' =>
               Working(d) /\ run'[d].ses = run[d].ses /\ run'[d].todo = run[d].todo
    PROVE  WorkInv'
<1>1. Shapes => in_process \subseteq Sessions /\ ended \subseteq Sessions
  BY DEF Shapes
<1>2. RunsAll'
  <2> SUFFICES ASSUME NEW c \in Runs, Working(c)', NEW r \in Rows
               PROVE  /\ InLog(run[c].ses, r)' => r \in run'[c].todo \/ results'[r] > 0
                      /\ r \in run'[c].todo => InLog(run[c].ses, r)' /\ ~Done(r)'
    BY DEF RunsAll, Working
  <2>1. PICK s \in Sessions : s = run[c].ses /\ s = run'[c].ses
    BY WorkingFacts
  <2>2. InLog(s, r)' <=> InLog(s, r)
    BY DEF LogsKept
  <2>3. /\ InLog(s, r) => r \in run[c].todo \/ results[r] > 0
        /\ r \in run[c].todo => InLog(s, r) /\ ~Done(r)
    BY <2>1 DEF WorkInv, RunsAll, Working
  <2>4. /\ InLog(s, r)' => r \in run'[c].todo \/ results'[r] > 0
        /\ r \in run'[c].todo => InLog(s, r)' /\ ~Done(r)'
    BY <2>2, <2>3 DEF Done
  <2>5. QED
    BY <2>1, <2>4 DEF InLog
<1>3. RunsOnly'
  BY <1>1 DEF WorkInv, RunsOnly, Done, LogsKept
<1>4. EndedIsRun'
  BY <1>1 DEF WorkInv, EndedIsRun, LogsKept
<1>5. QED
  BY <1>2, <1>3, <1>4 DEF WorkInv

\* An upload is taken while no child works on its session.
LEMMA WorkScript ==
    ASSUME Shapes, ServerInv, WorkInv, NEW w \in Stations, LoadScript(w)
    PROVE  WorkInv'
<1> DEFINE t == load[w].ses
<1>1. /\ t \in Sessions
      /\ \A s \in Sessions : \A r \in Rows :
            InLog(s, r)' <=> InLog(s, r) \/ (s = t /\ Lines(s, w, r) > 0)
  BY ScriptKeeps
<1>2. /\ t \notin in_process \union ended
      /\ \A c \in Runs : run[c].st # "forked"
  BY DEF LoadScript, ServerInv, UploadsApart, Busy
<1>3. UNCHANGED <<run, in_process, ended, results, skipped>>
  BY DEF LoadScript, outvars
<1> HIDE DEF t
<1>4. ASSUME NEW s \in in_process \union ended, NEW r \in Rows
      PROVE  s \in Sessions /\ (InLog(s, r)' <=> InLog(s, r))
  BY <1>1, <1>2 DEF Shapes
<1>5. RunsAll'
  <2> SUFFICES ASSUME NEW c \in Runs, Working(c)', NEW r \in Rows
               PROVE  /\ InLog(run[c].ses, r)' => r \in run'[c].todo \/ results'[r] > 0
                      /\ r \in run'[c].todo => InLog(run[c].ses, r)' /\ ~Done(r)'
    BY DEF RunsAll, Working
  <2>1. Working(c) /\ run[c].st = "running"
    BY <1>2, <1>3 DEF Working
  <2>2. PICK s \in Sessions : s = run[c].ses /\ s = run'[c].ses /\ s \in in_process
    BY <1>3, <2>1, WorkingFacts DEF ServerInv, RunsApart
  <2>3. InLog(s, r)' <=> InLog(s, r)
    BY <1>4, <2>2
  <2>4. /\ InLog(s, r)' => r \in run'[c].todo \/ results'[r] > 0
        /\ r \in run'[c].todo => InLog(s, r)' /\ ~Done(r)'
    BY <1>3, <2>1, <2>2, <2>3 DEF WorkInv, RunsAll, Done
  <2>5. QED
    BY <2>2, <2>4 DEF InLog
<1>6. RunsOnly'
  BY <1>3, <1>4 DEF WorkInv, RunsOnly, Done
<1>7. EndedIsRun'
  BY <1>3, <1>4 DEF WorkInv, EndedIsRun
<1>8. QED
  BY <1>5, <1>6, <1>7 DEF WorkInv

\* What is not in process and not ended has run nothing.
LEMMA NothingDone ==
    ASSUME Shapes, TravelInv, RunsOnly, NEW s \in Sessions, s \notin in_process \union ended,
           NEW r \in Rows, InLog(s, r)
    PROVE  ~Done(r)
<1> SUFFICES ASSUME Done(r) PROVE FALSE
  OBVIOUS
<1>1. PICK t \in in_process \union ended : InLog(t, r)
  BY DEF RunsOnly
<1>2. t \in Sessions
  BY DEF Shapes
<1>3. QED
  BY <1>1, <1>2, OneSession

LEMMA WorkFork ==
    ASSUME Shapes, ServerInv, TravelInv, WorkInv, NEW c \in Runs, NEW t \in Sessions,
           Execute(c, t)
    PROVE  WorkInv'
<1>1. LogsKept
  BY DiskKept, KeptLines DEF Execute, sesvars, diskvars
<1>2. UNCHANGED <<in_process, ended, results, skipped>> /\ t \notin in_process \union ended
  BY DEF Execute, sesvars, outvars
<1>3. /\ run' = [run EXCEPT ![c] = run'[c]]
      /\ run'[c].ses = t /\ run'[c].todo = Commands(t)
  BY ForkFacts
<1>4. \A d \in Runs \ {c} : run'[d] = run[d]
  BY <1>3, OtherChildren
<1>5. \A r \in Rows : InLog(t, r) <=> r \in Commands(t)
  <2>1. NotArchived(t) /\ scripts[t] \subseteq Stations
    BY <1>2 DEF ServerInv, RunsApart, Shapes
  <2> SUFFICES ASSUME NEW r \in Rows PROVE InLog(t, r) <=> r \in Commands(t)
    OBVIOUS
  <2>2. \A w \in scripts[t] : log[t][w][r] + archive[t][w][r] = log[t][w][r]
    BY <2>1, FileFacts DEF NotArchived
  <2>3. QED
    BY <2>2 DEF InLog, Commands
<1>6. RunsAll'
  <2> SUFFICES ASSUME NEW d \in Runs, Working(d)', NEW r \in Rows
               PROVE  /\ InLog(run[d].ses, r)' => r \in run'[d].todo \/ results'[r] > 0
                      /\ r \in run'[d].todo => InLog(run[d].ses, r)' /\ ~Done(r)'
    BY DEF RunsAll, Working
  <2>1. CASE d = c
    <3>1. InLog(t, r)' <=> InLog(t, r)
      BY <1>1 DEF LogsKept
    <3>2. /\ InLog(t, r)' => r \in run'[c].todo
          /\ r \in run'[c].todo => InLog(t, r)' /\ ~Done(r)
      BY <1>2, <1>3, <1>5, <3>1, NothingDone DEF WorkInv
    <3>3. QED
      BY <1>2, <1>3, <2>1, <3>2 DEF InLog, Done
  <2>2. CASE d # c
    <3>1. Working(d) /\ run'[d] = run[d]
      BY <1>4, <2>2 DEF Working
    <3>2. PICK s \in Sessions : s = run[d].ses /\ s = run'[d].ses
      BY <3>1, WorkingFacts
    <3>3. InLog(s, r)' <=> InLog(s, r)
      BY <1>1 DEF LogsKept
    <3>4. /\ InLog(s, r)' => r \in run'[d].todo \/ results'[r] > 0
          /\ r \in run'[d].todo => InLog(s, r)' /\ ~Done(r)'
      BY <1>2, <3>1, <3>2, <3>3 DEF WorkInv, RunsAll, Done, Working
    <3>5. QED
      BY <3>2, <3>4 DEF InLog
  <2>3. QED
    BY <2>1, <2>2
<1>7. in_process \subseteq Sessions /\ ended \subseteq Sessions
  BY DEF Shapes
<1>8. RunsOnly' /\ EndedIsRun'
  BY <1>1, <1>2, <1>7 DEF WorkInv, RunsOnly, EndedIsRun, Done, LogsKept
<1>9. QED
  BY <1>6, <1>8 DEF WorkInv

\* A row of a running child, as RunRow has it.
LEMMA RowChosen ==
    ASSUME Shapes, ServerInv, NEW c \in Runs, RunRow(c)
    PROVE  /\ run[c].st = "running" /\ Working(c)
           /\ UNCHANGED <<made, in_process, ended, scripts, log, archive>>
           /\ \E r \in Rows : \E hs \in Handlers(r) :
                 r \in run[c].todo /\ RowRun(c, r, hs)
<1>1. /\ run[c].st = "running"
      /\ UNCHANGED <<made, in_process, ended, scripts, log, archive>>
  BY DEF RunRow, diskvars
<1>2. \E r \in Rows : \E hs \in Handlers(r) : RowRun(c, r, hs)
  BY DEF RunRow, RowRun
<1>3. QED
  BY <1>1, <1>2 DEF RowRun, IsNext, Working

LEMMA WorkRow ==
    ASSUME Shapes, ServerInv, TravelInv, WorkInv, NEW c \in Runs, RunRow(c)
    PROVE  WorkInv'
<1>1. /\ run[c].st = "running" /\ Working(c)
      /\ UNCHANGED <<made, in_process, ended, scripts, log, archive>>
  BY RowChosen
<1>q. PICK q \in Rows : \E hs \in Handlers(q) : q \in run[c].todo /\ RowRun(c, q, hs)
  BY RowChosen
<1>2. PICK hs \in Handlers(q) : q \in run[c].todo /\ RowRun(c, q, hs)
  BY <1>q
<1>3. LogsKept
  BY <1>1, DiskKept, KeptLines
<1>4. PICK t \in Sessions : t = run[c].ses /\ t \in in_process /\ t \notin ended
  BY <1>1, WorkingFacts DEF ServerInv, RunsApart
<1>5. InLog(t, q) /\ ~Done(q)
  BY <1>1, <1>2, <1>4 DEF WorkInv, RunsAll
<1>6. /\ run' = [run EXCEPT ![c] = run'[c]] /\ run'[c].st = "running"
      /\ run'[c].ses = t /\ run'[c].todo = run[c].todo \ {q}
  <2>1. run[c].skip \subseteq run[c].seen
    BY <1>1, WorkingFacts DEF ServerInv, RunsApart
  <2>2. QED
    BY <1>1, <1>2, <1>4, <2>1, WorkingFacts, RowRunFacts
<1>7. \A d \in Runs \ {c} : run'[d] = run[d]
  BY <1>6, OtherChildren
<1>8. /\ results'[q] > 0
      /\ \A r \in Rows : /\ results[r] \in Nat
                         /\ results[r] > 0 => results'[r] > 0
                         /\ r # q => (Done(r)' <=> Done(r))
  <2>1. results \in File /\ results' = [results EXCEPT ![q] = results[q] + 1]
    BY <1>2 DEF Shapes, RowRun
  <2>2. \A r \in Rows : /\ results[r] \in Nat
                        /\ results'[r] = IF r = q THEN results[r] + 1 ELSE results[r]
    BY <2>1 DEF File
  <2>3. skipped' \in {skipped, skipped \union {q}}
    BY <1>2 DEF RowRun
  <2>4. QED
    BY <2>2, <2>3 DEF Done
<1>9. RunsAll'
  <2> SUFFICES ASSUME NEW d \in Runs, Working(d)', NEW r \in Rows
               PROVE  /\ InLog(run[d].ses, r)' => r \in run'[d].todo \/ results'[r] > 0
                      /\ r \in run'[d].todo => InLog(run[d].ses, r)' /\ ~Done(r)'
    BY DEF RunsAll, Working
  <2>1. Working(d)
    BY <1>1, <1>7 DEF Working
  <2>2. PICK s \in Sessions : s = run[d].ses /\ s = run'[d].ses
    BY <1>4, <1>6, <1>7, <2>1, WorkingFacts
  <2>3. InLog(s, r)' <=> InLog(s, r)
    BY <1>3 DEF LogsKept
  <2>4. /\ InLog(s, r) => r \in run[d].todo \/ results[r] > 0
        /\ r \in run[d].todo => InLog(s, r) /\ ~Done(r)
    BY <2>1, <2>2 DEF WorkInv, RunsAll, Working
  <2>5. run'[d].todo = run[d].todo \ {q}
    <3>1. CASE d = c
      BY <1>6, <3>1
    <3>2. CASE d # c
      <4>1. s # t
        BY <1>1, <1>4, <2>1, <2>2, <3>2, WorkingFacts
      <4>2. q \notin run[d].todo
        <5>1. q \in run[d].todo => InLog(s, q)
          BY <2>1, <2>2 DEF WorkInv, RunsAll, Working
        <5>2. QED
          BY <1>5, <4>1, <5>1, OneSession
      <4>3. QED
        BY <1>7, <3>2, <4>2
    <3>3. QED
      BY <3>1, <3>2
  <2>6. /\ InLog(s, r)' => r \in run'[d].todo \/ results'[r] > 0
        /\ r \in run'[d].todo => InLog(s, r)' /\ ~Done(r)'
    BY <1>8, <2>3, <2>4, <2>5
  <2>7. QED
    BY <2>2, <2>6 DEF InLog
<1>a. in_process \subseteq Sessions /\ ended \subseteq Sessions
  BY DEF Shapes
<1>10. RunsOnly'
  <2> SUFFICES ASSUME NEW r \in Rows, Done(r)'
               PROVE  \E s \in in_process \union ended : InLog(s, r)'
    BY <1>1 DEF RunsOnly
  <2>1. CASE r = q
    BY <1>3, <1>4, <1>5, <2>1 DEF LogsKept
  <2>2. CASE r # q
    BY <1>3, <1>8, <1>a, <2>2 DEF WorkInv, RunsOnly, LogsKept
  <2>3. QED
    BY <2>1, <2>2
<1>11. EndedIsRun'
  BY <1>1, <1>3, <1>8, <1>a DEF WorkInv, EndedIsRun, LogsKept
<1>12. QED
  BY <1>9, <1>10, <1>11 DEF WorkInv

LEMMA WorkEnd ==
    ASSUME Shapes, ServerInv, WorkInv, NEW c \in Runs, RunEnd(c)
    PROVE  WorkInv'
<1>1. LogsKept
  BY DiskKept, KeptLines DEF RunEnd, diskvars
<1>2. PICK t \in Sessions : t = run[c].ses
  BY WorkingFacts DEF RunEnd, Working
<1>3. /\ run[c].st = "running" /\ run[c].todo = {}
      /\ ended' = ended \union {t} /\ in_process' = in_process \ {t}
      /\ UNCHANGED <<results, skipped>>
  BY <1>2 DEF RunEnd, outvars
<1>4. run' = [run EXCEPT ![c] = run'[c]] /\ run'[c].st = "ended"
  <2>1. ~RunBegin(c)
    BY <1>3 DEF RunBegin
  <2>2. QED
    BY <2>1, StateFacts
<1>5. \A d \in Runs : Working(d)' => Working(d) /\ run'[d] = run[d]
  BY <1>4, OtherChildren DEF Working
<1>6. in_process \subseteq Sessions /\ ended \subseteq Sessions
  BY DEF Shapes
<1>7. RunsAll'
  <2> SUFFICES ASSUME NEW d \in Runs, Working(d)', NEW r \in Rows
               PROVE  /\ InLog(run[d].ses, r)' => r \in run'[d].todo \/ results'[r] > 0
                      /\ r \in run'[d].todo => InLog(run[d].ses, r)' /\ ~Done(r)'
    BY DEF RunsAll, Working
  <2>1. PICK s \in Sessions : s = run[d].ses /\ s = run'[d].ses
    BY <1>5, WorkingFacts
  <2>2. InLog(s, r)' <=> InLog(s, r)
    BY <1>1 DEF LogsKept
  <2>3. /\ InLog(s, r)' => r \in run'[d].todo \/ results'[r] > 0
        /\ r \in run'[d].todo => InLog(s, r)' /\ ~Done(r)'
    BY <1>3, <1>5, <2>1, <2>2 DEF WorkInv, RunsAll, Done, Working
  <2>4. QED
    BY <2>1, <2>3 DEF InLog
<1>8. RunsOnly'
  BY <1>1, <1>3, <1>6 DEF WorkInv, RunsOnly, Done, LogsKept
<1>9. EndedIsRun'
  <2>1. \A r \in Rows : InLog(t, r) => results[r] > 0
    BY <1>2, <1>3 DEF WorkInv, RunsAll
  <2>2. QED
    BY <1>1, <1>3, <1>6, <2>1 DEF WorkInv, EndedIsRun, LogsKept
<1>10. QED
  BY <1>7, <1>8, <1>9 DEF WorkInv

LEMMA WorkQuiet ==
    ASSUME Shapes, ServerInv, WorkInv, LogsKept,
           UNCHANGED <<results, skipped, in_process, ended, run>>
    PROVE  WorkInv'
<1>1. \A d \in Runs : Working(d)' =>
          Working(d) /\ run'[d].ses = run[d].ses /\ run'[d].todo = run[d].todo
  BY DEF Working
<1>2. QED
  BY <1>1, WorkGoesOn

\* Only the children that go on keep something to do.
LEMMA WorkOn ==
    ASSUME Shapes, ServerInv, WorkInv, NEW c \in Runs,
           RunBegin(c) \/ RunArchive(c) \/ RunRetry(c) \/ RunDie(c)
    PROVE  WorkInv'
<1>1. /\ UNCHANGED <<results, skipped, ended>> /\ in_process \subseteq in_process'
      /\ LogsKept
  <2>1. LinesKept
    <3>1. CASE RunArchive(c)
      BY <3>1, ArchiveKeeps
    <3>2. CASE RunBegin(c) \/ RunRetry(c) \/ RunDie(c)
      BY <3>2, DiskKept DEF RunBegin, RunRetry, RunDie, sesvars, diskvars
    <3>3. QED
      BY <3>1, <3>2
  <2>2. QED
    BY <2>1, KeptLines DEF RunBegin, RunArchive, RunRetry, RunDie, sesvars, outvars
<1>2. /\ run' = [run EXCEPT ![c] = run'[c]]
      /\ Working(c)' =>
            Working(c) /\ run'[c].ses = run[c].ses /\ run'[c].todo = run[c].todo
  <2>1. CASE RunBegin(c)
    BY <2>1, StateFacts DEF Working, RunBegin
  <2>2. CASE RunRetry(c)
    BY <2>2, RetryFacts DEF Working
  <2>3. CASE RunArchive(c) \/ RunDie(c)
    BY <2>3, LastFacts DEF Working
  <2>4. QED
    BY <2>1, <2>2, <2>3
<1>3. \A d \in Runs \ {c} : run'[d] = run[d]
  BY <1>2, OtherChildren
<1>4. \A d \in Runs : Working(d)' =>
          Working(d) /\ run'[d].ses = run[d].ses /\ run'[d].todo = run[d].todo
  BY <1>2, <1>3 DEF Working
<1>5. QED
  BY <1>1, <1>4, WorkGoesOn

\* What Next leaves of the server alone: the station's and the page's steps, and
\* those of a request that add no row to offline.script.
LEMMA ServerKept ==
    ASSUME Shapes, ServerInv,
           \/ \E w \in Stations :
                 \/ StationActs(w) \/ Refresh(w) \/ Arrive(w) \/ RequestLost(w) \/ Answer(w)
                 \/ LoadWrite(w) \/ LoadNoFile(w) \/ LoadDie(w)
                 \/ \E s \in Sessions : Create(w, s) \/ Upload(w, s)
    PROVE  LogsKept /\ UNCHANGED <<results, skipped, changed, in_process, ended, run>>
<1>1. ASSUME NEW w \in Stations,
             \/ StationActs(w) \/ Refresh(w) \/ Arrive(w) \/ RequestLost(w) \/ Answer(w)
             \/ LoadNoFile(w) \/ LoadDie(w)
      PROVE  LinesKept /\ UNCHANGED <<results, skipped, changed, in_process, ended, run>>
  BY <1>1, DiskKept
  DEF StationActs, Refresh, Arrive, LoadStart, RequestLost, Answer, LoadNoFile, LoadDie,
      servervars, sesvars, diskvars, outvars
<1>2. ASSUME NEW w \in Stations, NEW s \in Sessions, Create(w, s) \/ Upload(w, s)
      PROVE  LinesKept /\ UNCHANGED <<results, skipped, changed, in_process, ended, run>>
  BY <1>2, DiskKept
  DEF Create, CreateSession, Upload, servervars, sesvars, diskvars, outvars
<1>3. ASSUME NEW w \in Stations, LoadWrite(w)
      PROVE  LogsKept /\ UNCHANGED <<results, skipped, changed, in_process, ended, run>>
  BY <1>3, WriteKeeps DEF LoadWrite, sesvars, outvars
<1>4. QED
  BY <1>1, <1>2, <1>3, KeptLines

LEMMA WorkStep ==
    ASSUME Shapes, ServerInv, TravelInv, WorkInv, Next
    PROVE  WorkInv'
<1>1. ASSUME NEW w \in Stations,
             \/ StationActs(w) \/ Refresh(w) \/ Arrive(w) \/ RequestLost(w) \/ Answer(w)
             \/ LoadWrite(w) \/ LoadNoFile(w) \/ LoadDie(w)
             \/ \E s \in Sessions : Create(w, s) \/ Upload(w, s)
      PROVE  WorkInv'
  BY <1>1, ServerKept, WorkQuiet
<1>2. ASSUME NEW w \in Stations, NEW s \in Sessions, NEW c \in Runs, ExecuteSession(w, c, s)
      PROVE  WorkInv'
  BY <1>2, WorkFork DEF ExecuteSession
<1>3. ASSUME NEW w \in Stations, LoadStep(w) PROVE WorkInv'
  BY <1>1, <1>3, WorkScript DEF LoadStep
<1>4. ASSUME NEW c \in Runs, RunStep(c) \/ RunRetry(c) \/ RunDie(c) PROVE WorkInv'
  BY <1>4, WorkOn, WorkRow, WorkEnd DEF RunStep
<1>5. QED
  BY <1>1, <1>2, <1>3, <1>4 DEF Next, ServerActs, FaultStep

LEMMA WorkInit == Init => WorkInv
<1> SUFFICES ASSUME Init PROVE WorkInv
  OBVIOUS
<1>1. /\ \A c \in Runs : run[c].st = "none"
      /\ \A r \in Rows : ~Done(r)
      /\ ended = {}
  BY AtRow DEF Init, ServerInit, NoRun, Done
<1>2. QED
  BY <1>1 DEF WorkInv, RunsAll, RunsOnly, EndedIsRun

-----------------------------------------------------------------------------
(* The rows of an item in a session are answered alike.                    *)

LEMMA RunningFacts ==
    ASSUME Shapes, ServerInv, NEW c \in Runs, run[c].st = "running"
    PROVE  /\ Working(c) /\ Active(c) /\ run[c].ses \in Sessions
           /\ run[c].ses \in in_process /\ run[c].ses \notin ended
           /\ run[c].skip \subseteq run[c].seen
           /\ \A d \in Runs : Active(d) /\ run[d].ses = run[c].ses => d = c
BY WorkingFacts DEF Working, ServerInv, RunsApart

Same(s) == \A r \in Rows : InLog(s, r)' <=> InLog(s, r)

\* Steps that answer no row and end no session.
LEMMA SkipGoesOn ==
    ASSUME Shapes, ServerInv, SkipInv, UNCHANGED <<skipped, changed, ended>>,
           \A s \in in_process \union ended : Same(s),
           \A d \in Runs :
              /\ run[d].st \notin {"none", "forked"} => run'[d].st \notin {"none", "forked"}
              /\ run'[d].st = "running" =>
                    /\ run[d].st = "running" /\ run'[d].ses = run[d].ses
                    /\ run'[d].todo = run[d].todo /\ run'[d].skip = run[d].skip
                    /\ run'[d].seen = run[d].seen
    PROVE  SkipInv'
<1>1. OneAnswer'
  <2> SUFFICES ASSUME NEW c \in Runs, run'[c].st = "running", NEW r \in Rows,
                      InLog(run[c].ses, r)', r \notin run'[c].todo, FormOf[r] \in CircForms
               PROVE  /\ SkipForms # {} => ItemOf[r] \in run'[c].seen
                      /\ (r \in skipped') = (ItemOf[r] \in run'[c].skip)
    BY DEF OneAnswer
  <2>1. PICK s \in Sessions : s = run[c].ses /\ s = run'[c].ses /\ s \in in_process
    BY RunningFacts
  <2>2. InLog(s, r)'
    BY <2>1 DEF InLog
  <2>3. InLog(s, r)
    BY <2>1, <2>2 DEF Same
  <2>4. QED
    BY <2>1, <2>3 DEF SkipInv, OneAnswer
<1>2. OwnChanges'
  BY DEF SkipInv, OwnChanges
<1>3. SkipsWholeItem'
  BY DEF SkipInv, SkipsWholeItem, Same
<1>4. QED
  BY <1>1, <1>2, <1>3 DEF SkipInv

\* A child that begins has answered nothing, and set no status.
LEMMA SkipBegin ==
    ASSUME Shapes, ServerInv, TravelInv, WorkInv, SkipInv, NEW c \in Runs, RunBegin(c)
    PROVE  SkipInv'
<1>1. /\ LogsKept /\ UNCHANGED <<results, skipped, changed, ended>>
      /\ run[c].st = "forked"
  BY DiskKept, KeptLines DEF RunBegin, diskvars, outvars
<1>2. /\ run' = [run EXCEPT ![c] = run'[c]] /\ run'[c].st = "running"
      /\ run'[c].ses = run[c].ses /\ run'[c].todo = run[c].todo
  BY StateFacts
<1>3. \A d \in Runs \ {c} : run'[d] = run[d]
  BY <1>2, OtherChildren
<1>4. OneAnswer'
  <2> SUFFICES ASSUME NEW d \in Runs, run'[d].st = "running", NEW r \in Rows,
                      InLog(run[d].ses, r)', r \notin run'[d].todo, FormOf[r] \in CircForms
               PROVE  /\ SkipForms # {} => ItemOf[r] \in run'[d].seen
                      /\ (r \in skipped') = (ItemOf[r] \in run'[d].skip)
    BY DEF OneAnswer
  <2>1. Working(d) /\ run'[d].ses = run[d].ses /\ run'[d].todo = run[d].todo
    BY <1>1, <1>2, <1>3 DEF Working
  <2>2. PICK s \in Sessions : s = run[d].ses /\ s = run'[d].ses
    BY <2>1, WorkingFacts
  <2>3. InLog(s, r)'
    BY <2>2 DEF InLog
  <2>4. InLog(s, r)
    BY <1>1, <2>3 DEF LogsKept
  <2>5. CASE d = c
    <3>1. s \notin in_process \union ended
      BY <1>1, <2>2, <2>5 DEF ServerInv, RunsApart
    <3>2. ~Done(r)
      BY <2>4, <3>1, NothingDone DEF WorkInv
    <3>3. r \in run[c].todo \/ results[r] > 0
      BY <2>1, <2>2, <2>4, <2>5 DEF WorkInv, RunsAll, Working
    <3>4. QED
      BY <2>1, <2>5, <3>2, <3>3 DEF Done
  <2>6. CASE d # c
    BY <1>1, <1>3, <2>2, <2>4, <2>6 DEF SkipInv, OneAnswer
  <2>7. QED
    BY <2>5, <2>6
<1>5. OwnChanges'
  BY <1>1, <1>2, <1>3 DEF SkipInv, OwnChanges
<1>6. ended \subseteq Sessions
  BY DEF Shapes
<1>7. SkipsWholeItem'
  BY <1>1, <1>6 DEF SkipInv, SkipsWholeItem, LogsKept
<1>8. QED
  BY <1>4, <1>5, <1>7 DEF SkipInv

\* When a child has answered everything, its session's items are whole.
LEMMA SkipEnd ==
    ASSUME Shapes, ServerInv, SkipInv, NEW c \in Runs, RunEnd(c)
    PROVE  SkipInv'
<1>1. PICK t \in Sessions : t = run[c].ses
  BY RunningFacts DEF RunEnd
<1>2. /\ LogsKept /\ run[c].st = "running" /\ run[c].todo = {}
      /\ ended' = ended \union {t} /\ UNCHANGED <<skipped, changed>>
  BY <1>1, DiskKept, KeptLines DEF RunEnd, diskvars, outvars
<1>3. /\ run' = [run EXCEPT ![c] = run'[c]] /\ run'[c].st = "ended"
  <2>1. ~RunBegin(c)
    BY <1>2 DEF RunBegin
  <2>2. QED
    BY <2>1, StateFacts
<1>4. \A d \in Runs \ {c} : run'[d] = run[d]
  BY <1>3, OtherChildren
<1>5. OneAnswer'
  <2> SUFFICES ASSUME NEW d \in Runs, run'[d].st = "running", NEW r \in Rows,
                      InLog(run[d].ses, r)', r \notin run'[d].todo, FormOf[r] \in CircForms
               PROVE  /\ SkipForms # {} => ItemOf[r] \in run'[d].seen
                      /\ (r \in skipped') = (ItemOf[r] \in run'[d].skip)
    BY DEF OneAnswer
  <2>1. run'[d] = run[d]
    BY <1>3, <1>4
  <2>2. PICK s \in Sessions : s = run[d].ses /\ s = run'[d].ses
    BY <2>1, RunningFacts
  <2>3. InLog(s, r)'
    BY <2>2 DEF InLog
  <2>4. InLog(s, r)
    BY <1>2, <2>3 DEF LogsKept
  <2>5. QED
    BY <1>2, <2>1, <2>2, <2>4 DEF SkipInv, OneAnswer
<1>6. OwnChanges'
  BY <1>2, <1>3, <1>4 DEF SkipInv, OwnChanges
<1>7. ended \subseteq Sessions
  BY DEF Shapes
<1>8. SkipsWholeItem'
  <2>1. ASSUME NEW s \in ended', NEW q \in Rows, NEW r \in Rows,
               InLog(s, q), InLog(s, r), {FormOf[q], FormOf[r]} \subseteq CircForms,
               ItemOf[q] = ItemOf[r]
        PROVE  (q \in skipped) = (r \in skipped)
    <3>1. CASE s \in ended
      BY <2>1, <3>1 DEF SkipInv, SkipsWholeItem
    <3>2. CASE s = t
      <4>1. /\ (q \in skipped) = (ItemOf[q] \in run[c].skip)
            /\ (r \in skipped) = (ItemOf[r] \in run[c].skip)
        BY <1>1, <1>2, <2>1, <3>2 DEF SkipInv, OneAnswer
      <4>2. QED
        BY <2>1, <4>1
    <3>3. QED
      BY <1>2, <2>1, <3>1, <3>2
  <2>2. \A s \in ended' : \A r \in Rows : InLog(s, r)' <=> InLog(s, r)
    BY <1>2, <1>7 DEF LogsKept
  <2>3. QED
    BY <1>2, <2>1, <2>2 DEF SkipsWholeItem
<1>9. QED
  BY <1>5, <1>6, <1>8 DEF SkipInv

\* With one setting for all forms, the first row of an item is looked at.
LEMMA LooksOnce ==
    ASSUME Uniform, Shapes, NEW c \in Runs, run[c] \in ActiveChildren,
           NEW r \in Rows, NEW hs \in Handlers(r)
    PROVE  /\ FormOf[r] \in CircForms /\ SkipForms # {} => ItemOf[r] \in Seen(c, r, hs)
           /\ \A h \in hs : LooksAt(c, r, h) =>
                 SkipForms # {} /\ ItemOf[r] \notin run[c].seen /\ FormOf[r] \in CircForms
           /\ \A h \in hs : Skips(c, r, h) => FormOf[r] \in CircForms
<1>1. hs = {FormOf[r]} \/ (FormOf[r] = "checkout" /\ "checkout" \in hs)
  BY DEF Handlers
<1>2. FormOf[r] \in hs
  BY <1>1
<1>3. ASSUME FormOf[r] \in CircForms, SkipForms # {} PROVE ItemOf[r] \in Seen(c, r, hs)
  <2>1. FormOf[r] \in SkipForms
    BY <1>3 DEF Uniform
  <2>2. ItemOf[r] \notin run[c].seen => LooksAt(c, r, FormOf[r])
    BY <1>3, <2>1 DEF LooksAt
  <2>3. QED
    BY <1>2, <2>2, SeenItems
<1>4. QED
  BY <1>3 DEF LooksAt, Skips

LEMMA SkipRetry ==
    ASSUME Uniform, Shapes, ServerInv, SkipInv, NEW c \in Runs, RunRetry(c)
    PROVE  SkipInv'
<1>1. LogsKept /\ UNCHANGED <<skipped, ended>>
  BY DiskKept, KeptLines DEF RunRetry, sesvars, diskvars
<1>2. /\ run' = [run EXCEPT ![c] = run'[c]] /\ run[c].st = "running"
      /\ run'[c].st = "running" /\ run'[c].ses = run[c].ses
      /\ run'[c].todo = run[c].todo /\ run[c].seen \subseteq run'[c].seen
      /\ run'[c].skip = run[c].skip
  BY RetryFacts
<1>3. PICK q \in Rows : Asks(c, q) /\ run'[c].seen = Seen(c, q, {FormOf[q]})
  BY RetryFacts
<1>4. \A d \in Runs \ {c} : run'[d] = run[d]
  BY <1>2, OtherChildren
<1>5. OneAnswer'
  <2> SUFFICES ASSUME NEW d \in Runs, run'[d].st = "running", NEW r \in Rows,
                      InLog(run[d].ses, r)', r \notin run'[d].todo, FormOf[r] \in CircForms
               PROVE  /\ SkipForms # {} => ItemOf[r] \in run'[d].seen
                      /\ (r \in skipped') = (ItemOf[r] \in run'[d].skip)
    BY DEF OneAnswer
  <2>1. /\ run[d].st = "running" /\ run'[d].ses = run[d].ses /\ run'[d].todo = run[d].todo
        /\ run[d].seen \subseteq run'[d].seen /\ run'[d].skip = run[d].skip
    BY <1>2, <1>4
  <2>2. PICK s \in Sessions : s = run[d].ses /\ s = run'[d].ses
    BY <2>1, RunningFacts
  <2>3. InLog(s, r)'
    BY <2>2 DEF InLog
  <2>4. InLog(s, r)
    BY <1>1, <2>3 DEF LogsKept
  <2>5. /\ SkipForms # {} => ItemOf[r] \in run[d].seen
        /\ (r \in skipped) = (ItemOf[r] \in run[d].skip)
    BY <2>1, <2>2, <2>4 DEF SkipInv, OneAnswer
  <2>6. QED
    BY <1>1, <2>1, <2>5
<1>6. OwnChanges'
  <2> SUFFICES ASSUME NEW d \in Runs, NEW i \in Items, changed'[i].by = d
               PROVE  /\ run'[d].st \notin {"none", "forked"}
                      /\ run'[d].st = "running" /\ SkipForms # {} => i \in run'[d].seen
    BY DEF OwnChanges
  <2>1. CASE changed[i].by = d
    BY <1>2, <1>4, <2>1 DEF SkipInv, OwnChanges
  <2>2. CASE changed[i].by # d
    <3>1. d = c /\ i = ItemOf[q] /\ FormOf[q] \in CircForms
      BY <1>3, <2>2 DEF Asks, Shapes
    <3>2. SkipForms # {} => i \in run'[c].seen
      <4>1. {FormOf[q]} \in Handlers(q)
        BY DEF Handlers
      <4>2. run[c] \in ActiveChildren
        BY <1>2, RunningFacts, RunFacts
      <4>3. QED
        BY <1>3, <3>1, <4>1, <4>2, LooksOnce
    <3>3. QED
      BY <1>2, <3>1, <3>2
  <2>3. QED
    BY <2>1, <2>2
<1>7. ended \subseteq Sessions
  BY DEF Shapes
<1>8. SkipsWholeItem'
  BY <1>1, <1>7 DEF SkipInv, SkipsWholeItem, LogsKept
<1>9. QED
  BY <1>5, <1>6, <1>8 DEF SkipInv

LEMMA SkipRow ==
    ASSUME Uniform, Shapes, ServerInv, TravelInv, WorkInv, SkipInv, NEW c \in Runs, RunRow(c)
    PROVE  SkipInv'
<1>1. /\ run[c].st = "running"
      /\ UNCHANGED <<made, in_process, ended, scripts, log, archive>>
  BY RowChosen
<1>2. PICK q \in Rows : \E hs \in Handlers(q) : q \in run[c].todo /\ RowRun(c, q, hs)
  BY RowChosen
<1>3. PICK hs \in Handlers(q) : q \in run[c].todo /\ RowRun(c, q, hs)
  BY <1>2
<1>4. LogsKept
  BY <1>1, DiskKept, KeptLines
<1>5. PICK t \in Sessions : t = run[c].ses /\ t \in in_process /\ t \notin ended
  BY <1>1, RunningFacts
<1>6. InLog(t, q) /\ q \notin skipped
  BY <1>1, <1>3, <1>5 DEF WorkInv, RunsAll, Done
<1>7. run[c] \in ActiveChildren /\ run[c].skip \subseteq run[c].seen
  BY <1>1, RunningFacts, RunFacts
<1> DEFINE skips == \E h \in hs : Skips(c, q, h)
<1>8. /\ run' = [run EXCEPT ![c] = run'[c]] /\ run'[c].st = "running"
      /\ run'[c].ses = t /\ run'[c].todo = run[c].todo \ {q}
      /\ run'[c].seen = Seen(c, q, hs)
      /\ run'[c].skip = IF skips THEN run[c].skip \union {ItemOf[q]} ELSE run[c].skip
  BY <1>1, <1>3, <1>5, <1>7, RunningFacts, RowRunFacts
<1>9. \A d \in Runs \ {c} : run'[d] = run[d]
  BY <1>8, OtherChildren
<1>10. /\ run[c].seen \subseteq run'[c].seen
       /\ FormOf[q] \in CircForms /\ SkipForms # {} => ItemOf[q] \in run'[c].seen
  BY <1>7, <1>8, LooksOnce, SeenItems
<1>11. /\ skips => FormOf[q] \in CircForms
       /\ ItemOf[q] \in run[c].skip /\ FormOf[q] \in CircForms => skips
       /\ skips /\ ItemOf[q] \notin run[c].skip =>
             SkipForms # {} /\ ItemOf[q] \notin run[c].seen
  <2>1. ItemOf[q] \in run[c].skip /\ FormOf[q] \in CircForms => skips
    BY DEF Skips, Handlers
  <2>2. skips => FormOf[q] \in CircForms
    BY <1>7, LooksOnce
  <2>3. ASSUME skips, ItemOf[q] \notin run[c].skip
        PROVE  SkipForms # {} /\ ItemOf[q] \notin run[c].seen
    <3>1. PICK h \in hs : LooksAt(c, q, h)
      BY <2>3 DEF Skips
    <3>2. QED
      BY <1>7, <3>1, LooksOnce
  <2>4. QED
    BY <2>1, <2>2, <2>3
<1>12. /\ skips => skipped' = skipped \union {q} /\ changed' = changed
       /\ ~skips => skipped' = skipped /\ Asks(c, q)
  BY <1>3 DEF RowRun
<1> HIDE DEF skips
<1>13. OneAnswer'
  <2> SUFFICES ASSUME NEW d \in Runs, run'[d].st = "running", NEW r \in Rows,
                      InLog(run[d].ses, r)', r \notin run'[d].todo, FormOf[r] \in CircForms
               PROVE  /\ SkipForms # {} => ItemOf[r] \in run'[d].seen
                      /\ (r \in skipped') = (ItemOf[r] \in run'[d].skip)
    BY DEF OneAnswer
  <2>1. run[d].st = "running" /\ run'[d].ses = run[d].ses
    BY <1>1, <1>5, <1>8, <1>9
  <2>2. PICK s \in Sessions : s = run[d].ses /\ s = run'[d].ses
    BY <2>1, RunningFacts
  <2>3. InLog(s, r)'
    BY <2>2 DEF InLog
  <2>4. InLog(s, r)
    BY <1>4, <2>3 DEF LogsKept
  <2>5. CASE d # c
    <3>1. s # t
      BY <1>1, <1>5, <2>1, <2>2, <2>5, RunningFacts
    <3>2. r # q
      BY <1>6, <2>4, <3>1, OneSession
    <3>3. r \in skipped' <=> r \in skipped
      BY <1>12, <3>2
    <3>4. QED
      BY <1>9, <2>1, <2>2, <2>4, <2>5, <3>3 DEF SkipInv, OneAnswer
  <2>6. CASE d = c /\ r = q
    BY <1>6, <1>8, <1>10, <1>11, <1>12, <2>6
  <2>7. CASE d = c /\ r # q
    <3>1. r \notin run[c].todo
      BY <1>8, <2>7
    <3>2. /\ SkipForms # {} => ItemOf[r] \in run[c].seen
          /\ (r \in skipped) = (ItemOf[r] \in run[c].skip)
      BY <2>1, <2>2, <2>4, <2>7, <3>1 DEF SkipInv, OneAnswer
    <3>3. r \in skipped' <=> r \in skipped
      BY <1>12, <2>7
    <3>4. ItemOf[r] \in run'[c].skip <=> ItemOf[r] \in run[c].skip
      BY <1>8, <1>11, <3>2
    <3>5. QED
      BY <1>10, <2>7, <3>2, <3>3, <3>4
  <2>8. QED
    BY <2>5, <2>6, <2>7
<1>14. OwnChanges'
  <2> SUFFICES ASSUME NEW d \in Runs, NEW i \in Items, changed'[i].by = d
               PROVE  /\ run'[d].st \notin {"none", "forked"}
                      /\ run'[d].st = "running" /\ SkipForms # {} => i \in run'[d].seen
    BY DEF OwnChanges
  <2>1. CASE changed[i].by = d
    BY <1>1, <1>8, <1>9, <1>10, <2>1 DEF SkipInv, OwnChanges
  <2>2. CASE changed[i].by # d
    <3>1. d = c /\ i = ItemOf[q] /\ FormOf[q] \in CircForms
      BY <1>12, <2>2 DEF Asks, Shapes
    <3>2. QED
      BY <1>8, <1>10, <3>1
  <2>3. QED
    BY <2>1, <2>2
<1>15. SkipsWholeItem'
  <2>1. \A s \in ended : s \in Sessions /\ ~InLog(s, q)
    <3> SUFFICES ASSUME NEW s \in ended PROVE s \in Sessions /\ ~InLog(s, q)
      OBVIOUS
    <3>1. s \in Sessions /\ s # t
      BY <1>5 DEF Shapes
    <3>2. QED
      BY <1>6, <3>1, OneSession
  <2>2. \A s \in ended' : \A r \in Rows :
            /\ InLog(s, r)' => InLog(s, r)
            /\ InLog(s, r) => (r \in skipped' <=> r \in skipped)
    BY <1>1, <1>4, <1>12, <2>1 DEF LogsKept
  <2>3. QED
    BY <1>1, <2>2 DEF SkipInv, SkipsWholeItem
<1>16. QED
  BY <1>13, <1>14, <1>15 DEF SkipInv

LEMMA SkipStep ==
    ASSUME Uniform, Shapes, ServerInv, TravelInv, WorkInv, SkipInv, Next
    PROVE  SkipInv'
<1>1. in_process \subseteq Sessions /\ ended \subseteq Sessions
  BY DEF Shapes
<1>2. ASSUME LogsKept, UNCHANGED <<skipped, changed, in_process, ended, run>>
      PROVE  SkipInv'
  <2>1. \A s \in in_process \union ended : Same(s)
    BY <1>1, <1>2 DEF LogsKept, Same
  <2>2. QED
    BY <1>2, <2>1, SkipGoesOn
<1>3. ASSUME NEW w \in Stations,
             \/ StationActs(w) \/ Refresh(w) \/ Arrive(w) \/ RequestLost(w) \/ Answer(w)
             \/ LoadWrite(w) \/ LoadNoFile(w) \/ LoadDie(w)
             \/ \E s \in Sessions : Create(w, s) \/ Upload(w, s)
      PROVE  SkipInv'
  BY <1>2, <1>3, ServerKept
<1>4. ASSUME NEW w \in Stations, LoadScript(w) PROVE SkipInv'
  <2>1. UNCHANGED <<skipped, changed, in_process, ended, run>>
    BY <1>4 DEF LoadScript, outvars
  <2>2. load[w].ses \notin in_process \union ended
    BY <1>4 DEF LoadScript, ServerInv, UploadsApart, Busy
  <2>3. \A s \in in_process \union ended : Same(s)
    BY <1>1, <1>4, <2>2, ScriptKeeps DEF Same
  <2>4. QED
    BY <2>1, <2>3, SkipGoesOn
<1>5. ASSUME NEW c \in Runs, NEW x,
             run' = [run EXCEPT ![c] = x], x.st # "running",
             run[c].st \notin {"none", "forked"} => x.st \notin {"none", "forked"},
             LogsKept, UNCHANGED <<skipped, changed, in_process, ended>>
      PROVE  SkipInv'
  <2>1. \A s \in in_process \union ended : Same(s)
    BY <1>1, <1>5 DEF LogsKept, Same
  <2>2. run'[c] = x /\ \A d \in Runs \ {c} : run'[d] = run[d]
    BY <1>5 DEF Shapes
  <2>3. \A d \in Runs :
           /\ run[d].st \notin {"none", "forked"} => run'[d].st \notin {"none", "forked"}
           /\ run'[d].st = "running" => run'[d] = run[d]
    BY <1>5, <2>2
  <2>4. QED
    BY <1>5, <2>1, <2>3, SkipGoesOn
<1>6. ASSUME NEW w \in Stations, NEW s \in Sessions, NEW c \in Runs, ExecuteSession(w, c, s)
      PROVE  SkipInv'
  <2>1. Execute(c, s)
    BY <1>6 DEF ExecuteSession
  <2>2. /\ LogsKept /\ UNCHANGED <<skipped, changed, in_process, ended>>
        /\ run[c].st = "none"
    BY <2>1, DiskKept, KeptLines DEF Execute, sesvars, diskvars, outvars
  <2>3. run' = [run EXCEPT ![c] = run'[c]] /\ run'[c].st = "forked"
    BY <2>1, ForkFacts
  <2>4. QED
    BY <1>5, <2>2, <2>3
<1>7. ASSUME NEW c \in Runs, RunArchive(c) \/ RunDie(c) PROVE SkipInv'
  <2>1. LogsKept /\ UNCHANGED <<skipped, changed, in_process, ended>>
    <3>1. CASE RunArchive(c)
      BY <3>1, ArchiveKeeps, KeptLines DEF RunArchive, sesvars, outvars
    <3>2. CASE RunDie(c)
      BY <3>2, DiskKept, KeptLines DEF RunDie, sesvars, diskvars, outvars
    <3>3. QED
      BY <1>7, <3>1, <3>2
  <2>2. run' = [run EXCEPT ![c] = run'[c]] /\ run'[c].st \in {"done", "dead"}
    BY <1>7, LastFacts
  <2>3. QED
    BY <1>5, <2>1, <2>2
<1>8. ASSUME NEW c \in Runs, RunStep(c) \/ RunRetry(c) \/ RunDie(c) PROVE SkipInv'
  BY <1>7, <1>8, SkipBegin, SkipRow, SkipEnd, SkipRetry DEF RunStep
<1>9. ASSUME NEW w \in Stations, LoadStep(w) PROVE SkipInv'
  BY <1>3, <1>4, <1>9 DEF LoadStep
<1>10. QED
  BY <1>3, <1>6, <1>8, <1>9 DEF Next, ServerActs, FaultStep

LEMMA SkipInit == Init => SkipInv
<1> SUFFICES ASSUME Init PROVE SkipInv
  OBVIOUS
<1>1. /\ \A c \in Runs : run[c].st = "none"
      /\ \A i \in Items : changed[i].by = Desk
      /\ ended = {}
  BY DEF Init, ServerInit, NoRun
<1>2. QED
  BY <1>1, ServerAssumption DEF SkipInv, OneAnswer, OwnChanges, SkipsWholeItem

-----------------------------------------------------------------------------
(* The theorems.                                                           *)

LEMMA CircStutter ==
    ASSUME UNCHANGED vars, CircInv
    PROVE  CircInv' /\ (SkipInv => SkipInv')
<1> USE DEF vars, servervars, sesvars, diskvars, outvars, CircInv
<1>1. LinesKept /\ LogsKept
  BY DiskKept, KeptLines
<1>2. OnceInv'
  BY DEF OnceInv, StationTypeOK, OneCopy, CopiesAt, Uploadable, NoDialog,
         stationvars, formvars, filevars, exportvars
<1>3. Shapes'
  BY DEF Shapes
<1>4. ServerInv'
  BY ServerIdle
<1>5. TravelInv'
  <2>1. UNCHANGED <<wire, load, complete, cli, transition, written, pending>>
    BY DEF stationvars, formvars, filevars
  <2>2. QED
    BY <1>1, <2>1, TravelQuiet, SentStays
<1>6. WorkInv'
  BY <1>1, WorkQuiet
<1>7. SkipInv => SkipInv'
  <2>1. \A s \in in_process \union ended : Same(s)
    BY <1>1 DEF LogsKept, Same, Shapes
  <2>2. QED
    BY <2>1, SkipGoesOn
<1>8. QED
  BY <1>2, <1>3, <1>4, <1>5, <1>6, <1>7

LEMMA CircStep == Tended /\ CircInv /\ [Next]_vars => CircInv'
<1>1. ASSUME Tended, CircInv, Next PROVE CircInv'
  BY <1>1, OnceStep, ShapesStep, ServerStep, TravelStep, WorkStep DEF CircInv, Tended
<1>2. QED
  BY <1>1, CircStutter

LEMMA CircInit == Init => CircInv
BY InitOnce, InitShapes, ServerInit0, TravelInit, WorkInit DEF Init, CircInv

LEMMA SkipKept == Uniform /\ CircInv /\ SkipInv /\ [Next]_vars => SkipInv'
<1>1. ASSUME Uniform, CircInv, SkipInv, Next PROVE SkipInv'
  BY <1>1, SkipStep DEF CircInv
<1>2. QED
  BY <1>1, CircStutter

LEMMA CircInvariant == Tended => (Spec => []CircInv)
<1> SUFFICES ASSUME Tended PROVE Spec => []CircInv
  OBVIOUS
<1>1. CircInv /\ [Next]_vars => CircInv'
  BY CircStep
<1>2. QED
  BY CircInit, <1>1, PTL DEF Spec

LEMMA SkipInvariant == Tended /\ Uniform => (Spec => [](CircInv /\ SkipInv))
<1> SUFFICES ASSUME Tended, Uniform PROVE Spec => [](CircInv /\ SkipInv)
  OBVIOUS
<1>1. CircInv /\ SkipInv /\ [Next]_vars => (CircInv /\ SkipInv)'
  BY CircStep, SkipKept
<1>2. QED
  BY CircInit, SkipInit, <1>1, PTL DEF Spec

\* The workstations, the requests and the children keep their types.
THEOREM OfflineTypes == Tended => (Spec => []TypeOK)
<1> SUFFICES ASSUME Tended PROVE Spec => []TypeOK
  OBVIOUS
<1>1. CircInv => TypeOK
  <2> SUFFICES ASSUME CircInv PROVE TypeOK
    OBVIOUS
  <2> USE DEF CircInv
  <2>1. ASSUME NEW w \in Stations PROVE LoadOK(load[w])
    BY LoadFacts DEF LoadOK, Busy
  <2>2. ASSUME NEW c \in Runs PROVE RunOK(run[c])
    <3>1. run[c].st \in {"none", "done", "dead"} \union ActiveStates
      BY RunFacts
    <3>2. CASE Active(c)
      BY <3>2, RunFacts, ActiveFacts DEF RunOK, Active, ActiveStates, ServerInv, RunsApart
    <3>3. CASE ~Active(c)
      BY <3>1, <3>3, RunFacts DEF RunOK, Active
    <3>4. QED
      BY <3>2, <3>3
  <2>3. ServerTypeOK
    BY <2>1, <2>2 DEF ServerTypeOK, Shapes
  <2>4. QED
    BY <2>3 DEF TypeOK, OnceInv, Shapes
<1>2. QED
  BY CircInvariant, <1>1, PTL

\* A session that has ended has run every transaction uploaded to it, although
\* uploads and executions are requests of their own that look at its flags once.
THEOREM EndedHasRun == Tended => (Spec => []EndedIsRun)
<1> SUFFICES ASSUME Tended PROVE Spec => []EndedIsRun
  OBVIOUS
<1>1. CircInv => EndedIsRun
  BY DEF CircInv, WorkInv
<1>2. QED
  BY CircInvariant, <1>1, PTL

\* What goes out with the next upload has never reached the server: whatever was
\* refused, lost or not answered, no file is sent twice.
THEOREM PendingIsNew == Tended => (Spec => []PendingNotSent)
<1> SUFFICES ASSUME Tended PROVE Spec => []PendingNotSent
  OBVIOUS
<1>1. CircInv => PendingNotSent
  <2> SUFFICES ASSUME CircInv, NEW w \in Stations, NEW r \in Rows, pending[w][r] > 0
               PROVE  ~OnServer(r) /\ (wire[w] # NoRequest => wire[w].body[r] = 0)
    BY DEF PendingNotSent
  <2> USE DEF CircInv
  <2>1. StationOf[r] = w /\ r \in written
    <3>1. CopiesAt(r, w) = IF w = StationOf[r] /\ r \in written THEN 1 ELSE 0
      BY DEF OnceInv, OneCopy
    <3>2. CopiesAt(r, w) > 0
      BY Copies DEF OnceInv
    <3>3. QED
      BY <3>1, <3>2
  <2>2. \A v \in Stations : ~Sent(v, r)
    BY <2>1 DEF Sent
  <2>3. ASSUME NEW v \in Stations
        PROVE  /\ \A s \in Sessions : ~(log[s][v][r] + archive[s][v][r] > 0)
               /\ ~(Busy(v) /\ load[v].body[r] > 0)
    BY <2>2 DEF TravelInv, RowTravels, AtRequest, Lines
  <2>4. wire[w] # NoRequest => wire[w].body[r] = 0
    <3>1. ~OnWire(w, r)
      BY <2>2 DEF TravelInv, RowTravels
    <3>2. wire[w] # NoRequest => wire[w].body[r] \in Nat
      BY WireFacts DEF File
    <3>3. QED
      BY <3>1, <3>2 DEF OnWire
  <2>5. QED
    BY <2>3, <2>4 DEF OnServer
<1>2. QED
  BY CircInvariant, <1>1, PTL

\* A file that the client has renamed .complete is one that will be executed.
THEOREM CompleteWillRun == Tended => (Spec => []CompleteIsUploaded)
<1> SUFFICES ASSUME Tended PROVE Spec => []CompleteIsUploaded
  OBVIOUS
<1>1. CircInv => CompleteIsUploaded
  BY DEF CircInv, TravelInv, RowTravels, CompleteIsUploaded
<1>2. QED
  BY CircInvariant, <1>1, PTL

\* The transactions of an item in a session are all run or all skipped, if one
\* setting holds for the three forms.
THEOREM ItemsSkippedWhole == Tended /\ Uniform => (Spec => []SkipsWholeItem)
<1> SUFFICES ASSUME Tended, Uniform PROVE Spec => []SkipsWholeItem
  OBVIOUS
<1>1. CircInv /\ SkipInv => SkipsWholeItem
  BY DEF SkipInv
<1>2. QED
  BY SkipInvariant, <1>1, PTL

\* An execution skips no item for a status that it has set itself.
THEOREM SkippedForOthers == Tended /\ Uniform => (Spec => SkipsForOthers)
<1> SUFFICES ASSUME Tended, Uniform PROVE Spec => SkipsForOthers
  OBVIOUS
<1> DEFINE Others ==
        \A c \in Runs : \A i \in Items :
            (run[c].st = "running" /\ run'[c].st = "running"
             /\ i \in run'[c].skip /\ i \notin run[c].skip) => changed[i].by # c
<1>1. CircInv /\ SkipInv /\ [Next]_vars => [Others]_servervars
  <2> SUFFICES ASSUME CircInv, SkipInv, [Next]_vars, NEW c \in Runs, NEW i \in Items,
                      run[c].st = "running", run'[c].st = "running",
                      i \in run'[c].skip, i \notin run[c].skip
               PROVE  changed[i].by # c
    OBVIOUS
  <2> USE DEF CircInv
  <2>1. run'[c] # run[c]
    OBVIOUS
  <2>2. ASSUME NEW d \in Runs, run' = [run EXCEPT ![d] = run'[d]] PROVE d = c
    BY <2>1, <2>2, OtherChildren
  <2>3. CASE run' = run
    BY <2>1, <2>3
  <2>4. ASSUME NEW w \in Stations, NEW s \in Sessions, NEW d \in Runs, ExecuteSession(w, d, s)
        PROVE  FALSE
    <3>1. Execute(d, s) /\ run[d].st = "none"
      BY <2>4 DEF ExecuteSession, Execute
    <3>2. d = c
      BY <2>2, <3>1, ForkFacts
    <3>3. QED
      BY <3>1, <3>2
  <2>5. ASSUME NEW d \in Runs, RunBegin(d) \/ RunEnd(d) \/ RunRetry(d) PROVE FALSE
    <3>1. d = c /\ run'[d].skip = run[d].skip
      BY <2>2, <2>5, StateFacts, RetryFacts
    <3>2. QED
      BY <3>1
  <2>6. ASSUME NEW d \in Runs, RunArchive(d) \/ RunDie(d) PROVE FALSE
    <3>1. d = c /\ run'[d].st \in {"done", "dead"}
      BY <2>2, <2>6, LastFacts
    <3>2. QED
      BY <3>1
  <2>7. ASSUME NEW d \in Runs, RunRow(d) PROVE changed[i].by # c
    <3>1. PICK q \in Rows : \E hs \in Handlers(q) : RowRun(d, q, hs)
      BY <2>7, RowChosen
    <3>2. PICK hs \in Handlers(q) : RowRun(d, q, hs)
      BY <3>1
    <3>3. Active(d) /\ run[d].skip \subseteq run[d].seen /\ run[d] \in ActiveChildren
      BY <2>7, RowChosen, RunningFacts, RunFacts
    <3>4. /\ run' = [run EXCEPT ![d] = run'[d]]
          /\ run'[d].skip = IF \E h \in hs : Skips(d, q, h)
                            THEN run[d].skip \union {ItemOf[q]} ELSE run[d].skip
      BY <3>2, <3>3, RowRunFacts
    <3>5. d = c
      BY <2>2, <3>4
    <3>6. PICK h \in hs : Skips(c, q, h) /\ i = ItemOf[q]
      BY <3>4, <3>5
    <3>7. LooksAt(c, q, h)
      BY <3>6 DEF Skips
    <3>8. SkipForms # {} /\ i \notin run[c].seen
      BY <3>3, <3>5, <3>6, <3>7, LooksOnce
    <3>9. QED
      BY <3>8 DEF SkipInv, OwnChanges
  <2>8. CASE \E w \in Stations :
                \/ StationActs(w) \/ Refresh(w) \/ Arrive(w) \/ RequestLost(w) \/ Answer(w)
                \/ LoadWrite(w) \/ LoadNoFile(w) \/ LoadDie(w)
                \/ \E s \in Sessions : Create(w, s) \/ Upload(w, s)
    BY <2>3, <2>8, ServerKept
  <2>9. CASE \E w \in Stations : LoadScript(w)
    BY <2>3, <2>9 DEF LoadScript
  <2>10. CASE UNCHANGED vars
    BY <2>3, <2>10 DEF vars, servervars
  <2>11. QED
    BY <2>4, <2>5, <2>6, <2>7, <2>8, <2>9, <2>10
    DEF Next, ServerActs, LoadStep, RunStep, FaultStep
<1>2. Spec => [][Others]_servervars
  <2> HIDE DEF Others
  <2>1. QED
    BY SkipInvariant, <1>1, PTL DEF Spec
<1>3. QED
  BY <1>2 DEF SkipsForOthers

-----------------------------------------------------------------------------
(* Offline circulation implements OfflineDelivery.                         *)

\* What a form does to the keyed and to the saved rows.
LEMMA FormDelivers ==
    ASSUME OnceInv, NEW w \in Stations, FormStep(w), UNCHANGED <<results, Uploaded>>
    PROVE  Delivery!Next \/ UNCHANGED Delivery!dvars
<1> USE DEF OnceInv, StationTypeOK
<1>1. ASSUME NEW r \in Rows, Append(r) PROVE Delivery!Next
  BY <1>1 DEF Append, Delivery!Next, Delivery!Key
<1>2. ASSUME NEW r \in Rows, Register(r) PROVE Delivery!Next
  <2>1. Delivery!Key(r)
    BY <1>2 DEF Register, Delivery!Key
  <2>2. Delivery!Save({r})
    BY <1>2 DEF Register, Delivery!Save
  <2>3. QED
    BY <2>1, <2>2 DEF Delivery!Next
<1>3. ASSUME NEW S \in SUBSET list, scanned' = scanned, written' = written \union S
      PROVE  Delivery!Next
  <2>1. S \in SUBSET Rows /\ Delivery!Save(S)
    BY <1>3 DEF Delivery!Save
  <2>2. QED
    BY <1>3, <2>1 DEF Delivery!Next
<1>4. ASSUME NEW f \in ListForms, Save(w, f) PROVE Delivery!Next
  BY <1>3, <1>4 DEF Save, ListOf
<1>5. ASSUME Crash(w) PROVE Delivery!Next
  <2>1. \E f \in ListForms : \E S \in SUBSET ListOf(w, f) : written' = written \union S
    BY <1>5 DEF Crash
  <2>2. \E S \in SUBSET list : written' = written \union S
    BY <2>1 DEF ListOf
  <2>3. scanned' = scanned
    BY <1>5 DEF Crash
  <2>4. QED
    BY <1>3, <2>2, <2>3
<1>6. ASSUME \/ Cancel(w) \/ KeyPatron(w) \/ ClearRegister(w)
             \/ Close(w) \/ CloseConfirmed(w)
      PROVE  UNCHANGED Delivery!dvars
  BY <1>6 DEF Cancel, KeyPatron, ClearRegister, Close, CloseConfirmed, Delivery!dvars
<1>7. QED
  BY <1>1, <1>2, <1>4, <1>5, <1>6 DEF FormStep

\* An upload is delivered with its row of offline.script.
LEMMA ScriptDelivers ==
    ASSUME Shapes, TravelInv, NEW w \in Stations, LoadScript(w), UNCHANGED stationvars
    PROVE  Delivery!Next
<1> DEFINE S == Uploaded' \ Uploaded
<1>1. UNCHANGED <<scanned, written, results>>
  BY DEF LoadScript, outvars, stationvars, formvars
<1>2. Uploaded \subseteq Uploaded' /\ Uploaded' \in SUBSET Rows
  BY ScriptKeeps DEF Uploaded
<1>3. S \subseteq written
  <2> SUFFICES ASSUME NEW r \in Rows, r \in Uploaded', r \notin Uploaded PROVE r \in written
    BY <1>2
  <2>1. PICK s \in Sessions : InLog(s, r)'
    BY DEF Uploaded
  <2>2. ~InLog(s, r)
    BY DEF Uploaded
  <2>3. Lines(s, w, r) > 0
    BY <2>1, <2>2, ScriptKeeps
  <2>4. QED
    BY <2>3 DEF TravelInv, RowTravels, Sent
<1>4. Delivery!Upload(S)
  BY <1>1, <1>2, <1>3 DEF Delivery!Upload
<1>5. QED
  BY <1>2, <1>4 DEF Delivery!Next

\* A child runs a row that was uploaded and that nothing has run.
LEMMA RowDelivers ==
    ASSUME Shapes, ServerInv, WorkInv, NEW c \in Runs, RunRow(c), UNCHANGED stationvars
    PROVE  Delivery!Next
<1>1. /\ run[c].st = "running" /\ Working(c)
      /\ UNCHANGED <<scripts, log, archive>>
  BY RowChosen
<1>q. PICK q \in Rows : \E hs \in Handlers(q) : q \in run[c].todo /\ RowRun(c, q, hs)
  BY RowChosen
<1>2. PICK hs \in Handlers(q) : q \in run[c].todo /\ RowRun(c, q, hs)
  BY <1>q
<1>3. Uploaded' = Uploaded
  BY <1>1, DiskKept, KeptLines, KeptLogs
<1>4. PICK t \in Sessions : t = run[c].ses
  BY <1>1, WorkingFacts
<1>5. InLog(t, q) /\ ~Done(q)
  BY <1>1, <1>2, <1>4 DEF WorkInv, RunsAll
<1>6. q \in Uploaded
  BY <1>5 DEF Uploaded
<1>7. results[q] = 0 /\ results' = [results EXCEPT ![q] = 1]
  <2>1. results[q] \in Nat /\ ~(results[q] > 0)
    BY <1>5 DEF Done, Shapes, File
  <2>2. results' = [results EXCEPT ![q] = results[q] + 1] /\ results[q] = 0
    BY <1>2, <2>1 DEF RowRun
  <2>3. QED
    BY <2>2
<1>8. UNCHANGED <<scanned, written>>
  BY DEF stationvars, formvars
<1>9. Delivery!RunOne(q)
  BY <1>3, <1>6, <1>7, <1>8 DEF Delivery!RunOne
<1>10. QED
  BY <1>9 DEF Delivery!Next

LEMMA Delivers ==
    ASSUME CircInv, [Next]_vars
    PROVE  Delivery!Next \/ UNCHANGED Delivery!dvars
<1> USE DEF CircInv
<1>1. ASSUME LogsKept, UNCHANGED <<scanned, written, results>>
      PROVE  UNCHANGED Delivery!dvars
  BY <1>1, KeptLogs DEF Delivery!dvars
<1>2. ASSUME NEW w \in Stations, StationActs(w)
      PROVE  Delivery!Next \/ UNCHANGED Delivery!dvars
  <2>1. LogsKept /\ results' = results
    BY <1>2, ServerKept
  <2>2. CASE FormStep(w)
    BY <2>1, <2>2, KeptLogs, FormDelivers
  <2>3. CASE GiveUp(w)
    BY <1>1, <2>1, <2>3 DEF GiveUp, formvars
  <2>4. QED
    BY <1>2, <2>2, <2>3 DEF StationActs
<1>3. ASSUME NEW w \in Stations,
             \/ Refresh(w) \/ Arrive(w) \/ RequestLost(w) \/ Answer(w)
             \/ \E s \in Sessions : Create(w, s) \/ Upload(w, s)
      PROVE  UNCHANGED Delivery!dvars
  <2>1. LogsKept /\ results' = results
    BY <1>3, ServerKept
  <2>2. UNCHANGED <<scanned, written>>
    BY <1>3 DEF Refresh, Arrive, RequestLost, Answer, Archive, Revert, Create, Upload, Rename,
                stationvars, formvars
  <2>3. QED
    BY <1>1, <2>1, <2>2
<1>4. ASSUME NEW w \in Stations, NEW s \in Sessions, NEW c \in Runs, ExecuteSession(w, c, s)
      PROVE  UNCHANGED Delivery!dvars
  BY <1>1, <1>4, DiskKept, KeptLines
  DEF ExecuteSession, Execute, sesvars, diskvars, outvars, stationvars, formvars
<1>5. ASSUME NEW w \in Stations, UNCHANGED stationvars,
             LoadStep(w) \/ LoadNoFile(w) \/ LoadDie(w)
      PROVE  Delivery!Next \/ UNCHANGED Delivery!dvars
  <2>1. CASE LoadScript(w)
    BY <1>5, <2>1, ScriptDelivers
  <2>2. CASE LoadWrite(w) \/ LoadNoFile(w) \/ LoadDie(w)
    BY <1>1, <1>5, <2>2, ServerKept DEF stationvars, formvars
  <2>3. QED
    BY <1>5, <2>1, <2>2 DEF LoadStep
<1>6. ASSUME NEW c \in Runs, UNCHANGED stationvars, RunStep(c) \/ RunRetry(c) \/ RunDie(c)
      PROVE  Delivery!Next \/ UNCHANGED Delivery!dvars
  <2>1. CASE RunRow(c)
    BY <1>6, <2>1, RowDelivers
  <2>2. CASE RunArchive(c)
    BY <1>1, <1>6, <2>2, ArchiveKeeps, KeptLines
    DEF RunArchive, outvars, stationvars, formvars
  <2>3. CASE RunBegin(c) \/ RunEnd(c) \/ RunRetry(c) \/ RunDie(c)
    BY <1>1, <1>6, <2>3, DiskKept, KeptLines
    DEF RunBegin, RunEnd, RunRetry, RunDie, sesvars, diskvars, outvars, stationvars, formvars
  <2>4. QED
    BY <1>6, <2>1, <2>2, <2>3 DEF RunStep
<1>7. CASE UNCHANGED vars
  BY <1>1, <1>7, DiskKept, KeptLines
  DEF vars, stationvars, formvars, servervars, sesvars, diskvars, outvars
<1>8. QED
  BY <1>2, <1>3, <1>4, <1>5, <1>6, <1>7 DEF Next, ServerActs, FaultStep

LEMMA DeliveryInit == Init => Delivery!Init
<1> SUFFICES ASSUME Init PROVE Delivery!Init
  OBVIOUS
<1>1. scanned = {} /\ written = {} /\ results = [r \in Rows |-> 0]
  BY DEF Init, StationInit, ServerInit, Empty
<1>2. Uploaded = {}
  BY DEF Init, ServerInit, Uploaded, InLog
<1>3. QED
  BY <1>1, <1>2 DEF Delivery!Init

\* A transaction is keyed, saved, uploaded and run, in this order, never back, and
\* run once: the workstations, the page and offline.pl together implement it.
THEOREM DeliveredOnce == Tended => (Spec => ImplementsDelivery)
<1> SUFFICES ASSUME Tended PROVE Spec => ImplementsDelivery
  OBVIOUS
<1>1. CircInv /\ [Next]_vars => [Delivery!Next]_Delivery!dvars
  BY Delivers
<1>2. QED
  BY CircInvariant, DeliveryInit, <1>1, PTL DEF ImplementsDelivery, Delivery!Spec, Spec
=============================================================================
