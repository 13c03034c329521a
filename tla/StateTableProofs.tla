-------------------------- MODULE StateTableProofs --------------------------
(***************************************************************************)
(* Proofs about StateTableHistory, for any sets of endpoints and           *)
(* goroutines, any number of changes and a disk that may fail or not.      *)
(***************************************************************************)
EXTENDS StateTableHistory, TLAPS

(* A snapshot on its way to the disk, and the file, are tables there have  *)
(* been; while the saves are settled at most one is pending, it holds the  *)
(* current table, and with none pending the file does.                     *)
PendingIsPast == \A w \in Writers : Saving(w) => snapshot[w] \in past
FileIsPast == file \in past
SettledPending ==
    settled => /\ \A w \in Writers : Saving(w) => snapshot[w] = state
               /\ \A v, w \in Writers : Saving(v) /\ Saving(w) => v = w

Inv ==
    /\ TypeOK
    /\ PendingIsPast
    /\ FileIsPast
    /\ SettledPending
    /\ SettledFileIsExact

USE FaultyDiskAssumption, NoSnapshotAssumption, MaxChangesAssumption
-----------------------------------------------------------------------------
(* The empty table is a table.                                             *)
LEMMA EmptyTableType == EmptyTable \in Table
BY DEF EmptyTable, Table

(* Setting one entry of a table gives a table.                             *)
LEMMA TableExcept ==
    ASSUME NEW t \in Table, NEW e \in Endpoints,
           NEW r \in Records \cup {Absent}
    PROVE  [t EXCEPT ![e] = r] \in Table
BY DEF Table

(* What every change of the table does to the table and its snapshots.     *)
LEMMA ChangeInv ==
    ASSUME Inv, NEW w \in Writers, NEW new \in Table,
           ChangeAndCopy(w, new), RecordChange,
           leftEndpoints' \in SUBSET Endpoints, UNCHANGED file
    PROVE  Inv'
<1> USE DEF Inv, ChangeAndCopy, RecordChange
<1>1. TypeOK'
  BY DEF TypeOK, TableTypeOK
<1>2. \A v \in Writers : snapshot'[v] = IF v = w THEN new ELSE snapshot[v]
  BY DEF TypeOK, TableTypeOK
<1>3. PendingIsPast'
  BY <1>2 DEF PendingIsPast, Saving
<1>4. FileIsPast'
  BY DEF FileIsPast
<1>5. SettledPending'
  BY <1>2 DEF SettledPending, Saving
<1>6. Saving(w)'
  BY <1>2 DEF Saving
<1>7. SettledFileIsExact'
  BY <1>6 DEF SettledFileIsExact, Quiet
<1> QED
  BY <1>1, <1>3, <1>4, <1>5, <1>7

(* The invariant holds at the start.                                       *)
LEMMA InitInv == Init => Inv
<1> SUFFICES ASSUME Init PROVE Inv
  OBVIOUS
<1> USE EmptyTableType DEF Init, TableInit
<1>1. TypeOK
  BY DEF TypeOK, TableTypeOK
<1>2. \A w \in Writers : ~Saving(w)
  BY DEF Saving
<1> QED
  BY <1>1, <1>2 DEF Inv, PendingIsPast, FileIsPast, SettledPending,
                    SettledFileIsExact

(* Every step keeps the invariant.                                         *)
LEMMA NextInv == Inv /\ [Next]_vars => Inv'
<1> SUFFICES ASSUME Inv, [Next]_vars PROVE Inv'
  OBVIOUS
<1>t. state \in Table /\ EmptyTable \in Table /\ file \in Table
  BY EmptyTableType DEF Inv, TypeOK, TableTypeOK
<1>1. ASSUME NEW w \in Writers, NEW e \in Endpoints, Add(w, e)
      PROVE  Inv'
  <2> DEFINE new == [state EXCEPT ![e] = "unnamed"]
  <2>1. new \in Table
    BY <1>t, TableExcept DEF Records
  <2>2. ChangeAndCopy(w, new) /\ RecordChange /\ UNCHANGED <<leftEndpoints, file>>
    BY <1>1 DEF Add, AddStateEntry
  <2>3. leftEndpoints' \in SUBSET Endpoints
    BY <2>2 DEF Inv, TypeOK, TableTypeOK
  <2> QED
    BY <2>1, <2>2, <2>3, ChangeInv
<1>2. ASSUME NEW w \in Writers, NEW e \in Endpoints, Update(w, e)
      PROVE  Inv'
  <2> DEFINE new == IF state[e] = Absent
                    THEN state ELSE [state EXCEPT ![e] = "named"]
  <2>1. new \in Table
    BY <1>t, TableExcept DEF Records
  <2>2. ChangeAndCopy(w, new) /\ RecordChange /\ UNCHANGED <<leftEndpoints, file>>
    BY <1>2 DEF Update, UpdateStateEntry
  <2>3. leftEndpoints' \in SUBSET Endpoints
    BY <2>2 DEF Inv, TypeOK, TableTypeOK
  <2> QED
    BY <2>1, <2>2, <2>3, ChangeInv
<1>3. ASSUME NEW w \in Writers, NEW e \in Endpoints, Remove(w, e)
      PROVE  Inv'
  <2> DEFINE new == [state EXCEPT ![e] = Absent]
  <2>1. new \in Table
    BY <1>t, TableExcept
  <2>2. /\ ChangeAndCopy(w, new) /\ RecordChange /\ UNCHANGED file
        /\ leftEndpoints' = leftEndpoints \ {e}
    BY <1>3 DEF Remove, RemoveStateEntry
  <2>3. leftEndpoints' \in SUBSET Endpoints
    BY <2>2 DEF Inv, TypeOK, TableTypeOK
  <2> QED
    BY <2>1, <2>2, <2>3, ChangeInv
<1>4. ASSUME NEW w \in Writers, NEW e \in Endpoints, RemoveNothing(w, e)
      PROVE  Inv'
  BY <1>4 DEF RemoveNothing, RemoveStateEntry, historyVars, Inv, TypeOK,
     TableTypeOK, PendingIsPast, FileIsPast, SettledPending,
     SettledFileIsExact, Quiet, Saving
<1>5. ASSUME NEW e \in Endpoints, Mark(e)
      PROVE  Inv'
  BY <1>5 DEF Mark, MarkLeft, historyVars, Inv, TypeOK, TableTypeOK,
     PendingIsPast, FileIsPast, SettledPending, SettledFileIsExact, Quiet,
     Saving
<1>6. ASSUME NEW w \in Writers, Save(w)
      PROVE  Inv'
  <2> USE <1>6 DEF Inv, Save, SaveState, historyVars
  <2>1. snapshot[w] \in Table
    BY DEF TypeOK, TableTypeOK, Saving
  <2>2. \A v \in Writers :
          snapshot'[v] = IF v = w THEN NoSnapshot ELSE snapshot[v]
    BY DEF TypeOK, TableTypeOK
  <2>3. TypeOK'
    BY <2>1 DEF TypeOK, TableTypeOK
  <2>4. PendingIsPast' /\ FileIsPast'
    BY <2>2 DEF PendingIsPast, FileIsPast, Saving
  <2>5. SettledPending'
    BY <2>2 DEF SettledPending, Saving
  <2>6. SettledFileIsExact'
    BY DEF SettledFileIsExact, SettledPending
  <2> QED
    BY <2>3, <2>4, <2>5, <2>6
<1>7. ASSUME NEW w \in Writers, SaveFails(w)
      PROVE  Inv'
  <2> USE <1>7 DEF Inv, SaveFails, SaveStateFails
  <2>1. \A v \in Writers :
          snapshot'[v] = IF v = w THEN NoSnapshot ELSE snapshot[v]
    BY DEF TypeOK, TableTypeOK
  <2>2. TypeOK'
    BY DEF TypeOK, TableTypeOK
  <2> QED
    BY <2>1, <2>2 DEF PendingIsPast, FileIsPast, SettledPending,
                      SettledFileIsExact, Saving
<1>8. ASSUME NEW t \in Table, Reload(t),
             UNCHANGED <<changes, past>>,
             settled' \in BOOLEAN, settled' => t = file
      PROVE  Inv'
  <2> USE <1>8 DEF Inv, Reload
  <2>1. \A v \in Writers : snapshot'[v] = NoSnapshot
    OBVIOUS
  <2>2. TypeOK'
    BY DEF TypeOK, TableTypeOK
  <2> QED
    BY <2>1, <2>2 DEF PendingIsPast, FileIsPast, SettledPending,
                      SettledFileIsExact, Saving
<1>9. ASSUME Recover \/ RecoverUnread
      PROVE  Inv'
  BY <1>9, <1>8, <1>t DEF Recover, RecoverUnread, Restart, RestartUnread
<1>10. ASSUME UNCHANGED vars
       PROVE  Inv'
  BY <1>10 DEF vars, tableVars, historyVars, Inv, TypeOK, TableTypeOK,
     PendingIsPast, FileIsPast, SettledPending, SettledFileIsExact, Quiet,
     Saving
<1> QED
  BY <1>1, <1>2, <1>3, <1>4, <1>5, <1>6, <1>7, <1>9, <1>10 DEF Next

(* Every reachable state satisfies the inductive invariant.                *)
THEOREM Invariance == Spec => []Inv
BY InitInv, NextInv, PTL DEF Spec

(* Type correctness of the endpoint table and its history.                 *)
THEOREM TypeCorrect == Spec => []TypeOK
<1>1. Inv => TypeOK
  BY DEF Inv
<1> QED
  BY <1>1, Invariance, PTL

(* The file disagrees with the table at rest only after overlapping or     *)
(* failed saves (addStateEntry, updateStateEntry, removeStateEntry).       *)
THEOREM SettledExact == Spec => []SettledFileIsExact
<1>1. Inv => SettledFileIsExact
  BY DEF Inv
<1> QED
  BY <1>1, Invariance, PTL

(* The file is only ever replaced as a whole, by a table that was once the *)
(* table in memory: StateTableHistory implements DurableTable.             *)
THEOREM Refinement == Spec => DurableTableHolds
<1>1. Init => Durable!Init
  BY DEF Init, TableInit, Durable!Init
<1>2. Inv /\ [Next]_vars => [Durable!Next]_(Durable!vars)
  <2> SUFFICES ASSUME Inv, [Next]_vars PROVE [Durable!Next]_(Durable!vars)
    OBVIOUS
  <2>t. state \in Table /\ EmptyTable \in Table
    BY EmptyTableType DEF Inv, TypeOK, TableTypeOK
  <2>1. ASSUME NEW w \in Writers, NEW t \in Table,
               ChangeAndCopy(w, t), RecordChange, UNCHANGED file
        PROVE  Durable!Change
    BY <2>1 DEF ChangeAndCopy, RecordChange, Durable!Change
  <2>2. ASSUME NEW w \in Writers, NEW e \in Endpoints,
               Add(w, e) \/ Update(w, e) \/ Remove(w, e)
        PROVE  Durable!Change
    <3> DEFINE added == [state EXCEPT ![e] = "unnamed"]
               updated == IF state[e] = Absent
                          THEN state ELSE [state EXCEPT ![e] = "named"]
               removed == [state EXCEPT ![e] = Absent]
    <3>1. added \in Table /\ updated \in Table /\ removed \in Table
      BY <2>t, TableExcept DEF Records
    <3>2. \E t \in {added, updated, removed} :
            ChangeAndCopy(w, t) /\ RecordChange /\ UNCHANGED file
      BY <2>2 DEF Add, AddStateEntry, Update, UpdateStateEntry, Remove,
                  RemoveStateEntry
    <3> QED
      BY <3>1, <3>2, <2>1
  <2>3. ASSUME NEW w \in Writers, Save(w)
        PROVE  Durable!Store
    BY <2>3 DEF Save, SaveState, historyVars, Inv, PendingIsPast, Durable!Store
  <2>4. ASSUME Recover \/ RecoverUnread
        PROVE  Durable!Recover
    BY <2>4 DEF Recover, RecoverUnread, Restart, RestartUnread, Reload,
                Durable!Recover
  <2>5. ASSUME \/ \E w \in Writers, e \in Endpoints : RemoveNothing(w, e)
               \/ \E e \in Endpoints : Mark(e)
               \/ \E w \in Writers : SaveFails(w)
               \/ UNCHANGED vars
        PROVE  UNCHANGED Durable!vars
    BY <2>5 DEF RemoveNothing, RemoveStateEntry, Mark, MarkLeft, SaveFails,
                SaveStateFails, vars, tableVars, historyVars, Durable!vars
  <2> QED
    BY <2>2, <2>3, <2>4, <2>5 DEF Next, Durable!Next
<1> QED
  BY <1>1, <1>2, Invariance, PTL DEF Spec, DurableTableHolds, Durable!Spec
=============================================================================
