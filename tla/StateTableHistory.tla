-------------------------- MODULE StateTableHistory --------------------------
(***************************************************************************)
(* StateTable with history variables, to say which contents of state.json  *)
(* are right: the tables there have been in memory, and whether saves      *)
(* overlapped or failed.                                                   *)
(***************************************************************************)
EXTENDS StateTable

CONSTANT MaxChanges  \* bound on the number of changes of the table

ASSUME MaxChangesAssumption == MaxChanges \in Nat

VARIABLES
    changes,  \* number of snapshots taken so far
    past,     \* every table there has been in memory
    settled   \* no save failed, and no two overlapped, since the latest save
              \* that began with no other one pending

historyVars == <<changes, past, settled>>
vars == <<tableVars, historyVars>>

Init ==
    /\ TableInit
    /\ changes = 0
    /\ past = {EmptyTable}
    /\ settled = TRUE

RecordChange ==
    /\ changes < MaxChanges
    /\ changes' = changes + 1
    /\ past' = past \cup {state'}
    /\ settled' = \A v \in Writers : ~Saving(v)

Add(w, e) == AddStateEntry(w, e) /\ RecordChange
Update(w, e) == UpdateStateEntry(w, e) /\ RecordChange
Remove(w, e) == state[e] # Absent /\ RemoveStateEntry(w, e) /\ RecordChange
RemoveNothing(w, e) ==
    state[e] = Absent /\ RemoveStateEntry(w, e) /\ UNCHANGED historyVars
Mark(e) == MarkLeft(e) /\ UNCHANGED historyVars

Save(w) == SaveState(w) /\ UNCHANGED historyVars

SaveFails(w) ==
    /\ SaveStateFails(w)
    /\ settled' = FALSE
    /\ UNCHANGED <<changes, past>>

Recover ==
    /\ Restart
    /\ settled' = TRUE
    /\ UNCHANGED <<changes, past>>

RecoverUnread ==
    /\ RestartUnread
    /\ settled' = FALSE
    /\ UNCHANGED <<changes, past>>

Next ==
    \/ \E w \in Writers, e \in Endpoints :
         Add(w, e) \/ Update(w, e) \/ Remove(w, e) \/ RemoveNothing(w, e)
    \/ \E e \in Endpoints : Mark(e)
    \/ \E w \in Writers : Save(w) \/ SaveFails(w)
    \/ Recover
    \/ RecoverUnread

Spec == Init /\ [][Next]_vars
-----------------------------------------------------------------------------
(* Every variable has a value of its kind.                                 *)
TypeOK ==
    /\ TableTypeOK
    /\ changes \in 0 .. MaxChanges
    /\ past \in SUBSET Table
    /\ settled \in BOOLEAN

Quiet == \A w \in Writers : ~Saving(w)

(* state.json and Plugin.state can only disagree at rest because two saves *)
(* overlapped or one failed, and the next save that runs alone repairs     *)
(* the file (plugin.go:229-293: the file is rewritten from memory as a     *)
(* whole).                                                                 *)
SettledFileIsExact == settled /\ Quiet => file = state

(* The table and its file keep the promise of DurableTable.                *)
Durable == INSTANCE DurableTable WITH
    Tables <- Table, Empty <- EmptyTable,
    memory <- state, stored <- file, past <- past
DurableTableHolds == Durable!Spec
=============================================================================
