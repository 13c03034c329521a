----------------------------- MODULE StateTable -----------------------------
(***************************************************************************)
(* The endpoint table of the plugin (Plugin.state in pkg/plugin/plugin.go) *)
(* and its copy on disk (state.json).                                      *)
(*                                                                         *)
(* A handler changes the table under p.mu and takes a snapshot of it in    *)
(* the same critical section; it releases p.mu, acquires p.saveMu and      *)
(* writes its snapshot.  The two critical sections are two steps, and any  *)
(* other handler may run between them.  The write itself is one step,      *)
(* since saveState writes a temporary file and renames it.                 *)
(*                                                                         *)
(* A record is reduced to what the handlers tell apart: it is absent, or   *)
(* present with its Hostname still empty ("unnamed"), or filled in         *)
(* ("named").                                                              *)
(***************************************************************************)
EXTENDS Integers

CONSTANTS
    Endpoints,  \* the endpoint IDs
    Writers,    \* the goroutines that change the table
    FaultyDisk, \* whether reads and writes of state.json may fail
    NoSnapshot  \* a goroutine has no snapshot to save

ASSUME FaultyDiskAssumption == FaultyDisk \in BOOLEAN

VARIABLES
    state,         \* Plugin.state
    leftEndpoints, \* Plugin.leftEndpoints, which removeStateEntry also prunes
    snapshot,      \* per goroutine: the snapshot it took and has not yet saved
    file           \* the table that loadState would read from state.json

tableVars == <<state, leftEndpoints, snapshot, file>>

Absent == "absent"
Records == {"unnamed", "named"}
Table == [Endpoints -> Records \cup {Absent}]
EmptyTable == [e \in Endpoints |-> Absent]

ASSUME NoSnapshotAssumption == NoSnapshot \notin Table

Saving(w) == snapshot[w] # NoSnapshot

TableTypeOK ==
    /\ state \in Table
    /\ leftEndpoints \in SUBSET Endpoints
    /\ snapshot \in [Writers -> Table \cup {NoSnapshot}]
    /\ file \in Table

TableInit ==
    /\ state = EmptyTable
    /\ leftEndpoints = {}
    /\ snapshot = [w \in Writers |-> NoSnapshot]
    /\ file = EmptyTable
-----------------------------------------------------------------------------
(* Goroutine w holds p.mu, makes the table `new` and copies it.            *)
ChangeAndCopy(w, new) ==
    /\ ~Saving(w)
    /\ state' = new
    /\ snapshot' = [snapshot EXCEPT ![w] = new]

(* What if the record only went to the file?                               *)
AddToSnapshotOnly(w, e) ==
    /\ ~Saving(w)
    /\ snapshot' = [snapshot EXCEPT ![w] = [state EXCEPT ![e] = "unnamed"]]
    /\ UNCHANGED <<state, leftEndpoints, file>>

AddStateEntry(w, e) ==
    /\ ChangeAndCopy(w, [state EXCEPT ![e] = "unnamed"])
    /\ UNCHANGED <<leftEndpoints, file>>

(* What if the snapshot was taken too early?                               *)
UpdateAfterSnapshot(w, e) ==
    /\ ~Saving(w)
    /\ snapshot' = [snapshot EXCEPT ![w] = state]
    /\ state' = IF state[e] = Absent
                THEN state ELSE [state EXCEPT ![e] = "named"]
    /\ UNCHANGED <<leftEndpoints, file>>

(* Only an existing entry is updated, but the snapshot is taken and saved  *)
(* even when there is none.                                                *)
UpdateStateEntry(w, e) ==
    /\ ChangeAndCopy(w, IF state[e] = Absent
                        THEN state ELSE [state EXCEPT ![e] = "named"])
    /\ UNCHANGED <<leftEndpoints, file>>

(* What if the mark only went with an entry?                               *)
RemoveStateEntryOnly(w, e) ==
    /\ IF state[e] # Absent
       THEN /\ leftEndpoints' = leftEndpoints \ {e}
            /\ ChangeAndCopy(w, [state EXCEPT ![e] = Absent])
       ELSE ~Saving(w) /\ UNCHANGED <<state, leftEndpoints, snapshot>>
    /\ UNCHANGED file

(* The leftEndpoints mark goes in every case; without an entry to delete   *)
(* the function returns before it saves.                                   *)
RemoveStateEntry(w, e) ==
    /\ leftEndpoints' = leftEndpoints \ {e}
    /\ IF state[e] # Absent
       THEN ChangeAndCopy(w, [state EXCEPT ![e] = Absent])
       ELSE ~Saving(w) /\ UNCHANGED <<state, snapshot>>
    /\ UNCHANGED file

(* Leave finds no manager and marks the endpoint as left.                  *)
MarkLeft(e) ==
    /\ leftEndpoints' = leftEndpoints \cup {e}
    /\ UNCHANGED <<state, snapshot, file>>

(* What if the records were added to those on disk?                        *)
SaveMerged(w) ==
    /\ Saving(w)
    /\ file' = [e \in Endpoints |->
                  IF snapshot[w][e] = Absent THEN file[e] ELSE snapshot[w][e]]
    /\ snapshot' = [snapshot EXCEPT ![w] = NoSnapshot]
    /\ UNCHANGED <<state, leftEndpoints>>

(* saveState, under p.saveMu.  A failure is logged and forgotten.          *)
SaveState(w) ==
    /\ Saving(w)
    /\ file' = snapshot[w]
    /\ snapshot' = [snapshot EXCEPT ![w] = NoSnapshot]
    /\ UNCHANGED <<state, leftEndpoints>>

SaveStateFails(w) ==
    /\ FaultyDisk
    /\ Saving(w)
    /\ snapshot' = [snapshot EXCEPT ![w] = NoSnapshot]
    /\ UNCHANGED <<state, leftEndpoints, file>>

(* The process dies and NewPlugin runs again: every goroutine and the      *)
(* in-memory maps are gone, the table is what loadState returns.           *)
Reload(loaded) ==
    /\ state' = loaded
    /\ leftEndpoints' = {}
    /\ snapshot' = [w \in Writers |-> NoSnapshot]
    /\ UNCHANGED file

Restart == Reload(file)

(* NewPlugin goes on with an empty table when loadState fails.             *)
RestartUnread == FaultyDisk /\ Reload(EmptyTable)
-----------------------------------------------------------------------------
TableNext ==
    \/ \E w \in Writers, e \in Endpoints :
         \/ AddStateEntry(w, e)
         \/ UpdateStateEntry(w, e)
         \/ RemoveStateEntry(w, e)
    \/ \E e \in Endpoints : MarkLeft(e)
    \/ \E w \in Writers : SaveState(w) \/ SaveStateFails(w)
    \/ Restart
    \/ RestartUnread

TableSpec == TableInit /\ [][TableNext]_tableVars
=============================================================================
