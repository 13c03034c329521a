----------------------- MODULE EndpointLifecycleProofs -----------------------
(***************************************************************************)
(* Proofs about EndpointLifecycle.                                         *)
(***************************************************************************)
EXTENDS EndpointLifecycle, TLAPS

USE LifecycleAssumption
-----------------------------------------------------------------------------
(* Types                                                                   *)

(* Each goroutine may write the table.                                     *)
LEMMA ThreadsExist ==
    ASSUME NEW e \in Endpoints
    PROVE  {Handler(e), Joiner(e), Restorer} \subseteq Threads
BY DEF Threads, Handler, Joiner, Restorer

(* A change under p.mu puts the same table in the memory and the snapshot. *)
LEMMA ChangeAndCopyType ==
    ASSUME TableTypeOK, NEW w \in Threads, NEW new \in Table,
           ChangeAndCopy(w, new), leftEndpoints' \in SUBSET Endpoints,
           UNCHANGED file
    PROVE  TableTypeOK'
BY DEF TableTypeOK, ChangeAndCopy

(* Adding the record of an endpoint keeps the type of the table.           *)
LEMMA AddStateEntryType ==
    ASSUME TableTypeOK, NEW w \in Threads, NEW e \in Endpoints, AddStateEntry(w, e)
    PROVE  TableTypeOK'
<1> DEFINE new == [state EXCEPT ![e] = "unnamed"]
<1>1. new \in Table
  BY DEF TableTypeOK, Table, Records
<1> QED
  BY <1>1, ChangeAndCopyType DEF AddStateEntry, TableTypeOK

(* So does filling it in,                                                  *)
LEMMA UpdateStateEntryType ==
    ASSUME TableTypeOK, NEW w \in Threads, NEW e \in Endpoints, UpdateStateEntry(w, e)
    PROVE  TableTypeOK'
<1> DEFINE new == IF state[e] = Absent
                  THEN state ELSE [state EXCEPT ![e] = "named"]
<1>1. new \in Table
  BY DEF TableTypeOK, Table, Records
<1> QED
  BY <1>1, ChangeAndCopyType DEF UpdateStateEntry, TableTypeOK

(* and removing it, together with its mark.                                *)
LEMMA RemoveStateEntryType ==
    ASSUME TableTypeOK, NEW w \in Threads, NEW e \in Endpoints, RemoveStateEntry(w, e)
    PROVE  TableTypeOK'
<1> DEFINE new == [state EXCEPT ![e] = Absent]
<1>1. new \in Table
  BY DEF TableTypeOK, Table
<1>2. leftEndpoints' \in SUBSET Endpoints /\ UNCHANGED file
  BY DEF RemoveStateEntry, TableTypeOK
<1>3. CASE state[e] # Absent
  BY <1>1, <1>2, <1>3, ChangeAndCopyType DEF RemoveStateEntry
<1>4. CASE state[e] = Absent
  BY <1>2, <1>4 DEF RemoveStateEntry, TableTypeOK
<1> QED
  BY <1>3, <1>4

(* A save writes a table, or nothing.                                      *)
LEMMA SaveEndsType ==
    ASSUME TableTypeOK, NEW w \in Threads, SaveEnds(w)
    PROVE  TableTypeOK'
BY DEF SaveEnds, SaveState, SaveStateFails, Saving, TableTypeOK

(* A new process finds a table in the file, or starts without one.         *)
LEMMA ReloadType ==
    ASSUME TableTypeOK, Restart \/ RestartUnread
    PROVE  TableTypeOK'
<1>1. EmptyTable \in Table
  BY DEF EmptyTable, Table
<1> QED
  BY <1>1 DEF Restart, RestartUnread, Reload, TableTypeOK
-----------------------------------------------------------------------------
(* The inductive invariant                                                 *)

(* Where a request handler is, how far dockerd has come and whether a      *)
(* Leave holds a manager agree.                                            *)
HandlerOK(e) ==
  /\ taken[e] # NoManager <=> handler[e] \in {"stop", "stopping"}
  /\ handler[e] \in {"join", "routes", "joinSaving", "replyError"}
       => docker[e] = "joining"
  /\ handler[e] \in {"leave", "stop", "stopping"} => docker[e] = "leaving"
  /\ handler[e] = "delete" => docker[e] = "deleting"
  /\ handler[e] \in {"forget", "forgetSaving"}
       => docker[e] \in {"leaving", "deleting"}
  /\ handler[e] = "replyOK" => docker[e] \in {"joining", "leaving", "deleting"}

HandlerInv == \A e \in Endpoints : HandlerOK(e)

(* The Join goroutine is spawned once per endpoint: dockerd sends no       *)
(* second Join after the first one spawned it.                             *)
JoinerInv ==
  \A e \in Endpoints :
    /\ joiner[e] # "idle" => docker[e] \notin {"new", "created"}
    /\ joiner[e] # "idle" /\ docker[e] = "joining" => handler[e] = "replyOK"
    /\ docker[e] \in {"new", "created"} => handler[e] = "idle"

(* A Join goroutine that got its manager into the map is past its          *)
(* registration for good; Restore does not come back to an endpoint whose  *)
(* manager it registered.                                                  *)
Held(e, k) == InMap(e, k) \/ WithLeave(e, k)

HeldInv ==
  \A e \in Endpoints :
    /\ Held(e, "joined")
         => joiner[e] \in {"registered", "saving", "returning", "done"}
    /\ Held(e, "restored")
         => e \notin todo \cup current /\ restorer # "sleeping"
    /\ \A k \in Kinds : ~(InMap(e, k) /\ WithLeave(e, k))

(* Restore works on one endpoint at a time and on each of them once.       *)
RestorerInv ==
  /\ todo \cap current = {}
  /\ \A e, f \in current : e = f
  /\ restorer = "sleeping" => todo = {}
  /\ restorer \in {"sleeping", "next"} => current = {}

(* Nobody told a manager to stop that is in the map or on its way there.   *)
RunInv ==
  closer = "idle" => \A e \in Endpoints :
     /\ \A k \in Kinds : InMap(e, k) => manager[e][k] \in {"running", "exited"}
     /\ joiner[e] = "started"
          => manager[e]["joined"] \in {"running", "exited"}
     /\ restorer = "started" /\ e \in current
          => manager[e]["restored"] \in {"running", "exited"}

Inv == TypeOK /\ HandlerInv /\ JoinerInv /\ HeldInv /\ RestorerInv /\ RunInv

(* Of the steps of a handler only LeaveTakesManager moves a manager: from  *)
(* the map to the Leave.                                                   *)
LEMMA HandlerStepInv ==
    ASSUME Inv, NEW e \in Endpoints, HandlerStep(e), TableTypeOK'
    PROVE  Inv'
<1> USE DEF Inv, TypeOK, HandlerInv, HandlerOK, JoinerInv, HeldInv, RestorerInv,
        RunInv, Held, InMap, WithLeave, At, mapVars, dockerVars, table,
        restoreVars,
        restoreWork, closeVars, Kinds, NoManager, HandlerLabels
<1>1. CASE JoinRefused(e)
  BY <1>1 DEF HandlerStep, JoinRefused
<1>2. CASE JoinTakesHint(e)
  BY <1>2 DEF HandlerStep, JoinTakesHint
<1>3. CASE JoinFails(e)
  BY <1>3 DEF HandlerStep, JoinFails
<1>4. CASE JoinPersists(e)
  BY <1>4 DEF HandlerStep, JoinPersists
<1>5. CASE JoinSpawns(e)
  BY <1>5 DEF HandlerStep, JoinSpawns, JoinerLabels
<1>6. CASE LeaveTakesManager(e)
  BY <1>6 DEF HandlerStep, LeaveTakesManager
<1>7. CASE LeaveMarks(e)
  BY <1>7 DEF HandlerStep, LeaveMarks
<1>8. CASE LeaveStops(e)
  BY <1>8 DEF HandlerStep, LeaveStops, CloseStopChan, ManagerLabels
<1>9. CASE LeaveStopped(e)
  BY <1>9 DEF HandlerStep, LeaveStopped, ReceiveErrChan, ManagerLabels
<1>10. CASE DeleteLink(e)
  BY <1>10 DEF HandlerStep, DeleteLink
<1>11. CASE Forget(e)
  BY <1>11 DEF HandlerStep, Forget
<1>12. CASE Forgotten(e)
  BY <1>12 DEF HandlerStep, Forgotten
<1>13. CASE Reply(e)
  <2> DEFINE answer == IF handler[e] = "replyOK"
                       THEN Answered[docker[e]] ELSE "failed"
  <2>1. answer \in {"joined", "left", "deleted", "failed"}
    BY DEF Answered
  <2>2. taken[e] = NoManager
    BY <1>13 DEF Reply
  <2>3. /\ docker' = [docker EXCEPT ![e] = answer]
        /\ handler' = [handler EXCEPT ![e] = "idle"]
    <3>1. CASE handler[e] = "replyOK"
      BY <1>13, <3>1 DEF Reply
    <3>2. CASE handler[e] = "replyError"
      BY <1>13, <3>2 DEF Reply
    <3> QED
      BY <1>13, <3>1, <3>2 DEF Reply
  <2> HIDE DEF answer
  <2>4. UNCHANGED <<taken, joiner, manager, mapVars, table, link, restoreVars,
                    closeVars, restarts>>
    BY <1>13 DEF Reply, HandlerStep
  <2>5. TypeOK'
    BY <2>1, <2>3, <2>4 DEF DockerLabels
  <2>6. HandlerInv'
    <3> SUFFICES ASSUME NEW f \in Endpoints
                 PROVE  HandlerOK(f)'
      OBVIOUS
    <3>1. CASE f = e
      BY <2>1, <2>3, <2>4, <3>1, <2>2
    <3>2. CASE f # e
      BY <2>1, <2>3, <2>4, <3>2
    <3> QED
      BY <3>1, <3>2
  <2>7. JoinerInv'
    BY <2>1, <2>3, <2>4
  <2>8. HeldInv' /\ RestorerInv' /\ RunInv'
    BY <2>1, <2>3, <2>4
  <2> QED
    BY <2>5, <2>7, <2>8, <2>6
<1> HIDE DEF Inv
<1> QED
  BY <1>1, <1>2, <1>3, <1>4, <1>5, <1>6, <1>7, <1>8, <1>9, <1>10, <1>11,
     <1>12, <1>13 DEF HandlerStep

(* The Join goroutine registers the manager that it made; its place in     *)
(* the goroutine tells that it is not registered twice.                    *)
LEMMA JoinerStepInv ==
    ASSUME Inv, NEW e \in Endpoints, JoinerStep(e), TableTypeOK'
    PROVE  Inv'
<1> USE DEF Inv, TypeOK, HandlerInv, HandlerOK, JoinerInv, HeldInv, RestorerInv,
        RunInv, Held, InMap, WithLeave, JoinerAt, mapVars, dockerVars, table,
        restoreVars,
        restoreWork, closeVars, handlerVars, Kinds, NoManager, JoinerLabels
<1>1. CASE JoinerSeesLink(e)
  BY <1>1 DEF JoinerStep, JoinerSeesLink
<1>2. CASE JoinerStartFails(e)
  <2>1. /\ joiner[e] \in {"awaiting", "starting"}
        /\ joiner' = [joiner EXCEPT ![e] = "returning"]
    BY <1>2 DEF JoinerStartFails
  <2>2. UNCHANGED <<table, mapVars, manager, handlerVars, restoreVars, closeVars,
                    dockerVars, restarts>>
    BY <1>2 DEF JoinerStep, JoinerStartFails
  <2>3. TypeOK' /\ HandlerInv' /\ JoinerInv'
    BY <2>1, <2>2
  <2>4. HeldInv' /\ RestorerInv' /\ RunInv'
    BY <2>1, <2>2
  <2> QED
    BY <2>3, <2>4
<1>3. CASE JoinerStarts(e)
  BY <1>3 DEF JoinerStep, JoinerStarts, StartManager, ManagerLabels
<1>4. CASE JoinerRegisters(e)
  BY <1>4 DEF JoinerStep, JoinerRegisters
<1>5. CASE JoinerFindsLeft(e)
  BY <1>5 DEF JoinerStep, JoinerFindsLeft
<1>6. CASE JoinerStops(e)
  BY <1>6 DEF JoinerStep, JoinerStops, CloseStopChan, ManagerLabels
<1>7. CASE JoinerStopped(e)
  BY <1>7 DEF JoinerStep, JoinerStopped, ReceiveErrChan, ManagerLabels
<1>8. CASE JoinerUpdates(e)
  BY <1>8 DEF JoinerStep, JoinerUpdates
<1>9. CASE JoinerSaved(e)
  BY <1>9 DEF JoinerStep, JoinerSaved
<1>10. CASE JoinerReturns(e)
  <2>1. /\ joiner[e] \in {"returning", "registered"}
        /\ joiner' = [joiner EXCEPT ![e] = "done"]
    BY <1>10 DEF JoinerReturns
  <2>2. UNCHANGED <<table, mapVars, manager>>
    BY <1>10 DEF JoinerReturns
  <2>3. UNCHANGED <<handlerVars, restoreVars, closeVars, dockerVars,
                    restarts>>
    BY DEF JoinerStep
  <2>4. TypeOK' /\ HandlerInv'
    BY <2>1, <2>2, <2>3
  <2>5. JoinerInv'
    BY <2>1, <2>3
  <2>6. HeldInv' /\ RestorerInv'
    BY <2>1, <2>2, <2>3
  <2>7. RunInv'
    BY <2>1, <2>2, <2>3
  <2> QED
    BY <2>4, <2>5, <2>6, <2>7
<1> HIDE DEF Inv
<1> QED
  BY <1>1, <1>2, <1>3, <1>4, <1>5, <1>6, <1>7, <1>8, <1>9, <1>10
  DEF JoinerStep

(* Restore registers the manager of the endpoint that it is working on, to *)
(* which it does not come back.                                            *)
LEMMA RestoreStepInv ==
    ASSUME Inv, RestoreStep, TableTypeOK'
    PROVE  Inv'
<1> USE DEF Inv, TypeOK, HandlerInv, HandlerOK, JoinerInv, HeldInv, RestorerInv,
        RunInv, Held, InMap, WithLeave, RestorerAt, RestoreDone, mapVars,
        dockerVars, table,
        restoreWork, closeVars, handlerVars, Kinds, NoManager, RestorerLabels
<1>1. CASE RestoreCopies
  BY <1>1 DEF RestoreStep, RestoreCopies
<1>2. CASE RestorePicks
  BY <1>2 DEF RestoreStep, RestorePicks
<1>3. CASE RestoreEnds
  BY <1>3 DEF RestoreStep, RestoreEnds
<1>4. CASE RestoreAttemptFails
  BY <1>4 DEF RestoreStep, RestoreAttemptFails
<1>5. CASE RestoreRetries
  BY <1>5 DEF RestoreStep, RestoreRetries
<1>6. CASE RestoreIsCancelled
  BY <1>6 DEF RestoreStep, RestoreIsCancelled
<1>7. CASE RestoreDropped
  BY <1>7 DEF RestoreStep, RestoreDropped
<1>8. ASSUME NEW e \in Endpoints, RestoreFindsManager(e)
      PROVE  Inv'
  BY <1>8 DEF RestoreStep, RestoreFindsManager
<1>9. ASSUME NEW e \in Endpoints, RestoreFindsNone(e)
      PROVE  Inv'
  BY <1>9 DEF RestoreStep, RestoreFindsNone
<1>10. ASSUME NEW e \in Endpoints, RestoreStarts(e)
      PROVE  Inv'
  BY <1>10 DEF RestoreStep, RestoreStarts, StartManager, ManagerLabels
<1>11. ASSUME NEW e \in Endpoints, RestoreRegisters(e)
      PROVE  Inv'
  BY <1>11 DEF RestoreStep, RestoreRegisters
<1>12. ASSUME NEW e \in Endpoints, RestoreFindsJoin(e)
      PROVE  Inv'
  BY <1>12 DEF RestoreStep, RestoreFindsJoin
<1>13. ASSUME NEW e \in Endpoints, RestoreFindsLeft(e)
      PROVE  Inv'
  BY <1>13 DEF RestoreStep, RestoreFindsLeft
<1>14. ASSUME NEW e \in Endpoints, RestoreStops(e)
      PROVE  Inv'
  BY <1>14 DEF RestoreStep, RestoreStops, CloseStopChan, ManagerLabels
<1>15. ASSUME NEW e \in Endpoints, RestoreStopped(e)
      PROVE  Inv'
  BY <1>15 DEF RestoreStep, RestoreStopped, ReceiveErrChan, ManagerLabels
<1>16. ASSUME NEW e \in Endpoints, RestoreDrops(e)
      PROVE  Inv'
  BY <1>16 DEF RestoreStep, RestoreDrops
<1> HIDE DEF Inv
<1> QED
  BY <1>1, <1>2, <1>3, <1>4, <1>5, <1>6, <1>7, <1>8, <1>9, <1>10, <1>11,
     <1>12, <1>13, <1>14, <1>15, <1>16 DEF RestoreStep

(* The event loop of a manager ends by itself or because it was told to.   *)
LEMMA LoopStepInv ==
    ASSUME Inv, NEW e \in Endpoints, LoopStep(e), TableTypeOK'
    PROVE  Inv'
<1>1. /\ UNCHANGED <<joinHints, persistentDHCP, docker, link, handler, taken,
                      joiner, restorer, todo, current, closer>>
      /\ TypeOK'
  BY DEF LoopStep, LoopExits, LoopGivesUp, LoopFrame, Inv, TypeOK, mapVars,
         dockerVars, table, restoreVars, restoreWork, closeVars, handlerVars,
         Kinds, ManagerLabels
<1>2. \A f \in Endpoints, k \in Kinds :
        \/ manager'[f][k] = manager[f][k]
        \/ manager[f][k] \in {"running", "stopping"} /\ manager'[f][k] = "exited"
  BY DEF LoopStep, LoopExits, LoopGivesUp, Inv, TypeOK, Kinds
<1>3. RunInv'
  BY <1>1, <1>2 DEF Inv, RunInv, InMap, Kinds
<1>4. HandlerInv' /\ JoinerInv' /\ HeldInv' /\ RestorerInv'
  BY <1>1 DEF Inv, HandlerInv, HandlerOK, JoinerInv, HeldInv, RestorerInv, Held,
              InMap, WithLeave
<1> QED
  BY <1>1, <1>3, <1>4 DEF Inv

(* Neither the time that runs out nor the cancellation moves Restore.      *)
LEMMA ContextInv ==
    ASSUME Inv, RestoreTimesOut \/ CloseCancelsRestore, TableTypeOK'
    PROVE  Inv'
<1> USE DEF Inv, TypeOK, HandlerInv, HandlerOK, JoinerInv, HeldInv, RestorerInv,
        RunInv, Held, InMap, WithLeave, CloserAt, mapVars, dockerVars, table,
        closeVars, handlerVars, CloserLabels
<1>1. CASE RestoreTimesOut
  BY <1>1 DEF RestoreTimesOut
<1>2. CASE CloseCancelsRestore
  <2>1. restoreCtxDone' \in BOOLEAN /\ closer' = "waiting"
    BY <1>2 DEF CloseCancelsRestore
  <2> QED
    BY <1>2, <2>1 DEF CloseCancelsRestore
<1> HIDE DEF Inv
<1> QED
  BY <1>1, <1>2

(* Close takes nothing out of the map.                                     *)
LEMMA CloseStepInv ==
    ASSUME Inv, CloseStep, TableTypeOK'
    PROVE  Inv'
<1> USE DEF Inv, TypeOK, HandlerInv, HandlerOK, JoinerInv, HeldInv, RestorerInv,
        RunInv, Held, InMap, WithLeave, CloserAt, mapVars, dockerVars, table,
        restoreVars, restoreWork, handlerVars, CloserLabels
<1>1. CASE CloseCopies
  BY <1>1 DEF CloseStep, CloseCopies
<1>2. CASE CloseExits
  BY <1>2 DEF CloseStep, CloseExits
<1>3. ASSUME NEW m \in Endpoints \X Kinds, CloseStops(m)
      PROVE  Inv'
  BY <1>3 DEF CloseStep, CloseStops, CloseStopChan, ManagerLabels
<1>4. ASSUME NEW m \in Endpoints \X Kinds, CloseStopped(m)
      PROVE  Inv'
  BY <1>4 DEF CloseStep, CloseStopped, ReceiveErrChan, ManagerLabels
<1> HIDE DEF Inv
<1> QED
  BY <1>1, <1>2, <1>3, <1>4 DEF CloseStep

(* dockerd sends a request only when the one before is answered or cut off.*)
LEMMA DockerStepInv ==
    ASSUME Inv, DockerStep, TableTypeOK'
    PROVE  Inv'
<1> USE DEF Inv, TypeOK, HandlerInv, HandlerOK, JoinerInv, HeldInv, RestorerInv,
        RunInv, Held, InMap, WithLeave, mapVars, handlerVars, table,
        restoreVars,
        restoreWork, closeVars, DockerLabels, HandlerLabels, NoManager
<1>1. ASSUME NEW e \in Endpoints, CreateEndpoint(e)
      PROVE  Inv'
  <2>1. PICK next \in {"created", "deleted"} :
          docker' = [docker EXCEPT ![e] = next]
    BY <1>1 DEF CreateEndpoint
  <2>2. PICK place \in {"none", "host", "sandbox", "gone"} :
          link' = [link EXCEPT ![e] = place]
    BY <1>1 DEF CreateEndpoint
  <2>3. joinHints' \in SUBSET Endpoints /\ docker[e] = "new"
    BY <1>1 DEF CreateEndpoint
  <2>4. UNCHANGED <<handlerVars, table, persistentDHCP,
                    manager, joiner, restoreVars, closeVars, restarts>>
    BY <1>1 DEF CreateEndpoint, DockerStep
  <2>5. TypeOK'
    BY <2>1, <2>2, <2>3, <2>4
  <2>6. HandlerInv' /\ JoinerInv'
    BY <2>1, <2>3, <2>4
  <2> QED
    BY <2>4, <2>5, <2>6
<1>2. ASSUME NEW e \in Endpoints, SendJoin(e)
      PROVE  Inv'
  BY <1>2 DEF DockerStep, SendJoin, Request
<1>3. ASSUME NEW e \in Endpoints, SendLeave(e)
      PROVE  Inv'
  BY <1>3 DEF DockerStep, SendLeave, Request
<1>4. ASSUME NEW e \in Endpoints, SendDelete(e)
      PROVE  Inv'
  BY <1>4 DEF DockerStep, SendDelete, Request
<1>5. ASSUME NEW e \in Endpoints, GiveUp(e)
      PROVE  Inv'
  <2>1. PICK next \in {"failed", "left", "deleted"} :
          docker' = [docker EXCEPT ![e] = next]
    BY <1>5 DEF GiveUp
  <2>2. handler[e] = "idle" /\ UNCHANGED <<joinHints, handlerVars, link>>
    BY <1>5 DEF GiveUp
  <2>3. UNCHANGED <<table, persistentDHCP, manager,
                    joiner, restoreVars, closeVars, restarts>>
    BY DEF DockerStep
  <2>4. TypeOK'
    BY <2>1, <2>2, <2>3
  <2>5. HandlerInv' /\ JoinerInv'
    BY <2>1, <2>2, <2>3
  <2> QED
    BY <2>2, <2>3, <2>4, <2>5
<1>6. ASSUME NEW e \in Endpoints, MoveLink(e) \/ TearDown(e)
      PROVE  Inv'
  <2>1. /\ UNCHANGED <<joinHints, handlerVars, docker>>
        /\ link' \in [Endpoints -> {"none", "host", "sandbox", "gone"}]
    BY <1>6 DEF MoveLink, TearDown
  <2>2. UNCHANGED <<table, persistentDHCP, manager, joiner, restoreVars, closeVars, restarts>>
    BY DEF DockerStep
  <2> QED
    BY <2>1, <2>2
<1> HIDE DEF Inv
<1> QED
  BY <1>1, <1>2, <1>3, <1>4, <1>5, <1>6 DEF DockerStep

(* A new process starts from nothing but the table.                        *)
LEMMA StartsInv ==
    ASSUME Inv, PluginRestarts \/ HostReboots, TableTypeOK'
    PROVE  Inv'
<1>1. /\ docker' \in [Endpoints -> DockerLabels]
      /\ link' \in [Endpoints -> {"none", "host", "sandbox", "gone"}]
  BY DEF Inv, TypeOK, PluginRestarts, HostReboots, dockerVars, DockerLabels
<1>2. ProcessStarts
  BY DEF PluginRestarts, HostReboots
<1>3. TypeOK'
  <2>1. restarts' \in 0 .. MaxRestarts /\ attempt' \in 0 .. MaxRetries
    BY <1>2 DEF Inv, TypeOK, ProcessStarts
  <2>2. manager' \in [Endpoints -> [Kinds -> ManagerLabels]]
    BY <1>2 DEF ProcessStarts, NothingStarted, ManagerLabels
  <2>3. /\ handler' \in [Endpoints -> HandlerLabels]
        /\ joiner' \in [Endpoints -> JoinerLabels]
    BY <1>2 DEF ProcessStarts, AllIdle, HandlerLabels, JoinerLabels
  <2>4. /\ persistentDHCP' \in [Endpoints -> Kinds \cup {NoManager}]
        /\ taken' \in [Endpoints -> Kinds \cup {NoManager}]
    BY <1>2 DEF ProcessStarts, NoManagers
  <2> QED
    BY <1>1, <1>2, <2>1, <2>2, <2>3, <2>4 DEF ProcessStarts, TypeOK,
       RestorerLabels, CloserLabels
<1>4. HandlerInv' /\ JoinerInv'
  BY <1>2 DEF ProcessStarts, HandlerInv, HandlerOK, JoinerInv, NoManagers,
     AllIdle, NoManager
<1>5. HeldInv' /\ RestorerInv' /\ RunInv'
  BY <1>2 DEF ProcessStarts, HeldInv, RestorerInv, RunInv, Held, InMap,
     WithLeave, NoManagers, AllIdle, NoManager, Kinds
<1> QED
  BY <1>3, <1>4, <1>5 DEF Inv
-----------------------------------------------------------------------------
(* Every step that touches the table is an operation of StateTable.        *)

(* A mark is set or taken back without a change to the table.              *)
LEMMA MarkType ==
    ASSUME TableTypeOK, leftEndpoints' \in SUBSET Endpoints,
           UNCHANGED <<state, snapshot, file>>
    PROVE  TableTypeOK'
BY DEF TableTypeOK

(* The table keeps its type in the steps of the request handlers.          *)
LEMMA HandlerTableType ==
    ASSUME TableTypeOK, NEW e \in Endpoints, HandlerStep(e)
    PROVE  TableTypeOK'
<1>1. CASE JoinPersists(e)
  BY <1>1, ThreadsExist, AddStateEntryType DEF JoinPersists
<1>2. CASE JoinSpawns(e) \/ Forgotten(e)
  BY <1>2, ThreadsExist, SaveEndsType DEF JoinSpawns, Forgotten
<1>3. CASE Forget(e)
  BY <1>3, ThreadsExist, RemoveStateEntryType DEF Forget
<1>4. CASE LeaveMarks(e)
  BY <1>4, MarkType DEF LeaveMarks, MarkLeft, TableTypeOK
<1>5. CASE UNCHANGED table
  BY <1>5 DEF table, TableTypeOK
<1> QED
  BY <1>1, <1>2, <1>3, <1>4, <1>5 DEF HandlerStep, JoinRefused, JoinTakesHint,
     JoinFails, LeaveTakesManager, LeaveStops, LeaveStopped, DeleteLink, Reply

(* The table keeps its type in the steps of the Join goroutine.            *)
LEMMA JoinerTableType ==
    ASSUME TableTypeOK, NEW e \in Endpoints, JoinerStep(e)
    PROVE  TableTypeOK'
<1>1. CASE JoinerFindsLeft(e)
  BY <1>1, MarkType DEF JoinerFindsLeft, TableTypeOK
<1>2. CASE JoinerUpdates(e)
  BY <1>2, ThreadsExist, UpdateStateEntryType DEF JoinerUpdates
<1>3. CASE JoinerSaved(e)
  BY <1>3, ThreadsExist, SaveEndsType DEF JoinerSaved
<1>4. CASE UNCHANGED table
  BY <1>4 DEF table, TableTypeOK
<1> QED
  BY <1>1, <1>2, <1>3, <1>4 DEF JoinerStep, JoinerSeesLink, JoinerStartFails, JoinerStarts, JoinerRegisters,
     JoinerStops, JoinerStopped, JoinerReturns

(* The table keeps its type in the steps of Restore.                       *)
LEMMA RestoreTableType ==
    ASSUME TableTypeOK, RestoreStep
    PROVE  TableTypeOK'
<1>1. ASSUME NEW e \in Endpoints, RestoreFindsLeft(e)
      PROVE  TableTypeOK'
  BY <1>1, MarkType DEF RestoreFindsLeft, TableTypeOK
<1>2. ASSUME NEW e \in Endpoints, RestoreDrops(e)
      PROVE  TableTypeOK'
  BY <1>2, ThreadsExist, RemoveStateEntryType DEF RestoreDrops
<1>3. CASE UNCHANGED table
  BY <1>3 DEF table, TableTypeOK
<1>4. CASE RestoreDropped
  <2>1. Restorer \in Threads
    BY DEF Threads
  <2> QED
    BY <1>3, <1>4, <2>1, SaveEndsType DEF RestoreDropped
<1> QED
  BY <1>1, <1>2, <1>3, <1>4 DEF RestoreStep, RestoreCopies, RestorePicks,
     RestoreEnds, RestoreAttemptFails, RestoreRetries, RestoreIsCancelled,
     RestoreFindsManager, RestoreFindsNone, RestoreStarts, RestoreRegisters,
     RestoreFindsJoin, RestoreStops, RestoreStopped

(* The table keeps its type in every step.                                 *)
LEMMA TableType ==
    ASSUME TableTypeOK, [Next]_vars
    PROVE  TableTypeOK'
<1>1. CASE PluginRestarts \/ HostReboots
  BY <1>1, ReloadType DEF PluginRestarts, HostReboots
<1>2. CASE UNCHANGED table
  BY <1>2 DEF table, TableTypeOK
<1>3. CASE DockerStep
  BY <1>2, <1>3 DEF DockerStep
<1>4. CASE PluginStep
  <2>1. ASSUME NEW e \in Endpoints, LoopStep(e)
        PROVE  UNCHANGED table
    BY <2>1 DEF LoopStep, LoopExits, LoopGivesUp, LoopFrame
  <2>2. CASE RestoreTimesOut \/ CloseCancelsRestore \/ CloseStep
    BY <1>2, <2>2 DEF RestoreTimesOut, CloseCancelsRestore, CloseStep
  <2> QED
    BY <1>2, <1>4, <2>1, <2>2, HandlerTableType, JoinerTableType,
       RestoreTableType DEF PluginStep
<1>5. CASE UNCHANGED vars
  BY <1>2, <1>5 DEF vars
<1> QED
  BY <1>1, <1>3, <1>4, <1>5 DEF Next
-----------------------------------------------------------------------------
(* The invariant holds when the plugin is first started, and once its      *)
(* first Restore is over.                                                  *)
LEMMA InitInv == Init \/ RunningInit => Inv
<1> SUFFICES ASSUME Init \/ RunningInit
             PROVE  Inv
  OBVIOUS
<1> USE DEF Init, RunningInit, StartsWith, NoManagers, AllIdle, NoManager, Kinds
<1>1. TableTypeOK
  BY DEF TableInit, TableTypeOK, EmptyTable, Table
<1>2. TypeOK
  <2>1. manager \in [Endpoints -> [Kinds -> ManagerLabels]]
    BY DEF NothingStarted, ManagerLabels
  <2>2. restarts \in 0 .. MaxRestarts /\ attempt \in 0 .. MaxRetries
    OBVIOUS
  <2> QED
    BY <1>1, <2>1, <2>2 DEF TypeOK, HandlerLabels, JoinerLabels, RestorerLabels,
       CloserLabels, DockerLabels
<1>3. HandlerInv /\ JoinerInv
  BY DEF HandlerInv, HandlerOK, JoinerInv
<1>4. HeldInv /\ RestorerInv /\ RunInv
  BY DEF HeldInv, RestorerInv, RunInv, Held, InMap, WithLeave
<1> QED
  BY <1>2, <1>3, <1>4 DEF Inv

(* Every step preserves the invariant.                                     *)
LEMMA NextInv ==
    ASSUME Inv, [Next]_vars
    PROVE  Inv'
<1>1. TableTypeOK'
  BY TableType DEF Inv, TypeOK
<1>2. CASE PluginStep
  BY <1>1, <1>2, HandlerStepInv, JoinerStepInv, LoopStepInv, RestoreStepInv,
     ContextInv, CloseStepInv DEF PluginStep
<1>3. CASE DockerStep
  BY <1>1, <1>3, DockerStepInv
<1>4. CASE PluginRestarts \/ HostReboots
  BY <1>1, <1>4, StartsInv
<1>5. CASE UNCHANGED vars
  BY <1>1, <1>5 DEF vars, Inv, TypeOK, HandlerInv, HandlerOK, JoinerInv,
     HeldInv,
     RestorerInv, RunInv, Held, InMap, WithLeave, mapVars, dockerVars, table,
     restoreVars, restoreWork, closeVars, handlerVars
<1> QED
  BY <1>2, <1>3, <1>4, <1>5 DEF Next

(* The invariant holds for any number of endpoints, retries and restarts.  *)
THEOREM InvIsInvariant == Spec \/ RunningSpec => []Inv
BY InitInv, NextInv, PTL DEF Spec, RunningSpec

(* Every variable of the plugin and of its environment keeps its type.     *)
THEOREM TypeCorrect == Spec => []TypeOK
<1>1. Inv => TypeOK
  BY DEF Inv
<1> QED
  BY <1>1, InvIsInvariant, PTL

(* A registered manager has not been told to stop, unless the plugin is    *)
(* shutting down (network.go:791, plugin.go:560).                          *)
THEOREM RegisteredManagersRun == Spec => []HeldManagersRun
<1>1. Inv => HeldManagersRun
  BY DEF Inv, RunInv, HeldManagersRun, InMap, Kinds
<1> QED
  BY <1>1, InvIsInvariant, PTL

(* The mark of a left endpoint lives as long as the Leave that set it, so  *)
(* leftEndpoints cannot grow (plugin.go:266-267, 275-277).                 *)
THEOREM MarksStayBounded == Spec \/ RunningSpec => []MarksAreBounded
<1>1. Init \/ RunningInit => MarksAreBounded
  BY DEF Init, RunningInit, StartsWith, TableInit, MarksAreBounded
<1>2. ASSUME Inv, MarksAreBounded, [Next]_vars
      PROVE  MarksAreBounded'
  <2> USE DEF MarksAreBounded
  <2>1. /\ handler \in [Endpoints -> HandlerLabels]
        /\ docker \in [Endpoints -> DockerLabels]
        /\ leftEndpoints \in SUBSET Endpoints
    BY <1>2 DEF Inv, TypeOK, TableTypeOK
  <2>2. CASE /\ leftEndpoints' \subseteq leftEndpoints
             /\ UNCHANGED <<handler, docker>>
    BY <1>2, <2>2
  <2>3. ASSUME NEW e \in Endpoints, HandlerStep(e)
        PROVE  MarksAreBounded'
    <3> USE DEF HandlerLabels, At, table, dockerVars
    <3>1. CASE LeaveMarks(e)
      BY <1>2, <2>1, <3>1 DEF LeaveMarks, MarkLeft, Inv, HandlerInv, HandlerOK
    <3>2. CASE Forget(e)
      BY <1>2, <2>1, <3>2 DEF Forget, RemoveStateEntry
    <3>3. CASE /\ handler[e] # "forget"
               /\ \A f \in Endpoints \ {e} : UNCHANGED <<handler[f], docker[f]>>
               /\ UNCHANGED leftEndpoints
      BY <1>2, <2>1, <3>3
    <3>4. CASE JoinPersists(e) \/ JoinSpawns(e) \/ Forgotten(e)
      BY <2>1, <3>3, <3>4 DEF JoinPersists, AddStateEntry, JoinSpawns,
         Forgotten,
         SaveEnds, SaveState, SaveStateFails
    <3>5. CASE Reply(e)
      BY <2>1, <3>3, <3>5 DEF Reply
    <3> QED
      BY <2>1, <2>3, <3>1, <3>2, <3>3, <3>4, <3>5 DEF HandlerStep, JoinRefused,
         JoinTakesHint, JoinFails, LeaveTakesManager, LeaveStops, LeaveStopped,
         DeleteLink
  <2>4. ASSUME NEW e \in Endpoints, JoinerStep(e)
        PROVE  MarksAreBounded'
    BY <2>2, <2>4 DEF JoinerStep, handlerVars, dockerVars, table,
       JoinerSeesLink, JoinerStartFails, JoinerStarts,
       JoinerRegisters, JoinerFindsLeft, JoinerStops, JoinerStopped,
       JoinerUpdates, UpdateStateEntry, JoinerSaved, SaveEnds, SaveState,
       SaveStateFails, JoinerReturns
  <2>5. CASE RestoreStep
    BY <2>2, <2>5 DEF RestoreStep, handlerVars, dockerVars, table,
       RestoreCopies,
       RestorePicks, RestoreEnds, RestoreAttemptFails, RestoreRetries,
       RestoreIsCancelled, RestoreDropped, SaveEnds, SaveState, SaveStateFails,
       RestoreFindsManager, RestoreFindsNone, RestoreStarts, RestoreRegisters,
       RestoreFindsJoin, RestoreFindsLeft, RestoreStops, RestoreStopped,
       RestoreDrops, RemoveStateEntry
  <2>6. ASSUME NEW e \in Endpoints, LoopStep(e)
        PROVE  MarksAreBounded'
    BY <2>2, <2>6 DEF LoopStep, LoopExits, LoopGivesUp, LoopFrame, table,
       handlerVars, dockerVars
  <2>7. CASE RestoreTimesOut \/ CloseCancelsRestore \/ CloseStep
    BY <2>2, <2>7 DEF RestoreTimesOut, CloseCancelsRestore, CloseStep, table,
       handlerVars, dockerVars
  <2>8. CASE DockerStep
    <3>1. PICK e \in Endpoints :
            \/ CreateEndpoint(e) \/ SendJoin(e) \/ SendLeave(e)
            \/ SendDelete(e) \/ GiveUp(e) \/ MoveLink(e) \/ TearDown(e)
      BY <2>8 DEF DockerStep
    <3>2. CASE UNCHANGED <<handler, docker>>
      BY <2>2, <2>8, <3>2 DEF DockerStep, table
    <3>3. CASE /\ handler[e] = "idle"
               /\ \A f \in Endpoints \ {e} : UNCHANGED <<handler[f], docker[f]>>
      BY <1>2, <2>1, <2>8, <3>3 DEF DockerStep, table
    <3>4. CASE CreateEndpoint(e)
      BY <1>2, <2>1, <3>3, <3>4 DEF CreateEndpoint, handlerVars, Inv, JoinerInv
    <3> QED
      BY <2>1, <3>1, <3>2, <3>3, <3>4 DEF SendJoin, SendLeave, SendDelete,
         Request, GiveUp, MoveLink, TearDown, handlerVars
  <2>9. CASE PluginRestarts \/ HostReboots
    BY <2>9 DEF PluginRestarts, HostReboots, Restart, RestartUnread, Reload
  <2>10. CASE UNCHANGED vars
    BY <2>2, <2>10 DEF vars, table, handlerVars, dockerVars
  <2> QED
    BY <1>2, <2>3, <2>4, <2>5, <2>6, <2>7, <2>8, <2>9, <2>10 DEF Next,
       PluginStep
<1> QED
  BY <1>1, <1>2, InvIsInvariant, PTL DEF Spec, RunningSpec
-----------------------------------------------------------------------------
(* Who holds a manager                                                     *)

(* Restore takes no step once it is complete.                              *)
LEMMA CompleteIsLast ==
    ASSUME restorer = "complete"
    PROVE  ~RestoreStep
BY DEF RestoreStep, RestoreCopies, RestorePicks, RestoreEnds, RestoreAttemptFails,
   RestoreRetries, RestoreIsCancelled, RestoreDropped, RestoreFindsManager, RestoreFindsNone,
   RestoreStarts, RestoreRegisters, RestoreFindsJoin, RestoreFindsLeft, RestoreStops,
   RestoreStopped, RestoreDrops, RestorerAt, RestoreDone

(* Close has managers only after Restore, and a Join goroutine whose       *)
(* manager it has is past its registration.                                *)
ClosingInv ==
  /\ toStop \cup closing # {} => restorer = "complete"
  /\ \A e \in Endpoints : WithClose(e, "joined")
       => joiner[e] \in {"registered", "saving", "returning", "done"}

(* A step that leaves Close's managers where they are.                     *)
LEMMA ClosingFrame ==
    ASSUME ClosingInv, UNCHANGED <<toStop, closing>>,
           restorer = "complete" => restorer' = "complete",
           \A e \in Endpoints :
             joiner[e] \in {"registered", "saving", "returning", "done"}
               => joiner'[e] \in {"registered", "saving", "returning", "done"}
    PROVE  ClosingInv'
BY DEF ClosingInv, WithClose

(* Close copies what is in the map, whose Joins are past registration.     *)
LEMMA NextClosing ==
    ASSUME Inv, ClosingInv, [Next]_vars
    PROVE  ClosingInv'
<1>1. joiner \in [Endpoints -> JoinerLabels]
  BY DEF Inv, TypeOK
<1>2. ASSUME NEW e \in Endpoints, HandlerStep(e)
      PROVE  ClosingInv'
  <2>1. UNCHANGED <<toStop, closing, restorer>>
    BY <1>2 DEF HandlerStep, restoreVars, closeVars
  <2>2. CASE UNCHANGED joiner
    BY <2>1, <2>2, ClosingFrame
  <2>3. CASE JoinSpawns(e)
    <3>1. joiner[e] = "idle"
      BY <2>3 DEF JoinSpawns, At, Inv, HandlerInv, HandlerOK, JoinerInv
    <3> QED
      BY <1>1, <2>1, <2>3, <3>1, ClosingFrame DEF JoinSpawns
  <2> QED
    BY <1>2, <2>2, <2>3 DEF HandlerStep, JoinRefused, JoinTakesHint, JoinFails, JoinPersists,
       LeaveTakesManager, LeaveMarks, LeaveStops, LeaveStopped, DeleteLink, Forget, Forgotten,
       Reply
<1>3. ASSUME NEW e \in Endpoints, JoinerStep(e)
      PROVE  ClosingInv'
  <2>1. UNCHANGED <<toStop, closing, restorer>>
    BY <1>3 DEF JoinerStep, restoreVars, closeVars
  <2> QED
    BY <1>1, <1>3, <2>1, ClosingFrame DEF JoinerStep, JoinerAt, JoinerSeesLink,
       JoinerStartFails, JoinerStarts, JoinerRegisters, JoinerFindsLeft, JoinerStops,
       JoinerStopped, JoinerUpdates, JoinerSaved, JoinerReturns
<1>4. CASE RestoreStep
  BY <1>4, CompleteIsLast, ClosingFrame DEF RestoreStep, closeVars
<1>5. ASSUME NEW e \in Endpoints, LoopStep(e)
      PROVE  ClosingInv'
  BY <1>5, ClosingFrame DEF LoopStep, LoopExits, LoopGivesUp, LoopFrame, closeVars, restoreVars
<1>6. CASE RestoreTimesOut \/ CloseCancelsRestore \/ DockerStep \/ UNCHANGED vars
  BY <1>6, ClosingFrame DEF RestoreTimesOut, CloseCancelsRestore, DockerStep, vars, closeVars,
     restoreVars
<1>7. CASE CloseStep
  <2>1. UNCHANGED <<joiner, restorer>>
    BY <1>7 DEF CloseStep, restoreVars
  <2>2. CASE CloseCopies
    BY <2>1, <2>2 DEF CloseCopies, ClosingInv, WithClose, Inv, HeldInv, Held, InMap
  <2>3. ASSUME NEW m \in Endpoints \X Kinds, CloseStops(m) \/ CloseStopped(m)
        PROVE  ClosingInv'
    BY <2>1, <2>3 DEF CloseStops, CloseStopped, ClosingInv, WithClose
  <2> QED
    BY <1>7, <2>1, <2>2, <2>3, ClosingFrame DEF CloseStep, CloseExits
<1>8. CASE PluginRestarts \/ HostReboots
  BY <1>8 DEF PluginRestarts, HostReboots, ProcessStarts, ClosingInv, WithClose
<1> QED
  BY <1>2, <1>3, <1>4, <1>5, <1>6, <1>7, <1>8 DEF Next, PluginStep

(* No manager is held by two of the map, a Leave and the goroutine that    *)
(* made it, and Close shares none with that goroutine: a manager that was  *)
(* never registered has one receiver for its errChan value, and no two     *)
(* Leaves wait for the same one (network.go:831-838).                      *)
THEOREM ManagersHaveOneHolder == Spec => []OneHolder
<1>1. Init => ClosingInv
  BY DEF Init, StartsWith, ClosingInv, WithClose
<1>2. Inv /\ ClosingInv => OneHolder
  BY DEF Inv, HeldInv, Held, ClosingInv, OneHolder, InMap, WithLeave, WithMaker, WithClose,
         Kinds, NoManager
<1> QED
  BY <1>1, <1>2, NextClosing, InvIsInvariant, PTL DEF Spec
-----------------------------------------------------------------------------
(* No manager is lost                                                      *)

(* Past the start of its manager, a Join goroutine has one.                *)
MadeInv ==
  \A e \in Endpoints :
    joiner[e] \in {"started", "registered", "saving", "stop", "stopping"}
      => manager[e]["joined"] # "none"

ReachInv == Inv /\ MadeInv /\ NoOrphanManager

(* A step that starts no manager and takes none out of a holder's hands.   *)
LEMMA NothingLost ==
    ASSUME ReachInv,
           \A e \in Endpoints, k \in Kinds :
              /\ Live(e, k)' => Live(e, k)
              /\ manager[e][k] # "none" => manager'[e][k] # "none",
           UNCHANGED <<persistentDHCP, taken, joiner, restorer, current>>
    PROVE  MadeInv' /\ NoOrphanManager'
BY DEF ReachInv, MadeInv, NoOrphanManager, InMap, WithLeave, WithMaker, Superseded, Kinds

(* Of the request handlers only Leave moves a manager.                     *)
LEMMA HandlerReach ==
    ASSUME ReachInv, NEW e \in Endpoints, HandlerStep(e)
    PROVE  MadeInv' /\ NoOrphanManager'
<1> USE DEF ReachInv, MadeInv, NoOrphanManager, Live, InMap, WithLeave, WithMaker,
        Superseded, At, mapVars, restoreVars, restoreWork, Kinds, NoManager
<1>1. /\ manager \in [Endpoints -> [Kinds -> ManagerLabels]]
      /\ taken \in [Endpoints -> Kinds \cup {NoManager}]
      /\ persistentDHCP \in [Endpoints -> Kinds \cup {NoManager}]
      /\ joiner \in [Endpoints -> JoinerLabels]
  BY DEF Inv, TypeOK
<1>2. CASE LeaveTakesManager(e)
  BY <1>1, <1>2 DEF HandlerStep, LeaveTakesManager, Inv, HandlerInv, HandlerOK
<1>3. CASE LeaveStops(e)
  BY <1>1, <1>3 DEF HandlerStep, LeaveStops, CloseStopChan
<1>4. CASE LeaveStopped(e)
  BY <1>1, <1>4 DEF HandlerStep, LeaveStopped, ReceiveErrChan
<1>5. CASE JoinSpawns(e)
  BY <1>1, <1>5 DEF HandlerStep, JoinSpawns, Inv, JoinerInv, HandlerInv, HandlerOK
<1>6. CASE UNCHANGED <<manager, persistentDHCP, taken, joiner>>
  BY <1>6, NothingLost DEF HandlerStep
<1> QED
  BY <1>2, <1>3, <1>4, <1>5, <1>6 DEF HandlerStep, JoinRefused, JoinTakesHint, JoinFails,
     JoinPersists, LeaveMarks, DeleteLink, Forget, Forgotten, Reply

(* The Join goroutine registers or stops what it started.                  *)
LEMMA JoinerReach ==
    ASSUME ReachInv, NEW e \in Endpoints, JoinerStep(e)
    PROVE  MadeInv' /\ NoOrphanManager'
<1> USE DEF ReachInv, MadeInv, NoOrphanManager, Live, InMap, WithLeave, WithMaker,
        Superseded, JoinerAt, mapVars, handlerVars, restoreVars, restoreWork, Kinds, NoManager
<1>1. /\ manager \in [Endpoints -> [Kinds -> ManagerLabels]]
      /\ persistentDHCP \in [Endpoints -> Kinds \cup {NoManager}]
      /\ joiner \in [Endpoints -> JoinerLabels]
  BY DEF Inv, TypeOK
<1>2. CASE JoinerStarts(e)
  BY <1>1, <1>2 DEF JoinerStep, JoinerStarts, StartManager
<1>3. CASE JoinerRegisters(e)
  BY <1>1, <1>3 DEF JoinerStep, JoinerRegisters, Inv, HeldInv, Held
<1>4. CASE JoinerStops(e)
  BY <1>1, <1>4 DEF JoinerStep, JoinerStops, CloseStopChan
<1>5. CASE JoinerStopped(e)
  BY <1>1, <1>5 DEF JoinerStep, JoinerStopped, ReceiveErrChan
<1>6. CASE JoinerFindsLeft(e)
  BY <1>1, <1>6 DEF JoinerStep, JoinerFindsLeft
<1>7. CASE JoinerSeesLink(e) \/ JoinerStartFails(e)
  BY <1>1, <1>7 DEF JoinerStep, JoinerSeesLink, JoinerStartFails
<1>8. CASE JoinerUpdates(e) \/ JoinerSaved(e) \/ JoinerReturns(e)
  BY <1>1, <1>8 DEF JoinerStep, JoinerUpdates, JoinerSaved, JoinerReturns
<1> HIDE DEF ReachInv, MadeInv, NoOrphanManager
<1> QED
  BY <1>2, <1>3, <1>4, <1>5, <1>6, <1>7, <1>8 DEF JoinerStep

(* So does Restore.                                                        *)
LEMMA RestoreReach ==
    ASSUME ReachInv, RestoreStep
    PROVE  MadeInv' /\ NoOrphanManager'
<1> USE DEF ReachInv, MadeInv, NoOrphanManager, Live, InMap, WithLeave, WithMaker,
        Superseded, RestorerAt, RestoreDone, mapVars, handlerVars, restoreWork, Kinds, NoManager
<1>1. /\ manager \in [Endpoints -> [Kinds -> ManagerLabels]]
      /\ persistentDHCP \in [Endpoints -> Kinds \cup {NoManager}]
      /\ \A e, f \in current : e = f
      /\ restorer \in {"sleeping", "next"} => current = {}
  BY DEF Inv, TypeOK, RestorerInv
<1>2. ASSUME NEW e \in Endpoints, RestoreStarts(e)
      PROVE  MadeInv' /\ NoOrphanManager'
  BY <1>1, <1>2 DEF RestoreStep, RestoreStarts, StartManager
<1>3. ASSUME NEW e \in Endpoints, RestoreRegisters(e)
      PROVE  MadeInv' /\ NoOrphanManager'
  BY <1>1, <1>3 DEF RestoreStep, RestoreRegisters
<1>4. ASSUME NEW e \in Endpoints, RestoreStops(e)
      PROVE  MadeInv' /\ NoOrphanManager'
  BY <1>1, <1>4 DEF RestoreStep, RestoreStops, CloseStopChan
<1>5. ASSUME NEW e \in Endpoints, RestoreStopped(e)
      PROVE  MadeInv' /\ NoOrphanManager'
  BY <1>1, <1>5 DEF RestoreStep, RestoreStopped, ReceiveErrChan
<1>6. ASSUME NEW e \in Endpoints, RestoreFindsJoin(e) \/ RestoreFindsLeft(e)
      PROVE  MadeInv' /\ NoOrphanManager'
  BY <1>1, <1>6 DEF RestoreStep, RestoreFindsJoin, RestoreFindsLeft
<1>7. CASE /\ UNCHANGED <<manager, persistentDHCP, taken, joiner>>
           /\ restorer \notin {"started", "discard", "discarding", "left", "leaving"}
  BY <1>7
<1> QED
  BY <1>2, <1>3, <1>4, <1>5, <1>6, <1>7 DEF RestoreStep, RestoreCopies, RestorePicks,
     RestoreEnds, RestoreAttemptFails, RestoreRetries, RestoreIsCancelled, RestoreDropped,
     RestoreFindsManager, RestoreFindsNone, RestoreDrops

(* Close keeps what it stops in the map.                                   *)
LEMMA CloseReach ==
    ASSUME ReachInv, CloseStep
    PROVE  MadeInv' /\ NoOrphanManager'
<1> USE DEF Live, Kinds, ReachInv, mapVars, handlerVars, restoreVars, restoreWork
<1>1. manager \in [Endpoints -> [Kinds -> ManagerLabels]]
  BY DEF Inv, TypeOK
<1>2. UNCHANGED <<persistentDHCP, taken, joiner, restorer, current>>
  BY DEF CloseStep
<1>3. ASSUME NEW m \in Endpoints \X Kinds, CloseStops(m) \/ CloseStopped(m)
      PROVE  \A e \in Endpoints, k \in Kinds :
               /\ Live(e, k)' => Live(e, k)
               /\ manager[e][k] # "none" => manager'[e][k] # "none"
  BY <1>1, <1>3 DEF CloseStops, CloseStopped, CloseStopChan, ReceiveErrChan
<1>4. CASE UNCHANGED manager
  BY <1>2, <1>4, NothingLost
<1> QED
  BY <1>2, <1>3, <1>4, NothingLost DEF CloseStep, CloseCopies, CloseExits

(* No step loses a manager.                                                *)
LEMMA NextReach ==
    ASSUME ReachInv, [Next]_vars
    PROVE  ReachInv'
<1> SUFFICES MadeInv' /\ NoOrphanManager'
  BY NextInv DEF ReachInv
<1>1. CASE UNCHANGED <<manager, persistentDHCP, taken, joiner, restorer, current>>
  BY <1>1, NothingLost DEF Live
<1>2. ASSUME NEW e \in Endpoints, LoopStep(e)
      PROVE  MadeInv' /\ NoOrphanManager'
  <2>1. manager \in [Endpoints -> [Kinds -> ManagerLabels]]
    BY DEF ReachInv, Inv, TypeOK
  <2> QED
    BY <1>2, <2>1, NothingLost DEF LoopStep, LoopExits, LoopGivesUp, LoopFrame, Live, Kinds,
       mapVars, handlerVars, restoreVars, restoreWork
<1>3. CASE PluginRestarts \/ HostReboots
  <2>1. NothingStarted' = NothingStarted
    BY DEF NothingStarted
  <2> QED
    BY <1>3 DEF PluginRestarts, HostReboots, ProcessStarts, NothingStarted, AllIdle,
       MadeInv, NoOrphanManager, Live, Kinds
<1>4. CASE RestoreTimesOut \/ CloseCancelsRestore \/ DockerStep \/ UNCHANGED vars
  <2>1. CASE DockerStep
    BY <2>1, <1>1 DEF DockerStep, restoreVars, restoreWork, CreateEndpoint, SendJoin, SendLeave,
       SendDelete, Request, GiveUp, MoveLink, TearDown, handlerVars
  <2> QED
    BY <1>1, <1>4, <2>1 DEF RestoreTimesOut, CloseCancelsRestore, vars, mapVars, handlerVars,
       restoreVars, restoreWork
<1> QED
  BY <1>2, <1>3, <1>4, HandlerReach, JoinerReach, RestoreReach, CloseReach DEF Next, PluginStep

(* A manager that runs can always be stopped, except for one of Restore    *)
(* that a Join has taken the place of (network.go:791).                    *)
THEOREM ManagersAreReachable == Spec \/ RunningSpec => []NoOrphanManager
<1>1. Init \/ RunningInit => ReachInv
  BY InitInv DEF Init, RunningInit, StartsWith, NothingStarted, AllIdle, ReachInv, MadeInv,
     NoOrphanManager, Live, Kinds
<1> QED
  BY <1>1, NextReach, PTL DEF Spec, RunningSpec, ReachInv
-----------------------------------------------------------------------------
(* The record of an endpoint whose Join has been answered                  *)

RecordedInv ==
  /\ Inv
  /\ restorer = "complete" /\ restarts = 0
  /\ \A e \in Endpoints :
       \/ docker[e] = "joined"
       \/ docker[e] = "joining" /\ handler[e] \in {"joinSaving", "replyOK"}
       => state[e] # Absent

(* Without a Restore only Leave and DeleteEndpoint remove a record.        *)
LEMMA NextRecorded ==
    ASSUME MaxRestarts = 0, RecordedInv, [Next]_vars
    PROVE  RecordedInv'
<1> DEFINE Kept == \A e \in Endpoints :
             \/ docker[e] = "joined"
             \/ docker[e] = "joining" /\ handler[e] \in {"joinSaving", "replyOK"}
             => state[e] # Absent
<1> SUFFICES restorer' = "complete" /\ restarts' = 0 /\ Kept'
  BY NextInv DEF RecordedInv
<1>1. /\ state \in Table
      /\ handler \in [Endpoints -> HandlerLabels]
      /\ docker \in [Endpoints -> DockerLabels]
      /\ Kept /\ restorer = "complete" /\ restarts = 0
  BY DEF RecordedInv, Inv, TypeOK, TableTypeOK
<1>2. state \in [Endpoints -> {Absent, "unnamed", "named"}]
  BY <1>1 DEF Table, Records
<1>3. CASE UNCHANGED <<state, docker, handler, restorer, restarts>>
  BY <1>1, <1>3
<1>4. ASSUME NEW e \in Endpoints, HandlerStep(e)
      PROVE  restorer' = "complete" /\ restarts' = 0 /\ Kept'
  <2> USE DEF At, HandlerStep, restoreVars, dockerVars, table
  <2>1. CASE JoinPersists(e)
    BY <1>1, <1>2, <1>4, <2>1 DEF JoinPersists, AddStateEntry, ChangeAndCopy, Absent
  <2>2. CASE JoinSpawns(e)
    BY <1>1, <1>2, <1>4, <2>2 DEF JoinSpawns, SaveEnds, SaveState, SaveStateFails
  <2>3. CASE Forget(e)
    <3>1. docker[e] \in {"leaving", "deleting"} /\ handler[e] = "forget"
      BY <2>3 DEF Forget, RecordedInv, Inv, HandlerInv, HandlerOK
    <3>2. \A f \in Endpoints \ {e} : state'[f] = state[f] /\ handler'[f] = handler[f]
      BY <1>1, <1>2, <2>3 DEF Forget, RemoveStateEntry, ChangeAndCopy
    <3>3. UNCHANGED <<docker, restorer, restarts>>
      BY <1>4, <2>3 DEF Forget
    <3> QED
      BY <1>1, <3>1, <3>2, <3>3
  <2>4. CASE Forgotten(e)
    BY <1>1, <1>2, <1>4, <2>4 DEF Forgotten, SaveEnds, SaveState, SaveStateFails, RecordedInv,
       Inv, HandlerInv, HandlerOK
  <2>5. CASE Reply(e)
    <3>1. docker'[e] = "joined" => docker[e] = "joining" /\ handler[e] = "replyOK"
      BY <1>1, <2>5 DEF Reply, Answered, RecordedInv, Inv, HandlerInv, HandlerOK
    <3>2. \A f \in Endpoints \ {e} : docker'[f] = docker[f] /\ handler'[f] = handler[f]
      BY <1>1, <2>5 DEF Reply
    <3>3. handler'[e] = "idle" /\ UNCHANGED <<state, restorer, restarts>>
      BY <1>1, <1>4, <2>5 DEF Reply
    <3> QED
      BY <1>1, <3>1, <3>2, <3>3
  <2>6. CASE LeaveMarks(e) \/ DeleteLink(e)
    BY <1>1, <1>2, <1>4, <2>6 DEF LeaveMarks, MarkLeft, DeleteLink
  <2>7. CASE \/ JoinRefused(e) \/ JoinTakesHint(e) \/ JoinFails(e)
             \/ LeaveTakesManager(e) \/ LeaveStops(e) \/ LeaveStopped(e)
    BY <1>1, <1>2, <1>4, <2>7 DEF JoinRefused, JoinTakesHint, JoinFails, LeaveTakesManager,
       LeaveStops, LeaveStopped
  <2> QED
    BY <1>4, <2>1, <2>2, <2>3, <2>4, <2>5, <2>6, <2>7
<1>5. ASSUME NEW e \in Endpoints, JoinerStep(e)
      PROVE  restorer' = "complete" /\ restarts' = 0 /\ Kept'
  <2>1. UNCHANGED <<docker, handler, restorer, restarts>>
    BY <1>5 DEF JoinerStep, handlerVars, dockerVars, restoreVars
  <2>2. CASE JoinerUpdates(e)
    BY <1>1, <1>2, <2>1, <2>2 DEF JoinerUpdates, UpdateStateEntry, ChangeAndCopy, Absent
  <2>3. CASE UNCHANGED state
    BY <1>3, <2>1, <2>3
  <2> QED
    BY <1>5, <2>2, <2>3 DEF JoinerStep, table, JoinerSeesLink,
       JoinerStartFails, JoinerStarts, JoinerRegisters, JoinerFindsLeft, JoinerStops,
       JoinerStopped, JoinerSaved, SaveEnds, SaveState, SaveStateFails, JoinerReturns
<1>6. ~RestoreStep
  BY <1>1 DEF RestoreStep, RestoreCopies, RestorePicks, RestoreEnds, RestoreAttemptFails,
     RestoreRetries, RestoreIsCancelled, RestoreDropped, RestoreFindsManager, RestoreFindsNone,
     RestoreStarts, RestoreRegisters, RestoreFindsJoin, RestoreFindsLeft, RestoreStops,
     RestoreStopped, RestoreDrops, RestorerAt, RestoreDone
<1>7. ASSUME NEW e \in Endpoints, LoopStep(e)
      PROVE  restorer' = "complete" /\ restarts' = 0 /\ Kept'
  BY <1>3, <1>7 DEF LoopStep, LoopExits, LoopGivesUp, LoopFrame, table, handlerVars, dockerVars,
     restoreVars
<1>8. CASE RestoreTimesOut \/ CloseCancelsRestore \/ CloseStep \/ UNCHANGED vars
  BY <1>3, <1>8 DEF RestoreTimesOut, CloseCancelsRestore, CloseStep, vars, table, handlerVars,
     dockerVars, restoreVars
<1>9. CASE DockerStep
  <2>1. UNCHANGED <<state, restorer, restarts>>
    BY <1>9 DEF DockerStep, table, restoreVars
  <2>2. PICK e \in Endpoints :
          \/ CreateEndpoint(e) \/ SendJoin(e) \/ SendLeave(e)
          \/ SendDelete(e) \/ GiveUp(e) \/ MoveLink(e) \/ TearDown(e)
    BY <1>9 DEF DockerStep
  <2>3. CASE CreateEndpoint(e) \/ GiveUp(e)
    BY <1>1, <2>1, <2>3 DEF CreateEndpoint, GiveUp, handlerVars
  <2>4. CASE SendJoin(e) \/ SendLeave(e) \/ SendDelete(e)
    BY <1>1, <2>1, <2>4 DEF SendJoin, SendLeave, SendDelete, Request
  <2>5. CASE MoveLink(e) \/ TearDown(e)
    BY <1>3, <2>1, <2>5 DEF MoveLink, TearDown, handlerVars
  <2> QED
    BY <2>2, <2>3, <2>4, <2>5
<1>10. ~(PluginRestarts \/ HostReboots)
  BY <1>1 DEF PluginRestarts, HostReboots, ProcessStarts
<1> QED
  BY <1>4, <1>5, <1>6, <1>7, <1>8, <1>9, <1>10 DEF Next, PluginStep

(* As long as the plugin runs and its Restore is over, an endpoint with a  *)
(* manager has its record (plugin.go:114-118).                             *)
THEOREM ManagedStayRecorded ==
    ASSUME MaxRestarts = 0
    PROVE  RunningSpec => []ManagedIsRecorded
<1>1. RunningInit => RecordedInv
  BY InitInv DEF RunningInit, StartsWith, RecordedInv
<1>2. RecordedInv => ManagedIsRecorded
  BY DEF RecordedInv, ManagedIsRecorded
<1> QED
  BY <1>1, <1>2, NextRecorded, PTL DEF RunningSpec
-----------------------------------------------------------------------------
(* The record of an endpoint that Restore attached again                   *)

(* While Restore has an endpoint to do or serves it, and until its Leave,  *)
(* the record is in the table.                                             *)
Serves(e) ==
  \/ e \in todo
  \/ e \in current /\ restorer # "dropped"
  \/ persistentDHCP[e] = "restored"

Joining == {"new", "created", "joining", "joined"}

ServedInv == \A e \in Endpoints : docker[e] \in Joining /\ Serves(e) => state[e] # Absent

(* A step that removes no record and gives Restore nothing more to do.     *)
LEMMA ServedFrame ==
    ASSUME ServedInv,
           \A e \in Endpoints :
             /\ docker'[e] \in Joining => docker[e] \in Joining
             /\ Serves(e)' => Serves(e)
             /\ docker'[e] \in Joining /\ state[e] # Absent => state'[e] # Absent
    PROVE  ServedInv'
BY DEF ServedInv

(* Only Leave and DeleteEndpoint remove the record of an endpoint.         *)
LEMMA HandlerServed ==
    ASSUME Inv, ServedInv, NEW e \in Endpoints, HandlerStep(e)
    PROVE  ServedInv'
<1> USE DEF At, HandlerStep, restoreVars, restoreWork, dockerVars, table, mapVars
<1>1. /\ state \in [Endpoints -> {Absent, "unnamed", "named"}]
      /\ handler \in [Endpoints -> HandlerLabels]
      /\ docker \in [Endpoints -> DockerLabels]
      /\ persistentDHCP \in [Endpoints -> Kinds \cup {NoManager}]
      /\ HandlerOK(e)
  BY DEF Inv, TypeOK, TableTypeOK, Table, Records, HandlerInv
<1>2. UNCHANGED <<restorer, todo, current>>
  OBVIOUS
<1>3. CASE UNCHANGED <<state, docker, persistentDHCP>>
  BY <1>2, <1>3, ServedFrame DEF Serves
<1>4. CASE JoinPersists(e)
  BY <1>1, <1>2, <1>4, ServedFrame DEF Serves, JoinPersists, AddStateEntry, ChangeAndCopy, Absent
<1>5. CASE LeaveTakesManager(e)
  BY <1>1, <1>2, <1>5, ServedFrame DEF Serves, LeaveTakesManager, NoManager
<1>6. CASE Forget(e)
  <2>1. docker[e] \in {"leaving", "deleting"} /\ UNCHANGED <<docker, persistentDHCP>>
    BY <1>1, <1>6 DEF Forget, HandlerOK
  <2>2. \A f \in Endpoints \ {e} : state'[f] = state[f]
    BY <1>1, <1>6 DEF Forget, RemoveStateEntry, ChangeAndCopy
  <2> QED
    BY <1>2, <2>1, <2>2, ServedFrame DEF Serves, Joining
<1>7. CASE Reply(e)
  <2>1. docker'[e] \in Joining => docker[e] \in Joining
    BY <1>1, <1>7 DEF Reply, Answered, HandlerOK, Joining
  <2>2. \A f \in Endpoints \ {e} : docker'[f] = docker[f]
    BY <1>1, <1>7 DEF Reply
  <2>3. UNCHANGED <<state, persistentDHCP>>
    BY <1>7 DEF Reply
  <2> QED
    BY <1>2, <2>1, <2>2, <2>3, ServedFrame DEF Serves
<1> QED
  BY <1>3, <1>4, <1>5, <1>6, <1>7 DEF JoinRefused, JoinTakesHint, JoinFails, JoinSpawns,
     LeaveMarks, MarkLeft, LeaveStops, LeaveStopped, DeleteLink, Forgotten, SaveEnds, SaveState,
     SaveStateFails

(* A Join goroutine fills a record in and registers its own manager.       *)
LEMMA JoinerServed ==
    ASSUME Inv, ServedInv, NEW e \in Endpoints, JoinerStep(e)
    PROVE  ServedInv'
<1> USE DEF JoinerAt, JoinerStep, restoreVars, restoreWork, dockerVars, table, mapVars
<1>1. /\ state \in [Endpoints -> {Absent, "unnamed", "named"}]
      /\ persistentDHCP \in [Endpoints -> Kinds \cup {NoManager}]
  BY DEF Inv, TypeOK, TableTypeOK, Table, Records
<1>2. UNCHANGED <<restorer, todo, current, docker>>
  OBVIOUS
<1>3. CASE UNCHANGED <<state, persistentDHCP>>
  BY <1>2, <1>3, ServedFrame DEF Serves
<1>4. CASE JoinerUpdates(e)
  BY <1>1, <1>2, <1>4, ServedFrame DEF Serves, JoinerUpdates, UpdateStateEntry, ChangeAndCopy,
     Absent
<1>5. CASE JoinerRegisters(e)
  BY <1>1, <1>2, <1>5, ServedFrame DEF Serves, JoinerRegisters
<1> QED
  BY <1>3, <1>4, <1>5 DEF JoinerSeesLink, JoinerStartFails, JoinerStarts, JoinerFindsLeft,
     JoinerStops, JoinerStopped, JoinerSaved, SaveEnds, SaveState, SaveStateFails, JoinerReturns

(* Restore removes the record of the endpoint that it gives up.            *)
LEMMA RestoreServed ==
    ASSUME Inv, ServedInv, RestoreStep
    PROVE  ServedInv'
<1> USE DEF RestorerAt, RestoreDone, RestoreStep, restoreWork, dockerVars, table, mapVars
<1>1. /\ state \in [Endpoints -> {Absent, "unnamed", "named"}]
      /\ persistentDHCP \in [Endpoints -> Kinds \cup {NoManager}]
      /\ todo \in SUBSET Endpoints /\ current \in SUBSET Endpoints
  BY DEF Inv, TypeOK, TableTypeOK, Table, Records
<1>2. UNCHANGED docker
  OBVIOUS
<1>3. RestorerInv
  BY DEF Inv
<1>4. CASE RestoreCopies
  BY <1>1, <1>2, <1>3, <1>4 DEF RestoreCopies, ServedInv, Serves, RestorerInv
<1>5. CASE RestorePicks
  BY <1>1, <1>2, <1>5, ServedFrame DEF RestorePicks, Serves
<1>6. CASE RestoreEnds \/ RestoreIsCancelled
  BY <1>1, <1>2, <1>3, <1>6, ServedFrame DEF RestoreEnds, RestoreIsCancelled, Serves, RestorerInv
<1>7. CASE RestoreDropped
  BY <1>1, <1>2, <1>7, ServedFrame DEF RestoreDropped, SaveEnds, SaveState, SaveStateFails, Serves
<1>8. CASE RestoreAttemptFails \/ RestoreRetries
  BY <1>1, <1>2, <1>8, ServedFrame DEF RestoreAttemptFails, RestoreRetries, Serves
<1>9. ASSUME NEW e \in Endpoints,
             \/ RestoreFindsManager(e) \/ RestoreFindsNone(e) \/ RestoreStarts(e)
             \/ RestoreFindsJoin(e) \/ RestoreFindsLeft(e) \/ RestoreStops(e)
             \/ RestoreStopped(e)
      PROVE  ServedInv'
  BY <1>1, <1>2, <1>9, ServedFrame DEF RestoreFindsManager, RestoreFindsNone, RestoreStarts,
     RestoreFindsJoin, RestoreFindsLeft, RestoreStops, RestoreStopped, Serves
<1>10. ASSUME NEW e \in Endpoints, RestoreRegisters(e)
       PROVE  ServedInv'
  <2>1. Serves(e) /\ UNCHANGED state
    BY <1>10 DEF RestoreRegisters, Serves
  <2>2. \A f \in Endpoints \ {e} : Serves(f)' => Serves(f)
    BY <1>1, <1>10 DEF RestoreRegisters, Serves
  <2> QED
    BY <1>2, <2>1, <2>2, ServedFrame
<1>11. ASSUME NEW e \in Endpoints, RestoreDrops(e)
       PROVE  ServedInv'
  <2>1. \A f \in Endpoints : f \in current <=> f = e
    BY <1>3, <1>11 DEF RestoreDrops, RestorerInv
  <2>2. e \notin todo /\ persistentDHCP[e] # "restored"
    BY <1>3, <1>11 DEF RestoreDrops, RestorerInv, Inv, HeldInv, Held, InMap, Kinds
  <2>3. \A f \in Endpoints \ {e} : state'[f] = state[f]
    BY <1>1, <1>11 DEF RestoreDrops, RemoveStateEntry, ChangeAndCopy
  <2>4. UNCHANGED <<todo, current, persistentDHCP>> /\ restorer' = "dropped"
    BY <1>11 DEF RestoreDrops
  <2> QED
    BY <1>2, <2>1, <2>2, <2>3, <2>4 DEF ServedInv, Serves
<1> QED
  BY <1>4, <1>5, <1>6, <1>7, <1>8, <1>9, <1>10, <1>11

(* Every step keeps the records of the endpoints that Restore serves.      *)
LEMMA NextServed ==
    ASSUME Inv, ServedInv, [Next]_vars
    PROVE  ServedInv'
<1>1. CASE UNCHANGED <<state, persistentDHCP, restorer, todo, current, docker>>
  BY <1>1, ServedFrame DEF Serves
<1>2. ASSUME NEW e \in Endpoints, LoopStep(e)
      PROVE  ServedInv'
  BY <1>1, <1>2 DEF LoopStep, LoopExits, LoopGivesUp, LoopFrame, table, mapVars, restoreVars,
     restoreWork, dockerVars
<1>3. CASE RestoreTimesOut \/ CloseCancelsRestore \/ CloseStep \/ UNCHANGED vars
  BY <1>1, <1>3 DEF RestoreTimesOut, CloseCancelsRestore, CloseStep, vars, table, mapVars,
     restoreVars, restoreWork, dockerVars
<1>4. CASE DockerStep
  <2>1. \A f \in Endpoints : docker'[f] \in Joining => docker[f] \in Joining
    BY <1>4 DEF DockerStep, CreateEndpoint, SendJoin, SendLeave, SendDelete, Request, GiveUp,
       MoveLink, TearDown, Inv, TypeOK, DockerLabels, Joining
  <2>2. UNCHANGED <<state, persistentDHCP, restorer, todo, current>>
    BY <1>4 DEF DockerStep, table, restoreVars, restoreWork
  <2> QED
    BY <2>1, <2>2, ServedFrame DEF Serves
<1>5. CASE PluginRestarts \/ HostReboots
  BY <1>5 DEF PluginRestarts, HostReboots, ProcessStarts, NoManagers, NoManager, ServedInv, Serves
<1> QED
  BY <1>2, <1>3, <1>4, <1>5, HandlerServed, JoinerServed, RestoreServed DEF Next, PluginStep

(* An endpoint that Restore attached again has its record while it is      *)
(* joined, so that every further restart finds it, for any number of       *)
(* endpoints, retries and restarts (plugin.go:392-412, 568).               *)
THEOREM RestoredStayRecorded == Spec => []RestoredAreRecorded
<1>1. Init => ServedInv
  BY DEF Init, StartsWith, NoManagers, NoManager, ServedInv, Serves
<1>2. ServedInv => RestoredAreRecorded
  BY DEF ServedInv, Serves, Joining, RestoredAreRecorded
<1> QED
  BY <1>1, <1>2, NextServed, InvIsInvariant, PTL DEF Spec
-----------------------------------------------------------------------------
(* A Leave that finds the manager ends it                                  *)

(* What holds of an endpoint from the time that it is settled on: its      *)
(* manager is in the map until the one Leave takes it out, and stays with  *)
(* that Leave until it ends.                                               *)
Ending(e) ==
  /\ docker[e] \in {"joined", "leaving", "left", "deleting", "deleted"}
  /\ joiner[e] \in {"idle", "done"} /\ restorer = "complete"
  /\ \A k \in Kinds : Live(e, k) => InMap(e, k) \/ WithLeave(e, k)
  /\ docker[e] = "leaving" => handler[e] # "idle"
  /\ docker[e] # "joined" /\ handler[e] # "leave" => persistentDHCP[e] = NoManager

(* A step that is not about the endpoint, or only ends a manager of it.    *)
LEMMA EndingFrame ==
    ASSUME NEW e \in Endpoints, Ending(e),
           \A k \in Kinds : Live(e, k)' => Live(e, k),
           UNCHANGED <<docker[e], handler[e], taken[e], joiner[e], persistentDHCP[e], restorer>>
    PROVE  Ending(e)'
BY DEF Ending, InMap, WithLeave

(* The handler of the endpoint takes its manager from the map or stops it. *)
LEMMA HandlerEnding ==
    ASSUME Inv, NEW e \in Endpoints, Ending(e), HandlerStep(e)
    PROVE  Ending(e)'
<1> USE DEF Ending, Live, InMap, WithLeave, At, mapVars, dockerVars, restoreVars, Kinds
<1>1. /\ manager \in [Endpoints -> [Kinds -> ManagerLabels]]
      /\ taken \in [Endpoints -> Kinds \cup {NoManager}]
      /\ persistentDHCP \in [Endpoints -> Kinds \cup {NoManager}]
      /\ handler \in [Endpoints -> HandlerLabels]
      /\ docker \in [Endpoints -> DockerLabels]
      /\ HandlerOK(e)
  BY DEF Inv, TypeOK, HandlerInv
<1>2. handler[e] \notin {"join", "routes", "joinSaving", "replyError"}
  BY <1>1 DEF HandlerOK
<1>3. CASE LeaveTakesManager(e)
  BY <1>1, <1>3 DEF HandlerStep, LeaveTakesManager, HandlerOK
<1>4. CASE LeaveMarks(e) \/ DeleteLink(e) \/ Forget(e) \/ Forgotten(e)
  BY <1>1, <1>4 DEF HandlerStep, LeaveMarks, DeleteLink, Forget, Forgotten, HandlerOK
<1>5. CASE LeaveStops(e)
  BY <1>1, <1>5 DEF HandlerStep, LeaveStops, CloseStopChan, HandlerOK
<1>6. CASE LeaveStopped(e)
  BY <1>1, <1>6 DEF HandlerStep, LeaveStopped, ReceiveErrChan, HandlerOK
<1>7. CASE Reply(e)
  <2>1. docker[e] \in {"leaving", "deleting"} /\ handler[e] = "replyOK"
    BY <1>1, <1>2, <1>7 DEF Reply, HandlerOK
  <2>2. docker'[e] = Answered[docker[e]] /\ docker'[e] \in {"left", "deleted"}
    BY <1>1, <1>7, <2>1 DEF Reply, Answered
  <2> QED
    BY <1>7, <2>1, <2>2 DEF HandlerStep, Reply
<1> QED
  BY <1>2, <1>3, <1>4, <1>5, <1>6, <1>7 DEF HandlerStep, JoinRefused, JoinTakesHint,
     JoinFails, JoinPersists, JoinSpawns

(* The handlers of other endpoints leave the endpoint alone.               *)
LEMMA OtherHandler ==
    ASSUME Inv, NEW e \in Endpoints, NEW f \in Endpoints \ {e}, HandlerStep(f)
    PROVE  UNCHANGED <<docker[e], handler[e], taken[e], joiner[e], persistentDHCP[e],
                       manager[e], state[e], link[e], restoreVars>>
<1> USE DEF At, mapVars, dockerVars, HandlerStep, table
<1>1. /\ manager \in [Endpoints -> [Kinds -> ManagerLabels]]
      /\ state \in [Endpoints -> Records \cup {Absent}]
      /\ handler \in [Endpoints -> HandlerLabels]
      /\ docker \in [Endpoints -> DockerLabels]
      /\ link \in [Endpoints -> {"none", "host", "sandbox", "gone"}]
      /\ taken \in [Endpoints -> Kinds \cup {NoManager}]
      /\ persistentDHCP \in [Endpoints -> Kinds \cup {NoManager}]
      /\ joiner \in [Endpoints -> JoinerLabels]
  BY DEF Inv, TypeOK, TableTypeOK, Table
<1>2. CASE JoinRefused(f) \/ JoinTakesHint(f) \/ JoinFails(f)
  BY <1>1, <1>2 DEF JoinRefused, JoinTakesHint, JoinFails
<1>3. CASE JoinPersists(f)
  BY <1>1, <1>3 DEF JoinPersists, AddStateEntry, ChangeAndCopy
<1>4. CASE JoinSpawns(f) \/ Forgotten(f)
  BY <1>1, <1>4 DEF JoinSpawns, Forgotten, SaveEnds, SaveState, SaveStateFails
<1>5. CASE LeaveTakesManager(f) \/ LeaveMarks(f)
  BY <1>1, <1>5 DEF LeaveTakesManager, LeaveMarks, MarkLeft
<1>6. CASE LeaveStops(f) \/ LeaveStopped(f)
  BY <1>1, <1>6 DEF LeaveStops, CloseStopChan, LeaveStopped, ReceiveErrChan
<1>7. CASE DeleteLink(f) \/ Reply(f)
  BY <1>1, <1>7 DEF DeleteLink, Reply
<1>8. CASE Forget(f)
  BY <1>1, <1>8 DEF Forget, RemoveStateEntry, ChangeAndCopy
<1> QED
  BY <1>2, <1>3, <1>4, <1>5, <1>6, <1>7, <1>8

(* So do the Join goroutines of other endpoints.                           *)
LEMMA OtherJoiner ==
    ASSUME Inv, NEW e \in Endpoints, NEW f \in Endpoints \ {e}, JoinerStep(f)
    PROVE  UNCHANGED <<docker[e], handler[e], taken[e], joiner[e], persistentDHCP[e],
                       manager[e], state[e], link[e], restoreVars>>
<1> USE DEF JoinerAt, mapVars, handlerVars, dockerVars, JoinerStep, table
<1>1. /\ manager \in [Endpoints -> [Kinds -> ManagerLabels]]
      /\ state \in [Endpoints -> Records \cup {Absent}]
      /\ persistentDHCP \in [Endpoints -> Kinds \cup {NoManager}]
      /\ joiner \in [Endpoints -> JoinerLabels]
  BY DEF Inv, TypeOK, TableTypeOK, Table
<1>2. CASE JoinerSeesLink(f) \/ JoinerStartFails(f) \/ JoinerReturns(f)
  BY <1>1, <1>2 DEF JoinerSeesLink, JoinerStartFails, JoinerReturns
<1>3. CASE JoinerStarts(f)
  BY <1>1, <1>3 DEF JoinerStarts, StartManager
<1>4. CASE JoinerRegisters(f) \/ JoinerFindsLeft(f)
  BY <1>1, <1>4 DEF JoinerRegisters, JoinerFindsLeft
<1>5. CASE JoinerStops(f) \/ JoinerStopped(f)
  BY <1>1, <1>5 DEF JoinerStops, CloseStopChan, JoinerStopped, ReceiveErrChan
<1>6. CASE JoinerUpdates(f)
  BY <1>1, <1>6 DEF JoinerUpdates, UpdateStateEntry, ChangeAndCopy
<1>7. CASE JoinerSaved(f)
  BY <1>1, <1>7 DEF JoinerSaved, SaveEnds, SaveState, SaveStateFails
<1> QED
  BY <1>2, <1>3, <1>4, <1>5, <1>6, <1>7

(* dockerd sends no second Join, and gives up no Leave of this process.    *)
LEMMA DockerEnding ==
    ASSUME Inv, NEW e \in Endpoints, Ending(e), DockerStep
    PROVE  Ending(e)'
<1>1. /\ handler \in [Endpoints -> HandlerLabels]
      /\ docker \in [Endpoints -> DockerLabels]
      /\ HandlerOK(e)
  BY DEF Inv, TypeOK, HandlerInv
<1>2. UNCHANGED <<persistentDHCP, taken, joiner, restorer, manager>>
  BY DEF DockerStep, restoreVars, CreateEndpoint, SendJoin, SendLeave, SendDelete, Request,
         GiveUp, MoveLink, TearDown, handlerVars
<1>3. PICK f \in Endpoints :
        \/ CreateEndpoint(f) \/ SendJoin(f) \/ SendLeave(f)
        \/ SendDelete(f) \/ GiveUp(f) \/ MoveLink(f) \/ TearDown(f)
  BY DEF DockerStep
<1>4. CASE UNCHANGED <<docker[e], handler[e]>>
  BY <1>2, <1>4, EndingFrame DEF Live
<1>5. CASE f # e
  BY <1>1, <1>3, <1>4, <1>5 DEF CreateEndpoint, SendJoin, SendLeave, SendDelete, Request,
     GiveUp, MoveLink, TearDown, handlerVars
<1>6. CASE f = e
  <2> USE <1>1, <1>2, <1>6 DEF Ending, Live, InMap, WithLeave, handlerVars
  <2>1. ~CreateEndpoint(e) /\ ~SendJoin(e)
    BY DEF CreateEndpoint, SendJoin, Request, HandlerOK
  <2>2. CASE SendLeave(e) \/ SendDelete(e)
    BY <2>2 DEF SendLeave, SendDelete, Request
  <2>3. CASE GiveUp(e)
    BY <2>3 DEF GiveUp
  <2>4. CASE MoveLink(e) \/ TearDown(e)
    BY <1>4, <2>4 DEF MoveLink, TearDown
  <2> QED
    BY <1>3, <2>1, <2>2, <2>3, <2>4
<1> QED
  BY <1>5, <1>6

(* Every step of the same process keeps what holds of the endpoint since   *)
(* it was settled.                                                         *)
LEMMA NextEnding ==
    ASSUME Inv, NEW e \in Endpoints, Ending(e), [Next]_vars, UNCHANGED restarts
    PROVE  Ending(e)'
<1>1. manager \in [Endpoints -> [Kinds -> ManagerLabels]]
  BY DEF Inv, TypeOK
<1>2. ASSUME NEW f \in Endpoints, HandlerStep(f)
      PROVE  Ending(e)'
  BY <1>2, HandlerEnding, OtherHandler, EndingFrame DEF Live, restoreVars
<1>3. ASSUME NEW f \in Endpoints, JoinerStep(f)
      PROVE  Ending(e)'
  <2>1. f # e
    BY <1>3 DEF Ending, JoinerStep, JoinerSeesLink, JoinerStartFails, JoinerStarts,
       JoinerRegisters, JoinerFindsLeft, JoinerStops, JoinerStopped, JoinerUpdates,
       JoinerSaved, JoinerReturns, JoinerAt
  <2> QED
    BY <1>3, <2>1, OtherJoiner, EndingFrame DEF Live, restoreVars
<1>4. CASE RestoreStep
  BY <1>4, CompleteIsLast DEF RestoreStep, dockerVars, Ending
<1>5. ASSUME NEW f \in Endpoints, LoopStep(f)
      PROVE  Ending(e)'
  BY <1>1, <1>5, EndingFrame DEF LoopStep, LoopExits, LoopGivesUp, LoopFrame, Live, Kinds,
     mapVars, handlerVars, dockerVars, restoreVars
<1>6. CASE RestoreTimesOut \/ CloseCancelsRestore \/ UNCHANGED vars
  BY <1>6, EndingFrame DEF RestoreTimesOut, CloseCancelsRestore, vars, Live,
     mapVars, handlerVars, dockerVars, restoreVars
<1>7. CASE CloseStep
  <2>1. UNCHANGED <<docker, handler, taken, joiner, persistentDHCP, restorer>>
    BY <1>7 DEF CloseStep, mapVars, handlerVars, dockerVars, restoreVars
  <2>2. ASSUME NEW m \in Endpoints \X Kinds, CloseStops(m) \/ CloseStopped(m)
        PROVE  \A k \in Kinds : Live(e, k)' => Live(e, k)
    BY <1>1, <2>2 DEF CloseStops, CloseStopped, CloseStopChan, ReceiveErrChan, Live, Kinds
  <2>3. CASE UNCHANGED manager
    BY <2>1, <2>3, EndingFrame DEF Live
  <2> QED
    BY <1>7, <2>1, <2>2, <2>3, EndingFrame DEF CloseStep, CloseCopies, CloseExits
<1>8. ~(PluginRestarts \/ HostReboots)
  BY DEF PluginRestarts, HostReboots, ProcessStarts, Inv, TypeOK
<1> QED
  BY <1>2, <1>3, <1>4, <1>5, <1>6, <1>7, <1>8, DockerEnding DEF Next, PluginStep

(* Processes are counted upwards.                                          *)
LEMMA RestartsGrow ==
    ASSUME Inv, [Next]_vars
    PROVE  restarts' \in {restarts, restarts + 1}
BY DEF Next, PluginStep, HandlerStep, JoinerStep, LoopStep, LoopExits, LoopGivesUp, LoopFrame,
   RestoreStep, RestoreTimesOut, CloseCancelsRestore, CloseStep, DockerStep, PluginRestarts,
   HostReboots, ProcessStarts, vars

(* For one endpoint and one process.                                       *)
LEMMA SettledEnds ==
    ASSUME NEW e \in Endpoints, NEW n \in 0 .. MaxRestarts
    PROVE  Spec => [](Settled(e) /\ restarts = n =>
             [](restarts = n /\ docker[e] \in {"left", "deleted"} /\ AtRest(e)
                  => \A k \in Kinds : ~Live(e, k)))
<1> DEFINE Ended == restarts = n /\ docker[e] \in {"left", "deleted"} /\ AtRest(e)
                      => \A k \in Kinds : ~Live(e, k)
           SinceSettled == restarts > n \/ (restarts = n /\ Ending(e))
           Start == Settled(e) /\ restarts = n
<1>1. Start => SinceSettled
  BY DEF Settled, Ending
<1>2. Inv /\ SinceSettled /\ [Next]_vars => SinceSettled'
  <2> SUFFICES ASSUME Inv, SinceSettled, [Next]_vars
               PROVE  SinceSettled'
    OBVIOUS
  <2>1. restarts \in Nat /\ n \in Nat
    BY DEF Inv, TypeOK
  <2>2. CASE restarts' = restarts
    BY <2>2, NextEnding
  <2>3. CASE restarts' = restarts + 1
    BY <2>1, <2>3
  <2> QED
    BY <2>2, <2>3, RestartsGrow
<1>3. Inv /\ SinceSettled => Ended
  BY DEF Ending, AtRest, InMap, WithLeave, Inv, TypeOK, HandlerInv, HandlerOK, Kinds, NoManager
<1> HIDE DEF Ended, SinceSettled, Start
<1>4. Spec => [](Start => []Ended)
  BY <1>1, <1>2, <1>3, InvIsInvariant, PTL DEF Spec
<1> QED
  BY <1>4 DEF Ended, Start

(* Once an endpoint is settled, its Leave ends the manager that it has, of *)
(* whichever kind, whatever comes in between in the same process           *)
(* (network.go:831-845).                                                   *)
THEOREM LeavesEndManagers == Spec => LeaveEndsManager
BY SettledEnds DEF LeaveEndsManager
-----------------------------------------------------------------------------
(* Restore drops the records of endpoints without a sandbox                *)

(* dockerd tears the interface of an endpoint down after its Leave or when *)
(* the host reboots, which ends the goroutine of its Join; and where the   *)
(* Join of this process was followed by a Leave, that removed the record.  *)
Torn(e) ==
  /\ docker[e] = "new" => link[e] = "none"
  /\ link[e] = "gone" =>
       /\ docker[e] \notin {"new", "created", "joining"}
       /\ docker[e] \in {"joined", "leaving"} => joiner[e] = "idle"
  /\ joiner[e] # "idle" =>
       /\ docker[e] # "failed"
       /\ docker[e] = "leaving" => handler[e] # "idle"
       /\ \/ docker[e] \in {"left", "deleting", "deleted"}
          \/ docker[e] = "leaving" /\ handler[e] \in {"forgetSaving", "replyOK"}
          => state[e] = Absent

TornInv ==
  /\ restorer = "complete" => todo = {} /\ current = {}
  /\ \A e \in Endpoints : Torn(e)

DropInv == Inv /\ TornInv

(* Where dockerd and its request are, the interface, the goroutine of Join *)
(* stay or end, and no record is added.                                    *)
LEMMA TornFrame ==
    ASSUME NEW e \in Endpoints, Torn(e),
           UNCHANGED <<docker[e], handler[e], joiner[e], link[e]>>,
           state[e] = Absent => state'[e] = Absent
    PROVE  Torn(e)'
BY DEF Torn

(* The handler of the endpoint forgets it before it answers a Leave.       *)
LEMMA HandlerTorn ==
    ASSUME DropInv, NEW e \in Endpoints, HandlerStep(e)
    PROVE  Torn(e)'
<1> USE DEF Torn, At, mapVars, dockerVars, table, Absent
<1>1. /\ state \in [Endpoints -> Records \cup {Absent}]
      /\ handler \in [Endpoints -> HandlerLabels]
      /\ docker \in [Endpoints -> DockerLabels]
      /\ joiner \in [Endpoints -> JoinerLabels]
      /\ link \in [Endpoints -> {"none", "host", "sandbox", "gone"}]
      /\ HandlerOK(e) /\ Torn(e)
      /\ joiner[e] # "idle" /\ docker[e] = "joining" => handler[e] = "replyOK"
  BY DEF DropInv, TornInv, Inv, TypeOK, TableTypeOK, Table, HandlerInv, JoinerInv
<1>2. CASE JoinRefused(e) \/ JoinTakesHint(e) \/ JoinFails(e)
  BY <1>1, <1>2 DEF JoinRefused, JoinTakesHint, JoinFails, HandlerOK
<1>3. CASE JoinPersists(e)
  BY <1>1, <1>3 DEF JoinPersists, AddStateEntry, HandlerOK
<1>4. CASE JoinSpawns(e) \/ Forgotten(e)
  BY <1>1, <1>4 DEF JoinSpawns, Forgotten, SaveEnds, SaveState, SaveStateFails, HandlerOK
<1>5. CASE LeaveTakesManager(e) \/ LeaveMarks(e) \/ LeaveStops(e) \/ LeaveStopped(e)
  BY <1>1, <1>5 DEF LeaveTakesManager, LeaveMarks, MarkLeft, LeaveStops, LeaveStopped,
     HandlerOK
<1>6. CASE DeleteLink(e)
  BY <1>1, <1>6 DEF DeleteLink, HandlerOK
<1>7. CASE Forget(e)
  BY <1>1, <1>7 DEF Forget, RemoveStateEntry, ChangeAndCopy, HandlerOK
<1>8. CASE Reply(e)
  <2>1. CASE handler[e] = "replyOK"
    <3>1. docker'[e] = Answered[docker[e]]
      BY <1>1, <1>8, <2>1 DEF Reply
    <3>2. docker'[e] \in {"joined", "left", "deleted"}
      BY <1>1, <2>1, <3>1 DEF Answered, HandlerOK
    <3>3. docker'[e] = "joined" <=> docker[e] = "joining"
      BY <1>1, <2>1, <3>1 DEF Answered, HandlerOK
    <3> QED
      BY <1>1, <1>8, <2>1, <3>2, <3>3 DEF Reply, HandlerOK
  <2>2. CASE handler[e] = "replyError"
    BY <1>1, <1>8, <2>2 DEF Reply, HandlerOK
  <2> QED
    BY <1>8, <2>1, <2>2 DEF Reply
<1> QED
  BY <1>2, <1>3, <1>4, <1>5, <1>6, <1>7, <1>8 DEF HandlerStep

(* dockerd ends an endpoint after it has left, or after a restart.         *)
LEMMA DockerTorn ==
    ASSUME DropInv, NEW e \in Endpoints, DockerStep
    PROVE  Torn(e)'
<1>1. /\ handler \in [Endpoints -> HandlerLabels]
      /\ docker \in [Endpoints -> DockerLabels]
      /\ link \in [Endpoints -> {"none", "host", "sandbox", "gone"}]
      /\ HandlerOK(e) /\ Torn(e)
      /\ joiner[e] # "idle" => docker[e] \notin {"new", "created"}
      /\ joiner[e] # "idle" /\ docker[e] = "joining" => handler[e] = "replyOK"
  BY DEF DropInv, TornInv, Inv, TypeOK, HandlerInv, JoinerInv
<1>2. UNCHANGED <<state, joiner>>
  BY DEF DockerStep, table
<1>3. PICK f \in Endpoints :
        \/ CreateEndpoint(f) \/ SendJoin(f) \/ SendLeave(f)
        \/ SendDelete(f) \/ GiveUp(f) \/ MoveLink(f) \/ TearDown(f)
  BY DEF DockerStep
<1>4. CASE f # e
  <2>1. UNCHANGED <<docker[e], handler[e], link[e]>>
    BY <1>1, <1>3, <1>4 DEF CreateEndpoint, SendJoin, SendLeave, SendDelete, Request,
       GiveUp, MoveLink, TearDown, handlerVars
  <2> QED
    BY <1>1, <1>2, <2>1, TornFrame
<1>5. CASE f = e
  <2> USE <1>1, <1>2, <1>5 DEF Torn, handlerVars
  <2>1. CASE CreateEndpoint(e)
    BY <2>1 DEF CreateEndpoint
  <2>2. CASE SendJoin(e)
    BY <2>2 DEF SendJoin, Request
  <2>3. CASE SendLeave(e) \/ SendDelete(e)
    BY <2>3 DEF SendLeave, SendDelete, Request
  <2>4. CASE GiveUp(e)
    BY <2>4 DEF GiveUp
  <2>5. CASE MoveLink(e) \/ TearDown(e)
    BY <2>5 DEF MoveLink, TearDown
  <2> QED
    BY <1>3, <2>1, <2>2, <2>3, <2>4, <2>5
<1> QED
  BY <1>4, <1>5

(* The goroutine of Join adds no record: it fills in one that is there.    *)
LEMMA JoinerTorn ==
    ASSUME DropInv, NEW e \in Endpoints, JoinerStep(e)
    PROVE  Torn(e)' /\ (state[e] = Absent => state'[e] = Absent)
<1>1. /\ state \in [Endpoints -> Records \cup {Absent}]
      /\ joiner \in [Endpoints -> JoinerLabels]
      /\ Torn(e)
  BY DEF DropInv, TornInv, Inv, TypeOK, TableTypeOK, Table
<1>2. joiner[e] # "idle" /\ UNCHANGED <<docker, handler, link>>
  BY DEF JoinerStep, JoinerSeesLink, JoinerStartFails, JoinerStarts, JoinerRegisters,
     JoinerFindsLeft, JoinerStops, JoinerStopped, JoinerUpdates, JoinerSaved,
     JoinerReturns, JoinerAt, handlerVars, dockerVars
<1>3. state[e] = Absent => state'[e] = Absent
  <2>1. CASE JoinerUpdates(e)
    BY <1>1, <2>1 DEF JoinerUpdates, UpdateStateEntry, ChangeAndCopy
  <2>2. CASE UNCHANGED state
    BY <2>2
  <2> QED
    BY <2>1, <2>2 DEF JoinerStep, JoinerSeesLink, JoinerStartFails, JoinerStarts,
       JoinerRegisters, JoinerFindsLeft, JoinerStops, JoinerStopped, JoinerSaved,
       SaveEnds, SaveState, SaveStateFails, JoinerReturns, table
<1> QED
  BY <1>1, <1>2, <1>3 DEF Torn

(* Restore adds no record either, and is complete with nothing left to do. *)
LEMMA RestoreTorn ==
    ASSUME DropInv, RestoreStep
    PROVE  /\ \A e \in Endpoints : state[e] = Absent => state'[e] = Absent
           /\ restorer' = "complete" => todo' = {} /\ current' = {}
<1>1. /\ state \in [Endpoints -> Records \cup {Absent}]
      /\ RestorerInv
  BY DEF DropInv, Inv, TypeOK, TableTypeOK, Table
<1>2. ASSUME NEW f \in Endpoints, RestoreDrops(f)
      PROVE  /\ \A e \in Endpoints : state[e] = Absent => state'[e] = Absent
             /\ restorer' # "complete"
  BY <1>1, <1>2 DEF RestoreDrops, RemoveStateEntry, ChangeAndCopy, RestorerAt
<1>3. CASE RestoreDropped
  BY <1>3 DEF RestoreDropped, RestoreDone, RestorerAt, SaveEnds, SaveState,
     SaveStateFails, table
<1>4. CASE RestoreEnds \/ RestoreIsCancelled
  BY <1>1, <1>4 DEF RestoreEnds, RestoreIsCancelled, RestorerAt, RestorerInv, table
<1>5. CASE UNCHANGED state /\ restorer' # "complete"
  BY <1>5
<1> QED
  BY <1>2, <1>3, <1>4, <1>5 DEF RestoreStep, RestoreCopies, RestorePicks,
     RestoreAttemptFails, RestoreRetries, RestoreFindsManager, RestoreFindsNone,
     RestoreStarts, RestoreRegisters, RestoreFindsJoin, RestoreFindsLeft, RestoreStops,
     RestoreStopped, RestorerAt, RestoreDone, table

(* Every step keeps it.                                                    *)
LEMMA NextDrop ==
    ASSUME DropInv, [Next]_vars
    PROVE  DropInv'
<1>1. Inv' /\ TornInv
  BY NextInv DEF DropInv
<1>2. CASE UNCHANGED <<docker, handler, joiner, link, restorer, todo, current, state>>
  BY <1>1, <1>2 DEF DropInv, TornInv, Torn
<1>3. ASSUME NEW f \in Endpoints, HandlerStep(f)
      PROVE  DropInv'
  <2>1. UNCHANGED restoreVars
    BY <1>3 DEF HandlerStep
  <2>2. ASSUME NEW e \in Endpoints
        PROVE  Torn(e)'
    BY <1>1, <1>3, HandlerTorn, OtherHandler, TornFrame DEF DropInv, TornInv
  <2> QED
    BY <1>1, <2>1, <2>2 DEF DropInv, TornInv, restoreVars, restoreWork
<1>4. ASSUME NEW f \in Endpoints, JoinerStep(f)
      PROVE  DropInv'
  <2>1. UNCHANGED restoreVars
    BY <1>4 DEF JoinerStep
  <2>2. ASSUME NEW e \in Endpoints
        PROVE  Torn(e)'
    BY <1>1, <1>4, JoinerTorn, OtherJoiner, TornFrame DEF DropInv, TornInv
  <2> QED
    BY <1>1, <2>1, <2>2 DEF DropInv, TornInv, restoreVars, restoreWork
<1>5. CASE RestoreStep
  <2>1. UNCHANGED <<docker, handler, joiner, link>>
    BY <1>5 DEF RestoreStep, handlerVars, dockerVars
  <2> QED
    BY <1>1, <1>5, <2>1, RestoreTorn, TornFrame DEF DropInv, TornInv
<1>6. ASSUME NEW f \in Endpoints, LoopStep(f)
      PROVE  DropInv'
  BY <1>2, <1>6 DEF LoopStep, LoopExits, LoopGivesUp, LoopFrame, table, handlerVars,
     dockerVars, restoreVars, restoreWork
<1>7. CASE RestoreTimesOut \/ CloseCancelsRestore \/ CloseStep \/ UNCHANGED vars
  BY <1>2, <1>7 DEF RestoreTimesOut, CloseCancelsRestore, CloseStep, vars, table,
     handlerVars, dockerVars, restoreVars, restoreWork
<1>8. CASE DockerStep
  <2>1. UNCHANGED restoreVars
    BY <1>8 DEF DockerStep
  <2> QED
    BY <1>1, <1>8, <2>1, DockerTorn DEF DropInv, TornInv, restoreVars, restoreWork
<1>9. CASE PluginRestarts \/ HostReboots
  <2>1. ProcessStarts
    BY <1>9 DEF PluginRestarts, HostReboots
  <2>2. /\ docker \in [Endpoints -> DockerLabels]
        /\ link \in [Endpoints -> {"none", "host", "sandbox", "gone"}]
    BY DEF DropInv, Inv, TypeOK
  <2>3. ASSUME NEW e \in Endpoints
        PROVE  Torn(e)'
    <3>1. joiner'[e] = "idle" /\ Torn(e)
      BY <1>1, <2>1 DEF ProcessStarts, AllIdle, TornInv
    <3>2. CASE PluginRestarts
      BY <3>1, <3>2 DEF PluginRestarts, dockerVars, Torn
    <3>3. CASE HostReboots
      BY <2>2, <3>1, <3>3 DEF HostReboots, Torn
    <3> QED
      BY <1>9, <3>2, <3>3
  <2> QED
    BY <1>1, <2>1, <2>3 DEF DropInv, TornInv, ProcessStarts
<1> QED
  BY <1>3, <1>4, <1>5, <1>6, <1>7, <1>8, <1>9 DEF Next, PluginStep

(* What holds of an endpoint whose interface is gone when Restore starts:  *)
(* Restore has it on its list as long as it has a record, and finds no     *)
(* interface to start a manager on.                                        *)
Dropping(e) ==
  /\ link[e] = "gone"
  /\ restorer # "sleeping" /\ ~restoreCtxDone /\ state[e] # Absent
       => e \in todo \cup current
  /\ e \in current => \/ restorer \in {"check", "open", "failed"}
                      \/ restorer = "dropped" /\ state[e] = Absent

(* A step of anybody else than Restore that adds no record.                *)
LEMMA DroppingFrame ==
    ASSUME NEW e \in Endpoints, Dropping(e), link'[e] = "gone",
           state[e] = Absent => state'[e] = Absent,
           restoreCtxDone => restoreCtxDone', UNCHANGED <<restorer, todo, current>>
    PROVE  Dropping(e)'
BY DEF Dropping

(* No handler adds a record for an endpoint whose interface is gone.       *)
LEMMA HandlerDropping ==
    ASSUME DropInv, NEW e \in Endpoints, link[e] = "gone", HandlerStep(e)
    PROVE  link'[e] = "gone" /\ (state[e] = Absent => state'[e] = Absent)
<1>1. /\ state \in [Endpoints -> Records \cup {Absent}]
      /\ link \in [Endpoints -> {"none", "host", "sandbox", "gone"}]
      /\ HandlerOK(e) /\ docker[e] \notin {"new", "created", "joining"}
  BY DEF DropInv, TornInv, Torn, Inv, TypeOK, TableTypeOK, Table, HandlerInv
<1>2. ~JoinPersists(e)
  BY <1>1 DEF JoinPersists, At, HandlerOK
<1>3. CASE Forget(e)
  BY <1>1, <1>3 DEF Forget, RemoveStateEntry, ChangeAndCopy, dockerVars
<1>4. CASE DeleteLink(e)
  BY <1>1, <1>4 DEF DeleteLink, table
<1>5. CASE UNCHANGED <<state, link>>
  BY <1>5
<1> QED
  BY <1>2, <1>3, <1>4, <1>5 DEF HandlerStep, JoinRefused, JoinTakesHint, JoinFails,
     JoinSpawns, LeaveTakesManager, LeaveMarks, MarkLeft, LeaveStops, LeaveStopped,
     Forgotten, SaveEnds, SaveState, SaveStateFails, Reply, table, dockerVars

(* A manager that Restore finds for such an endpoint has no record.        *)
LEMMA FoundHasNoRecord ==
    ASSUME DropInv, NEW e \in Endpoints, link[e] = "gone", e \in current,
           persistentDHCP[e] # NoManager
    PROVE  state[e] = Absent
<1>1. InMap(e, "joined")
  BY DEF DropInv, Inv, TypeOK, HeldInv, Held, InMap, Kinds
<1>2. joiner[e] # "idle"
  BY <1>1 DEF DropInv, Inv, HeldInv, Held
<1> QED
  BY <1>2 DEF DropInv, TornInv, Torn, Inv, TypeOK, DockerLabels

(* Restore gives the endpoint up, and not before its record is gone.       *)
LEMMA RestoreDropping ==
    ASSUME DropInv, NEW e \in Endpoints, Dropping(e), RestoreStep
    PROVE  Dropping(e)'
<1> USE DEF Dropping, RestorerAt, RestoreDone, restoreWork, table
<1>1. /\ state \in [Endpoints -> Records \cup {Absent}]
      /\ \A f, g \in current : f = g
      /\ restorer \in {"sleeping", "next"} => current = {}
      /\ todo \in SUBSET Endpoints /\ current \in SUBSET Endpoints
  BY DEF DropInv, Inv, TypeOK, TableTypeOK, Table, RestorerInv
<1>2. link'[e] = "gone"
  BY DEF RestoreStep, dockerVars, Dropping
<1>3. CASE RestoreCopies
  BY <1>1, <1>2, <1>3 DEF RestoreCopies
<1>4. CASE RestorePicks
  BY <1>1, <1>2, <1>4 DEF RestorePicks
<1>5. CASE RestoreEnds \/ RestoreIsCancelled
  BY <1>1, <1>2, <1>5 DEF RestoreEnds, RestoreIsCancelled
<1>6. CASE RestoreAttemptFails \/ RestoreRetries
  BY <1>1, <1>2, <1>6 DEF RestoreAttemptFails, RestoreRetries
<1>7. CASE RestoreDropped
  BY <1>1, <1>2, <1>7 DEF RestoreDropped, SaveEnds, SaveState, SaveStateFails
<1>8. ASSUME NEW f \in Endpoints, RestoreFindsManager(f)
      PROVE  Dropping(e)'
  BY <1>1, <1>2, <1>8, FoundHasNoRecord DEF RestoreFindsManager
<1>9. ASSUME NEW f \in Endpoints, RestoreFindsNone(f) \/ RestoreStarts(f)
      PROVE  Dropping(e)'
  BY <1>1, <1>2, <1>9 DEF RestoreFindsNone, RestoreStarts
<1>10. ASSUME NEW f \in Endpoints, RestoreDrops(f)
       PROVE  Dropping(e)'
  BY <1>1, <1>2, <1>10 DEF RestoreDrops, RemoveStateEntry, ChangeAndCopy
<1>11. ASSUME NEW f \in Endpoints,
              \/ RestoreRegisters(f) \/ RestoreFindsJoin(f) \/ RestoreFindsLeft(f)
              \/ RestoreStops(f) \/ RestoreStopped(f)
       PROVE  Dropping(e)'
  BY <1>1, <1>2, <1>11 DEF RestoreRegisters, RestoreFindsJoin, RestoreFindsLeft,
     RestoreStops, RestoreStopped
<1> QED
  BY <1>3, <1>4, <1>5, <1>6, <1>7, <1>8, <1>9, <1>10, <1>11 DEF RestoreStep

(* Every step keeps what holds of such an endpoint.                        *)
LEMMA NextDropping ==
    ASSUME DropInv, NEW e \in Endpoints, Dropping(e), [Next]_vars
    PROVE  Dropping(e)'
<1>1. /\ link[e] = "gone"
      /\ docker[e] \notin {"new", "created", "joining"}
      /\ link \in [Endpoints -> {"none", "host", "sandbox", "gone"}]
  BY DEF Dropping, DropInv, TornInv, Torn, Inv, TypeOK
<1>2. CASE UNCHANGED <<link, state, restoreVars>>
  BY <1>1, <1>2, DroppingFrame DEF restoreVars, restoreWork
<1>3. ASSUME NEW f \in Endpoints, HandlerStep(f)
      PROVE  Dropping(e)'
  BY <1>1, <1>3, HandlerDropping, OtherHandler, DroppingFrame
  DEF DropInv, HandlerStep, restoreVars, restoreWork
<1>4. ASSUME NEW f \in Endpoints, JoinerStep(f)
      PROVE  Dropping(e)'
  BY <1>1, <1>4, JoinerTorn, OtherJoiner, DroppingFrame
  DEF DropInv, JoinerStep, dockerVars, restoreVars, restoreWork
<1>5. ASSUME NEW f \in Endpoints, LoopStep(f)
      PROVE  Dropping(e)'
  BY <1>2, <1>5 DEF LoopStep, LoopExits, LoopGivesUp, LoopFrame, table, dockerVars
<1>6. CASE RestoreTimesOut \/ CloseCancelsRestore
  BY <1>1, <1>6, DroppingFrame DEF RestoreTimesOut, CloseCancelsRestore, table, dockerVars
<1>7. CASE CloseStep \/ UNCHANGED vars
  BY <1>2, <1>7 DEF CloseStep, vars, table, dockerVars
<1>8. CASE DockerStep
  <2>1. UNCHANGED <<state, restoreVars>>
    BY <1>8 DEF DockerStep, table
  <2>2. link'[e] = "gone"
    BY <1>1, <1>8 DEF DockerStep, CreateEndpoint, SendJoin, SendLeave, SendDelete,
       Request, GiveUp, MoveLink, TearDown
  <2> QED
    BY <2>1, <2>2, DroppingFrame DEF restoreVars, restoreWork
<1>9. CASE PluginRestarts \/ HostReboots
  BY <1>1, <1>9 DEF PluginRestarts, HostReboots, ProcessStarts, Dropping, dockerVars
<1> QED
  BY <1>3, <1>4, <1>5, <1>6, <1>7, <1>8, <1>9, RestoreDropping DEF DropInv, Next, PluginStep

(* For one endpoint.                                                       *)
LEMMA PhantomDropped ==
    ASSUME NEW e \in Endpoints
    PROVE  Spec => [](restorer = "sleeping" /\ link[e] = "gone"
             => [](restorer = "complete" /\ ~restoreCtxDone => state[e] = Absent))
<1> DEFINE Phantom == restorer = "sleeping" /\ link[e] = "gone"
           Dropped == restorer = "complete" /\ ~restoreCtxDone => state[e] = Absent
<1>1. Init => DropInv
  BY InitInv DEF Init, StartsWith, DropInv, TornInv, Torn, AllIdle
<1>2. DropInv /\ Phantom => Dropping(e)
  BY DEF DropInv, Inv, RestorerInv, Dropping
<1>3. DropInv /\ Dropping(e) /\ [Next]_vars => Dropping(e)'
  BY NextDropping
<1>4. DropInv /\ Dropping(e) => Dropped
  BY DEF DropInv, TornInv, Dropping
<1> HIDE DEF Phantom, Dropped
<1>5. Spec => [](Phantom => []Dropped)
  BY <1>1, <1>2, <1>3, <1>4, NextDrop, PTL DEF Spec
<1> QED
  BY <1>5 DEF Phantom, Dropped

(* Restore drops the record of an endpoint whose sandbox is gone before it *)
(* starts, if it has its time, whatever dockerd, a Leave, the table's file *)
(* or a restart do in between (plugin.go:355-359).                         *)
THEOREM PhantomsGo == Spec => PhantomsAreDropped
BY PhantomDropped DEF PhantomsAreDropped
-----------------------------------------------------------------------------
(* The life of a manager                                                   *)

(* A Join that has not started its manager has none, and Restore has none  *)
(* that may still run for an endpoint that it has not come to, or that it  *)
(* makes another attempt for.                                              *)
LifeInv ==
  \A e \in Endpoints :
    /\ joiner[e] \in {"idle", "awaiting", "starting"}
         => manager[e]["joined"] = "none"
    /\ \/ restorer = "sleeping" \/ e \in todo
       \/ e \in current /\ restorer \in {"check", "open", "failed"}
       => manager[e]["restored"] \in {"none", "stopped"}

LivesInv == Inv /\ LifeInv

(* What a step may do to a manager.                                        *)
LifeStep ==
  \A e \in Endpoints, k \in Kinds :
     \/ UNCHANGED manager[e][k]
     \/ Life(e, k)!Next
     \/ k = "restored" /\ manager[e][k] = "stopped" /\ manager'[e][k] = "running"
     \/ restarts' = restarts + 1 /\ manager'[e][k] = "none"

(* To stop a manager and to receive its errChan value are steps of its     *)
(* life; neither makes a manager where there is none.                      *)
LEMMA StopLife ==
    ASSUME Inv, NEW f \in Endpoints, NEW j \in Kinds \cup {NoManager},
           \/ CloseStopChan(f, j) \/ ReceiveErrChan(f, j)
           \/ LoopExits(f, j) \/ LoopGivesUp(f, j)
    PROVE  /\ LifeStep
           /\ \A e \in Endpoints, k \in Kinds :
                manager[e][k] \in {"none", "stopped"} => manager'[e][k] = manager[e][k]
<1>1. manager \in [Endpoints -> [Kinds -> ManagerLabels]]
  BY DEF Inv, TypeOK
<1>2. \A e \in Endpoints, k \in Kinds :
        \/ manager'[e][k] = manager[e][k]
        \/ manager[e][k] = "running" /\ manager'[e][k] = "stopping"
        \/ manager[e][k] \in {"running", "stopping"} /\ manager'[e][k] = "exited"
        \/ manager[e][k] = "exited" /\ manager'[e][k] = "stopped"
  BY <1>1 DEF CloseStopChan, ReceiveErrChan, LoopExits, LoopGivesUp, Kinds
<1> QED
  BY <1>2 DEF LifeStep, Life!Next, Life!CloseStopChan, Life!End, Life!ReceiveErrChan

(* A step that makes no manager and moves neither a Join nor Restore.      *)
LEMMA LifeFrame ==
    ASSUME LifeInv,
           \A e \in Endpoints, k \in Kinds :
             manager[e][k] \in {"none", "stopped"} => manager'[e][k] = manager[e][k],
           UNCHANGED <<joiner, restorer, todo, current>>
    PROVE  LifeInv'
BY DEF LifeInv, Kinds

(* A request handler makes no manager; the one of Join starts the          *)
(* goroutine that will.                                                    *)
LEMMA HandlerLife ==
    ASSUME LivesInv, NEW e \in Endpoints, HandlerStep(e)
    PROVE  LifeStep /\ LifeInv'
<1> USE DEF LivesInv
<1>1. UNCHANGED <<restorer, todo, current>>
  BY DEF HandlerStep, restoreVars, restoreWork
<1>2. CASE LeaveStops(e) \/ LeaveStopped(e)
  <2>1. taken[e] \in Kinds \cup {NoManager}
    BY DEF Inv, TypeOK
  <2>2. CloseStopChan(e, taken[e]) \/ ReceiveErrChan(e, taken[e])
    BY <1>2 DEF LeaveStops, LeaveStopped
  <2> QED
    BY <1>1, <1>2, <2>1, <2>2, StopLife, LifeFrame DEF LeaveStops, LeaveStopped
<1>3. CASE JoinSpawns(e)
  <2>1. joiner[e] = "idle" /\ joiner \in [Endpoints -> JoinerLabels]
    BY <1>3 DEF JoinSpawns, At, Inv, TypeOK, HandlerInv, HandlerOK, JoinerInv
  <2> QED
    BY <1>1, <1>3, <2>1 DEF JoinSpawns, LifeInv, LifeStep
<1>4. CASE UNCHANGED <<manager, joiner>>
  BY <1>1, <1>4, LifeFrame DEF LifeStep
<1> QED
  BY <1>2, <1>3, <1>4 DEF HandlerStep, JoinRefused, JoinTakesHint, JoinFails,
     JoinPersists, LeaveTakesManager, LeaveMarks, DeleteLink, Forget, Forgotten, Reply

(* The goroutine of a Join makes its one manager.                          *)
LEMMA JoinerLife ==
    ASSUME LivesInv, NEW e \in Endpoints, JoinerStep(e)
    PROVE  LifeStep /\ LifeInv'
<1> USE DEF LivesInv, JoinerAt, Kinds
<1>1. /\ manager \in [Endpoints -> [Kinds -> ManagerLabels]]
      /\ joiner \in [Endpoints -> JoinerLabels]
      /\ UNCHANGED <<restorer, todo, current>>
  BY DEF Inv, TypeOK, JoinerStep, restoreVars, restoreWork
<1>2. CASE JoinerStarts(e)
  <2>1. /\ joiner[e] = "starting" /\ joiner' = [joiner EXCEPT ![e] = "started"]
        /\ manager' = [manager EXCEPT ![e]["joined"] = "running"]
    BY <1>2 DEF JoinerStarts, StartManager
  <2>2. manager[e]["joined"] = "none"
    BY <2>1 DEF LifeInv
  <2>3. LifeStep
    BY <1>1, <2>1, <2>2 DEF LifeStep, Life!Next, Life!Begin
  <2>4. LifeInv'
    BY <1>1, <2>1 DEF LifeInv
  <2> QED
    BY <2>3, <2>4
<1>3. CASE JoinerStops(e) \/ JoinerStopped(e)
  <2>1. /\ joiner[e] \in {"stop", "stopping"}
        /\ joiner' = [joiner EXCEPT ![e] = IF joiner[e] = "stop" THEN "stopping" ELSE "returning"]
        /\ CloseStopChan(e, "joined") \/ ReceiveErrChan(e, "joined")
    BY <1>3 DEF JoinerStops, JoinerStopped
  <2>2. /\ LifeStep
        /\ \A f \in Endpoints, k \in Kinds :
             manager[f][k] \in {"none", "stopped"} => manager'[f][k] = manager[f][k]
    BY <2>1, StopLife
  <2> QED
    BY <1>1, <2>1, <2>2 DEF LifeInv
<1>4. CASE JoinerSeesLink(e) \/ JoinerStartFails(e)
  BY <1>1, <1>4 DEF JoinerSeesLink, JoinerStartFails, LifeInv, LifeStep
<1>5. CASE \/ JoinerRegisters(e) \/ JoinerFindsLeft(e)
           \/ JoinerUpdates(e) \/ JoinerSaved(e) \/ JoinerReturns(e)
  BY <1>1, <1>5 DEF JoinerRegisters, JoinerFindsLeft, JoinerUpdates, JoinerSaved,
     JoinerReturns, LifeInv, LifeStep
<1> QED
  BY <1>2, <1>3, <1>4, <1>5 DEF JoinerStep

(* Restore starts a manager where there is none, or where the one of its   *)
(* last attempt is stopped.                                                *)
LEMMA RestoreLife ==
    ASSUME LivesInv, RestoreStep
    PROVE  LifeStep /\ LifeInv'
<1> USE DEF LivesInv, RestorerAt, RestoreDone, restoreWork, Kinds
<1>1. /\ manager \in [Endpoints -> [Kinds -> ManagerLabels]]
      /\ RestorerInv
      /\ todo \in SUBSET Endpoints /\ current \in SUBSET Endpoints
      /\ UNCHANGED joiner
  BY DEF Inv, TypeOK, RestoreStep
<1>2. ASSUME NEW e \in Endpoints, RestoreStarts(e)
      PROVE  LifeStep /\ LifeInv'
  <2>1. /\ e \in current /\ restorer = "open" /\ restorer' = "started"
        /\ manager' = [manager EXCEPT ![e]["restored"] = "running"]
        /\ UNCHANGED <<todo, current>>
    BY <1>2 DEF RestoreStarts, StartManager
  <2>2. manager[e]["restored"] \in {"none", "stopped"}
    BY <2>1 DEF LifeInv
  <2>3. LifeStep
    BY <1>1, <2>1, <2>2 DEF LifeStep, Life!Next, Life!Begin
  <2>4. LifeInv'
    BY <1>1, <2>1 DEF LifeInv, RestorerInv
  <2> QED
    BY <2>3, <2>4
<1>3. ASSUME NEW e \in Endpoints, RestoreStops(e) \/ RestoreStopped(e)
      PROVE  LifeStep /\ LifeInv'
  <2>1. e \in current /\ (CloseStopChan(e, "restored") \/ ReceiveErrChan(e, "restored"))
    BY <1>3 DEF RestoreStops, RestoreStopped
  <2>2. /\ LifeStep
        /\ \A f \in Endpoints, k \in Kinds :
             manager[f][k] \in {"none", "stopped"} => manager'[f][k] = manager[f][k]
    BY <2>1, StopLife
  <2>3. CASE RestoreStops(e)
    BY <1>1, <2>2, <2>3 DEF RestoreStops, LifeInv
  <2>4. CASE RestoreStopped(e)
    <3>1. manager'[e]["restored"] = "stopped"
      BY <1>1, <2>4 DEF RestoreStopped, ReceiveErrChan
    <3> QED
      BY <1>1, <2>1, <2>2, <2>4, <3>1 DEF RestoreStopped, LifeInv, RestorerInv
  <2> QED
    BY <1>3, <2>2, <2>3, <2>4
<1>4. CASE RestoreCopies \/ RestorePicks
  BY <1>1, <1>4 DEF RestoreCopies, RestorePicks, LifeInv, LifeStep
<1>5. CASE RestoreEnds \/ RestoreIsCancelled \/ RestoreDropped
  BY <1>1, <1>5 DEF RestoreEnds, RestoreIsCancelled, RestoreDropped, LifeInv, LifeStep
<1>6. CASE RestoreAttemptFails \/ RestoreRetries
  BY <1>1, <1>6 DEF RestoreAttemptFails, RestoreRetries, LifeInv, LifeStep
<1>7. ASSUME NEW e \in Endpoints,
             \/ RestoreFindsManager(e) \/ RestoreFindsNone(e) \/ RestoreRegisters(e)
             \/ RestoreFindsJoin(e) \/ RestoreFindsLeft(e) \/ RestoreDrops(e)
      PROVE  LifeStep /\ LifeInv'
  BY <1>1, <1>7 DEF RestoreFindsManager, RestoreFindsNone, RestoreRegisters,
     RestoreFindsJoin, RestoreFindsLeft, RestoreDrops, LifeInv, LifeStep
<1> QED
  BY <1>2, <1>3, <1>4, <1>5, <1>6, <1>7 DEF RestoreStep

(* Close stops managers, and a new process has none.                       *)
LEMMA NextLife ==
    ASSUME LivesInv, [Next]_vars
    PROVE  (LifeStep \/ UNCHANGED vars) /\ LivesInv'
<1> USE DEF LivesInv
<1>1. Inv'
  BY NextInv
<1>2. CASE UNCHANGED <<manager, joiner, restorer, todo, current>>
  BY <1>1, <1>2, LifeFrame DEF LifeStep
<1>3. ASSUME NEW e \in Endpoints, LoopStep(e)
      PROVE  LifeStep /\ LifeInv'
  BY <1>3, StopLife, LifeFrame DEF LoopStep, LoopExits, LoopGivesUp, LoopFrame, restoreVars,
     restoreWork
<1>4. CASE RestoreTimesOut \/ CloseCancelsRestore \/ DockerStep \/ UNCHANGED vars
  <2>1. CASE DockerStep
    BY <1>2, <2>1 DEF DockerStep, restoreVars, restoreWork
  <2>2. CASE RestoreTimesOut \/ CloseCancelsRestore \/ UNCHANGED vars
    BY <1>2, <2>2 DEF RestoreTimesOut, CloseCancelsRestore, vars, restoreVars, restoreWork
  <2> QED
    BY <1>4, <2>1, <2>2
<1>5. CASE CloseStep
  <2>1. UNCHANGED <<joiner, restorer, todo, current>>
    BY <1>5 DEF CloseStep, restoreVars, restoreWork
  <2>2. ASSUME NEW m \in Endpoints \X Kinds, CloseStops(m) \/ CloseStopped(m)
        PROVE  LifeStep /\ LifeInv'
    <3>1. m[1] \in Endpoints /\ m[2] \in Kinds \cup {NoManager}
      OBVIOUS
    <3>2. CloseStopChan(m[1], m[2]) \/ ReceiveErrChan(m[1], m[2])
      BY <2>2 DEF CloseStops, CloseStopped
    <3> QED
      BY <2>1, <3>1, <3>2, StopLife, LifeFrame
  <2> QED
    BY <1>1, <1>2, <1>5, <2>1, <2>2 DEF CloseStep, CloseCopies, CloseExits
<1>6. CASE PluginRestarts \/ HostReboots
  <2>1. /\ restarts' = restarts + 1 /\ restorer' = "sleeping"
        /\ manager' = NothingStarted
    BY <1>6 DEF PluginRestarts, HostReboots, ProcessStarts
  <2>2. \A e \in Endpoints, k \in Kinds : manager'[e][k] = "none"
    BY <2>1 DEF NothingStarted
  <2> QED
    BY <1>1, <2>1, <2>2 DEF LifeStep, LifeInv, Kinds
<1> QED
  BY <1>1, <1>2, <1>3, <1>4, <1>5, <1>6, HandlerLife, JoinerLife, RestoreLife
  DEF Next, PluginStep

(* A manager is used as ManagerLife promises, and no manager takes the     *)
(* place of one that may still run (network.go:751-768, plugin.go:392-412, *)
(* 553-558).                                                               *)
THEOREM ManagersKeepToLife == Spec => ManagersLiveOnce
<1>1. Init => LivesInv
  BY InitInv DEF Init, StartsWith, LivesInv, LifeInv, NothingStarted, Kinds
<1>2. LivesInv /\ [Next]_vars => [LifeStep]_vars
  BY NextLife
<1>3. LivesInv /\ [Next]_vars => LivesInv'
  BY NextLife
<1>4. Spec => [][LifeStep]_vars
  BY <1>1, <1>2, <1>3, PTL DEF Spec
<1> QED
  BY <1>4 DEF LifeStep, ManagersLiveOnce
=============================================================================
