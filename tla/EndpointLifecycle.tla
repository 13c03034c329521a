------------------------- MODULE EndpointLifecycle -------------------------
(***************************************************************************)
(* The life of endpoints in the plugin (pkg/plugin): the handlers of the   *)
(* Join, Leave and DeleteEndpoint requests, the goroutine that Join starts *)
(* to bring up the persistent DHCP client, the Restore goroutine, Close,   *)
(* and crashes and restarts of the process.  A step is one critical        *)
(* section of p.mu or one blocking call.                                   *)
(*                                                                         *)
(* dockerd is the environment: it sends the requests of one endpoint one   *)
(* after the other, moves the interface into the sandbox after Join, and   *)
(* tears it down after Leave; an endpoint ID is used once.  A request that *)
(* a restart of the plugin cut off is sent again or given up.              *)
(***************************************************************************)
EXTENDS Integers

CONSTANTS
    Endpoints,    \* the endpoint IDs
    NoSnapshot,   \* a goroutine has no snapshot to save
    FaultyDisk,   \* whether reads and writes of state.json may fail
    MaxRetries,   \* length of restoreBackoffs (3 in the code)
    MaxRestarts,  \* bound on the restarts of the plugin
    MayClose      \* whether the plugin may be told to shut down

ASSUME LifecycleAssumption ==
    /\ FaultyDisk \in BOOLEAN
    /\ MayClose \in BOOLEAN
    /\ MaxRetries \in Nat
    /\ MaxRestarts \in Nat

(* The goroutines that change the endpoint table.                          *)
Handler(e) == <<"handler", e>>
Joiner(e) == <<"joiner", e>>
Restorer == <<"restorer", "restorer">>
Threads == {Handler(e) : e \in Endpoints} \cup {Joiner(e) : e \in Endpoints}
             \cup {Restorer}

(* A dhcpManager is made by a Join goroutine or by Restore.                *)
Kinds == {"joined", "restored"}
NoManager == "none"

VARIABLES
    state, leftEndpoints, snapshot, file,  \* see StateTable
    joinHints,       \* endpoints with a hint
    persistentDHCP,  \* per endpoint: the registered manager
    manager,         \* per endpoint and kind: what the manager is doing
    handler,         \* per endpoint: where its request handler is
    taken,           \* per endpoint: the manager its Leave took out to stop
    joiner,          \* per endpoint: where its Join goroutine is
    restorer,        \* where the Restore goroutine is
    todo,            \* the endpoints of Restore's snapshot still to do
    current,         \* the one it is working on (a set of at most one)
    attempt,         \* number of retries for it
    restoreCtxDone,  \* Restore's context is cancelled or timed out
    closer,          \* where Close is
    toStop,          \* the managers of Close's snapshot still to stop
    closing,         \* the one it is stopping (a set of at most one)
    docker,          \* per endpoint: how far dockerd has come
    link,            \* per endpoint: where its interface is
    restarts

INSTANCE StateTable WITH Writers <- Threads

table == <<state, leftEndpoints, snapshot, file>>
mapVars == <<joinHints, persistentDHCP>>
handlerVars == <<handler, taken>>
restoreWork == <<todo, current, attempt, restoreCtxDone>>
restoreVars == <<restorer, restoreWork>>
closeVars == <<closer, toStop, closing>>
dockerVars == <<docker, link>>
vars == <<table, mapVars, manager, handlerVars, joiner, restoreVars,
          closeVars, dockerVars, restarts>>

NoManagers == [e \in Endpoints |-> NoManager]
NothingStarted == [e \in Endpoints |-> [k \in Kinds |-> "none"]]
AllIdle == [e \in Endpoints |-> "idle"]

StartsWith(restoring) ==
    /\ TableInit
    /\ joinHints = {}
    /\ persistentDHCP = NoManagers
    /\ manager = NothingStarted
    /\ handler = AllIdle
    /\ taken = NoManagers
    /\ joiner = AllIdle
    /\ restorer = restoring
    /\ todo = {}
    /\ current = {}
    /\ attempt = 0
    /\ restoreCtxDone = FALSE
    /\ closer = "idle"
    /\ toStop = {}
    /\ closing = {}
    /\ docker = [e \in Endpoints |-> "new"]
    /\ link = [e \in Endpoints |-> "none"]
    /\ restarts = 0

Init == StartsWith("sleeping")

(* The same plugin once its first Restore has found nothing to do.         *)
RunningInit == StartsWith("complete")
-----------------------------------------------------------------------------
(* dockerd                                                                 *)

(* CreateEndpoint made the interface, got an address for it and stored the *)
(* hint, or failed and cleaned up.                                         *)
CreateEndpoint(e) ==
    /\ docker[e] = "new"
    /\ \/ /\ docker' = [docker EXCEPT ![e] = "created"]
          /\ link' = [link EXCEPT ![e] = "host"]
          /\ joinHints' = joinHints \cup {e}
       \/ /\ docker' = [docker EXCEPT ![e] = "deleted"]
          /\ UNCHANGED <<link, joinHints>>
    /\ UNCHANGED handlerVars

(* dockerd sends a request, for the first time or again after a restart of *)
(* the plugin cut it off.                                                  *)
Request(e, before, during, entry) ==
    /\ docker[e] \in before \cup {during}
    /\ handler[e] = "idle"
    /\ docker' = [docker EXCEPT ![e] = during]
    /\ handler' = [handler EXCEPT ![e] = entry]
    /\ UNCHANGED <<joinHints, taken, link>>

SendJoin(e) == Request(e, {"created"}, "joining", "join")
SendLeave(e) == Request(e, {"joined"}, "leaving", "leave")
SendDelete(e) == Request(e, {"left", "failed"}, "deleting", "delete")

(* dockerd goes on without the answer of a request that was cut off.       *)
GiveUp(e) ==
    /\ handler[e] = "idle"
    /\ \/ docker[e] = "joining" /\ docker' = [docker EXCEPT ![e] = "failed"]
       \/ docker[e] = "leaving" /\ docker' = [docker EXCEPT ![e] = "left"]
       \/ docker[e] = "deleting" /\ docker' = [docker EXCEPT ![e] = "deleted"]
    /\ UNCHANGED <<joinHints, handlerVars, link>>

MoveLink(e) ==
    /\ docker[e] = "joined" /\ link[e] = "host"
    /\ link' = [link EXCEPT ![e] = "sandbox"]
    /\ UNCHANGED <<joinHints, handlerVars, docker>>

TearDown(e) ==
    /\ docker[e] \in {"left", "failed", "deleting", "deleted"}
    /\ link[e] \in {"host", "sandbox"}
    /\ link' = [link EXCEPT ![e] = "gone"]
    /\ UNCHANGED <<joinHints, handlerVars, docker>>
-----------------------------------------------------------------------------
(* dhcpManager, seen from outside: its event loop runs until Stop closes   *)
(* stopChan or it gives up on udhcpc, and then sends one value on errChan; *)
(* Stop closes stopChan and receives that value.                           *)

Live(e, k) == manager[e][k] \in {"running", "stopping"}

StartManager(e, k) == manager' = [manager EXCEPT ![e][k] = "running"]

CloseStopChan(e, k) ==
    manager' = [manager EXCEPT ![e][k] = IF @ = "running" THEN "stopping" ELSE @]

ReceiveErrChan(e, k) ==
    /\ manager[e][k] = "exited"
    /\ manager' = [manager EXCEPT ![e][k] = "stopped"]

LoopFrame ==
    UNCHANGED <<table, mapVars, handlerVars, joiner, restoreVars, closeVars,
                dockerVars, restarts>>

LoopExits(e, k) ==
    /\ manager[e][k] = "stopping"
    /\ manager' = [manager EXCEPT ![e][k] = "exited"]
    /\ LoopFrame

(* What if the loop sent nothing on errChan when it gives up?              *)
LoopGivesUpSilently(e, k) ==
    /\ manager[e][k] = "running"
    /\ manager' = [manager EXCEPT ![e][k] = "stopped"]
    /\ LoopFrame

(* All restart attempts of udhcpc failed, or renew panicked.               *)
LoopGivesUp(e, k) ==
    /\ manager[e][k] = "running"
    /\ manager' = [manager EXCEPT ![e][k] = "exited"]
    /\ LoopFrame
-----------------------------------------------------------------------------
(* The request handlers                                                    *)

At(e, here, there) ==
    /\ handler[e] = here
    /\ handler' = [handler EXCEPT ![e] = there]

(* Saves the pending snapshot, whether or not that succeeds.               *)
SaveEnds(t) == SaveState(t) \/ SaveStateFails(t)

(* netOptions fails, or the hint is missing: nothing has changed yet.      *)
JoinRefused(e) ==
    /\ At(e, "join", "replyError")
    /\ UNCHANGED <<table, mapVars, manager, taken, joiner, dockerVars>>

JoinTakesHint(e) ==
    /\ At(e, "join", "routes")
    /\ e \in joinHints
    /\ joinHints' = joinHints \ {e}
    /\ UNCHANGED <<table, persistentDHCP, manager, taken, joiner, dockerVars>>

(* The bridge is not found, or its routes cannot be listed.                *)
JoinFails(e) ==
    /\ At(e, "routes", "replyError")
    /\ UNCHANGED <<table, mapVars, manager, taken, joiner, dockerVars>>

(* The record is written before the manager runs.                          *)
JoinPersists(e) ==
    /\ At(e, "routes", "joinSaving")
    /\ AddStateEntry(Handler(e), e)
    /\ UNCHANGED <<mapVars, manager, taken, joiner, dockerVars>>

JoinSpawns(e) ==
    /\ At(e, "joinSaving", "replyOK")
    /\ SaveEnds(Handler(e))
    /\ joiner' = [joiner EXCEPT ![e] = "awaiting"]
    /\ UNCHANGED <<mapVars, manager, taken, dockerVars>>

(* What if Leave left the stop to the manager?                             *)
LeaveDropsManager(e) ==
    /\ At(e, "leave", "forget")
    /\ persistentDHCP[e] # NoManager
    /\ persistentDHCP' = [persistentDHCP EXCEPT ![e] = NoManager]
    /\ UNCHANGED <<table, joinHints, manager, taken, joiner, dockerVars>>

(* What if Leave left the manager in the map?                              *)
LeaveKeepsManager(e) ==
    /\ At(e, "leave", "stop")
    /\ persistentDHCP[e] # NoManager
    /\ taken' = [taken EXCEPT ![e] = persistentDHCP[e]]
    /\ UNCHANGED <<table, mapVars, manager, joiner, dockerVars>>

(* Leave takes the manager out of the map to stop it; without one it marks *)
(* the endpoint.  It also cancels the goroutine of Join, if this is in     *)
(* cancelJoin: the map is left out, as that goroutine may give up at any   *)
(* time, by its timeout too (see JoinerStartFails).                        *)
LeaveTakesManager(e) ==
    /\ At(e, "leave", "stop")
    /\ persistentDHCP[e] # NoManager
    /\ taken' = [taken EXCEPT ![e] = persistentDHCP[e]]
    /\ persistentDHCP' = [persistentDHCP EXCEPT ![e] = NoManager]
    /\ UNCHANGED <<table, joinHints, manager, joiner, dockerVars>>

LeaveMarks(e) ==
    /\ At(e, "leave", "forget")
    /\ persistentDHCP[e] = NoManager
    /\ MarkLeft(e)
    /\ UNCHANGED <<mapVars, manager, taken, joiner, dockerVars>>

LeaveStops(e) ==
    /\ At(e, "stop", "stopping")
    /\ CloseStopChan(e, taken[e])
    /\ UNCHANGED <<table, mapVars, taken, joiner, dockerVars>>

LeaveStopped(e) ==
    /\ At(e, "stopping", "forget")
    /\ ReceiveErrChan(e, taken[e])
    /\ taken' = [taken EXCEPT ![e] = NoManager]
    /\ UNCHANGED <<table, mapVars, joiner, dockerVars>>

(* DeleteEndpoint deletes the host veth, best effort; other modes leave    *)
(* the interface to the sandbox.                                           *)
DeleteLink(e) ==
    /\ At(e, "delete", "forget")
    /\ link' \in {link, [link EXCEPT ![e] = "gone"]}
    /\ UNCHANGED <<table, mapVars, manager, taken, joiner, docker>>

(* The deferred removeStateEntry of Leave and DeleteEndpoint.              *)
Forget(e) ==
    /\ At(e, "forget", IF state[e] = Absent THEN "replyOK" ELSE "forgetSaving")
    /\ RemoveStateEntry(Handler(e), e)
    /\ UNCHANGED <<mapVars, manager, taken, joiner, dockerVars>>

Forgotten(e) ==
    /\ At(e, "forgetSaving", "replyOK")
    /\ SaveEnds(Handler(e))
    /\ UNCHANGED <<mapVars, manager, taken, joiner, dockerVars>>

Answered == [joining |-> "joined", leaving |-> "left", deleting |-> "deleted"]

Reply(e) ==
    /\ \/ At(e, "replyOK", "idle")
          /\ docker' = [docker EXCEPT ![e] = Answered[@]]
       \/ At(e, "replyError", "idle")
          /\ docker' = [docker EXCEPT ![e] = "failed"]
    /\ UNCHANGED <<table, mapVars, manager, taken, joiner, link>>

HandlerStep(e) ==
    /\ \/ JoinRefused(e) \/ JoinTakesHint(e) \/ JoinFails(e)
       \/ JoinPersists(e) \/ JoinSpawns(e)
       \/ LeaveTakesManager(e) \/ LeaveMarks(e) \/ LeaveStops(e)
       \/ LeaveStopped(e)
       \/ DeleteLink(e) \/ Forget(e) \/ Forgotten(e)
       \/ Reply(e)
    /\ UNCHANGED <<restoreVars, closeVars, restarts>>
-----------------------------------------------------------------------------
(* The goroutine of Join                                                   *)

JoinerAt(e, here, there) ==
    /\ joiner[e] = here
    /\ joiner' = [joiner EXCEPT ![e] = there]

(* Start sees the interface in the sandbox, under its new name; the answer *)
(* of the last wait may win over a cancellation.                           *)
JoinerSeesLink(e) ==
    /\ JoinerAt(e, "awaiting", "starting")
    /\ link[e] = "sandbox"
    /\ UNCHANGED <<table, mapVars, manager>>

(* Start gives up: the context is cancelled or times out, or a netlink or  *)
(* udhcpc call fails; see ManagerStart.                                    *)
JoinerStartFails(e) ==
    /\ \/ JoinerAt(e, "awaiting", "returning")
       \/ JoinerAt(e, "starting", "returning")
    /\ UNCHANGED <<table, mapVars, manager>>

(* startClients, which takes no context.                                   *)
JoinerStarts(e) ==
    /\ JoinerAt(e, "starting", "started")
    /\ StartManager(e, "joined")
    /\ UNCHANGED <<table, mapVars>>

JoinerRegisters(e) ==
    /\ JoinerAt(e, "started", "registered")
    /\ e \notin leftEndpoints
    /\ persistentDHCP' = [persistentDHCP EXCEPT ![e] = "joined"]
    /\ UNCHANGED <<table, manager>>

(* What if the manager of an endpoint that was left kept running?          *)
JoinerForgetsToStop(e) ==
    /\ JoinerAt(e, "started", "returning")
    /\ e \in leftEndpoints
    /\ leftEndpoints' = leftEndpoints \ {e}
    /\ UNCHANGED <<state, snapshot, file, mapVars, manager>>

(* The endpoint was left during the start.                                 *)
JoinerFindsLeft(e) ==
    /\ JoinerAt(e, "started", "stop")
    /\ e \in leftEndpoints
    /\ leftEndpoints' = leftEndpoints \ {e}
    /\ UNCHANGED <<state, snapshot, file, mapVars, manager>>

JoinerStops(e) ==
    /\ JoinerAt(e, "stop", "stopping")
    /\ CloseStopChan(e, "joined")
    /\ UNCHANGED <<table, mapVars>>

JoinerStopped(e) ==
    /\ JoinerAt(e, "stopping", "returning")
    /\ ReceiveErrChan(e, "joined")
    /\ UNCHANGED <<table, mapVars>>

(* A hostname was found: the record is updated and saved.                  *)
JoinerUpdates(e) ==
    /\ JoinerAt(e, "registered", "saving")
    /\ UpdateStateEntry(Joiner(e), e)
    /\ UNCHANGED <<mapVars, manager>>

JoinerSaved(e) ==
    /\ JoinerAt(e, "saving", "returning")
    /\ SaveEnds(Joiner(e))
    /\ UNCHANGED <<mapVars, manager>>

(* The deferred calls; also after a registration without a hostname.       *)
JoinerReturns(e) ==
    /\ \/ JoinerAt(e, "returning", "done")
       \/ JoinerAt(e, "registered", "done")
    /\ UNCHANGED <<table, mapVars, manager>>

JoinerStep(e) ==
    /\ \/ JoinerSeesLink(e)
       \/ JoinerStartFails(e) \/ JoinerStarts(e)
       \/ JoinerRegisters(e) \/ JoinerFindsLeft(e)
       \/ JoinerStops(e) \/ JoinerStopped(e)
       \/ JoinerUpdates(e) \/ JoinerSaved(e) \/ JoinerReturns(e)
    /\ UNCHANGED <<joinHints, handlerVars, restoreVars, closeVars, dockerVars,
                   restarts>>
-----------------------------------------------------------------------------
(* Restore: one endpoint of its snapshot at a time, in any order; `current`*)
(* holds the endpoint being worked on.                                     *)

RestorerAt(here, there) == restorer = here /\ restorer' = there

(* The delay before Restore cannot be cancelled.                           *)
RestoreCopies ==
    /\ RestorerAt("sleeping", "next")
    /\ todo' = {e \in Endpoints : state[e] # Absent}
    /\ UNCHANGED <<table, mapVars, manager, current, attempt, restoreCtxDone>>

RestorePicks ==
    /\ RestorerAt("next", "check")
    /\ ~restoreCtxDone
    /\ \E e \in todo : current' = {e} /\ todo' = todo \ {e}
    /\ attempt' = 0
    /\ UNCHANGED <<table, mapVars, manager, restoreCtxDone>>

(* Restore returns, for lack of work or of time, and StartRestore's        *)
(* goroutine sets restoreComplete in both cases.                           *)
RestoreEnds ==
    /\ RestorerAt("next", "complete")
    /\ todo = {} \/ restoreCtxDone
    /\ todo' = {}
    /\ UNCHANGED <<table, mapVars, manager, current, attempt, restoreCtxDone>>

RestoreDone(from) ==
    /\ RestorerAt(from, "next")
    /\ current' = {} /\ attempt' = 0
    /\ UNCHANGED <<todo, restoreCtxDone>>

RestoreFindsManager(e) ==
    /\ e \in current /\ persistentDHCP[e] # NoManager
    /\ RestoreDone("check")
    /\ UNCHANGED <<table, mapVars, manager>>

RestoreFindsNone(e) ==
    /\ e \in current /\ persistentDHCP[e] = NoManager
    /\ RestorerAt("check", "open")
    /\ UNCHANGED <<table, mapVars, manager, restoreWork>>

(* The sandbox and the interface with its address are there, and the       *)
(* clients start.                                                          *)
RestoreStarts(e) ==
    /\ e \in current /\ link[e] = "sandbox"
    /\ RestorerAt("open", "started")
    /\ StartManager(e, "restored")
    /\ UNCHANGED <<table, mapVars, restoreWork>>

RestoreAttemptFails ==
    /\ RestorerAt("open", "failed")
    /\ UNCHANGED <<table, mapVars, manager, restoreWork>>

(* The second look, under p.mu, before the manager is registered.          *)
RestoreRegisters(e) ==
    /\ e \in current \ leftEndpoints /\ persistentDHCP[e] = NoManager
    /\ RestoreDone("started")
    /\ persistentDHCP' = [persistentDHCP EXCEPT ![e] = "restored"]
    /\ UNCHANGED <<table, manager>>

RestoreFindsJoin(e) ==
    /\ e \in current /\ persistentDHCP[e] # NoManager
    /\ RestorerAt("started", "discard")
    /\ UNCHANGED <<table, mapVars, manager, restoreWork>>

(* What if the next attempt was made without a stop?                       *)
RestoreRetriesLeft(e) ==
    /\ e \in current \cap leftEndpoints /\ persistentDHCP[e] = NoManager
    /\ RestorerAt("started", "failed")
    /\ leftEndpoints' = leftEndpoints \ {e}
    /\ UNCHANGED <<state, snapshot, file, mapVars, manager, restoreWork>>

RestoreFindsLeft(e) ==
    /\ e \in current \cap leftEndpoints /\ persistentDHCP[e] = NoManager
    /\ RestorerAt("started", "left")
    /\ leftEndpoints' = leftEndpoints \ {e}
    /\ UNCHANGED <<state, snapshot, file, mapVars, manager, restoreWork>>

(* What if the registered manager was stopped instead of the new one?      *)
RestoreStopsJoin(e) ==
    /\ e \in current
    /\ \/ RestorerAt("discard", "discarding")
       \/ RestorerAt("left", "leaving")
    /\ CloseStopChan(e, "joined")
    /\ UNCHANGED <<table, mapVars, restoreWork>>

RestoreStops(e) ==
    /\ e \in current
    /\ \/ RestorerAt("discard", "discarding")
       \/ RestorerAt("left", "leaving")
    /\ CloseStopChan(e, "restored")
    /\ UNCHANGED <<table, mapVars, restoreWork>>

(* With the manager stopped, Join's one serves (no error), or the endpoint *)
(* was left, which is an error like any other and is retried.              *)
RestoreStopped(e) ==
    /\ e \in current
    /\ \/ RestoreDone("discarding")
       \/ RestorerAt("leaving", "failed")
          /\ UNCHANGED restoreWork
    /\ ReceiveErrChan(e, "restored")
    /\ UNCHANGED <<table, mapVars>>

(* What if the retries were not bounded?                                   *)
RestoreRetriesUnbounded ==
    /\ RestorerAt("failed", "check")
    /\ attempt' = attempt + 1
    /\ UNCHANGED <<table, mapVars, manager, todo, current, restoreCtxDone>>

(* What if they were neither counted nor cancelled?                        *)
RestoreRetriesUncounted ==
    /\ RestorerAt("failed", "check")
    /\ attempt < MaxRetries
    /\ UNCHANGED <<table, mapVars, manager, restoreWork>>

(* What if the record was dropped before the retries and not after them?   *)
RestoreRetriesForgetting ==
    /\ RestorerAt("failed", "check")
    /\ attempt < MaxRetries
    /\ attempt' = attempt + 1
    /\ \E e \in current : RemoveStateEntry(Restorer, e)
    /\ UNCHANGED <<mapVars, manager, todo, current, restoreCtxDone>>

(* Back to the start of restoreFromState after a delay.                     *)
RestoreRetries ==
    /\ RestorerAt("failed", "check")
    /\ attempt < MaxRetries
    /\ attempt' = attempt + 1
    /\ UNCHANGED <<table, mapVars, manager, todo, current, restoreCtxDone>>

RestoreIsCancelled ==
    /\ RestorerAt("failed", "complete")
    /\ attempt < MaxRetries
    /\ restoreCtxDone
    /\ todo' = {} /\ current' = {} /\ attempt' = 0
    /\ UNCHANGED <<table, mapVars, manager, restoreCtxDone>>

(* What if the record was kept after the last attempt?                     *)
RestoreKeeps(e) ==
    /\ e \in current /\ attempt = MaxRetries
    /\ RestorerAt("failed", "dropped")
    /\ UNCHANGED <<table, mapVars, manager, restoreWork>>

RestoreDrops(e) ==
    /\ e \in current /\ attempt = MaxRetries
    /\ RestorerAt("failed", "dropped")
    /\ RemoveStateEntry(Restorer, e)
    /\ UNCHANGED <<mapVars, manager, restoreWork>>

(* Nothing is saved when the entry was already gone.                       *)
RestoreDropped ==
    /\ RestoreDone("dropped")
    /\ \/ SaveEnds(Restorer)
       \/ ~Saving(Restorer) /\ UNCHANGED table
    /\ UNCHANGED <<mapVars, manager>>

RestoreTimesOut ==
    /\ restorer # "complete"
    /\ ~restoreCtxDone
    /\ restoreCtxDone' = TRUE
    /\ UNCHANGED <<table, mapVars, manager, handlerVars, joiner, restorer, todo,
                   current, attempt, closeVars, dockerVars, restarts>>

RestoreStep ==
    /\ \/ RestoreCopies \/ RestorePicks \/ RestoreEnds
       \/ RestoreAttemptFails \/ RestoreRetries \/ RestoreIsCancelled
       \/ RestoreDropped
       \/ \E e \in Endpoints :
            \/ RestoreFindsManager(e) \/ RestoreFindsNone(e)
            \/ RestoreStarts(e)
            \/ RestoreRegisters(e) \/ RestoreFindsJoin(e)
            \/ RestoreFindsLeft(e)
            \/ RestoreStops(e) \/ RestoreStopped(e) \/ RestoreDrops(e)
    /\ UNCHANGED <<joinHints, handlerVars, joiner,
                   closeVars, dockerVars, restarts>>
-----------------------------------------------------------------------------
(* Close, on SIGTERM; the HTTP server serves until Close has stopped every *)
(* manager of its snapshot.                                                *)

CloserAt(here, there) == closer = here /\ closer' = there

CloseCancelsRestore ==
    /\ MayClose
    /\ CloserAt("idle", "waiting")
    /\ restoreCtxDone' = (restoreCtxDone \/ restorer # "complete")
    /\ UNCHANGED <<table, mapVars, manager, handlerVars, joiner, restorer, todo,
                   current, attempt, toStop, closing, dockerVars, restarts>>

CloseCopies ==
    /\ CloserAt("waiting", "stop")
    /\ restorer = "complete"
    /\ toStop' = {m \in Endpoints \X Kinds : persistentDHCP[m[1]] = m[2]}
    /\ UNCHANGED <<closing, manager>>

CloseStops(m) ==
    /\ CloserAt("stop", "stopping")
    /\ m \in toStop
    /\ toStop' = toStop \ {m}
    /\ closing' = {m}
    /\ CloseStopChan(m[1], m[2])

CloseStopped(m) ==
    /\ CloserAt("stopping", "stop")
    /\ m \in closing
    /\ closing' = {}
    /\ ReceiveErrChan(m[1], m[2])
    /\ UNCHANGED toStop

(* The server is closed and main returns.                                  *)
CloseExits ==
    /\ CloserAt("stop", "exited")
    /\ toStop = {}
    /\ UNCHANGED <<manager, toStop, closing>>

CloseStep ==
    /\ \/ CloseCopies \/ CloseExits
       \/ \E m \in Endpoints \X Kinds : CloseStops(m) \/ CloseStopped(m)
    /\ UNCHANGED <<table, mapVars, handlerVars, joiner, restoreVars, dockerVars,
                   restarts>>
-----------------------------------------------------------------------------
(* The process dies at any point, or has exited, and is started again; its *)
(* udhcpc processes die with it.                                           *)
ProcessStarts ==
    /\ restarts < MaxRestarts
    /\ restarts' = restarts + 1
    /\ joinHints' = {}
    /\ persistentDHCP' = NoManagers
    /\ manager' = NothingStarted
    /\ handler' = AllIdle
    /\ taken' = NoManagers
    /\ joiner' = AllIdle
    /\ restorer' = "sleeping"
    /\ todo' = {}
    /\ current' = {}
    /\ attempt' = 0
    /\ restoreCtxDone' = FALSE
    /\ closer' = "idle"
    /\ toStop' = {}
    /\ closing' = {}

PluginRestarts ==
    /\ ProcessStarts
    /\ Restart \/ RestartUnread
    /\ UNCHANGED dockerVars

(* The host reboots: the sandboxes are gone, and dockerd will not finish   *)
(* what it had begun for their endpoints except tear them down.            *)
HostReboots ==
    /\ ProcessStarts
    /\ Restart
    /\ link' = [e \in Endpoints |-> IF link[e] = "none" THEN "none" ELSE "gone"]
    /\ docker' = [e \in Endpoints |->
         IF docker[e] \in {"created", "joining"} THEN "failed" ELSE docker[e]]
-----------------------------------------------------------------------------
LoopStep(e) == \E k \in Kinds : LoopExits(e, k) \/ LoopGivesUp(e, k)

(* Once Close has returned the process is no more.                         *)
PluginStep ==
    /\ closer # "exited"
    /\ \/ \E e \in Endpoints : HandlerStep(e) \/ JoinerStep(e) \/ LoopStep(e)
       \/ RestoreStep \/ RestoreTimesOut
       \/ CloseCancelsRestore \/ CloseStep

DockerStep ==
    /\ \E e \in Endpoints :
         \/ closer # "exited" /\ CreateEndpoint(e)
         \/ SendJoin(e) \/ SendLeave(e) \/ SendDelete(e) \/ GiveUp(e)
         \/ MoveLink(e) \/ TearDown(e)
    /\ UNCHANGED <<table, persistentDHCP, manager,
                   joiner, restoreVars, closeVars, restarts>>

Next == PluginStep \/ DockerStep \/ PluginRestarts \/ HostReboots

(* Every goroutine of the plugin is scheduled, and its blocking calls end: *)
(* Finish kills udhcpc after 5s, the Join goroutine has awaitTimeout.      *)
(* Nothing is assumed of dockerd, nor that a fault or a shutdown happens.  *)
Fairness ==
    /\ \A e \in Endpoints :
         /\ WF_vars(closer # "exited" /\ HandlerStep(e))
         /\ WF_vars(closer # "exited" /\ JoinerStep(e))
         /\ \A k \in Kinds : WF_vars(closer # "exited" /\ LoopExits(e, k))
    /\ WF_vars(closer # "exited" /\ RestoreStep)
    /\ WF_vars(closer # "exited" /\ CloseStep)

Spec == Init /\ [][Next]_vars
FairSpec == Spec /\ Fairness

RunningSpec == RunningInit /\ [][Next]_vars
-----------------------------------------------------------------------------
HandlerLabels ==
    {"idle", "join", "routes", "joinSaving", "leave", "stop", "stopping",
     "delete", "forget", "forgetSaving", "replyOK", "replyError"}
JoinerLabels ==
    {"idle", "awaiting", "starting", "started", "registered",
     "saving", "stop", "stopping", "returning", "done"}
RestorerLabels ==
    {"sleeping", "next", "check", "open", "started", "discard", "discarding",
     "left", "leaving", "failed", "dropped", "complete"}
CloserLabels == {"idle", "waiting", "stop", "stopping", "exited"}
DockerLabels ==
    {"new", "created", "joining", "joined", "leaving", "left", "failed",
     "deleting", "deleted"}
ManagerLabels == {"none", "running", "stopping", "exited", "stopped"}

(* Every variable has a value of its kind.                                 *)
TypeOK ==
    /\ TableTypeOK
    /\ joinHints \in SUBSET Endpoints
    /\ persistentDHCP \in [Endpoints -> Kinds \cup {NoManager}]
    /\ manager \in [Endpoints -> [Kinds -> ManagerLabels]]
    /\ handler \in [Endpoints -> HandlerLabels]
    /\ taken \in [Endpoints -> Kinds \cup {NoManager}]
    /\ joiner \in [Endpoints -> JoinerLabels]
    /\ restorer \in RestorerLabels
    /\ todo \in SUBSET Endpoints
    /\ current \in SUBSET Endpoints
    /\ attempt \in 0 .. MaxRetries
    /\ restoreCtxDone \in BOOLEAN
    /\ closer \in CloserLabels
    /\ toStop \in SUBSET (Endpoints \X Kinds)
    /\ closing \in SUBSET (Endpoints \X Kinds)
    /\ docker \in [Endpoints -> DockerLabels]
    /\ link \in [Endpoints -> {"none", "host", "sandbox", "gone"}]
    /\ restarts \in 0 .. MaxRestarts

(* Who may still stop a manager: the map, through Leave; the Leave that    *)
(* took it out; the goroutine that made it and has not registered it; and  *)
(* Close, from its snapshot.                                               *)
InMap(e, k) == persistentDHCP[e] = k
WithLeave(e, k) == taken[e] = k
WithMaker(e, k) ==
    \/ k = "joined" /\ joiner[e] \in {"started", "stop", "stopping"}
    \/ k = "restored" /\ e \in current /\ restorer \in
         {"started", "discard", "discarding", "left", "leaving"}
WithClose(e, k) == <<e, k>> \in toStop \cup closing

(* No two of the map, a Leave and the goroutine that made the manager hold *)
(* it, and Close gets none from a goroutine that made it: a manager that   *)
(* was never registered has one receiver for its single errChan value, and *)
(* no two Leaves wait for the same one (network.go:831-838, 791, 857,      *)
(* plugin.go:553-558, dhcp_manager.go:514).  The exception is Close, whose *)
(* snapshot leaves the map as it is (plugin.go:684-700): it may share a    *)
(* manager with the map or with a Leave; see CloseReturns for what follows.*)
OneHolder ==
    \A e \in Endpoints, k \in Kinds :
      /\ ~(InMap(e, k) /\ WithLeave(e, k))
      /\ ~(WithMaker(e, k) /\ (InMap(e, k) \/ WithLeave(e, k) \/ WithClose(e, k)))

(* A registered manager, or one that a Join has started and not registered *)
(* yet, has not been told to stop unless the plugin shuts down: it renews  *)
(* the lease unless it gave up by itself (network.go:791, plugin.go:560).  *)
HeldManagersRun ==
    closer = "idle" => \A e \in Endpoints, k \in Kinds :
      /\ InMap(e, k) => manager[e][k] \in {"running", "exited"}
      /\ k = "joined" /\ joiner[e] = "started"
           => manager[e][k] \in {"running", "exited"}

(* The registration of Join does not look at the map: it may overwrite the *)
(* entry that Restore made.                                                *)
Superseded(e, k) ==
    /\ k = "restored"
    /\ joiner[e] \in {"registered", "saving", "returning", "done"}
    /\ manager[e]["joined"] # "none"

(* A manager that runs can still be stopped: it is in the map or somebody  *)
(* is about to register or stop it.  The one exception is a manager of     *)
(* Restore that a Join has taken the place of (network.go:791).  No other  *)
(* way leads to two clients for one interface, which plugin.go:442-443 and *)
(* 543-545 are to prevent.                                                 *)
NoOrphanManager ==
    \A e \in Endpoints, k \in Kinds :
      Live(e, k) => \/ InMap(e, k) \/ WithLeave(e, k) \/ WithMaker(e, k)
                    \/ Superseded(e, k)

Life(e, k) == INSTANCE ManagerLife WITH status <- manager[e][k]

(* Of the manager that a Join or a Restore makes, the rest of the plugin   *)
(* asks no more than ManagerLife promises, until the process ends: it is   *)
(* started once, and Restore makes another one for its next attempt only   *)
(* when the one before is stopped, so that none is lost from sight while   *)
(* it runs (network.go:751-768, plugin.go:392-412, 553-558).               *)
ManagersLiveOnce ==
    [][\A e \in Endpoints, k \in Kinds :
         \/ UNCHANGED manager[e][k]
         \/ Life(e, k)!Next
         \/ k = "restored" /\ manager[e][k] = "stopped" /\ manager'[e][k] = "running"
         \/ restarts' = restarts + 1 /\ manager'[e][k] = "none"]_vars

(* An endpoint that Restore attached again keeps its record as long as it  *)
(* is joined, through failed attempts, retries and the Joins and Leaves of *)
(* others, so that the next restart finds it too: only an endpoint that    *)
(* every attempt failed for loses it (plugin.go:392-412, 568).             *)
RestoredAreRecorded ==
    \A e \in Endpoints :
      docker[e] = "joined" /\ persistentDHCP[e] = "restored" => state[e] # Absent

(* The mark that an endpoint was left lives only as long as the Leave that *)
(* set it: leftEndpoints cannot grow (plugin.go:266-267, 275-277).         *)
MarksAreBounded ==
    \A e \in leftEndpoints : handler[e] = "forget" /\ docker[e] = "leaving"

(* An endpoint with a registered manager has its record in the table, so   *)
(* that a restart can rebuild persistentDHCP (plugin.go:114-118).          *)
ManagedIsRecorded ==
    \A e \in Endpoints :
      docker[e] = "joined" /\ persistentDHCP[e] # NoManager => state[e] # Absent

AtRest(e) ==
    /\ handler[e] = "idle" /\ joiner[e] \in {"idle", "done"}
    /\ restorer = "complete" /\ closer = "idle"

(* Join's goroutine notices that the endpoint was left while it was        *)
(* starting, so no manager outlives its endpoint (network.go:783-790).     *)
LeftHasNoManager ==
    \A e \in Endpoints :
      docker[e] \in {"left", "deleted"} /\ AtRest(e)
        => \A k \in Kinds : ~Live(e, k)

(* Every Leave is answered, or cut off by a restart or a shutdown.         *)
LeaveReturns ==
    \A e \in Endpoints :
      handler[e] = "leave" ~> handler[e] = "idle" \/ closer # "idle"

(* Restore comes to an end (plugin.go:645-674).                            *)
RestoreCompletes == <>[](restorer = "complete" \/ closer = "exited")

(* Of an endpoint whose manager is in the map, Join's or Restore's, the    *)
(* Leave is the end of that manager, whatever other requests, cut off      *)
(* callers, Close or a failing loop come in between (network.go:831-845).  *)
(* This holds within one process: a Leave that a restart cuts off may be   *)
(* given up, and then Restore attaches the endpoint again.  Before an      *)
(* endpoint is settled Leave does not keep this promise: LeftHasNoManager. *)
Settled(e) ==
    /\ docker[e] = "joined" /\ joiner[e] \in {"idle", "done"}
    /\ restorer = "complete"
    /\ \A k \in Kinds : Live(e, k) => InMap(e, k)

LeaveEndsManager ==
    \A e \in Endpoints, n \in 0 .. MaxRestarts :
      [](Settled(e) /\ restarts = n =>
           [](restarts = n /\ docker[e] \in {"left", "deleted"} /\ AtRest(e)
                => \A k \in Kinds : ~Live(e, k)))

(* Close comes to an end unless somebody else has received the errChan     *)
(* value of a manager of its snapshot: it does not wait for Restore        *)
(* forever, whose cancellation is heard wherever it is, nor for a manager  *)
(* that gave up by itself (plugin.go:380-406, 676-700).                    *)
CloseReturnsUnlessTaken ==
    closer = "waiting" ~>
        \/ closer \in {"exited", "idle"}
        \/ \E m \in toStop \cup closing : manager[m[1]][m[2]] = "stopped"

(* Close comes to an end, so that main returns (main.go:239-244).          *)
CloseReturns == closer = "waiting" ~> closer \in {"exited", "idle"}

(* The entry of an endpoint whose sandbox is gone before Restore starts is *)
(* dropped from the table by the time that Restore, given its time, is     *)
(* complete (plugin.go:355-359).                                           *)
PhantomsAreDropped ==
    \A e \in Endpoints :
      [](restorer = "sleeping" /\ link[e] = "gone"
           => [](restorer = "complete" /\ ~restoreCtxDone => state[e] = Absent))
=============================================================================
