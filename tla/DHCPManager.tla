----------------------------- MODULE DHCPManager -----------------------------
(***************************************************************************)
(* One dhcpManager (pkg/plugin/dhcp_manager.go): startClients, the event   *)
(* loop that setupClient starts for each address family, renew, and Stop.  *)
(*                                                                         *)
(* Each family has its udhcpc process, the scanner goroutine that offers   *)
(* its events on an unbuffered channel, and the loop.  A step of a loop is *)
(* one round of its select, or one netlink call of renew.  The addresses   *)
(* and routes of the container interface are the kernel's: deleting the    *)
(* last IPv4 address of an interface flushes its IPv4 routes.              *)
(***************************************************************************)
EXTENDS Integers

CONSTANTS
    IPv6,          \* the option ipv6 of the network
    Addresses,     \* what a lease may grant (the same names in both families)
    NoAddress,
    Gateways,      \* the routers that a lease may name
    NoGateway,
    MaxAttempts,   \* length of restartBackoffs (3 in the code)
    MaxEvents,     \* bound on the events of udhcpc after its first deconfig
    MaxTroubles    \* bound on the unexpected exits of udhcpc and the failures
                   \* of netlink calls

ASSUME DHCPManagerAssumption ==
    /\ IPv6 \in BOOLEAN
    /\ NoAddress \notin Addresses
    /\ NoGateway \notin Gateways
    /\ MaxAttempts \in Nat \ {0}
    /\ MaxEvents \in Nat
    /\ MaxTroubles \in Nat

AllFamilies == {"v4", "v6"}
Families == IF IPv6 THEN AllFamilies ELSE {"v4"}

(* The data of a bound or renew event; there are no routers in DHCPv6.     *)
Leases(f) ==
    [ip : Addresses,
     gw : IF f = "v4" THEN Gateways \cup {NoGateway} ELSE {NoGateway}]

(* The events of udhcpc.  "lease" stands for bound and renew, which are    *)
(* handled alike; its data is chosen when the loop takes it.  "malformed"  *)
(* is one of these with an address that ParseAddr refuses.  leasefail and  *)
(* nak, which are only logged, are left out.                               *)
Events == {"deconfig", "lease", "malformed"}
NoEvent == "none"

VARIABLES
    caller,     \* where the goroutine that starts and stops the manager is
    stopClosed, \* stopChan is closed
    handles,    \* netHandle and nsHandle: "open" or "closed"
    loop,       \* per family: where its event loop is
    errChan,    \* per family: the value buffered in errChan
    attempt,    \* per family: restarts of udhcpc that failed in a row
    lease,      \* per family: the latest lease that the loop has taken
    last,       \* per family: LastIP, LastIPv6
    primed, deconfigured,  \* per family
    udhcpc,     \* per family: the process
    event,      \* per family: the event that waits to be received
    addresses,  \* per family: the addresses of the interface
    gateway,    \* the default route of the interface
    copied,     \* whether the static routes that Join copied are there
    events, exits, faults  \* what has happened so far

leaseVars == <<lease, last, primed, deconfigured>>
netVars == <<addresses, gateway, copied>>
callerVars == <<caller, stopClosed, handles>>
loopVars == <<loop, errChan, attempt>>
clientVars == <<udhcpc, event>>
counters == <<events, exits, faults>>
vars == <<callerVars, loopVars, leaseVars, clientVars, netVars, counters>>

Both(v) == [f \in AllFamilies |-> v]

(* Start or Restore has found the interface, with the address of           *)
(* CreateEndpoint or of an earlier lease, and opened the handles; Restore  *)
(* goes on when there is no IPv6 address.                                  *)
Init ==
    /\ caller = "startV4"
    /\ stopClosed = FALSE
    /\ handles = "open"
    /\ loop = Both("none")
    /\ errChan = Both("empty")
    /\ attempt = Both(0)
    /\ \E a \in Addresses, g \in Gateways :
         /\ lease = [f \in AllFamilies |->
                      [ip |-> a, gw |-> IF f = "v4" THEN g ELSE NoGateway]]
         /\ last \in {Both(a), [Both(a) EXCEPT !["v6"] = NoAddress]}
         /\ gateway = g
    /\ addresses = [f \in AllFamilies |-> {last[f]} \cap Addresses]
    /\ primed = Both(FALSE)
    /\ deconfigured = Both(FALSE)
    /\ udhcpc = Both("none")
    /\ event = Both(NoEvent)
    /\ copied = TRUE
    /\ events = 0 /\ exits = 0 /\ faults = 0
-----------------------------------------------------------------------------
(* startClients and Stop                                                   *)

Calls(here, there) == caller = here /\ caller' = there

(* setupClient starts udhcpc and the loop of a family.                     *)
StartClient(f) ==
    /\ f \in Families
    /\ \/ /\ f = "v4"
          /\ Calls("startV4", IF IPv6 THEN "startV6" ELSE "started")
       \/ f = "v6" /\ Calls("startV6", "started")
    /\ loop' = [loop EXCEPT ![f] = "select"]
    /\ udhcpc' = [udhcpc EXCEPT ![f] = "fresh"]
    /\ UNCHANGED <<stopClosed, handles, errChan, attempt, event, leaseVars,
                   netVars, counters>>

(* What if stopChan were left open.                                        *)
StartFailsOpen ==
    /\ Calls("startV4", "failing") \/ Calls("startV6", "failing")
    /\ UNCHANGED <<stopClosed, handles, loopVars, clientVars, leaseVars, netVars,
                   counters>>

(* A client cannot be started: stopChan is closed, which ends the loop of  *)
(* the other family too.                                                   *)
StartFails ==
    /\ Calls("startV4", "failing") \/ Calls("startV6", "failing")
    /\ stopClosed' = TRUE
    /\ UNCHANGED <<handles, loopVars, clientVars, leaseVars, netVars, counters>>

(* The caller of startClients releases the handles.                        *)
ReleaseHandles ==
    /\ Calls("failing", "failed")
    /\ handles' = "closed"
    /\ UNCHANGED <<stopClosed, loopVars, clientVars, leaseVars, netVars, counters>>

Stop ==
    /\ Calls("started", "stopV4")
    /\ stopClosed' = TRUE
    /\ UNCHANGED <<handles, loopVars, clientVars, leaseVars, netVars, counters>>

(* What if Stop did not wait for the second family.                        *)
ReceiveOneErrChan(f) ==
    /\ f = "v4"
    /\ errChan[f] # "empty"
    /\ errChan' = [errChan EXCEPT ![f] = "empty"]
    /\ Calls("stopV4", "stopped")
    /\ handles' = "closed"
    /\ UNCHANGED <<stopClosed, loop, attempt, clientVars, leaseVars, netVars,
                   counters>>

(* Stop receives the result of a family.  It returns, and the deferred     *)
(* calls close the handles, after the last family or the first error.      *)
ReceiveErrChan(f) ==
    /\ errChan[f] # "empty"
    /\ errChan' = [errChan EXCEPT ![f] = "empty"]
    /\ \/ /\ f = "v4" /\ IPv6 /\ errChan[f] = "nil"
          /\ Calls("stopV4", "stopV6")
          /\ UNCHANGED handles
       \/ /\ \/ /\ f = "v4" /\ (IPv6 => errChan[f] = "error")
                /\ Calls("stopV4", "stopped")
             \/ f = "v6" /\ Calls("stopV6", "stopped")
          /\ handles' = "closed"
    /\ UNCHANGED <<stopClosed, loop, attempt, clientVars, leaseVars, netVars,
                   counters>>

CallerStep ==
    \/ \E f \in AllFamilies : StartClient(f) \/ ReceiveErrChan(f)
    \/ StartFails \/ ReleaseHandles \/ Stop
-----------------------------------------------------------------------------
(* udhcpc and the kernel                                                   *)

(* A udhcpc is "fresh" before its first event, and "bound" from its first  *)
(* bound or renew event on.                                                *)
Alive(f) == udhcpc[f] \in {"fresh", "running", "bound"}

(* udhcpc runs its script, which always says deconfig first.               *)
UdhcpcEmits(f) ==
    /\ Alive(f)
    /\ event[f] = NoEvent
    /\ \/ /\ udhcpc[f] = "fresh"
          /\ udhcpc' = [udhcpc EXCEPT ![f] = "running"]
          /\ event' = [event EXCEPT ![f] = "deconfig"]
          /\ UNCHANGED events
       \/ /\ udhcpc[f] \in {"running", "bound"}
          /\ events < MaxEvents
          /\ events' = events + 1
          /\ \E e \in Events :
               /\ event' = [event EXCEPT ![f] = e]
               /\ udhcpc' = [udhcpc EXCEPT ![f] = IF e = "deconfig" THEN @ ELSE "bound"]
    /\ UNCHANGED <<callerVars, loopVars, leaseVars, netVars, exits, faults>>

UdhcpcExits(f) ==
    /\ Alive(f)
    /\ exits + faults < MaxTroubles
    /\ exits' = exits + 1
    /\ udhcpc' = [udhcpc EXCEPT ![f] = "dead"]
    /\ UNCHANGED <<callerVars, loopVars, event, leaseVars, netVars, events, faults>>

(* A netlink call that should work fails.  Once the handles are closed     *)
(* netlink opens a socket where the thread is, which is in the namespace   *)
(* of the host: a call fails there, or succeeds Elsewhere, and the         *)
(* interface of the container stays as it is.                              *)
Fault ==
    \/ handles = "closed" /\ UNCHANGED faults
    \/ exits + faults < MaxTroubles /\ faults' = faults + 1
NoFault == handles = "open" /\ UNCHANGED faults
Elsewhere == handles = "closed" /\ UNCHANGED <<faults, netVars>>

AddrDel(f, a) ==
    /\ addresses' = [addresses EXCEPT ![f] = @ \ {a}]
    /\ IF f = "v4" /\ addresses'["v4"] = {}
       THEN gateway' = NoGateway /\ copied' = FALSE
       ELSE UNCHANGED <<gateway, copied>>

(* An address that is there cannot be added (EEXIST).                      *)
AddrAdd(f, a) ==
    /\ a \notin addresses[f]
    /\ addresses' = [addresses EXCEPT ![f] = @ \cup {a}]
    /\ UNCHANGED <<gateway, copied>>
AddrAddFails(f, a) ==
    /\ IF a \in addresses[f] THEN Fault \/ NoFault ELSE Fault
    /\ UNCHANGED netVars
-----------------------------------------------------------------------------
(* The event loop                                                          *)

LoopAt(f, here, there) ==
    /\ loop[f] = here
    /\ loop' = [loop EXCEPT ![f] = there]

(* The scanner goroutine hands over the next event.                        *)
Receive(f) == event[f] # NoEvent /\ event' = [event EXCEPT ![f] = NoEvent]

(* A deconfig of a client that has had no lease yet is ignored.            *)
LoopIgnores(f) ==
    /\ LoopAt(f, "select", "select")
    /\ event[f] = "deconfig" /\ ~primed[f]
    /\ Receive(f)
    /\ UNCHANGED <<callerVars, errChan, attempt, leaseVars, udhcpc, netVars, counters>>

(* What if every deconfig were taken seriously?                            *)
LoopDefersAlways(f) ==
    /\ LoopAt(f, "select", "select")
    /\ event[f] = "deconfig"
    /\ Receive(f)
    /\ deconfigured' = [deconfigured EXCEPT ![f] = TRUE]
    /\ UNCHANGED <<callerVars, errChan, attempt, lease, last, primed, udhcpc,
                   netVars, counters>>

(* Soft handover: the address stays until the next lease.                  *)
LoopDefersDeconfig(f) ==
    /\ LoopAt(f, "select", "select")
    /\ event[f] = "deconfig" /\ primed[f]
    /\ Receive(f)
    /\ deconfigured' = [deconfigured EXCEPT ![f] = TRUE]
    /\ UNCHANGED <<callerVars, errChan, attempt, lease, last, primed, udhcpc,
                   netVars, counters>>

(* renew cannot parse the address of the lease.                            *)
LoopRefusesLease(f) ==
    /\ LoopAt(f, "select", "select")
    /\ event[f] = "malformed"
    /\ Receive(f)
    /\ primed' = [primed EXCEPT ![f] = TRUE]
    /\ UNCHANGED <<callerVars, errChan, attempt, lease, last, deconfigured, udhcpc,
                   netVars, counters>>

(* Where renew goes once the address is in place.                          *)
AfterAddress(l) == IF l.gw = NoGateway THEN "select" ELSE "routing"

(* What if the address were replaced at every lease?                       *)
LoopReplacesAlways(f, l) ==
    /\ last[f] # NoAddress
    /\ LoopAt(f, "select", "deleting")
    /\ event[f] = "lease"
    /\ Receive(f)
    /\ lease' = [lease EXCEPT ![f] = l]
    /\ primed' = [primed EXCEPT ![f] = TRUE]
    /\ UNCHANGED <<callerVars, errChan, attempt, last, deconfigured, udhcpc,
                   netVars, counters>>

(* bound or renew: the address is replaced if it is another one, or after  *)
(* a deconfig.                                                             *)
LoopTakesLease(f, l) ==
    /\ last[f] # NoAddress
    /\ LoopAt(f, "select", IF l.ip # last[f] \/ deconfigured[f]
                           THEN "deleting" ELSE AfterAddress(l))
    /\ event[f] = "lease"
    /\ Receive(f)
    /\ lease' = [lease EXCEPT ![f] = l]
    /\ primed' = [primed EXCEPT ![f] = TRUE]
    /\ UNCHANGED <<callerVars, errChan, attempt, last, deconfigured, udhcpc,
                   netVars, counters>>

(* renew compares with an address that is nil and panics; the loop is over *)
(* and udhcpc goes on.                                                     *)
LoopPanics(f) ==
    /\ last[f] = NoAddress
    /\ LoopAt(f, "select", "ended")
    /\ event[f] = "lease"
    /\ Receive(f)
    /\ primed' = [primed EXCEPT ![f] = TRUE]
    /\ errChan' = [errChan EXCEPT ![f] = "error"]
    /\ UNCHANGED <<callerVars, attempt, lease, last, deconfigured, udhcpc, netVars,
                   counters>>

RenewFrame ==
    UNCHANGED <<callerVars, errChan, attempt, lease, primed, clientVars, events, exits>>

(* AddrDel is best effort.                                                 *)
RenewDeletes(f) ==
    /\ LoopAt(f, "deleting", "adding")
    /\ \/ NoFault /\ AddrDel(f, last[f])
       \/ Fault /\ UNCHANGED netVars
    /\ UNCHANGED <<last, deconfigured>>
    /\ RenewFrame

(* What if LastIP were not updated.                                        *)
RenewAddsUnrecorded(f) ==
    /\ LoopAt(f, "adding", AfterAddress(lease[f]))
    /\ NoFault
    /\ AddrAdd(f, lease[f].ip)
    /\ deconfigured' = [deconfigured EXCEPT ![f] = FALSE]
    /\ UNCHANGED last
    /\ RenewFrame

(* The new address is recorded, and the deconfig is dealt with.            *)
RenewAdds(f) ==
    /\ LoopAt(f, "adding", AfterAddress(lease[f]))
    /\ \/ NoFault /\ AddrAdd(f, lease[f].ip)
       \/ Elsewhere
    /\ last' = [last EXCEPT ![f] = lease[f].ip]
    /\ deconfigured' = [deconfigured EXCEPT ![f] = FALSE]
    /\ RenewFrame

(* What if the previous address were not put back.                         *)
RenewAddGivesUp(f) ==
    /\ LoopAt(f, "adding", "select")
    /\ AddrAddFails(f, lease[f].ip)
    /\ UNCHANGED <<last, deconfigured>>
    /\ RenewFrame

RenewAddFails(f) ==
    /\ LoopAt(f, "adding", "restoring")
    /\ AddrAddFails(f, lease[f].ip)
    /\ UNCHANGED <<last, deconfigured>>
    /\ RenewFrame

(* The previous address is put back, if that works.                        *)
RenewRestores(f) ==
    /\ LoopAt(f, "restoring", "select")
    /\ \/ NoFault /\ AddrAdd(f, last[f])
       \/ AddrAddFails(f, last[f])
    /\ UNCHANGED <<last, deconfigured>>
    /\ RenewFrame

(* The default route is added or replaced.                                 *)
RenewRoutes ==
    /\ LoopAt("v4", "routing", "select")
    /\ \/ NoFault /\ gateway' = lease["v4"].gw
       \/ Fault /\ UNCHANGED gateway
    /\ UNCHANGED <<addresses, copied, last, deconfigured>>
    /\ RenewFrame

(* The event channel is closed: udhcpc has exited by itself.               *)
LoopSeesExit(f) ==
    /\ LoopAt(f, "select", "backoff")
    /\ udhcpc[f] = "dead" /\ event[f] = NoEvent
    /\ udhcpc' = [udhcpc EXCEPT ![f] = "none"]
    /\ attempt' = [attempt EXCEPT ![f] = 0]
    /\ UNCHANGED <<callerVars, errChan, leaseVars, event, netVars, counters>>

(* A new udhcpc starts from scratch.                                       *)
LoopRestarts(f) ==
    /\ LoopAt(f, "backoff", "select")
    /\ udhcpc' = [udhcpc EXCEPT ![f] = "fresh"]
    /\ primed' = [primed EXCEPT ![f] = FALSE]
    /\ deconfigured' = [deconfigured EXCEPT ![f] = FALSE]
    /\ UNCHANGED <<callerVars, errChan, attempt, lease, last, event, netVars, counters>>

(* What if one failure were enough, or one attempt too many were made.     *)
LoopGivesUpAtOnce(f) ==
    /\ attempt' = [attempt EXCEPT ![f] = @ + 1]
    /\ LoopAt(f, "backoff", "ended")
    /\ errChan' = [errChan EXCEPT ![f] = "error"]
    /\ UNCHANGED <<callerVars, leaseVars, clientVars, netVars, counters>>

LoopTriesOnceMore(f) ==
    /\ attempt' = [attempt EXCEPT ![f] = @ + 1]
    /\ IF attempt[f] < MaxAttempts
       THEN LoopAt(f, "backoff", "backoff") /\ UNCHANGED errChan
       ELSE /\ LoopAt(f, "backoff", "ended")
            /\ errChan' = [errChan EXCEPT ![f] = "error"]
    /\ UNCHANGED <<callerVars, leaseVars, clientVars, netVars, counters>>

(* The last failure ends the loop.                                         *)
LoopFailsToRestart(f) ==
    /\ attempt' = [attempt EXCEPT ![f] = @ + 1]
    /\ IF attempt'[f] < MaxAttempts
       THEN LoopAt(f, "backoff", "backoff") /\ UNCHANGED errChan
       ELSE /\ LoopAt(f, "backoff", "ended")
            /\ errChan' = [errChan EXCEPT ![f] = "error"]
    /\ UNCHANGED <<callerVars, leaseVars, clientVars, netVars, counters>>

(* stopChan is closed during the wait before an attempt.                   *)
LoopStopsWaiting(f) ==
    /\ stopClosed
    /\ LoopAt(f, "backoff", "ended")
    /\ errChan' = [errChan EXCEPT ![f] = "nil"]
    /\ UNCHANGED <<callerVars, attempt, leaseVars, clientVars, netVars, counters>>

(* Finish sends SIGTERM to udhcpc, waits for it, and kills it after 5s.    *)
LoopStops(f) ==
    /\ stopClosed
    /\ LoopAt(f, "select", "finishing")
    /\ UNCHANGED <<callerVars, errChan, attempt, leaseVars, clientVars, netVars, counters>>

LoopFinishes(f) ==
    /\ LoopAt(f, "finishing", "ended")
    /\ udhcpc' = [udhcpc EXCEPT ![f] = "none"]
    /\ \E result \in {"nil", "error"} : errChan' = [errChan EXCEPT ![f] = result]
    /\ UNCHANGED <<callerVars, attempt, leaseVars, event, netVars, counters>>

LoopStep(f) ==
    \/ LoopIgnores(f) \/ LoopDefersDeconfig(f) \/ LoopRefusesLease(f)
    \/ \E l \in Leases(f) : LoopTakesLease(f, l)
    \/ LoopPanics(f)
    \/ RenewDeletes(f) \/ RenewAdds(f) \/ RenewAddFails(f) \/ RenewRestores(f)
    \/ f = "v4" /\ RenewRoutes
    \/ LoopSeesExit(f) \/ LoopRestarts(f) \/ LoopFailsToRestart(f)
    \/ LoopStopsWaiting(f) \/ LoopStops(f) \/ LoopFinishes(f)

Next ==
    \/ CallerStep
    \/ \E f \in AllFamilies : LoopStep(f) \/ UdhcpcEmits(f) \/ UdhcpcExits(f)

Spec == Init /\ [][Next]_vars
-----------------------------------------------------------------------------
(* The loops are scheduled, Finish ends by its timeout, and a Stop that    *)
(* has begun goes on; nothing makes anybody call Stop, and nothing is      *)
(* assumed of udhcpc.                                                      *)
Fairness ==
    /\ \A f \in AllFamilies :
         WF_vars(LoopStep(f)) /\ WF_vars(ReceiveErrChan(f))
    /\ WF_vars(ReleaseHandles)

FairSpec == Spec /\ Fairness
-----------------------------------------------------------------------------
CallerLabels ==
    {"startV4", "startV6", "started", "failing", "failed", "stopV4", "stopV6",
     "stopped"}
LoopLabels ==
    {"none", "select", "deleting", "adding", "restoring", "routing", "backoff",
     "finishing", "ended"}

(* Every variable has a value of its kind.                                 *)
TypeOK ==
    /\ caller \in CallerLabels
    /\ stopClosed \in BOOLEAN
    /\ handles \in {"open", "closed"}
    /\ loop \in [AllFamilies -> LoopLabels]
    /\ errChan \in [AllFamilies -> {"empty", "nil", "error"}]
    /\ attempt \in [AllFamilies -> 0 .. MaxAttempts]
    /\ lease \in [AllFamilies -> Leases("v4")] /\ lease["v6"] \in Leases("v6")
    /\ last \in [AllFamilies -> Addresses \cup {NoAddress}]
    /\ primed \in [AllFamilies -> BOOLEAN]
    /\ deconfigured \in [AllFamilies -> BOOLEAN]
    /\ udhcpc \in [AllFamilies -> {"none", "fresh", "running", "bound", "dead"}]
    /\ event \in [AllFamilies -> Events \cup {NoEvent}]
    /\ addresses \in [AllFamilies -> SUBSET Addresses]
    /\ gateway \in Gateways \cup {NoGateway}
    /\ copied \in BOOLEAN
    /\ events \in 0 .. MaxEvents
    /\ exits \in 0 .. MaxTroubles
    /\ faults \in 0 .. MaxTroubles

(* The families in which the manager knows an address to replace.          *)
Addressed == {f \in Families : last[f] # NoAddress}

(* Between two events the interface has exactly the address of the latest  *)
(* lease, and its router is the default route, whatever deconfigs and      *)
(* restarts of udhcpc came before it (dhcp_manager.go:80-180, 255-262).    *)
LeaseIsInstalled ==
    faults = 0 /\ handles = "open" =>
      /\ \A f \in Addressed :
           loop[f] = "select" => addresses[f] = {lease[f].ip}
      /\ loop["v4"] = "select" /\ lease["v4"].gw # NoGateway
           => gateway = lease["v4"].gw

(* One failing netlink call does not leave the container without address:  *)
(* renew puts the previous one back (dhcp_manager.go:117-131).             *)
OneFaultKeepsAddress ==
    faults <= 1 /\ handles = "open" =>
      \A f \in Addressed : loop[f] = "select" => addresses[f] # {}

(* Only a udhcpc that has had a lease itself can lose one: the deconfig    *)
(* with which every udhcpc starts is not taken for the loss of the address *)
(* that is on the interface, whatever the client before it had seen.  A    *)
(* first lease of the same address then does not replace it, which would   *)
(* flush the copied routes (dhcp_manager.go:43-45, 255-262, 277-292).      *)
StartupDeconfigIgnored ==
    \A f \in AllFamilies : udhcpc[f] \in {"fresh", "running"} => ~deconfigured[f]

EndsForCause(f) ==
    loop[f] = "ended" => stopClosed \/ attempt[f] = MaxAttempts

(* A loop ends when it is told to, or when udhcpc could not be restarted   *)
(* (dhcp_manager.go:222-354).                                              *)
LoopGoesOn == \A f \in Addressed : EndsForCause(f)

(* So does the loop of a manager that Restore made, which has to give it   *)
(* LastIP and LastIPv6 (dhcp_manager.go:490-494).                          *)
RestoredLoopGoesOn == \A f \in Families : EndsForCause(f)

(* A renewal of the same lease, a restart of udhcpc and whatever happens   *)
(* to IPv6 keep the routes that Join copied.  They are lost only when the  *)
(* IPv4 address is replaced: by another one, or after a deconfig           *)
(* (dhcp_manager.go:101, 110, 255-262).                                    *)
RoutesLostOnlyWithAddress ==
    [][copied /\ ~copied' => lease["v4"].ip # last["v4"] \/ deconfigured["v4"]]_vars

(* Stop returns, and no udhcpc is left behind by a manager that was        *)
(* stopped, or that could not be started as a whole (dhcp_manager.go:      *)
(* 470-488, 504-524).                                                      *)
ClientsEnd ==
    caller \in {"failing", "stopV4"} ~>
      caller \in {"failed", "stopped"} /\ \A f \in Addressed : ~Alive(f)

(* The manager keeps the promise of ManagerLife.                           *)
HasResult ==
    IF caller = "stopV6" THEN errChan["v6"] # "empty"
    ELSE \/ errChan["v4"] = "error"
         \/ errChan["v4"] = "nil" /\ (IPv6 => errChan["v6"] # "empty")
Status ==
    IF caller \in {"startV4", "startV6", "failing", "failed"} THEN "none"
    ELSE IF caller = "stopped" THEN "stopped"
    ELSE IF HasResult THEN "exited"
    ELSE IF stopClosed THEN "stopping" ELSE "running"
Promise == INSTANCE ManagerLife WITH status <- Status
ManagerLifeHolds == Promise!Spec
=============================================================================
