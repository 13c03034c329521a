-------------------------- MODULE DHCPManagerProofs --------------------------
(***************************************************************************)
(* Proofs about DHCPManager, for any addresses and routers, any number of  *)
(* restart attempts, events, exits and faults, with and without IPv6.      *)
(***************************************************************************)
EXTENDS DHCPManager, TLAPS

USE DHCPManagerAssumption

(* Which loops there are, and whether they were told to end, follows from  *)
(* where the goroutine is that starts and stops the manager.               *)
CallerInv ==
    /\ caller = "startV4" => \A f \in AllFamilies : loop[f] = "none"
    /\ caller = "startV6" => loop["v6"] = "none"
    /\ caller \in {"startV4", "startV6", "started"} => ~stopClosed
    /\ caller \in {"stopV4", "stopV6", "stopped"} => stopClosed
    /\ caller = "stopV6" => IPv6
    /\ caller \notin {"failed", "stopped"} => handles = "open"

(* udhcpc runs, and its events are received, only as long as the loop that *)
(* owns it is neither to be started nor about to start another one.        *)
ClientInv ==
    \A f \in AllFamilies :
      /\ loop[f] \in {"none", "backoff"} => udhcpc[f] = "none" /\ event[f] = NoEvent
      /\ udhcpc[f] = "fresh" => event[f] = NoEvent
      /\ udhcpc[f] = "running" => event[f] \in {NoEvent, "deconfig"}
      /\ loop[f] = "none" => ~primed[f] /\ ~deconfigured[f]
      /\ udhcpc[f] \in {"fresh", "running"} => ~primed[f] /\ ~deconfigured[f]

(* A loop that ends has a cause, which is kept until it has ended, and     *)
(* sends one result.                                                       *)
LoopInv ==
    \A f \in AllFamilies :
      /\ loop[f] \in {"deleting", "adding", "restoring", "routing"}
           => last[f] # NoAddress
      /\ loop[f] = "finishing" => stopClosed
      /\ loop[f] = "backoff" => attempt[f] < MaxAttempts
      /\ loop[f] = "ended" /\ last[f] # NoAddress
           => stopClosed \/ attempt[f] = MaxAttempts
      /\ errChan[f] # "empty" => loop[f] = "ended"

(* As long as nothing has failed, where renew is tells what the interface  *)
(* has.                                                                    *)
AddressInv ==
    faults = 0 /\ handles = "open" =>
      \A f \in AllFamilies :
        /\ last[f] # NoAddress /\ loop[f] \notin {"adding", "restoring"}
             => addresses[f] = {last[f]}
        /\ loop[f] = "adding" => addresses[f] = {}
        /\ loop[f] # "restoring"

(* LastIP is the address of the latest lease unless renew is about to put  *)
(* that in its place.                                                      *)
LeaseInv ==
    faults = 0 /\ handles = "open" =>
      \A f \in AllFamilies :
        last[f] # NoAddress /\ loop[f] \notin {"adding", "restoring", "deleting"}
          => last[f] = lease[f].ip

(* The default route is that of the latest lease unless renew is about to  *)
(* set it.                                                                 *)
RouteInv ==
    /\ faults = 0 /\ handles = "open"
    /\ loop["v4"] \in {"none", "select", "backoff"}
    /\ lease["v4"].gw # NoGateway
    => gateway = lease["v4"].gw

(* With one failure the address is only missing while renew replaces it,   *)
(* and that failure was the one of AddrAdd when it puts the old one back.  *)
KeepInv ==
    faults <= 1 /\ handles = "open" =>
      \A f \in AllFamilies :
        /\ last[f] # NoAddress /\ loop[f] \notin {"adding", "restoring"}
             => addresses[f] # {}
        /\ loop[f] = "restoring" /\ addresses[f] = {} => faults = 1

(* The inductive invariant, without what it says of the history of leases. *)
Inv ==
    /\ TypeOK
    /\ CallerInv
    /\ ClientInv
    /\ LoopInv
    /\ AddressInv
    /\ KeepInv
-----------------------------------------------------------------------------
(* The steps of the goroutine that starts and stops the manager.           *)
LEMMA CallerStepInv ==
    ASSUME Inv, CallerStep
    PROVE  Inv'
<1> USE DEF Inv, TypeOK, CallerInv, ClientInv, LoopInv,
        AddressInv, KeepInv, LoopAt, Receive, callerVars, loopVars,
        leaseVars, netVars, clientVars, counters, AllFamilies, LoopLabels, Events,
        NoEvent, Calls, CallerLabels, Families
<1>1. ASSUME NEW f \in AllFamilies, StartClient(f)
      PROVE  Inv'
  BY <1>1 DEF StartClient
<1>2. ASSUME NEW f \in AllFamilies, ReceiveErrChan(f)
      PROVE  Inv'
  BY <1>2 DEF ReceiveErrChan
<1>3. CASE StartFails
  BY <1>3 DEF StartFails
<1>4. CASE ReleaseHandles
  BY <1>4 DEF ReleaseHandles
<1>5. CASE Stop
  BY <1>5 DEF Stop
<1> HIDE DEF Inv
<1> QED
  BY <1>1, <1>2, <1>3, <1>4, <1>5 DEF CallerStep

(* The steps of udhcpc.                                                    *)
LEMMA UdhcpcStepInv ==
    ASSUME Inv, NEW f \in AllFamilies, UdhcpcEmits(f) \/ UdhcpcExits(f)
    PROVE  Inv'
<1> USE DEF Inv, TypeOK, CallerInv, ClientInv, LoopInv,
        AddressInv, KeepInv, LoopAt, Receive, callerVars, loopVars,
        leaseVars, netVars, clientVars, counters, AllFamilies, LoopLabels, Events,
        NoEvent, Alive
<1>1. CASE UdhcpcEmits(f)
  BY <1>1 DEF UdhcpcEmits
<1>2. CASE UdhcpcExits(f)
  BY <1>2 DEF UdhcpcExits
<1> HIDE DEF Inv
<1> QED
  BY <1>1, <1>2

(* The steps of an event loop.                                             *)
LEMMA LoopStepInv ==
    ASSUME Inv, NEW f \in AllFamilies, LoopStep(f)
    PROVE  Inv'
<1> USE DEF Inv, TypeOK, CallerInv, ClientInv, LoopInv,
        AddressInv, KeepInv, LoopAt, Receive, callerVars, loopVars,
        leaseVars, netVars, clientVars, counters, AllFamilies, LoopLabels, Events,
        NoEvent
<1>1. CASE LoopIgnores(f)
  BY <1>1 DEF LoopIgnores
<1>2. CASE LoopDefersDeconfig(f)
  BY <1>2 DEF LoopDefersDeconfig
<1>3. CASE LoopRefusesLease(f)
  BY <1>3 DEF LoopRefusesLease
<1>4. CASE LoopPanics(f)
  BY <1>4 DEF LoopPanics
<1>5. CASE RenewDeletes(f)
  <2>1. /\ loop[f] = "deleting" /\ loop' = [loop EXCEPT ![f] = "adding"]
        /\ UNCHANGED <<callerVars, errChan, attempt, leaseVars, clientVars, events,
                       exits>>
    BY <1>5 DEF RenewDeletes, RenewFrame
  <2>2. /\ faults' \in {faults, faults + 1} /\ faults' \in 0 .. MaxTroubles
        /\ addresses' \in {addresses, [addresses EXCEPT ![f] = @ \ {last[f]}]}
        /\ faults' = 0 /\ handles = "open"
             => addresses' = [addresses EXCEPT ![f] = @ \ {last[f]}]
    BY <1>5 DEF RenewDeletes, Fault, NoFault, AddrDel
  <2>3. /\ gateway' \in Gateways \cup {NoGateway} /\ copied' \in BOOLEAN
        /\ f # "v4" => gateway' = gateway
    BY <1>5 DEF RenewDeletes, AddrDel
  <2>4. TypeOK' /\ CallerInv' /\ ClientInv' /\ LoopInv'
    BY <2>1, <2>2, <2>3
  <2>5. AddressInv'
    BY <2>1, <2>2
  <2>6. KeepInv'
    BY <2>1, <2>2, <2>3
  <2> QED
    BY <2>4, <2>5, <2>6
<1>6. CASE RenewAdds(f)
  <2>1. /\ loop[f] = "adding"
        /\ loop' = [loop EXCEPT ![f] = IF lease[f].gw = NoGateway
                                       THEN "select" ELSE "routing"]
        /\ last' = [last EXCEPT ![f] = lease[f].ip]
        /\ deconfigured' = [deconfigured EXCEPT ![f] = FALSE]
        /\ UNCHANGED <<callerVars, errChan, attempt, lease, primed, clientVars,
                       counters>>
    BY <1>6 DEF RenewAdds, RenewFrame, AfterAddress, NoFault, Elsewhere
  <2>2. \/ /\ addresses' = [addresses EXCEPT ![f] = @ \cup {lease[f].ip}]
           /\ UNCHANGED <<gateway, copied>>
        \/ handles = "closed" /\ UNCHANGED <<addresses, gateway, copied>>
    BY <1>6 DEF RenewAdds, AddrAdd, Elsewhere
  <2>3. lease[f].ip \in Addresses /\ lease[f].ip # NoAddress
    BY DEF Leases
  <2>4. TypeOK'
    BY <2>1, <2>2, <2>3
  <2>5. CallerInv' /\ ClientInv' /\ LoopInv'
    BY <2>1, <2>3
  <2>6. AddressInv'
    BY <2>1, <2>2, <2>3
  <2>7. KeepInv'
    BY <2>1, <2>2, <2>3
  <2> QED
    BY <2>4, <2>5, <2>6, <2>7
<1>7. CASE RenewAddFails(f)
  BY <1>7 DEF RenewAddFails, RenewFrame, Fault, NoFault, AddrDel, AddrAdd,
     AddrAddFails, AfterAddress
<1>8. CASE RenewRestores(f)
  BY <1>8 DEF RenewRestores, RenewFrame, Fault, NoFault, AddrDel, AddrAdd,
     AddrAddFails, AfterAddress
<1>9. CASE LoopSeesExit(f)
  BY <1>9 DEF LoopSeesExit
<1>10. CASE LoopRestarts(f)
  <2>1. /\ loop[f] = "backoff" /\ loop' = [loop EXCEPT ![f] = "select"]
        /\ udhcpc' = [udhcpc EXCEPT ![f] = "fresh"]
        /\ primed' = [primed EXCEPT ![f] = FALSE]
        /\ deconfigured' = [deconfigured EXCEPT ![f] = FALSE]
        /\ UNCHANGED <<callerVars, errChan, attempt, lease, last, event, netVars,
                       counters>>
    BY <1>10 DEF LoopRestarts
  <2>2. TypeOK' /\ CallerInv'
    BY <2>1
  <2>3. ClientInv' /\ LoopInv'
    BY <2>1
  <2>4. UNCHANGED <<faults, handles, lease, last, addresses, gateway>>
    BY <2>1
  <2>5. AddressInv'
    BY <2>1, <2>4
  <2>6. KeepInv'
    BY <2>1, <2>4
  <2> QED
    BY <2>2, <2>3, <2>5, <2>6
<1>11. CASE LoopFailsToRestart(f)
  BY <1>11 DEF LoopFailsToRestart
<1>12. CASE LoopStopsWaiting(f)
  BY <1>12 DEF LoopStopsWaiting
<1>13. CASE LoopStops(f)
  BY <1>13 DEF LoopStops
<1>14. CASE LoopFinishes(f)
  BY <1>14 DEF LoopFinishes
<1>15. CASE f = "v4" /\ RenewRoutes
  BY <1>15 DEF RenewRoutes, RenewFrame, Fault, NoFault, Leases
<1>16. ASSUME NEW l \in Leases(f), LoopTakesLease(f, l)
      PROVE  Inv'
  BY <1>16 DEF LoopTakesLease, AfterAddress, Leases
<1> HIDE DEF Inv
<1> QED
  BY <1>1, <1>2, <1>3, <1>4, <1>5, <1>6, <1>7, <1>8, <1>9, <1>10, <1>11, <1>12,
     <1>13, <1>14, <1>15, <1>16 DEF LoopStep

(* The invariant holds when the manager is made.                           *)
LEMMA InitInv == Init => Inv
<1> SUFFICES ASSUME Init
             PROVE  Inv
  OBVIOUS
<1> USE DEF Init, Both, AllFamilies
<1>1. TypeOK
  <2>1. /\ lease \in [AllFamilies -> Leases("v4")] /\ lease["v6"] \in Leases("v6")
        /\ last \in [AllFamilies -> Addresses \cup {NoAddress}]
        /\ gateway \in Gateways \cup {NoGateway}
    BY DEF Leases
  <2>2. addresses \in [AllFamilies -> SUBSET Addresses]
    OBVIOUS
  <2>3. /\ attempt \in [AllFamilies -> 0 .. MaxAttempts]
        /\ events \in 0 .. MaxEvents
        /\ exits \in 0 .. MaxTroubles /\ faults \in 0 .. MaxTroubles
    BY DHCPManagerAssumption
  <2>4. /\ loop \in [AllFamilies -> LoopLabels]
        /\ errChan \in [AllFamilies -> {"empty", "nil", "error"}]
        /\ primed \in [AllFamilies -> BOOLEAN]
        /\ deconfigured \in [AllFamilies -> BOOLEAN]
        /\ udhcpc \in [AllFamilies -> {"none", "fresh", "running", "bound", "dead"}]
        /\ event \in [AllFamilies -> Events \cup {NoEvent}]
    BY DEF LoopLabels, NoEvent
  <2>5. /\ caller \in CallerLabels
        /\ stopClosed \in BOOLEAN /\ handles \in {"open", "closed"}
        /\ copied \in BOOLEAN
    BY DEF CallerLabels
  <2> HIDE DEF Init
  <2> QED
    BY <2>1, <2>2, <2>3, <2>4, <2>5 DEF TypeOK
<1> QED
  BY <1>1 DEF Inv, CallerInv, ClientInv, LoopInv, AddressInv, KeepInv, NoEvent

(* Every step keeps the invariant.                                         *)
LEMMA NextInv ==
    ASSUME Inv, [Next]_vars
    PROVE  Inv'
<1>1. CASE UNCHANGED vars
  BY <1>1 DEF vars, Inv, TypeOK, CallerInv, ClientInv, LoopInv,
     AddressInv, KeepInv, callerVars, loopVars, leaseVars, netVars,
     clientVars, counters
<1> QED
  BY <1>1, CallerStepInv, UdhcpcStepInv, LoopStepInv DEF Next

(* The invariant holds throughout.                                         *)
LEMMA Invariance == Spec => []Inv
<1> QED
  BY InitInv, NextInv, PTL DEF Spec
-----------------------------------------------------------------------------
(* Every variable has a value of its kind.                                 *)
THEOREM TypeCorrect == Spec => []TypeOK
<1> QED
  BY Invariance, PTL DEF Inv

(* A deconfig of a udhcpc that has had no lease is never taken for the     *)
(* loss of one, in any order of events, exits and restarts of the clients. *)
THEOREM FreshClients == Spec => []StartupDeconfigIgnored
<1>1. Inv => StartupDeconfigIgnored
  BY DEF Inv, ClientInv, StartupDeconfigIgnored
<1> QED
  BY <1>1, Invariance, PTL

(* The loop of a family with an address ends when it is told to, or after  *)
(* MaxAttempts failures in a row to start udhcpc again.                    *)
THEOREM LoopsEndForCause == Spec => []LoopGoesOn
<1>1. Inv => LoopGoesOn
  BY DEF Inv, LoopInv, LoopGoesOn, Addressed, Families, EndsForCause, AllFamilies
<1> QED
  BY <1>1, Invariance, PTL

(* The history of leases: every step keeps LastIP and the default route at *)
(* the latest one.                                                         *)
LEMMA NextLease ==
    ASSUME Inv, LeaseInv, RouteInv, [Next]_vars
    PROVE  LeaseInv' /\ RouteInv'
<1> USE DEF Inv, TypeOK, LeaseInv, RouteInv, AllFamilies, LoopLabels, LoopAt, callerVars,
        loopVars, leaseVars, netVars, clientVars, counters
<1>1. ASSUME NEW f \in AllFamilies, StartClient(f) \/ ReceiveErrChan(f)
      PROVE  LeaseInv' /\ RouteInv'
  BY <1>1 DEF StartClient, ReceiveErrChan, Calls, CallerInv
<1>2. CASE StartFails \/ ReleaseHandles \/ Stop \/ UNCHANGED vars
  BY <1>2 DEF StartFails, ReleaseHandles, Stop, vars
<1>3. ASSUME NEW f \in AllFamilies, UdhcpcEmits(f) \/ UdhcpcExits(f)
      PROVE  LeaseInv' /\ RouteInv'
  BY <1>3 DEF UdhcpcEmits, UdhcpcExits
<1>4. ASSUME NEW f \in AllFamilies,
             \/ LoopIgnores(f) \/ LoopDefersDeconfig(f) \/ LoopRefusesLease(f)
             \/ LoopSeesExit(f) \/ LoopRestarts(f) \/ LoopStopsWaiting(f) \/ LoopStops(f)
             \/ LoopFinishes(f)
      PROVE  LeaseInv' /\ RouteInv'
  BY <1>4 DEF LoopIgnores, LoopDefersDeconfig, LoopRefusesLease, LoopSeesExit, LoopRestarts,
     LoopStopsWaiting, LoopStops, LoopFinishes
<1>5. ASSUME NEW f \in AllFamilies, LoopFailsToRestart(f) \/ LoopPanics(f)
      PROVE  LeaseInv' /\ RouteInv'
  BY <1>5 DEF LoopFailsToRestart, LoopPanics
<1>6. ASSUME NEW f \in AllFamilies, NEW l \in Leases(f), LoopTakesLease(f, l)
      PROVE  LeaseInv' /\ RouteInv'
  BY <1>6 DEF LoopTakesLease, AfterAddress
<1>7. ASSUME NEW f \in AllFamilies, RenewDeletes(f)
      PROVE  LeaseInv' /\ RouteInv'
  <2>1. /\ loop[f] = "deleting" /\ loop' = [loop EXCEPT ![f] = "adding"]
        /\ UNCHANGED <<lease, last, handles>>
        /\ faults' = 0 => faults = 0
        /\ f # "v4" => gateway' = gateway
    BY <1>7 DEF RenewDeletes, RenewFrame, Fault, NoFault, AddrDel
  <2> QED
    BY <2>1
<1>8. ASSUME NEW f \in AllFamilies, RenewAdds(f)
      PROVE  LeaseInv' /\ RouteInv'
  <2>1. /\ loop[f] = "adding"
        /\ loop' = [loop EXCEPT ![f] = IF lease[f].gw = NoGateway THEN "select" ELSE "routing"]
        /\ last' = [last EXCEPT ![f] = lease[f].ip]
        /\ UNCHANGED <<lease, handles, faults, gateway>>
    BY <1>8 DEF RenewAdds, RenewFrame, AfterAddress, NoFault, Elsewhere, AddrAdd
  <2> QED
    BY <2>1
<1>9. ASSUME NEW f \in AllFamilies, RenewAddFails(f) \/ RenewRestores(f)
      PROVE  LeaseInv' /\ RouteInv'
  <2>1. /\ loop[f] \in {"adding", "restoring"}
        /\ \/ loop' = [loop EXCEPT ![f] = "restoring"]
           \/ loop[f] = "restoring" /\ loop' = [loop EXCEPT ![f] = "select"]
        /\ UNCHANGED <<lease, last, handles, gateway>>
        /\ faults' = 0 => faults = 0
    BY <1>9 DEF RenewAddFails, RenewRestores, RenewFrame, AddrAddFails, AddrAdd, Fault, NoFault
  <2>2. faults = 0 /\ handles = "open" => loop[f] # "restoring"
    BY DEF AddressInv
  <2> QED
    BY <2>1, <2>2
<1>10. CASE RenewRoutes
  BY <1>10 DEF RenewRoutes, RenewFrame, Fault, NoFault
<1> QED
  BY <1>1, <1>2, <1>3, <1>4, <1>5, <1>6, <1>7, <1>8, <1>9, <1>10
     DEF Next, CallerStep, LoopStep

(* Between two events the interface has exactly the address of the latest  *)
(* lease, and its router is the default route.                             *)
THEOREM LeaseInForce == Spec => []LeaseIsInstalled
<1>1. Init => LeaseInv /\ RouteInv
  <2> SUFFICES ASSUME Init
               PROVE  LeaseInv /\ RouteInv
    OBVIOUS
  <2> QED
    BY DEF Init, Both, AllFamilies, LeaseInv, RouteInv
<1>2. Inv /\ LeaseInv /\ RouteInv => LeaseIsInstalled
  BY DEF Inv, AddressInv, LeaseInv, RouteInv, LeaseIsInstalled, Addressed, Families,
         AllFamilies
<1> QED
  BY <1>1, <1>2, NextLease, Invariance, PTL DEF Spec

(* One failing netlink call does not leave the container without address.  *)
THEOREM AddressSurvives == Spec => []OneFaultKeepsAddress
<1>1. Inv => OneFaultKeepsAddress
  BY DEF Inv, KeepInv, OneFaultKeepsAddress, Addressed, Families, AllFamilies
<1> QED
  BY <1>1, Invariance, PTL
-----------------------------------------------------------------------------
(* A step of a loop can only fill its channel, which was empty.            *)
LEMMA LoopStepResult ==
    ASSUME Inv, NEW f \in AllFamilies, LoopStep(f)
    PROVE  /\ UNCHANGED <<caller, stopClosed>>
           /\ \/ UNCHANGED errChan
              \/ /\ errChan[f] = "empty"
                 /\ \E r \in {"nil", "error"} : errChan' = [errChan EXCEPT ![f] = r]
<1>1. ASSUME loop[f] # "ended"
      PROVE  errChan[f] = "empty"
  BY <1>1 DEF Inv, LoopInv
<1> USE DEF callerVars, LoopAt
<1>2. CASE LoopIgnores(f) \/ LoopDefersDeconfig(f) \/ LoopRefusesLease(f)
  BY <1>2 DEF LoopIgnores, LoopDefersDeconfig, LoopRefusesLease
<1>3. ASSUME NEW l \in Leases(f), LoopTakesLease(f, l)
      PROVE  UNCHANGED <<caller, stopClosed, errChan>>
  BY <1>3 DEF LoopTakesLease
<1>4. CASE \/ RenewDeletes(f) \/ RenewAdds(f) \/ RenewAddFails(f) \/ RenewRestores(f)
           \/ RenewRoutes
  BY <1>4 DEF RenewDeletes, RenewAdds, RenewAddFails, RenewRestores, RenewRoutes,
              RenewFrame
<1>5. CASE LoopSeesExit(f) \/ LoopRestarts(f) \/ LoopStops(f)
  BY <1>5 DEF LoopSeesExit, LoopRestarts, LoopStops
<1>6. CASE LoopPanics(f)
  BY <1>6, <1>1 DEF LoopPanics
<1>7. CASE LoopFailsToRestart(f)
  BY <1>7, <1>1 DEF LoopFailsToRestart
<1>8. CASE LoopStopsWaiting(f)
  BY <1>8, <1>1 DEF LoopStopsWaiting
<1>9. CASE LoopFinishes(f)
  BY <1>9, <1>1 DEF LoopFinishes
<1> QED
  BY <1>2, <1>3, <1>4, <1>5, <1>6, <1>7, <1>8, <1>9 DEF LoopStep

(* The manager keeps the promise on which EndpointLifecycle relies: it     *)
(* runs until Stop or its own end, and one receiver gets its result.       *)
THEOREM PromiseKept == Spec => ManagerLifeHolds
<1> USE DEF Status, HasResult
<1>1. Init => Promise!Init
  BY DEF Init, Promise!Init
<1>2. Inv /\ [Next]_vars => [Promise!Next]_(Status)
  <2> SUFFICES ASSUME Inv, [Next]_vars PROVE [Promise!Next]_(Status)
    OBVIOUS
  <2> USE DEF Promise!Next, Promise!Begin, Promise!CloseStopChan, Promise!End,
              Promise!ReceiveErrChan
  <2>t. /\ errChan \in [AllFamilies -> {"empty", "nil", "error"}]
        /\ caller \in {"startV4", "startV6", "started"} => ~stopClosed
        /\ caller \in {"stopV4", "stopV6"} => stopClosed
    BY DEF Inv, TypeOK, CallerInv
  <2>1. ASSUME NEW f \in AllFamilies, StartClient(f)
        PROVE  [Promise!Next]_(Status)
    BY <2>1, <2>t DEF StartClient, Calls
  <2>2. ASSUME NEW f \in AllFamilies, ReceiveErrChan(f)
        PROVE  [Promise!Next]_(Status)
    BY <2>2, <2>t DEF ReceiveErrChan, Calls, AllFamilies
  <2>3. CASE StartFails \/ ReleaseHandles
    BY <2>3 DEF StartFails, ReleaseHandles, Calls
  <2>4. CASE Stop
    BY <2>4, <2>t DEF Stop, Calls, loopVars
  <2>5. ASSUME NEW f \in AllFamilies, LoopStep(f)
        PROVE  [Promise!Next]_(Status)
    BY <2>5, <2>t, LoopStepResult DEF AllFamilies
  <2>6. ASSUME NEW f \in AllFamilies, UdhcpcEmits(f) \/ UdhcpcExits(f)
        PROVE  UNCHANGED Status
    BY <2>6 DEF UdhcpcEmits, UdhcpcExits, callerVars, loopVars
  <2>7. CASE UNCHANGED vars
    BY <2>7 DEF vars, callerVars, loopVars
  <2> QED
    BY <2>1, <2>2, <2>3, <2>4, <2>5, <2>6, <2>7 DEF Next, CallerStep
<1> QED
  BY <1>1, <1>2, Invariance, PTL DEF Spec, ManagerLifeHolds, Promise!Spec
-----------------------------------------------------------------------------
(* While renew deletes the IPv4 address, the lease that made it do so is   *)
(* still the one in hand.                                                  *)
CauseInv ==
    loop["v4"] = "deleting" => lease["v4"].ip # last["v4"] \/ deconfigured["v4"]

(* No step takes that cause away, and none but the deletion flushes the    *)
(* copied routes.                                                          *)
LEMMA RoutesKept ==
    ASSUME Inv, CauseInv, [Next]_vars
    PROVE  /\ CauseInv'
           /\ copied /\ ~copied' => lease["v4"].ip # last["v4"] \/ deconfigured["v4"]
<1> USE DEF Inv, TypeOK, CauseInv, AllFamilies, LoopLabels, LoopAt, callerVars,
        loopVars, leaseVars, netVars, clientVars, counters
<1>1. ASSUME NEW f \in AllFamilies, StartClient(f) \/ ReceiveErrChan(f)
      PROVE  CauseInv' /\ UNCHANGED copied
  BY <1>1 DEF StartClient, ReceiveErrChan
<1>2. CASE StartFails \/ ReleaseHandles \/ Stop \/ UNCHANGED vars
  BY <1>2 DEF StartFails, ReleaseHandles, Stop, vars
<1>3. ASSUME NEW f \in AllFamilies, UdhcpcEmits(f) \/ UdhcpcExits(f)
      PROVE  CauseInv' /\ UNCHANGED copied
  BY <1>3 DEF UdhcpcEmits, UdhcpcExits
<1>4. ASSUME NEW f \in AllFamilies,
             \/ LoopIgnores(f) \/ LoopDefersDeconfig(f) \/ LoopRefusesLease(f)
             \/ LoopPanics(f) \/ LoopSeesExit(f) \/ LoopRestarts(f)
             \/ LoopStopsWaiting(f) \/ LoopStops(f) \/ LoopFinishes(f)
      PROVE  CauseInv' /\ UNCHANGED copied
  BY <1>4 DEF LoopIgnores, LoopDefersDeconfig, LoopRefusesLease, LoopPanics,
     LoopSeesExit, LoopRestarts, LoopStopsWaiting, LoopStops, LoopFinishes
<1>5. ASSUME NEW f \in AllFamilies, LoopFailsToRestart(f)
      PROVE  CauseInv' /\ UNCHANGED copied
  BY <1>5 DEF LoopFailsToRestart
<1>6. ASSUME NEW f \in AllFamilies, NEW l \in Leases(f), LoopTakesLease(f, l)
      PROVE  CauseInv' /\ UNCHANGED copied
  BY <1>6 DEF LoopTakesLease, AfterAddress
<1>7. ASSUME NEW f \in AllFamilies,
             RenewAdds(f) \/ RenewAddFails(f) \/ RenewRestores(f)
      PROVE  CauseInv' /\ UNCHANGED copied
  BY <1>7 DEF RenewAdds, RenewAddFails, RenewRestores, RenewFrame, AfterAddress,
     AddrAdd, AddrAddFails, Elsewhere
<1>8. CASE RenewRoutes
  BY <1>8 DEF RenewRoutes, RenewFrame
<1>9. ASSUME NEW f \in AllFamilies, RenewDeletes(f)
      PROVE  /\ CauseInv'
             /\ copied /\ ~copied' => f = "v4" /\ loop["v4"] = "deleting"
  BY <1>9 DEF RenewDeletes, RenewFrame, AddrDel
<1> QED
  BY <1>1, <1>2, <1>3, <1>4, <1>5, <1>6, <1>7, <1>8, <1>9
     DEF Next, CallerStep, LoopStep

(* Renewals of the same lease, restarts of udhcpc and whatever happens to  *)
(* IPv6 keep the routes that Join copied: they are lost only when the IPv4 *)
(* address is replaced (dhcp_manager.go:101, 110, 255-262).                *)
THEOREM CopiedRoutesStay == Spec => RoutesLostOnlyWithAddress
<1>1. Init => CauseInv
  BY DEF Init, CauseInv, Both, AllFamilies
<1>2. Inv /\ CauseInv /\ [Next]_vars
        => CauseInv' /\ [copied /\ ~copied' =>
             lease["v4"].ip # last["v4"] \/ deconfigured["v4"]]_vars
  BY RoutesKept
<1> QED
  BY <1>1, <1>2, Invariance, PTL DEF Spec, RoutesLostOnlyWithAddress
=============================================================================
