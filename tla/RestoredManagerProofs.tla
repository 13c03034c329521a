------------------------ MODULE RestoredManagerProofs ------------------------
(***************************************************************************)
(* Proofs about RestoredManager, for any number of crashes: the invariant  *)
(* of one manager is also that of the manager which Restore makes from     *)
(* what it finds on the interface.                                         *)
(***************************************************************************)
EXTENDS RestoredManager, DHCPManagerProofs

USE RestoredManagerAssumption

(* A manager that is over has released its handles.                        *)
HandlesInv == caller \in {"failed", "stopped"} => handles = "closed"

(* Without failing calls there is never more than one address, so Restore  *)
(* has no choice.                                                          *)
OneAddressInv ==
    faults = 0 => \A f \in AllFamilies : \A a, b \in addresses[f] : a = b

(* With at most one failing call the address of a family is missing only   *)
(* while a loop replaces it, or after that was cut off.                    *)
Replaces(f) ==
    /\ loop[f] \in {"adding", "restoring"}
    /\ phase \in {"joined", "restored"} /\ handles = "open"
CutInv ==
    faults <= 1 => \A f \in Families :
        /\ addresses[f] = {} => f \in cut \/ Replaces(f)
        /\ last[f] = NoAddress => f \in cut

RestoredInv ==
    /\ Inv
    /\ HandlesInv /\ OneAddressInv /\ CutInv
    /\ RestoredTypeOK
    /\ DroppedOnlyIfCut
-----------------------------------------------------------------------------
(* The steps of a manager                                                  *)

(* A step that leaves the interface alone.                                 *)
LEMMA InterfaceKept ==
    ASSUME RestoredInv, Works, UNCHANGED <<addresses, last, faults, handles>>,
           \A f \in AllFamilies :
             loop[f] \in {"adding", "restoring"} => loop'[f] = loop[f]
    PROVE  OneAddressInv' /\ CutInv'
BY DEF RestoredInv, OneAddressInv, CutInv, Replaces, Works, Families, AllFamilies

(* Stop and startClients close the handles at their end.                   *)
LEMMA CallerWorks ==
    ASSUME RestoredInv, Works, CallerStep
    PROVE  HandlesInv' /\ OneAddressInv' /\ CutInv'
<1> USE DEF RestoredInv, HandlesInv, Calls, callerVars, loopVars, leaseVars, netVars, counters
<1>1. CASE UNCHANGED handles
  <2>1. UNCHANGED <<addresses, last, faults>>
    BY DEF CallerStep, StartClient, ReceiveErrChan, StartFails, ReleaseHandles, Stop
  <2>2. \A f \in AllFamilies :
          loop[f] \in {"adding", "restoring"} => loop'[f] = loop[f]
    BY DEF CallerStep, StartClient, ReceiveErrChan, StartFails, ReleaseHandles, Stop,
       Inv, TypeOK, CallerInv, AllFamilies
  <2>3. HandlesInv'
    BY <1>1 DEF CallerStep, StartClient, ReceiveErrChan, StartFails, ReleaseHandles, Stop,
       Inv, TypeOK
  <2> HIDE DEF RestoredInv
  <2> QED
    BY <1>1, <2>1, <2>2, <2>3, InterfaceKept
<1>2. CASE handles' # handles
  <2>1. handles' = "closed" /\ UNCHANGED <<loop, addresses, last, faults>>
    BY <1>2 DEF CallerStep, StartClient, ReceiveErrChan, StartFails, ReleaseHandles, Stop
  <2>2. cut' = cut \cup Replacing
    BY <1>2 DEF Works
  <2> QED
    BY <2>1, <2>2 DEF OneAddressInv, CutInv, Replaces, Replacing
<1> QED
  BY <1>1, <1>2

(* The loop of a family takes the address away and puts one back.          *)
LEMMA LoopWorks ==
    ASSUME RestoredInv, Works, NEW f \in AllFamilies, LoopStep(f)
    PROVE  HandlesInv' /\ OneAddressInv' /\ CutInv'
<1> USE DEF RestoredInv, LoopAt, AllFamilies
<1>1. /\ UNCHANGED <<caller, handles>>
      /\ phase \in {"joined", "restored"} /\ UNCHANGED <<phase, cut>>
  <2>1. UNCHANGED <<caller, handles>>
    BY DEF LoopStep, callerVars, LoopIgnores, LoopDefersDeconfig, LoopRefusesLease, LoopTakesLease,
       LoopPanics, RenewDeletes, RenewAdds, RenewAddFails, RenewRestores, RenewRoutes,
       RenewFrame, LoopSeesExit, LoopRestarts, LoopFailsToRestart, LoopStopsWaiting,
       LoopStops, LoopFinishes
  <2> QED
    BY <2>1 DEF Works
<1>2. HandlesInv'
  BY <1>1 DEF HandlesInv
<1>t. /\ loop \in [AllFamilies -> LoopLabels]
      /\ addresses \in [AllFamilies -> SUBSET Addresses]
      /\ last \in [AllFamilies -> Addresses \cup {NoAddress}]
      /\ lease[f].ip \in Addresses /\ NoAddress \notin Addresses
      /\ faults \in Nat
  BY DHCPManagerAssumption DEF Inv, TypeOK, Leases
<1>3. CASE RenewDeletes(f)
  <2>1. /\ loop' = [loop EXCEPT ![f] = "adding"] /\ UNCHANGED last
        /\ loop[f] = "deleting"
    BY <1>3 DEF RenewDeletes
  <2>2. /\ faults' \in {faults, faults + 1}
        /\ addresses' \in {addresses, [addresses EXCEPT ![f] = @ \ {last[f]}]}
        /\ handles = "closed" => addresses' = addresses
    BY <1>3 DEF RenewDeletes, Fault, NoFault, AddrDel, netVars
  <2>3. handles \in {"open", "closed"}
    BY DEF Inv, TypeOK
  <2> QED
    BY <1>1, <1>2, <1>t, <2>1, <2>2, <2>3 DEF OneAddressInv, CutInv, Replaces, Families
<1>4. CASE RenewAdds(f)
  <2>1. /\ \/ /\ addresses' = [addresses EXCEPT ![f] = @ \cup {lease[f].ip}]
              /\ handles = "open"
           \/ handles = "closed" /\ UNCHANGED addresses
        /\ last' = [last EXCEPT ![f] = lease[f].ip]
        /\ faults' = faults
        /\ loop[f] = "adding" /\ \A g \in AllFamilies \ {f} : loop'[g] = loop[g]
    BY <1>4, <1>t DEF RenewAdds, AddrAdd, NoFault, Elsewhere, netVars
  <2>2. faults = 0 /\ handles = "open" => addresses[f] = {}
    BY <2>1 DEF Inv, AddressInv
  <2> QED
    BY <1>1, <1>2, <1>t, <2>1, <2>2 DEF OneAddressInv, CutInv, Replaces, Families
<1>5. CASE RenewAddFails(f)
  <2>1. /\ loop[f] = "adding" /\ loop' = [loop EXCEPT ![f] = "restoring"]
        /\ UNCHANGED <<addresses, last>>
        /\ faults' \in {faults, faults + 1}
    BY <1>5 DEF RenewAddFails, AddrAddFails, Fault, NoFault, netVars
  <2> QED
    BY <1>1, <1>2, <1>t, <2>1 DEF OneAddressInv, CutInv, Replaces, Families
<1>6. CASE RenewRestores(f)
  <2>1. /\ loop[f] = "restoring" /\ loop' = [loop EXCEPT ![f] = "select"]
        /\ UNCHANGED last
    BY <1>6 DEF RenewRestores
  <2>2. \/ /\ handles = "open" /\ faults' = faults
           /\ addresses' = [addresses EXCEPT ![f] = @ \cup {last[f]}]
        \/ /\ UNCHANGED addresses /\ faults' \in {faults, faults + 1}
           /\ addresses[f] # {} \/ handles = "closed" \/ faults' = faults + 1
    BY <1>6 DEF RenewRestores, NoFault, AddrAdd, AddrAddFails, Fault, netVars
  <2>3. handles = "open" => faults # 0
    BY <2>1 DEF Inv, AddressInv
  <2>4. handles = "open" /\ faults <= 1 /\ addresses[f] = {} => faults = 1
    BY <2>1 DEF Inv, KeepInv
  <2> QED
    BY <1>1, <1>2, <1>t, <2>1, <2>2, <2>3, <2>4 DEF OneAddressInv, CutInv, Replaces, Families
<1>7. CASE RenewRoutes /\ f = "v4"
  <2>1. /\ loop[f] = "routing" /\ loop' = [loop EXCEPT ![f] = "select"]
        /\ UNCHANGED <<addresses, last>>
        /\ faults' \in {faults, faults + 1}
    BY <1>7 DEF RenewRoutes, Fault, NoFault
  <2> QED
    BY <1>1, <1>2, <1>t, <2>1 DEF OneAddressInv, CutInv, Replaces, Families
<1>8. CASE \/ LoopIgnores(f) \/ LoopDefersDeconfig(f) \/ LoopRefusesLease(f)
           \/ LoopPanics(f) \/ LoopSeesExit(f) \/ LoopRestarts(f) \/ LoopFailsToRestart(f)
           \/ LoopStopsWaiting(f) \/ LoopStops(f) \/ LoopFinishes(f)
           \/ \E l \in Leases(f) : LoopTakesLease(f, l)
  <2>1. UNCHANGED <<addresses, last, faults>>
    BY <1>8 DEF LoopIgnores, LoopDefersDeconfig, LoopRefusesLease, LoopTakesLease, LoopPanics,
       LoopSeesExit, LoopRestarts, LoopFailsToRestart, LoopStopsWaiting, LoopStops,
       LoopFinishes, leaseVars, netVars, counters
  <2>2. /\ loop[f] \in {"select", "backoff", "finishing"}
        /\ \A g \in AllFamilies \ {f} : loop'[g] = loop[g]
    BY <1>8, <1>t DEF LoopIgnores, LoopDefersDeconfig, LoopRefusesLease, LoopTakesLease, LoopPanics,
       LoopSeesExit, LoopRestarts, LoopFailsToRestart, LoopStopsWaiting, LoopStops,
       LoopFinishes
  <2> HIDE DEF RestoredInv
  <2> QED
    BY <1>1, <1>2, <2>1, <2>2, InterfaceKept
<1> QED
  BY <1>3, <1>4, <1>5, <1>6, <1>7, <1>8 DEF LoopStep

(* A manager at work keeps the invariant.                                  *)
LEMMA WorksInv ==
    ASSUME RestoredInv, Works
    PROVE  RestoredInv'
<1>1. Inv'
  BY NextInv DEF RestoredInv, Works
<1>2. RestoredTypeOK' /\ DroppedOnlyIfCut'
  BY <1>1 DEF RestoredInv, RestoredTypeOK, DroppedOnlyIfCut, Works, Inv, Replacing
<1>3. ASSUME NEW f \in AllFamilies, UdhcpcEmits(f) \/ UdhcpcExits(f)
      PROVE  HandlesInv' /\ OneAddressInv' /\ CutInv'
  <2>1. UNCHANGED <<addresses, last, faults, handles, loop, caller>>
    BY <1>3 DEF UdhcpcEmits, UdhcpcExits, callerVars, loopVars, leaseVars, netVars
  <2> QED
    BY <2>1, InterfaceKept DEF RestoredInv, HandlesInv
<1> QED
  BY <1>1, <1>2, <1>3, CallerWorks, LoopWorks DEF Works, Next, RestoredInv
-----------------------------------------------------------------------------
(* Crash and Restore                                                       *)

(* A crash cuts off the replacements that are under way.                   *)
LEMMA CrashInv ==
    ASSUME RestoredInv, Crash
    PROVE  RestoredInv'
<1>1. Inv' /\ HandlesInv' /\ OneAddressInv' /\ RestoredTypeOK'
  BY DEF RestoredInv, Crash, Inv, TypeOK, CallerInv, ClientInv, LoopInv,
     AddressInv, KeepInv, HandlesInv, OneAddressInv, RestoredTypeOK, Replacing,
     vars, callerVars, loopVars, leaseVars, netVars, clientVars, counters
<1>2. CutInv' /\ DroppedOnlyIfCut'
  BY DEF RestoredInv, Crash, CutInv, Replaces, Replacing, DroppedOnlyIfCut,
     vars, callerVars, loopVars, leaseVars, netVars, clientVars, counters
<1> QED
  BY <1>1, <1>2 DEF RestoredInv

(* Where Restore takes up an endpoint no replacement is under way.         *)
LEMMA RestoresCut ==
    ASSUME RestoredInv, Restores, faults <= 1, NEW f \in Families, addresses[f] = {}
    PROVE  f \in cut
BY DEF RestoredInv, Restores, CutInv, Replaces, HandlesInv

(* The new manager starts from an address that is there.                   *)
LEMMA RestoreInv ==
    ASSUME RestoredInv, RestoreEndpoint
    PROVE  RestoredInv'
<1> USE DEF Both, AllFamilies
<1>1. /\ caller' = "startV4" /\ stopClosed' = FALSE /\ handles' = "open"
      /\ loop' = Both("none") /\ errChan' = Both("empty") /\ attempt' = Both(0)
      /\ primed' = Both(FALSE) /\ deconfigured' = Both(FALSE)
      /\ udhcpc' = Both("none") /\ event' = Both(NoEvent)
      /\ UNCHANGED <<addresses, gateway, copied, events, exits, faults, crashes, cut>>
      /\ phase' = "restored"
  BY DEF RestoreEndpoint, NewManager, netVars, counters
<1>t. /\ addresses \in [AllFamilies -> SUBSET Addresses]
      /\ lease \in [AllFamilies -> Leases("v4")] /\ lease["v6"] \in Leases("v6")
      /\ gateway \in Gateways \cup {NoGateway}
      /\ copied \in BOOLEAN /\ events \in 0 .. MaxEvents
      /\ exits \in 0 .. MaxTroubles /\ faults \in 0 .. MaxTroubles
      /\ NoAddress \notin Addresses
  BY DHCPManagerAssumption DEF RestoredInv, Inv, TypeOK
<1>2. /\ last' \in [AllFamilies -> Addresses \cup {NoAddress}]
      /\ last'["v4"] \in addresses["v4"]
      /\ last'["v6"] # NoAddress => last'["v6"] \in addresses["v6"]
      /\ last'["v6"] = NoAddress => ~IPv6 \/ addresses["v6"] = {}
  <2>1. last' \in [v4 : Found("v4"), v6 : Found("v6")]
    BY DEF RestoreEndpoint
  <2>2. /\ last' = [v4 |-> last'.v4, v6 |-> last'.v6]
        /\ last'.v4 \in Found("v4") /\ last'.v6 \in Found("v6")
    BY <2>1
  <2> QED
    BY <2>2, <1>t DEF Found
<1>3. UNCHANGED lease
  BY DEF RestoreEndpoint, NewManager
<1>4. TypeOK'
  <2>1. caller' \in CallerLabels /\ loop' \in [AllFamilies -> LoopLabels]
    BY <1>1 DEF CallerLabels, LoopLabels
  <2>2. /\ errChan' \in [AllFamilies -> {"empty", "nil", "error"}]
        /\ attempt' \in [AllFamilies -> 0 .. MaxAttempts]
        /\ primed' \in [AllFamilies -> BOOLEAN] /\ deconfigured' \in [AllFamilies -> BOOLEAN]
        /\ udhcpc' \in [AllFamilies -> {"none", "fresh", "running", "bound", "dead"}]
        /\ event' \in [AllFamilies -> Events \cup {NoEvent}]
    BY <1>1, DHCPManagerAssumption
  <2> QED
    BY <1>1, <1>2, <1>3, <1>t, <2>1, <2>2 DEF TypeOK
<1>5. CallerInv' /\ ClientInv' /\ LoopInv'
  BY <1>1 DEF CallerInv, ClientInv, LoopInv, NoEvent
<1>6. AddressInv' /\ KeepInv'
  <2>1. faults = 0 => \A f \in AllFamilies : last'[f] # NoAddress => addresses[f] = {last'[f]}
    BY <1>2, <1>t DEF RestoredInv, OneAddressInv
  <2> QED
    BY <1>1, <1>2, <1>t, <2>1 DEF AddressInv, KeepInv
<1>7. HandlesInv' /\ OneAddressInv'
  BY <1>1 DEF HandlesInv, OneAddressInv, RestoredInv
<1>8. CutInv'
  <2> SUFFICES ASSUME faults <= 1, NEW f \in Families
               PROVE  (addresses[f] = {} \/ last'[f] = NoAddress) => f \in cut
    BY <1>1 DEF CutInv
  <2>1. last'[f] = NoAddress => addresses[f] = {}
    BY <1>2, <1>t DEF Families
  <2> QED
    BY <2>1, RestoresCut DEF RestoreEndpoint
<1>9. RestoredTypeOK' /\ DroppedOnlyIfCut'
  BY <1>1, <1>4 DEF RestoredInv, RestoredTypeOK, DroppedOnlyIfCut
<1> QED
  BY <1>4, <1>5, <1>6, <1>7, <1>8, <1>9 DEF RestoredInv, Inv

(* An endpoint that is given up keeps its interface as it is.              *)
LEMMA GiveUpInv ==
    ASSUME RestoredInv, RestoreGivesUp
    PROVE  RestoredInv'
<1>1. /\ faults' \in {faults, faults + 1} /\ faults' \in 0 .. MaxTroubles
      /\ faults \in Nat
      /\ phase' = "dropped"
      /\ UNCHANGED <<callerVars, loopVars, leaseVars, clientVars, netVars, events, exits,
                     crashes, cut>>
  BY DHCPManagerAssumption DEF RestoreGivesUp, RestoredInv, Inv, TypeOK
<1>2. Inv'
  BY <1>1 DEF RestoredInv, Inv, TypeOK, CallerInv, ClientInv, LoopInv,
     AddressInv, KeepInv, callerVars, loopVars, leaseVars, netVars, clientVars
<1>3. HandlesInv' /\ OneAddressInv' /\ RestoredTypeOK'
  BY <1>1, <1>2 DEF RestoredInv, HandlesInv, OneAddressInv, RestoredTypeOK, Inv, callerVars, netVars
<1>4. CutInv'
  BY <1>1, RestoresCut DEF RestoreGivesUp, RestoredInv, CutInv, callerVars, loopVars, leaseVars, netVars
<1>5. DroppedOnlyIfCut'
  <2>1. "v4" \in Families
    BY DEF Families, AllFamilies
  <2> QED
    BY <1>1, <2>1, RestoresCut DEF RestoreGivesUp, Restores, DroppedOnlyIfCut, callerVars
<1> QED
  BY <1>2, <1>3, <1>4, <1>5 DEF RestoredInv
-----------------------------------------------------------------------------
(* The invariant holds for any number of crashes.                          *)
THEOREM RestoredInvariance == RestoredSpec => []RestoredInv
<1>1. JoinedInit => RestoredInv
  <2> SUFFICES ASSUME JoinedInit
               PROVE  RestoredInv
    OBVIOUS
  <2>1. Inv
    BY InitInv DEF JoinedInit
  <2>2. /\ \A f \in AllFamilies : last[f] # NoAddress /\ last[f] \in Addresses
        /\ \A f \in AllFamilies : addresses[f] = {last[f]}
        /\ caller = "startV4"
    BY DHCPManagerAssumption DEF JoinedInit, Init, AllFamilies, Both
  <2> QED
    BY <2>1, <2>2 DEF RestoredInv, HandlesInv, OneAddressInv, CutInv, RestoredTypeOK,
       DroppedOnlyIfCut, JoinedInit, Inv, Families, AllFamilies
<1>2. ASSUME RestoredInv, [RestoredNext]_restoredVars
      PROVE  RestoredInv'
  <2>1. CASE UNCHANGED restoredVars
    BY <1>2, <2>1 DEF RestoredInv, Inv, TypeOK, CallerInv, ClientInv,
       LoopInv, AddressInv, KeepInv, HandlesInv, OneAddressInv, CutInv, Replaces,
       RestoredTypeOK, DroppedOnlyIfCut, restoredVars, restartVars,
       vars, callerVars, loopVars, leaseVars, netVars, clientVars, counters
  <2> QED
    BY <1>2, <2>1, WorksInv, CrashInv, RestoreInv, GiveUpInv DEF RestoredNext
<1> QED
  BY <1>1, <1>2, PTL DEF RestoredSpec

(* Between two events the interface has one address and the manager knows  *)
(* it, also the manager that Restore has made after any number of crashes, *)
(* at any point of a replacement.                                          *)
THEOREM LastIPAfterRestart == RestoredSpec => []RestoredLastIP
<1>1. RestoredInv => RestoredLastIP
  BY DEF RestoredInv, Inv, AddressInv, RestoredLastIP, Addressed, Families, AllFamilies
<1> QED
  BY <1>1, RestoredInvariance, PTL

(* Restore only gives an endpoint up for want of an address when the       *)
(* replacement of that address has been cut off.                           *)
THEOREM DropsAreCuts == RestoredSpec => []DroppedOnlyIfCut
<1> QED
  BY RestoredInvariance, PTL DEF RestoredInv

(* The loop of a restored manager ends for a cause, in every family whose  *)
(* replacement has not been cut off.                                       *)
THEOREM RestoredLoopsEndForCause == RestoredSpec => []LoopGoesOnUnlessCut
<1>1. RestoredInv => LoopGoesOnUnlessCut
  BY DEF RestoredInv, Inv, LoopInv, CutInv, LoopGoesOnUnlessCut, EndsForCause, Families, AllFamilies
<1> QED
  BY <1>1, RestoredInvariance, PTL
=============================================================================
