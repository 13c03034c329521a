---------------------------- MODULE RestoredManager ----------------------------
(***************************************************************************)
(* A dhcpManager, a crash of the plugin at any point of its work, and the  *)
(* manager that Restore (pkg/plugin/plugin.go) makes for the endpoint in   *)
(* the next process.  The loops and the udhcpc end with the process; the   *)
(* interface, its addresses and routes, and the record of the endpoint in  *)
(* state.json stay.  LastIP and LastIPv6 are not in the record: Restore    *)
(* reads them off the interface, as the crash has left it.                 *)
(***************************************************************************)
EXTENDS DHCPManager

CONSTANT MaxCrashes    \* bound on the crashes

ASSUME RestoredManagerAssumption == MaxCrashes \in Nat

VARIABLES
    phase,    \* the manager is that of Join ("joined") or of Restore
              \* ("restored"), or its process is "crashed"; "dropped": Restore
              \* has removed the record
    crashes,
    cut       \* the families in which a replacement of the address was cut off,
              \* between its AddrDel and the end of its AddrAdd

restartVars == <<phase, crashes, cut>>
restoredVars == <<vars, restartVars>>

(* Join's manager has an address in each family, from CreateEndpoint.      *)
JoinedInit ==
    /\ Init
    /\ last["v6"] # NoAddress
    /\ phase = "joined"
    /\ crashes = 0
    /\ cut = {}

Replacing == {f \in Families : loop[f] \in {"adding", "restoring"}}

(* Stop, and a startClients that fails, may close the handles beside the   *)
(* loop of the other family: this cuts off a replacement like a crash.     *)
Works ==
    /\ phase \in {"joined", "restored"}
    /\ Next
    /\ cut' = IF handles' # handles THEN cut \cup Replacing ELSE cut
    /\ UNCHANGED <<phase, crashes>>

Crash ==
    /\ phase \in {"joined", "restored"}
    /\ crashes < MaxCrashes
    /\ crashes' = crashes + 1
    /\ phase' = "crashed"
    /\ cut' = cut \cup Replacing
    /\ UNCHANGED vars

(* Restore takes the endpoint up in a new process, or once more after the  *)
(* clients could not be started.  The loops of that attempt, if one is     *)
(* still ending, have closed their handles and reach the interface no more.*)
Restores == phase = "crashed" \/ (phase = "restored" /\ caller = "failed")

(* The addresses of a family that the manager may take over: the first one *)
(* in the order of the kernel, or none if the family does without.         *)
Found(f) ==
    IF f = "v6" /\ (~IPv6 \/ addresses[f] = {}) THEN {NoAddress} ELSE addresses[f]

(* Its state; `lease`, of which the new process knows nothing, stays the   *)
(* latest lease that any process has taken.                                *)
NewManager ==
    /\ caller' = "startV4"
    /\ stopClosed' = FALSE
    /\ handles' = "open"
    /\ loop' = Both("none") /\ errChan' = Both("empty") /\ attempt' = Both(0)
    /\ primed' = Both(FALSE) /\ deconfigured' = Both(FALSE)
    /\ udhcpc' = Both("none") /\ event' = Both(NoEvent)
    /\ UNCHANGED <<lease, netVars, counters>>

(* What if Restore kept the LastIP of a record written by the last lease?  *)
RestoreEndpointFromLease ==
    /\ Restores
    /\ addresses["v4"] # {}
    /\ last' = [f \in AllFamilies |-> IF f \in Families THEN lease[f].ip ELSE NoAddress]
    /\ NewManager
    /\ phase' = "restored"
    /\ UNCHANGED <<crashes, cut>>

(* What if only IPv4 were read?                                            *)
RestoreEndpointV4 ==
    /\ Restores
    /\ last' \in [v4 : Found("v4"), v6 : {NoAddress}]
    /\ NewManager
    /\ phase' = "restored"
    /\ UNCHANGED <<crashes, cut>>

(* restoreFromState; a netlink call that fails is tried again.             *)
RestoreEndpoint ==
    /\ Restores
    /\ last' \in [v4 : Found("v4"), v6 : Found("v6")]
    /\ NewManager
    /\ phase' = "restored"
    /\ UNCHANGED <<crashes, cut>>

(* What if Restore gave up an endpoint without an IPv6 address too?        *)
RestoreIsStrict ==
    /\ Restores
    /\ \/ (\E f \in Families : addresses[f] = {}) /\ UNCHANGED faults
       \/ caller = "failed" /\ UNCHANGED faults
       \/ exits + faults < MaxTroubles /\ faults' = faults + 1
    /\ phase' = "dropped"
    /\ UNCHANGED <<callerVars, loopVars, leaseVars, clientVars, netVars, events, exits,
                   crashes, cut>>

(* Its retries are used up: the interface has no IPv4 address, the clients *)
(* do not start, or the netlink calls keep failing.                        *)
RestoreGivesUp ==
    /\ Restores
    /\ \/ addresses["v4"] = {} /\ UNCHANGED faults
       \/ phase = "restored" /\ UNCHANGED faults
       \/ exits + faults < MaxTroubles /\ faults' = faults + 1
    /\ phase' = "dropped"
    /\ UNCHANGED <<callerVars, loopVars, leaseVars, clientVars, netVars, events, exits,
                   crashes, cut>>

RestoredNext == Works \/ Crash \/ RestoreEndpoint \/ RestoreGivesUp

RestoredSpec == JoinedInit /\ [][RestoredNext]_restoredVars
-----------------------------------------------------------------------------
(* Every variable has a value of its kind.                                 *)
RestoredTypeOK ==
    /\ TypeOK
    /\ phase \in {"joined", "restored", "crashed", "dropped"}
    /\ crashes \in 0 .. MaxCrashes
    /\ cut \subseteq Families

(* Between two events the interface has one address and the manager knows  *)
(* it: the next replacement deletes LastIP, so that no second address is   *)
(* left beside the new one.  Also after crashes in the middle of           *)
(* replacements: the manager of Restore goes on from the address that the  *)
(* crash has left, be it of the latest lease or of the one before          *)
(* (plugin.go:470-493, dhcp_manager.go:93-178).                            *)
RestoredLastIP ==
    phase \in {"joined", "restored"} /\ faults = 0 /\ handles = "open" =>
        \A f \in Addressed : loop[f] = "select" => addresses[f] = {last[f]}

(* An endpoint is given up for want of an address only when a crash has    *)
(* cut off the replacement of its IPv4 address (plugin.go:409-423).        *)
DroppedOnlyIfCut ==
    phase = "dropped" /\ faults = 0 => "v4" \in cut \/ caller = "failed"

(* A loop ends for a cause in a restored manager too, unless a crash has   *)
(* cut off the replacement of its address (plugin.go:490-494,              *)
(* dhcp_manager.go:93).                                                    *)
LoopGoesOnUnlessCut ==
    faults <= 1 => \A f \in Families \ cut : EndsForCause(f)
=============================================================================
