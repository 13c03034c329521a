------------------------- MODULE ManagerStartProofs -------------------------
(***************************************************************************)
(* Proofs about ManagerStart: why the clients of a manager have the link   *)
(* to themselves, and why a Start that fails keeps nothing, whichever      *)
(* goroutines its waits leave behind.                                      *)
(***************************************************************************)
EXTENDS ManagerStart, TLAPS

(* Which handles are open follows from where Start is; only a Start that   *)
(* has failed deletes the one that polls use.                              *)
HandlesOK ==
    /\ caller \in {"hostname", "inspect", "netns"}
         => nsHandle = "none" /\ netHandle = "none"
    /\ caller = "handle" => nsHandle = "open" /\ netHandle = "none"
    /\ caller \in {"find", "link", "clients", "ok"}
         => nsHandle = "open" /\ netHandle = "open"
    /\ caller = "failed" => nsHandle # "open" /\ netHandle # "open"

(* A wait begins when Start comes to it, and the namespace that it has     *)
(* found is taken out of its channel.                                      *)
WaitsBegin ==
    /\ caller \in {"hostname", "inspect"}
         => poller["netns"] = "none" /\ channel["netns"] = "empty"
    /\ caller \in {"handle", "find", "link", "clients", "ok"}
         => poller["netns"] = "ended" /\ channel["netns"] = "empty"
    /\ caller \in {"hostname", "inspect", "netns", "handle", "find"}
         => /\ poller["link"] = "none" /\ channel["link"] = "empty"
            /\ poller["index"] = "none" /\ channel["index"] = "empty"
    /\ caller \in {"clients", "ok"} => channel["link"] = "found"

(* A goroutine that has sent has ended; one that reports an error was      *)
(* right; and the one inside the condition runs only during its call.      *)
ChannelsOK ==
    /\ channel["netns"] \in {"empty", "found"}
    /\ channel["index"] \in {"empty", "moved", "renamed", "alien"}
    /\ channel["link"] \in {"empty", "found", "error"}
    /\ \A w \in {"netns", "link", "index"} :
         channel[w] # "empty" => poller[w] = "ended"
    /\ channel["link"] = "error" => "start" \in expired
    /\ poller["link"] \in {"none", "check", "wait"}
         => poller["index"] \in {"none", "ended"}
    /\ channel["link"] = "found" => poller["index"] = "ended"
    /\ poller["link"] = "ended" /\ channel["link"] # "found" => "start" \in expired

(* A link of another namespace is found through a deleted handle only, so  *)
(* that the link that ends the wait of a Start is its own.                 *)
LinkOK ==
    caller # "failed" =>
        /\ channel["index"] # "alien"
        /\ channel["link"] = "found" => ctrLink = "renamed"

Inv == TypeOK /\ HandlesOK /\ WaitsBegin /\ ChannelsOK /\ LinkOK /\ FailureReleases
-----------------------------------------------------------------------------
(* Start begins with its first wait.                                       *)
LEMMA InitInv == Init => Inv
BY DEF Init, Inv, TypeOK, HandlesOK, WaitsBegin, ChannelsOK, LinkOK, FailureReleases,
   Waits, HostnameWaits, Callers

(* A step of Start.                                                        *)
LEMMA CallerStepInv ==
    ASSUME Inv, CallerStep
    PROVE  Inv'
<1> USE DEF Inv, TypeOK, HandlesOK, WaitsBegin, ChannelsOK, LinkOK, FailureReleases,
        Waits, HostnameWaits, Callers, At, Answered, GivesUp, Expired, Started,
        managerVars, handleVars, waitVars
<1>1. CASE ContainerFound
  BY <1>1 DEF ContainerFound
<1>2. CASE HostnameEnds
  BY <1>2 DEF HostnameEnds
<1>3. CASE Namespace
  <2>1. CASE At("netns", "handle")
    <3>1. /\ caller = "netns" /\ caller' = "handle" /\ nsHandle' = "open"
          /\ channel' = [channel EXCEPT !["netns"] = "empty"]
          /\ UNCHANGED <<expired, poller, netHandle, ctrLink, hostname, sandbox>>
      BY <1>3, <2>1 DEF Namespace
    <3>2. poller["netns"] = "ended"
      BY <1>3, <2>1 DEF Namespace
    <3>3. TypeOK'
      BY <3>1
    <3>4. HandlesOK' /\ LinkOK' /\ FailureReleases'
      BY <3>1
    <3>5. WaitsBegin'
      BY <3>1, <3>2
    <3>6. ChannelsOK'
      BY <3>1
    <3> QED
      BY <3>3, <3>4, <3>5, <3>6
  <2>2. CASE At("netns", "failed")
    <3>1. "start" \in expired /\ UNCHANGED <<expired, waitVars, managerVars, sandbox>>
      BY <1>3, <2>2 DEF Namespace
    <3> QED
      BY <2>2, <3>1
  <2> QED
    BY <1>3, <2>1, <2>2 DEF Namespace
<1>4. CASE OpenHandle
  BY <1>4 DEF OpenHandle
<1>5. CASE FindIndex
  BY <1>5 DEF FindIndex
<1>6. CASE LinkAwaited \/ ClientsStarted
  BY <1>6 DEF LinkAwaited, ClientsStarted
<1>7. CASE Release
  BY <1>7 DEF Release
<1> HIDE DEF Inv
<1> QED
  BY <1>1, <1>2, <1>3, <1>4, <1>5, <1>6, <1>7 DEF CallerStep

(* What polls find is of the kind of their wait; what is found through a   *)
(* handle that is not deleted is the container's.                          *)
LEMMA FindsOwn ==
    ASSUME TypeOK, NEW w \in Waits \ {"link"}, NEW found \in Finds(w), found # "nothing"
    PROVE  /\ w # "index" => found = "found"
           /\ w = "index" => found \in {"moved", "renamed", "alien"}
           /\ w = "index" /\ netHandle # "deleted" => found # "alien"
<1>1. CASE w \in HostnameWaits
  BY <1>1 DEF Finds, HostnameWaits
<1>2. CASE w = "netns"
  BY <1>2 DEF Finds, HostnameWaits
<1>3. CASE w = "index"
  BY <1>3 DEF Finds, HostnameWaits
<1> QED
  BY <1>1, <1>2, <1>3 DEF Waits, HostnameWaits

(* A step of a goroutine of a helper, left behind or not.                  *)
LEMMA PollerStepInv ==
    ASSUME Inv, NEW w \in Waits, PollerStep(w)
    PROVE  Inv'
<1> USE DEF Inv, TypeOK, HandlesOK, WaitsBegin, ChannelsOK, LinkOK, FailureReleases,
        Waits, HostnameWaits, Callers, Expired, Started,
        managerVars, handleVars
<1>1. CASE PollerSeesEnd(w)
  BY <1>1 DEF PollerSeesEnd, Conditions
<1>2. CASE PollerChecks(w)
  BY <1>2 DEF PollerChecks
<1>3. CASE PollerWakes(w)
  BY <1>3 DEF PollerWakes
<1>4. CASE PollerCalls(w)
  <2>1. PICK found \in Finds(w) :
          IF found = "nothing"
          THEN poller' = [poller EXCEPT ![w] = "wait"] /\ UNCHANGED channel
          ELSE /\ poller' = [poller EXCEPT ![w] = "ended"]
               /\ channel' = [channel EXCEPT ![w] = found]
    BY <1>4 DEF PollerCalls
  <2>2. /\ w # "link" /\ poller[w] = "call"
        /\ UNCHANGED <<caller, expired, nsHandle, netHandle, ctrLink, hostname, sandbox>>
    BY <1>4 DEF PollerCalls
  <2>3. CASE found = "nothing"
    BY <2>1, <2>2, <2>3
  <2>4. CASE found # "nothing"
    <3>1. /\ w # "index" => found = "found"
          /\ w = "index" => found \in {"moved", "renamed", "alien"}
          /\ w = "index" /\ netHandle # "deleted" => found # "alien"
      BY <2>2, <2>4, FindsOwn
    <3>2. caller # "failed" => netHandle # "deleted"
      OBVIOUS
    <3> QED
      BY <2>1, <2>2, <2>4, <3>1, <3>2
  <2> QED
    BY <2>3, <2>4
<1>5. CASE w = "link" /\ LinkIsRead
  BY <1>5 DEF LinkIsRead
<1>6. CASE w = "link" /\ LinkIsGivenUp
  BY <1>6 DEF LinkIsGivenUp
<1> HIDE DEF Inv
<1> QED
  BY <1>1, <1>2, <1>3, <1>4, <1>5, <1>6 DEF PollerStep

(* Every step keeps the invariant.                                         *)
LEMMA NextInv ==
    ASSUME Inv, [Next]_vars
    PROVE  Inv'
<1> USE DEF Inv, TypeOK, HandlesOK, WaitsBegin, ChannelsOK, LinkOK, FailureReleases,
        managerVars, handleVars, waitVars
<1>1. ASSUME NEW context \in {"start", "hostname"}, Expire(context)
      PROVE  Inv'
  BY <1>1 DEF Expire
<1>2. CASE SandboxMoves
  <2>1. sandbox' \in {"none", "empty", "moved", "renamed", "gone"}
    BY <1>2 DEF SandboxMoves
  <2>2. UNCHANGED <<caller, expired, waitVars, managerVars>>
    BY <1>2 DEF SandboxMoves
  <2> QED
    BY <2>1, <2>2
<1>3. CASE UNCHANGED vars
  BY <1>3 DEF vars
<1> HIDE DEF Inv
<1> QED
  BY <1>1, <1>2, <1>3, CallerStepInv, PollerStepInv DEF Next

(* The invariant holds throughout.                                         *)
LEMMA Invariance == Spec => []Inv
<1> QED
  BY InitInv, NextInv, PTL DEF Spec
-----------------------------------------------------------------------------
(* Every variable keeps its type.                                          *)
THEOREM TypeCorrect == Spec => []TypeOK
<1> QED
  BY Invariance, PTL DEF Inv

(* The clients start with the container's interface under its final name   *)
(* and with open handles, and from then on no goroutine that a wait has    *)
(* left behind writes m.ctrLink (dhcp_manager.go:393-468).                 *)
THEOREM ClientsAloneOwnLink == Spec => []ClientsOwnLink
<1>1. Inv => ClientsOwnLink
  BY DEF Inv, HandlesOK, WaitsBegin, ChannelsOK, LinkOK, ClientsOwnLink
<1> QED
  BY <1>1, Invariance, PTL

(* A Start that fails keeps no handle, and no goroutine but that of a wait *)
(* that was cut off (dhcp_manager.go:405-468, netlink.go:12-35).           *)
THEOREM FailuresRelease == Spec => []FailureReleases
<1> QED
  BY Invariance, PTL DEF Inv
=============================================================================
