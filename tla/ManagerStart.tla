----------------------------- MODULE ManagerStart -----------------------------
(***************************************************************************)
(* dhcpManager.Start (pkg/plugin/dhcp_manager.go) as the goroutine of Join *)
(* runs it, with the await helpers of pkg/util that it waits in.           *)
(*                                                                         *)
(* Each helper starts a goroutine that polls and sends what it found to a  *)
(* channel with room for one value, and waits for the channel or for the   *)
(* context.  When both are ready, Go picks either.  A caller that gave up  *)
(* leaves its goroutine behind, which notices later.  AwaitCondition polls *)
(* with a function that may itself wait: the one for the link calls        *)
(* AwaitLinkByIndex, and writes m.ctrLink.                                 *)
(***************************************************************************)
(* The waits, named for what they wait for; "index" is the AwaitLinkByIndex *)
(* inside the AwaitCondition "link".                                       *)
Waits == {"hostname", "inspect", "netns", "link", "index"}

(* AwaitCondition reports the end of its context on its channel too; the   *)
(* other helpers just end their goroutine.                                 *)
Conditions == {"hostname", "link"}

(* fetchHostname waits under a context of its own, derived from Start's.   *)
HostnameWaits == {"hostname", "inspect"}

VARIABLES
    caller,    \* where Start is
    expired,   \* the contexts that are done: "start", "hostname"
    poller,    \* per wait: where its goroutine is
    channel,   \* per wait: the value in its channel, or "empty"
    nsHandle,  \* m.nsHandle
    netHandle, \* m.netHandle
    ctrLink,   \* m.ctrLink: "nil", or the link as it was when it was read
    hostname,  \* whether m.hostname is known
    sandbox    \* how far the container's namespace and its interface are

handleVars == <<nsHandle, netHandle>>
managerVars == <<handleVars, ctrLink, hostname>>
waitVars == <<poller, channel>>
vars == <<caller, expired, waitVars, managerVars, sandbox>>

Expired(w) == "start" \in expired \/ (w \in HostnameWaits /\ "hostname" \in expired)

Started(w) == [poller EXCEPT ![w] = "check"]

Init ==
    /\ caller = "hostname"
    /\ expired = {}
    /\ poller = [w \in Waits |-> IF w = "hostname" THEN "check" ELSE "none"]
    /\ channel = [w \in Waits |-> "empty"]
    /\ nsHandle = "none" /\ netHandle = "none"
    /\ ctrLink = "nil"
    /\ hostname = FALSE
    /\ sandbox = "none"
-----------------------------------------------------------------------------
(* The goroutines of the helpers                                           *)

(* The head of the loop, and the wait for the next round: ctx.Err and      *)
(* ctx.Done.                                                               *)
PollerSeesEnd(w) ==
    /\ poller[w] \in {"check", "wait"}
    /\ Expired(w)
    /\ poller' = [poller EXCEPT ![w] = "ended"]
    /\ channel' = IF w \in Conditions THEN [channel EXCEPT ![w] = "error"] ELSE channel
    /\ UNCHANGED <<caller, expired, managerVars, sandbox>>

PollerChecks(w) ==
    /\ poller[w] = "check"
    /\ ~Expired(w)
    /\ poller' = IF w = "link" THEN [Started("index") EXCEPT ![w] = "call"]
                 ELSE [poller EXCEPT ![w] = "call"]
    /\ channel' = IF w = "link" THEN [channel EXCEPT !["index"] = "empty"] ELSE channel
    /\ UNCHANGED <<caller, expired, managerVars, sandbox>>

PollerWakes(w) ==
    /\ poller[w] = "wait"
    /\ poller' = Started(w)
    /\ UNCHANGED <<caller, expired, channel, managerVars, sandbox>>

(* What a round may find.  dockerd answers or not, and knows the container *)
(* or not.  The path of the namespace exists as long as the sandbox does,  *)
(* and a handle finds its interface from when it has moved in.  Netlink    *)
(* requests on a handle that has been deleted go to the namespace of the   *)
(* thread, the host's, where the index may be that of another link.        *)
Finds(w) ==
    CASE w \in HostnameWaits -> {"found", "nothing"}
      [] w = "netns" -> IF sandbox \in {"none", "gone"} THEN {"nothing"} ELSE {"found"}
      [] w = "index" -> IF netHandle = "deleted" THEN {"alien", "nothing"}
                        ELSE IF sandbox \in {"moved", "renamed"} THEN {sandbox}
                        ELSE {"nothing"}

(* What if the channels had no room?                                       *)
PollerCallsUnbuffered(w) ==
    /\ w # "link" /\ poller[w] = "call"
    /\ \E found \in Finds(w) :
        IF found = "nothing"
        THEN poller' = [poller EXCEPT ![w] = "wait"] /\ UNCHANGED channel
        ELSE /\ w = caller \/ (w = "index" /\ poller["link"] = "call")
             /\ poller' = [poller EXCEPT ![w] = "ended"]
             /\ channel' = [channel EXCEPT ![w] = found]
    /\ UNCHANGED <<caller, expired, managerVars, sandbox>>

PollerCalls(w) ==
    /\ w # "link" /\ poller[w] = "call"
    /\ \E found \in Finds(w) :
        IF found = "nothing"
        THEN poller' = [poller EXCEPT ![w] = "wait"] /\ UNCHANGED channel
        ELSE /\ poller' = [poller EXCEPT ![w] = "ended"]
             /\ channel' = [channel EXCEPT ![w] = found]
    /\ UNCHANGED <<caller, expired, managerVars, sandbox>>

(* The function that Start gives to AwaitCondition: AwaitLinkByIndex has   *)
(* its link, and the condition is that the link has been renamed ...       *)
LinkIsRead ==
    /\ poller["link"] = "call" /\ channel["index"] # "empty"
    /\ ctrLink' = channel["index"]
    /\ IF channel["index"] = "moved"
       THEN poller' = [poller EXCEPT !["link"] = "wait"] /\ UNCHANGED channel
       ELSE /\ poller' = [poller EXCEPT !["link"] = "ended"]
            /\ channel' = [channel EXCEPT !["link"] = "found"]
    /\ UNCHANGED <<caller, expired, handleVars, hostname, sandbox>>

(* ... or it gives up, with no link, and AwaitCondition with it.           *)
LinkIsGivenUp ==
    /\ poller["link"] = "call" /\ Expired("index")
    /\ ctrLink' = "nil"
    /\ poller' = [poller EXCEPT !["link"] = "ended"]
    /\ channel' = [channel EXCEPT !["link"] = "error"]
    /\ UNCHANGED <<caller, expired, handleVars, hostname, sandbox>>

PollerStep(w) ==
    \/ PollerSeesEnd(w) \/ PollerChecks(w) \/ PollerWakes(w) \/ PollerCalls(w)
    \/ w = "link" /\ (LinkIsRead \/ LinkIsGivenUp)
-----------------------------------------------------------------------------
(* Start                                                                   *)

At(here, there) == caller = here /\ caller' = there

Answered(w) == channel[w] \notin {"empty", "error"}
GivesUp(w) == channel[w] = "error" \/ Expired(w)

(* fetchHostname, in two waits.  Its context ends with it, either way, and *)
(* Start goes on to the namespace with or without a hostname.              *)
ContainerFound ==
    /\ At("hostname", "inspect") /\ Answered("hostname")
    /\ poller' = Started("inspect")
    /\ UNCHANGED <<expired, channel, managerVars, sandbox>>

HostnameEnds ==
    /\ \/ At("hostname", "netns") /\ GivesUp("hostname") /\ hostname' = FALSE
       \/ At("inspect", "netns") /\ GivesUp("inspect") /\ hostname' = FALSE
       \/ At("inspect", "netns") /\ Answered("inspect") /\ hostname' = TRUE
    /\ expired' = expired \cup {"hostname"}
    /\ poller' = Started("netns")
    /\ UNCHANGED <<channel, handleVars, ctrLink, sandbox>>

(* The namespace is opened, or is not there in time.                       *)
Namespace ==
    \/ /\ At("netns", "handle") /\ Answered("netns")
       /\ nsHandle' = "open"
       /\ channel' = [channel EXCEPT !["netns"] = "empty"]
       /\ UNCHANGED <<expired, poller, netHandle, ctrLink, hostname, sandbox>>
    \/ /\ At("netns", "failed") /\ GivesUp("netns")
       /\ UNCHANGED <<expired, waitVars, managerVars, sandbox>>

(* What if a failure here left the namespace to the other error path?      *)
OpenHandleLeaks ==
    /\ \/ At("handle", "find") /\ netHandle' = "open" /\ UNCHANGED nsHandle
       \/ At("handle", "failed") /\ UNCHANGED handleVars
    /\ UNCHANGED <<expired, waitVars, ctrLink, hostname, sandbox>>

OpenHandle ==
    /\ \/ At("handle", "find") /\ netHandle' = "open" /\ UNCHANGED nsHandle
       \/ At("handle", "failed") /\ nsHandle' = "closed" /\ UNCHANGED netHandle
    /\ UNCHANGED <<expired, waitVars, ctrLink, hostname, sandbox>>

(* The index of the interface: of the peer of the host's veth, or IfIndex. *)
FindIndex ==
    /\ At("find", "link")
    /\ poller' = Started("link")
    /\ UNCHANGED <<expired, channel, managerVars, sandbox>>

(* What if the end of the context were not taken for an error?             *)
LinkAwaitedOrNot ==
    /\ At("link", "clients") /\ (channel["link"] = "found" \/ GivesUp("link"))
    /\ UNCHANGED <<expired, waitVars, managerVars, sandbox>>

LinkAwaited ==
    /\ At("link", "clients") /\ channel["link"] = "found"
    /\ UNCHANGED <<expired, waitVars, managerVars, sandbox>>

ClientsStarted ==
    /\ At("clients", "ok")
    /\ UNCHANGED <<expired, waitVars, managerVars, sandbox>>

(* The index is not found, the link does not come, or startClients fails.  *)
Release ==
    /\ \/ At("find", "failed")
       \/ At("link", "failed") /\ GivesUp("link")
       \/ At("clients", "failed")
    /\ nsHandle' = "closed" /\ netHandle' = "deleted"
    /\ UNCHANGED <<expired, waitVars, ctrLink, hostname, sandbox>>

CallerStep ==
    \/ ContainerFound \/ HostnameEnds \/ Namespace \/ OpenHandle \/ FindIndex
    \/ LinkAwaited \/ ClientsStarted \/ Release
-----------------------------------------------------------------------------
(* The timeout of a context; a Leave that calls cancelJoin comes to the    *)
(* same for "start".                                                       *)
Expire(context) ==
    /\ context \notin expired
    /\ expired' = expired \cup {context}
    /\ UNCHANGED <<caller, waitVars, managerVars, sandbox>>

(* libnetwork creates the sandbox, moves the interface in and renames it,  *)
(* or the container ends.                                                  *)
SandboxMoves ==
    /\ sandbox' \in CASE sandbox = "none" -> {"empty"}
                     [] sandbox = "empty" -> {"moved", "gone"}
                     [] sandbox = "moved" -> {"renamed", "gone"}
                     [] sandbox = "renamed" -> {"gone"}
                     [] OTHER -> {}
    /\ UNCHANGED <<caller, expired, waitVars, managerVars>>

Next ==
    \/ CallerStep
    \/ \E w \in Waits : PollerStep(w)
    \/ \E context \in {"start", "hostname"} : Expire(context)
    \/ SandboxMoves

Spec == Init /\ [][Next]_vars

(* Goroutines run and timers expire.  Nothing is assumed of dockerd and of *)
(* the sandbox: the polls may never find anything.                         *)
FairSpec ==
    /\ Spec
    /\ WF_vars(CallerStep)
    /\ \A w \in Waits : WF_vars(PollerStep(w))
    /\ \A context \in {"start", "hostname"} : WF_vars(Expire(context))
-----------------------------------------------------------------------------
(* Properties                                                              *)

Callers == {"hostname", "inspect", "netns", "handle", "find", "link", "clients", "ok", "failed"}

(* Every variable has its type.                                            *)
TypeOK ==
    /\ caller \in Callers
    /\ expired \subseteq {"start", "hostname"}
    /\ poller \in [Waits -> {"none", "check", "call", "wait", "ended"}]
    /\ channel \in [Waits -> {"empty", "error", "found", "moved", "renamed", "alien"}]
    /\ nsHandle \in {"none", "open", "closed"}
    /\ netHandle \in {"none", "open", "deleted"}
    /\ ctrLink \in {"nil", "moved", "renamed", "alien"}
    /\ hostname \in BOOLEAN
    /\ sandbox \in {"none", "empty", "moved", "renamed", "gone"}

(* The clients start with the interface of the container, under its final  *)
(* name, and with both handles open: never with what a poll found through  *)
(* a handle that was deleted, and never with the nil of one that gave up.  *)
(* From then on no goroutine that a wait has left behind may write         *)
(* m.ctrLink, or use the handle: the loops of the manager read them with   *)
(* no lock (dhcp_manager.go:447-454).                                      *)
ClientsOwnLink ==
    caller \in {"clients", "ok"} =>
        /\ ctrLink = "renamed" /\ nsHandle = "open" /\ netHandle = "open"
        /\ \A w \in {"link", "index"} : poller[w] = "ended"

(* A Start that fails keeps no handle.  Only a context that ended may      *)
(* leave behind an open namespace, in the channel of the AwaitNetNS that   *)
(* gave up, and a poll that uses the handle after its Delete.              *)
FailureReleases ==
    caller = "failed" =>
        /\ nsHandle # "open" /\ netHandle # "open"
        /\ "start" \notin expired =>
            /\ channel["netns"] = "empty"
            /\ \A w \in Waits \ HostnameWaits : poller[w] \in {"none", "ended"}

(* Start ends, whatever dockerd answers and wherever the sandbox is, and   *)
(* so do all the goroutines that it has started or left behind             *)
(* (general.go:8-42, netlink.go:12-70, docker.go:15-43).                   *)
StartEnds ==
    <>[](/\ caller \in {"ok", "failed"}
         /\ \A w \in Waits : poller[w] \in {"none", "ended"})
=============================================================================
