---------------------------- MODULE InitialLease ----------------------------
(***************************************************************************)
(* CreateEndpoint (pkg/plugin/network.go) and the udhcpc.GetIP that it     *)
(* calls for each address family (pkg/udhcpc/client.go).                   *)
(*                                                                         *)
(* GetIP runs `udhcpc -q`, which exits once it has a lease.  Its handler   *)
(* script writes a line for each event to a pipe; the scanner goroutine of *)
(* Start reads the lines and offers them on an unbuffered channel; the     *)
(* collector goroutine of GetIP receives them; the goroutine of Finish     *)
(* waits for the process, and Cmd.Wait closes the pipe when the process    *)
(* has exited.  These run side by side, and against the lease timeout.     *)
(***************************************************************************)
EXTENDS Integers, Sequences

CONSTANTS
    IPv6,       \* the option ipv6 of the network
    Macvlan,    \* macvlan or ipvlan mode, as opposed to bridge mode
    Addresses,  \* what the DHCP server may grant
    None        \* no address

ASSUME InitialLeaseAssumption ==
    /\ IPv6 \in BOOLEAN
    /\ Macvlan \in BOOLEAN
    /\ None \notin Addresses

Families == IF IPv6 THEN {"v4", "v6"} ELSE {"v4"}
Hints == [v4 : Addresses \cup {None}, v6 : Addresses \cup {None}, index : BOOLEAN]
NoHint == [v4 |-> None, v6 |-> None, index |-> FALSE]

(* The lines of the handler script: the address of a bound event, or None  *)
(* for a deconfig event, which carries no lease.                           *)
Lines == Addresses \cup {None}

VARIABLES
    handler,    \* where CreateEndpoint is
    family,     \* which family it is acquiring
    link,       \* whether the interface exists
    joinHint,   \* joinHints[EndpointID]
    answer,     \* per family: the address in the response
    granted,    \* per family: the lease that the server granted
    process,    \* the udhcpc of the GetIP that runs
    pipe,       \* the lines written and not yet read
    pipeOpen,   \* the reading end of the pipe is open
    scanner,    \* where the scanner goroutine is
    offered,    \* the line that it offers
    collector,  \* where the collector goroutine is
    info,       \* the lease that it has collected
    done,       \* GetIP has closed `done`
    finish      \* what Finish has returned

endpointVars == <<link, joinHint, answer>>
serverVars == <<granted, process>>
pipeVars == <<pipe, pipeOpen>>
scanVars == <<scanner, offered>>
collectVars == <<collector, info, done>>
getIPVars == <<process, pipeVars, scanVars, collectVars, finish>>
vars == <<handler, family, endpointVars, granted, getIPVars>>

Idle ==
    /\ process = "none" /\ finish = "none"
    /\ pipe = <<>> /\ pipeOpen = TRUE
    /\ scanner = "ended" /\ offered = None
    /\ collector = "ended" /\ info = None /\ done = FALSE

Init ==
    /\ handler = "begin"
    /\ family = "v4"
    /\ link = FALSE
    /\ joinHint = NoHint
    /\ answer = [f \in {"v4", "v6"} |-> None]
    /\ granted = [f \in {"v4", "v6"} |-> None]
    /\ Idle
-----------------------------------------------------------------------------
(* CreateEndpoint                                                          *)

At(here, there) == handler = here /\ handler' = there

(* A static address is asked for, the options or the parent interface are  *)
(* not found, the MAC address is wrong, or LinkAdd fails.                  *)
Refused ==
    /\ At("begin", "failed")
    /\ UNCHANGED <<family, endpointVars, granted, getIPVars>>

LinkAdded ==
    /\ At("begin", "prepare")
    /\ link' = TRUE
    /\ UNCHANGED <<family, joinHint, answer, granted, getIPVars>>

(* The interface is set up; in macvlan mode its index goes to the hint.    *)
Prepared ==
    /\ At("prepare", "acquire")
    /\ joinHint' = [joinHint EXCEPT !.index = Macvlan]
    /\ UNCHANGED <<family, link, answer, granted, getIPVars>>

(* Setting it up fails, or udhcpc cannot be started.                       *)
Fails ==
    /\ At("prepare", "cleanup") \/ At("acquire", "cleanup")
    /\ UNCHANGED <<family, endpointVars, granted, getIPVars>>

Store ==
    /\ At("store", IF family = "v4" /\ IPv6 THEN "acquire" ELSE "ok")
    /\ family' = IF IPv6 THEN "v6" ELSE "v4"
    /\ joinHint' = [joinHint EXCEPT ![family] = info]
    /\ answer' = [answer EXCEPT ![family] = info]
    /\ UNCHANGED <<link, granted, getIPVars>>

(* The interface is deleted, and the hint; if deleting the interface fails *)
(* it stays, for the error is ignored.                                     *)
Cleanup ==
    /\ At("cleanup", "failed")
    /\ link' \in {link, FALSE}
    /\ joinHint' = NoHint
    /\ UNCHANGED <<family, answer, granted, getIPVars>>
-----------------------------------------------------------------------------
(* GetIP                                                                   *)

StartUdhcpc ==
    /\ At("acquire", "finish")
    /\ process' = "discovering"
    /\ pipe' = <<>> /\ pipeOpen' = TRUE
    /\ scanner' = "reading"
    /\ collector' = "select" /\ info' = None /\ done' = FALSE
    /\ finish' = "waiting"
    /\ UNCHANGED <<family, endpointVars, granted, offered>>

(* What if Finish only waited for the process?                             *)
TimeoutIgnored ==
    /\ handler = "finish" /\ finish = "waiting"
    /\ UNCHANGED vars

(* What if Finish left the process alone?                                  *)
TimeoutLeavesProcess ==
    /\ handler = "finish" /\ finish = "waiting"
    /\ finish' = "error"
    /\ UNCHANGED <<handler, family, endpointVars, serverVars, pipeVars, scanVars,
                   collectVars>>

(* ctx is done before the process has been waited for: it is killed.       *)
Timeout ==
    /\ handler = "finish" /\ finish = "waiting"
    /\ finish' = "error"
    /\ process' = IF process \in {"discovering", "leased"} THEN "killed" ELSE process
    /\ UNCHANGED <<handler, family, endpointVars, granted, pipeVars, scanVars,
                   collectVars>>

(* Finish has returned; the collector is told to end.                      *)
CloseDone ==
    /\ At("finish", "collect")
    /\ finish \in {"nil", "error"}
    /\ done' = TRUE
    /\ UNCHANGED <<family, endpointVars, serverVars, pipeVars, scanVars, collector,
                   info, finish>>

(* What if GetIP did not look whether there is a lease?                    *)
GetIPReturnsUnchecked ==
    /\ collector = "ended"
    /\ \/ finish = "nil" /\ At("collect", "store")
       \/ At("collect", "cleanup")
    /\ UNCHANGED <<family, endpointVars, granted, getIPVars>>

(* wg.Wait, and what GetIP and its caller make of the result; the parsing  *)
(* of the address may fail.                                                *)
GetIPReturns ==
    /\ collector = "ended"
    /\ \/ finish = "nil" /\ info # None /\ At("collect", "store")
       \/ At("collect", "cleanup")
    /\ UNCHANGED <<family, endpointVars, granted, getIPVars>>

HandlerStep ==
    \/ Refused \/ LinkAdded \/ Prepared \/ Fails \/ Store \/ Cleanup
    \/ StartUdhcpc \/ CloseDone \/ GetIPReturns
-----------------------------------------------------------------------------
(* udhcpc and the server                                                   *)

(* It starts with deconfig, gets a lease, or not, and exits.               *)
Deconfigs ==
    /\ process = "discovering" /\ pipe = <<>> /\ scanner = "reading"
    /\ pipe' = <<None>>
    /\ UNCHANGED <<handler, family, endpointVars, serverVars, pipeOpen, scanVars,
                   collectVars, finish>>

Binds(a) ==
    /\ process = "discovering"
    /\ process' = "leased"
    /\ granted' = [granted EXCEPT ![family] = a]
    /\ pipe' = Append(pipe, a)
    /\ UNCHANGED <<handler, family, endpointVars, pipeOpen, scanVars, collectVars,
                   finish>>

Exits ==
    /\ \/ process = "leased" /\ process' = "succeeded"
       \/ process = "discovering" /\ process' = "crashed"
    /\ UNCHANGED <<handler, family, endpointVars, granted, pipeVars, scanVars,
                   collectVars, finish>>
-----------------------------------------------------------------------------
(* The goroutines of GetIP                                                 *)

Dead == process \in {"succeeded", "crashed", "killed", "reaped"}

(* What if Finish passed on how the process ended?                         *)
WaitReturnsStatus ==
    /\ process \in {"succeeded", "crashed", "killed"}
    /\ process' = "reaped"
    /\ pipeOpen' = FALSE
    /\ finish' = IF finish # "waiting" THEN finish ELSE process
    /\ UNCHANGED <<handler, family, endpointVars, granted, pipe, scanVars, collectVars>>

(* Cmd.Wait returns, and with it Finish, unless that has timed out.        *)
WaitReturns ==
    /\ process \in {"succeeded", "crashed", "killed"}
    /\ process' = "reaped"
    /\ pipeOpen' = FALSE
    /\ finish' = IF finish # "waiting" THEN finish
                 ELSE IF process = "succeeded" THEN "nil" ELSE "error"
    /\ UNCHANGED <<handler, family, endpointVars, granted, pipe, scanVars, collectVars>>

Scan ==
    /\ scanner = "reading" /\ pipeOpen /\ pipe # <<>>
    /\ scanner' = "offering"
    /\ offered' = Head(pipe)
    /\ pipe' = Tail(pipe)
    /\ UNCHANGED <<handler, family, endpointVars, serverVars, pipeOpen, collectVars,
                   finish>>

(* The pipe is closed on this side, or empty and closed on the other.      *)
ScanEnds ==
    /\ scanner = "reading"
    /\ ~pipeOpen \/ (Dead /\ pipe = <<>>)
    /\ scanner' = "ended"
    /\ UNCHANGED <<handler, family, endpointVars, serverVars, pipeVars, offered,
                   collectVars, finish>>

Collect ==
    /\ collector = "select" /\ scanner = "offering"
    /\ scanner' = "reading"
    /\ info' = IF offered = None THEN info ELSE offered
    /\ UNCHANGED <<handler, family, endpointVars, serverVars, pipeVars, offered,
                   collector, done, finish>>

CollectEnds ==
    /\ collector = "select"
    /\ done \/ scanner = "ended"
    /\ collector' = "ended"
    /\ UNCHANGED <<handler, family, endpointVars, serverVars, pipeVars, scanVars, info,
                   done, finish>>

GoroutineStep == WaitReturns \/ Scan \/ ScanEnds \/ Collect \/ CollectEnds

Next ==
    \/ HandlerStep \/ Timeout
    \/ Deconfigs \/ Exits \/ \E a \in Addresses : Binds(a)
    \/ GoroutineStep

Spec == Init /\ [][Next]_vars

(* Everything in the plugin is scheduled and the lease timeout fires in    *)
(* the end; nothing is assumed of udhcpc and the server.                   *)
Fairness ==
    /\ WF_vars(HandlerStep) /\ WF_vars(Timeout)
    /\ WF_vars(WaitReturns)
    /\ WF_vars(Scan) /\ WF_vars(ScanEnds)
    /\ WF_vars(Collect) /\ WF_vars(CollectEnds)

FairSpec == Spec /\ Fairness
-----------------------------------------------------------------------------
(* Every variable has a value of its kind; the last four labels are those  *)
(* of the Join that follows, in module JoinAnswer.                         *)
TypeOK ==
    /\ handler \in {"begin", "prepare", "acquire", "finish", "collect", "store",
                    "cleanup", "ok", "failed",
                    "routesV4", "routesV6", "joined", "refused"}
    /\ family \in Families
    /\ link \in BOOLEAN
    /\ joinHint \in Hints
    /\ answer \in [{"v4", "v6"} -> Addresses \cup {None}]
    /\ granted \in [{"v4", "v6"} -> Addresses \cup {None}]
    /\ process \in {"none", "discovering", "leased", "succeeded", "crashed", "killed",
                    "reaped"}
    /\ pipe \in Seq(Lines) /\ Len(pipe) <= 2
    /\ pipeOpen \in BOOLEAN
    /\ scanner \in {"reading", "offering", "ended"}
    /\ offered \in Lines
    /\ collector \in {"select", "ended"}
    /\ info \in Addresses \cup {None}
    /\ done \in BOOLEAN
    /\ finish \in {"none", "waiting", "nil", "error"}

(* dockerd and the hint for Join get exactly the addresses that the server *)
(* granted to the udhcpc of each family, and macvlan endpoints their index *)
(* (network.go:263-297, 422-436, client.go:189-241).                       *)
AnswerIsLease ==
    handler = "ok" =>
      /\ \A f \in Families :
           /\ granted[f] # None
           /\ answer[f] = granted[f] /\ joinHint[f] = granted[f]
      /\ Macvlan => joinHint.index

(* CreateEndpoint is answered, lease or not (network.go:257-271).          *)
CreateReturns == <>(handler \in {"ok", "failed"})

(* No udhcpc is left behind, and no goroutine that reads its pipe, unless  *)
(* it holds an event that nobody will take: the channel has no room and    *)
(* the collector is gone (client.go:132-149, 164-187, 206-233).            *)
UdhcpcIsReaped ==
    <>[](/\ process \in {"none", "reaped"}
         /\ scanner = "ended" \/ (scanner = "offering" /\ collector = "ended"))

(* GetIP returns the address that udhcpc obtained (client.go:189) when     *)
(* udhcpc has succeeded in time.                                           *)
LeaseIsReturned ==
    [][handler = "collect" /\ handler' = "cleanup" /\ finish = "nil"
         => info # None]_vars
=============================================================================
