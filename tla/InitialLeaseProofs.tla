------------------------- MODULE InitialLeaseProofs -------------------------
(***************************************************************************)
(* Proofs about InitialLease, for any addresses, with and without IPv6 and *)
(* in every mode: what CreateEndpoint answers and what it hands to Join.  *)
(***************************************************************************)
EXTENDS InitialLease, TLAPS

USE InitialLeaseAssumption

(* What GetIP may meet of the family it works on: no lease, or the one     *)
(* that its own udhcpc was granted.                                        *)
Current == {None, granted[family]}

(* The lines on their way from udhcpc to the collector, while GetIP runs.  *)
LinesAreCurrent ==
    handler \in {"finish", "collect"} =>
      /\ \A i \in 1 .. Len(pipe) : pipe[i] \in Current
      /\ scanner = "offering" => offered \in Current
      /\ info \in Current

(* udhcpc runs only as long as Finish waits for it, and no lease is        *)
(* granted before it runs.                                                 *)
ProcessOK ==
    /\ process \in {"discovering", "leased"}
         => handler = "finish" /\ finish = "waiting"
    /\ process = "discovering" => granted[family] = None /\ Len(pipe) <= 1
    /\ handler \in {"begin", "prepare", "acquire"} => granted[family] = None
    /\ family = "v4" => granted["v6"] = None

(* What is stored is the lease, of this family and of the one before.      *)
Acquired(f) ==
    granted[f] # None /\ answer[f] = granted[f] /\ joinHint[f] = granted[f]

StoredOK ==
    /\ handler = "store" => /\ info # None /\ info = granted[family]
                            /\ collector = "ended"
    /\ family = "v6" /\ handler \in {"acquire", "finish", "collect", "store"}
         => Acquired("v4")
    /\ handler = "ok" => \A f \in Families : Acquired(f)

(* The hint is made for Join, step by step.                                *)
HintOK ==
    /\ handler = "begin" => joinHint = NoHint /\ family = "v4"
    /\ handler = "prepare" => family = "v4"
    /\ handler \in {"acquire", "finish", "collect", "store", "ok"}
         => joinHint.index = Macvlan

Inv == TypeOK /\ LinesAreCurrent /\ ProcessOK /\ StoredOK /\ HintOK
-----------------------------------------------------------------------------
(* No request has arrived yet.                                             *)
LEMMA InitInv == Init => Inv
<1> SUFFICES ASSUME Init
             PROVE  Inv
  OBVIOUS
<1>1. TypeOK
  <2>1. family \in Families /\ joinHint \in Hints
    BY DEF Init, Families, NoHint, Hints
  <2>2. /\ answer \in [{"v4", "v6"} -> Addresses \cup {None}]
        /\ granted \in [{"v4", "v6"} -> Addresses \cup {None}]
    BY DEF Init
  <2>3. pipe \in Seq(Lines) /\ Len(pipe) <= 2
    BY DEF Init, Idle
  <2> QED
    BY <2>1, <2>2, <2>3 DEF Init, Idle, TypeOK, Lines
<1> QED
  BY <1>1 DEF Init, Idle, Inv, LinesAreCurrent, ProcessOK, StoredOK, HintOK

(* The steps of CreateEndpoint and of GetIP.                               *)
LEMMA HandlerStepInv ==
    ASSUME Inv, HandlerStep
    PROVE  Inv'
<1> USE DEF Inv, TypeOK, LinesAreCurrent, Current, ProcessOK, StoredOK, Acquired,
        HintOK, At, endpointVars, serverVars, pipeVars, scanVars, collectVars,
        getIPVars, Families
<1>1. CASE Refused
  BY <1>1 DEF Refused
<1>2. CASE LinkAdded
  BY <1>2 DEF LinkAdded
<1>3. CASE Prepared
  BY <1>3 DEF Prepared, Hints, NoHint
<1>4. CASE Fails
  BY <1>4 DEF Fails
<1>5. CASE Store
  BY <1>5 DEF Store, Hints
<1>6. CASE Cleanup
  <2>1. /\ handler = "cleanup" /\ handler' = "failed" /\ link' \in BOOLEAN
        /\ joinHint' = NoHint /\ UNCHANGED <<family, answer, granted, getIPVars>>
    BY <1>6 DEF Cleanup
  <2>2. NoHint \in Hints
    BY DEF NoHint, Hints
  <2>3. TypeOK'
    BY <2>1, <2>2
  <2>4. LinesAreCurrent' /\ ProcessOK' /\ StoredOK' /\ HintOK'
    BY <2>1
  <2> QED
    BY <2>3, <2>4
<1>7. CASE StartUdhcpc
  <2>1. /\ pipe' \in Seq(Lines) /\ Len(pipe') = 0
        /\ \A i \in 1 .. Len(pipe') : pipe'[i] \in Current
    BY <1>7 DEF StartUdhcpc
  <2>2. /\ handler = "acquire" /\ handler' = "finish" /\ process' = "discovering"
        /\ scanner' = "reading" /\ info' = None /\ finish' = "waiting"
        /\ UNCHANGED <<family, link, joinHint, answer, granted, offered>>
    BY <1>7 DEF StartUdhcpc
  <2>3. pipeOpen' \in BOOLEAN /\ collector' = "select" /\ done' \in BOOLEAN
    BY <1>7 DEF StartUdhcpc
  <2>4. TypeOK'
    BY <2>1, <2>2, <2>3
  <2>5. LinesAreCurrent'
    BY <2>1, <2>2
  <2>6. ProcessOK'
    BY <2>1, <2>2
  <2>7. StoredOK' /\ HintOK'
    BY <2>2
  <2> QED
    BY <2>4, <2>5, <2>6, <2>7
<1>8. CASE CloseDone
  BY <1>8 DEF CloseDone
<1>9. CASE GetIPReturns
  BY <1>9 DEF GetIPReturns
<1> HIDE DEF Inv
<1> QED
  BY <1>1, <1>2, <1>3, <1>4, <1>5, <1>6, <1>7, <1>8, <1>9 DEF HandlerStep

(* The steps of udhcpc, the timeout and the goroutines of GetIP.           *)
LEMMA OtherStepInv ==
    ASSUME Inv, \/ Timeout \/ Deconfigs \/ Exits
                \/ \E a \in Addresses : Binds(a)
                \/ GoroutineStep
    PROVE  Inv'
<1> USE DEF Inv, TypeOK, LinesAreCurrent, Current, ProcessOK, StoredOK, Acquired,
        HintOK, endpointVars, serverVars, pipeVars, scanVars, collectVars, Families
<1>1. CASE Timeout
  BY <1>1 DEF Timeout
<1>2. CASE Deconfigs
  BY <1>2 DEF Deconfigs, Lines
<1>3. CASE Exits
  BY <1>3 DEF Exits
<1>4. ASSUME NEW a \in Addresses, Binds(a)
      PROVE  Inv'
  BY <1>4 DEF Binds, Lines
<1>5. CASE WaitReturns
  <2>1. /\ finish' \in {"nil", "error", finish}
        /\ process' = "reaped" /\ pipeOpen' = FALSE
    BY <1>5 DEF WaitReturns
  <2>2. UNCHANGED <<handler, family, link, joinHint, answer, granted, pipe, scanner,
                    offered, collector, info, done>>
    BY <1>5 DEF WaitReturns
  <2>3. TypeOK'
    <3>1. /\ finish \in {"none", "waiting", "nil", "error"}
          /\ pipe \in Seq(Lines) /\ Len(pipe) <= 2
      OBVIOUS
    <3>2. finish' \in {"none", "waiting", "nil", "error"}
      BY <2>1, <3>1
    <3>3. pipe' \in Seq(Lines) /\ Len(pipe') <= 2
      BY <2>2, <3>1
    <3> QED
      BY <2>1, <2>2, <3>2, <3>3
  <2>4. LinesAreCurrent'
    BY <2>2
  <2>5. ProcessOK' /\ StoredOK' /\ HintOK'
    BY <2>1, <2>2
  <2> QED
    BY <2>3, <2>4, <2>5
<1>6. CASE Scan
  BY <1>6 DEF Scan, Lines
<1>7. CASE ScanEnds
  BY <1>7 DEF ScanEnds
<1>8. CASE Collect
  <2>1. info' \in {info, offered} /\ scanner = "offering" /\ scanner' = "reading"
    BY <1>8 DEF Collect
  <2>2. UNCHANGED <<handler, family, link, joinHint, answer, granted, process, pipe,
                    pipeOpen, offered, collector, done, finish>>
    BY <1>8 DEF Collect
  <2>3. handler # "store"
    BY <1>8 DEF Collect
  <2> QED
    BY <2>1, <2>2, <2>3 DEF Lines
<1>9. CASE CollectEnds
  BY <1>9 DEF CollectEnds
<1> HIDE DEF Inv
<1> QED
  BY <1>1, <1>2, <1>3, <1>4, <1>5, <1>6, <1>7, <1>8, <1>9 DEF GoroutineStep

(* Every step keeps the invariant.                                         *)
LEMMA NextInv ==
    ASSUME Inv, [Next]_vars
    PROVE  Inv'
<1>1. CASE UNCHANGED vars
  BY <1>1 DEF vars, Inv, TypeOK, LinesAreCurrent, Current, ProcessOK, StoredOK,
     Acquired, HintOK, endpointVars, pipeVars, scanVars, collectVars, getIPVars,
     Families
<1> QED
  BY <1>1, HandlerStepInv, OtherStepInv DEF Next
-----------------------------------------------------------------------------
(* Every variable keeps its type; in particular at most two lines wait in  *)
(* the pipe.                                                               *)
THEOREM TypeCorrect == Spec => []TypeOK
<1>1. Inv => TypeOK
  BY DEF Inv
<1> QED
  BY <1>1, InitInv, NextInv, PTL DEF Spec

(* However the goroutines of GetIP, udhcpc and the timeout interleave, a   *)
(* successful CreateEndpoint answers, and hands to Join, exactly the       *)
(* addresses that were granted (network.go:263-297, client.go:189-241).    *)
THEOREM AnswersAreLeases == Spec => []AnswerIsLease
<1>1. Inv => AnswerIsLease
  BY DEF Inv, StoredOK, Acquired, HintOK, AnswerIsLease
<1> QED
  BY <1>1, InitInv, NextInv, PTL DEF Spec
=============================================================================
