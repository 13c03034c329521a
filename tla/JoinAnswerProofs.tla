-------------------------- MODULE JoinAnswerProofs --------------------------
(***************************************************************************)
(* Proofs about JoinAnswer, for any addresses and routers, any number of   *)
(* routes, with and without IPv6 and in every mode: what Join answers, and *)
(* that it leaves what is known of CreateEndpoint in force.                *)
(***************************************************************************)
EXTENDS JoinAnswer, InitialLeaseProofs

USE JoinAnswerAssumption

JoinLabels == {"routesV4", "routesV6", "joined", "refused"}

(* A Join begins with an empty answer and has no IPv6 routes before the    *)
(* pass over these; its types do not depend on where it is.                *)
BeginOK ==
    /\ handler \notin JoinLabels =>
         /\ \A f \in {"v4", "v6"} : hostRoutes[f] = <<>> /\ gateway[f] = Empty
         /\ staticRoutes = <<>>
    /\ handler = "routesV4" => hostRoutes["v6"] = <<>>
    /\ hostRoutes \in [{"v4", "v6"} -> Seq(Routes)]

(* The static routes follow the routes seen so far.                        *)
Wanted(all) == {p \in DOMAIN all : Copies(all[p])}

StaticOK == IsPart(staticRoutes, AllRoutes, Wanted(AllRoutes))

JoinInv == Inv /\ JoinTypeOK /\ BeginOK /\ StaticOK
-----------------------------------------------------------------------------
(* Lemmas about the operators                                              *)

(* An element that is appended to both sequences goes to the new position; *)
LEMMA PartGrows ==
    ASSUME NEW S, NEW s \in Seq(S), NEW all \in Seq(S), NEW x \in S,
           NEW positions \in SUBSET DOMAIN all, IsPart(s, all, positions)
    PROVE  IsPart(Append(s, x), Append(all, x), positions \cup {Len(all) + 1})
<1> DEFINE t == Append(s, x)
           more == Append(all, x)
           last == Len(all) + 1
<1>1. /\ DOMAIN s = 1 .. Len(s) /\ Len(s) \in Nat
      /\ DOMAIN t = 1 .. Len(s) + 1
      /\ \A i \in DOMAIN s : t[i] = s[i]
      /\ t[Len(s) + 1] = x
  OBVIOUS
<1>2. /\ DOMAIN all = 1 .. Len(all) /\ Len(all) \in Nat
      /\ \A i \in DOMAIN all : more[i] = all[i]
      /\ more[last] = x
  OBVIOUS
<1>3. PICK at \in [DOMAIN s -> positions] :
        /\ \A i, j \in DOMAIN s : i < j => at[i] < at[j]
        /\ \A p \in positions : \E i \in DOMAIN s : at[i] = p
        /\ \A i \in DOMAIN s : s[i] = all[at[i]]
  BY DEF IsPart
<1> HIDE DEF t, more
<1> DEFINE to == [i \in DOMAIN t |-> IF i \in DOMAIN s THEN at[i] ELSE last]
<1>4. \A i \in DOMAIN s : at[i] \in positions /\ at[i] \in 1 .. Len(all)
  BY <1>2, <1>3
<1>5. /\ \A i \in DOMAIN s : i \in DOMAIN t /\ to[i] = at[i]
      /\ Len(s) + 1 \in DOMAIN t /\ to[Len(s) + 1] = last
      /\ \A i \in DOMAIN t : i \in DOMAIN s \/ i = Len(s) + 1
  BY <1>1
<1>6. to \in [DOMAIN t -> positions \cup {last}]
  BY <1>4, <1>5
<1> HIDE DEF to
<1>7. ASSUME NEW i \in DOMAIN t, NEW j \in DOMAIN t, i < j
      PROVE  to[i] < to[j]
  <2>1. i \in DOMAIN s
    BY <1>1, <1>7
  <2>2. CASE j \in DOMAIN s
    BY <1>3, <1>5, <1>7, <2>1, <2>2
  <2>3. CASE j = Len(s) + 1
    BY <1>2, <1>4, <1>5, <2>1, <2>3
  <2> QED
    BY <1>5, <2>2, <2>3
<1>8. \A p \in positions \cup {last} : \E i \in DOMAIN t : to[i] = p
  BY <1>3, <1>5
<1>9. ASSUME NEW i \in DOMAIN t
      PROVE  t[i] = more[to[i]]
  BY <1>1, <1>2, <1>3, <1>4, <1>5
<1>10. IsPart(t, more, positions \cup {last})
  BY <1>6, <1>7, <1>8, <1>9 DEF IsPart
<1> QED
  BY <1>10 DEF t, more

(* one that is not copied changes nothing.                                 *)
LEMMA PartStays ==
    ASSUME NEW S, NEW s \in Seq(S), NEW all \in Seq(S), NEW x \in S,
           NEW positions \in SUBSET DOMAIN all, IsPart(s, all, positions)
    PROVE  IsPart(s, Append(all, x), positions)
<1>1. \A i \in DOMAIN all : Append(all, x)[i] = all[i]
  OBVIOUS
<1>2. PICK at \in [DOMAIN s -> positions] :
        /\ \A i, j \in DOMAIN s : i < j => at[i] < at[j]
        /\ \A p \in positions : \E i \in DOMAIN s : at[i] = p
        /\ \A i \in DOMAIN s : s[i] = all[at[i]]
  BY DEF IsPart
<1>3. \A i \in DOMAIN s : s[i] = Append(all, x)[at[i]]
  BY <1>1, <1>2
<1> QED
  BY <1>2, <1>3 DEF IsPart

(* The pass over the routes of a family appends to those of both.          *)
LEMMA AllGrows ==
    ASSUME NEW f \in {"v4", "v6"}, NEW r \in Routes,
           hostRoutes \in [{"v4", "v6"} -> Seq(Routes)],
           hostRoutes["v6"] = <<>> \/ f = "v6",
           hostRoutes' = [hostRoutes EXCEPT ![f] = Append(@, r)]
    PROVE  AllRoutes \in Seq(Routes) /\ AllRoutes' = Append(AllRoutes, r)
<1> DEFINE a == hostRoutes["v4"]
           b == hostRoutes["v6"]
<1>1. a \in Seq(Routes) /\ b \in Seq(Routes) /\ a \o b \in Seq(Routes)
  OBVIOUS
<1>2. CASE f = "v6"
  <2>1. AllRoutes' = a \o Append(b, r)
    BY <1>2 DEF AllRoutes
  <2> HIDE DEF a, b
  <2>2. a \o Append(b, r) = Append(a \o b, r)
    BY <1>1
  <2> QED
    BY <1>1, <2>1, <2>2 DEF AllRoutes, a, b
<1>3. CASE f = "v4" /\ b = <<>>
  <2>1. AllRoutes' = Append(a, r) \o b
    BY <1>3 DEF AllRoutes
  <2> HIDE DEF a, b
  <2>2. Append(a, r) \o b = Append(a \o b, r)
    BY <1>1, <1>3
  <2> QED
    BY <1>1, <2>1, <2>2 DEF AllRoutes, a, b
<1> QED
  BY <1>2, <1>3
-----------------------------------------------------------------------------
(* The steps                                                               *)

(* No Join has begun.                                                      *)
LEMMA JoinInitInv == JoinInit => JoinInv
<1> SUFFICES ASSUME JoinInit
             PROVE  JoinInv
  OBVIOUS
<1>1. Inv /\ TypeOK
  BY InitInv DEF JoinInit, Inv
<1>2. /\ hostRoutes \in [{"v4", "v6"} -> Seq(Routes)]
      /\ \A f \in {"v4", "v6"} : hostRoutes[f] = <<>> /\ Len(hostRoutes[f]) = 0
      /\ gateway = [f \in {"v4", "v6"} |-> Empty]
      /\ staticRoutes = <<>> /\ staticRoutes \in Seq(Routes)
      /\ handler = "begin"
  BY DEF JoinInit, Init
<1>3. JoinTypeOK
  BY <1>1, <1>2 DEF JoinInit, JoinTypeOK
<1>4. BeginOK
  BY <1>2 DEF BeginOK, JoinLabels
<1>5. StaticOK
  <2>1. AllRoutes = <<>>
    BY <1>2 DEF AllRoutes
  <2> QED
    BY <1>2, <2>1 DEF StaticOK, IsPart, Wanted
<1> QED
  BY <1>1, <1>3, <1>4, <1>5 DEF JoinInv

(* CreateEndpoint and what it has started know nothing of the Join.        *)
LEMMA NextJoinInv ==
    ASSUME JoinInv, Next, UNCHANGED <<skipRoutes, router, joinVars>>
    PROVE  JoinInv'
<1>1. Inv' /\ TypeOK'
  BY NextInv DEF JoinInv, Inv
<1>2. handler' = handler \/ handler' \notin JoinLabels
  <2>1. CASE HandlerStep
    BY <2>1 DEF HandlerStep, Refused, LinkAdded, Prepared, Fails, Store, Cleanup,
       StartUdhcpc, CloseDone, GetIPReturns, At, JoinLabels, Families
  <2>2. CASE Timeout \/ Deconfigs \/ Exits \/ (\E a \in Addresses : Binds(a))
    BY <2>2 DEF Timeout, Deconfigs, Exits, Binds
  <2>3. CASE GoroutineStep
    BY <2>3 DEF GoroutineStep, WaitReturns, Scan, ScanEnds, Collect, CollectEnds
  <2> QED
    BY <2>1, <2>2, <2>3 DEF Next
<1>3. handler' \notin JoinLabels => handler \notin JoinLabels
  <2>1. CASE HandlerStep
    BY <2>1 DEF HandlerStep, Refused, LinkAdded, Prepared, Fails, Store, Cleanup,
       StartUdhcpc, CloseDone, GetIPReturns, At, JoinLabels
  <2>2. CASE Timeout \/ Deconfigs \/ Exits \/ (\E a \in Addresses : Binds(a))
    BY <2>2 DEF Timeout, Deconfigs, Exits, Binds
  <2>3. CASE GoroutineStep
    BY <2>3 DEF GoroutineStep, WaitReturns, Scan, ScanEnds, Collect, CollectEnds
  <2> QED
    BY <2>1, <2>2, <2>3 DEF Next
<1>4. JoinTypeOK'
  BY <1>1 DEF JoinInv, JoinTypeOK, joinVars
<1>5. BeginOK'
  BY <1>2, <1>3 DEF JoinInv, BeginOK, JoinLabels, joinVars
<1>6. StaticOK'
  BY DEF JoinInv, StaticOK, AllRoutes, Wanted, Copies, joinVars
<1> QED
  BY <1>1, <1>4, <1>5, <1>6 DEF JoinInv

(* What is known of CreateEndpoint does not depend on where the Join is,   *)
(* nor on the hint once this has been taken.                               *)
LEMMA JoinKeepsInv ==
    ASSUME Inv, handler \in {"ok"} \cup JoinLabels, handler' \in JoinLabels,
           joinHint' \in {joinHint, NoHint}, JoinFrame
    PROVE  Inv'
<1>1. NoHint \in Hints
  BY DEF NoHint, Hints
<1>2. TypeOK'
  BY <1>1 DEF Inv, TypeOK, JoinFrame, getIPVars, pipeVars, scanVars, collectVars,
     JoinLabels
<1>3. LinesAreCurrent' /\ ProcessOK' /\ StoredOK' /\ HintOK'
  BY DEF Inv, LinesAreCurrent, Current, ProcessOK, StoredOK, HintOK, JoinFrame,
     getIPVars, pipeVars, scanVars, collectVars, JoinLabels
<1> QED
  BY <1>2, <1>3 DEF Inv

(* A route of the host is taken into the answer.                           *)
LEMMA AddRouteInv ==
    ASSUME JoinInv, NEW f \in {"v4", "v6"}, NEW here \in {"routesV4", "routesV6"},
           here = "routesV4" <=> f = "v4", AddRoute(f, here)
    PROVE  JoinInv'
<1>1. PICK r \in Routes :
        /\ hostRoutes' = [hostRoutes EXCEPT ![f] = Append(@, r)]
        /\ gateway' = [gateway EXCEPT ![f] = GatewayAfter(@, r)]
        /\ staticRoutes' = IF Copies(r) THEN Append(staticRoutes, r) ELSE staticRoutes
  BY DEF AddRoute
<1>2. /\ handler = here /\ handler' = here /\ UNCHANGED <<joinHint, skipRoutes, router>>
      /\ Len(hostRoutes[f]) < MaxRoutes
  BY DEF AddRoute, At, JoinFrame
<1>3. /\ hostRoutes \in [{"v4", "v6"} -> Seq(Routes)]
      /\ gateway \in [{"v4", "v6"} -> Gateways \cup {Empty, Nil}]
      /\ staticRoutes \in Seq(Routes)
      /\ hostRoutes["v6"] = <<>> \/ f = "v6"
  BY <1>2 DEF JoinInv, JoinTypeOK, BeginOK
<1>4. Inv'
  BY <1>2, JoinKeepsInv DEF JoinInv, JoinLabels, AddRoute
<1>5. JoinTypeOK' /\ BeginOK'
  <2>1. /\ hostRoutes' \in [{"v4", "v6"} -> Seq(Routes)]
        /\ \A g \in {"v4", "v6"} : Len(hostRoutes'[g]) <= MaxRoutes
    BY <1>1, <1>2, <1>3 DEF JoinInv, JoinTypeOK
  <2>2. gateway' \in [{"v4", "v6"} -> Gateways \cup {Empty, Nil}]
    BY <1>1, <1>3 DEF GatewayAfter, Routes
  <2>3. staticRoutes' \in Seq(Routes)
    BY <1>1, <1>3
  <2>4. hostRoutes'["v6"] = hostRoutes["v6"] \/ f = "v6"
    BY <1>1, <1>3
  <2> QED
    BY <1>2, <1>3, <1>4, <2>1, <2>2, <2>3, <2>4
       DEF JoinInv, JoinTypeOK, Inv, BeginOK, JoinLabels
<1>6. StaticOK'
  <2>1. AllRoutes \in Seq(Routes) /\ AllRoutes' = Append(AllRoutes, r)
    BY <1>1, <1>3, AllGrows
  <2> DEFINE all == AllRoutes
             more == AllRoutes'
  <2>2. /\ DOMAIN all = 1 .. Len(all) /\ Len(all) \in Nat
        /\ DOMAIN more = 1 .. Len(all) + 1
        /\ \A p \in DOMAIN all : more[p] = all[p]
        /\ more[Len(all) + 1] = r
    BY <2>1
  <2>3. Wanted(AllRoutes)' = Wanted(all) \cup (IF Copies(r) THEN {Len(all) + 1} ELSE {})
    BY <1>2, <2>2 DEF Wanted, Copies
  <2>4. Wanted(all) \in SUBSET DOMAIN all
    BY DEF Wanted
  <2>5. IsPart(staticRoutes, all, Wanted(all))
    BY DEF JoinInv, StaticOK
  <2>6. CASE Copies(r)
    BY <1>1, <1>3, <2>1, <2>3, <2>4, <2>5, <2>6, PartGrows DEF StaticOK
  <2>7. CASE ~Copies(r)
    BY <1>1, <1>3, <2>1, <2>3, <2>4, <2>5, <2>7, PartStays DEF StaticOK
  <2> QED
    BY <2>6, <2>7
<1> QED
  BY <1>4, <1>5, <1>6 DEF JoinInv

(* The other steps of Join leave the routes alone.                         *)
LEMMA JoinStepInv ==
    ASSUME JoinInv, JoinStep
    PROVE  JoinInv'
<1>1. ASSUME UNCHANGED <<hostRoutes, staticRoutes>>, JoinFrame
      PROVE  /\ StaticOK'
             /\ hostRoutes' \in [{"v4", "v6"} -> Seq(Routes)]
             /\ Inv' /\ gateway' \in [{"v4", "v6"} -> Gateways \cup {Empty, Nil}]
                  => JoinTypeOK'
  BY <1>1 DEF JoinInv, StaticOK, AllRoutes, Wanted, Copies, JoinFrame, JoinTypeOK, Inv,
     BeginOK
<1>2. CASE JoinTakesHint
  <2>1. /\ handler = "ok" /\ handler' = "routesV4" /\ JoinFrame
        /\ joinHint' = NoHint /\ UNCHANGED <<hostRoutes, staticRoutes>>
        /\ gateway' = [gateway EXCEPT !["v4"] = router]
    BY <1>2 DEF JoinTakesHint, At
  <2>2. Inv'
    BY <2>1, JoinKeepsInv DEF JoinInv, JoinLabels
  <2>3. /\ \A f \in {"v4", "v6"} : hostRoutes[f] = <<>> /\ gateway[f] = Empty
        /\ router \in Gateways \cup {Empty} /\ router' = router
        /\ gateway \in [{"v4", "v6"} -> Gateways \cup {Empty, Nil}]
    BY <2>1 DEF JoinInv, BeginOK, JoinTypeOK, JoinLabels, JoinFrame
  <2>4. gateway' \in [{"v4", "v6"} -> Gateways \cup {Empty, Nil}]
    BY <2>1, <2>3
  <2>5. BeginOK'
    BY <1>1, <2>1, <2>3 DEF BeginOK, JoinLabels
  <2> QED
    BY <1>1, <2>1, <2>2, <2>4, <2>5 DEF JoinInv
<1>3. CASE \/ JoinFails
           \/ RoutesAdded("routesV4", IF IPv6 THEN "routesV6" ELSE "joined")
           \/ RoutesAdded("routesV6", "joined")
  <2>1. /\ handler \in {"ok"} \cup JoinLabels /\ handler' \in JoinLabels \ {"routesV4"}
        /\ handler = "ok" => handler' = "refused"
        /\ handler = "refused" => handler' = "refused"
        /\ UNCHANGED <<joinHint, hostRoutes, gateway, staticRoutes>> /\ JoinFrame
    BY <1>3 DEF JoinFails, RoutesAdded, At, JoinLabels, joinVars
  <2>2. Inv'
    BY <2>1, JoinKeepsInv DEF JoinInv
  <2>3. BeginOK'
    BY <2>1 DEF JoinInv, BeginOK, JoinLabels
  <2> QED
    BY <1>1, <2>1, <2>2, <2>3 DEF JoinInv, JoinTypeOK
<1>4. CASE AddRoute("v4", "routesV4")
  BY <1>4, AddRouteInv
<1>5. CASE AddRoute("v6", "routesV6")
  BY <1>5, AddRouteInv
<1> QED
  BY <1>2, <1>3, <1>4, <1>5 DEF JoinStep

(* The invariant holds throughout.                                         *)
LEMMA JoinInvariance == JoinSpec => []JoinInv
<1>1. JoinInv /\ [JoinNext]_answerVars => JoinInv'
  <2> SUFFICES ASSUME JoinInv, [JoinNext]_answerVars
               PROVE  JoinInv'
    OBVIOUS
  <2>1. CASE UNCHANGED answerVars
    <3>1. Inv' /\ UNCHANGED <<handler, skipRoutes, router, joinVars>>
      BY <2>1, NextInv DEF answerVars, JoinInv, vars
    <3>2. JoinTypeOK'
      BY <3>1 DEF JoinInv, JoinTypeOK, Inv, joinVars
    <3>3. BeginOK'
      BY <3>1 DEF JoinInv, BeginOK, joinVars
    <3>4. StaticOK'
      BY <3>1 DEF JoinInv, StaticOK, AllRoutes, Wanted, Copies, joinVars
    <3> QED
      BY <3>1, <3>2, <3>3, <3>4 DEF JoinInv
  <2> QED
    BY <2>1, NextJoinInv, JoinStepInv DEF JoinNext
<1> QED
  BY <1>1, JoinInitInv, PTL DEF JoinSpec
-----------------------------------------------------------------------------
(* Every variable keeps its type, in CreateEndpoint and in Join.           *)
THEOREM JoinTypeCorrect == JoinSpec => []JoinTypeOK
<1>1. JoinInv => JoinTypeOK
  BY DEF JoinInv
<1> QED
  BY <1>1, JoinInvariance, PTL

(* The static routes are those of the host that are neither the kernel's   *)
(* nor around the container's own address, each once and in their order    *)
(* (network.go:628-658).                                                   *)
THEOREM RoutesAreRight == JoinSpec => []RoutesFollowHost
<1>1. JoinInv => RoutesFollowHost
  <2> SUFFICES ASSUME JoinInv PROVE RoutesFollowHost
    OBVIOUS
  <2>1. \A p \in DOMAIN AllRoutes : AllRoutes[p] \in Routes
    <3>1. hostRoutes["v4"] \in Seq(Routes) /\ hostRoutes["v6"] \in Seq(Routes)
      BY DEF JoinInv, BeginOK
    <3>2. AllRoutes \in Seq(Routes)
      BY <3>1 DEF AllRoutes
    <3> QED
      BY <3>2
  <2>2. Wanted(AllRoutes) = {p \in DOMAIN AllRoutes :
            ~skipRoutes /\ AllRoutes[p].to = "other" /\ ~AllRoutes[p].kernel}
    BY <2>1 DEF Wanted, Copies, NilDst, Covers, Routes
  <2> QED
    BY <2>2 DEF JoinInv, StaticOK, RoutesFollowHost
<1> QED
  BY <1>1, JoinInvariance, PTL

(* While a Join takes the hint and goes through the routes, what           *)
(* CreateEndpoint has answered stays the lease that was granted            *)
(* (network.go:263-297, 704-712).                                          *)
THEOREM CreateStaysRight == JoinSpec => []AnswerIsLease
<1>1. JoinInv => AnswerIsLease
  BY DEF JoinInv, Inv, StoredOK, Acquired, HintOK, AnswerIsLease
<1> QED
  BY <1>1, JoinInvariance, PTL
=============================================================================
