----------------------------- MODULE JoinAnswer -----------------------------
(***************************************************************************)
(* What Join (pkg/plugin/network.go) answers dockerd: after CreateEndpoint *)
(* it takes the hint that this has left, with the router of the lease, and *)
(* has addRoutes go through the routes of the host over the bridge, once   *)
(* per family, for a default gateway and for the routes that the container *)
(* gets too.                                                               *)
(***************************************************************************)
EXTENDS InitialLease

CONSTANTS
    Gateways,    \* the routers of DHCP leases and of host routes
    Empty,       \* the gateway of an answer in which it is not set
    Nil,         \* the text of a nil net.IP ("<nil>")
    MaxRoutes    \* bound on the routes of the host, per family

ASSUME JoinAnswerAssumption ==
    /\ Empty \notin Gateways /\ Nil \notin Gateways /\ Empty # Nil
    /\ MaxRoutes \in Nat

(* A route of the host: its destination covers everything (a default       *)
(* route), or the subnet of the leased address ("own"), or another one; it *)
(* goes through a router, or is on-link (Nil).  The kernel sets up on-link *)
(* routes for the addresses of the bridge.  The netlink library in use     *)
(* (v1.3.1) gives a default route the destination 0.0.0.0/0 or ::/0, and   *)
(* none of the routes that it lists has a nil destination.                 *)
Routes ==
    [to : {"all", "own", "other"}, gw : Gateways \cup {Nil}, kernel : {FALSE}]
    \cup [to : {"own", "other"}, gw : {Nil}, kernel : {TRUE}]

VARIABLES
    skipRoutes,  \* the option skip_routes of the network
    router,      \* hint.Gateway: the router in the IPv4 lease, or Empty
    hostRoutes,  \* per family: the routes of the host that addRoutes has gone through
    gateway,     \* per family: Gateway and GatewayIPv6 of the answer
    staticRoutes \* its StaticRoutes

joinVars == <<hostRoutes, gateway, staticRoutes>>
answerVars == <<vars, skipRoutes, router, joinVars>>

JoinInit ==
    /\ Init
    /\ skipRoutes \in BOOLEAN
    /\ router \in Gateways \cup {Empty}
    /\ hostRoutes = [f \in {"v4", "v6"} |-> <<>>]
    /\ gateway = [f \in {"v4", "v6"} |-> Empty]
    /\ staticRoutes = <<>>

JoinFrame == UNCHANGED <<family, link, answer, granted, getIPVars, skipRoutes, router>>

(* The hint is taken out, and its gateway preferred.                       *)
JoinTakesHint ==
    /\ At("ok", "routesV4")
    /\ joinHint' = NoHint
    /\ gateway' = [gateway EXCEPT !["v4"] = router]
    /\ UNCHANGED <<hostRoutes, staticRoutes>>
    /\ JoinFrame

(* The network is not known (the hint stays), the bridge is not found, or  *)
(* its routes cannot be listed (the hint is gone): the pass over the       *)
(* routes of a family does not fail once it has begun.                     *)
JoinFails ==
    /\ \/ At("ok", "refused")
       \/ At("routesV4", "refused") /\ hostRoutes["v4"] = <<>>
       \/ At("routesV6", "refused") /\ hostRoutes["v6"] = <<>>
    /\ UNCHANGED <<joinHint, joinVars>>
    /\ JoinFrame

(* Route.Dst is nil, which addRoutes takes for a default route, and        *)
(* whether the destination contains the leased address.                    *)
NilDst(r) == r.to = "nil"
Covers(r) == r.to \in {"all", "own"}

(* What if a route set up by the kernel were copied too?                   *)
CopiesKernelRoute(r) == ~NilDst(r) /\ ~skipRoutes /\ ~Covers(r)

Copies(r) == ~NilDst(r) /\ ~skipRoutes /\ ~r.kernel /\ ~Covers(r)

GatewayAfter(set, r) == IF NilDst(r) /\ set = Empty THEN r.gw ELSE set

(* addRoutes: the next route of the host,                                  *)
AddRoute(f, here) ==
    /\ At(here, here)
    /\ Len(hostRoutes[f]) < MaxRoutes
    /\ \E r \in Routes :
         /\ hostRoutes' = [hostRoutes EXCEPT ![f] = Append(@, r)]
         /\ gateway' = [gateway EXCEPT ![f] = GatewayAfter(@, r)]
         /\ staticRoutes' = IF Copies(r) THEN Append(staticRoutes, r) ELSE staticRoutes
    /\ UNCHANGED joinHint
    /\ JoinFrame

(* and the end of the pass.                                                *)
RoutesAdded(here, there) ==
    /\ At(here, there)
    /\ UNCHANGED <<joinHint, joinVars>>
    /\ JoinFrame

JoinStep ==
    \/ JoinTakesHint \/ JoinFails
    \/ AddRoute("v4", "routesV4")
    \/ RoutesAdded("routesV4", IF IPv6 THEN "routesV6" ELSE "joined")
    \/ AddRoute("v6", "routesV6")
    \/ RoutesAdded("routesV6", "joined")

JoinNext ==
    \/ Next /\ UNCHANGED <<skipRoutes, router, joinVars>>
    \/ JoinStep

JoinSpec == JoinInit /\ [][JoinNext]_answerVars /\ Fairness
-----------------------------------------------------------------------------
(* Every variable has a value of its kind.                                 *)
JoinTypeOK ==
    /\ TypeOK
    /\ skipRoutes \in BOOLEAN
    /\ router \in Gateways \cup {Empty}
    /\ \A f \in {"v4", "v6"} : hostRoutes[f] \in Seq(Routes) /\ Len(hostRoutes[f]) <= MaxRoutes
    /\ gateway \in [{"v4", "v6"} -> Gateways \cup {Empty, Nil}]
    /\ staticRoutes \in Seq(Routes)

(* Sequence s consists of the elements of all at the given positions, in   *)
(* their order.                                                            *)
IsPart(s, all, positions) ==
    \E at \in [DOMAIN s -> positions] :
        /\ \A i, j \in DOMAIN s : i < j => at[i] < at[j]
        /\ \A p \in positions : \E i \in DOMAIN s : at[i] = p
        /\ \A i \in DOMAIN s : s[i] = all[at[i]]

AllRoutes == hostRoutes["v4"] \o hostRoutes["v6"]

(* The container gets the routes of the host in both families and in their *)
(* order, but none of the kernel, none that covers the address of its own  *)
(* lease, so no default route either, and none with skip_routes            *)
(* (network.go:628-658).                                                   *)
RoutesFollowHost ==
    handler = "joined" =>
        IsPart(staticRoutes, AllRoutes,
               {p \in DOMAIN AllRoutes :
                  ~skipRoutes /\ AllRoutes[p].to = "other" /\ ~AllRoutes[p].kernel})
=============================================================================
