------------------------------ MODULE Networks ------------------------------
(***************************************************************************)
(* The options of networks: CreateNetwork with its conflict check,         *)
(* DeleteNetwork, the network cache (Plugin.networks) and its copy on disk *)
(* (networks.json), and netOptions, which CreateEndpoint and Join call.    *)
(*                                                                         *)
(* Each request of dockerd is served by a goroutine of its own.  dockerd   *)
(* creates and deletes a network only while no other request for it runs,  *)
(* but Joins of several containers, and requests for different networks,   *)
(* run side by side.  A handler that changes the cache copies it under     *)
(* p.mu and writes its copy in a later step.  While dockerd boots, its API *)
(* does not answer, and calls of it only end by their timeouts.            *)
(*                                                                         *)
(* Of the options, `bridge` and `mode` stand for Bridge, Mode and IPv6,    *)
(* which networkState keeps, and `custom` tells whether LeaseTimeout or    *)
(* SkipRoutes were given.                                                  *)
(***************************************************************************)
EXTENDS Integers

CONSTANTS
    Networks,     \* the network IDs
    Handlers,     \* the goroutines: bounds the requests that run side by side
    Bridges,      \* the interfaces of the host
    None,         \* no record, no snapshot, no answer, no network
    Choices,      \* the options that networks are created with
    MaxRestarts   \* bound on the restarts of the plugin or the host

Basics == [bridge : Bridges, mode : {"bridge", "macvlan"}]
Options == [bridge : Bridges, mode : {"bridge", "macvlan"},
            ignoreConflicts : BOOLEAN, custom : BOOLEAN]
Cache == [Networks -> Basics \cup {None}]

ASSUME NetworksAssumption ==
    /\ Choices \subseteq Options
    /\ MaxRestarts \in Nat

ASSUME NoneAssumption == None \notin Basics \cup Options \cup Cache \cup Networks

(* What networkState and endpointState keep, and what netOptions makes of  *)
(* it: the other options have their defaults.                              *)
Basic(o) == [bridge |-> o.bridge, mode |-> o.mode]
Complete(b) == [bridge |-> b.bridge, mode |-> b.mode,
                ignoreConflicts |-> FALSE, custom |-> FALSE]

VARIABLES
    options,   \* per network: what it was created with
    networks,  \* Plugin.networks
    file,      \* networks.json
    endpoint,  \* per network: the record of one of its endpoints in state
    handler,   \* per goroutine: where it is
    target,    \* per goroutine: the network that its request is about
    snapshot,  \* per goroutine: the copy that it has yet to write
    served,    \* per goroutine: what netOptions has returned to it
    net,       \* per network: what dockerd does with it
    dockerd,   \* "up" or "booting"
    legacy,    \* networks created before the cache was introduced
    garbled,   \* those of them whose options do not decode
    smooth,    \* no save failed or overlapped, no request was cut off
    restarts

diskVars == <<snapshot, file>>
requestVars == <<target, served>>
dockerVars == <<options, net, dockerd, legacy, garbled>>
vars == <<networks, diskVars, endpoint, handler, requestVars, dockerVars, smooth,
          restarts>>

Init ==
    /\ legacy \in SUBSET Networks
    /\ garbled \in SUBSET legacy
    /\ options \in [Networks -> Choices]
    /\ net = [n \in Networks |-> IF n \in legacy THEN "exists" ELSE "new"]
    /\ dockerd = "up"
    /\ networks = [n \in Networks |-> None]
    /\ file = [n \in Networks |-> None]
    /\ endpoint = [n \in Networks |-> None]
    /\ handler = [h \in Handlers |-> "idle"]
    /\ target = [h \in Handlers |-> None]
    /\ snapshot = [h \in Handlers |-> None]
    /\ served = [h \in Handlers |-> None]
    /\ smooth = TRUE
    /\ restarts = 0
-----------------------------------------------------------------------------
(* dockerd                                                                 *)

Quiet(n) == \A h \in Handlers : target[h] # n

Send(h, n, doing, entry) ==
    /\ handler[h] = "idle"
    /\ handler' = [handler EXCEPT ![h] = entry]
    /\ target' = [target EXCEPT ![h] = n]
    /\ net' = [net EXCEPT ![n] = doing]
    /\ UNCHANGED <<networks, diskVars, endpoint, served, options, dockerd, legacy,
                   garbled, smooth, restarts>>

SendCreate(h, n) ==
    net[n] = "new" /\ dockerd = "up" /\ Send(h, n, "creating", "validate")

(* CreateEndpoint or Join asks for the options of the network.             *)
SendUse(h, n) == net[n] = "exists" /\ Send(h, n, "exists", "lookup")

(* A network with endpoints is not deleted.                                *)
SendDelete(h, n) ==
    /\ net[n] = "exists" /\ dockerd = "up" /\ endpoint[n] = None /\ Quiet(n)
    /\ Send(h, n, "deleting", "remove")

(* The endpoint leaves.                                                    *)
EndpointGone(n) ==
    /\ endpoint[n] # None
    /\ endpoint' = [endpoint EXCEPT ![n] = None]
    /\ UNCHANGED <<networks, diskVars, handler, requestVars, dockerVars, smooth,
                   restarts>>

Booted ==
    /\ dockerd = "booting"
    /\ \A h \in Handlers : handler[h] = "idle"
    /\ dockerd' = "up"
    /\ UNCHANGED <<networks, diskVars, endpoint, handler, requestVars, options, net,
                   legacy, garbled, smooth, restarts>>
-----------------------------------------------------------------------------
(* The cache and its file                                                  *)

At(h, here, there) ==
    handler[h] = here /\ handler' = [handler EXCEPT ![h] = there]

ChangeAndCopy(h, new) ==
    /\ networks' = new
    /\ snapshot' = [snapshot EXCEPT ![h] = new]
    /\ smooth' = (smooth /\ \A g \in Handlers : snapshot[g] = None)
    /\ UNCHANGED file

With(n, record) == [networks EXCEPT ![n] = record]

(* What if the copy was taken before the change?                           *)
AddCopiesFirst(h) ==
    /\ networks' = With(target[h], Basic(options[target[h]]))
    /\ snapshot' = [snapshot EXCEPT ![h] = networks]
    /\ smooth' = (smooth /\ \A g \in Handlers : snapshot[g] = None)
    /\ UNCHANGED file

(* What if all options were kept as they are?                              *)
AddAllOptions(h) == ChangeAndCopy(h, With(target[h], options[target[h]]))

AddNetwork(h) == ChangeAndCopy(h, With(target[h], Basic(options[target[h]])))

RemoveNetwork(h) ==
    IF networks[target[h]] # None
    THEN ChangeAndCopy(h, With(target[h], None))
    ELSE UNCHANGED <<networks, diskVars, smooth>>

(* Under saveMu; a failure is logged.                                      *)
SaveNetworks(h) ==
    /\ \/ file' = snapshot[h] /\ UNCHANGED smooth
       \/ smooth' = FALSE /\ UNCHANGED file
    /\ snapshot' = [snapshot EXCEPT ![h] = None]
    /\ UNCHANGED networks
-----------------------------------------------------------------------------
(* CreateNetwork and DeleteNetwork                                         *)

HandlerFrame == UNCHANGED <<endpoint, requestVars, dockerVars, restarts>>
Quietly == UNCHANGED <<networks, diskVars, smooth>>

(* The options do not decode, or the mode, the IPAM driver or the          *)
(* interface is not as it must be.                                         *)
CreateRefused(h) == At(h, "validate", "replyError") /\ Quietly /\ HandlerFrame

Checks(o) == o.mode = "bridge" /\ ~o.ignoreConflicts

CreateValidated(h) ==
    /\ At(h, "validate", IF Checks(options[target[h]]) THEN "list" ELSE "add")
    /\ Quietly /\ HandlerFrame

(* The networks that NetworkList returns: those that dockerd has stored.   *)
(* One whose options do not decode is passed over.                         *)
Listed == {n \in Networks : net[n] \in {"exists", "deleting"}}
Conflicts(n) == \E m \in Listed \ garbled : options[m].bridge = options[n].bridge

CreateListed(h) ==
    /\ At(h, "list", "add")
    /\ dockerd = "up" /\ ~Conflicts(target[h])
    /\ Quietly /\ HandlerFrame

(* The API fails, or the bridge is used by another network.                *)
CreateConflicts(h) ==
    At(h, "list", "replyError") /\ Quietly /\ HandlerFrame

CreateAdds(h) == At(h, "add", "save") /\ AddNetwork(h) /\ HandlerFrame

Saved(h) == At(h, "save", "replyOK") /\ SaveNetworks(h) /\ HandlerFrame

DeleteRemoves(h) ==
    /\ At(h, "remove", IF networks[target[h]] = None THEN "replyOK" ELSE "save")
    /\ RemoveNetwork(h)
    /\ HandlerFrame
-----------------------------------------------------------------------------
(* netOptions                                                              *)

Serve(h, o) ==
    /\ served' = [served EXCEPT ![h] = o]
    /\ UNCHANGED <<endpoint, target, dockerVars, restarts>>

(* 1: the cache.                                                           *)
LookupHits(h) ==
    /\ At(h, "lookup", "replyOK")
    /\ networks[target[h]] # None
    /\ Serve(h, Complete(networks[target[h]]))
    /\ Quietly

LookupMisses(h) ==
    /\ At(h, "lookup", "inspect")
    /\ networks[target[h]] = None
    /\ Quietly /\ HandlerFrame

(* 2: the API, which also fills the cache,                                 *)
InspectAnswers(h) ==
    /\ At(h, "inspect", "save")
    /\ dockerd = "up" /\ target[h] \notin garbled
    /\ AddNetwork(h)
    /\ Serve(h, options[target[h]])

(* unless the options do not decode: then the records are not tried.       *)
InspectUndecodable(h) ==
    /\ At(h, "inspect", "replyError")
    /\ dockerd = "up" /\ target[h] \in garbled
    /\ Quietly /\ HandlerFrame

(* What if the client of the API had no timeout?                           *)
InspectWaits(h) ==
    dockerd = "up" /\ At(h, "inspect", "endpoints") /\ Quietly /\ HandlerFrame

InspectFails(h) == At(h, "inspect", "endpoints") /\ Quietly /\ HandlerFrame

(* What if the record of an endpoint of any network would do?              *)
EndpointServesAny(h) ==
    /\ At(h, "endpoints", "replyOK")
    /\ \E n \in Networks :
         endpoint[n] # None /\ Serve(h, Complete(endpoint[n]))
    /\ Quietly

(* 3: a record of an endpoint of this network.                             *)
EndpointServes(h) ==
    /\ At(h, "endpoints", "replyOK")
    /\ endpoint[target[h]] # None
    /\ Serve(h, Complete(endpoint[target[h]]))
    /\ Quietly

NothingServes(h) ==
    /\ At(h, "endpoints", "replyError")
    /\ endpoint[target[h]] = None
    /\ Quietly /\ HandlerFrame

(* dockerd goes on with the answer; a Join also leaves a record.           *)
ReplyOK(h, n) ==
    /\ At(h, "replyOK", "idle")
    /\ net' = [net EXCEPT ![n] = IF @ = "deleting" THEN "gone" ELSE "exists"]
    /\ \/ served[h] # None /\ endpoint' = [endpoint EXCEPT ![n] = Basic(served[h])]
       \/ UNCHANGED endpoint

ReplyError(h, n) ==
    /\ At(h, "replyError", "idle")
    /\ net' = [net EXCEPT ![n] = IF @ = "creating" THEN "gone" ELSE "exists"]
    /\ UNCHANGED endpoint

Reply(h) ==
    /\ ReplyOK(h, target[h]) \/ ReplyError(h, target[h])
    /\ target' = [target EXCEPT ![h] = None]
    /\ served' = [served EXCEPT ![h] = None]
    /\ Quietly
    /\ UNCHANGED <<options, dockerd, legacy, garbled, restarts>>

HandlerStep(h) ==
    \/ CreateRefused(h) \/ CreateValidated(h) \/ CreateListed(h)
    \/ CreateConflicts(h) \/ CreateAdds(h) \/ Saved(h)
    \/ DeleteRemoves(h)
    \/ LookupHits(h) \/ LookupMisses(h) \/ InspectAnswers(h)
    \/ InspectUndecodable(h) \/ InspectFails(h)
    \/ EndpointServes(h) \/ NothingServes(h)
    \/ Reply(h)
-----------------------------------------------------------------------------
(* The plugin restarts, alone or because the host boots; loadNetworks may  *)
(* fail.  dockerd takes a request that was cut off for failed.             *)
Restart ==
    /\ restarts < MaxRestarts
    /\ restarts' = restarts + 1
    /\ dockerd' \in {dockerd, "booting"}
    /\ \/ networks' = file
          /\ smooth' = (smooth /\ \A n \in Networks : net[n] \notin {"creating", "deleting"})
       \/ networks' = [n \in Networks |-> None]
          /\ smooth' = FALSE
    /\ handler' = [h \in Handlers |-> "idle"]
    /\ target' = [h \in Handlers |-> None]
    /\ snapshot' = [h \in Handlers |-> None]
    /\ served' = [h \in Handlers |-> None]
    /\ net' = [n \in Networks |->
         IF net[n] = "creating" THEN "gone"
         ELSE IF net[n] = "deleting" THEN "exists" ELSE net[n]]
    /\ UNCHANGED <<file, endpoint, options, legacy, garbled>>

Next ==
    \/ \E h \in Handlers :
         \/ \E n \in Networks : SendCreate(h, n) \/ SendUse(h, n) \/ SendDelete(h, n)
         \/ HandlerStep(h)
    \/ \E n \in Networks : EndpointGone(n)
    \/ Booted
    \/ Restart

Spec == Init /\ [][Next]_vars

(* Handlers are scheduled, and API calls end, if only by the timeout of    *)
(* the client (60s).                                                       *)
FairSpec == Spec /\ \A h \in Handlers : WF_vars(HandlerStep(h))
-----------------------------------------------------------------------------
Labels ==
    {"idle", "validate", "list", "add", "save", "remove", "lookup", "inspect",
     "endpoints", "replyOK", "replyError"}

(* Every variable has a value of its kind.                                 *)
TypeOK ==
    /\ options \in [Networks -> Options]
    /\ networks \in Cache
    /\ file \in Cache
    /\ endpoint \in [Networks -> Basics \cup {None}]
    /\ handler \in [Handlers -> Labels]
    /\ target \in [Handlers -> Networks \cup {None}]
    /\ snapshot \in [Handlers -> Cache \cup {None}]
    /\ served \in [Handlers -> Options \cup {None}]
    /\ net \in [Networks -> {"new", "creating", "exists", "deleting", "gone"}]
    /\ dockerd \in {"up", "booting"}
    /\ legacy \in SUBSET Networks
    /\ garbled \in SUBSET legacy
    /\ smooth \in BOOLEAN
    /\ restarts \in 0 .. MaxRestarts

(* From whichever of its three sources, netOptions returns the bridge and  *)
(* the mode that the network of the request was created with               *)
(* (network.go:155-229).                                                   *)
ServedIsOurs ==
    \A h \in Handlers :
      served[h] # None => Basic(served[h]) = Basic(options[target[h]])

(* A network that was created through the plugin is served from the cache, *)
(* so that a Join during the boot of dockerd never waits for its API, and  *)
(* a deleted one is forgotten (network.go:125-149, plugin.go:117-120),     *)
(* whenever no request for it runs - unless saves failed or overlapped, or *)
(* a request was cut off.                                                  *)
CacheFollowsDocker ==
    smooth => \A n \in Networks :
      Quiet(n) =>
        /\ net[n] = "exists" /\ n \notin legacy => networks[n] # None
        /\ networks[n] # None => net[n] = "exists"

(* Every request is answered, or cut off by a restart, whatever the state  *)
(* of dockerd (network.go:155-167).                                        *)
RequestsAnswered ==
    \A h \in Handlers : handler[h] # "idle" ~> handler[h] = "idle"
=============================================================================
