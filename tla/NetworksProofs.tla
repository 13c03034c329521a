--------------------------- MODULE NetworksProofs ---------------------------
(***************************************************************************)
(* Proofs about Networks, for any networks, bridges, options, number of    *)
(* requests that run side by side, and number of restarts: netOptions      *)
(* never mixes up the networks, and the cache and its file follow what     *)
(* dockerd creates and deletes.                                            *)
(***************************************************************************)
EXTENDS Networks, TLAPS

USE NetworksAssumption, NoneAssumption

(* Whatever a record of a network comes from, it has the bridge and mode   *)
(* that this network was created with.                                     *)
Fits(record, n) == record # None => record = Basic(options[n])
CacheFits(cache) == \A n \in Networks : Fits(cache[n], n)

RecordsFit ==
    /\ CacheFits(networks)
    /\ CacheFits(file)
    /\ \A h \in Handlers : snapshot[h] # None => CacheFits(snapshot[h])
    /\ CacheFits(endpoint)

(* A goroutine that serves a request serves it for a network, and has a    *)
(* copy to write when it comes to writing it.                              *)
HandlerOK(h) ==
    /\ handler[h] = "idle" <=> target[h] = None
    /\ served[h] # None => target[h] # None
    /\ handler[h] = "save" => snapshot[h] # None

HandlersOK == \A h \in Handlers : HandlerOK(h)

Inv == TypeOK /\ RecordsFit /\ ServedIsOurs /\ HandlersOK
-----------------------------------------------------------------------------
(* What is kept of the options of a network.                               *)
LEMMA BasicType ==
    ASSUME NEW o \in Options
    PROVE  Basic(o) \in Basics /\ Basic(o) # None
BY DEF Options, Basics, Basic

(* What netOptions makes of a kept record gives the same record again.     *)
LEMMA CompleteType ==
    ASSUME NEW b \in Basics
    PROVE  /\ Complete(b) \in Options /\ Complete(b) # None
           /\ Basic(Complete(b)) = b
<1>1. Complete(b) \in Options
  BY DEF Options, Basics, Complete
<1>2. Basic(Complete(b)) = b
  BY DEF Basics, Basic, Complete
<1> QED
  BY <1>1, <1>2

(* What a change of the cache by handler h leads to.                       *)
ChangeDone(h) ==
    /\ networks' \in Cache
    /\ snapshot' \in [Handlers -> Cache \cup {None}]
    /\ snapshot'[h] # None
    /\ \A g \in Handlers \ {h} : snapshot'[g] = snapshot[g]
    /\ file' \in Cache
    /\ smooth' \in BOOLEAN
    /\ CacheFits(networks)' /\ CacheFits(file)'
    /\ \A g \in Handlers : snapshot'[g] # None => CacheFits(snapshot[g])'

(* A handler changes the cache and copies it.                              *)
LEMMA ChangeInv ==
    ASSUME Inv, NEW h \in Handlers, NEW new \in Cache, CacheFits(new),
           ChangeAndCopy(h, new), UNCHANGED options
    PROVE  ChangeDone(h)
BY DEF Inv, TypeOK, RecordsFit, CacheFits, Fits, ChangeAndCopy, ChangeDone

(* What a network was created with makes a record.                         *)
LEMMA BasicOfOptions ==
    ASSUME Inv, NEW n \in Networks
    PROVE  Basic(options[n]) \in Basics /\ Basic(options[n]) # None
BY BasicType DEF Inv, TypeOK

(* What AddNetwork makes of the cache fits,                                *)
LEMMA AddFits ==
    ASSUME Inv, NEW n \in Networks
    PROVE  /\ With(n, Basic(options[n])) \in Cache
           /\ CacheFits(With(n, Basic(options[n])))
BY BasicOfOptions DEF Inv, TypeOK, RecordsFit, CacheFits, Fits, Cache, With

(* and so does what RemoveNetwork makes of it.                             *)
LEMMA RemoveFits ==
    ASSUME Inv, NEW n \in Networks
    PROVE  /\ With(n, None) \in Cache
           /\ CacheFits(With(n, None))
BY DEF Inv, TypeOK, RecordsFit, CacheFits, Fits, Cache, With
-----------------------------------------------------------------------------
(* The steps of a handler                                                  *)

(* A handler that serves a request knows the network.                      *)
LEMMA TargetKnown ==
    ASSUME Inv, NEW h \in Handlers, handler[h] # "idle"
    PROVE  target[h] \in Networks
BY DEF Inv, TypeOK, HandlersOK, HandlerOK

(* What an answer of netOptions to handler h leads to.                     *)
ServeDone(h) ==
    /\ served' \in [Handlers -> Options \cup {None}]
    /\ \A g \in Handlers \ {h} : served'[g] = served[g]
    /\ ServedIsOurs'

(* netOptions returns what fits.                                           *)
LEMMA ServeInv ==
    ASSUME Inv, NEW h \in Handlers, NEW o \in Options,
           Basic(o) = Basic(options[target[h]]), Serve(h, o)
    PROVE  ServeDone(h)
BY DEF Inv, TypeOK, Serve, ServedIsOurs, dockerVars, ServeDone

(* A step to another place of the same request, with nothing else changed. *)
LEMMA MoveInv ==
    ASSUME Inv, NEW h \in Handlers, NEW there \in Labels \ {"idle", "save"},
           handler[h] # "idle", handler' = [handler EXCEPT ![h] = there],
           Quietly, HandlerFrame
    PROVE  Inv'
BY DEF Inv, TypeOK, RecordsFit, CacheFits, Fits, HandlersOK, HandlerOK, ServedIsOurs,
       Quietly, HandlerFrame, diskVars, requestVars, dockerVars

(* A step that changes the cache, with or without an answer.               *)
LEMMA SaveInv ==
    ASSUME Inv, NEW h \in Handlers, handler[h] # "idle",
           handler' = [handler EXCEPT ![h] = "save"],
           ChangeDone(h), ServeDone(h), UNCHANGED <<endpoint, target, dockerVars, restarts>>
    PROVE  Inv'
BY DEF Inv, TypeOK, RecordsFit, CacheFits, Fits, HandlersOK, HandlerOK, Labels,
       ChangeDone, ServeDone, dockerVars

(* The steps of CreateNetwork and DeleteNetwork,                           *)
LEMMA NetworkStepInv ==
    ASSUME Inv, NEW h \in Handlers,
           \/ CreateRefused(h) \/ CreateValidated(h) \/ CreateListed(h)
           \/ CreateConflicts(h) \/ CreateAdds(h) \/ Saved(h) \/ DeleteRemoves(h)
    PROVE  Inv'
<1> DEFINE n == target[h]
<1>1. CASE CreateRefused(h) \/ CreateValidated(h) \/ CreateListed(h) \/ CreateConflicts(h)
  BY <1>1, MoveInv DEF CreateRefused, CreateValidated, CreateListed, CreateConflicts,
     At, Labels
<1>2. HandlerFrame => ServeDone(h) /\ UNCHANGED <<endpoint, target, options, dockerVars,
                                                  restarts>>
  BY DEF HandlerFrame, requestVars, dockerVars, ServeDone, Inv, TypeOK, ServedIsOurs
<1>3. CASE CreateAdds(h)
  <2>1. /\ ChangeAndCopy(h, With(n, Basic(options[n]))) /\ HandlerFrame
        /\ handler[h] = "add" /\ handler' = [handler EXCEPT ![h] = "save"]
    BY <1>3 DEF CreateAdds, AddNetwork, At
  <2>2. ChangeDone(h)
    BY <1>2, <2>1, TargetKnown, ChangeInv, AddFits
  <2> QED
    BY <1>2, <2>1, <2>2, SaveInv
<1>4. CASE DeleteRemoves(h)
  <2>1. CASE networks[n] = None
    BY <1>4, <2>1, MoveInv DEF DeleteRemoves, RemoveNetwork, At, Labels, Quietly
  <2>2. CASE networks[n] # None
    <3>1. /\ ChangeAndCopy(h, With(n, None)) /\ HandlerFrame
          /\ handler[h] = "remove" /\ handler' = [handler EXCEPT ![h] = "save"]
      BY <1>4, <2>2 DEF DeleteRemoves, RemoveNetwork, At
    <3>2. ChangeDone(h)
      BY <1>2, <3>1, TargetKnown, ChangeInv, RemoveFits
    <3> QED
      BY <1>2, <3>1, <3>2, SaveInv
  <2> QED
    BY <2>1, <2>2
<1>5. CASE Saved(h)
  <2>1. /\ handler[h] = "save" /\ handler' = [handler EXCEPT ![h] = "replyOK"]
        /\ file' \in {file, snapshot[h]} /\ smooth' \in BOOLEAN
        /\ snapshot' = [snapshot EXCEPT ![h] = None]
        /\ UNCHANGED <<networks, endpoint, target, served, options, net, dockerd, legacy,
                       garbled, restarts>>
    BY <1>5 DEF Saved, SaveNetworks, At, HandlerFrame, requestVars, dockerVars, Inv, TypeOK
  <2>2. snapshot[h] \in Cache /\ CacheFits(snapshot[h])
    BY <2>1 DEF Inv, TypeOK, RecordsFit, HandlersOK, HandlerOK
  <2>3. file' \in Cache /\ CacheFits(file)'
    BY <2>1, <2>2 DEF Inv, TypeOK, RecordsFit, CacheFits, Fits
  <2> QED
    BY <2>1, <2>3 DEF Inv, TypeOK, RecordsFit, CacheFits, Fits, HandlersOK, HandlerOK,
       ServedIsOurs, Labels
<1> QED
  BY <1>1, <1>3, <1>4, <1>5

(* and those of netOptions and of its answer.                              *)
LEMMA OptionsStepInv ==
    ASSUME Inv, NEW h \in Handlers,
           \/ LookupHits(h) \/ LookupMisses(h) \/ InspectAnswers(h)
           \/ InspectUndecodable(h) \/ InspectFails(h)
           \/ EndpointServes(h) \/ NothingServes(h)
    PROVE  Inv'
<1> DEFINE n == target[h]
<1>1. CASE \/ LookupMisses(h) \/ InspectUndecodable(h) \/ InspectFails(h)
           \/ NothingServes(h)
  BY <1>1, MoveInv DEF LookupMisses, InspectUndecodable, InspectFails, NothingServes,
     At, Labels
<1>2. CASE LookupHits(h) \/ EndpointServes(h)
  <2>1. PICK b \in Basics :
          b = Basic(options[n]) /\ Serve(h, Complete(b)) /\ Quietly
    BY <1>2, TargetKnown DEF LookupHits, EndpointServes, At, Inv, TypeOK, Cache,
       RecordsFit, CacheFits, Fits
  <2>2. ServeDone(h)
    BY <2>1, CompleteType, ServeInv
  <2>3. handler[h] # "idle" /\ handler' = [handler EXCEPT ![h] = "replyOK"]
    BY <1>2 DEF LookupHits, EndpointServes, At
  <2>4. UNCHANGED <<networks, snapshot, file, smooth, endpoint, target, options, net,
                    dockerd, legacy, garbled, restarts>>
    BY <2>1 DEF Serve, Quietly, diskVars, dockerVars
  <2> QED
    BY <2>2, <2>3, <2>4 DEF ServeDone, Inv, TypeOK, RecordsFit, CacheFits, Fits,
       HandlersOK, HandlerOK, Labels
<1>3. CASE InspectAnswers(h)
  <2>1. /\ ChangeAndCopy(h, With(n, Basic(options[n]))) /\ Serve(h, options[n])
        /\ handler[h] = "inspect" /\ handler' = [handler EXCEPT ![h] = "save"]
    BY <1>3 DEF InspectAnswers, AddNetwork, At
  <2>2. UNCHANGED <<endpoint, target, options, dockerVars, restarts>>
    BY <2>1 DEF Serve, dockerVars
  <2>3. n \in Networks /\ options[n] \in Options
    BY <2>1, TargetKnown DEF Inv, TypeOK
  <2>4. ChangeDone(h)
    BY <2>1, <2>2, <2>3, ChangeInv, AddFits
  <2>5. ServeDone(h)
    BY <2>1, <2>3, ServeInv
  <2> QED
    BY <2>1, <2>2, <2>4, <2>5, SaveInv
<1> QED
  BY <1>1, <1>2, <1>3

(* The answer leaves the goroutine idle, and perhaps a record.             *)
LEMMA ReplyInv ==
    ASSUME Inv, NEW h \in Handlers, Reply(h)
    PROVE  Inv'
<1> DEFINE n == target[h]
<1>1. /\ handler[h] # "idle" /\ handler' = [handler EXCEPT ![h] = "idle"]
      /\ target' = [target EXCEPT ![h] = None]
      /\ served' = [served EXCEPT ![h] = None]
      /\ UNCHANGED <<networks, snapshot, file, smooth, options, dockerd, legacy, garbled,
                     restarts>>
  BY DEF Reply, ReplyOK, ReplyError, At, Quietly, diskVars
<1>2. PICK next \in {"exists", "gone"} : net' = [net EXCEPT ![n] = next]
  BY DEF Reply, ReplyOK, ReplyError
<1>3. \/ UNCHANGED endpoint
      \/ /\ endpoint' = [endpoint EXCEPT ![n] = Basic(served[h])]
         /\ served[h] \in Options
  BY DEF Reply, ReplyOK, ReplyError, Inv, TypeOK
<1>4. /\ endpoint' \in [Networks -> Basics \cup {None}]
      /\ CacheFits(endpoint)'
  BY <1>1, <1>3, BasicType DEF Inv, TypeOK, RecordsFit, CacheFits, Fits, ServedIsOurs
<1>5. TypeOK'
  BY <1>1, <1>2, <1>4 DEF Inv, TypeOK, Labels
<1>6. RecordsFit'
  BY <1>1, <1>4 DEF Inv, RecordsFit, CacheFits, Fits
<1>7. HandlersOK' /\ ServedIsOurs'
  BY <1>1 DEF Inv, TypeOK, HandlersOK, HandlerOK, ServedIsOurs
<1> QED
  BY <1>5, <1>6, <1>7 DEF Inv

(* Every step of a handler keeps the records and the answers right.        *)
LEMMA HandlerStepInv ==
    ASSUME Inv, NEW h \in Handlers, HandlerStep(h)
    PROVE  Inv'
BY NetworkStepInv, OptionsStepInv, ReplyInv DEF HandlerStep
-----------------------------------------------------------------------------
(* dockerd and restarts                                                    *)

(* dockerd sends a request, which an idle goroutine serves.                *)
LEMMA SendInv ==
    ASSUME Inv, NEW h \in Handlers, NEW n \in Networks,
           SendCreate(h, n) \/ SendUse(h, n) \/ SendDelete(h, n)
    PROVE  Inv'
<1>1. PICK entry \in {"validate", "lookup", "remove"} :
        /\ handler[h] = "idle" /\ handler' = [handler EXCEPT ![h] = entry]
        /\ target' = [target EXCEPT ![h] = n]
  BY DEF SendCreate, SendUse, SendDelete, Send
<1>2. PICK doing \in {"creating", "exists", "deleting"} :
        net' = [net EXCEPT ![n] = doing]
  BY DEF SendCreate, SendUse, SendDelete, Send
<1>3. UNCHANGED <<networks, snapshot, file, endpoint, served, options, dockerd, legacy,
                  garbled, smooth, restarts>>
  BY DEF SendCreate, SendUse, SendDelete, Send, diskVars
<1>4. served[h] = None
  BY <1>1 DEF Inv, TypeOK, HandlersOK, HandlerOK
<1> QED
  BY <1>1, <1>2, <1>3, <1>4 DEF Inv, TypeOK, RecordsFit, CacheFits, Fits, HandlersOK,
     HandlerOK, ServedIsOurs, Labels

(* A restart reads the file, or starts without one.                        *)
LEMMA RestartInv ==
    ASSUME Inv, Restart
    PROVE  Inv'
<1> USE DEF Restart, Inv
<1>1. /\ networks' \in Cache /\ CacheFits(networks)'
  BY DEF TypeOK, RecordsFit, CacheFits, Fits, Cache
<1>2. /\ smooth' \in BOOLEAN /\ dockerd' \in {"up", "booting"}
      /\ restarts' \in 0 .. MaxRestarts
  <2>1. smooth' \in BOOLEAN
    OBVIOUS
  <2>2. dockerd' \in {"up", "booting"}
    BY DEF TypeOK
  <2>3. restarts' \in 0 .. MaxRestarts
    BY DEF TypeOK
  <2> QED
    BY <2>1, <2>2, <2>3
<1>3. net' \in [Networks -> {"new", "creating", "exists", "deleting", "gone"}]
  BY DEF TypeOK
<1>4. TypeOK'
  BY <1>1, <1>2, <1>3 DEF TypeOK, Labels
<1>5. RecordsFit' /\ ServedIsOurs'
  BY <1>1 DEF TypeOK, RecordsFit, CacheFits, Fits, ServedIsOurs
<1>6. HandlersOK'
  BY DEF HandlersOK, HandlerOK
<1> QED
  BY <1>4, <1>5, <1>6

(* Every step does.                                                        *)
LEMMA NextInv ==
    ASSUME Inv, [Next]_vars
    PROVE  Inv'
<1>1. ASSUME NEW n \in Networks, EndpointGone(n)
      PROVE  Inv'
  BY <1>1 DEF EndpointGone, Inv, TypeOK, RecordsFit, CacheFits, Fits, HandlersOK,
     HandlerOK, ServedIsOurs, diskVars, requestVars, dockerVars
<1>2. CASE Booted \/ UNCHANGED vars
  BY <1>2 DEF Booted, vars, Inv, TypeOK, RecordsFit, CacheFits, Fits, HandlersOK,
     HandlerOK, ServedIsOurs, diskVars, requestVars, dockerVars
<1> QED
  BY <1>1, <1>2, HandlerStepInv, SendInv, RestartInv DEF Next

(* Before the first request there is no record at all.                     *)
LEMMA InitInv == Init => Inv
<1> SUFFICES ASSUME Init
             PROVE  Inv
  OBVIOUS
<1>1. TypeOK
  BY DEF Init, TypeOK, Cache, Labels
<1> QED
  BY <1>1 DEF Init, Inv, RecordsFit, CacheFits, Fits, HandlersOK, HandlerOK,
     ServedIsOurs
-----------------------------------------------------------------------------
(* Every variable keeps its type.                                          *)
THEOREM TypeCorrect == Spec => []TypeOK
<1>1. Inv => TypeOK
  BY DEF Inv
<1> QED
  BY <1>1, InitInv, NextInv, PTL DEF Spec

(* Whichever of its three sources netOptions uses, and whatever requests,  *)
(* saves and restarts came before or run beside it, it returns the bridge  *)
(* and the mode that the network of the request was created with           *)
(* (network.go:155-229).                                                   *)
THEOREM OptionsAreOfTheNetwork == Spec => []ServedIsOurs
<1>1. Inv => ServedIsOurs
  BY DEF Inv
<1> QED
  BY <1>1, InitInv, NextInv, PTL DEF Spec
-----------------------------------------------------------------------------
(* The cache follows dockerd                                               *)

(* A goroutine does what dockerd asked for.                                *)
RequestOK(h) ==
    LET n == target[h] IN
      /\ snapshot[h] # None => handler[h] = "save"
      /\ handler[h] # "idle" =>
           /\ net[n] \in {"creating", "exists", "deleting"}
           /\ net[n] = "creating" =>
                handler[h] \in {"validate", "list", "add", "save", "replyOK", "replyError"}
           /\ net[n] = "deleting" => handler[h] \in {"remove", "save", "replyOK"}
           /\ net[n] = "exists" =>
                handler[h] \in {"lookup", "inspect", "endpoints", "save", "replyOK",
                                "replyError"}

(* dockerd creates or deletes a network in one request, and in no other.   *)
ChangeAlone ==
    \A n \in Networks : net[n] \in {"creating", "deleting"} =>
      \E h \in Handlers : target[h] = n /\ \A g \in Handlers \ {h} : target[g] # n

RequestsOK == (\A h \in Handlers : RequestOK(h)) /\ ChangeAlone

(* A handler changes the entry of its network in the one step that dockerd *)
(* waits for; netOptions asks the API only about a network from before.    *)
EntryOK(n) ==
    /\ net[n] \in {"new", "gone"} => networks[n] = None
    /\ net[n] = "exists" /\ n \notin legacy => networks[n] # None
    /\ \A h \in Handlers : target[h] = n =>
         /\ net[n] = "creating" =>
              (networks[n] # None <=> handler[h] \in {"save", "replyOK"})
         /\ net[n] = "deleting" =>
              IF handler[h] = "remove" THEN n \in legacy \/ networks[n] # None
                                       ELSE networks[n] = None
         /\ net[n] = "exists" /\ handler[h] \in {"inspect", "save"} => n \in legacy

EntriesOK == \A n \in Networks : EntryOK(n)

(* The file lags behind the cache by the entry of the one handler that has *)
(* yet to write its copy, if there is one.                                 *)
FileOK ==
    /\ (\A h \in Handlers : snapshot[h] = None) => file = networks
    /\ \A h \in Handlers : snapshot[h] # None =>
         /\ snapshot[h] = networks
         /\ \A g \in Handlers \ {h} : snapshot[g] = None
         /\ \A n \in Networks \ {target[h]} : file[n] = networks[n]

Kept == RequestsOK /\ (smooth => EntriesOK /\ FileOK)

(* A step to another place of the same request, after which the request    *)
(* has the entry that it should have.                                      *)
LEMMA MoveKept ==
    ASSUME Inv, Kept, NEW h \in Handlers, NEW there \in Labels \ {"idle", "save"},
           handler[h] \notin {"idle", "save"}, handler' = [handler EXCEPT ![h] = there],
           UNCHANGED <<networks, snapshot, file, smooth, target, net, legacy>>,
           RequestOK(h)', smooth => EntryOK(target[h])'
    PROVE  Kept'
<1>1. RequestsOK'
  BY DEF Inv, TypeOK, Kept, RequestsOK, RequestOK, ChangeAlone
<1>2. ASSUME smooth
      PROVE  EntriesOK' /\ FileOK'
  <2>1. FileOK'
    BY <1>2 DEF Kept, FileOK
  <2>2. ASSUME NEW n \in Networks
        PROVE  EntryOK(n)'
    <3>1. CASE n = target[h]
      BY <1>2, <3>1
    <3>2. CASE n # target[h]
      BY <1>2, <3>2 DEF Inv, TypeOK, Kept, EntriesOK, EntryOK
    <3> QED
      BY <3>1, <3>2
  <2> QED
    BY <2>1, <2>2 DEF EntriesOK
<1> QED
  BY <1>1, <1>2 DEF Kept

(* A change of the cache by h, while no other handler has a copy to write, *)
(* differs from the file in the entry of the network of h only.            *)
LEMMA ChangeKeepsFile ==
    ASSUME Inv, Kept, NEW h \in Handlers, NEW new \in Cache,
           \A m \in Networks \ {target[h]} : new[m] = networks[m],
           ChangeAndCopy(h, new), UNCHANGED target, smooth'
    PROVE  smooth /\ FileOK'
BY DEF Inv, TypeOK, Kept, FileOK, ChangeAndCopy, Cache

(* So a request that is due for the change keeps everything in line.       *)
LEMMA ChangeKept ==
    ASSUME Inv, Kept, NEW h \in Handlers, NEW n \in Networks, n = target[h],
           NEW r \in Basics \cup {None}, With(n, r) \in Cache,
           ChangeAndCopy(h, With(n, r)), UNCHANGED <<target, net, legacy>>,
           handler[h] # "idle", handler' = [handler EXCEPT ![h] = "save"],
           \/ net[n] = "creating" /\ r # None
           \/ net[n] = "exists" /\ r # None /\ (smooth => n \in legacy)
           \/ net[n] = "deleting" /\ r = None
    PROVE  Kept'
<1>1. /\ \A m \in Networks \ {n} : networks'[m] = networks[m]
      /\ \A g \in Handlers \ {h} : snapshot'[g] = snapshot[g] /\ handler'[g] = handler[g]
      /\ networks'[n] = r /\ handler'[h] = "save"
  BY DEF ChangeAndCopy, With, Inv, TypeOK, Cache
<1>2. RequestsOK'
  BY <1>1 DEF Kept, RequestsOK, RequestOK, ChangeAlone
<1>3. ASSUME smooth'
      PROVE  EntriesOK' /\ FileOK'
  <2>1. smooth /\ FileOK'
    BY <1>3, ChangeKeepsFile DEF Inv, TypeOK, Cache, With
  <2>2. ASSUME NEW m \in Networks
        PROVE  EntryOK(m)'
    <3>1. CASE m # n
      BY <1>1, <2>1, <3>1 DEF Kept, EntriesOK, EntryOK
    <3>2. CASE m = n /\ net[n] = "exists"
      BY <1>1, <2>1, <3>2 DEF EntryOK
    <3>3. CASE m = n /\ net[n] \in {"creating", "deleting"}
      <4>1. \A g \in Handlers : target[g] = n => g = h
        BY <3>3 DEF Kept, RequestsOK, ChangeAlone
      <4> QED
        BY <1>1, <3>3, <4>1 DEF EntryOK
    <3> QED
      BY <3>1, <3>2, <3>3
  <2> QED
    BY <2>1, <2>2 DEF EntriesOK
<1> QED
  BY <1>2, <1>3 DEF Kept

(* Every step of a handler keeps cache, file and dockerd in line.          *)
LEMMA HandlerStepKept ==
    ASSUME Inv, Kept, NEW h \in Handlers, HandlerStep(h)
    PROVE  Kept'
<1> DEFINE n == target[h]
<1> USE DEF At
<1>1. handler[h] # "idle" /\ n \in Networks
  <2>1. handler[h] # "idle"
    BY DEF HandlerStep, CreateRefused, CreateValidated, CreateListed, CreateConflicts,
       CreateAdds, Saved, DeleteRemoves, LookupHits, LookupMisses, InspectAnswers,
       InspectUndecodable, InspectFails, EndpointServes, NothingServes, Reply, ReplyOK,
       ReplyError
  <2> QED
    BY <2>1, TargetKnown
<1>2. /\ RequestOK(h) /\ (smooth => EntryOK(n))
      /\ handler \in [Handlers -> Labels]
  BY <1>1 DEF Kept, RequestsOK, EntriesOK, Inv, TypeOK
<1>3. /\ HandlerFrame => UNCHANGED <<target, net, legacy>>
      /\ Quietly => UNCHANGED <<networks, snapshot, file, smooth>>
      /\ \A o : Serve(h, o) => UNCHANGED <<target, net, legacy>>
  BY DEF HandlerFrame, requestVars, dockerVars, Quietly, diskVars, Serve
<1>4. ASSUME NEW there \in Labels \ {"idle", "save"},
             handler[h] # "save", handler' = [handler EXCEPT ![h] = there],
             UNCHANGED <<networks, snapshot, file, smooth, target, net, legacy>>,
             \/ net[n] = "creating" /\ there \in {"list", "add", "replyError"}
                  /\ handler[h] \in {"validate", "list"}
             \/ net[n] = "exists" /\ there \in {"endpoints", "replyOK", "replyError"}
             \/ net[n] = "exists" /\ there = "inspect" /\ networks[n] = None
             \/ net[n] = "deleting" /\ there = "replyOK" /\ networks[n] = None
      PROVE  Kept'
  <2>1. handler'[h] = there /\ \A g \in Handlers \ {h} : handler'[g] = handler[g]
    BY <1>2, <1>4
  <2>2. snapshot[h] = None
    BY <1>2, <1>4 DEF RequestOK
  <2>3. RequestOK(h)'
    BY <1>4, <2>1, <2>2 DEF RequestOK
  <2>4. ASSUME smooth
        PROVE  EntryOK(n)'
    BY <1>2, <1>4, <2>1, <2>4 DEF EntryOK
  <2> QED
    BY <1>1, <1>4, <2>3, <2>4, MoveKept
<1>5. CASE \/ CreateRefused(h) \/ CreateValidated(h) \/ CreateListed(h)
           \/ CreateConflicts(h)
  BY <1>2, <1>3, <1>4, <1>5 DEF CreateRefused, CreateValidated, CreateListed,
     CreateConflicts, RequestOK, Labels
<1>6. CASE \/ LookupHits(h) \/ LookupMisses(h) \/ InspectUndecodable(h)
           \/ InspectFails(h) \/ EndpointServes(h) \/ NothingServes(h)
  BY <1>2, <1>3, <1>4, <1>6 DEF LookupHits, LookupMisses, InspectUndecodable,
     InspectFails, EndpointServes, NothingServes, RequestOK, Labels
<1>7. CASE CreateAdds(h)
  <2>1. /\ ChangeAndCopy(h, With(n, Basic(options[n]))) /\ UNCHANGED <<target, net, legacy>>
        /\ handler[h] = "add" /\ handler' = [handler EXCEPT ![h] = "save"]
    BY <1>3, <1>7 DEF CreateAdds, AddNetwork
  <2>2. net[n] = "creating"
    BY <1>2, <2>1 DEF RequestOK
  <2> QED
    BY <1>1, <2>1, <2>2, BasicOfOptions, AddFits, ChangeKept
<1>8. CASE InspectAnswers(h)
  <2>1. /\ ChangeAndCopy(h, With(n, Basic(options[n]))) /\ UNCHANGED <<target, net, legacy>>
        /\ handler[h] = "inspect" /\ handler' = [handler EXCEPT ![h] = "save"]
    BY <1>3, <1>8 DEF InspectAnswers, AddNetwork
  <2>2. net[n] = "exists" /\ (smooth => n \in legacy)
    BY <1>2, <2>1 DEF RequestOK, EntryOK
  <2> QED
    BY <1>1, <2>1, <2>2, BasicOfOptions, AddFits, ChangeKept
<1>9. CASE DeleteRemoves(h)
  <2>1. net[n] = "deleting" /\ handler[h] = "remove"
    BY <1>2, <1>9 DEF DeleteRemoves, RequestOK
  <2>2. CASE networks[n] = None
    BY <1>3, <1>4, <1>9, <2>1, <2>2 DEF DeleteRemoves, RemoveNetwork, diskVars, Labels
  <2>3. CASE networks[n] # None
    <3>1. /\ ChangeAndCopy(h, With(n, None)) /\ UNCHANGED <<target, net, legacy>>
          /\ handler' = [handler EXCEPT ![h] = "save"]
      BY <1>3, <1>9, <2>3 DEF DeleteRemoves, RemoveNetwork
    <3> QED
      BY <1>1, <2>1, <3>1, RemoveFits, ChangeKept
  <2> QED
    BY <2>2, <2>3
<1>10. CASE Saved(h)
  <2>1. /\ handler[h] = "save" /\ handler' = [handler EXCEPT ![h] = "replyOK"]
        /\ snapshot' = [snapshot EXCEPT ![h] = None]
        /\ smooth' => smooth /\ file' = snapshot[h]
        /\ UNCHANGED <<networks, target, net, legacy>>
    BY <1>3, <1>10 DEF Saved, SaveNetworks
  <2>2. handler'[h] = "replyOK" /\ \A g \in Handlers \ {h} : handler'[g] = handler[g]
    BY <1>2, <2>1
  <2>3. snapshot'[h] = None /\ \A g \in Handlers \ {h} : snapshot'[g] = snapshot[g]
    BY <2>1 DEF Inv, TypeOK
  <2>4. RequestsOK'
    BY <2>1, <2>2, <2>3 DEF Kept, RequestsOK, RequestOK, ChangeAlone
  <2>5. ASSUME smooth'
        PROVE  EntriesOK' /\ FileOK'
    <3>1. EntriesOK'
      BY <2>1, <2>2, <2>5 DEF Kept, EntriesOK, EntryOK
    <3>2. snapshot[h] # None
      BY <2>1 DEF Inv, HandlersOK, HandlerOK
    <3>3. FileOK'
      BY <2>1, <2>3, <2>5, <3>2 DEF Kept, FileOK
    <3> QED
      BY <3>1, <3>3
  <2> QED
    BY <2>4, <2>5 DEF Kept
<1>11. CASE Reply(h)
  <2>1. /\ handler[h] \in {"replyOK", "replyError"}
        /\ handler' = [handler EXCEPT ![h] = "idle"]
        /\ target' = [target EXCEPT ![h] = None]
        /\ UNCHANGED <<networks, snapshot, file, smooth, legacy>>
    BY <1>3, <1>11 DEF Reply, ReplyOK, ReplyError
  <2>2. net' = [net EXCEPT ![n] =
                  IF net[n] = "exists" THEN "exists"
                  ELSE IF handler[h] = "replyOK" /\ net[n] = "creating" THEN "exists"
                  ELSE "gone"]
    BY <1>2, <1>11, <2>1 DEF Reply, ReplyOK, ReplyError, RequestOK
  <2>3. /\ handler'[h] = "idle" /\ target'[h] = None
        /\ \A g \in Handlers \ {h} : handler'[g] = handler[g] /\ target'[g] = target[g]
        /\ \A m \in Networks \ {n} : net'[m] = net[m]
        /\ n # None
    BY <1>1, <2>1, <2>2 DEF Inv, TypeOK
  <2>4. snapshot[h] = None
    BY <1>2, <2>1 DEF RequestOK
  <2>5. /\ net[n] \in {"creating", "deleting"} =>
             \A g \in Handlers \ {h} : target[g] # n
        /\ net[n] = "exists" => net' = net
        /\ net'[n] \in {"exists", "gone"}
    BY <1>1, <2>2 DEF Kept, RequestsOK, ChangeAlone, Inv, TypeOK
  <2>6. ASSUME NEW g \in Handlers
        PROVE  RequestOK(g)'
    <3>1. CASE g = h
      BY <2>1, <2>3, <2>4, <3>1 DEF RequestOK
    <3>2. CASE g # h /\ target[g] = n
      <4>1. net[n] = "exists"
        BY <1>2, <2>1, <2>5, <3>2 DEF RequestOK
      <4> QED
        BY <2>1, <2>3, <2>5, <3>2, <4>1 DEF Kept, RequestsOK, RequestOK
    <3>3. CASE g # h /\ target[g] # n
      <4>1. handler[g] # "idle" => target[g] \in Networks
        BY TargetKnown
      <4> QED
        BY <2>1, <2>3, <3>3, <4>1 DEF Kept, RequestsOK, RequestOK
    <3> QED
      BY <3>1, <3>2, <3>3
  <2>7. ChangeAlone'
    <3> SUFFICES ASSUME NEW m \in Networks, net'[m] \in {"creating", "deleting"}
                 PROVE  \E g \in Handlers : target'[g] = m
                          /\ \A k \in Handlers \ {g} : target'[k] # m
      BY DEF ChangeAlone
    <3>1. m # n /\ net[m] = net'[m]
      BY <2>3, <2>5
    <3>2. PICK g \in Handlers : target[g] = m /\ \A k \in Handlers \ {g} : target[k] # m
      BY <3>1 DEF Kept, RequestsOK, ChangeAlone
    <3>3. g # h
      BY <3>1, <3>2
    <3> QED
      BY <2>3, <3>2, <3>3
  <2>8. ASSUME smooth
        PROVE  EntriesOK' /\ FileOK'
    <3>1. ASSUME NEW m \in Networks
          PROVE  EntryOK(m)'
      <4>1. CASE m # n
        BY <2>1, <2>3, <2>8, <4>1 DEF Kept, EntriesOK, EntryOK
      <4>2. CASE m = n /\ net[n] = "exists"
        BY <1>2, <2>1, <2>3, <2>5, <2>8, <4>2 DEF EntryOK
      <4>3. CASE m = n /\ net[n] # "exists"
        <5>1. net[n] \in {"creating", "deleting"}
          BY <1>2, <2>1, <4>3 DEF RequestOK
        <5>2. net'[n] = IF handler[h] = "replyOK" /\ net[n] = "creating" THEN "exists"
                        ELSE "gone"
          BY <2>2, <4>3, <1>1 DEF Inv, TypeOK
        <5>3. \A g \in Handlers : target'[g] # n
          BY <2>3, <2>5, <5>1
        <5> QED
          BY <1>1, <1>2, <2>1, <2>8, <4>3, <5>1, <5>2, <5>3 DEF EntryOK, RequestOK
      <4> QED
        BY <4>1, <4>2, <4>3
    <3>2. FileOK'
      BY <2>1, <2>3, <2>4, <2>8 DEF Kept, FileOK
    <3> QED
      BY <3>1, <3>2 DEF EntriesOK
  <2> QED
    BY <2>1, <2>6, <2>7, <2>8 DEF Kept, RequestsOK
<1> QED
  BY <1>5, <1>6, <1>7, <1>8, <1>9, <1>10, <1>11 DEF HandlerStep

(* A request that dockerd sends finds the entry as it should be.           *)
LEMMA SendKept ==
    ASSUME Inv, Kept, NEW h \in Handlers, NEW n \in Networks,
           SendCreate(h, n) \/ SendUse(h, n) \/ SendDelete(h, n)
    PROVE  Kept'
<1>1. PICK entry \in {"validate", "lookup", "remove"}, doing \in {"creating", "exists", "deleting"} :
        /\ handler[h] = "idle" /\ handler' = [handler EXCEPT ![h] = entry]
        /\ target' = [target EXCEPT ![h] = n] /\ net' = [net EXCEPT ![n] = doing]
        /\ \/ net[n] = "new" /\ doing = "creating" /\ entry = "validate"
           \/ net[n] = "exists" /\ doing = "exists" /\ entry = "lookup"
           \/ net[n] = "exists" /\ doing = "deleting" /\ entry = "remove" /\ Quiet(n)
  BY DEF SendCreate, SendUse, SendDelete, Send
<1>2. UNCHANGED <<networks, snapshot, file, smooth, legacy>>
  BY DEF SendCreate, SendUse, SendDelete, Send, diskVars
<1>3. /\ handler'[h] = entry /\ target'[h] = n /\ net'[n] = doing
      /\ \A g \in Handlers \ {h} : handler'[g] = handler[g] /\ target'[g] = target[g]
      /\ \A m \in Networks \ {n} : net'[m] = net[m]
  BY <1>1 DEF Inv, TypeOK
<1>4. target[h] = None /\ snapshot[h] = None
  BY <1>1 DEF Inv, HandlersOK, HandlerOK, Kept, RequestsOK, RequestOK
<1>5. doing # "exists" => \A g \in Handlers : target[g] # n
  <2>1. CASE net[n] = "new"
    BY <2>1 DEF Inv, HandlersOK, HandlerOK, Kept, RequestsOK, RequestOK
  <2>2. CASE Quiet(n)
    BY <2>2 DEF Quiet
  <2> QED
    BY <1>1, <2>1, <2>2
<1>6. ASSUME NEW g \in Handlers
      PROVE  RequestOK(g)'
  <2>1. CASE g = h
    BY <1>1, <1>2, <1>3, <1>4, <2>1 DEF RequestOK
  <2>2. CASE g # h /\ target[g] = n
    BY <1>1, <1>2, <1>3, <1>5, <2>2 DEF Kept, RequestsOK, RequestOK
  <2>3. CASE g # h /\ target[g] # n
    <3>1. handler[g] # "idle" => target[g] \in Networks
      BY TargetKnown
    <3> QED
      BY <1>2, <1>3, <2>3, <3>1 DEF Kept, RequestsOK, RequestOK
  <2> QED
    BY <2>1, <2>2, <2>3
<1>7. ChangeAlone'
  <2> SUFFICES ASSUME NEW m \in Networks, net'[m] \in {"creating", "deleting"}
               PROVE  \E g \in Handlers : target'[g] = m
                        /\ \A k \in Handlers \ {g} : target'[k] # m
    BY DEF ChangeAlone
  <2>1. CASE m = n
    BY <1>3, <1>5, <2>1
  <2>2. CASE m # n
    <3>1. PICK g \in Handlers : target[g] = m /\ \A k \in Handlers \ {g} : target[k] # m
      BY <1>3, <2>2 DEF Kept, RequestsOK, ChangeAlone
    <3>2. g # h
      BY <1>4, <3>1, NoneAssumption
    <3> QED
      BY <1>3, <2>2, <3>1, <3>2
  <2> QED
    BY <2>1, <2>2
<1>8. ASSUME smooth
      PROVE  EntriesOK' /\ FileOK'
  <2>1. ASSUME NEW m \in Networks
        PROVE  EntryOK(m)'
    <3>1. CASE m # n
      BY <1>2, <1>3, <1>8, <3>1 DEF Kept, EntriesOK, EntryOK
    <3>2. CASE m = n
      <4>1. EntryOK(n)
        BY <1>8 DEF Kept, EntriesOK
      <4> QED
        BY <1>1, <1>2, <1>3, <1>5, <3>2, <4>1 DEF EntryOK
    <3> QED
      BY <3>1, <3>2
  <2>2. FileOK'
    BY <1>2, <1>3, <1>4, <1>8 DEF Kept, FileOK
  <2> QED
    BY <2>1, <2>2 DEF EntriesOK
<1> QED
  BY <1>2, <1>6, <1>7, <1>8 DEF Kept, RequestsOK

(* A restart reads the file; the entry that it may lack is of a network    *)
(* from before or of a request that is cut off.                            *)
LEMMA RestartKept ==
    ASSUME Inv, Kept, Restart
    PROVE  Kept'
<1>1. /\ \A h \in Handlers : handler'[h] = "idle" /\ target'[h] = None /\ snapshot'[h] = None
      /\ \A n \in Networks : net'[n] \notin {"creating", "deleting"}
  BY DEF Restart
<1>2. RequestsOK'
  BY <1>1 DEF RequestsOK, RequestOK, ChangeAlone
<1>3. ASSUME smooth'
      PROVE  EntriesOK' /\ FileOK'
  <2>1. /\ smooth /\ networks' = file /\ UNCHANGED <<file, legacy>>
        /\ \A n \in Networks : net[n] \notin {"creating", "deleting"} /\ net'[n] = net[n]
    BY <1>3 DEF Restart
  <2>2. FileOK'
    BY <1>1, <2>1 DEF FileOK
  <2>3. ASSUME NEW n \in Networks
        PROVE  EntryOK(n)'
    <3>1. EntryOK(n)
      BY <2>1 DEF Kept, EntriesOK
    <3>2. CASE file[n] = networks[n]
      BY <1>1, <2>1, <3>1, <3>2, NoneAssumption DEF EntryOK
    <3>3. CASE file[n] # networks[n]
      <4>1. PICK h \in Handlers : snapshot[h] # None
        BY <2>1, <3>3 DEF Kept, FileOK
      <4>2. target[h] = n /\ handler[h] = "save"
        BY <2>1, <3>3, <4>1 DEF Kept, FileOK, RequestsOK, RequestOK
      <4>3. net[n] = "exists" /\ n \in legacy
        BY <2>1, <3>1, <4>2 DEF Kept, RequestsOK, RequestOK, EntryOK
      <4> QED
        BY <1>1, <2>1, <4>3, NoneAssumption DEF EntryOK
    <3> QED
      BY <3>2, <3>3
  <2> QED
    BY <2>2, <2>3 DEF EntriesOK
<1> QED
  BY <1>2, <1>3 DEF Kept

(* So every step keeps them in line.                                       *)
LEMMA NextKept ==
    ASSUME Inv, Kept, [Next]_vars
    PROVE  Kept'
<1>1. CASE Booted \/ (\E n \in Networks : EndpointGone(n)) \/ UNCHANGED vars
  <2>1. UNCHANGED <<networks, snapshot, file, handler, target, net, legacy, smooth>>
    BY <1>1 DEF Booted, EndpointGone, vars, diskVars, requestVars, dockerVars
  <2> QED
    BY <2>1 DEF Kept, RequestsOK, RequestOK, ChangeAlone, EntriesOK, EntryOK, FileOK
<1> QED
  BY <1>1, HandlerStepKept, SendKept, RestartKept DEF Next

(* A Join during the boot of dockerd finds a network that was created      *)
(* through the plugin in the cache, and a network that was deleted is not  *)
(* there, whatever requests run side by side and whatever saves and        *)
(* restarts there were - unless saves failed or overlapped, or a request   *)
(* was cut off (network.go:125-149, plugin.go:117-120).                    *)
THEOREM CacheFollows == Spec => []CacheFollowsDocker
<1>1. Init => Inv /\ Kept
  <2>1. Init => Kept
    BY NoneAssumption
       DEF Init, Kept, RequestsOK, RequestOK, ChangeAlone, EntriesOK, EntryOK, FileOK
  <2> QED
    BY <2>1, InitInv
<1>2. Inv /\ Kept /\ [Next]_vars => Inv' /\ Kept'
  BY NextInv, NextKept
<1>3. Inv /\ Kept => CacheFollowsDocker
  BY DEF Inv, TypeOK, Kept, RequestsOK, ChangeAlone, EntriesOK, EntryOK,
     CacheFollowsDocker, Quiet
<1> QED
  BY <1>1, <1>2, <1>3, PTL DEF Spec
=============================================================================
