----------------------- MODULE DeliveryManagerProofs ------------------------
(***************************************************************************)
(* Proofs about DeliveryManager, for any endpoints, clients and workers:     *)
(* the types of its state with the consistency of the map of controllers,   *)
(* and the agreement of that map with the workers that serve, as long as no  *)
(* two calls have overlapped.                                                *)
(*                                                                         *)
(* Agreement is not inductive: in the middle of a call the map and the       *)
(* workers differ in the worker the call is about.  The invariant says, for  *)
(* each step of a call, what is known of that worker.                        *)
(***************************************************************************)
EXTENDS DeliveryManager, TLAPS

(* A call under way is about a worker that was created for its endpoint.     *)
CallFits(t) ==
    /\ call[t].op = "idle" => call[t] = Idle
    /\ call[t].op # "idle" =>
          /\ call[t].worker \in Worker
          /\ call[t].uri \in Uri
          /\ uriOf[call[t].worker] = call[t].uri
          /\ \A u \in Uri : call[t].map[u] # NoWorker => uriOf[call[t].map[u]] = u
          /\ t \in Worker => uriOf[t] \in Uri

(* No one but its own addController has to do with the worker.               *)
Untouched(w) ==
    /\ ~busy[w]
    /\ ~stopped[w]
    /\ ~ended[w]
    /\ \A b \in Broadcaster : w \notin toEnd[b]
    /\ w \notin toFeed

NewbornFits(w) ==
    /\ uriOf[w] = NoUri => Untouched(w)
    /\ phase[w] # "new" => uriOf[w] \in Uri

Shape ==
    /\ TypeOK
    /\ \A t \in Actor : CallFits(t)
    /\ \A w \in Worker : NewbornFits(w)

-----------------------------------------------------------------------------
Agrees(w) == Serving(w) <=> w \in Registered(controllers)

Adds(t) ==
    /\ t \in Client
    /\ controllers[call[t].uri] = NoWorker
    /\ Untouched(call[t].worker)

Removes(t) ==
    /\ controllers[call[t].uri] = call[t].worker
    /\ t \in Worker => stopped[t] \/ t = call[t].worker

Alive(w) == phase[w] \in {"working", "waiting"}

AddsLast(t) ==
    /\ Adds(t)
    /\ Alive(call[t].worker)
    /\ call[t].map = [controllers EXCEPT ![call[t].uri] = call[t].worker]

RemovesLast(t) ==
    /\ Removes(t)
    /\ stopped[call[t].worker]
    /\ call[t].map = [controllers EXCEPT ![call[t].uri] = NoWorker]

CallGoesOn(t) ==
    /\ call[t].op = "submit" => Adds(t) /\ phase[call[t].worker] = "new"
    /\ call[t].op = "collect" => Adds(t) /\ Alive(call[t].worker)
    /\ call[t].op = "stop" => Removes(t)
    /\ call[t].op = "copy" => Removes(t) /\ stopped[call[t].worker]
    /\ call[t].op = "publish" => AddsLast(t) \/ RemovesLast(t)

OneCall == \A s, t \in Actor : call[s] # Idle /\ call[t] # Idle => s = t
AllAgree ==
    \A w \in Worker : Agrees(w) \/ \E t \in Actor : call[t] # Idle /\ call[t].worker = w

InTurn ==
    ~overlapped =>
        /\ OneCall
        /\ AllAgree
        /\ \A t \in Actor : CallGoesOn(t)

-----------------------------------------------------------------------------
(* The steps that change the control of the workers only.                    *)
Inner ==
    \/ \E w \in Worker : Stops(w) \/ Waits(w) \/ Wakes(w) \/ Receives(w) \/ Delivers(w)
    \/ \E b \in Broadcaster, w \in Worker : EndOne(b, w)
    \/ Broadcast
    \/ BroadcastEnd
    \/ DoStop
    \/ Shutdown

(* A worker's removal of itself, that gave up or has nothing left to do.     *)
SelfRemoval(w) == GivesUp(w) \/ Leaves(w)

LEMMA Cases ==
    ASSUME [Next]_vars
    PROVE  \/ \E t \in Client, u \in Uri : AddCheck(t, u) \/ RemoveLookup(t, u)
           \/ \E t \in Actor : InCall(t)
           \/ \E w \in Worker : SelfRemoval(w)
           \/ Inner
           \/ UNCHANGED vars
BY DEF Next, Inner, SelfRemoval, Runs

LEMMA RegisteredOwner ==
    ASSUME TypeOK, NEW w \in Worker
    PROVE  w \in Registered(controllers) <=> uriOf[w] \in Uri /\ controllers[uriOf[w]] = w
BY ManagerAssumption DEF TypeOK, Registered

LEMMA NewWorkerIsNew ==
    ASSUME \E w \in Worker : uriOf[w] = NoUri
    PROVE  NewWorker \in Worker /\ uriOf[NewWorker] = NoUri
BY DEF NewWorker

LEMMA ShapeInit == Init => Shape
<1> SUFFICES ASSUME Init PROVE Shape
    OBVIOUS
<1>1. /\ busy \in [Worker -> BOOLEAN] /\ stopped \in [Worker -> BOOLEAN]
      /\ ended \in [Worker -> BOOLEAN] /\ gaveUp \in [Worker -> BOOLEAN]
      /\ overlapped \in BOOLEAN
      /\ \A w \in Worker : ~busy[w] /\ ~stopped[w] /\ ~ended[w]
  BY Zenon DEF Init
<1>2. Idle \in [op : Op, uri : Uri \cup {NoUri}, worker : Worker \cup {NoWorker},
                map : [Uri -> Worker \cup {NoWorker}]]
  BY DEF Idle, NoEntry, Op
<1>3. TypeOK
  <2>1. /\ controllers \in [Uri -> Worker \cup {NoWorker}]
        /\ \A u \in Uri : controllers[u] = NoWorker
    BY DEF Init, NoEntry
  <2>2. call \in [Actor -> [op : Op, uri : Uri \cup {NoUri}, worker : Worker \cup {NoWorker},
                            map : [Uri -> Worker \cup {NoWorker}]]]
    BY <1>2, Zenon DEF Init
  <2>3. /\ phase \in [Worker -> {"new", "working", "waiting", "removing", "leaving", "done"}]
        /\ uriOf \in [Worker -> Uri \cup {NoUri}]
        /\ toEnd \in [Broadcaster -> SUBSET Worker]
        /\ told \subseteq Worker /\ toFeed \subseteq Worker
    BY DEF Init, Broadcaster
  <2> QED
    BY <1>1, <2>1, <2>2, <2>3 DEF Init, TypeOK
<1>4. \A t \in Actor : CallFits(t)
  BY DEF Init, CallFits, Idle
<1>5. \A w \in Worker : NewbornFits(w)
  <2>1. \A w \in Worker : /\ phase[w] = "new" /\ w \notin toFeed
                           /\ \A b \in Broadcaster : w \notin toEnd[b]
    BY DEF Init, Broadcaster
  <2> QED
    BY <1>1, <2>1 DEF NewbornFits, Untouched
<1> QED
  BY <1>3, <1>4, <1>5 DEF Shape

CallRecord ==
    [op : Op, uri : Uri \cup {NoUri}, worker : Worker \cup {NoWorker},
     map : [Uri -> Worker \cup {NoWorker}]]

LEMMA CallRecords ==
    ASSUME NEW c \in CallRecord
    PROVE  /\ \A op \in Op : [c EXCEPT !.op = op] \in CallRecord
           /\ \A op \in Op, m \in [Uri -> Worker \cup {NoWorker}] :
                 [c EXCEPT !.op = op, !.map = m] \in CallRecord
           /\ \A op \in Op, u \in Uri, w \in Worker :
                 [Idle EXCEPT !.op = op, !.uri = u, !.worker = w] \in CallRecord
           /\ Idle \in CallRecord
BY DEF CallRecord, Idle, NoEntry, Op

LEMMA CallIsRecord ==
    ASSUME TypeOK, NEW t \in Actor
    PROVE  call[t] \in CallRecord
BY DEF TypeOK, CallRecord

(* One call is replaced, or none.                                            *)
LEMMA CallsStayRecords ==
    ASSUME TypeOK, NEW t \in Actor, NEW c \in CallRecord,
           call' = [call EXCEPT ![t] = c]
    PROVE  /\ call' \in [Actor -> CallRecord]
           /\ call'[t] = c
           /\ \A s \in Actor \ {t} : call'[s] = call[s]
BY DEF TypeOK, CallRecord

LEMMA ShapeAddCheck ==
    ASSUME Shape, NEW t \in Client, NEW u \in Uri, AddCheck(t, u)
    PROVE  Shape'
<1> DEFINE c == [Idle EXCEPT !.op = "submit", !.uri = u, !.worker = NewWorker]
<1>1. NewWorker \in Worker /\ uriOf[NewWorker] = NoUri
  BY NewWorkerIsNew DEF AddCheck
<1>2. t \in Actor /\ TypeOK /\ "submit" \in Op
  BY DEF Actor, Shape, Op
<1>3. c \in CallRecord
  BY <1>1, <1>2, CallIsRecord, CallRecords
<1>4. /\ call' \in [Actor -> CallRecord]
      /\ call'[t] = c
      /\ \A s \in Actor \ {t} : call'[s] = call[s]
  BY <1>2, <1>3, CallsStayRecords, Zenon DEF AddCheck, Begins
<1>5. /\ c.op = "submit" /\ c.uri = u /\ c.worker = NewWorker
      /\ \A v \in Uri : c.map[v] = NoWorker
  BY DEF Idle, NoEntry
<1>6. /\ uriOf' \in [Worker -> Uri \cup {NoUri}]
      /\ uriOf'[NewWorker] = u
      /\ \A w \in Worker \ {NewWorker} : uriOf'[w] = uriOf[w]
  BY <1>1, <1>2 DEF AddCheck, TypeOK
<1>7. TypeOK'
  <2>1. overlapped' \in BOOLEAN
    BY Zenon DEF AddCheck, Begins
  <2>2. \A v \in Uri : controllers'[v] # NoWorker => uriOf'[controllers'[v]] = v
    BY <1>1, <1>2, <1>6, ManagerAssumption DEF AddCheck, TypeOK
  <2> QED
    BY <1>2, <1>4, <1>6, <2>1, <2>2, Zenon DEF AddCheck, TypeOK, CallRecord, manager
<1>8. \A s \in Actor : CallFits(s)'
  <2>1. \A w \in Worker, v \in Uri : uriOf[w] = v => uriOf'[w] = v
    BY <1>1, <1>6, ManagerAssumption
  <2>2. CallFits(t)'
    BY <1>1, <1>4, <1>5, <1>6, ManagerAssumption DEF CallFits
  <2>3. \A s \in Actor \ {t} : CallFits(s)'
    BY <1>2, <1>4, <2>1 DEF CallFits, Shape, TypeOK
  <2> QED
    BY <2>2, <2>3
<1>9. \A w \in Worker : NewbornFits(w)'
  BY <1>1, <1>6, ManagerAssumption
     DEF Shape, TypeOK, NewbornFits, Untouched, AddCheck, manager
<1> QED
  BY <1>7, <1>8, <1>9 DEF Shape

(* A step of a call that makes it c.                                         *)
LEMMA ShapeCallStep ==
    ASSUME Shape, NEW t \in Actor, NEW c \in CallRecord,
           call' = [call EXCEPT ![t] = c],
           UNCHANGED uriOf,
           c.op = "idle" => c = Idle,
           c.op # "idle" =>
              /\ c.worker \in Worker
              /\ c.uri \in Uri
              /\ uriOf[c.worker] = c.uri
              /\ \A u \in Uri : c.map[u] # NoWorker => uriOf[c.map[u]] = u
              /\ t \in Worker => uriOf[t] \in Uri
    PROVE  /\ call' \in [Actor -> CallRecord]
           /\ \A s \in Actor : CallFits(s)'
<1>1. /\ call' \in [Actor -> CallRecord]
      /\ call'[t] = c
      /\ \A s \in Actor \ {t} : call'[s] = call[s]
  BY CallsStayRecords DEF Shape
<1>2. CallFits(t)'
  BY <1>1 DEF CallFits
<1>3. \A s \in Actor \ {t} : CallFits(s)'
  BY <1>1 DEF CallFits, Shape
<1> QED
  BY <1>1, <1>2, <1>3

LEMMA ShapeAddSubmit ==
    ASSUME Shape, NEW t \in Actor, AddSubmit(t)
    PROVE  Shape'
<1>1. PICK c \in CallRecord :
         /\ call' = [call EXCEPT ![t] = c]
         /\ c = Idle \/ c = [call[t] EXCEPT !.op = "collect"]
  BY CallIsRecord, CallRecords DEF AddSubmit, Goes, Ends, Shape, Op
<1>2. call' \in [Actor -> CallRecord] /\ \A s \in Actor : CallFits(s)'
  <2>1. c = Idle => c.op = "idle"
    BY DEF Idle
  <2>2. c = [call[t] EXCEPT !.op = "collect"] =>
           /\ c.op = "collect" /\ c.worker = call[t].worker
           /\ c.uri = call[t].uri /\ c.map = call[t].map
    BY CallIsRecord DEF CallRecord, Shape
  <2>3. CallFits(t) /\ call[t].op # "idle" /\ UNCHANGED uriOf
    BY DEF Shape, AddSubmit
  <2> QED
    BY <1>1, <2>1, <2>2, <2>3, ShapeCallStep, ZenonT(40) DEF CallFits
<1>3. /\ call[t].worker \in Worker /\ uriOf[call[t].worker] \in Uri
      /\ phase' = phase \/ phase' = [phase EXCEPT ![call[t].worker] = "working"]
  BY DEF AddSubmit, Shape, CallFits
<1>4. TypeOK'
  <2>1. phase' \in [Worker -> {"new", "working", "waiting", "removing", "leaving", "done"}]
    BY <1>3 DEF Shape, TypeOK
  <2> QED
    BY <1>2, <2>1, Zenon DEF AddSubmit, Shape, TypeOK, CallRecord, manager
<1>5. \A w \in Worker : NewbornFits(w)'
  BY <1>3 DEF Shape, TypeOK, NewbornFits, Untouched, AddSubmit, manager
<1> QED
  BY <1>2, <1>4, <1>5 DEF Shape

LEMMA ShapeAddCollect ==
    ASSUME Shape, NEW t \in Actor, AddCollect(t)
    PROVE  Shape'
<1> DEFINE m == [controllers EXCEPT ![call[t].uri] = call[t].worker]
<1>1. /\ call[t] \in CallRecord
      /\ call[t].worker \in Worker /\ call[t].uri \in Uri
      /\ uriOf[call[t].worker] = call[t].uri
      /\ t \in Worker => uriOf[t] \in Uri
  BY CallIsRecord DEF AddCollect, Shape, CallFits
<1>2. /\ m \in [Uri -> Worker \cup {NoWorker}]
      /\ \A u \in Uri : m[u] # NoWorker => uriOf[m[u]] = u
  BY <1>1 DEF Shape, TypeOK
<1> HIDE DEF m
<1>3. PICK c \in CallRecord :
         /\ call' = [call EXCEPT ![t] = c]
         /\ c = Idle \/ c = [call[t] EXCEPT !.op = "publish", !.map = m]
  <2>1. [call[t] EXCEPT !.op = "publish", !.map = m] \in CallRecord /\ Idle \in CallRecord
    BY <1>1, <1>2, CallRecords DEF Op
  <2>2. CASE controllers[call[t].uri] = NoWorker
    <3>1. call' = [call EXCEPT ![t] = [call[t] EXCEPT !.op = "publish", !.map = m]]
      BY <2>2 DEF AddCollect, m
    <3> QED
      BY <2>1, <3>1
  <2>3. CASE controllers[call[t].uri] # NoWorker
    BY <2>1, <2>3 DEF AddCollect, Ends
  <2> QED
    BY <2>2, <2>3
<1>4. call' \in [Actor -> CallRecord] /\ \A s \in Actor : CallFits(s)'
  <2>1. c = Idle => c.op = "idle"
    BY DEF Idle
  <2>2. c = [call[t] EXCEPT !.op = "publish", !.map = m] =>
           c.op = "publish" /\ c.worker = call[t].worker /\ c.uri = call[t].uri /\ c.map = m
    BY <1>1 DEF CallRecord
  <2>3. UNCHANGED uriOf
    BY DEF AddCollect
  <2> QED
    BY <1>1, <1>2, <1>3, <2>1, <2>2, <2>3, ShapeCallStep
<1>5. TypeOK'
  BY <1>4, Zenon DEF AddCollect, Shape, TypeOK, CallRecord, manager
<1>6. \A w \in Worker : NewbornFits(w)'
  BY DEF Shape, NewbornFits, Untouched, AddCollect, manager
<1> QED
  BY <1>4, <1>5, <1>6 DEF Shape

LEMMA ShapeRemoveStop ==
    ASSUME Shape, NEW t \in Actor, RemoveStop(t)
    PROVE  Shape'
<1> DEFINE c == [call[t] EXCEPT !.op = "copy"]
<1>1. /\ call[t] \in CallRecord
      /\ call[t].worker \in Worker /\ uriOf[call[t].worker] \in Uri
  BY CallIsRecord DEF RemoveStop, Shape, CallFits
<1>2. call' \in [Actor -> CallRecord] /\ \A s \in Actor : CallFits(s)'
  <2>1. c \in CallRecord /\ call' = [call EXCEPT ![t] = c]
    BY <1>1, CallRecords DEF RemoveStop, Goes, Op
  <2>2. /\ c.op = "copy" /\ c.worker = call[t].worker
        /\ c.uri = call[t].uri /\ c.map = call[t].map
    BY <1>1 DEF CallRecord
  <2>3. CallFits(t) /\ call[t].op # "idle" /\ UNCHANGED uriOf
    BY DEF Shape, RemoveStop
  <2> QED
    BY <2>1, <2>2, <2>3, ShapeCallStep DEF CallFits
<1>3. stopped' \in [Worker -> BOOLEAN]
  BY Zenon DEF RemoveStop, Shape, TypeOK
<1>4. TypeOK'
  BY <1>2, <1>3, Zenon DEF RemoveStop, Shape, TypeOK, CallRecord, manager
<1>5. \A w \in Worker : NewbornFits(w)'
  BY <1>1, ManagerAssumption DEF Shape, TypeOK, NewbornFits, Untouched, RemoveStop, manager
<1> QED
  BY <1>2, <1>4, <1>5 DEF Shape

LEMMA ShapeRemoveCopy ==
    ASSUME Shape, NEW t \in Actor, RemoveCopy(t)
    PROVE  Shape'
<1> DEFINE m == [controllers EXCEPT ![call[t].uri] = NoWorker]
           c == [call[t] EXCEPT !.op = "publish", !.map = m]
<1>1. /\ call[t] \in CallRecord
      /\ call[t].op # "idle"
      /\ CallFits(t)
  BY CallIsRecord DEF RemoveCopy, Shape
<1>2. /\ m \in [Uri -> Worker \cup {NoWorker}]
      /\ \A u \in Uri : m[u] # NoWorker => uriOf[m[u]] = u
  BY <1>1 DEF Shape, TypeOK, CallFits
<1>3. call' \in [Actor -> CallRecord] /\ \A s \in Actor : CallFits(s)'
  <2>1. call' = [call EXCEPT ![t] = c]
    BY DEF RemoveCopy
  <2> HIDE DEF m
  <2>2. c \in CallRecord
    BY <1>1, <1>2, CallRecords DEF Op
  <2>3. c.op = "publish" /\ c.worker = call[t].worker /\ c.uri = call[t].uri /\ c.map = m
    BY <1>1 DEF CallRecord
  <2>4. UNCHANGED uriOf
    BY DEF RemoveCopy
  <2> HIDE DEF c
  <2> QED
    BY <1>1, <1>2, <2>1, <2>2, <2>3, <2>4, ShapeCallStep DEF CallFits
<1>4. TypeOK'
  BY <1>3, Zenon DEF RemoveCopy, Shape, TypeOK, CallRecord, manager
<1>5. \A w \in Worker : NewbornFits(w)'
  BY DEF Shape, NewbornFits, Untouched, RemoveCopy, manager
<1> QED
  BY <1>3, <1>4, <1>5 DEF Shape

LEMMA ShapePublish ==
    ASSUME Shape, NEW t \in Actor, Publish(t)
    PROVE  Shape'
<1>1. /\ call[t] \in CallRecord
      /\ call[t].op # "idle"
      /\ CallFits(t)
  BY CallIsRecord DEF Publish, Shape
<1>2. call' \in [Actor -> CallRecord] /\ \A s \in Actor : CallFits(s)'
  <2>1. Idle \in CallRecord /\ Idle.op = "idle"
    BY <1>1, CallRecords DEF Idle
  <2>2. call' = [call EXCEPT ![t] = Idle] /\ UNCHANGED uriOf
    BY DEF Publish, Ends
  <2> QED
    BY <2>1, <2>2, ShapeCallStep
<1>3. /\ phase' \in [Worker -> {"new", "working", "waiting", "removing", "leaving", "done"}]
      /\ \A w \in Worker : phase'[w] # "new" => phase[w] # "new" \/ w = t
  BY DEF Publish, BackIn, Shape, TypeOK
<1>4. /\ controllers' \in [Uri -> Worker \cup {NoWorker}]
      /\ \A u \in Uri : controllers'[u] # NoWorker => uriOf[controllers'[u]] = u
  BY <1>1 DEF Publish, CallFits, CallRecord
<1>5. TypeOK'
  BY <1>2, <1>3, <1>4, Zenon DEF Publish, Shape, TypeOK, CallRecord, manager
<1>6. \A w \in Worker : NewbornFits(w)'
  BY <1>1, <1>3 DEF Shape, NewbornFits, Untouched, CallFits, Publish, manager
<1> QED
  BY <1>2, <1>5, <1>6 DEF Shape

LEMMA ShapeLookup ==
    ASSUME Shape, NEW t \in Actor, NEW u \in Uri, Lookup(t, u), UNCHANGED uriOf,
           t \in Worker => uriOf[t] \in Uri
    PROVE  /\ call' \in [Actor -> CallRecord]
           /\ \A s \in Actor : CallFits(s)'
           /\ overlapped' \in BOOLEAN
<1> DEFINE c == [Idle EXCEPT !.op = "stop", !.uri = u, !.worker = controllers[u]]
<1>1. controllers[u] \in Worker /\ uriOf[controllers[u]] = u
  BY DEF Lookup, Shape, TypeOK
<1>2. call' = [call EXCEPT ![t] = c]
  BY DEF Lookup, Begins
<1>3. c \in CallRecord
  BY <1>1, CallIsRecord, CallRecords DEF Op, Shape
<1>4. /\ c.op = "stop" /\ c.uri = u /\ c.worker = controllers[u]
      /\ \A v \in Uri : c.map[v] = NoWorker
  BY DEF Idle, NoEntry
<1>5. overlapped' \in BOOLEAN
  BY Zenon DEF Lookup, Begins
<1> HIDE DEF c
<1> QED
  BY <1>1, <1>2, <1>3, <1>4, <1>5, ShapeCallStep

LEMMA ShapeRemoveLookup ==
    ASSUME Shape, NEW t \in Client, NEW u \in Uri, RemoveLookup(t, u)
    PROVE  Shape'
<1>1. /\ call' \in [Actor -> CallRecord]
      /\ \A s \in Actor : CallFits(s)'
      /\ overlapped' \in BOOLEAN
  BY ShapeLookup, ManagerAssumption DEF RemoveLookup, Actor
<1>2. TypeOK'
  BY <1>1, Zenon DEF RemoveLookup, Shape, TypeOK, CallRecord, manager
<1>3. \A w \in Worker : NewbornFits(w)'
  BY DEF Shape, NewbornFits, Untouched, RemoveLookup, manager
<1> QED
  BY <1>1, <1>2, <1>3 DEF Shape

(* The frame of the steps that leave the map, the calls and the owners alone. *)
LEMMA ShapeFrame ==
    ASSUME Shape,
           UNCHANGED <<controllers, call, uriOf>>,
           phase' \in [Worker -> {"new", "working", "waiting", "removing", "leaving", "done"}],
           \A w \in Worker : phase'[w] # "new" => phase[w] # "new",
           busy' \in [Worker -> BOOLEAN],
           stopped' = stopped,
           ended' \in [Worker -> BOOLEAN],
           service' \in {"running", "stopped"},
           executor' \in {"open", "shutdown"},
           shutdown' \in {"idle", "begin", "ending", "await", "finished"},
           toEnd' \in [Broadcaster -> SUBSET Worker],
           toFeed' \subseteq Worker,
           gaveUp' \in [Worker -> BOOLEAN],
           told' \subseteq Worker,
           overlapped' \in BOOLEAN,
           \A w \in Worker : uriOf[w] = NoUri => Untouched(w)'
    PROVE  Shape'
<1>1. TypeOK'
  BY Zenon DEF Shape, TypeOK
<1>2. \A s \in Actor : CallFits(s)'
  BY DEF Shape, CallFits
<1>3. \A w \in Worker : NewbornFits(w)'
  BY DEF Shape, NewbornFits
<1> QED
  BY <1>1, <1>2, <1>3 DEF Shape

LEMMA ShapeSelfRemoval ==
    ASSUME Shape, NEW w \in Worker, SelfRemoval(w)
    PROVE  Shape'
<1>1. uriOf[w] \in Uri /\ UNCHANGED <<controllers, busy, stopped, ended, manager, uriOf>>
  BY DEF SelfRemoval, GivesUp, Leaves, Shape, NewbornFits
<1>2. PICK where \in {"removing", "leaving"} : RemovesItself(w, where)
  BY DEF SelfRemoval, GivesUp, Leaves
<1>3. gaveUp' \in [Worker -> BOOLEAN]
  BY Zenon DEF SelfRemoval, GivesUp, Leaves, Shape, TypeOK
<1>4. /\ phase' \in [Worker -> {"new", "working", "waiting", "removing", "leaving", "done"}]
      /\ \A v \in Worker \ {w} : phase'[v] = phase[v]
  BY <1>2 DEF RemovesItself, Shape, TypeOK
<1>5. /\ call' \in [Actor -> CallRecord]
      /\ \A s \in Actor : CallFits(s)'
      /\ overlapped' \in BOOLEAN
  <2>1. CASE Lookup(w, uriOf[w])
    BY <1>1, <2>1, ShapeLookup DEF Actor
  <2>2. CASE UNCHANGED <<call, overlapped>>
    BY <1>1, <2>2 DEF Shape, TypeOK, CallFits, CallRecord
  <2> QED
    BY <1>2, <2>1, <2>2 DEF RemovesItself
<1>6. TypeOK'
  BY <1>1, <1>3, <1>4, <1>5, Zenon DEF Shape, TypeOK, CallRecord, manager
<1>7. \A v \in Worker : NewbornFits(v)'
  BY <1>1, <1>4, ManagerAssumption DEF Shape, NewbornFits, Untouched, manager
<1> QED
  BY <1>5, <1>6, <1>7 DEF Shape

LEMMA RegisteredIsOwned ==
    ASSUME TypeOK
    PROVE  /\ Registered(controllers) \subseteq Worker
           /\ \A w \in Registered(controllers) : uriOf[w] \in Uri
BY ManagerAssumption DEF TypeOK, Registered

LEMMA ShapeInner == ASSUME Shape, Inner PROVE Shape'
<1> USE DEF Shape
<1>1. ASSUME NEW w \in Worker, Stops(w) \/ Waits(w) \/ Wakes(w) PROVE Shape'
  <2>1. /\ phase' \in [Worker -> {"new", "working", "waiting", "removing", "leaving", "done"}]
        /\ \A v \in Worker : phase'[v] # "new" => phase[v] # "new"
    BY <1>1 DEF Stops, Waits, Wakes, TypeOK
  <2>2. /\ UNCHANGED <<controllers, call, busy, stopped, ended, uriOf, gaveUp, overlapped>>
        /\ UNCHANGED <<service, executor, shutdown, toEnd, toFeed, told>>
    BY <1>1 DEF Stops, Waits, Wakes, manager
  <2>3. \A v \in Worker : uriOf[v] = NoUri => Untouched(v)'
    BY <2>2 DEF NewbornFits, Untouched
  <2> QED
    BY <2>1, <2>2, <2>3, ShapeFrame, Zenon DEF TypeOK
<1>2. ASSUME NEW w \in Worker, Receives(w) \/ Delivers(w) PROVE Shape'
  <2>1. /\ phase' \in [Worker -> {"new", "working", "waiting", "removing", "leaving", "done"}]
        /\ \A v \in Worker : phase'[v] # "new" => phase[v] # "new"
    BY <1>2 DEF Receives, Delivers, TypeOK
  <2>2. busy' \in [Worker -> BOOLEAN]
    BY <1>2, Zenon DEF Receives, Delivers, TypeOK
  <2>3. /\ UNCHANGED <<controllers, call, stopped, ended, uriOf, gaveUp, overlapped>>
        /\ UNCHANGED <<service, executor, shutdown, toEnd, told>>
        /\ toFeed' \subseteq toFeed
    BY <1>2 DEF Receives, Delivers, manager
  <2>4. uriOf[w] # NoUri \/ ~busy'[w]
    BY <1>2 DEF Receives, Delivers, TypeOK, NewbornFits, Untouched
  <2>5. \A v \in Worker \ {w} : busy'[v] = busy[v]
    BY <1>2 DEF Receives, Delivers, TypeOK
  <2>6. \A v \in Worker : uriOf[v] = NoUri => Untouched(v)'
    BY <2>3, <2>4, <2>5 DEF NewbornFits, Untouched
  <2> QED
    BY <2>1, <2>2, <2>3, <2>6, ShapeFrame, Zenon DEF TypeOK
<1>3. ASSUME NEW b \in Broadcaster, NEW w \in Worker, EndOne(b, w) PROVE Shape'
  <2>1. /\ phase' \in [Worker -> {"new", "working", "waiting", "removing", "leaving", "done"}]
        /\ \A v \in Worker : phase'[v] # "new" => phase[v] # "new"
    BY <1>3 DEF EndOne, TypeOK
  <2>2. ended' \in [Worker -> BOOLEAN]
    BY <1>3, Zenon DEF EndOne, TypeOK
  <2>3. UNCHANGED <<controllers, call, busy, stopped, service, executor, shutdown, told, toFeed,
                    uriOf, gaveUp, overlapped>>
    BY <1>3 DEF EndOne
  <2>4. /\ toEnd' \in [Broadcaster -> SUBSET Worker]
        /\ \A a \in Broadcaster : toEnd'[a] \subseteq toEnd[a]
    BY <1>3 DEF EndOne, TypeOK
  <2>5. uriOf[w] # NoUri /\ \A v \in Worker \ {w} : ended'[v] = ended[v]
    BY <1>3 DEF EndOne, TypeOK, NewbornFits, Untouched
  <2>6. \A v \in Worker : uriOf[v] = NoUri => Untouched(v)'
    BY <2>3, <2>4, <2>5 DEF NewbornFits, Untouched
  <2> QED
    BY <2>1, <2>2, <2>3, <2>4, <2>6, ShapeFrame, Zenon DEF TypeOK
<1>4. ASSUME BroadcastEnd \/ ShutdownCollect PROVE Shape'
  <2>1. /\ UNCHANGED <<controllers, call, phase, busy, stopped, ended, service, executor,
                       toFeed, uriOf, gaveUp, overlapped>>
        /\ shutdown' \in {"idle", "begin", "ending", "await", "finished"}
        /\ told' \subseteq Worker
    BY <1>4, RegisteredIsOwned DEF BroadcastEnd, ShutdownCollect, TypeOK
  <2>2. PICK b \in Broadcaster : toEnd' = [toEnd EXCEPT ![b] = Registered(controllers)]
    BY <1>4 DEF BroadcastEnd, ShutdownCollect, Broadcaster
  <2>3. /\ toEnd' \in [Broadcaster -> SUBSET Worker]
        /\ \A a \in Broadcaster : toEnd'[a] \in {toEnd[a], Registered(controllers)}
    BY <2>2, RegisteredIsOwned DEF TypeOK
  <2>4. \A v \in Worker : uriOf[v] = NoUri => Untouched(v)'
    BY <2>1, <2>3, RegisteredIsOwned, ManagerAssumption DEF NewbornFits, Untouched
  <2> QED
    BY <2>1, <2>3, <2>4, ShapeFrame, Zenon DEF TypeOK
<1>5. ASSUME DoStop \/ ShutdownExecutor \/ ShutdownFinished PROVE Shape'
  <2>1. /\ UNCHANGED <<controllers, call, phase, busy, stopped, ended, toEnd, toFeed, told,
                       uriOf, gaveUp, overlapped>>
        /\ service' \in {"running", "stopped"}
        /\ executor' \in {"open", "shutdown"}
        /\ shutdown' \in {"idle", "begin", "ending", "await", "finished"}
    BY <1>5 DEF DoStop, ShutdownExecutor, ShutdownFinished, TypeOK
  <2>2. \A v \in Worker : uriOf[v] = NoUri => Untouched(v)'
    BY <2>1 DEF NewbornFits, Untouched
  <2> QED
    BY <2>1, <2>2, ShapeFrame, Zenon DEF TypeOK
<1>6. ASSUME Broadcast PROVE Shape'
  <2>1. /\ UNCHANGED <<controllers, call, phase, busy, stopped, ended, service, executor,
                       shutdown, toEnd, told, uriOf, gaveUp, overlapped>>
        /\ toFeed' = Registered(controllers)
    BY <1>6 DEF Broadcast
  <2>2. toFeed' \subseteq Worker
    BY <2>1, RegisteredIsOwned DEF TypeOK
  <2>3. \A v \in Worker : uriOf[v] = NoUri => Untouched(v)'
    BY <2>1, RegisteredIsOwned, ManagerAssumption DEF NewbornFits, Untouched
  <2> QED
    BY <2>1, <2>2, <2>3, ShapeFrame, Zenon DEF TypeOK
<1> QED
  BY <1>1, <1>2, <1>3, <1>4, <1>5, <1>6 DEF Inner, Shutdown

LEMMA ShapeNext == ASSUME Shape, [Next]_vars PROVE Shape'
<1>1. CASE UNCHANGED vars
  BY <1>1 DEF vars, manager, Shape, TypeOK, CallFits, NewbornFits, Untouched
<1> QED
  BY <1>1, Cases, ShapeAddCheck, ShapeRemoveLookup, ShapeAddSubmit, ShapeAddCollect,
     ShapeRemoveStop, ShapeRemoveCopy, ShapePublish, ShapeSelfRemoval, ShapeInner
     DEF InCall

(* The manager keeps its types, and the map names under each endpoint a      *)
(* worker that was created for it, whatever calls overlap (the assignments   *)
(* of addController and removeController).                                   *)
THEOREM ManagerTyped == Spec => []TypeOK
<1>1. Spec => []Shape
  BY ShapeInit, ShapeNext, PTL DEF Spec
<1>2. Shape => TypeOK
  BY DEF Shape
<1> QED
  BY <1>1, <1>2, PTL

-----------------------------------------------------------------------------
LEMMA InTurnInit == Init => InTurn
<1> SUFFICES ASSUME Init PROVE InTurn
    OBVIOUS
<1>1. \A t \in Actor : call[t] = Idle /\ call[t].op = "idle"
  BY DEF Init, Idle
<1>2. \A w \in Worker : Agrees(w)
  BY ManagerAssumption DEF Init, Agrees, Serving, Registered, NoEntry
<1> QED
  BY <1>1, <1>2 DEF InTurn, OneCall, AllAgree, CallGoesOn

(* A call that begins without an overlap is the only one, and everything      *)
(* agreed before it.                                                         *)
LEMMA BeginsAlone ==
    ASSUME Shape, InTurn, NEW t \in Actor, NEW c, Begins(t, c), ~overlapped'
    PROVE  /\ \A w \in Worker : Agrees(w)
           /\ call'[t] = c
           /\ \A s \in Actor \ {t} : call'[s] = Idle
<1>1. ~overlapped /\ \A s \in Actor \ {t} : call[s] = Idle
  BY Zenon DEF Begins
<1>2. \A s \in Actor : call[s] = Idle
  BY <1>1 DEF Begins
<1>3. \A w \in Worker : Agrees(w)
  BY <1>1, <1>2, Zenon DEF InTurn, AllAgree
<1>4. call'[t] = c /\ \A s \in Actor \ {t} : call'[s] = call[s]
  BY DEF Begins, Shape, TypeOK
<1> QED
  BY <1>2, <1>3, <1>4

(* A call in its middle is the only one, and everything agrees but the worker *)
(* it is about.                                                              *)
LEMMA GoesOnAlone ==
    ASSUME Shape, InTurn, ~overlapped, NEW t \in Actor, call[t].op # "idle"
    PROVE  /\ \A s \in Actor \ {t} : call[s] = Idle
           /\ \A w \in Worker \ {call[t].worker} : Agrees(w)
           /\ CallGoesOn(t)
<1>1. call[t] # Idle
  BY DEF Idle
<1> QED
  BY <1>1, Zenon DEF InTurn, OneCall, AllAgree

(* One call is under way, about the only worker that may disagree.           *)
LEMMA InTurnCall ==
    ASSUME NEW t \in Actor,
           \A s \in Actor \ {t} : call'[s] = Idle,
           \A w \in Worker : Agrees(w)' \/ (call'[t] # Idle /\ call'[t].worker = w),
           CallGoesOn(t)'
    PROVE  InTurn'
<1>1. \A s \in Actor \ {t} : CallGoesOn(s)'
  BY DEF CallGoesOn, Idle
<1> QED
  BY <1>1, Zenon DEF InTurn, OneCall, AllAgree

LEMMA InTurnAddCheck ==
    ASSUME Shape, InTurn, NEW t \in Client, NEW u \in Uri, AddCheck(t, u)
    PROVE  InTurn'
<1> SUFFICES ASSUME ~overlapped' PROVE InTurn'
    BY DEF InTurn
<1> DEFINE c == [Idle EXCEPT !.op = "submit", !.uri = u, !.worker = NewWorker]
<1>1. /\ \A w \in Worker : Agrees(w)
      /\ call'[t] = c
      /\ \A s \in Actor \ {t} : call'[s] = Idle
  BY BeginsAlone DEF AddCheck, Actor
<1>2. c.op = "submit" /\ c.uri = u /\ c.worker = NewWorker
  BY DEF Idle
<1>3. /\ NewWorker \in Worker /\ uriOf[NewWorker] = NoUri
      /\ UNCHANGED <<controllers, phase, busy, stopped, ended, toEnd, toFeed>>
  BY NewWorkerIsNew DEF AddCheck, manager
<1>4. CallGoesOn(t)'
  <2>1. Untouched(NewWorker) /\ phase[NewWorker] = "new"
    BY <1>3, ManagerAssumption DEF Shape, NewbornFits
  <2>2. controllers[u] = NoWorker
    BY DEF AddCheck
  <2>3. /\ call'[t].op = "submit" /\ call'[t].uri = u /\ call'[t].worker = NewWorker
    BY <1>1, <1>2
  <2>4. Adds(t)' /\ phase'[call'[t].worker] = "new"
    BY <1>3, <2>1, <2>2, <2>3 DEF Adds, Untouched
  <2> QED
    BY <2>3, <2>4 DEF CallGoesOn
<1>5. \A w \in Worker : Agrees(w)'
  BY <1>1, <1>3 DEF Agrees, Serving, Registered
<1> QED
  BY <1>1, <1>4, <1>5, InTurnCall DEF Actor

LEMMA InTurnLookup ==
    ASSUME Shape, InTurn, NEW t \in Actor, NEW u \in Uri, Lookup(t, u),
           UNCHANGED <<controllers, stopped>>,
           \A w \in Worker : phase'[w] # phase[w] => w = t,
           t \in Worker =>
              /\ u = uriOf[t]
              /\ phase[t] = "working"
              /\ ~Serving(t)'
    PROVE  InTurn'
<1> SUFFICES ASSUME ~overlapped' PROVE InTurn'
    BY DEF InTurn
<1> DEFINE c == [Idle EXCEPT !.op = "stop", !.uri = u, !.worker = controllers[u]]
<1>1. /\ \A w \in Worker : Agrees(w)
      /\ call'[t] = c
      /\ \A s \in Actor \ {t} : call'[s] = Idle
  BY BeginsAlone DEF Lookup
<1>2. c.op = "stop" /\ c.uri = u /\ c.worker = controllers[u]
  BY DEF Idle
<1>3. t \in Worker => stopped[t] \/ t = controllers[u]
  BY <1>1, RegisteredOwner DEF Agrees, Serving, Shape
<1>4. CallGoesOn(t)'
  BY <1>1, <1>2, <1>3 DEF CallGoesOn, Removes
<1>5. ASSUME NEW w \in Worker PROVE Agrees(w)' \/ (call'[t] # Idle /\ call'[t].worker = w)
  <2>1. CASE w # t
    BY <1>1, <2>1 DEF Agrees, Serving, Registered
  <2>2. CASE w = t /\ w # controllers[u]
    <3>1. stopped[w] /\ ~Serving(w) /\ ~Serving(w)'
      BY <1>3, <2>2 DEF Serving
    <3> QED
      BY <1>1, <3>1 DEF Agrees, Registered
  <2>3. CASE w = controllers[u]
    <3>1. call'[t].op = "stop" /\ call'[t].worker = w
      BY <1>1, <1>2, <2>3
    <3>2. Idle.op = "idle"
      BY DEF Idle
    <3> QED
      BY <3>1, <3>2
  <2> QED
    BY <2>1, <2>2, <2>3
<1> QED
  BY <1>1, <1>4, <1>5, InTurnCall

LEMMA InTurnAddSubmit ==
    ASSUME Shape, InTurn, NEW t \in Actor, AddSubmit(t)
    PROVE  InTurn'
<1> SUFFICES ASSUME ~overlapped' PROVE InTurn'
    BY DEF InTurn
<1> DEFINE x == call[t].worker
<1>1. /\ call[t].op = "submit" /\ ~overlapped
      /\ x \in Worker /\ call[t].uri \in Uri /\ uriOf[x] = call[t].uri
      /\ UNCHANGED <<controllers, busy, stopped, ended, toEnd, toFeed>>
  BY DEF AddSubmit, manager, Shape, CallFits
<1>2. /\ \A s \in Actor \ {t} : call[s] = Idle
      /\ \A w \in Worker \ {x} : Agrees(w)
      /\ Adds(t) /\ phase[x] = "new"
  BY <1>1, GoesOnAlone DEF CallGoesOn
<1>3. x \notin Registered(controllers)
  BY <1>1, <1>2, RegisteredOwner, ManagerAssumption DEF Adds, Shape
<1>4. \A s \in Actor \ {t} : call'[s] = Idle
  BY <1>2 DEF AddSubmit, Goes, Ends, Shape, TypeOK
<1>5. CASE executor = "open"
  <2>1. /\ call'[t] = [call[t] EXCEPT !.op = "collect"]
        /\ phase' = [phase EXCEPT ![x] = "working"]
    BY <1>5 DEF AddSubmit, Goes, Shape, TypeOK
  <2>2. call'[t].op = "collect" /\ call'[t].worker = x /\ call'[t].uri = call[t].uri
    BY <2>1, CallIsRecord DEF Shape, CallRecord
  <2>3. /\ phase'[x] = "working"
        /\ \A w \in Worker \ {x} : phase'[w] = phase[w]
    BY <1>1, <2>1 DEF Shape, TypeOK
  <2>4. CallGoesOn(t)'
    BY <1>1, <1>2, <2>2, <2>3 DEF CallGoesOn, Adds, Untouched, Alive
  <2>5. \A w \in Worker \ {x} : Agrees(w)'
    BY <1>1, <1>2, <2>3 DEF Agrees, Serving, Registered
  <2>6. call'[t] # Idle
    BY <2>2 DEF Idle
  <2> QED
    BY <1>4, <2>2, <2>4, <2>5, <2>6, InTurnCall
<1>6. CASE executor # "open"
  <2>1. call'[t] = Idle /\ phase' = phase
    BY <1>6 DEF AddSubmit, Ends, Shape, TypeOK
  <2>2. CallGoesOn(t)'
    BY <2>1 DEF CallGoesOn, Idle
  <2>3. Agrees(x)
    BY <1>2, <1>3 DEF Agrees, Serving
  <2>4. \A w \in Worker : Agrees(w)'
    BY <1>1, <1>2, <2>1, <2>3 DEF Agrees, Serving, Registered
  <2> QED
    BY <1>4, <2>2, <2>4, InTurnCall
<1> QED
  BY <1>5, <1>6

LEMMA InTurnAddCollect ==
    ASSUME Shape, InTurn, NEW t \in Actor, AddCollect(t)
    PROVE  InTurn'
<1> SUFFICES ASSUME ~overlapped' PROVE InTurn'
    BY DEF InTurn
<1> DEFINE x == call[t].worker
           m == [controllers EXCEPT ![call[t].uri] = x]
<1>1. /\ call[t].op = "collect" /\ ~overlapped
      /\ x \in Worker
      /\ UNCHANGED <<controllers, phase, busy, stopped, ended, toEnd, toFeed>>
  BY DEF AddCollect, manager, Shape, CallFits
<1>2. /\ \A s \in Actor \ {t} : call[s] = Idle
      /\ \A w \in Worker \ {x} : Agrees(w)
      /\ Adds(t) /\ Alive(x)
  BY <1>1, GoesOnAlone DEF CallGoesOn
<1>3. /\ call'[t] = [call[t] EXCEPT !.op = "publish", !.map = m]
      /\ \A s \in Actor \ {t} : call'[s] = Idle
  BY <1>2 DEF AddCollect, Adds, Shape, TypeOK
<1>4. /\ call'[t].op = "publish" /\ call'[t].map = m
      /\ call'[t].worker = x /\ call'[t].uri = call[t].uri
  <2> HIDE DEF m
  <2> QED
    BY <1>3, CallIsRecord DEF Shape, CallRecord
<1>5. CallGoesOn(t)'
  <2>1. Adds(t)' /\ Alive(x)'
    BY <1>1, <1>2, <1>4 DEF Adds, Untouched, Alive
  <2> QED
    BY <1>1, <1>4, <2>1 DEF CallGoesOn, AddsLast
<1>6. \A w \in Worker \ {x} : Agrees(w)'
  BY <1>1, <1>2 DEF Agrees, Serving, Registered
<1>7. call'[t] # Idle
  <2>1. Idle.op = "idle"
    BY DEF Idle
  <2> QED
    BY <1>4, <2>1
<1> QED
  BY <1>3, <1>4, <1>5, <1>6, <1>7, InTurnCall

LEMMA InTurnRemoveStop ==
    ASSUME Shape, InTurn, NEW t \in Actor, RemoveStop(t)
    PROVE  InTurn'
<1> SUFFICES ASSUME ~overlapped' PROVE InTurn'
    BY DEF InTurn
<1> DEFINE x == call[t].worker
<1>1. /\ call[t].op = "stop" /\ ~overlapped
      /\ x \in Worker
      /\ UNCHANGED <<controllers, phase>>
  BY DEF RemoveStop, Shape, CallFits
<1>2. /\ \A s \in Actor \ {t} : call[s] = Idle
      /\ \A w \in Worker \ {x} : Agrees(w)
      /\ Removes(t)
  BY <1>1, GoesOnAlone DEF CallGoesOn
<1>3. /\ call'[t] = [call[t] EXCEPT !.op = "copy"]
      /\ \A s \in Actor \ {t} : call'[s] = Idle
  BY <1>2 DEF RemoveStop, Goes, Shape, TypeOK
<1>4. /\ call'[t].op = "copy" /\ call'[t].worker = x /\ call'[t].uri = call[t].uri
  BY <1>3, CallIsRecord DEF Shape, CallRecord
<1>5. stopped'[x] /\ \A w \in Worker \ {x} : stopped'[w] = stopped[w]
  BY <1>1 DEF RemoveStop, Shape, TypeOK
<1>6. CallGoesOn(t)'
  BY <1>1, <1>2, <1>4, <1>5, ManagerAssumption DEF CallGoesOn, Removes
<1>7. \A w \in Worker \ {x} : Agrees(w)'
  BY <1>1, <1>2, <1>5 DEF Agrees, Serving, Registered
<1>8. call'[t] # Idle
  BY <1>4 DEF Idle
<1> QED
  BY <1>3, <1>4, <1>6, <1>7, <1>8, InTurnCall

LEMMA InTurnRemoveCopy ==
    ASSUME Shape, InTurn, NEW t \in Actor, RemoveCopy(t)
    PROVE  InTurn'
<1> SUFFICES ASSUME ~overlapped' PROVE InTurn'
    BY DEF InTurn
<1> DEFINE x == call[t].worker
           m == [controllers EXCEPT ![call[t].uri] = NoWorker]
<1>1. /\ call[t].op = "copy" /\ ~overlapped
      /\ x \in Worker
      /\ UNCHANGED <<controllers, phase, stopped>>
  BY DEF RemoveCopy, Shape, CallFits
<1>2. /\ \A s \in Actor \ {t} : call[s] = Idle
      /\ \A w \in Worker \ {x} : Agrees(w)
      /\ Removes(t) /\ stopped[x]
  BY <1>1, GoesOnAlone DEF CallGoesOn
<1>3. /\ call'[t] = [call[t] EXCEPT !.op = "publish", !.map = m]
      /\ \A s \in Actor \ {t} : call'[s] = Idle
  BY <1>2 DEF RemoveCopy, Shape, TypeOK
<1>4. /\ call'[t].op = "publish" /\ call'[t].map = m
      /\ call'[t].worker = x /\ call'[t].uri = call[t].uri
  <2> HIDE DEF m
  <2> QED
    BY <1>3, CallIsRecord DEF Shape, CallRecord
<1>5. CallGoesOn(t)'
  <2>1. Removes(t)' /\ stopped'[x]
    BY <1>1, <1>2, <1>4 DEF Removes
  <2> QED
    BY <1>1, <1>4, <2>1 DEF CallGoesOn, RemovesLast
<1>6. \A w \in Worker \ {x} : Agrees(w)'
  BY <1>1, <1>2 DEF Agrees, Serving, Registered
<1>7. call'[t] # Idle
  <2>1. Idle.op = "idle"
    BY DEF Idle
  <2> QED
    BY <1>4, <2>1
<1> QED
  BY <1>3, <1>4, <1>5, <1>6, <1>7, InTurnCall

(* The assignment of the new map brings its worker and the map together.     *)
LEMMA InTurnPublish ==
    ASSUME Shape, InTurn, NEW t \in Actor, Publish(t)
    PROVE  InTurn'
<1> SUFFICES ASSUME ~overlapped' PROVE InTurn'
    BY DEF InTurn
<1> DEFINE x == call[t].worker
           u == call[t].uri
<1>1. /\ call[t].op = "publish" /\ ~overlapped
      /\ x \in Worker /\ u \in Uri /\ uriOf[x] = u
      /\ UNCHANGED stopped
      /\ TypeOK /\ TypeOK' /\ uriOf' = uriOf
  BY ShapePublish DEF Publish, Shape, CallFits
<1>2. /\ \A s \in Actor \ {t} : call[s] = Idle
      /\ \A w \in Worker \ {x} : Agrees(w)
      /\ AddsLast(t) \/ RemovesLast(t)
  BY <1>1, GoesOnAlone DEF CallGoesOn
<1>3. \A s \in Actor : call'[s] = Idle
  BY <1>2 DEF Publish, Ends, Shape, TypeOK
<1>4. \A w \in Worker : phase'[w] = phase[w] \/ w = t
  BY <1>1 DEF Publish, BackIn, TypeOK
<1>5. /\ \A v \in Uri \ {u} : controllers'[v] = controllers[v]
      /\ controllers'[u] = x \/ controllers'[u] = NoWorker
  BY <1>1, <1>2 DEF Publish, AddsLast, RemovesLast, TypeOK
<1>6. \A w \in Worker \ {x} : Agrees(w)'
  <2> SUFFICES ASSUME NEW w \in Worker \ {x} PROVE Agrees(w)'
      OBVIOUS
  <2>1. w \in Registered(controllers)' <=> w \in Registered(controllers)
    BY <1>1, <1>2, <1>5, ManagerAssumption
       DEF AddsLast, Adds, RemovesLast, Removes, Registered
  <2>2. Serving(w)' <=> Serving(w)
    <3>1. CASE w # t
      BY <1>1, <1>4, <3>1 DEF Serving
    <3>2. CASE w = t
      <4>1. stopped[t]
        BY <1>2, <3>2, ManagerAssumption DEF AddsLast, Adds, RemovesLast, Removes
      <4> QED
        BY <1>1, <3>2, <4>1 DEF Serving
    <3> QED
      BY <3>1, <3>2
  <2> QED
    BY <1>2, <2>1, <2>2 DEF Agrees
<1>7. ASSUME NEW w \in Worker, w = x PROVE Agrees(w)'
  <2>1. CASE AddsLast(t)
    <3>1. controllers'[u] = x
      BY <1>1, <2>1 DEF AddsLast, Publish, TypeOK
    <3>2. w \in Registered(controllers)'
      BY <1>1, <1>7, <3>1, ManagerAssumption DEF Registered
    <3>3. Serving(w)'
      BY <1>1, <1>7, <1>4, <2>1, ManagerAssumption
         DEF AddsLast, Adds, Alive, Untouched, Serving
    <3> QED
      BY <3>2, <3>3 DEF Agrees
  <2>2. CASE RemovesLast(t)
    <3>1. controllers'[u] = NoWorker
      BY <1>1, <2>2 DEF RemovesLast, Publish, TypeOK
    <3>2. w \notin Registered(controllers)'
      BY <1>1, <1>7, <3>1, ManagerAssumption DEF TypeOK, Registered
    <3>3. ~Serving(w)'
      BY <1>1, <1>7, <2>2 DEF RemovesLast, Serving
    <3> QED
      BY <3>2, <3>3 DEF Agrees
  <2> QED
    BY <1>2, <2>1, <2>2
<1>8. CallGoesOn(t)'
  BY <1>3 DEF CallGoesOn, Idle
<1> QED
  BY <1>3, <1>6, <1>7, <1>8, InTurnCall

(* Steps that change neither a call nor who serves.                          *)
LEMMA InTurnFrame ==
    ASSUME Shape, InTurn,
           UNCHANGED <<controllers, call, stopped, overlapped>>,
           \A w \in Worker :
              /\ ~stopped[w] => (Alive(w)' <=> Alive(w))
              /\ phase[w] = "new" => phase'[w] = "new"
              /\ w \notin Registered(controllers) /\ Untouched(w) => Untouched(w)'
    PROVE  InTurn'
<1> SUFFICES ASSUME ~overlapped' PROVE InTurn'
    BY DEF InTurn
<1>1. ~overlapped /\ UNCHANGED <<controllers, call, stopped>>
  OBVIOUS
<1>2. OneCall'
  BY <1>1, Zenon DEF InTurn, OneCall
<1>3. AllAgree'
  <2>1. \A w \in Worker : Agrees(w) => Agrees(w)'
    BY <1>1 DEF Agrees, Serving, Alive, Registered
  <2>2. \A w \in Worker : Agrees(w) \/ \E t \in Actor : call[t] # Idle /\ call[t].worker = w
    BY <1>1 DEF InTurn, AllAgree
  <2> QED
    BY <1>1, <2>1, <2>2, Zenon DEF AllAgree
<1>4. ASSUME NEW t \in Actor PROVE CallGoesOn(t)'
  <2>1. CallGoesOn(t)
    BY <1>1 DEF InTurn
  <2>2. call[t].op # "idle" =>
           call[t].worker \in Worker /\ call[t].uri \in Uri /\ uriOf[call[t].worker] = call[t].uri
    BY DEF Shape, CallFits
  <2>3. call[t].op # "idle" /\ Adds(t) => Adds(t)' /\ ~stopped[call[t].worker]
    BY <1>1, <2>2, RegisteredOwner, ManagerAssumption DEF Shape, Adds, Untouched
  <2>4. Removes(t) => Removes(t)'
    BY <1>1 DEF Removes
  <2> QED
    BY <1>1, <2>1, <2>2, <2>3, <2>4 DEF CallGoesOn, AddsLast, RemovesLast
<1> QED
  BY <1>2, <1>3, <1>4 DEF InTurn

LEMMA InTurnSelfRemoval ==
    ASSUME Shape, InTurn, NEW w \in Worker, SelfRemoval(w)
    PROVE  InTurn'
<1> SUFFICES ASSUME ~overlapped' PROVE InTurn'
    BY DEF InTurn
<1>1. /\ w \in Actor /\ uriOf[w] \in Uri
      /\ phase[w] = "working"
      /\ busy[w] \/ ended[w]
      /\ UNCHANGED <<controllers, busy, stopped, ended, toEnd, toFeed, uriOf>>
  BY DEF SelfRemoval, GivesUp, Leaves, Shape, NewbornFits, Actor, manager
<1>2. PICK where \in {"removing", "leaving"} : RemovesItself(w, where)
  BY DEF SelfRemoval, GivesUp, Leaves
<1>3. \A v \in Worker \ {w} : phase'[v] = phase[v]
  BY <1>2 DEF RemovesItself, Shape, TypeOK
<1>4. CASE Lookup(w, uriOf[w]) /\ phase' = [phase EXCEPT ![w] = where]
  <2>1. ~Serving(w)'
    BY <1>1, <1>4 DEF Serving, Shape, TypeOK
  <2> QED
    BY <1>1, <1>3, <1>4, <2>1, InTurnLookup
<1>5. CASE controllers[uriOf[w]] = NoWorker /\ UNCHANGED <<call, overlapped>>
  <2>1. stopped[w]
    <3> SUFFICES ASSUME ~stopped[w] PROVE FALSE
        OBVIOUS
    <3>1. w \notin Registered(controllers)
      BY <1>1, <1>5, RegisteredOwner, ManagerAssumption DEF Shape
    <3>2. ~overlapped /\ ~Agrees(w)
      BY <1>1, <1>5, <3>1 DEF Agrees, Serving
    <3>3. PICK t \in Actor : call[t] # Idle /\ call[t].worker = w
      BY <3>2 DEF InTurn, AllAgree
    <3>4. /\ call[t].op # "idle"
          /\ call[t].uri = uriOf[w]
      BY <3>3 DEF Shape, CallFits
    <3>5. ~Removes(t)
      BY <1>1, <1>5, <3>3, <3>4, ManagerAssumption DEF Removes
    <3>6. ~Adds(t)
      BY <1>1, <3>3 DEF Adds, Untouched
    <3>7. CallGoesOn(t) /\ call[t] \in CallRecord
      BY <3>2, CallIsRecord DEF InTurn, Shape
    <3> QED
      BY <3>4, <3>5, <3>6, <3>7 DEF CallGoesOn, AddsLast, RemovesLast, CallRecord, Op
  <2>2. \A v \in Worker : ~stopped[v] => (Alive(v)' <=> Alive(v))
    BY <1>3, <2>1 DEF Alive
  <2>3. \A v \in Worker : phase[v] = "new" => phase'[v] = "new"
    BY <1>1, <1>3
  <2>4. \A v \in Worker : Untouched(v) => Untouched(v)'
    BY <1>1 DEF Untouched
  <2> QED
    BY <1>1, <1>5, <2>2, <2>3, <2>4, InTurnFrame
<1> QED
  BY <1>2, <1>4, <1>5 DEF RemovesItself

LEMMA InTurnInner == ASSUME Shape, InTurn, Inner PROVE InTurn'
<1>1. UNCHANGED <<controllers, call, stopped, overlapped>>
  BY DEF Inner, Stops, Waits, Wakes, Receives, Delivers, EndOne, Broadcast, BroadcastEnd, DoStop,
         Shutdown, ShutdownCollect, ShutdownExecutor, ShutdownFinished
<1>2. ASSUME NEW v \in Worker
      PROVE  /\ ~stopped[v] => (Alive(v)' <=> Alive(v))
             /\ phase[v] = "new" => phase'[v] = "new"
  BY <1>2 DEF Inner, Stops, Waits, Wakes, Receives, Delivers, EndOne, Broadcast, BroadcastEnd, DoStop,
         Shutdown, ShutdownCollect, ShutdownExecutor, ShutdownFinished, Alive, Shape, TypeOK
<1>3. ASSUME NEW v \in Worker, v \notin Registered(controllers), Untouched(v)
      PROVE  Untouched(v)'
  <2>1. ~busy'[v]
    BY <1>3, ZenonT(40) DEF Inner, Stops, Waits, Wakes, Receives, Delivers, EndOne, Broadcast, BroadcastEnd, DoStop,
         Shutdown, ShutdownCollect, ShutdownExecutor, ShutdownFinished, Untouched, Shape, TypeOK
  <2>2. ~ended'[v]
    <3>1. CASE \E b \in Broadcaster, w \in Worker : EndOne(b, w)
      <4>1. PICK b \in Broadcaster, w \in Worker : EndOne(b, w)
        BY <3>1
      <4>2. w # v
        BY <1>3, <4>1 DEF EndOne, Untouched
      <4>3. ended'[v] = ended[v]
        BY <4>1, <4>2 DEF EndOne, Shape, TypeOK
      <4> QED
        BY <1>3, <4>3 DEF Untouched
    <3>2. CASE UNCHANGED ended
      BY <1>3, <3>2 DEF Untouched
    <3> QED
      BY <3>1, <3>2 DEF Inner, Stops, Waits, Wakes, Receives, Delivers, Broadcast, BroadcastEnd, DoStop,
         Shutdown, ShutdownCollect, ShutdownExecutor, ShutdownFinished
  <2>3. \A b \in Broadcaster : v \notin toEnd'[b]
    BY <1>3 DEF Inner, Stops, Waits, Wakes, Receives, Delivers, EndOne, Broadcast, BroadcastEnd, DoStop,
         Shutdown, ShutdownCollect, ShutdownExecutor, ShutdownFinished, Untouched, Shape, TypeOK,
         manager
  <2>4. ~stopped'[v]
    BY <1>1, <1>3 DEF Untouched
  <2>5. v \notin toFeed'
    BY <1>3 DEF Inner, Stops, Waits, Wakes, Receives, Delivers, EndOne, Broadcast, BroadcastEnd,
         DoStop, Shutdown, ShutdownCollect, ShutdownExecutor, ShutdownFinished, Untouched, Shape,
         TypeOK, manager
  <2> QED
    BY <2>1, <2>2, <2>3, <2>4, <2>5 DEF Untouched
<1> QED
  BY <1>1, <1>2, <1>3, InTurnFrame

LEMMA InTurnNext == ASSUME Shape, InTurn, [Next]_vars PROVE InTurn'
<1>1. CASE UNCHANGED vars
  BY <1>1, InTurnFrame DEF vars, manager, Alive, Untouched
<1>2. ASSUME NEW t \in Client, NEW u \in Uri, RemoveLookup(t, u) PROVE InTurn'
  BY <1>2, InTurnLookup, ManagerAssumption DEF RemoveLookup, Actor
<1> QED
  BY <1>1, <1>2, Cases, InTurnAddCheck, InTurnAddSubmit, InTurnAddCollect, InTurnRemoveStop,
     InTurnRemoveCopy, InTurnPublish, InTurnSelfRemoval, InTurnInner DEF InCall

(* As long as no two calls have overlapped, the map of controllers names     *)
(* exactly the workers that serve their endpoint whenever no call of         *)
(* addController or removeController is in progress.                         *)
THEOREM MapIsOfThoseThatServe == Spec => []RegisteredIffServing
<1>1. Init => Shape /\ InTurn
  BY ShapeInit, InTurnInit
<1>2. Shape /\ InTurn /\ [Next]_vars => (Shape /\ InTurn)'
  BY ShapeNext, InTurnNext
<1>3. Shape /\ InTurn => RegisteredIffServing
  BY Zenon DEF InTurn, AllAgree, Agrees, Quiet, RegisteredIffServing
<1> QED
  BY <1>1, <1>2, <1>3, PTL DEF Spec

=============================================================================
