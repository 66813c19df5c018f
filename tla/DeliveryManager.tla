--------------------------- MODULE DeliveryManager ---------------------------
(***************************************************************************)
(* The DeliveryManagerImpl of one reservation: the map of registered        *)
(* Controller endpoints, shared without a lock by the threads that add and  *)
(* remove controllers (SOAP calls), by the workers that remove themselves,  *)
(* by the broadcast of the end of the reservation and by the shutdown       *)
(* thread.  Each read or write of the shared field controllers is a step of *)
(* its own.  A worker is reduced to its control (DeliveryWorker has its      *)
(* queues): it works, waits for work, gives up after RETRIES failures, or   *)
(* leaves when the reservation has ended.                                    *)
(*                                                                         *)
(* uriOf, gaveUp, told and overlapped are history.                          *)
(***************************************************************************)
EXTENDS Naturals, FiniteSets

CONSTANTS
    Uri,         (* endpoint URLs                                           *)
    Client,      (* threads that call addController and removeController    *)
    Worker,      (* bound: the DeliveryWorkers that can ever be created      *)
    NoUri, NoWorker

ASSUME ManagerAssumption ==
    /\ NoUri \notin Uri
    /\ NoWorker \notin Worker
    /\ Client \cap Worker = {}
    /\ IsFiniteSet(Worker)

Actor == Client \cup Worker
Broadcaster == {"event", "shutdown"}

VARIABLES
    controllers,  (* the map: controllers[u] is a worker or NoWorker         *)
    call,         (* call[t]: the addController or removeController of t      *)
    phase,        (* phase[w]: where the worker thread w is                   *)
    busy,         (* busy[w]: the queues of w are not empty                   *)
    stopped,      (* stopped[w]: stopDelivery of w                            *)
    ended,        (* ended[w]: experimentEnded of w                           *)
    service,      (* the state of the manager as a service                   *)
    executor,     (* the thread pool accepts workers or not                  *)
    shutdown,     (* control point of the shutdown thread                    *)
    toEnd,        (* toEnd[b]: workers b has still to call reservationEnded on *)
    toFeed,       (* workers a broadcast of items has still to call receive on *)
    uriOf, gaveUp, told, overlapped

manager == <<service, executor, shutdown, toEnd, toFeed, told>>
vars == <<controllers, call, phase, busy, stopped, ended, service, executor, shutdown, toEnd,
          toFeed, uriOf, gaveUp, told, overlapped>>

NoEntry == [u \in Uri |-> NoWorker]
Idle == [op |-> "idle", uri |-> NoUri, worker |-> NoWorker, map |-> NoEntry]
Registered(map) == {map[u] : u \in Uri} \ {NoWorker}

(* The manager is started before its WSN endpoint is published: no call is *)
(* made on a manager that has no executor yet.                              *)
Init ==
    /\ controllers = NoEntry
    /\ call = [t \in Actor |-> Idle]
    /\ phase = [w \in Worker |-> "new"]
    /\ busy = [w \in Worker |-> FALSE]
    /\ stopped = [w \in Worker |-> FALSE]
    /\ ended = [w \in Worker |-> FALSE]
    /\ service = "running"
    /\ executor = "open"
    /\ shutdown = "idle"
    /\ toEnd = [b \in Broadcaster |-> {}]
    /\ toFeed = {}
    /\ uriOf = [w \in Worker |-> NoUri]
    /\ gaveUp = [w \in Worker |-> FALSE]
    /\ told = {}
    /\ overlapped = FALSE

Begins(t, c) ==
    /\ call[t] = Idle
    /\ call' = [call EXCEPT ![t] = c]
    /\ overlapped' = (overlapped \/ \E s \in Actor \ {t} : call[s] # Idle)

Goes(t, op) == call' = [call EXCEPT ![t].op = op]
Ends(t) == call' = [call EXCEPT ![t] = Idle]

(* A worker that returns from its own removeController leaves run(), or goes *)
(* on with its loop after it gave up.                                        *)
BackIn(t) ==
    phase' = IF t \in Worker
             THEN [phase EXCEPT ![t] = IF @ = "leaving" THEN "done" ELSE "working"]
             ELSE phase

-----------------------------------------------------------------------------
(* addController(u)                                                          *)

(* Mutant: one worker is shared by the endpoints.                            *)
NewWorkerShared == CHOOSE w \in Worker : TRUE

NewWorker == CHOOSE w \in Worker : uriOf[w] = NoUri

(* containsKey() says that u is not registered; a worker is created.        *)
AddCheck(t, u) ==
    /\ \E w \in Worker : uriOf[w] = NoUri
    /\ controllers[u] = NoWorker
    /\ Begins(t, [Idle EXCEPT !.op = "submit", !.uri = u, !.worker = NewWorker])
    /\ uriOf' = [uriOf EXCEPT ![NewWorker] = u]
    /\ UNCHANGED <<controllers, phase, busy, stopped, ended, manager, gaveUp>>

(* executorService.submit(): rejected with an exception after the shutdown. *)
AddSubmit(t) ==
    /\ call[t].op = "submit"
    /\ IF executor = "open"
       THEN Goes(t, "collect") /\ phase' = [phase EXCEPT ![call[t].worker] = "working"]
       ELSE Ends(t) /\ UNCHANGED phase
    /\ UNCHANGED <<controllers, busy, stopped, ended, manager, uriOf, gaveUp, overlapped>>

(* putAll(controllers).put(): a key that is there twice makes build() fail. *)
AddCollect(t) ==
    /\ call[t].op = "collect"
    /\ IF controllers[call[t].uri] = NoWorker
       THEN call' = [call EXCEPT
                       ![t].op = "publish",
                       ![t].map = [controllers EXCEPT ![call[t].uri] = call[t].worker]]
       ELSE Ends(t)
    /\ UNCHANGED <<controllers, phase, busy, stopped, ended, manager, uriOf, gaveUp, overlapped>>

(* The assignment of the new map, of an addController or a removeController. *)
Publish(t) ==
    /\ call[t].op = "publish"
    /\ controllers' = call[t].map
    /\ Ends(t)
    /\ BackIn(t)
    /\ UNCHANGED <<busy, stopped, ended, manager, uriOf, gaveUp, overlapped>>

-----------------------------------------------------------------------------
(* removeController(u)                                                       *)

Lookup(t, u) ==
    /\ controllers[u] # NoWorker
    /\ Begins(t, [Idle EXCEPT !.op = "stop", !.uri = u, !.worker = controllers[u]])

(* Called by a client; an unknown u changes nothing.                         *)
RemoveLookup(t, u) ==
    /\ Lookup(t, u)
    /\ UNCHANGED <<controllers, phase, busy, stopped, ended, manager, uriOf, gaveUp>>

(* Mutant: the worker is not stopped.                                        *)
RemoveStopForgotten(t) ==
    /\ call[t].op = "stop"
    /\ Goes(t, "copy")
    /\ UNCHANGED <<controllers, phase, busy, stopped, ended, manager, uriOf, gaveUp, overlapped>>

(* deliveryWorker.stopDelivery(): no signal.                                 *)
RemoveStop(t) ==
    /\ call[t].op = "stop"
    /\ stopped' = [stopped EXCEPT ![call[t].worker] = TRUE]
    /\ Goes(t, "copy")
    /\ UNCHANGED <<controllers, phase, busy, ended, manager, uriOf, gaveUp, overlapped>>

(* All entries but the one of u are copied.                                  *)
RemoveCopy(t) ==
    /\ call[t].op = "copy"
    /\ call' = [call EXCEPT ![t].op = "publish",
                            ![t].map = [controllers EXCEPT ![call[t].uri] = NoWorker]]
    /\ UNCHANGED <<controllers, phase, busy, stopped, ended, manager, uriOf, gaveUp, overlapped>>

-----------------------------------------------------------------------------
(* The worker threads                                                        *)

Stops(w) ==
    /\ phase[w] = "working"
    /\ stopped[w]
    /\ phase' = [phase EXCEPT ![w] = "done"]
    /\ UNCHANGED <<controllers, call, busy, stopped, ended, manager, uriOf, gaveUp, overlapped>>

Waits(w) ==
    /\ phase[w] = "working"
    /\ ~stopped[w]
    /\ ~ended[w]
    /\ ~busy[w]
    /\ phase' = [phase EXCEPT ![w] = "waiting"]
    /\ UNCHANGED <<controllers, call, busy, stopped, ended, manager, uriOf, gaveUp, overlapped>>

(* await() returns without a signal.                                         *)
Wakes(w) ==
    /\ phase[w] = "waiting"
    /\ phase' = [phase EXCEPT ![w] = "working"]
    /\ UNCHANGED <<controllers, call, busy, stopped, ended, manager, uriOf, gaveUp, overlapped>>

(* receive() and its siblings: the values of the map are walked through as   *)
(* they were when the walk began; one broadcast is on its way at a time.     *)
Broadcast ==
    /\ service = "running"
    /\ toFeed = {}
    /\ toFeed' = Registered(controllers)
    /\ UNCHANGED <<controllers, call, phase, busy, stopped, ended, service, executor, shutdown,
                   toEnd, told, uriOf, gaveUp, overlapped>>

Receives(w) ==
    /\ w \in toFeed
    /\ phase[w] # "leaving"
    /\ busy' = [busy EXCEPT ![w] = TRUE]
    /\ phase' = [phase EXCEPT ![w] = IF @ = "waiting" THEN "working" ELSE @]
    /\ toFeed' = toFeed \ {w}
    /\ UNCHANGED <<controllers, call, stopped, ended, service, executor, shutdown, toEnd, told,
                   uriOf, gaveUp, overlapped>>

Delivers(w) ==
    /\ phase[w] = "working"
    /\ busy[w]
    /\ busy' = [busy EXCEPT ![w] = FALSE]
    /\ UNCHANGED <<controllers, call, phase, stopped, ended, manager, uriOf, gaveUp, overlapped>>

(* removeController(endpointUri), by URL: the worker that is registered     *)
(* there now is stopped and removed, whichever it is.                        *)
RemovesItself(w, where) ==
    \/ /\ Lookup(w, uriOf[w])
       /\ phase' = [phase EXCEPT ![w] = where]
    \/ /\ controllers[uriOf[w]] = NoWorker
       /\ phase' = [phase EXCEPT ![w] = IF where = "leaving" THEN "done" ELSE "working"]
       /\ UNCHANGED <<call, overlapped>>

(* The last of RETRIES calls in a row has failed.                            *)
GivesUp(w) ==
    /\ phase[w] = "working"
    /\ busy[w]
    /\ gaveUp' = [gaveUp EXCEPT ![w] = TRUE]
    /\ RemovesItself(w, "removing")
    /\ UNCHANGED <<controllers, busy, stopped, ended, manager, uriOf>>

(* Everything is delivered and the reservation has ended.                    *)
Leaves(w) ==
    /\ phase[w] = "working"
    /\ ended[w]
    /\ ~busy[w]
    /\ RemovesItself(w, "leaving")
    /\ UNCHANGED <<controllers, busy, stopped, ended, manager, uriOf, gaveUp>>

-----------------------------------------------------------------------------
(* The end of the reservation and the shutdown of the manager                *)

(* reservationEnded(timestamp): the values of the map are walked through.    *)
BroadcastEnd ==
    /\ service = "running"
    /\ toEnd["event"] = {}
    /\ toEnd' = [toEnd EXCEPT !["event"] = Registered(controllers)]
    /\ UNCHANGED <<controllers, call, phase, busy, stopped, ended, service, executor, shutdown, toFeed,
                   told, uriOf, gaveUp, overlapped>>

(* Mutant: a waiting worker is not signalled.                                *)
EndOneSilently(b, w) ==
    /\ w \in toEnd[b]
    /\ phase[w] # "leaving"
    /\ ended' = [ended EXCEPT ![w] = TRUE]
    /\ toEnd' = [toEnd EXCEPT ![b] = @ \ {w}]
    /\ UNCHANGED <<controllers, call, phase, busy, stopped, service, executor, shutdown, toFeed,
                   told, uriOf, gaveUp, overlapped>>

(* reservationEnded() of one worker; a leaving worker holds its lock.        *)
EndOne(b, w) ==
    /\ w \in toEnd[b]
    /\ phase[w] # "leaving"
    /\ ended' = [ended EXCEPT ![w] = TRUE]
    /\ phase' = [phase EXCEPT ![w] = IF @ = "waiting" THEN "working" ELSE @]
    /\ toEnd' = [toEnd EXCEPT ![b] = @ \ {w}]
    /\ UNCHANGED <<controllers, call, busy, stopped, service, executor, shutdown, toFeed,
                   told, uriOf, gaveUp, overlapped>>

(* doStop(): the broadcast finds the service no longer running and does      *)
(* nothing; the shutdown thread is started and the service has stopped.      *)
DoStop ==
    /\ service = "running"
    /\ service' = "stopped"
    /\ shutdown' = "begin"
    /\ UNCHANGED <<controllers, call, phase, busy, stopped, ended, executor, toEnd, toFeed, told,
                   uriOf, gaveUp, overlapped>>

ShutdownCollect ==
    /\ shutdown = "begin"
    /\ shutdown' = "ending"
    /\ toEnd' = [toEnd EXCEPT !["shutdown"] = Registered(controllers)]
    /\ told' = Registered(controllers)
    /\ UNCHANGED <<controllers, call, phase, busy, stopped, ended, service, executor, toFeed,
                   uriOf, gaveUp, overlapped>>

(* executorService.shutdown(): the running workers go on.                    *)
ShutdownExecutor ==
    /\ shutdown = "ending"
    /\ toEnd["shutdown"] = {}
    /\ executor' = "shutdown"
    /\ shutdown' = "await"
    /\ UNCHANGED <<controllers, call, phase, busy, stopped, ended, service, toEnd, toFeed, told,
                   uriOf, gaveUp, overlapped>>

(* while (!executorService.isTerminated())                                   *)
ShutdownFinished ==
    /\ shutdown = "await"
    /\ \A w \in Worker : phase[w] \in {"new", "done"}
    /\ shutdown' = "finished"
    /\ UNCHANGED <<controllers, call, phase, busy, stopped, ended, service, executor, toEnd, toFeed,
                   told, uriOf, gaveUp, overlapped>>

-----------------------------------------------------------------------------
InCall(t) == AddSubmit(t) \/ AddCollect(t) \/ RemoveStop(t) \/ RemoveCopy(t) \/ Publish(t)
Runs(w) == Stops(w) \/ Waits(w) \/ Delivers(w) \/ GivesUp(w) \/ Leaves(w)
Shutdown == ShutdownCollect \/ ShutdownExecutor \/ ShutdownFinished

Next ==
    \/ \E t \in Client, u \in Uri : AddCheck(t, u) \/ RemoveLookup(t, u)
    \/ \E t \in Actor : InCall(t)
    \/ \E w \in Worker : Runs(w) \/ Wakes(w) \/ Receives(w)
    \/ \E b \in Broadcaster, w \in Worker : EndOne(b, w)
    \/ Broadcast
    \/ BroadcastEnd
    \/ DoStop
    \/ Shutdown

(* Every thread that has something to do is scheduled.                       *)
Fairness ==
    /\ \A t \in Actor : WF_vars(InCall(t))
    /\ \A w \in Worker : WF_vars(Runs(w))
    /\ \A b \in Broadcaster, w \in Worker : WF_vars(EndOne(b, w))
    /\ WF_vars(Shutdown)

Spec == Init /\ [][Next]_vars
FairSpec == Spec /\ Fairness

-----------------------------------------------------------------------------
Op == {"idle", "submit", "collect", "publish", "stop", "copy"}

TypeOK ==
    /\ controllers \in [Uri -> Worker \cup {NoWorker}]
    /\ \A u \in Uri : controllers[u] # NoWorker => uriOf[controllers[u]] = u
    /\ call \in [Actor -> [op : Op, uri : Uri \cup {NoUri}, worker : Worker \cup {NoWorker},
                           map : [Uri -> Worker \cup {NoWorker}]]]
    /\ phase \in [Worker -> {"new", "working", "waiting", "removing", "leaving", "done"}]
    /\ busy \in [Worker -> BOOLEAN]
    /\ stopped \in [Worker -> BOOLEAN]
    /\ ended \in [Worker -> BOOLEAN]
    /\ service \in {"running", "stopped"}
    /\ executor \in {"open", "shutdown"}
    /\ shutdown \in {"idle", "begin", "ending", "await", "finished"}
    /\ toEnd \in [Broadcaster -> SUBSET Worker]
    /\ toFeed \subseteq Worker
    /\ uriOf \in [Worker -> Uri \cup {NoUri}]
    /\ gaveUp \in [Worker -> BOOLEAN]
    /\ told \subseteq Worker
    /\ overlapped \in BOOLEAN

Serving(w) == phase[w] \in {"working", "waiting"} /\ ~stopped[w]
Quiet == \A t \in Actor : call[t] = Idle

(* As long as no two calls have overlapped, the map names exactly the        *)
(* workers that serve their endpoint whenever no call is in progress.        *)
RegisteredIffServing ==
    ~overlapped /\ Quiet => \A w \in Worker : Serving(w) <=> w \in Registered(controllers)

(* The shutdown thread comes to its end, unless calls have overlapped, or a  *)
(* worker waits that was removed without a signal, or one that was added     *)
(* too late to be told that the reservation ended.                           *)
ShutdownCompletes ==
    shutdown = "await" ~>
        \/ shutdown = "finished"
        \/ overlapped
        \/ \E w \in Worker : phase[w] = "waiting" /\ (stopped[w] \/ w \notin told)

(* "If the delivery to a recipient is repeatedly impossible, the recipient   *)
(* is removed": a worker is stopped only by a client or by itself.           *)
StoppedForAReason ==
    [][\A w \in Worker :
         stopped'[w] # stopped[w] =>
            \E t \in Client \cup {w} : call[t].op = "stop" /\ call[t].worker = w]_vars

(* "removeController(endpointUri); // will also call stopDelivery()": a       *)
(* worker that gave up never goes on.                                        *)
GivesUpForGood ==
    \A w \in Worker : gaveUp[w] /\ phase[w] = "working" => stopped[w]
=============================================================================
