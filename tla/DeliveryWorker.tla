--------------------------- MODULE DeliveryWorker ---------------------------
(***************************************************************************)
(* One DeliveryWorker: the thread that feeds one Controller endpoint from  *)
(* five queues, and the threads of the manager that fill the queues, end   *)
(* the reservation or stop the worker.                                      *)
(*                                                                         *)
(* Every critical section of the worker's lock is one action.  The one      *)
(* section that spans a remote call (reservationEnded on the endpoint, made *)
(* with the lock held) is pc = "ending"; the actions that need the lock are *)
(* disabled there.  Items of a kind are numbered in the order in which the *)
(* queue accepts them; accepted, acked, received, dropped, reported,        *)
(* failStreak, spared and told are history: no guard of a code step reads   *)
(* them.  The two counters of failures are only compared with RETRIES and   *)
(* stay at the first value beyond it (errors at Retries, failStreak at      *)
(* Retries + 1).                                                             *)
(***************************************************************************)
EXTENDS Naturals, Sequences

CONSTANTS
    BatchSize,   (* MAXIMUM_..._LIST_SIZE: items delivered in one call       *)
    MaxQueue,    (* maximumDeliveryQueueSize: bound of the message queue     *)
    Retries,     (* DeliveryManagerConstants.RETRIES                         *)
    ListSize,    (* bound: longest list handed to the worker in one call     *)
    Limit        (* bound: Limit[k] items of kind k are ever handed over     *)

(* The queues, in the order in which the worker serves them.               *)
Priority == [notification |-> 1, status |-> 2, attached |-> 3, detached |-> 4, message |-> 5]
Kind == {"notification", "status", "attached", "detached", "message"}
Before(j, k) == Priority[j] < Priority[k]

ASSUME WorkerAssumption ==
    /\ BatchSize \in Nat \ {0}
    /\ MaxQueue \in Nat \ {0}
    /\ Retries \in Nat \ {0}
    /\ ListSize \in Nat \ {0}
    /\ Limit \in [Kind -> Nat]

(* nodesAttached and nodesDetached events are delivered one by one.        *)
BatchOf(k) == IF k \in {"attached", "detached"} THEN 1 ELSE BatchSize
CallSize(k) == IF k \in {"attached", "detached"} THEN 1 ELSE ListSize

NoKind == "none"

VARIABLES
    pc,              (* control point of the worker's run()                *)
    queue,           (* queue[k]: the deque of kind k                      *)
    current,         (* the kind of the batch in the worker's hands        *)
    batch,           (* the items polled and handed to the endpoint        *)
    seen,            (* non-empty queues at the last locked look           *)
    errors,          (* subsequentDeliveryErrors                           *)
    stopDelivery,
    registered,      (* the map of controllers has this worker at its URL   *)
    experimentEnded,
    endCall,         (* a caller is inside reservationEnded, before signal *)
    droppedSince,    (* messagesDroppedSinceLastNotification               *)
    accepted, acked, received, dropped, reported, failStreak, spared, told

ended   == <<experimentEnded, endCall>>
drops   == <<droppedSince, dropped, reported>>
registry == <<registered, spared>>
vars == <<pc, queue, current, batch, seen, errors, stopDelivery, registered, experimentEnded,
          endCall, droppedSince, accepted, acked, received, dropped, reported, failStreak,
          spared, told>>

(* The worker is submitted before it is entered in the map, but nothing is   *)
(* handed to it earlier: its queues are empty until it is registered.        *)
Init ==
    /\ pc = "loop"
    /\ queue = [k \in Kind |-> <<>>]
    /\ current = NoKind
    /\ batch = <<>>
    /\ seen = {}
    /\ errors = 0
    /\ stopDelivery = FALSE
    /\ registered = TRUE
    /\ experimentEnded = FALSE
    /\ endCall = FALSE
    /\ droppedSince = 0
    /\ accepted = [k \in Kind |-> 0]
    /\ acked = [k \in Kind |-> 0]
    /\ received = [k \in Kind |-> 0]
    /\ dropped = 0
    /\ reported = 0
    /\ failStreak = 0
    /\ spared = FALSE
    /\ told = FALSE

Smaller(a, b) == IF a < b THEN a ELSE b
Larger(a, b)  == IF a > b THEN a ELSE b

NonEmpty == {k \in Kind : queue[k] # <<>>}
LockFree == pc # "ending"

(* removeController(endpointUri), called by the worker itself: an entry that  *)
(* is there is stopped and removed; without one the call returns.            *)
RemovesItself ==
    /\ stopDelivery' = (stopDelivery \/ registered)
    /\ registered' = FALSE

(* workAvailable.signalAll(): a waiting worker returns from await.         *)
Signal == pc' = IF pc = "waiting" THEN "loop" ELSE pc

-----------------------------------------------------------------------------
(* The worker thread                                                        *)

(* while (!stopDelivery)                                                    *)
LoopTest ==
    /\ pc = "loop"
    /\ pc' = IF stopDelivery THEN "done" ELSE "check"
    /\ UNCHANGED <<queue, current, batch, seen, errors, stopDelivery, registry, ended, drops,
                   accepted, acked, received, failStreak, told>>

(* Mutant: the queues are not looked at before the end of the reservation.  *)
CheckEndedEarly ==
    /\ pc = "check"
    /\ pc' = IF experimentEnded THEN "ending" ELSE "scan"
    /\ seen' = NonEmpty
    /\ UNCHANGED <<queue, current, batch, errors, stopDelivery, registry, ended, drops,
                   accepted, acked, received, failStreak, told>>

(* The first critical section: either everything is delivered and the      *)
(* reservation has ended, or the worker goes on with what it saw.          *)
CheckEnded ==
    /\ pc = "check"
    /\ pc' = IF experimentEnded /\ NonEmpty = {} THEN "ending" ELSE "scan"
    /\ seen' = NonEmpty
    /\ UNCHANGED <<queue, current, batch, errors, stopDelivery, registry, ended, drops,
                   accepted, acked, received, failStreak, told>>

(* endpoint.reservationEnded() under the lock, its exceptions swallowed,    *)
(* then removeController() and return.                                      *)
TellEnded ==
    /\ pc = "ending"
    /\ told' \in {told, TRUE}
    /\ RemovesItself
    /\ pc' = "done"
    /\ UNCHANGED <<queue, current, batch, seen, errors, spared, ended, drops,
                   accepted, acked, received, failStreak>>

(* The isEmpty() tests run without the lock: a queue filled since the last *)
(* critical section may or may not be noticed, one seen non-empty is.       *)
(* The batch is then polled from the chosen queue in one critical section. *)
Take(k) ==
    /\ pc = "scan"
    /\ queue[k] # <<>>
    /\ \A j \in seen : ~Before(j, k)
    /\ LET n == Smaller(BatchOf(k), Len(queue[k]))
       IN /\ batch' = SubSeq(queue[k], 1, n)
          /\ queue' = [queue EXCEPT ![k] = SubSeq(@, n + 1, Len(@))]
    /\ current' = k
    /\ seen' = {}
    /\ pc' = "call"
    /\ UNCHANGED <<errors, stopDelivery, registry, ended, drops,
                   accepted, acked, received, failStreak, told>>

(* All five queues look empty: deliverySuccessful stays true.               *)
NothingToDo ==
    /\ pc = "scan"
    /\ seen = {}
    /\ errors' = 0
    /\ pc' = "settle"
    /\ UNCHANGED <<queue, current, batch, seen, stopDelivery, registry, ended, drops,
                   accepted, acked, received, failStreak, told>>

(* The endpoint has processed the whole batch.                              *)
Processed == received' = [received EXCEPT ![current] = Larger(@, batch[Len(batch)])]

(* Mutant: the batch is not discarded after it was delivered.               *)
CallReturnsTwice ==
    /\ pc = "call"
    /\ Processed
    /\ acked' = [acked EXCEPT ![current] = @ + Len(batch)]
    /\ current' = NoKind
    /\ errors' = 0
    /\ failStreak' = 0
    /\ spared' = FALSE
    /\ pc' = "settle"
    /\ UNCHANGED <<queue, batch, seen, stopDelivery, registered, ended, drops, accepted, told>>

(* Mutant: a success does not reset subsequentDeliveryErrors.               *)
CallReturnsNoReset ==
    /\ pc = "call"
    /\ Processed
    /\ acked' = [acked EXCEPT ![current] = @ + Len(batch)]
    /\ batch' = <<>>
    /\ current' = NoKind
    /\ failStreak' = 0
    /\ spared' = FALSE
    /\ pc' = "settle"
    /\ UNCHANGED <<queue, errors, seen, stopDelivery, registered, ended, drops, accepted, told>>

(* The remote call returns normally.                                        *)
CallReturns ==
    /\ pc = "call"
    /\ Processed
    /\ acked' = [acked EXCEPT ![current] = @ + Len(batch)]
    /\ batch' = <<>>
    /\ current' = NoKind
    /\ errors' = 0
    /\ failStreak' = 0
    /\ spared' = FALSE
    /\ pc' = "settle"
    /\ UNCHANGED <<queue, seen, stopDelivery, registered, ended, drops, accepted, told>>

(* Mutant: the exception is swallowed and the batch counts as delivered.    *)
CallThrowsSwallowed ==
    /\ pc = "call"
    /\ Processed \/ UNCHANGED received
    /\ acked' = [acked EXCEPT ![current] = @ + Len(batch)]
    /\ batch' = <<>>
    /\ current' = NoKind
    /\ pc' = "settle"
    /\ UNCHANGED <<queue, seen, errors, stopDelivery, registry, ended, drops, accepted, failStreak, told>>

(* The remote call throws, before or after the endpoint has processed it.  *)
CallThrows ==
    /\ pc = "call"
    /\ Processed \/ UNCHANGED received
    /\ failStreak' = Smaller(failStreak + 1, Retries + 1)
    /\ pc' = "failed"
    /\ UNCHANGED <<queue, current, batch, seen, errors, stopDelivery, registry, ended, drops,
                   accepted, acked, told>>

(* Mutant: the failed batch is appended behind the items accepted later.    *)
PutBackAtTail ==
    /\ pc = "failed"
    /\ queue' = [queue EXCEPT ![current] = @ \o batch]
    /\ batch' = <<>>
    /\ current' = NoKind
    /\ errors' = Smaller(errors + 1, Retries)
    /\ spared' = (spared \/ (errors + 1 >= Retries /\ ~registered))
    /\ IF errors + 1 >= Retries THEN RemovesItself ELSE UNCHANGED <<stopDelivery, registered>>
    /\ pc' = "settle"
    /\ UNCHANGED <<seen, ended, drops, accepted, acked, received, failStreak, told>>

(* Mutant: the errors are compared before they are counted.                 *)
PutBackOneMore ==
    /\ pc = "failed"
    /\ queue' = [queue EXCEPT ![current] = batch \o @]
    /\ batch' = <<>>
    /\ current' = NoKind
    /\ errors' = Smaller(errors + 1, Retries)
    /\ spared' = (spared \/ (errors >= Retries /\ ~registered))
    /\ IF errors >= Retries THEN RemovesItself ELSE UNCHANGED <<stopDelivery, registered>>
    /\ pc' = "settle"
    /\ UNCHANGED <<seen, ended, drops, accepted, acked, received, failStreak, told>>

(* The batch goes back to the head of its queue, last item first; then the *)
(* worker sleeps before the next try or asks for the removal of its         *)
(* endpoint, and goes on with its loop if that did not stop it.             *)
PutBack ==
    /\ pc = "failed"
    /\ queue' = [queue EXCEPT ![current] = batch \o @]
    /\ batch' = <<>>
    /\ current' = NoKind
    /\ errors' = Smaller(errors + 1, Retries)
    /\ spared' = (spared \/ (errors + 1 >= Retries /\ ~registered))
    /\ IF errors + 1 >= Retries THEN RemovesItself ELSE UNCHANGED <<stopDelivery, registered>>
    /\ pc' = "settle"
    /\ UNCHANGED <<seen, ended, drops, accepted, acked, received, failStreak, told>>

(* Mutant: the worker waits without looking at the queues again.            *)
SettleBlind ==
    /\ pc = "settle"
    /\ pc' = IF ~experimentEnded /\ ~stopDelivery THEN "waiting" ELSE "loop"
    /\ UNCHANGED <<queue, current, batch, seen, errors, stopDelivery, registry, ended, drops,
                   accepted, acked, received, failStreak, told>>

(* The last critical section of the loop: wait for work or go on.          *)
Settle ==
    /\ pc = "settle"
    /\ pc' = IF ~experimentEnded /\ ~stopDelivery /\ NonEmpty = {}
             THEN "waiting" ELSE "loop"
    /\ UNCHANGED <<queue, current, batch, seen, errors, stopDelivery, registry, ended, drops,
                   accepted, acked, received, failStreak, told>>

(* Condition.await() may return without a signal.                          *)
SpuriousWakeup ==
    /\ pc = "waiting"
    /\ pc' = "loop"
    /\ UNCHANGED <<queue, current, batch, seen, errors, stopDelivery, registry, ended, drops,
                   accepted, acked, received, failStreak, told>>

Work ==
    \/ LoopTest
    \/ CheckEnded
    \/ TellEnded
    \/ \E k \in Kind : Take(k)
    \/ NothingToDo
    \/ CallReturns
    \/ CallThrows
    \/ PutBack
    \/ Settle

-----------------------------------------------------------------------------
(* The threads of the manager                                               *)

Numbered(k, n) == [i \in 1..n |-> accepted[k] + i]

(* Mutant: the items are queued without a signal.                           *)
EnqueueSilently(k, n) ==
    /\ k # "message"
    /\ n <= CallSize(k)
    /\ LockFree
    /\ accepted[k] + n <= Limit[k]
    /\ queue' = [queue EXCEPT ![k] = @ \o Numbered(k, n)]
    /\ accepted' = [accepted EXCEPT ![k] = @ + n]
    /\ UNCHANGED <<pc, current, batch, seen, errors, stopDelivery, registry, ended, drops,
                   acked, received, failStreak, told>>

(* receiveStatus, receiveNotification, nodesAttached, nodesDetached.        *)
Enqueue(k, n) ==
    /\ k # "message"
    /\ n <= CallSize(k)
    /\ LockFree
    /\ accepted[k] + n <= Limit[k]
    /\ queue' = [queue EXCEPT ![k] = @ \o Numbered(k, n)]
    /\ accepted' = [accepted EXCEPT ![k] = @ + n]
    /\ Signal
    /\ UNCHANGED <<current, batch, seen, errors, stopDelivery, registry, ended, drops,
                   acked, received, failStreak, told>>

(* Mutant: the fill of the queue is ignored.                                *)
RoomUnlimited == MaxQueue

(* receive(messages): what fits is queued, the rest is dropped.             *)
Room == IF Len(queue["message"]) < MaxQueue THEN MaxQueue - Len(queue["message"]) ELSE 0

ReceiveAll(n) ==
    /\ LockFree
    /\ accepted["message"] + dropped + n <= Limit["message"]
    /\ n <= Room
    /\ queue' = [queue EXCEPT !["message"] = @ \o Numbered("message", n)]
    /\ accepted' = [accepted EXCEPT !["message"] = @ + n]
    /\ Signal
    /\ UNCHANGED <<current, batch, seen, errors, stopDelivery, registry, ended, drops,
                   acked, received, failStreak, told>>

(* Mutant: the counter is not reset when the drops are reported.            *)
ReceiveSomeNoReset(n, notify) ==
    /\ LockFree
    /\ accepted["message"] + dropped + n <= Limit["message"]
    /\ n > Room
    /\ LET lost == n - Room
           noticed == IF notify THEN 1 ELSE 0
       IN /\ queue' = [queue EXCEPT !["message"] = @ \o Numbered("message", Room),
                                    !["notification"] = @ \o Numbered("notification", noticed)]
          /\ accepted' = [accepted EXCEPT !["message"] = @ + Room,
                                          !["notification"] = @ + noticed]
          /\ dropped' = dropped + lost
          /\ droppedSince' = droppedSince + lost
          /\ reported' = IF notify THEN reported + droppedSince + lost ELSE reported
    /\ Signal
    /\ UNCHANGED <<current, batch, seen, errors, stopDelivery, registry, ended,
                   acked, received, failStreak, told>>

(* A list that does not fit: the drop is counted and, if the last           *)
(* notification is old enough (notify), reported in a new notification.     *)
ReceiveSome(n, notify) ==
    /\ LockFree
    /\ accepted["message"] + dropped + n <= Limit["message"]
    /\ n > Room
    /\ LET lost == n - Room
           noticed == IF notify THEN 1 ELSE 0
       IN /\ queue' = [queue EXCEPT !["message"] = @ \o Numbered("message", Room),
                                    !["notification"] = @ \o Numbered("notification", noticed)]
          /\ accepted' = [accepted EXCEPT !["message"] = @ + Room,
                                          !["notification"] = @ + noticed]
          /\ dropped' = dropped + lost
          /\ droppedSince' = IF notify THEN 0 ELSE droppedSince + lost
          /\ reported' = IF notify THEN reported + droppedSince + lost ELSE reported
    /\ Signal
    /\ UNCHANGED <<current, batch, seen, errors, stopDelivery, registry, ended,
                   acked, received, failStreak, told>>

(* reservationEnded sets the flag without the lock and signals under it.   *)
BeginEnd ==
    /\ ~endCall
    /\ experimentEnded' = TRUE
    /\ endCall' = TRUE
    /\ UNCHANGED <<pc, queue, current, batch, seen, errors, stopDelivery, registry, drops,
                   accepted, acked, received, failStreak, told>>

(* Mutant: the end of the reservation is not signalled.                     *)
FinishEndSilently ==
    /\ endCall
    /\ LockFree
    /\ endCall' = FALSE
    /\ UNCHANGED <<pc, queue, current, batch, seen, errors, stopDelivery, registry, experimentEnded, drops,
                   accepted, acked, received, failStreak, told>>

FinishEnd ==
    /\ endCall
    /\ LockFree
    /\ endCall' = FALSE
    /\ Signal
    /\ UNCHANGED <<queue, current, batch, seen, errors, stopDelivery, registry, experimentEnded, drops,
                   accepted, acked, received, failStreak, told>>

(* removeController by a client of the manager: stopDelivery, no signal.    *)
StopDelivery ==
    /\ ~stopDelivery
    /\ stopDelivery' = TRUE
    /\ registered' = FALSE
    /\ UNCHANGED <<pc, queue, current, batch, seen, errors, spared, ended, drops,
                   accepted, acked, received, failStreak, told>>

(* Another thread assigns the map of controllers, which no lock protects,   *)
(* and drops the worker's entry from it or writes it back.  Of no           *)
(* consequence once the worker is stopped.                                  *)
Remap ==
    /\ ~stopDelivery
    /\ registered' = ~registered
    /\ UNCHANGED <<pc, queue, current, batch, seen, errors, stopDelivery, spared, ended, drops,
                   accepted, acked, received, failStreak, told>>

Manager ==
    \/ \E k \in Kind, n \in 1..ListSize : Enqueue(k, n)
    \/ \E n \in 1..ListSize : ReceiveAll(n)
    \/ \E n \in 1..ListSize, notify \in BOOLEAN : ReceiveSome(n, notify)
    \/ BeginEnd
    \/ FinishEnd
    \/ StopDelivery
    \/ Remap

Next == Work \/ SpuriousWakeup \/ Manager

(* The worker thread is scheduled, calls to the endpoint return or throw,  *)
(* and a thread inside reservationEnded gets the lock.                      *)
Fairness == WF_vars(Work) /\ WF_vars(FinishEnd)

Spec == Init /\ [][Next]_vars
FairSpec == Spec /\ Fairness

-----------------------------------------------------------------------------
(* Properties                                                               *)

Control == {"loop", "check", "scan", "call", "failed", "settle", "waiting", "ending", "done"}

(* The types of the worker's fields and of the history; a batch is in the   *)
(* worker's hands exactly between polling it and the end of the call.       *)
TypeOK ==
    /\ pc \in Control
    /\ queue \in [Kind -> Seq(Nat)]
    /\ current \in Kind \cup {NoKind}
    /\ batch \in Seq(Nat)
    /\ seen \subseteq Kind
    /\ errors \in Nat
    /\ stopDelivery \in BOOLEAN
    /\ registered \in BOOLEAN
    /\ spared \in BOOLEAN
    /\ experimentEnded \in BOOLEAN
    /\ endCall \in BOOLEAN
    /\ droppedSince \in Nat
    /\ accepted \in [Kind -> Nat]
    /\ acked \in [Kind -> Nat]
    /\ received \in [Kind -> Nat]
    /\ dropped \in Nat
    /\ reported \in Nat
    /\ failStreak \in Nat
    /\ told \in BOOLEAN
    /\ pc \in {"call", "failed"} <=> current # NoKind
    /\ current = NoKind <=> batch = <<>>

InFlight(k) == IF current = k THEN batch ELSE <<>>
Pending(k) == InFlight(k) \o queue[k]

(* No item is lost, duplicated or overtaken between the queue and the        *)
(* worker's hands, whatever fails and is put back: what is pending is        *)
(* exactly the items accepted after the last acknowledged one, in order.    *)
FifoLedger ==
    \A k \in Kind :
        /\ acked[k] + Len(Pending(k)) = accepted[k]
        /\ \A i \in 1..Len(Pending(k)) : Pending(k)[i] = acked[k] + i

(* The endpoint has processed everything that was acknowledged and nothing   *)
(* that was not accepted: the retries give at-least-once delivery.          *)
AtLeastOnce ==
    \A k \in Kind : acked[k] <= received[k] /\ received[k] <= accepted[k]

(* Putting a failed batch back may push the message queue over its maximum,  *)
(* because receive() refilled it meanwhile, but by one batch at most.       *)
QueueBound == Len(Pending("message")) <= MaxQueue + BatchSize

(* A worker never waits while there is something for it to do, except for a  *)
(* reservationEnded() call that has not come to its signal yet.             *)
NoLostWakeup ==
    pc = "waiting" => NonEmpty = {} /\ (experimentEnded => endCall)

(* Every dropped message is counted in exactly one notification, or is       *)
(* still waiting to be counted.                                              *)
DropsAccounted == dropped = reported + droppedSince

(* An endpoint that fails RETRIES times in a row is not called again, unless *)
(* the removal that the worker asked for did not find it in the map: then   *)
(* removeController() returns without stopping it, and it calls on.         *)
RetriesBound == failStreak > Retries => spared

(* The worker stops on its own only after RETRIES consecutive failures, or    *)
(* when the reservation has ended and nothing is pending any more.          *)
GivesUpLate ==
    [][(stopDelivery' # stopDelivery /\ pc # pc')
         => \/ failStreak >= Retries
            \/ experimentEnded /\ \A k \in Kind : acked[k] = accepted[k]]_vars

(* The worker implements the FIFO channel of its contract.                   *)
Channel == INSTANCE DeliveryChannel WITH
    pending <- [k \in Kind |-> Pending(k)],
    closed <- pc = "done"

ImplementsChannel == Channel!Spec

(* Every accepted item is delivered, unless the worker has ended or is        *)
(* stopped, or its endpoint fails on and its removal did not find it.        *)
Delivered ==
    \A k \in Kind : \A i \in 1..Limit[k] :
        (accepted[k] >= i) ~> (acked[k] >= i \/ stopDelivery \/ pc = "done" \/ spared)

(* After reservationEnded() the worker comes to its end ("will eventually    *)
(* stop himself when all messages have been delivered"), provided nobody     *)
(* removes the endpoint under it and the endpoint does not fail for ever      *)
(* while its removal misses it.                                              *)
EndsAfterReservation == experimentEnded ~> (pc = "done" \/ stopDelivery \/ spared)

(* The comment on stopDelivery(): "Signals the worker to stop delivery. The  *)
(* worker will eventually stop some time afterwards."                        *)
StopsEventually == stopDelivery ~> (pc = "done")
=============================================================================
