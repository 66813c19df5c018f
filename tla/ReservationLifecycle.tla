------------------------- MODULE ReservationLifecycle -------------------------
(***************************************************************************)
(* One ReservationImpl of the portal: a chain of callables (made, started,  *)
(* ended or cancelled, finalized), each of which posts its event and        *)
(* schedules the next one, run by the threads of the reservation scheduler; *)
(* the listener that the RS persistence calls when the reservation is       *)
(* cancelled; and touch(), called by SOAP, REST and gateway threads, which  *)
(* puts the finalization off.  The fields nextScheduledEvent and            *)
(* nextScheduledEventFuture are shared without a lock.  The portal may      *)
(* crash and rebuild the reservation from the RS database.                   *)
(*                                                                         *)
(* The clock counts 0, 1, 2, ... and saturates at MaxTime.                   *)
(***************************************************************************)
EXTENDS Naturals, Sequences

CONSTANTS
    Start, End,   (* the interval of the reservation                        *)
    KeepAlive,    (* KEEP_ALIVE_TIME                                        *)
    Toucher,      (* threads that call touch()                               *)
    MaxTime,      (* bound: the clock stops here                             *)
    MaxCalls,     (* bound: effective touch() and cancelReservation calls    *)
    MaxCrashes    (* bound: crashes of the portal                            *)

ASSUME LifecycleAssumption ==
    /\ Start \in Nat /\ End \in Nat /\ KeepAlive \in Nat /\ MaxTime \in Nat
    /\ Start < End /\ End <= MaxTime
    /\ MaxCalls \in Nat /\ MaxCrashes \in Nat

Event == {"Made", "Start", "Cancel", "End", "Finalize"}
NoEvent == "none"
Never == MaxTime + 1

(* No more tasks than these are scheduled between two restarts: made, start, *)
(* end and a finalization, one more finalization for each touch, and one more *)
(* finalization and its cancel for each cancellation.                         *)
MaxTasks == 4 + 2 * MaxCalls

VARIABLES
    now,
    startAgain,   (* what startAsync() does on a service that is not NEW      *)
    service,      (* the ReservationImpl as a service; "down": no portal;     *)
                  (* "built": its row is read, doStart() not yet called;      *)
                  (* "starting": doStart() has not come to notifyStarted()   *)
    next,         (* the class of nextScheduledEvent                         *)
    future,       (* the task of nextScheduledEventFuture, 0 if null          *)
    tasks,        (* everything scheduled since the start of the portal      *)
    cancelled, finalized,   (* the fields, Never if null                     *)
    stored,       (* the row in the RS database                              *)
    listener,     (* control point of onReservationCancelled                 *)
    touching,     (* touching[t]: t has cancelled the future, not yet rescheduled *)
    calls,
    posted,       (* history: the events posted since the start of the portal *)
    over,         (* history: when End or Cancel was first posted since then  *)
    hasty,        (* history: a Cancel was posted before notifyStarted()      *)
    crashes

chain  == <<next, future, tasks>>
fields == <<cancelled, finalized>>
outside == <<listener, touching, calls>>
history == <<posted, over, hasty>>
vars == <<now, startAgain, service, next, future, tasks, cancelled, finalized, stored, listener,
          touching, calls, posted, over, hasty, crashes>>

Init ==
    /\ now = 0
    /\ startAgain \in {"throws", "ignored"}
    /\ service = "built"
    /\ next = NoEvent
    /\ future = 0
    /\ tasks = <<>>
    /\ cancelled = Never
    /\ finalized = Never
    /\ stored = [cancelled |-> Never, finalized |-> Never]
    /\ listener = "idle"
    /\ touching = [t \in Toucher |-> FALSE]
    /\ calls = 0
    /\ posted = <<>>
    /\ over = Never
    /\ hasty = FALSE
    /\ crashes = 0

IsFinalized == finalized <= now
Earlier(a, b) == IF a < b THEN a ELSE b
Later(a, b) == IF a < b THEN b ELSE a

(* A task that is not pending is due no more.                                *)
At(ts, i, point) == [ts EXCEPT ![i].at = point, ![i].due = 0]

(* future.cancel(true) of a task that has not begun; a running one goes on.  *)
CancelFuture(ts) ==
    IF ts[future].at = "pending" THEN At(ts, future, "cancelled") ELSE ts

(* Mutant: nextScheduledEvent keeps its old value.                           *)
ScheduleStale(ts, e, time) ==
    /\ next' = next
    /\ tasks' = Append(ts, [event |-> e, due |-> Earlier(Later(now, time), MaxTime),
                            at |-> "pending"])
    /\ future' = Len(ts) + 1

(* scheduleEvent: the new callable becomes nextScheduledEvent.               *)
Schedule(ts, e, time) ==
    /\ next' = e
    /\ tasks' = Append(ts, [event |-> e, due |-> Earlier(Later(now, time), MaxTime),
                            at |-> "pending"])
    /\ future' = Len(ts) + 1

Post(e) ==
    /\ posted' = Append(posted, e)
    /\ over' = IF e \in {"End", "Cancel"} THEN Earlier(over, now) ELSE over
    /\ hasty' = (hasty \/ (e = "Cancel" /\ service = "starting"))

-----------------------------------------------------------------------------
(* The callables, in the threads of the scheduler                            *)

(* Mutant: the delay is not waited for.                                      *)
BeginsEarly(i, e) ==
    /\ service # "down"
    /\ tasks[i].event = e
    /\ tasks[i].at = "pending"

Begins(i, e) ==
    /\ service # "down"
    /\ tasks[i].event = e
    /\ tasks[i].at = "pending"
    /\ tasks[i].due <= now

Goes(i, point) ==
    /\ tasks' = At(tasks, i, point)
    /\ UNCHANGED <<next, future>>

Checked(i, e) == tasks[i].event = e /\ tasks[i].at = "checked"

(* portalEventBus.post(), and the test on which the next event depends.      *)
PostsAnd(i, e, point) ==
    /\ Checked(i, e)
    /\ Post(e)
    /\ Goes(i, point)
    /\ UNCHANGED <<now, startAgain, service, fields, stored, outside, crashes>>

(* MadeCallable, CancelCallable and EndCallable do nothing once finalized.   *)
Guard(i, e) ==
    /\ e \in {"Made", "Cancel", "End"}
    /\ Begins(i, e)
    /\ Goes(i, IF IsFinalized THEN "done" ELSE "checked")
    /\ UNCHANGED <<now, startAgain, service, fields, stored, outside, history, crashes>>

(* StartCallable starts the reservation, which is running already: in the     *)
(* build of the portal startAsync() throws and the chain ends here.          *)
StartFails(i) ==
    /\ Begins(i, "Start")
    /\ startAgain = "throws" \/ service = "terminated"
    /\ Goes(i, "failed")
    /\ UNCHANGED <<now, startAgain, service, fields, stored, outside, history, crashes>>

(* As the tests drive it, on a reservation where startAsync() succeeds.       *)
StartGuard(i) ==
    /\ Begins(i, "Start")
    /\ startAgain = "ignored" /\ service = "running"
    /\ Goes(i, IF IsFinalized THEN "reschedule" ELSE "checked")
    /\ UNCHANGED <<now, startAgain, service, fields, stored, outside, history, crashes>>

MadePosts(i) == PostsAnd(i, "Made", IF cancelled < Start THEN "cancel" ELSE "start")
StartPosts(i) == PostsAnd(i, "Start", IF cancelled < End THEN "cancel" ELSE "end")
EndPosts(i) == PostsAnd(i, "End", "reschedule")

(* Mutant: the two branches are swapped.                                     *)
CancelPostsSwapped(i) ==
    PostsAnd(i, "Cancel", IF service = "running" THEN "finalize" ELSE "reschedule")

(* isRunning() decides when the reservation is finalized: after the keep-    *)
(* alive time, or now; before notifyStarted() it says FALSE as well.         *)
CancelPosts(i) ==
    PostsAnd(i, "Cancel", IF service = "running" THEN "reschedule" ELSE "finalize")

(* rescheduleFinalization(): cancel what is scheduled, then schedule anew.   *)
Reschedule(i) ==
    /\ tasks[i].at = "reschedule"
    /\ tasks' = At(IF next = "Finalize" THEN CancelFuture(tasks) ELSE tasks, i, "keepalive")
    /\ UNCHANGED <<now, startAgain, service, next, future, fields, stored, outside, history, crashes>>

(* What a callable schedules, and when, after its test.                       *)
Plan == [start     |-> [event |-> "Start", time |-> Start],
         cancel    |-> [event |-> "Cancel", time |-> now],
         end       |-> [event |-> "End", time |-> End],
         finalize  |-> [event |-> "Finalize", time |-> now],
         keepalive |-> [event |-> "Finalize", time |-> now + KeepAlive]]

Schedules(i) ==
    LET point == tasks[i].at
    IN  /\ point \in DOMAIN Plan
        /\ Schedule(At(tasks, i, "done"), Plan[point].event, Plan[point].time)
        /\ UNCHANGED <<now, startAgain, service, fields, stored, outside, history, crashes>>

(* FinalizeCallable: the guard, the finalization, the event and the stop.    *)
FinalizeGuard(i) ==
    /\ Begins(i, "Finalize")
    /\ Goes(i, IF IsFinalized THEN "stopping" ELSE "checked")
    /\ UNCHANGED <<now, startAgain, service, fields, stored, outside, history, crashes>>

Finalize(i) ==
    /\ Checked(i, "Finalize")
    /\ finalized' = now
    /\ stored' = [stored EXCEPT !.finalized = now]
    /\ Goes(i, "finalized")
    /\ UNCHANGED <<now, startAgain, service, cancelled, outside, history, crashes>>

FinalizePosts(i) ==
    /\ tasks[i].at = "finalized"
    /\ Post("Finalize")
    /\ Goes(i, "stopping")
    /\ UNCHANGED <<now, startAgain, service, fields, stored, outside, crashes>>

(* A service that is not running, or not yet, is not stopped.                *)
Stop(i) ==
    /\ tasks[i].at = "stopping"
    /\ service' = IF service = "running" THEN "terminated" ELSE service
    /\ Goes(i, "done")
    /\ UNCHANGED <<now, startAgain, fields, stored, outside, history, crashes>>

-----------------------------------------------------------------------------
(* The RS, the listener and touch()                                          *)

(* The RS cancels a reservation whose end has not passed, and may do so more  *)
(* than once; the listener, if it is added, is called before the next one.   *)
RSCancel ==
    /\ calls < MaxCalls
    /\ now <= End
    /\ listener = "idle"
    /\ calls' = calls + 1
    /\ stored' = [stored EXCEPT !.cancelled = now]
    /\ listener' = IF service \in {"starting", "running"} THEN "called" ELSE listener
    /\ UNCHANGED <<now, startAgain, service, chain, fields, touching, history, crashes>>

(* onReservationCancelled: the field, the test, then the new task.           *)
ListenerSets ==
    /\ listener = "called"
    /\ cancelled' = stored.cancelled
    /\ listener' = "set"
    /\ UNCHANGED <<now, startAgain, service, chain, finalized, stored, touching, calls, history, crashes>>

(* Mutant: the scheduled event is cancelled and nothing put in its place.    *)
ListenerTestsOnly ==
    /\ listener = "set"
    /\ listener' = "idle"
    /\ tasks' = IF next = "End" \/ (cancelled < Start /\ next = "Start")
                THEN CancelFuture(tasks) ELSE tasks
    /\ UNCHANGED <<now, startAgain, service, next, future, fields, stored, touching, calls, history, crashes>>

ListenerTests ==
    /\ listener = "set"
    /\ IF next = "End" \/ (cancelled < Start /\ next = "Start")
       THEN listener' = "cancelling" /\ tasks' = CancelFuture(tasks)
       ELSE listener' = "idle" /\ UNCHANGED tasks
    /\ UNCHANGED <<now, startAgain, service, next, future, fields, stored, touching, calls, history, crashes>>

(* Mutant: the cancelled reservation is ended instead.                       *)
ListenerSchedulesEnd ==
    /\ listener = "cancelling"
    /\ Schedule(tasks, "End", cancelled)
    /\ listener' = "idle"
    /\ UNCHANGED <<now, startAgain, service, fields, stored, touching, calls, history, crashes>>

ListenerSchedules ==
    /\ listener = "cancelling"
    /\ Schedule(tasks, "Cancel", cancelled)
    /\ listener' = "idle"
    /\ UNCHANGED <<now, startAgain, service, fields, stored, touching, calls, history, crashes>>

(* touch() with a finalization scheduled; in any other state it returns      *)
(* FALSE or throws, because a terminated service cannot be started.          *)
TouchCancels(t) ==
    /\ service \in {"running", "terminated"}
    /\ ~touching[t]
    /\ ~(IsFinalized /\ service # "running")
    /\ next = "Finalize"
    /\ calls < MaxCalls
    /\ calls' = calls + 1
    /\ tasks' = CancelFuture(tasks)
    /\ touching' = [touching EXCEPT ![t] = TRUE]
    /\ UNCHANGED <<now, startAgain, service, next, future, fields, stored, listener, history, crashes>>

TouchSchedules(t) ==
    /\ touching[t]
    /\ Schedule(tasks, "Finalize", now + KeepAlive)
    /\ touching' = [touching EXCEPT ![t] = FALSE]
    /\ UNCHANGED <<now, startAgain, service, fields, stored, listener, calls, history, crashes>>

-----------------------------------------------------------------------------
Crash ==
    /\ crashes < MaxCrashes
    /\ service # "down"
    /\ service' = "down"
    /\ next' = NoEvent /\ future' = 0 /\ tasks' = <<>>
    /\ cancelled' = Never /\ finalized' = Never
    /\ listener' = "idle"
    /\ touching' = [t \in Toucher |-> FALSE]
    /\ posted' = <<>> /\ over' = Never /\ hasty' = FALSE
    /\ crashes' = crashes + 1
    /\ UNCHANGED <<now, startAgain, stored, calls>>

(* initializeNonFinalizedReservations reads the row.                         *)
Restart ==
    /\ service = "down"
    /\ stored.finalized = Never
    /\ service' = "built"
    /\ cancelled' = stored.cancelled
    /\ UNCHANGED <<now, startAgain, chain, finalized, stored, outside, history, crashes>>

(* doStart() adds the listener and hands the start runnable, which schedules *)
(* the first callable, to the scheduler; what was cancelled since the row    *)
(* was read is not noticed.                                                  *)
DoStart ==
    /\ service = "built"
    /\ service' = "starting"
    /\ Schedule(<<>>, "Made", now)
    /\ UNCHANGED <<now, startAgain, fields, stored, outside, history, crashes>>

(* The callables may run by the time doStart() comes to its last line.       *)
NotifyStarted ==
    /\ service = "starting"
    /\ service' = "running"
    /\ UNCHANGED <<now, startAgain, chain, fields, stored, outside, history, crashes>>

Tick ==
    /\ now < MaxTime
    /\ now' = now + 1
    /\ UNCHANGED <<startAgain, service, chain, fields, stored, outside, history, crashes>>

Runs(i) ==
    \/ \E e \in Event : Guard(i, e)
    \/ StartFails(i) \/ StartGuard(i)
    \/ MadePosts(i) \/ StartPosts(i) \/ CancelPosts(i) \/ EndPosts(i)
    \/ Reschedule(i) \/ Schedules(i)
    \/ FinalizeGuard(i) \/ Finalize(i) \/ FinalizePosts(i) \/ Stop(i)

Listens == ListenerSets \/ ListenerTests \/ ListenerSchedules

Next ==
    \/ \E i \in 1..Len(tasks) : Runs(i)
    \/ RSCancel \/ Listens
    \/ \E t \in Toucher : TouchCancels(t) \/ TouchSchedules(t)
    \/ Crash \/ Restart \/ DoStart \/ NotifyStarted \/ Tick

Fairness ==
    /\ \A i \in 1..MaxTasks : WF_vars(i <= Len(tasks) /\ Runs(i))
    /\ WF_vars(Listens)
    /\ \A t \in Toucher : WF_vars(TouchSchedules(t))
    /\ WF_vars(Restart) /\ WF_vars(DoStart) /\ WF_vars(NotifyStarted) /\ WF_vars(Tick)

Spec == Init /\ [][Next]_vars
FairSpec == Spec /\ Fairness

-----------------------------------------------------------------------------
Occurs(e) == \E i \in 1..Len(posted) : posted[i] = e
Precedes(d, e) == \A i \in 1..Len(posted) : posted[i] = e => \E j \in 1..(i - 1) : posted[j] = d
Once(e) == \A i, j \in 1..Len(posted) : posted[i] = e /\ posted[j] = e => i = j

TypeOK ==
    /\ now \in 0..MaxTime
    /\ startAgain \in {"throws", "ignored"}
    /\ service \in {"built", "starting", "running", "terminated", "down"}
    /\ next \in Event \cup {NoEvent}
    /\ tasks \in Seq([event : Event, due : 0..MaxTime,
                      at : {"pending", "checked", "reschedule", "finalized", "stopping", "done",
                            "failed", "cancelled"} \cup DOMAIN Plan])
    /\ future \in 0..Len(tasks)
    /\ cancelled \in 0..Never /\ finalized \in 0..Never
    /\ stored \in [cancelled : 0..Never, finalized : 0..Never]
    /\ listener \in {"idle", "called", "set", "cancelling"}
    /\ touching \in [Toucher -> BOOLEAN]
    /\ calls \in 0..MaxCalls
    /\ posted \in Seq(Event)
    /\ over \in 0..Never
    /\ hasty \in BOOLEAN
    /\ Len(tasks) <= MaxTasks
    /\ crashes \in 0..MaxCrashes
    /\ future # 0 => tasks[future].event = next

(* The events of a portal run come in the order of the lifecycle, whatever   *)
(* the listener and touch() do between the steps of a callable: made once    *)
(* and first, started once, ended once and only after it was started.        *)
LifecycleOrder ==
    /\ Once("Made") /\ Once("Start") /\ Once("End")
    /\ Precedes("Made", "Start") /\ Precedes("Made", "Cancel") /\ Precedes("Start", "End")

(* The outputs of a reservation stay available for the keep-alive time: it is *)
(* not finalized before that much time has passed since its end or its        *)
(* cancellation was first published, unless the cancellation was published    *)
(* while doStart() had not come to notifyStarted(): isRunning() was FALSE.    *)
KeepAliveHonoured ==
    service # "down" /\ over # Never /\ stored.finalized # Never /\ ~hasty
        => stored.finalized >= Earlier(over + KeepAlive, MaxTime)

(* A reservation is finalized in the database only when it is over or        *)
(* cancelled, and never without having published so.                         *)
FinalizedForAReason ==
    /\ stored.finalized # Never => stored.finalized >= End \/ stored.cancelled # Never
    /\ Occurs("Finalize") => Occurs("End") \/ Occurs("Cancel")

StartThrew == \E i \in 1..Len(tasks) : tasks[i].at = "failed"

(* Every reservation is finalized in the end, across crashes of the portal,  *)
(* cancellations at any moment and calls of touch(), unless its              *)
(* StartCallable throws.                                                     *)
EventuallyFinalized == <>[](stored.finalized # Never \/ StartThrew)

(* "The reservation isn't finalized yet. Replay all events that should have  *)
(* occurred in the past and schedule future events": unless it is cancelled,  *)
(* a reservation gets started.                                                *)
StartIsPublished == <>(Occurs("Start") \/ stored.cancelled # Never)
=============================================================================
