---------------------- MODULE ReservationLifecycleProofs ----------------------
(***************************************************************************)
(* Proofs about ReservationLifecycle, for every interval, keep-alive time,    *)
(* set of touching threads and bound: its types, the order of the events, and *)
(* when and why a reservation is finalized.                                   *)
(*                                                                         *)
(* The invariant has a part for each of these questions.  Chain says which    *)
(* tasks there are at all and how far the older ones are, PostedInOrder what   *)
(* has been posted when a task is at a point, Reasons what must have happened  *)
(* before, Waited how late it is, and Counted how many tasks can still come.   *)
(***************************************************************************)
EXTENDS ReservationLifecycle, FiniteSets, FiniteSetTheorems, TLAPS

Point == {"pending", "checked", "reschedule", "finalized", "stopping", "done", "failed",
          "cancelled", "start", "cancel", "end", "finalize", "keepalive"}
Task == [event : Event, due : 0..MaxTime, at : Point]
Tasks == 1..Len(tasks)

Typed ==
    /\ now \in 0..MaxTime
    /\ startAgain \in {"throws", "ignored"}
    /\ service \in {"built", "starting", "running", "terminated", "down"}
    /\ next \in Event \cup {NoEvent}
    /\ tasks \in Seq(Task)
    /\ future \in 0..Len(tasks)
    /\ cancelled \in 0..Never /\ finalized \in 0..Never
    /\ stored \in [cancelled : 0..Never, finalized : 0..Never]
    /\ listener \in {"idle", "called", "set", "cancelling"}
    /\ touching \in [Toucher -> BOOLEAN]
    /\ calls \in 0..MaxCalls
    /\ posted \in Seq(Event)
    /\ over \in 0..Never
    /\ hasty \in BOOLEAN
    /\ crashes \in 0..MaxCrashes
    /\ future = 0 => next = NoEvent
    /\ future # 0 => tasks[future].event = next

Fits(i) ==
    /\ tasks[i].event = "Made" =>
          tasks[i].at \in {"pending", "checked", "cancel", "start", "done"}
    /\ tasks[i].event = "Start" =>
          tasks[i].at \in {"pending", "checked", "cancel", "end", "reschedule", "keepalive",
                           "failed", "cancelled", "done"}
    /\ tasks[i].event = "End" =>
          tasks[i].at \in {"pending", "checked", "reschedule", "keepalive", "cancelled", "done"}
    /\ tasks[i].event = "Cancel" =>
          tasks[i].at \in {"pending", "checked", "reschedule", "finalize", "keepalive", "done"}
    /\ tasks[i].event = "Finalize" =>
          tasks[i].at \in {"pending", "checked", "finalized", "stopping", "cancelled", "done"}

Fresh ==
    /\ service \in {"built", "down"} =>
          /\ tasks = <<>> /\ posted = <<>>
          /\ over = Never /\ finalized = Never
          /\ next = NoEvent
          /\ listener = "idle"
          /\ \A t \in Toucher : ~touching[t]
    /\ service \in {"starting", "running", "terminated"} => tasks # <<>>

Before(i) == tasks[i].at \in {"pending", "checked"}

Chain ==
    /\ \A i \in Tasks : Fits(i)
    /\ \A i \in Tasks : tasks[i].event = "Made" <=> i = 1
    /\ \A i, j \in Tasks :
          /\ tasks[i].event = "Start" /\ tasks[j].event = "Start" => i = j
          /\ tasks[i].event = "End" /\ tasks[j].event = "End" => i = j
          /\ tasks[i].event = "End" /\ tasks[j].event = "Start" => tasks[j].at = "done"
          /\ tasks[i].event \in {"Start", "End"} /\ tasks[j].event = "Made" => tasks[j].at = "done"

PostedInOrder ==
    /\ \A i \in Tasks :
          /\ tasks[i].event = "Made" /\ Before(i) => ~Occurs("Made")
          /\ tasks[i].event = "Made" /\ tasks[i].at # "done" => ~Occurs("Start") /\ ~Occurs("End")
          /\ tasks[i].event = "Start" /\ Before(i) => ~Occurs("Start")
          /\ tasks[i].event = "Start" /\ tasks[i].at # "done" => ~Occurs("End")
          /\ tasks[i].event = "End" /\ Before(i) => ~Occurs("End")
          /\ tasks[i].event # "Made" \/ tasks[i].at \in {"cancel", "start"} => Occurs("Made")
          /\ tasks[i].event = "End" \/ tasks[i].at = "end" => Occurs("Start")
    /\ listener = "cancelling" => Occurs("Made")
    /\ (\E t \in Toucher : touching[t]) => Occurs("Made")

IsOver == Occurs("End") \/ Occurs("Cancel")

ReasonOf(i) ==
    /\ tasks[i].event = "Finalize" \/ tasks[i].at \in {"reschedule", "keepalive", "finalize"}
          => IsOver
    /\ tasks[i].event = "Cancel" \/ tasks[i].at = "cancel" => stored.cancelled # Never
    /\ tasks[i].event = "End" /\ tasks[i].at = "pending" => tasks[i].due >= End
    /\ tasks[i].event = "End" /\ tasks[i].at \notin {"pending", "cancelled"} => now >= End

Causes ==
    /\ finalized # Never => IsOver
    /\ (\E t \in Toucher : touching[t]) => IsOver
    /\ Occurs("End") => now >= End
    /\ Occurs("Cancel") => stored.cancelled # Never
    /\ cancelled # Never \/ listener # "idle" => stored.cancelled # Never
    /\ stored.finalized # Never => stored.finalized >= End \/ stored.cancelled # Never
    /\ Occurs("Finalize") => IsOver

Reasons == Causes /\ \A i \in Tasks : ReasonOf(i)

Deadline == Earlier(over + KeepAlive, MaxTime)

WaitOf(i) ==
    /\ tasks[i].at \in {"finalized", "stopping"} => finalized # Never
    /\ tasks[i].at = "finalize" => hasty \/ finalized # Never
    /\ tasks[i].event = "Finalize" /\ tasks[i].at = "pending" =>
          hasty \/ tasks[i].due >= Deadline \/ finalized # Never
    /\ tasks[i].event = "Finalize" /\ tasks[i].at = "checked" => hasty \/ now >= Deadline

Times ==
    /\ IsOver <=> over # Never
    /\ over # Never => over <= now
    /\ finalized # Never => finalized <= now
    /\ service # "down" => stored.finalized = finalized
    /\ service = "terminated" => finalized # Never
    /\ finalized # Never => hasty \/ finalized >= Deadline

Waited == Times /\ \A i \in Tasks : WaitOf(i)

Alive(e) == \E i \in Tasks :
    tasks[i].event = e /\ tasks[i].at \notin {"done", "failed", "cancelled"}
ToCome ==
    IF tasks = <<>> THEN 4 ELSE IF Alive("Made") THEN 3 ELSE IF Alive("Start") THEN 2
    ELSE IF Alive("End") THEN 1 ELSE 0
Cancelling == {i \in Tasks : tasks[i].event = "Cancel" /\ tasks[i].at # "done"}
Room == Len(tasks) + ToCome + Cardinality(Cancelling)
Touching == {t \in Toucher : touching[t]}
Listening == IF listener = "idle" THEN 0 ELSE 2

Counted ==
    /\ IsFiniteSet(Touching)
    /\ Room + Cardinality(Touching) + Listening <= 4 + 2 * calls

-----------------------------------------------------------------------------
(* What the operations on the tasks do, task by task                         *)

LEMMA MaxIsNat == MaxTime \in Nat /\ Never \in Nat /\ Never > MaxTime /\ End < Never /\ Start < Never
BY LifecycleAssumption DEF Never

LEMMA AtEffect ==
    ASSUME NEW ts \in Seq(Task), NEW i \in 1..Len(ts), NEW p \in Point
    PROVE  /\ At(ts, i, p) \in Seq(Task)
           /\ Len(At(ts, i, p)) = Len(ts)
           /\ \A j \in 1..Len(ts) : j # i => At(ts, i, p)[j] = ts[j]
           /\ At(ts, i, p)[i].event = ts[i].event
           /\ At(ts, i, p)[i].at = p
<1> DEFINE a == [ts[i] EXCEPT !.at = p, !.due = 0]
<1>1. ts[i] \in Task
  OBVIOUS
<1>2. a \in Task /\ a.event = ts[i].event /\ a.at = p
  <2>1. 0 \in 0..MaxTime
    BY MaxIsNat
  <2> DEFINE b == [ts[i] EXCEPT !.at = p]
  <2>2. b \in Task /\ b.event = ts[i].event /\ b.at = p
    BY <1>1 DEF Task
  <2>3. a = [b EXCEPT !.due = 0]
    OBVIOUS
  <2> HIDE DEF a, b
  <2> QED
    BY <2>1, <2>2, <2>3 DEF Task
<1>3. At(ts, i, p) = [ts EXCEPT ![i] = a]
  BY DEF At
<1> HIDE DEF a
<1> QED
  BY <1>2, <1>3

LEMMA CancelFutureEffect ==
    ASSUME NEW ts \in Seq(Task), future \in 1..Len(ts)
    PROVE  /\ CancelFuture(ts) \in Seq(Task)
           /\ Len(CancelFuture(ts)) = Len(ts)
           /\ \A j \in 1..Len(ts) : j # future => CancelFuture(ts)[j] = ts[j]
           /\ CancelFuture(ts)[future].event = ts[future].event
           /\ ts[future].at = "pending" => CancelFuture(ts)[future].at = "cancelled"
           /\ ts[future].at # "pending" => CancelFuture(ts)[future] = ts[future]
<1>1. CASE ts[future].at = "pending"
  <2>1. CancelFuture(ts) = At(ts, future, "cancelled") /\ "cancelled" \in Point
    BY <1>1 DEF CancelFuture, Point
  <2> QED
    BY <1>1, <2>1, AtEffect
<1>2. CASE ts[future].at # "pending"
  BY <1>2 DEF CancelFuture
<1> QED
  BY <1>1, <1>2

LEMMA ScheduleEffect ==
    ASSUME NEW ts \in Seq(Task), NEW e \in Event, NEW time \in Nat,
           now \in 0..MaxTime, Schedule(ts, e, time)
    PROVE  /\ tasks' \in Seq(Task)
           /\ Len(tasks') = Len(ts) + 1
           /\ \A j \in 1..Len(ts) : tasks'[j] = ts[j]
           /\ tasks'[Len(ts) + 1].event = e
           /\ tasks'[Len(ts) + 1].at = "pending"
           /\ tasks'[Len(ts) + 1].due \in 0..MaxTime
           /\ time <= tasks'[Len(ts) + 1].due \/ MaxTime <= tasks'[Len(ts) + 1].due
           /\ next' = e
           /\ future' = Len(ts) + 1
<1> DEFINE due == Earlier(Later(now, time), MaxTime)
           task == [event |-> e, due |-> due, at |-> "pending"]
<1>1. due \in 0..MaxTime /\ (time <= due \/ MaxTime <= due)
  BY MaxIsNat DEF Earlier, Later
<1>2. task \in Task
  BY <1>1 DEF Task, Point
<1>3. tasks' = Append(ts, task) /\ next' = e /\ future' = Len(ts) + 1
  BY DEF Schedule
<1>4. task.event = e /\ task.at = "pending" /\ task.due = due
  OBVIOUS
<1> HIDE DEF task, due
<1> QED
  BY <1>1, <1>2, <1>3, <1>4

(* A task moves on by itself.                                                *)
LEMMA GoesEffect ==
    ASSUME Typed, NEW i \in Tasks, NEW p \in Point, Goes(i, p)
    PROVE  /\ tasks' \in Seq(Task) /\ Len(tasks') = Len(tasks) /\ Tasks' = Tasks
           /\ \A j \in Tasks : j # i => tasks'[j] = tasks[j]
           /\ tasks'[i].event = tasks[i].event
           /\ tasks'[i].at = p
           /\ next' = next /\ future' = future
BY AtEffect, SMTT(30) DEF Typed, Tasks, Goes

LEMMA PostEffect ==
    ASSUME Typed, NEW e \in Event, Post(e)
    PROVE  /\ posted' \in Seq(Event) /\ posted' # <<>>
           /\ \A d \in Event : Occurs(d)' <=> Occurs(d) \/ d = e
           /\ over' \in 0..Never
           /\ e \notin {"End", "Cancel"} => over' = over
           /\ e \in {"End", "Cancel"} => over' = Earlier(over, now)
           /\ hasty' \in BOOLEAN
           /\ hasty' <=> hasty \/ (e = "Cancel" /\ service = "starting")
<1>1. posted \in Seq(Event) /\ posted' = Append(posted, e) /\ now \in Nat /\ over \in 0..Never
  BY MaxIsNat DEF Typed, Post
<1>2. posted' \in Seq(Event) /\ posted' # <<>> /\ Len(posted') = Len(posted) + 1
  BY <1>1
<1>3. posted'[Len(posted')] = e /\ \A j \in 1..Len(posted) : posted'[j] = posted[j]
  BY <1>1
<1>4. \A d \in Event : Occurs(d)' <=> Occurs(d) \/ d = e
  BY <1>1, <1>2, <1>3 DEF Occurs
<1>5. /\ e \notin {"End", "Cancel"} => over' = over
      /\ e \in {"End", "Cancel"} => over' = Earlier(over, now)
  BY DEF Post
<1>6. over' \in 0..Never
  BY <1>1, <1>5, MaxIsNat DEF Typed, Earlier
<1>7. /\ hasty' \in BOOLEAN
      /\ hasty' <=> hasty \/ (e = "Cancel" /\ service = "starting")
  BY Zenon DEF Post
<1> QED
  BY <1>2, <1>4, <1>5, <1>6, <1>7

LEMMA Points == {"pending", "checked", "reschedule", "finalized", "stopping", "done", "failed",
                 "cancelled"} \cup DOMAIN Plan = Point
<1>1. DOMAIN Plan = {"start", "cancel", "end", "finalize", "keepalive"}
  BY DEF Plan
<1> QED
  BY <1>1 DEF Point

-----------------------------------------------------------------------------
(* The types                                                                 *)

LEMMA TypedGoes ==
    ASSUME Typed, Fresh, NEW i \in Tasks, NEW p \in Point, Goes(i, p),
           UNCHANGED <<now, startAgain, cancelled, outside, crashes>>,
           service' \in {service, "terminated"},
           finalized' \in 0..Never,
           stored' \in [cancelled : 0..Never, finalized : 0..Never],
           posted' \in Seq(Event),
           over' \in 0..Never,
           hasty' \in BOOLEAN
    PROVE  Typed' /\ Fresh'
<1>1. /\ tasks' \in Seq(Task) /\ Len(tasks') = Len(tasks)
      /\ \A j \in Tasks : tasks'[j].event = tasks[j].event
      /\ next' = next /\ future' = future
  BY GoesEffect
<1>2. /\ tasks # <<>> /\ tasks' # <<>>
      /\ service \in {"starting", "running", "terminated"}
  BY <1>1, SMTT(30) DEF Tasks, Typed, Fresh
<1>3. Typed'
  <2>1. future' # 0 => tasks'[future'].event = next'
    <3>1. /\ future \in 0..Len(tasks) /\ Len(tasks) \in Nat
          /\ future # 0 => tasks[future].event = next
      BY DEF Typed
    <3>2. future # 0 => future \in Tasks
      BY <3>1 DEF Tasks
    <3> QED
      BY <1>1, <3>1, <3>2
  <2>2. /\ future' \in 0..Len(tasks') /\ (future' = 0 => next' = NoEvent)
        /\ service' \in {"built", "starting", "running", "terminated", "down"}
        /\ next' \in Event \cup {NoEvent}
    BY <1>1 DEF Typed
  <2> QED
    BY <1>1, <2>1, <2>2, Zenon DEF Typed, outside
<1>4. Fresh'
  BY <1>2 DEF Fresh
<1> QED
  BY <1>3, <1>4

LEMMA TypedSchedule ==
    ASSUME Typed, NEW ts \in Seq(Task), NEW e \in Event, NEW time \in Nat, Schedule(ts, e, time),
           UNCHANGED <<now, startAgain, fields, stored, calls, posted, over, hasty, crashes>>,
           service' \in {"starting", "running", "terminated"},
           listener' \in {"idle", "called", "set", "cancelling"},
           touching' \in [Toucher -> BOOLEAN]
    PROVE  Typed' /\ Fresh'
<1>1. /\ tasks' \in Seq(Task) /\ Len(tasks') = Len(ts) + 1
      /\ tasks'[Len(ts) + 1].event = e
      /\ next' = e /\ future' = Len(ts) + 1
  BY ScheduleEffect DEF Typed
<1>2. /\ future' \in 0..Len(tasks') /\ future' # 0 /\ tasks'[future'].event = next'
      /\ next' \in Event \cup {NoEvent}
      /\ tasks' # <<>>
  BY <1>1
<1>3. Typed'
  BY <1>1, <1>2, Zenon DEF Typed, fields
<1>4. Fresh'
  BY <1>2 DEF Fresh
<1> QED
  BY <1>3, <1>4

LEMMA PlanEffect ==
    ASSUME Typed, NEW p \in DOMAIN Plan
    PROVE  /\ p \in {"start", "cancel", "end", "finalize", "keepalive"}
           /\ Plan[p].event \in Event
           /\ Plan[p].time \in Nat
           /\ p = "start" => Plan[p].event = "Start"
           /\ p = "cancel" => Plan[p].event = "Cancel"
           /\ p = "end" => Plan[p].event = "End" /\ Plan[p].time = End
           /\ p = "finalize" => Plan[p].event = "Finalize"
           /\ p = "keepalive" => Plan[p].event = "Finalize" /\ Plan[p].time = now + KeepAlive
<1>1. p \in {"start", "cancel", "end", "finalize", "keepalive"}
  BY DEF Plan
<1>2. now \in Nat
  BY MaxIsNat DEF Typed
<1> QED
  BY <1>1, <1>2, LifecycleAssumption DEF Plan, Event

(* The first step of rescheduleFinalization().                               *)
LEMMA RescheduleEffect ==
    ASSUME Typed, NEW i \in Tasks, Reschedule(i)
    PROVE  /\ tasks' \in Seq(Task) /\ Len(tasks') = Len(tasks) /\ Tasks' = Tasks
           /\ tasks'[i].event = tasks[i].event /\ tasks'[i].at = "keepalive"
           /\ \A j \in Tasks : j # i => \/ tasks'[j] = tasks[j]
                                        \/ /\ tasks[j].event = "Finalize"
                                           /\ tasks'[j].event = "Finalize"
                                           /\ tasks[j].at = "pending"
                                           /\ tasks'[j].at = "cancelled"
<1>1. "keepalive" \in Point /\ tasks \in Seq(Task) /\ i \in 1..Len(tasks)
  BY DEF Point, Typed, Tasks
<1>2. CASE next = "Finalize"
  <2>1. future \in 1..Len(tasks) /\ tasks[future].event = "Finalize"
    BY <1>2 DEF Typed, NoEvent
  <2>2. tasks' = At(CancelFuture(tasks), i, "keepalive")
    BY <1>2 DEF Reschedule
  <2>3. /\ CancelFuture(tasks) \in Seq(Task)
        /\ Len(CancelFuture(tasks)) = Len(tasks)
        /\ \A j \in 1..Len(tasks) : j # future => CancelFuture(tasks)[j] = tasks[j]
        /\ CancelFuture(tasks)[future].event = tasks[future].event
        /\ tasks[future].at = "pending" => CancelFuture(tasks)[future].at = "cancelled"
        /\ tasks[future].at # "pending" => CancelFuture(tasks)[future] = tasks[future]
    BY <1>1, <2>1, CancelFutureEffect
  <2>4. /\ tasks' \in Seq(Task) /\ Len(tasks') = Len(tasks)
        /\ tasks'[i].event = CancelFuture(tasks)[i].event /\ tasks'[i].at = "keepalive"
        /\ \A j \in 1..Len(tasks) : j # i => tasks'[j] = CancelFuture(tasks)[j]
    BY <1>1, <2>2, <2>3, AtEffect
  <2> QED
    BY <2>1, <2>3, <2>4 DEF Tasks
<1>3. CASE next # "Finalize"
  <2>1. tasks' = At(tasks, i, "keepalive")
    BY <1>3 DEF Reschedule
  <2> QED
    BY <1>1, <2>1, AtEffect DEF Tasks
<1> QED
  BY <1>2, <1>3

(* The cancellation of the scheduled event, by the listener or by touch().    *)
LEMMA CancelEffect ==
    ASSUME Typed, next # NoEvent
    PROVE  /\ future \in Tasks /\ tasks[future].event = next
           /\ CancelFuture(tasks) \in Seq(Task) /\ Len(CancelFuture(tasks)) = Len(tasks)
           /\ \A j \in Tasks : \/ CancelFuture(tasks)[j] = tasks[j]
                               \/ /\ tasks[j].event = next
                                  /\ CancelFuture(tasks)[j].event = next
                                  /\ tasks[j].at = "pending"
                                  /\ CancelFuture(tasks)[j].at = "cancelled"
<1>1. future \in 1..Len(tasks) /\ tasks[future].event = next /\ tasks \in Seq(Task)
  BY DEF Typed
<1> QED
  BY <1>1, CancelFutureEffect DEF Tasks

(* The steps that only move a task on and post nothing.                      *)
Moves(i) ==
    \/ \E e \in Event : Guard(i, e)
    \/ StartFails(i) \/ StartGuard(i) \/ FinalizeGuard(i) \/ Stop(i)

PostsOne(i) ==
    MadePosts(i) \/ StartPosts(i) \/ CancelPosts(i) \/ EndPosts(i) \/ FinalizePosts(i)

LEMMA Cases ==
    ASSUME [Next]_vars
    PROVE  \/ \E i \in Tasks : Moves(i) \/ PostsOne(i) \/ Reschedule(i) \/ Schedules(i)
                                 \/ Finalize(i)
           \/ RSCancel \/ Listens
           \/ \E t \in Toucher : TouchCancels(t) \/ TouchSchedules(t)
           \/ Crash \/ Restart \/ DoStart \/ NotifyStarted \/ Tick
           \/ UNCHANGED vars
BY DEF Next, Runs, Moves, PostsOne, Tasks

LEMMA MovesEffect ==
    ASSUME Typed, NEW i \in Tasks, Moves(i)
    PROVE  /\ \E p \in Point :
                 /\ Goes(i, p)
                 /\ \/ /\ tasks[i].event \in {"Made", "Cancel", "End"} /\ tasks[i].at = "pending"
                       /\ tasks[i].due <= now /\ p \in {"checked", "done"}
                    \/ /\ tasks[i].event = "Start" /\ tasks[i].at = "pending"
                       /\ p \in {"failed", "checked"} \/ (p = "reschedule" /\ IsFinalized)
                    \/ /\ tasks[i].event = "Finalize" /\ tasks[i].at = "pending"
                       /\ tasks[i].due <= now
                       /\ p = IF IsFinalized THEN "stopping" ELSE "checked"
                    \/ /\ tasks[i].at = "stopping" /\ p = "done"
           /\ service' = service \/ (service' = "terminated" /\ tasks[i].at = "stopping")
           /\ UNCHANGED <<now, startAgain, fields, stored, outside, history, crashes>>
BY DEF Moves, Guard, StartFails, StartGuard, FinalizeGuard, Stop, Begins, Point

LEMMA TaskFields ==
    ASSUME Typed, NEW i \in Tasks
    PROVE  /\ tasks[i].event \in {"Made", "Start", "Cancel", "End", "Finalize"}
           /\ tasks[i].at \in Point
           /\ tasks[i].due \in 0..MaxTime
<1>1. tasks[i] \in Task
  BY DEF Typed, Tasks
<1> QED
  BY <1>1 DEF Task, Event

LEMMA PostsOneEffect ==
    ASSUME Typed, Chain, NEW i \in Tasks, PostsOne(i)
    PROVE  /\ \E p \in Point, e \in Event :
                 /\ Goes(i, p) /\ Post(e) /\ tasks[i].event = e
                 /\ \/ /\ e = "Made" /\ tasks[i].at = "checked"
                       /\ p = IF cancelled < Start THEN "cancel" ELSE "start"
                    \/ /\ e = "Start" /\ tasks[i].at = "checked"
                       /\ p = IF cancelled < End THEN "cancel" ELSE "end"
                    \/ /\ e = "Cancel" /\ tasks[i].at = "checked"
                       /\ p = IF service = "running" THEN "reschedule" ELSE "finalize"
                    \/ e = "End" /\ tasks[i].at = "checked" /\ p = "reschedule"
                    \/ e = "Finalize" /\ tasks[i].at = "finalized" /\ p = "stopping"
           /\ UNCHANGED <<now, startAgain, service, fields, stored, outside, crashes>>
<1>1. tasks[i].at = "finalized" => tasks[i].event = "Finalize"
  BY TaskFields DEF Chain, Fits
<1>2. CASE FinalizePosts(i)
  BY <1>1, <1>2 DEF FinalizePosts, Point, Event
<1>3. CASE MadePosts(i) \/ StartPosts(i) \/ CancelPosts(i) \/ EndPosts(i)
  BY <1>3 DEF MadePosts, StartPosts, CancelPosts, EndPosts, PostsAnd, Checked, Point, Event
<1> QED
  BY <1>2, <1>3 DEF PostsOne

LEMMA TypedInit == Init => Typed /\ Fresh
<1> SUFFICES ASSUME Init PROVE Typed /\ Fresh
    OBVIOUS
<1>1. touching \in [Toucher -> BOOLEAN] /\ \A t \in Toucher : ~touching[t]
  BY Zenon DEF Init
<1>2. tasks \in Seq(Task) /\ Len(tasks) = 0 /\ posted \in Seq(Event)
  BY DEF Init
<1>3. /\ now \in 0..MaxTime /\ cancelled \in 0..Never /\ finalized \in 0..Never
      /\ stored \in [cancelled : 0..Never, finalized : 0..Never]
      /\ over \in 0..Never /\ calls \in 0..MaxCalls /\ crashes \in 0..MaxCrashes
      /\ future \in 0..Len(tasks)
  BY <1>2, MaxIsNat, LifecycleAssumption DEF Init
<1>4. Typed
  BY <1>1, <1>2, <1>3 DEF Init, Typed
<1> QED
  BY <1>1, <1>4 DEF Init, Fresh

LEMMA TypedNext == ASSUME Typed, Fresh, Chain, [Next]_vars PROVE Typed' /\ Fresh'
<1>1. ASSUME NEW i \in Tasks, Moves(i) PROVE Typed' /\ Fresh'
  BY <1>1, MovesEffect, TypedGoes DEF Typed, fields, history
<1>2. ASSUME NEW i \in Tasks, PostsOne(i) PROVE Typed' /\ Fresh'
  <2>1. PICK p \in Point, e \in Event : Goes(i, p) /\ Post(e)
    BY <1>2, PostsOneEffect
  <2>2. posted' \in Seq(Event) /\ over' \in 0..Never /\ hasty' \in BOOLEAN
    BY <2>1, PostEffect
  <2> QED
    BY <1>2, <2>1, <2>2, PostsOneEffect, TypedGoes DEF Typed, fields
<1>3. ASSUME NEW i \in Tasks, Reschedule(i) PROVE Typed' /\ Fresh'
  <2>1. /\ UNCHANGED <<now, startAgain, service, next, future, cancelled, finalized, stored,
                       listener, touching, calls, posted, over, hasty, crashes>>
        /\ tasks' \in Seq(Task) /\ Len(tasks') = Len(tasks)
    BY <1>3, RescheduleEffect DEF Reschedule, fields, outside, history
  <2>2. future \in 0..Len(tasks) /\ \A j \in Tasks : tasks'[j].event = tasks[j].event
    <3>1. future \in 0..Len(tasks)
      BY DEF Typed
    <3>2. tasks'[i].event = tasks[i].event
      BY <1>3, RescheduleEffect
    <3>3. \A j \in Tasks : j # i =>
             tasks'[j] = tasks[j] \/ (tasks[j].event = "Finalize" /\ tasks'[j].event = "Finalize")
      BY <1>3, RescheduleEffect
    <3> QED
      BY <3>1, <3>2, <3>3, Zenon
  <2>3. future' # 0 => tasks'[future'].event = next'
    BY <2>1, <2>2, SMTT(30) DEF Typed, Tasks
  <2>4. Typed'
    BY <2>1, <2>3, Zenon DEF Typed
  <2>5. tasks' # <<>> /\ tasks # <<>>
    BY <1>3, <2>1 DEF Tasks, Typed
  <2> QED
    BY <2>1, <2>4, <2>5 DEF Typed, Fresh
<1>4. ASSUME NEW i \in Tasks, Schedules(i) PROVE Typed' /\ Fresh'
  <2> DEFINE p == tasks[i].at
             ts == At(tasks, i, "done")
  <2>1. /\ p \in DOMAIN Plan
        /\ Schedule(ts, Plan[p].event, Plan[p].time)
        /\ UNCHANGED <<now, startAgain, service, fields, stored, outside, history, crashes>>
    BY <1>4 DEF Schedules
  <2>2. ts \in Seq(Task)
    BY AtEffect, ZenonT(40) DEF Typed, Tasks, Point
  <2>3. Plan[p].event \in Event /\ Plan[p].time \in Nat
    BY <2>1, PlanEffect
  <2>4. service \in {"starting", "running", "terminated"}
    BY DEF Tasks, Typed, Fresh
  <2> HIDE DEF p, ts
  <2> QED
    BY <2>1, <2>2, <2>3, <2>4, TypedSchedule, SMTT(30) DEF Typed, outside, history
<1>5. ASSUME NEW i \in Tasks, Finalize(i) PROVE Typed' /\ Fresh'
  <2>1. /\ finalized' \in 0..Never
        /\ stored' \in [cancelled : 0..Never, finalized : 0..Never]
    <3>1. now \in 0..Never
      BY MaxIsNat DEF Typed
    <3>2. [stored EXCEPT !.finalized = now] \in [cancelled : 0..Never, finalized : 0..Never]
      BY <3>1, ZenonT(40) DEF Typed
    <3> QED
      BY <1>5, <3>1, <3>2 DEF Finalize
  <2>2. /\ Goes(i, "finalized") /\ "finalized" \in Point
        /\ UNCHANGED <<now, startAgain, service, cancelled, outside, posted, over, hasty, crashes>>
    BY <1>5 DEF Finalize, Point, history
  <2>3. /\ posted' \in Seq(Event) /\ over' \in 0..Never /\ hasty' \in BOOLEAN
        /\ service' \in {service, "terminated"}
    BY <2>2 DEF Typed
  <2> QED
    BY <1>5, <2>1, <2>2, <2>3, TypedGoes
<1>6. CASE RSCancel
  <2>1. /\ calls' \in 0..MaxCalls
        /\ stored' \in [cancelled : 0..Never, finalized : 0..Never]
        /\ listener' \in {"idle", "called", "set", "cancelling"}
    <3>1. now \in 0..Never
      BY MaxIsNat DEF Typed
    <3>2. calls' \in 0..MaxCalls
      BY <1>6, LifecycleAssumption, SMTT(30) DEF RSCancel, Typed
    <3>3. stored' \in [cancelled : 0..Never, finalized : 0..Never]
      BY <1>6, <3>1 DEF RSCancel, Typed
    <3>4. listener' \in {"idle", "called", "set", "cancelling"}
      BY <1>6 DEF RSCancel
    <3> QED
      BY <3>2, <3>3, <3>4
  <2>2. UNCHANGED <<now, startAgain, service, next, future, tasks, cancelled, finalized,
                    touching, posted, over, hasty, crashes>>
    BY <1>6 DEF RSCancel, chain, fields, history
  <2>3. Typed'
    BY <2>1, <2>2, Zenon DEF Typed
  <2> QED
    BY <1>6, <2>2, <2>3 DEF RSCancel, Fresh
<1>7. CASE ListenerSets
  <2>1. /\ cancelled' \in 0..Never
        /\ listener = "called" /\ listener' = "set"
        /\ UNCHANGED <<now, startAgain, service, next, future, tasks, finalized, stored,
                       touching, calls, posted, over, hasty, crashes>>
    BY <1>7 DEF ListenerSets, Typed, chain, history
  <2>2. Typed'
    BY <2>1, Zenon DEF Typed
  <2> QED
    BY <2>1, <2>2 DEF Fresh
<1>8. CASE ListenerTests
  <2>1. /\ listener = "set" /\ listener' \in {"idle", "cancelling"}
        /\ UNCHANGED <<now, startAgain, service, next, future, cancelled, finalized, stored,
                       touching, calls, posted, over, hasty, crashes>>
        /\ tasks' = tasks \/ (tasks' = CancelFuture(tasks) /\ next \in {"End", "Start"})
    BY <1>8 DEF ListenerTests, fields, history
  <2>2. /\ tasks' \in Seq(Task) /\ Len(tasks') = Len(tasks)
        /\ \A j \in Tasks : tasks'[j].event = tasks[j].event
    BY <2>1, CancelEffect DEF Typed, NoEvent
  <2>3. future' # 0 => tasks'[future'].event = next'
    BY <2>1, <2>2, SMTT(30) DEF Typed, Tasks
  <2>4. Typed'
    BY <2>1, <2>2, <2>3, Zenon DEF Typed
  <2>5. tasks # <<>> => tasks' # <<>>
    BY <2>2 DEF Typed
  <2> QED
    BY <2>1, <2>4, <2>5 DEF Fresh
<1>9. CASE ListenerSchedules
  <2>1. cancelled \in Nat /\ "Cancel" \in Event /\ tasks \in Seq(Task)
    BY MaxIsNat DEF Typed, Event
  <2>2. service \in {"starting", "running", "terminated"}
    BY <1>9 DEF ListenerSchedules, Typed, Fresh
  <2> QED
    BY <1>9, <2>1, <2>2, TypedSchedule DEF ListenerSchedules, Typed, history
<1>10. ASSUME NEW t \in Toucher, TouchCancels(t) PROVE Typed' /\ Fresh'
  <2>1. /\ next = "Finalize" /\ tasks' = CancelFuture(tasks)
        /\ calls' \in 0..MaxCalls
        /\ UNCHANGED <<now, startAgain, service, next, future, cancelled, finalized, stored,
                       listener, posted, over, hasty, crashes>>
    BY <1>10, LifecycleAssumption DEF TouchCancels, Typed, fields, history
  <2>2. touching' \in [Toucher -> BOOLEAN]
    BY <1>10, Zenon DEF TouchCancels, Typed
  <2>3. /\ tasks' \in Seq(Task) /\ Len(tasks') = Len(tasks)
        /\ \A j \in Tasks : tasks'[j].event = tasks[j].event
    BY <2>1, CancelEffect DEF NoEvent
  <2>4. future' # 0 => tasks'[future'].event = next'
    BY <2>1, <2>3, SMTT(30) DEF Typed, Tasks
  <2>5. Typed'
    BY <2>1, <2>2, <2>3, <2>4, Zenon DEF Typed
  <2>6. service \in {"starting", "running", "terminated"} /\ tasks' # <<>>
    BY <1>10, <2>3 DEF TouchCancels, Typed, Fresh
  <2> QED
    BY <2>1, <2>5, <2>6 DEF Fresh
<1>11. ASSUME NEW t \in Toucher, TouchSchedules(t) PROVE Typed' /\ Fresh'
  <2>1. now + KeepAlive \in Nat /\ "Finalize" \in Event /\ tasks \in Seq(Task)
    BY MaxIsNat, LifecycleAssumption DEF Typed, Event
  <2>2. service \in {"starting", "running", "terminated"}
    BY <1>11 DEF TouchSchedules, Typed, Fresh
  <2>3. touching' \in [Toucher -> BOOLEAN]
    BY <1>11, Zenon DEF TouchSchedules, Typed
  <2> QED
    BY <1>11, <2>1, <2>2, <2>3, TypedSchedule DEF TouchSchedules, Typed, history
<1>12. CASE Crash
  <2>1. touching' \in [Toucher -> BOOLEAN] /\ \A t \in Toucher : ~touching'[t]
    BY <1>12, Zenon DEF Crash
  <2>2. /\ tasks' = <<>> /\ posted' = <<>> /\ next' = NoEvent /\ future' = 0
        /\ cancelled' = Never /\ finalized' = Never /\ over' = Never /\ hasty' = FALSE
        /\ service' = "down" /\ listener' = "idle"
        /\ crashes' \in 0..MaxCrashes
        /\ UNCHANGED <<now, startAgain, stored, calls>>
    BY <1>12, LifecycleAssumption DEF Crash, Typed
  <2>3. tasks' \in Seq(Task) /\ posted' \in Seq(Event) /\ Len(tasks') = 0 /\ Never \in 0..Never
    BY <2>2, MaxIsNat
  <2>4. Typed'
    <3>1. hasty' \in BOOLEAN
      BY <2>2, Zenon
    <3>2. /\ future' \in 0..Len(tasks') /\ next' \in Event \cup {NoEvent}
          /\ service' \in {"built", "starting", "running", "terminated", "down"}
          /\ listener' \in {"idle", "called", "set", "cancelling"}
          /\ cancelled' \in 0..Never /\ finalized' \in 0..Never /\ over' \in 0..Never
          /\ future' = 0
      BY <2>2, <2>3
    <3> QED
      BY <2>1, <2>2, <2>3, <3>1, <3>2, Zenon DEF Typed
  <2> QED
    BY <2>1, <2>2, <2>4 DEF Fresh
<1>13. CASE Restart
  <2>1. /\ service = "down" /\ service' = "built"
        /\ cancelled' \in 0..Never
        /\ UNCHANGED <<now, startAgain, next, future, tasks, finalized, stored, listener, touching,
                       calls, posted, over, hasty, crashes>>
    BY <1>13 DEF Restart, Typed, chain, outside, history
  <2>2. Typed'
    BY <2>1, Zenon DEF Typed
  <2> QED
    BY <2>1, <2>2 DEF Fresh
<1>14. CASE DoStart
  <2>1. now \in Nat /\ "Made" \in Event /\ <<>> \in Seq(Task)
    BY MaxIsNat DEF Typed, Event
  <2> QED
    BY <1>14, <2>1, TypedSchedule DEF DoStart, Typed, outside, history
<1>15. CASE Tick
  <2>1. /\ now' \in 0..MaxTime
        /\ UNCHANGED <<startAgain, service, next, future, tasks, cancelled, finalized, stored,
                       listener, touching, calls, posted, over, hasty, crashes>>
    BY <1>15, LifecycleAssumption DEF Tick, Typed, chain, fields, outside, history
  <2>2. Typed'
    BY <2>1, Zenon DEF Typed
  <2> QED
    BY <2>1, <2>2 DEF Fresh
<1>16. CASE UNCHANGED vars
  <2>1. Typed'
    BY <1>16, Zenon DEF vars, Typed
  <2>2. Fresh'
    BY <1>16 DEF vars, Fresh
  <2> QED
    BY <2>1, <2>2
<1>17. CASE NotifyStarted
  <2>1. /\ service = "starting" /\ service' = "running"
        /\ UNCHANGED <<now, startAgain, next, future, tasks, cancelled, finalized, stored, listener,
                       touching, calls, posted, over, hasty, crashes>>
    BY <1>17 DEF NotifyStarted, chain, fields, outside, history
  <2>2. Typed'
    BY <2>1, Zenon DEF Typed
  <2> QED
    BY <2>1, <2>2 DEF Fresh
<1> QED
  BY <1>1, <1>2, <1>3, <1>4, <1>5, <1>6, <1>7, <1>8, <1>9, <1>10, <1>11, <1>12, <1>13, <1>14,
     <1>15, <1>16, <1>17, Cases DEF Listens

-----------------------------------------------------------------------------
(* Which tasks there are                                                     *)

(* A task schedules its successor and is done.                               *)
LEMMA SchedulesEffect ==
    ASSUME Typed, NEW i \in Tasks, Schedules(i)
    PROVE  /\ tasks[i].at \in DOMAIN Plan
           /\ tasks' \in Seq(Task) /\ Len(tasks') = Len(tasks) + 1
           /\ \A j \in Tasks : j # i => tasks'[j] = tasks[j]
           /\ tasks'[i].event = tasks[i].event /\ tasks'[i].at = "done"
           /\ tasks'[Len(tasks) + 1].event = Plan[tasks[i].at].event
           /\ tasks'[Len(tasks) + 1].at = "pending"
           /\ \/ Plan[tasks[i].at].time <= tasks'[Len(tasks) + 1].due
              \/ MaxTime <= tasks'[Len(tasks) + 1].due
           /\ UNCHANGED <<now, startAgain, service, fields, stored, outside, history, crashes>>
<1> DEFINE p == tasks[i].at
           ts == At(tasks, i, "done")
<1>1. /\ p \in DOMAIN Plan
      /\ Schedule(ts, Plan[p].event, Plan[p].time)
      /\ UNCHANGED <<now, startAgain, service, fields, stored, outside, history, crashes>>
  BY DEF Schedules
<1>2. /\ ts \in Seq(Task) /\ Len(ts) = Len(tasks)
      /\ \A j \in Tasks : j # i => ts[j] = tasks[j]
      /\ ts[i].event = tasks[i].event /\ ts[i].at = "done"
  BY AtEffect DEF Typed, Tasks, Point
<1>3. Plan[p].event \in Event /\ Plan[p].time \in Nat /\ now \in 0..MaxTime
  BY <1>1, PlanEffect DEF Typed
<1> HIDE DEF ts
<1>4. /\ tasks' \in Seq(Task) /\ Len(tasks') = Len(ts) + 1
      /\ \A j \in 1..Len(ts) : tasks'[j] = ts[j]
      /\ tasks'[Len(ts) + 1].event = Plan[p].event
      /\ tasks'[Len(ts) + 1].at = "pending"
      /\ \/ Plan[p].time <= tasks'[Len(ts) + 1].due
         \/ MaxTime <= tasks'[Len(ts) + 1].due
  BY <1>1, <1>2, <1>3, ScheduleEffect
<1> QED
  BY <1>1, <1>2, <1>4 DEF Tasks

LEMMA ChainKept ==
    ASSUME Typed, Chain, Len(tasks') = Len(tasks),
           \A j \in Tasks :
              /\ tasks'[j].event = tasks[j].event
              /\ tasks[j].at = "done" => tasks'[j].at = "done"
              /\ tasks'[j] = tasks[j] \/ Fits(j)'
    PROVE  Chain'
<1>1. Tasks' = Tasks
  BY DEF Tasks
<1>2. \A j \in Tasks : Fits(j)'
  BY DEF Chain, Fits
<1>3. \A j \in Tasks : tasks'[j].event = "Made" <=> j = 1
  BY DEF Chain
<1>4. \A i, j \in Tasks :
         /\ tasks'[i].event = "Start" /\ tasks'[j].event = "Start" => i = j
         /\ tasks'[i].event = "End" /\ tasks'[j].event = "End" => i = j
         /\ tasks'[i].event = "End" /\ tasks'[j].event = "Start" => tasks'[j].at = "done"
         /\ tasks'[i].event \in {"Start", "End"} /\ tasks'[j].event = "Made"
               => tasks'[j].at = "done"
  BY DEF Chain
<1> QED
  BY <1>1, <1>2, <1>3, <1>4 DEF Chain

LEMMA ChainAppended ==
    ASSUME Typed, Chain, Len(tasks') = Len(tasks) + 1,
           \A j \in Tasks :
              /\ tasks'[j].event = tasks[j].event
              /\ tasks[j].at = "done" => tasks'[j].at = "done"
              /\ tasks'[j] = tasks[j] \/ Fits(j)',
           NEW e, tasks'[Len(tasks) + 1].event = e, tasks'[Len(tasks) + 1].at = "pending",
           e = "Made" <=> Len(tasks) = 0,
           e = "Start" =>
              \A j \in Tasks : /\ tasks[j].event \notin {"Start", "End"}
                               /\ tasks[j].event = "Made" => tasks'[j].at = "done",
           e = "End" =>
              \A j \in Tasks : /\ tasks[j].event # "End"
                               /\ tasks[j].event \in {"Made", "Start"} => tasks'[j].at = "done"
    PROVE  Chain'
<1> DEFINE k == Len(tasks) + 1
<1>1. Len(tasks) \in Nat /\ Tasks' = Tasks \cup {k} /\ k \notin Tasks
  BY DEF Tasks, Typed
<1>2. \A j \in Tasks' : Fits(j)'
  BY <1>1 DEF Chain, Fits
<1>3. \A j \in Tasks' : tasks'[j].event = "Made" <=> j = 1
  BY <1>1 DEF Chain, Tasks
<1> HIDE DEF k
<1>4. \A i, j \in Tasks' :
         /\ tasks'[i].event = "Start" /\ tasks'[j].event = "Start" => i = j
         /\ tasks'[i].event = "End" /\ tasks'[j].event = "End" => i = j
         /\ tasks'[i].event = "End" /\ tasks'[j].event = "Start" => tasks'[j].at = "done"
         /\ tasks'[i].event \in {"Start", "End"} /\ tasks'[j].event = "Made"
               => tasks'[j].at = "done"
  <2>1. /\ tasks'[k].event = e /\ tasks'[k].at = "pending"
        /\ \A j \in Tasks : tasks'[j].event = tasks[j].event
    BY DEF k
  <2>2. \A i, j \in Tasks' :
           tasks'[i].event = "Start" /\ tasks'[j].event = "Start" => i = j
    BY <1>1, <2>1 DEF Chain
  <2>3. \A i, j \in Tasks' :
           tasks'[i].event = "End" /\ tasks'[j].event = "End" => i = j
    BY <1>1, <2>1 DEF Chain
  <2>4. \A i, j \in Tasks' :
           tasks'[i].event = "End" /\ tasks'[j].event = "Start" => tasks'[j].at = "done"
    BY <1>1, <2>1 DEF Chain
  <2>5. \A i, j \in Tasks' :
           tasks'[i].event \in {"Start", "End"} /\ tasks'[j].event = "Made"
              => tasks'[j].at = "done"
    <3> SUFFICES ASSUME NEW i \in Tasks', NEW j \in Tasks',
                        tasks'[i].event \in {"Start", "End"}, tasks'[j].event = "Made"
                 PROVE  tasks'[j].at = "done"
      OBVIOUS
    <3>1. j = 1
      BY <1>3
    <3>2. CASE i \in Tasks
      <4>1. j \in Tasks
        BY <3>1, <3>2, <1>1 DEF Tasks
      <4> QED
        BY <3>2, <4>1, <2>1 DEF Chain
    <3>3. CASE i = k
      <4>1. j \in Tasks
        BY <3>1, <3>3, <1>1, <2>1
      <4>2. e \in {"Start", "End"} /\ tasks[j].event = "Made"
        BY <3>3, <2>1, <4>1
      <4> QED
        BY <4>1, <4>2
    <3> QED
      BY <1>1, <3>2, <3>3
  <2> QED
    BY <2>2, <2>3, <2>4, <2>5
<1> QED
  BY <1>2, <1>3, <1>4 DEF Chain

LEMMA ChainNext == ASSUME Typed, Fresh, Chain, [Next]_vars PROVE Chain'
<1>1. ASSUME NEW i \in Tasks, Moves(i) PROVE Chain'
  <2>1. PICK p \in Point :
           /\ Goes(i, p)
           /\ \/ /\ tasks[i].event \in {"Made", "Cancel", "End"} /\ tasks[i].at = "pending"
                 /\ p \in {"checked", "done"}
              \/ /\ tasks[i].event = "Start" /\ tasks[i].at = "pending"
                 /\ p \in {"failed", "checked", "reschedule"}
              \/ /\ tasks[i].event = "Finalize" /\ tasks[i].at = "pending"
                 /\ p \in {"checked", "stopping"}
              \/ tasks[i].at = "stopping" /\ p = "done"
    BY <1>1, MovesEffect
  <2>2. /\ Len(tasks') = Len(tasks)
        /\ \A j \in Tasks : j # i => tasks'[j] = tasks[j]
        /\ tasks'[i].event = tasks[i].event /\ tasks'[i].at = p
    BY <2>1, GoesEffect
  <2>3. Fits(i)'
    BY <2>1, <2>2 DEF Chain, Fits
  <2> QED
    BY <2>1, <2>2, <2>3, ChainKept
<1>2. ASSUME NEW i \in Tasks, PostsOne(i) PROVE Chain'
  <2>1. PICK p \in Point :
           /\ Goes(i, p)
           /\ \/ /\ tasks[i].event = "Made" /\ tasks[i].at = "checked" /\ p \in {"cancel", "start"}
              \/ /\ tasks[i].event = "Start" /\ tasks[i].at = "checked" /\ p \in {"cancel", "end"}
              \/ /\ tasks[i].event = "Cancel" /\ tasks[i].at = "checked"
                 /\ p \in {"reschedule", "finalize"}
              \/ tasks[i].event = "End" /\ tasks[i].at = "checked" /\ p = "reschedule"
              \/ tasks[i].event = "Finalize" /\ tasks[i].at = "finalized" /\ p = "stopping"
    BY <1>2, PostsOneEffect
  <2>2. /\ Len(tasks') = Len(tasks)
        /\ \A j \in Tasks : j # i => tasks'[j] = tasks[j]
        /\ tasks'[i].event = tasks[i].event /\ tasks'[i].at = p
    BY <2>1, GoesEffect
  <2>3. Fits(i)'
    BY <2>1, <2>2 DEF Fits
  <2> QED
    BY <2>1, <2>2, <2>3, ChainKept
<1>3. ASSUME NEW i \in Tasks, Reschedule(i) PROVE Chain'
  <2>1. /\ tasks[i].at = "reschedule" /\ tasks[i].event \in {"Start", "End", "Cancel"}
    BY <1>3, TaskFields DEF Reschedule, Chain, Fits
  <2>2. Fits(i)'
    BY <1>3, <2>1, RescheduleEffect DEF Fits
  <2>3. \A j \in Tasks : j # i => tasks'[j] = tasks[j] \/ Fits(j)'
    BY <1>3, RescheduleEffect DEF Fits
  <2> QED
    BY <1>3, <2>1, <2>2, <2>3, RescheduleEffect, ChainKept
<1>4. ASSUME NEW i \in Tasks, Schedules(i) PROVE Chain'
  <2> DEFINE p == tasks[i].at
             e == Plan[p].event
  <2>1. /\ p \in DOMAIN Plan
        /\ Len(tasks') = Len(tasks) + 1
        /\ \A j \in Tasks : j # i => tasks'[j] = tasks[j]
        /\ tasks'[i].event = tasks[i].event /\ tasks'[i].at = "done"
        /\ tasks'[Len(tasks) + 1].event = e
        /\ tasks'[Len(tasks) + 1].at = "pending"
    BY <1>4, SchedulesEffect
  <2>2. /\ p \in {"start", "cancel", "end", "finalize", "keepalive"}
        /\ p = "start" => e = "Start"
        /\ p = "cancel" => e = "Cancel"
        /\ p = "end" => e = "End"
        /\ p \in {"finalize", "keepalive"} => e = "Finalize"
    BY <2>1, PlanEffect
  <2>3. /\ p = "start" => tasks[i].event = "Made"
        /\ p = "cancel" => tasks[i].event \in {"Made", "Start"}
        /\ p = "end" => tasks[i].event = "Start"
    BY TaskFields DEF Chain, Fits
  <2>4. Fits(i)'
    BY <2>1 DEF Fits
  <2>5. e # "Made" /\ Len(tasks) # 0
    BY <1>4, <2>2 DEF Tasks, Typed
  <2>6. e = "Start" =>
           \A j \in Tasks : /\ tasks[j].event \notin {"Start", "End"}
                            /\ tasks[j].event = "Made" => tasks'[j].at = "done"
    BY <2>1, <2>2, <2>3 DEF Chain
  <2>7. e = "End" =>
           \A j \in Tasks : /\ tasks[j].event # "End"
                            /\ tasks[j].event \in {"Made", "Start"} => tasks'[j].at = "done"
    BY <2>1, <2>2, <2>3 DEF Chain
  <2> HIDE DEF e
  <2> QED
    BY <2>1, <2>4, <2>5, <2>6, <2>7, ChainAppended
<1>5. ASSUME NEW i \in Tasks, Finalize(i) PROVE Chain'
  <2>1. /\ Len(tasks') = Len(tasks)
        /\ \A j \in Tasks : j # i => tasks'[j] = tasks[j]
        /\ tasks[i].event = "Finalize" /\ tasks[i].at = "checked"
        /\ tasks'[i].event = "Finalize" /\ tasks'[i].at = "finalized"
    BY <1>5, GoesEffect DEF Finalize, Checked, Point
  <2>2. Fits(i)'
    BY <2>1 DEF Fits
  <2> QED
    BY <2>1, <2>2, ChainKept
<1>6. CASE UNCHANGED tasks
  BY <1>6, ChainKept
<1>7. ASSUME next \in {"Start", "End", "Finalize"}, tasks' = CancelFuture(tasks) PROVE Chain'
  <2>1. \A j \in Tasks : tasks'[j] = tasks[j] \/ Fits(j)'
    BY <1>7, CancelEffect DEF Fits, NoEvent
  <2> QED
    BY <1>7, <2>1, CancelEffect, ChainKept DEF NoEvent
<1>8. ASSUME NEW e \in {"Cancel", "Finalize"}, NEW time \in Nat, Schedule(tasks, e, time),
             tasks # <<>>
      PROVE  Chain'
  <2>1. Len(tasks) # 0 /\ tasks \in Seq(Task) /\ now \in 0..MaxTime /\ e \in Event
    BY <1>8 DEF Typed, Event
  <2>2. /\ Len(tasks') = Len(tasks) + 1
        /\ \A j \in Tasks : tasks'[j] = tasks[j]
        /\ tasks'[Len(tasks) + 1].event = e
        /\ tasks'[Len(tasks) + 1].at = "pending"
    BY <1>8, <2>1, ScheduleEffect DEF Tasks
  <2> QED
    BY <1>8, <2>1, <2>2, ChainAppended
<1>9. CASE ListenerSchedules
  <2>1. tasks # <<>> /\ cancelled \in Nat
    BY <1>9, MaxIsNat DEF ListenerSchedules, Typed, Fresh
  <2> QED
    BY <1>8, <1>9, <2>1 DEF ListenerSchedules
<1>10. ASSUME NEW t \in Toucher, TouchSchedules(t) PROVE Chain'
  <2>1. tasks # <<>> /\ now + KeepAlive \in Nat
    BY <1>10, MaxIsNat, LifecycleAssumption DEF TouchSchedules, Typed, Fresh
  <2> QED
    BY <1>8, <1>10, <2>1 DEF TouchSchedules
<1>11. CASE DoStart
  <2>1. /\ tasks = <<>> /\ now \in Nat /\ now \in 0..MaxTime /\ "Made" \in Event
        /\ <<>> \in Seq(Task) /\ Len(<<>>) = 0
        /\ Schedule(<<>>, "Made", now)
    BY <1>11, MaxIsNat DEF DoStart, Typed, Fresh, Event
  <2>2. /\ Len(tasks') = 1
        /\ tasks'[1].event = "Made" /\ tasks'[1].at = "pending"
    <3>1. /\ Len(tasks') = Len(<<>>) + 1
          /\ tasks'[Len(<<>>) + 1].event = "Made" /\ tasks'[Len(<<>>) + 1].at = "pending"
      BY <2>1, ScheduleEffect
    <3> QED
      BY <2>1, <3>1
  <2>3. Tasks' = {1}
    BY <2>2 DEF Tasks
  <2>4. \A j \in Tasks' : j = 1 /\ tasks'[j].event = "Made" /\ tasks'[j].at = "pending"
    BY <2>2, <2>3
  <2> QED
    BY <2>4 DEF Chain, Fits
<1>12. CASE Crash
  <2>1. Tasks' = {}
    BY <1>12 DEF Crash, Tasks
  <2> QED
    BY <2>1 DEF Chain
<1>13. CASE ListenerTests
  BY <1>6, <1>7, <1>13 DEF ListenerTests
<1>14. ASSUME NEW t \in Toucher, TouchCancels(t) PROVE Chain'
  BY <1>7, <1>14 DEF TouchCancels
<1> QED
  BY <1>1, <1>2, <1>3, <1>4, <1>5, <1>6, <1>9, <1>10, <1>11, <1>12, <1>13, <1>14, Cases
     DEF Listens, RSCancel, ListenerSets, Restart, NotifyStarted, Tick, chain, vars

LEMMA ChainInit == Init => Chain
<1> SUFFICES ASSUME Init PROVE Chain
    OBVIOUS
<1>1. Tasks = {}
  BY DEF Init, Tasks
<1> QED
  BY <1>1 DEF Chain

-----------------------------------------------------------------------------
(* What has been posted                                                      *)

LEMMA OrderKept ==
    ASSUME PostedInOrder, posted' = posted, Tasks' = Tasks,
           \A j \in Tasks :
              /\ tasks'[j].event = tasks[j].event
              /\ Before(j)' => Before(j)
              /\ tasks'[j].at # "done" => tasks[j].at # "done"
              /\ tasks'[j].at \in {"cancel", "start"} => Occurs("Made")
              /\ tasks'[j].at = "end" => Occurs("Start"),
           listener' = "cancelling" => Occurs("Made"),
           (\E t \in Toucher : touching'[t]) => Occurs("Made")
    PROVE  PostedInOrder'
<1>1. /\ Occurs("Made")' <=> Occurs("Made")
      /\ Occurs("Start")' <=> Occurs("Start")
      /\ Occurs("End")' <=> Occurs("End")
  BY DEF Occurs
<1>2. \A j \in Tasks' : Before(j)' => Before(j)
  OBVIOUS
<1>3. \A j \in Tasks' :
          /\ tasks'[j].event = "Made" /\ Before(j)' => ~Occurs("Made")
          /\ tasks'[j].event = "Made" /\ tasks'[j].at # "done" => ~Occurs("Start") /\ ~Occurs("End")
          /\ tasks'[j].event = "Start" /\ Before(j)' => ~Occurs("Start")
          /\ tasks'[j].event = "Start" /\ tasks'[j].at # "done" => ~Occurs("End")
          /\ tasks'[j].event = "End" /\ Before(j)' => ~Occurs("End")
          /\ tasks'[j].event # "Made" \/ tasks'[j].at \in {"cancel", "start"} => Occurs("Made")
          /\ tasks'[j].event = "End" \/ tasks'[j].at = "end" => Occurs("Start")
  BY DEF PostedInOrder
<1> QED
  BY <1>1, <1>3 DEF PostedInOrder

LEMMA OrderAppended ==
    ASSUME Typed, PostedInOrder, posted' = posted, Len(tasks') = Len(tasks) + 1,
           \A j \in Tasks :
              /\ tasks'[j].event = tasks[j].event
              /\ tasks'[j] = tasks[j] \/ tasks'[j].at = "done",
           NEW e, tasks'[Len(tasks) + 1].event = e, tasks'[Len(tasks) + 1].at = "pending",
           e \in {"Start", "End", "Cancel", "Finalize"},
           Occurs("Made"),
           e = "Start" => ~Occurs("Start") /\ ~Occurs("End"),
           e = "End" => Occurs("Start") /\ ~Occurs("End"),
           listener' = "cancelling" => listener = "cancelling"
    PROVE  PostedInOrder'
<1> DEFINE k == Len(tasks) + 1
<1>1. /\ Occurs("Made")' <=> Occurs("Made")
      /\ Occurs("Start")' <=> Occurs("Start")
      /\ Occurs("End")' <=> Occurs("End")
  BY DEF Occurs
<1>2. Tasks' = Tasks \cup {k}
  BY DEF Tasks, Typed
<1>3. tasks'[k].event = e /\ tasks'[k].at = "pending"
  OBVIOUS
<1> HIDE DEF k
<1>4. \A j \in Tasks' :
          /\ tasks'[j].event = "Made" /\ Before(j)' => ~Occurs("Made")
          /\ tasks'[j].event = "Made" /\ tasks'[j].at # "done" => ~Occurs("Start") /\ ~Occurs("End")
          /\ tasks'[j].event = "Start" /\ Before(j)' => ~Occurs("Start")
          /\ tasks'[j].event = "Start" /\ tasks'[j].at # "done" => ~Occurs("End")
          /\ tasks'[j].event = "End" /\ Before(j)' => ~Occurs("End")
          /\ tasks'[j].event # "Made" \/ tasks'[j].at \in {"cancel", "start"} => Occurs("Made")
          /\ tasks'[j].event = "End" \/ tasks'[j].at = "end" => Occurs("Start")
  <2>1. CASE \E j \in Tasks : TRUE
    BY <1>2, <1>3 DEF PostedInOrder, Before
  <2>2. CASE Tasks = {}
    BY <1>2, <1>3, <2>2 DEF PostedInOrder, Before
  <2> QED
    BY <2>1, <2>2
<1> QED
  BY <1>1, <1>4 DEF PostedInOrder

LEMMA OrderPosted ==
    ASSUME Typed, Chain, PostedInOrder, NEW i \in Tasks, PostsOne(i)
    PROVE  PostedInOrder'
<1>1. PICK p \in Point, e \in Event :
         /\ Goes(i, p) /\ Post(e) /\ tasks[i].event = e
         /\ \/ /\ e = "Made" /\ tasks[i].at = "checked" /\ p \in {"cancel", "start"}
            \/ /\ e = "Start" /\ tasks[i].at = "checked" /\ p \in {"cancel", "end"}
            \/ /\ e = "Cancel" /\ tasks[i].at = "checked" /\ p \in {"reschedule", "finalize"}
            \/ e = "End" /\ tasks[i].at = "checked" /\ p = "reschedule"
            \/ e = "Finalize" /\ tasks[i].at = "finalized" /\ p = "stopping"
  BY PostsOneEffect
<1>2. listener' = listener /\ touching' = touching
  BY PostsOneEffect DEF outside
<1>3. /\ Occurs("Made")' <=> Occurs("Made") \/ e = "Made"
      /\ Occurs("Start")' <=> Occurs("Start") \/ e = "Start"
      /\ Occurs("End")' <=> Occurs("End") \/ e = "End"
  BY <1>1, PostEffect DEF Event
<1>4. /\ Tasks' = Tasks
      /\ \A j \in Tasks : j # i => tasks'[j] = tasks[j]
      /\ tasks'[i].event = e /\ tasks'[i].at = p
  BY <1>1, GoesEffect
<1>5. Occurs("Made")'
  BY <1>1, <1>3 DEF PostedInOrder
<1>6. CASE e = "Made"
  <2>1. \A j \in Tasks : j # i => tasks[j].event # "Made"
    BY <1>1, <1>6 DEF Chain
  <2> QED
    BY <1>1, <1>2, <1>3, <1>4, <1>5, <1>6, <2>1 DEF PostedInOrder, Before
<1>7. CASE e = "Start"
  <2>1. \A j \in Tasks : /\ j # i => tasks[j].event # "Start"
                         /\ tasks[j].event = "Made" => tasks[j].at = "done"
    BY <1>1, <1>7 DEF Chain
  <2> QED
    BY <1>1, <1>2, <1>3, <1>4, <1>5, <1>7, <2>1 DEF PostedInOrder, Before
<1>8. CASE e = "End"
  <2>1. \A j \in Tasks : /\ j # i => tasks[j].event # "End"
                         /\ tasks[j].event \in {"Made", "Start"} => tasks[j].at = "done"
    BY <1>1, <1>8 DEF Chain
  <2> QED
    BY <1>1, <1>2, <1>3, <1>4, <1>5, <1>8, <2>1 DEF PostedInOrder, Before
<1>9. CASE e \in {"Cancel", "Finalize"}
  BY <1>1, <1>2, <1>3, <1>4, <1>5, <1>9 DEF PostedInOrder, Before
<1> QED
  BY <1>6, <1>7, <1>8, <1>9 DEF Event

LEMMA OrderScheduled ==
    ASSUME Typed, Chain, PostedInOrder, NEW i \in Tasks, Schedules(i)
    PROVE  PostedInOrder'
<1> DEFINE p == tasks[i].at
           e == Plan[p].event
<1>1. /\ p \in DOMAIN Plan
      /\ Len(tasks') = Len(tasks) + 1
      /\ \A j \in Tasks : j # i => tasks'[j] = tasks[j]
      /\ tasks'[i].event = tasks[i].event /\ tasks'[i].at = "done"
      /\ tasks'[Len(tasks) + 1].event = e
      /\ tasks'[Len(tasks) + 1].at = "pending"
      /\ posted' = posted /\ listener' = listener
  BY SchedulesEffect DEF outside, history
<1>2. /\ p \in {"start", "cancel", "end", "finalize", "keepalive"}
      /\ p = "start" => e = "Start"
      /\ p = "cancel" => e = "Cancel"
      /\ p = "end" => e = "End"
      /\ p \in {"finalize", "keepalive"} => e = "Finalize"
  BY <1>1, PlanEffect
<1>3. /\ p = "start" => tasks[i].event = "Made"
      /\ p \in {"finalize", "keepalive"} => tasks[i].event # "Made"
      /\ p = "end" => tasks[i].event = "Start"
  BY TaskFields DEF Chain, Fits
<1>4. Occurs("Made")
  BY <1>2, <1>3 DEF PostedInOrder
<1>5. /\ e = "Start" => ~Occurs("Start") /\ ~Occurs("End")
      /\ e = "End" => Occurs("Start") /\ ~Occurs("End")
  BY <1>2, <1>3 DEF PostedInOrder
<1>6. e \in {"Start", "End", "Cancel", "Finalize"}
  BY <1>2
<1> HIDE DEF p, e
<1> QED
  BY <1>1, <1>4, <1>5, <1>6, OrderAppended

LEMMA OrderInit == Init => PostedInOrder /\ LifecycleOrder
<1> SUFFICES ASSUME Init PROVE PostedInOrder /\ LifecycleOrder
    OBVIOUS
<1>1. Tasks = {} /\ listener = "idle" /\ 1..Len(posted) = {}
  BY DEF Init, Tasks
<1>2. \A t \in Toucher : ~touching[t]
  BY Zenon DEF Init
<1> QED
  BY <1>1, <1>2 DEF PostedInOrder, LifecycleOrder, Once, Precedes

LEMMA OrderNext ==
    ASSUME Typed, Fresh, Chain, PostedInOrder, [Next]_vars
    PROVE  PostedInOrder'
<1>1. ASSUME NEW i \in Tasks, Moves(i) PROVE PostedInOrder'
  <2>1. PICK p \in Point :
           /\ Goes(i, p)
           /\ \/ /\ tasks[i].at = "pending"
                 /\ p \in {"checked", "done", "failed", "reschedule", "stopping"}
              \/ tasks[i].at = "stopping" /\ p = "done"
    BY <1>1, MovesEffect
  <2>2. /\ Tasks' = Tasks
        /\ \A j \in Tasks : j # i => tasks'[j] = tasks[j]
        /\ tasks'[i].event = tasks[i].event /\ tasks'[i].at = p
    BY <2>1, GoesEffect
  <2>3. posted' = posted /\ listener' = listener /\ touching' = touching
    BY <1>1, MovesEffect DEF history, outside
  <2>4. \A j \in Tasks :
           /\ tasks'[j].event = tasks[j].event
           /\ Before(j)' => Before(j)
           /\ tasks'[j].at # "done" => tasks[j].at # "done"
           /\ tasks'[j].at \in {"cancel", "start"} => Occurs("Made")
           /\ tasks'[j].at = "end" => Occurs("Start")
    BY <2>1, <2>2 DEF PostedInOrder, Before
  <2> QED
    BY <2>2, <2>3, <2>4, OrderKept DEF PostedInOrder
<1>2. ASSUME NEW i \in Tasks, PostsOne(i) PROVE PostedInOrder'
  BY <1>2, OrderPosted
<1>3. ASSUME NEW i \in Tasks, Reschedule(i) PROVE PostedInOrder'
  <2>1. posted' = posted /\ listener' = listener /\ touching' = touching
    BY <1>3 DEF Reschedule, history, outside
  <2>2. tasks[i].at = "reschedule"
    BY <1>3 DEF Reschedule
  <2>3. \A j \in Tasks :
           /\ tasks'[j].event = tasks[j].event
           /\ Before(j)' => Before(j)
           /\ tasks'[j].at # "done" => tasks[j].at # "done"
           /\ tasks'[j].at \in {"cancel", "start"} => Occurs("Made")
           /\ tasks'[j].at = "end" => Occurs("Start")
    BY <1>3, <2>2, RescheduleEffect DEF PostedInOrder, Before
  <2> QED
    BY <1>3, <2>1, <2>3, RescheduleEffect, OrderKept DEF PostedInOrder
<1>4. ASSUME NEW i \in Tasks, Schedules(i) PROVE PostedInOrder'
  BY <1>4, OrderScheduled
<1>5. ASSUME NEW i \in Tasks, Finalize(i) PROVE PostedInOrder'
  <2>1. /\ Tasks' = Tasks
        /\ \A j \in Tasks : j # i => tasks'[j] = tasks[j]
        /\ tasks'[i].event = tasks[i].event /\ tasks'[i].at = "finalized"
        /\ tasks[i].at = "checked"
    BY <1>5, GoesEffect DEF Finalize, Checked, Point
  <2>2. posted' = posted /\ listener' = listener /\ touching' = touching
    BY <1>5 DEF Finalize, history, outside
  <2>3. \A j \in Tasks :
           /\ tasks'[j].event = tasks[j].event
           /\ Before(j)' => Before(j)
           /\ tasks'[j].at # "done" => tasks[j].at # "done"
           /\ tasks'[j].at \in {"cancel", "start"} => Occurs("Made")
           /\ tasks'[j].at = "end" => Occurs("Start")
    BY <2>1 DEF PostedInOrder, Before
  <2> QED
    BY <2>1, <2>2, <2>3, OrderKept DEF PostedInOrder
<1>6. ASSUME tasks' = tasks, posted' = posted, touching' = touching, listener' # "cancelling"
      PROVE  PostedInOrder'
  <2>1. Tasks' = Tasks
    BY <1>6 DEF Tasks
  <2>2. \A j \in Tasks :
           /\ tasks'[j].event = tasks[j].event
           /\ Before(j)' => Before(j)
           /\ tasks'[j].at # "done" => tasks[j].at # "done"
           /\ tasks'[j].at \in {"cancel", "start"} => Occurs("Made")
           /\ tasks'[j].at = "end" => Occurs("Start")
    BY <1>6 DEF PostedInOrder, Before
  <2> QED
    BY <1>6, <2>1, <2>2, OrderKept DEF PostedInOrder
<1>7. ASSUME tasks' = tasks, posted' = posted, touching' = touching, listener' = listener
      PROVE  PostedInOrder'
  BY <1>7 DEF PostedInOrder, Tasks, Before, Occurs
<1>8. ASSUME next \in {"Start", "End", "Finalize"}, tasks' = CancelFuture(tasks),
             posted' = posted
      PROVE  PostedInOrder'
  <2>1. Occurs("Made")
    BY <1>8, CancelEffect DEF PostedInOrder, NoEvent
  <2>2. /\ Tasks' = Tasks
        /\ \A j \in Tasks :
           /\ tasks'[j].event = tasks[j].event
           /\ Before(j)' => Before(j)
           /\ tasks'[j].at # "done" => tasks[j].at # "done"
           /\ tasks'[j].at \in {"cancel", "start"} => Occurs("Made")
           /\ tasks'[j].at = "end" => Occurs("Start")
    BY <1>8, CancelEffect DEF PostedInOrder, NoEvent, Tasks, Before
  <2> QED
    BY <1>8, <2>1, <2>2, OrderKept
<1>9. ASSUME NEW e \in {"Cancel", "Finalize"}, NEW time \in Nat, Schedule(tasks, e, time),
             Occurs("Made"), posted' = posted, listener' # "cancelling" \/ listener' = listener
      PROVE  PostedInOrder'
  <2>1. tasks \in Seq(Task) /\ now \in 0..MaxTime /\ e \in Event
    BY <1>9 DEF Typed, Event
  <2>2. /\ Len(tasks') = Len(tasks) + 1
        /\ \A j \in Tasks : tasks'[j] = tasks[j]
        /\ tasks'[Len(tasks) + 1].event = e
        /\ tasks'[Len(tasks) + 1].at = "pending"
    BY <1>9, <2>1, ScheduleEffect DEF Tasks
  <2> QED
    BY <1>9, <2>1, <2>2, OrderAppended
<1>10. CASE ListenerSchedules
  <2>1. /\ cancelled \in Nat /\ Occurs("Made") /\ posted' = posted
        /\ listener' # "cancelling" /\ Schedule(tasks, "Cancel", cancelled)
    BY <1>10, MaxIsNat DEF ListenerSchedules, Typed, PostedInOrder, history
  <2> QED
    BY <1>9, <2>1
<1>11. ASSUME NEW t \in Toucher, TouchSchedules(t) PROVE PostedInOrder'
  <2>1. /\ now + KeepAlive \in Nat /\ Occurs("Made") /\ posted' = posted
        /\ listener' = listener /\ Schedule(tasks, "Finalize", now + KeepAlive)
    BY <1>11, MaxIsNat, LifecycleAssumption DEF TouchSchedules, Typed, PostedInOrder, history
  <2> QED
    BY <1>9, <2>1
<1>12. CASE DoStart
  <2>1. /\ posted' = <<>> /\ listener' # "cancelling" /\ \A t \in Toucher : ~touching'[t]
        /\ Schedule(<<>>, "Made", now) /\ now \in Nat /\ now \in 0..MaxTime
        /\ "Made" \in Event /\ <<>> \in Seq(Task) /\ Len(<<>>) = 0
    BY <1>12, MaxIsNat DEF DoStart, Fresh, Typed, Event, history, outside
  <2>2. /\ Len(tasks') = Len(<<>>) + 1
        /\ tasks'[Len(<<>>) + 1].event = "Made" /\ tasks'[Len(<<>>) + 1].at = "pending"
    BY <2>1, ScheduleEffect
  <2>3. \A j \in Tasks' : tasks'[j].event = "Made" /\ tasks'[j].at = "pending"
    BY <2>1, <2>2 DEF Tasks
  <2>4. ~Occurs("Made")' /\ ~Occurs("Start")' /\ ~Occurs("End")'
    BY <2>1 DEF Occurs
  <2> QED
    BY <2>1, <2>3, <2>4 DEF PostedInOrder
<1>13. CASE Crash
  <2>1. /\ Tasks' = {} /\ listener' = "idle"
    BY <1>13 DEF Crash, Tasks
  <2>2. \A t \in Toucher : ~touching'[t]
    BY <1>13, Zenon DEF Crash
  <2> QED
    BY <2>1, <2>2 DEF PostedInOrder
<1>14. CASE ListenerTests
  BY <1>6, <1>8, <1>14 DEF ListenerTests, history
<1>15. ASSUME NEW t \in Toucher, TouchCancels(t) PROVE PostedInOrder'
  BY <1>8, <1>15 DEF TouchCancels, history
<1>16. CASE RSCancel
  BY <1>6, <1>7, <1>16 DEF RSCancel, chain, history
<1>17. CASE ListenerSets
  BY <1>6, <1>17 DEF ListenerSets, chain, history
<1>18. CASE Restart \/ NotifyStarted \/ Tick \/ UNCHANGED vars
  BY <1>7, <1>18 DEF Restart, NotifyStarted, Tick, vars, chain, history, outside
<1> QED
  BY <1>1, <1>2, <1>3, <1>4, <1>5, <1>10, <1>11, <1>12, <1>13, <1>14, <1>15, <1>16, <1>17,
     <1>18, Cases DEF Listens

(* The order of the events themselves.                                       *)
LEMMA OrderOfPosted ==
    ASSUME Typed, PostedInOrder, Chain, LifecycleOrder, [Next]_vars
    PROVE  LifecycleOrder'
<1>1. ASSUME NEW i \in Tasks, PostsOne(i) PROVE LifecycleOrder'
  <2>1. PICK p \in Point, e \in Event :
           /\ Post(e) /\ tasks[i].event = e
           /\ tasks[i].at = "checked" \/ e = "Finalize"
    BY <1>1, PostsOneEffect
  <2>2. /\ e = "Made" => ~Occurs("Made")
        /\ e = "Start" => ~Occurs("Start") /\ Occurs("Made")
        /\ e = "Cancel" => Occurs("Made")
        /\ e = "End" => ~Occurs("End") /\ Occurs("Start")
    BY <2>1 DEF PostedInOrder, Before
  <2>3. /\ posted \in Seq(Event) /\ posted' = Append(posted, e)
        /\ Len(posted) \in Nat /\ Len(posted') = Len(posted) + 1
        /\ \A j \in 1..Len(posted) : posted'[j] = posted[j]
        /\ posted'[Len(posted) + 1] = e
    BY <2>1 DEF Typed, Post
  <2>4. ASSUME NEW d, Once(d), e = d => ~Occurs(d) PROVE Once(d)'
    BY <2>3, <2>4 DEF Once, Occurs
  <2>5. ASSUME NEW c, NEW d, Precedes(c, d), e = d => Occurs(c) PROVE Precedes(c, d)'
    BY <2>3, <2>5 DEF Precedes, Occurs
  <2> QED
    BY <2>2, <2>4, <2>5 DEF LifecycleOrder
<1>2. CASE posted' = posted
  BY <1>2 DEF LifecycleOrder, Once, Precedes
<1>3. CASE posted' = <<>>
  <2>1. 1..Len(posted') = {}
    BY <1>3
  <2> QED
    BY <2>1 DEF LifecycleOrder, Once, Precedes
<1>4. ASSUME NEW i \in Tasks, Moves(i) \/ Reschedule(i) \/ Schedules(i) \/ Finalize(i)
      PROVE  posted' = posted
  BY <1>4, MovesEffect DEF Reschedule, Schedules, Finalize, history
<1>5. ASSUME NEW t \in Toucher, TouchCancels(t) \/ TouchSchedules(t) PROVE posted' = posted
  BY <1>5 DEF TouchCancels, TouchSchedules, history
<1>6. RSCancel \/ Listens \/ Restart \/ DoStart \/ NotifyStarted \/ Tick \/ UNCHANGED vars
         => posted' = posted
  BY DEF RSCancel, Listens, ListenerSets, ListenerTests, ListenerSchedules, Restart, DoStart,
         NotifyStarted, Tick, vars, history
<1>7. Crash => posted' = <<>>
  BY DEF Crash
<1> QED
  BY <1>1, <1>2, <1>3, <1>4, <1>5, <1>6, <1>7, Cases

-----------------------------------------------------------------------------
(* Why and when a reservation is finalized                                   *)

LEMMA Clocks ==
    ASSUME Typed
    PROVE  /\ now \in Nat /\ over \in Nat /\ finalized \in Nat /\ cancelled \in Nat
           /\ now <= MaxTime /\ now # Never /\ Deadline \in Nat
           /\ stored.cancelled \in Nat /\ stored.finalized \in Nat
           /\ IsFinalized => finalized # Never
<1>1. /\ now \in Nat /\ over \in Nat /\ finalized \in Nat /\ cancelled \in Nat
      /\ now <= MaxTime /\ now # Never
  BY MaxIsNat DEF Typed
<1>2. stored.cancelled \in Nat /\ stored.finalized \in Nat
  BY MaxIsNat DEF Typed
<1>3. Deadline \in Nat
  BY <1>1, LifecycleAssumption DEF Deadline, Earlier
<1>4. IsFinalized => finalized # Never
  BY <1>1, MaxIsNat DEF IsFinalized
<1> QED
  BY <1>1, <1>2, <1>3, <1>4

(* What does not change, or changes harmlessly.                              *)
LEMMA CausesKept ==
    ASSUME Causes, UNCHANGED <<now, finalized, touching, posted, cancelled, listener, stored>>
    PROVE  Causes'
BY DEF Causes, IsOver, Occurs

LEMMA TimesKept ==
    ASSUME Times, UNCHANGED <<now, finalized, posted, over, hasty, stored, service>>
    PROVE  Times'
BY DEF Times, IsOver, Occurs, Deadline

LEMMA TaskKept ==
    ASSUME NEW j, ReasonOf(j), WaitOf(j), tasks'[j] = tasks[j],
           UNCHANGED <<now, finalized, posted, over, hasty, stored>>
    PROVE  ReasonOf(j)' /\ WaitOf(j)'
BY DEF ReasonOf, WaitOf, IsOver, Occurs, Deadline

(* The cancellation of a pending task.                                       *)
LEMMA TaskCancelled ==
    ASSUME NEW j, ReasonOf(j), tasks'[j].event = tasks[j].event, tasks'[j].at = "cancelled",
           UNCHANGED <<posted, stored>>
    PROVE  ReasonOf(j)' /\ WaitOf(j)'
BY DEF ReasonOf, WaitOf, IsOver, Occurs

LEMMA ReasonsInit == Init => Reasons /\ Waited
<1> SUFFICES ASSUME Init PROVE Reasons /\ Waited
    OBVIOUS
<1>1. /\ Tasks = {} /\ listener = "idle" /\ 1..Len(posted) = {}
      /\ finalized = Never /\ cancelled = Never /\ over = Never
      /\ stored.cancelled = Never /\ stored.finalized = Never
      /\ service = "built"
  BY DEF Init, Tasks
<1>2. \A t \in Toucher : ~touching[t]
  BY Zenon DEF Init
<1>3. \A e : ~Occurs(e)
  BY <1>1 DEF Occurs
<1> QED
  BY <1>1, <1>2, <1>3 DEF Reasons, Causes, Waited, Times, IsOver

LEMMA ReasonsMoved ==
    ASSUME Typed, Fresh, Chain, Reasons, Waited, NEW i \in Tasks, Moves(i)
    PROVE  Reasons' /\ Waited'
<1>1. PICK p \in Point :
         /\ Goes(i, p)
         /\ \/ /\ tasks[i].event \in {"Made", "Cancel", "End"} /\ tasks[i].at = "pending"
               /\ tasks[i].due <= now /\ p \in {"checked", "done"}
            \/ /\ tasks[i].event = "Start" /\ tasks[i].at = "pending"
               /\ p \in {"failed", "checked"} \/ (p = "reschedule" /\ IsFinalized)
            \/ /\ tasks[i].event = "Finalize" /\ tasks[i].at = "pending"
               /\ tasks[i].due <= now
               /\ p = IF IsFinalized THEN "stopping" ELSE "checked"
            \/ /\ tasks[i].at = "stopping" /\ p = "done"
  BY MovesEffect
<1>2. /\ Tasks' = Tasks
      /\ \A j \in Tasks : j # i => tasks'[j] = tasks[j]
      /\ tasks'[i].event = tasks[i].event /\ tasks'[i].at = p
  BY <1>1, GoesEffect
<1>3. /\ UNCHANGED <<now, cancelled, finalized, stored, listener, touching, posted, over, hasty>>
      /\ service' = service \/ (service' = "terminated" /\ tasks[i].at = "stopping")
  BY MovesEffect DEF fields, outside, history
<1>4. Causes'
  BY <1>3, CausesKept DEF Reasons
<1>5. (tasks[i].at = "stopping" => finalized # Never) /\ service # "down"
  BY DEF Waited, WaitOf, Typed, Fresh, Tasks
<1>6. Times'
  <2>1. IsOver' = IsOver /\ Deadline' = Deadline
    BY <1>3 DEF IsOver, Occurs, Deadline
  <2> QED
    BY <1>3, <1>5, <2>1 DEF Waited, Times
<1>7. tasks[i].due \in Nat /\ End \in Nat /\ now \in Nat /\ Deadline \in Nat /\ finalized \in Nat
  BY TaskFields, Clocks, LifecycleAssumption, MaxIsNat
<1>8. /\ IsOver' <=> IsOver
      /\ Deadline' = Deadline
  BY <1>3 DEF IsOver, Occurs, Deadline
<1>9. ReasonOf(i)'
  <2>1. ReasonOf(i) /\ (IsFinalized => IsOver)
    BY Clocks DEF Reasons, Causes
  <2>2. p = "reschedule" => IsOver
    BY <1>1, <2>1
  <2>3. tasks[i].event = "End" => now >= End
    BY <1>1, <1>7, <2>1 DEF ReasonOf
  <2>4. p \notin {"keepalive", "finalize", "cancel", "pending"}
    BY <1>1
  <2> QED
    BY <1>2, <1>3, <1>8, <2>1, <2>2, <2>3, <2>4 DEF ReasonOf
<1>10. WaitOf(i)'
  <2>1. WaitOf(i) /\ (finalized # Never => finalized <= now)
    BY DEF Waited, Times
  <2>2. p = "stopping" => finalized # Never
    BY <1>1, Clocks
  <2>3. tasks[i].event = "Finalize" /\ p = "checked" => hasty \/ now >= Deadline
    BY <1>1, <1>7, <2>1 DEF WaitOf, IsFinalized
  <2>4. p \notin {"finalize", "finalized", "pending"}
    BY <1>1
  <2> QED
    BY <1>2, <1>3, <1>8, <2>2, <2>3, <2>4 DEF WaitOf
<1>11. \A j \in Tasks' : ReasonOf(j)' /\ WaitOf(j)'
  BY <1>2, <1>3, <1>9, <1>10, TaskKept DEF Reasons, Waited
<1> QED
  BY <1>4, <1>6, <1>11 DEF Reasons, Waited

(* The first post that says it is over sets the deadline, and nothing that    *)
(* depends on it is there yet.                                               *)
LEMMA FirstOver ==
    ASSUME Typed, Reasons, Waited, NEW e \in Event, Post(e), e \in {"End", "Cancel"}
    PROVE  /\ IsOver' /\ over' # Never /\ over' <= now
           /\ IsOver => over' = over
           /\ ~IsOver => /\ finalized = Never
                         /\ \A j \in Tasks : tasks[j].event # "Finalize"
<1>1. over' = Earlier(over, now) /\ over \in Nat /\ now \in Nat /\ now # Never /\ now <= MaxTime
  BY PostEffect, Clocks
<1>2. IsOver'
  BY PostEffect DEF IsOver, Event
<1>3. IsOver => over' = over /\ over' # Never /\ over' <= now
  BY <1>1 DEF Waited, Times, Earlier
<1>4. ~IsOver => over' # Never /\ over' <= now
  <2>1. ~IsOver => over = Never
    BY DEF Waited, Times
  <2> QED
    BY <1>1, <2>1, MaxIsNat DEF Earlier
<1>5. ~IsOver => finalized = Never /\ \A j \in Tasks : tasks[j].event # "Finalize"
  BY DEF Reasons, Causes, ReasonOf
<1> QED
  BY <1>2, <1>3, <1>4, <1>5

LEMMA ReasonsPosted ==
    ASSUME Typed, Fresh, Chain, Reasons, Waited, NEW i \in Tasks, PostsOne(i)
    PROVE  Reasons' /\ Waited'
<1>1. PICK p \in Point, e \in Event :
         /\ Goes(i, p) /\ Post(e) /\ tasks[i].event = e
         /\ \/ /\ e = "Made" /\ tasks[i].at = "checked"
               /\ p = IF cancelled < Start THEN "cancel" ELSE "start"
            \/ /\ e = "Start" /\ tasks[i].at = "checked"
               /\ p = IF cancelled < End THEN "cancel" ELSE "end"
            \/ /\ e = "Cancel" /\ tasks[i].at = "checked"
               /\ p = IF service = "running" THEN "reschedule" ELSE "finalize"
            \/ e = "End" /\ tasks[i].at = "checked" /\ p = "reschedule"
            \/ e = "Finalize" /\ tasks[i].at = "finalized" /\ p = "stopping"
  BY PostsOneEffect
<1>2. UNCHANGED <<now, service, cancelled, finalized, stored, listener, touching>>
  BY PostsOneEffect DEF fields, outside
<1>3. /\ Tasks' = Tasks
      /\ \A j \in Tasks : j # i => tasks'[j] = tasks[j]
      /\ tasks'[i].event = e /\ tasks'[i].at = p
  BY <1>1, GoesEffect
<1>4. /\ Occurs("End")' <=> Occurs("End") \/ e = "End"
      /\ Occurs("Cancel")' <=> Occurs("Cancel") \/ e = "Cancel"
      /\ Occurs("Finalize")' <=> Occurs("Finalize") \/ e = "Finalize"
      /\ IsOver' <=> IsOver \/ e \in {"End", "Cancel"}
  BY <1>1, PostEffect DEF Event, IsOver
<1>5. ReasonOf(i) /\ WaitOf(i)
  BY DEF Reasons, Waited
<1>6. p = "cancel" => stored.cancelled # Never
  <2>1. p = "cancel" => cancelled < Start \/ cancelled < End
    BY <1>1
  <2>2. p = "cancel" => cancelled # Never
    BY <2>1, Clocks, MaxIsNat, LifecycleAssumption
  <2> QED
    BY <2>2 DEF Reasons, Causes
<1>7. /\ e = "End" => now >= End
      /\ e = "Cancel" => stored.cancelled # Never
      /\ e = "Finalize" => IsOver
  BY <1>1, <1>5 DEF ReasonOf
<1>8. /\ p = "finalize" => hasty' \/ finalized # Never
      /\ hasty => hasty'
  <2>1. service \in {"starting", "running", "terminated"}
    BY DEF Typed, Fresh, Tasks
  <2>2. hasty' <=> hasty \/ (e = "Cancel" /\ service = "starting")
    BY <1>1, PostEffect
  <2> QED
    BY <1>1, <2>1, <2>2 DEF Waited, Times
<1>9. Causes'
  BY <1>2, <1>4, <1>7 DEF Reasons, Causes
<1>10. \A j \in Tasks : j # i => ReasonOf(j)'
  BY <1>2, <1>3, <1>4 DEF Reasons, ReasonOf
<1>11. ReasonOf(i)'
  <2>1. p \in {"reschedule", "keepalive", "finalize"} => e \in {"Cancel", "End"}
    BY <1>1
  <2>2. p # "pending"
    BY <1>1
  <2> QED
    BY <1>2, <1>3, <1>4, <1>6, <1>7, <2>1, <2>2 DEF ReasonOf
<1>12. CASE e \in {"End", "Cancel"}
  <2>1. /\ over' # Never /\ over' <= now
        /\ IsOver => over' = over
        /\ ~IsOver => finalized = Never /\ \A j \in Tasks : tasks[j].event # "Finalize"
    BY <1>1, <1>12, FirstOver
  <2>2. IsOver => Deadline' = Deadline
    BY <2>1 DEF Deadline
  <2>3. Times'
    BY <1>2, <1>8, <1>4, <1>12, <2>1, <2>2 DEF Waited, Times
  <2>4. \A j \in Tasks : j # i => WaitOf(j)'
    BY <1>2, <1>8, <1>3, <2>1, <2>2 DEF Waited, WaitOf
  <2>5. WaitOf(i)'
    BY <1>1, <1>2, <1>3, <1>8, <1>12 DEF WaitOf
  <2> QED
    BY <1>3, <1>9, <1>10, <1>11, <2>3, <2>4, <2>5 DEF Reasons, Waited
<1>13. CASE e \notin {"End", "Cancel"}
  <2>1. over' = over /\ Deadline' = Deadline
    BY <1>1, <1>13, PostEffect DEF Deadline
  <2>2. Times'
    BY <1>2, <1>8, <1>4, <1>13, <2>1 DEF Waited, Times
  <2>3. \A j \in Tasks : j # i => WaitOf(j)'
    BY <1>2, <1>8, <1>3, <2>1 DEF Waited, WaitOf
  <2>4. WaitOf(i)'
    BY <1>1, <1>2, <1>3, <1>5, <1>8, <1>13 DEF WaitOf
  <2> QED
    BY <1>3, <1>9, <1>10, <1>11, <2>2, <2>3, <2>4 DEF Reasons, Waited
<1> QED
  BY <1>12, <1>13

LEMMA WaitScheduled ==
    ASSUME Typed, Causes, Times, IsOver, NEW due \in Nat,
           now + KeepAlive <= due \/ MaxTime <= due
    PROVE  due >= Deadline
<1>1. over \in Nat /\ over <= now /\ now \in Nat
  BY Clocks DEF Times
<1> QED
  BY <1>1, LifecycleAssumption DEF Deadline, Earlier

(* A new task next to the old ones, of which one may be done now.             *)
LEMMA ReasonsAppended ==
    ASSUME Typed, Reasons, Waited, Causes', Times',
           Len(tasks') = Len(tasks) + 1,
           UNCHANGED <<now, finalized, stored, posted, over, hasty>>,
           \A j \in Tasks :
              \/ tasks'[j] = tasks[j]
              \/ /\ tasks'[j].event = tasks[j].event /\ tasks'[j].at = "done"
                 /\ tasks[j].at \notin {"pending", "cancelled"},
           NEW e, tasks'[Len(tasks) + 1].event = e, tasks'[Len(tasks) + 1].at = "pending",
           e = "Finalize" => IsOver,
           e = "Cancel" => stored.cancelled # Never,
           e = "End" => tasks'[Len(tasks) + 1].due >= End,
           e = "Finalize" =>
              hasty \/ tasks'[Len(tasks) + 1].due >= Deadline \/ finalized # Never
    PROVE  Reasons' /\ Waited'
<1>0. PICK k : k = Len(tasks) + 1
  OBVIOUS
<1>1. Tasks' = Tasks \cup {k}
  BY <1>0 DEF Tasks, Typed
<1>2. IsOver' = IsOver /\ Deadline' = Deadline
  BY DEF IsOver, Occurs, Deadline
<1>3. ReasonOf(k)' /\ WaitOf(k)'
  BY <1>0, <1>2 DEF ReasonOf, WaitOf
<1>4. ASSUME NEW j \in Tasks PROVE ReasonOf(j)' /\ WaitOf(j)'
  <2>1. ReasonOf(j) /\ WaitOf(j)
    BY DEF Reasons, Waited
  <2>2. CASE tasks'[j] = tasks[j]
    BY <2>1, <2>2, TaskKept
  <2>3. CASE /\ tasks'[j].event = tasks[j].event /\ tasks'[j].at = "done"
             /\ tasks[j].at \notin {"pending", "cancelled"}
    BY <1>2, <2>1, <2>3 DEF ReasonOf, WaitOf
  <2> QED
    BY <2>2, <2>3
<1> QED
  BY <1>1, <1>3, <1>4 DEF Reasons, Waited

LEMMA ReasonsScheduled ==
    ASSUME Typed, Chain, Reasons, Waited, NEW i \in Tasks, Schedules(i)
    PROVE  Reasons' /\ Waited'
<1> DEFINE p == tasks[i].at
           e == Plan[p].event
           k == Len(tasks) + 1
<1>1. /\ p \in DOMAIN Plan
      /\ tasks' \in Seq(Task)
      /\ Len(tasks') = Len(tasks) + 1
      /\ \A j \in Tasks : j # i => tasks'[j] = tasks[j]
      /\ tasks'[i].event = tasks[i].event /\ tasks'[i].at = "done"
      /\ tasks'[k].event = e
      /\ tasks'[k].at = "pending"
      /\ Plan[p].time <= tasks'[k].due \/ MaxTime <= tasks'[k].due
  BY SchedulesEffect
<1>2. UNCHANGED <<now, service, cancelled, finalized, stored, listener, touching, posted, over, hasty>>
  BY SchedulesEffect DEF fields, outside, history
<1>3. /\ p \in {"start", "cancel", "end", "finalize", "keepalive"}
      /\ p = "start" => e = "Start"
      /\ p = "cancel" => e = "Cancel"
      /\ p = "end" => e = "End" /\ Plan[p].time = End
      /\ p = "finalize" => e = "Finalize"
      /\ p = "keepalive" => e = "Finalize" /\ Plan[p].time = now + KeepAlive
  BY <1>1, PlanEffect
<1>4. ReasonOf(i) /\ WaitOf(i) /\ Causes /\ Times
  BY DEF Reasons, Waited
<1>5. tasks'[k].due \in Nat
  <2>1. k \in 1..Len(tasks')
    BY <1>1 DEF Typed
  <2>2. tasks'[k] \in Task
    BY <1>1, <2>1
  <2> QED
    BY <2>2, MaxIsNat DEF Task
<1>6. Causes' /\ Times'
  BY <1>2, <1>4, CausesKept, TimesKept
<1>7. /\ e = "Finalize" => IsOver
      /\ e = "Cancel" => stored.cancelled # Never
  BY <1>3, <1>4 DEF ReasonOf
<1>8. e = "End" => tasks'[k].due >= End
  BY <1>1, <1>3, <1>5, LifecycleAssumption
<1>9. e = "Finalize" => hasty \/ tasks'[k].due >= Deadline \/ finalized # Never
  <2>1. p = "finalize" => hasty \/ finalized # Never
    BY <1>4 DEF WaitOf
  <2>2. p = "keepalive" => IsOver /\ (now + KeepAlive <= tasks'[k].due \/ MaxTime <= tasks'[k].due)
    BY <1>1, <1>3, <1>4 DEF ReasonOf
  <2>3. p = "keepalive" => tasks'[k].due >= Deadline
    BY <1>4, <1>5, <2>2, WaitScheduled
  <2> QED
    BY <1>3, <2>1, <2>3
<1>10. \A j \in Tasks :
          \/ tasks'[j] = tasks[j]
          \/ /\ tasks'[j].event = tasks[j].event /\ tasks'[j].at = "done"
             /\ tasks[j].at \notin {"pending", "cancelled"}
  BY <1>1, <1>3
<1> HIDE DEF p, e
<1> QED
  BY <1>1, <1>2, <1>6, <1>7, <1>8, <1>9, <1>10, ReasonsAppended

LEMMA ReasonsNext ==
    ASSUME Typed, Fresh, Chain, Reasons, Waited, [Next]_vars
    PROVE  Reasons' /\ Waited'
<1> USE DEF fields, outside, history
<1>1. ASSUME NEW i \in Tasks, Moves(i) PROVE Reasons' /\ Waited'
  BY <1>1, ReasonsMoved
<1>2. ASSUME NEW i \in Tasks, PostsOne(i) PROVE Reasons' /\ Waited'
  BY <1>2, ReasonsPosted
<1>3. ASSUME NEW i \in Tasks, Reschedule(i) PROVE Reasons' /\ Waited'
  <2>1. UNCHANGED <<now, service, cancelled, finalized, stored, listener, touching, posted, over, hasty>>
    BY <1>3 DEF Reschedule
  <2>2. Causes' /\ Times'
    BY <2>1, CausesKept, TimesKept DEF Reasons, Waited
  <2>3. tasks[i].at = "reschedule" /\ Tasks' = Tasks
    BY <1>3, RescheduleEffect DEF Reschedule
  <2>4. /\ tasks'[i].event = tasks[i].event /\ tasks'[i].at = "keepalive"
        /\ \A j \in Tasks : j # i => \/ tasks'[j] = tasks[j]
                                     \/ /\ tasks'[j].event = tasks[j].event
                                        /\ tasks'[j].at = "cancelled"
    BY <1>3, RescheduleEffect
  <2>5. ReasonOf(i)' /\ WaitOf(i)'
    <3>1. ReasonOf(i) /\ IsOver' = IsOver
      BY <2>1 DEF Reasons, IsOver, Occurs
    <3> QED
      BY <2>1, <2>3, <2>4, <3>1 DEF ReasonOf, WaitOf
  <2>6. \A j \in Tasks : j # i => ReasonOf(j)' /\ WaitOf(j)'
    BY <2>1, <2>4, TaskKept, TaskCancelled DEF Reasons, Waited
  <2> QED
    BY <2>2, <2>3, <2>5, <2>6 DEF Reasons, Waited
<1>4. ASSUME NEW i \in Tasks, Schedules(i) PROVE Reasons' /\ Waited'
  BY <1>4, ReasonsScheduled
<1>5. ASSUME NEW i \in Tasks, Finalize(i) PROVE Reasons' /\ Waited'
  <2>1. /\ tasks[i].event = "Finalize" /\ tasks[i].at = "checked"
        /\ finalized' = now
        /\ stored' = [stored EXCEPT !.finalized = now]
        /\ UNCHANGED <<now, service, cancelled, listener, touching, posted, over, hasty>>
    BY <1>5 DEF Finalize, Checked
  <2>2. stored'.cancelled = stored.cancelled /\ stored'.finalized = now
    BY <2>1 DEF Typed
  <2>3. /\ Tasks' = Tasks
        /\ \A j \in Tasks : j # i => tasks'[j] = tasks[j]
        /\ tasks'[i].event = "Finalize" /\ tasks'[i].at = "finalized"
    BY <1>5, <2>1, GoesEffect DEF Finalize, Point
  <2>4. /\ IsOver' = IsOver /\ Deadline' = Deadline /\ IsOver
        /\ hasty \/ now >= Deadline
        /\ now # Never /\ now \in Nat
    <3>1. IsOver /\ (hasty \/ now >= Deadline)
      BY <2>1 DEF Reasons, Waited, ReasonOf, WaitOf
    <3> QED
      BY <2>1, <3>1, Clocks DEF IsOver, Occurs, Deadline
  <2>5. IsOver => now >= End \/ stored.cancelled # Never
    BY DEF Reasons, Causes, IsOver
  <2>6. /\ Occurs("End")' = Occurs("End") /\ Occurs("Cancel")' = Occurs("Cancel")
        /\ Occurs("Finalize")' = Occurs("Finalize")
    BY <2>1 DEF Occurs
  <2>7. Causes'
    BY <2>1, <2>2, <2>4, <2>5, <2>6 DEF Reasons, Causes
  <2>8. Times'
    BY <2>1, <2>2, <2>4 DEF Waited, Times
  <2>9. \A j \in Tasks : j # i => ReasonOf(j)' /\ WaitOf(j)'
    BY <2>1, <2>2, <2>3, <2>4 DEF Reasons, Waited, ReasonOf, WaitOf
  <2>10. ReasonOf(i)' /\ WaitOf(i)'
    BY <2>1, <2>3, <2>4 DEF ReasonOf, WaitOf
  <2> QED
    BY <2>3, <2>7, <2>8, <2>9, <2>10 DEF Reasons, Waited
<1>6. CASE RSCancel
  <2>1. /\ stored' = [stored EXCEPT !.cancelled = now]
        /\ UNCHANGED <<now, service, tasks, cancelled, finalized, touching, posted, over, hasty>>
    BY <1>6 DEF RSCancel, chain
  <2>2. stored'.cancelled = now /\ stored'.finalized = stored.finalized /\ now # Never
    BY <2>1, Clocks DEF Typed
  <2>3. /\ IsOver' = IsOver /\ Deadline' = Deadline /\ Tasks' = Tasks
        /\ Occurs("End")' = Occurs("End") /\ Occurs("Finalize")' = Occurs("Finalize")
    BY <2>1 DEF IsOver, Occurs, Deadline, Tasks
  <2>4. Causes'
    BY <2>1, <2>2, <2>3 DEF Reasons, Causes
  <2>5. Times'
    BY <2>1, <2>2, <2>3 DEF Waited, Times
  <2>6. \A j \in Tasks : ReasonOf(j)' /\ WaitOf(j)'
    BY <2>1, <2>2, <2>3 DEF Reasons, Waited, ReasonOf, WaitOf
  <2> QED
    BY <2>3, <2>4, <2>5, <2>6 DEF Reasons, Waited
<1>7. ASSUME UNCHANGED <<now, service, finalized, stored, posted, over, hasty>>, Causes', Tasks' = Tasks,
             \A j \in Tasks : \/ tasks'[j] = tasks[j]
                              \/ tasks'[j].event = tasks[j].event /\ tasks'[j].at = "cancelled"
      PROVE  Reasons' /\ Waited'
  <2>1. Times'
    BY <1>7, TimesKept DEF Waited
  <2>2. \A j \in Tasks : ReasonOf(j)' /\ WaitOf(j)'
    BY <1>7, TaskKept, TaskCancelled DEF Reasons, Waited
  <2> QED
    BY <1>7, <2>1, <2>2 DEF Reasons, Waited
<1>8. CASE ListenerSets
  <2>1. /\ UNCHANGED <<now, service, tasks, finalized, stored, touching, posted, over, hasty>>
        /\ listener = "called" /\ listener' = "set" /\ cancelled' = stored.cancelled
    BY <1>8 DEF ListenerSets, chain
  <2>2. Causes'
    BY <2>1 DEF Reasons, Causes, IsOver, Occurs
  <2> QED
    BY <1>7, <2>1, <2>2 DEF Tasks
<1>9. CASE ListenerTests
  <2>1. /\ UNCHANGED <<now, service, cancelled, finalized, stored, touching, posted, over, hasty>>
        /\ listener = "set"
        /\ \/ tasks' = tasks
           \/ tasks' = CancelFuture(tasks) /\ next \in {"End", "Start"}
    BY <1>9 DEF ListenerTests
  <2>2. Causes'
    BY <2>1 DEF Reasons, Causes, IsOver, Occurs
  <2>3. /\ Tasks' = Tasks
        /\ \A j \in Tasks : \/ tasks'[j] = tasks[j]
                            \/ tasks'[j].event = tasks[j].event /\ tasks'[j].at = "cancelled"
    BY <2>1, CancelEffect DEF Tasks, NoEvent
  <2> QED
    BY <1>7, <2>1, <2>2, <2>3
<1>10. ASSUME NEW t \in Toucher, TouchCancels(t) PROVE Reasons' /\ Waited'
  <2>1. /\ UNCHANGED <<now, service, cancelled, finalized, stored, listener, posted, over, hasty>>
        /\ tasks' = CancelFuture(tasks) /\ next = "Finalize"
    BY <1>10 DEF TouchCancels
  <2>2. /\ Tasks' = Tasks
        /\ \A j \in Tasks : \/ tasks'[j] = tasks[j]
                            \/ tasks'[j].event = tasks[j].event /\ tasks'[j].at = "cancelled"
        /\ \E j \in Tasks : tasks[j].event = "Finalize"
    BY <2>1, CancelEffect DEF Tasks, NoEvent
  <2>3. IsOver
    BY <2>2 DEF Reasons, ReasonOf
  <2>4. Causes'
    BY <2>1, <2>3 DEF Reasons, Causes, IsOver, Occurs
  <2> QED
    BY <1>7, <2>1, <2>2, <2>4
<1>11. ASSUME NEW e \in {"Cancel", "Finalize"}, NEW time \in Nat, Schedule(tasks, e, time),
              UNCHANGED <<now, service, finalized, stored, posted, over, hasty>>, Causes',
              e = "Cancel" => stored.cancelled # Never,
              e = "Finalize" => IsOver /\ time = now + KeepAlive
       PROVE  Reasons' /\ Waited'
  <2>1. tasks \in Seq(Task) /\ now \in 0..MaxTime /\ e \in Event
    BY <1>11 DEF Typed, Event
  <2>2. /\ Len(tasks') = Len(tasks) + 1
        /\ \A j \in Tasks : tasks'[j] = tasks[j]
        /\ tasks'[Len(tasks) + 1].event = e
        /\ tasks'[Len(tasks) + 1].at = "pending"
        /\ tasks'[Len(tasks) + 1].due \in Nat
        /\ \/ time <= tasks'[Len(tasks) + 1].due
           \/ MaxTime <= tasks'[Len(tasks) + 1].due
    BY <1>11, <2>1, ScheduleEffect, MaxIsNat DEF Tasks
  <2>3. Times'
    BY <1>11, TimesKept DEF Waited
  <2>4. e = "Finalize" => tasks'[Len(tasks) + 1].due >= Deadline
    BY <1>11, <2>2, WaitScheduled DEF Reasons, Waited
  <2> QED
    BY <1>11, <2>2, <2>3, <2>4, ReasonsAppended
<1>12. CASE ListenerSchedules
  <2>1. /\ UNCHANGED <<now, service, cancelled, finalized, stored, touching, posted, over, hasty>>
        /\ listener = "cancelling" /\ listener' = "idle"
        /\ Schedule(tasks, "Cancel", cancelled) /\ cancelled \in Nat
    BY <1>12, Clocks DEF ListenerSchedules
  <2>2. Causes' /\ stored.cancelled # Never
    BY <2>1 DEF Reasons, Causes, IsOver, Occurs
  <2> QED
    BY <1>11, <2>1, <2>2
<1>13. ASSUME NEW t \in Toucher, TouchSchedules(t) PROVE Reasons' /\ Waited'
  <2>1. /\ UNCHANGED <<now, service, cancelled, finalized, stored, listener, posted, over, hasty>>
        /\ touching[t]
        /\ Schedule(tasks, "Finalize", now + KeepAlive) /\ now + KeepAlive \in Nat
    BY <1>13, Clocks, LifecycleAssumption DEF TouchSchedules
  <2>2. IsOver
    BY <2>1 DEF Reasons, Causes
  <2>3. Causes'
    BY <2>1, <2>2 DEF Reasons, Causes, IsOver, Occurs
  <2> QED
    BY <1>11, <2>1, <2>2, <2>3
<1>14. CASE Crash
  <2>1. /\ Tasks' = {} /\ listener' = "idle" /\ service' = "down"
        /\ finalized' = Never /\ cancelled' = Never /\ over' = Never
        /\ stored' = stored /\ now' = now /\ 1..Len(posted') = {}
    BY <1>14 DEF Crash, Tasks
  <2>2. \A t \in Toucher : ~touching'[t]
    BY <1>14, Zenon DEF Crash
  <2>3. ~Occurs("End")' /\ ~Occurs("Cancel")' /\ ~Occurs("Finalize")' /\ ~IsOver'
    BY <2>1 DEF Occurs, IsOver
  <2> QED
    BY <2>1, <2>2, <2>3 DEF Reasons, Waited, Causes, Times
<1>15. CASE Restart
  <2>1. /\ UNCHANGED <<now, tasks, finalized, stored, listener, touching, posted, over, hasty>>
        /\ service' = "built" /\ cancelled' = stored.cancelled
        /\ finalized = Never /\ stored.finalized = Never
    BY <1>15 DEF Restart, chain, Fresh
  <2>2. IsOver' = IsOver /\ Deadline' = Deadline
    BY <2>1 DEF IsOver, Occurs, Deadline
  <2>3. Causes'
    BY <2>1 DEF Reasons, Causes, IsOver, Occurs
  <2>4. Times'
    BY <2>1, <2>2 DEF Waited, Times
  <2>5. \A j \in Tasks : ReasonOf(j)' /\ WaitOf(j)'
    BY <2>1, TaskKept DEF Reasons, Waited
  <2> QED
    BY <2>1, <2>3, <2>4, <2>5 DEF Reasons, Waited, Tasks
<1>16. CASE DoStart
  <2>1. /\ UNCHANGED <<now, cancelled, finalized, stored, listener, touching, posted, over, hasty>>
        /\ service = "built" /\ service' = "starting"
        /\ Schedule(<<>>, "Made", now) /\ now \in Nat /\ now \in 0..MaxTime
        /\ "Made" \in Event /\ <<>> \in Seq(Task) /\ Len(<<>>) = 0
    BY <1>16, MaxIsNat DEF DoStart, Typed, Event
  <2>2. /\ Len(tasks') = Len(<<>>) + 1
        /\ tasks'[Len(<<>>) + 1].event = "Made" /\ tasks'[Len(<<>>) + 1].at = "pending"
    BY <2>1, ScheduleEffect
  <2>3. \A j \in Tasks' : tasks'[j].event = "Made" /\ tasks'[j].at = "pending"
    BY <2>1, <2>2 DEF Tasks
  <2>4. IsOver' = IsOver /\ Deadline' = Deadline
    BY <2>1 DEF IsOver, Occurs, Deadline
  <2>5. Causes' /\ Times'
    BY <2>1, <2>4, CausesKept DEF Reasons, Waited, Times
  <2>6. \A j \in Tasks' : ReasonOf(j)' /\ WaitOf(j)'
    BY <2>3 DEF ReasonOf, WaitOf
  <2> QED
    BY <2>5, <2>6 DEF Reasons, Waited
<1>17. CASE Tick
  <2>1. /\ UNCHANGED <<service, tasks, cancelled, finalized, stored, listener, touching, posted, over, hasty>>
        /\ now' = now + 1 /\ now \in Nat /\ now' \in Nat
    BY <1>17, Clocks DEF Tick, chain
  <2>2. /\ IsOver' = IsOver /\ Deadline' = Deadline /\ Tasks' = Tasks
        /\ Occurs("End")' = Occurs("End") /\ Occurs("Cancel")' = Occurs("Cancel")
        /\ Occurs("Finalize")' = Occurs("Finalize")
    BY <2>1 DEF IsOver, Occurs, Deadline, Tasks
  <2>3. End \in Nat /\ Deadline \in Nat /\ over \in Nat /\ finalized \in Nat
    BY Clocks, LifecycleAssumption
  <2>4. Causes'
    BY <2>1, <2>2, <2>3 DEF Reasons, Causes
  <2>5. Times'
    BY <2>1, <2>2, <2>3 DEF Waited, Times
  <2>6. \A j \in Tasks : ReasonOf(j)' /\ WaitOf(j)'
    BY <2>1, <2>2, <2>3 DEF Reasons, Waited, ReasonOf, WaitOf
  <2> QED
    BY <2>2, <2>4, <2>5, <2>6 DEF Reasons, Waited
<1>18. CASE UNCHANGED vars
  <2>1. UNCHANGED <<now, service, tasks, cancelled, finalized, stored, listener, touching, posted, over, hasty>>
    BY <1>18 DEF vars
  <2>2. Causes'
    BY <2>1, CausesKept DEF Reasons
  <2> QED
    BY <1>7, <2>1, <2>2 DEF Tasks
<1>19. CASE NotifyStarted
  <2>1. /\ UNCHANGED <<now, tasks, cancelled, finalized, stored, listener, touching, posted, over,
                       hasty>>
        /\ service = "starting" /\ service' = "running"
    BY <1>19 DEF NotifyStarted, chain
  <2>2. IsOver' = IsOver /\ Deadline' = Deadline
    BY <2>1 DEF IsOver, Occurs, Deadline
  <2>3. Causes' /\ Times'
    BY <2>1, <2>2, CausesKept DEF Reasons, Waited, Times
  <2>4. \A j \in Tasks : ReasonOf(j)' /\ WaitOf(j)'
    BY <2>1, TaskKept DEF Reasons, Waited
  <2> QED
    BY <2>1, <2>3, <2>4 DEF Reasons, Waited, Tasks
<1> QED
  BY <1>1, <1>2, <1>3, <1>4, <1>5, <1>6, <1>8, <1>9, <1>10, <1>12, <1>13, <1>14, <1>15, <1>16,
     <1>17, <1>18, <1>19, Cases DEF Listens

-----------------------------------------------------------------------------
(* How many tasks there are                                                  *)

LEMMA Sizes ==
    ASSUME Typed
    PROVE  /\ Len(tasks) \in Nat /\ calls \in Nat
           /\ ToCome \in 0..4
           /\ tasks # <<>> => ToCome \in 0..3
           /\ tasks # <<>> /\ Alive("Made") => ToCome = 3
           /\ tasks # <<>> /\ ~Alive("Made") => ToCome \in 0..2
           /\ tasks # <<>> /\ ~Alive("Made") /\ Alive("Start") => ToCome = 2
           /\ tasks # <<>> /\ ~Alive("Made") /\ ~Alive("Start") => ToCome \in 0..1
           /\ tasks # <<>> /\ ~Alive("Made") /\ ~Alive("Start") /\ Alive("End") => ToCome = 1
           /\ tasks # <<>> /\ ~Alive("Made") /\ ~Alive("Start") /\ ~Alive("End") => ToCome = 0
           /\ IsFiniteSet(Cancelling) /\ Cardinality(Cancelling) \in Nat
           /\ Listening \in 0..2
           /\ Room \in Nat
<1>1. Len(tasks) \in Nat /\ calls \in Nat
  BY LifecycleAssumption DEF Typed
<1>2. IsFiniteSet(Tasks)
  BY <1>1, FS_Interval DEF Tasks
<1>3. IsFiniteSet(Cancelling)
  BY <1>2, FS_Subset DEF Cancelling
<1>4. Cardinality(Cancelling) \in Nat
  BY <1>3, FS_CardinalityType
<1> QED
  BY <1>1, <1>3, <1>4 DEF ToCome, Listening, Room

(* The arithmetic of the steps that follow: of the tasks and those to come,    *)
LEMMA Sums ==
    \A n, t, u, c, d \in Nat :
       /\ n <= n + t + c
       /\ u <= t /\ d <= c => n + u + d <= n + t + c
       /\ \/ u <= t /\ d < c
          \/ u < t /\ d <= c
          \/ u < t - 1 /\ d <= c + 1
             => n + 1 + u + d <= n + t + c
       /\ u <= t /\ d <= c => n + 1 + u + d <= n + t + c + 1
       /\ u <= t /\ d <= c + 1 => n + 1 + u + d <= n + t + c + 2
OBVIOUS

(* and of these, the threads in touch(), the listener and the calls.          *)
LEMMA Bounds ==
    \A r, s, t, u, l, m, c, d \in Nat :
       /\ r + t + l <= 4 + 2 * c
       /\ \/ s <= r /\ u = t /\ m <= l /\ d = c
          \/ s <= r /\ u = t /\ m <= l + 2 /\ d = c + 1
          \/ s <= r + 2 /\ u = t /\ m = 0 /\ l = 2 /\ d = c
          \/ s <= r /\ u = t + 1 /\ m = l /\ d = c + 1
          \/ s <= r + 1 /\ u + 1 = t /\ m = l /\ d = c
       => s + u + m <= 4 + 2 * d
OBVIOUS

(* The tasks are the old ones, and none has come back to life.                *)
LEMMA CountKept ==
    ASSUME Typed, Typed', Len(tasks') = Len(tasks),
           \A j \in Tasks :
              /\ tasks'[j].event = tasks[j].event
              /\ tasks'[j].at \notin {"done", "failed", "cancelled"} =>
                    tasks[j].at \notin {"done", "failed", "cancelled"}
              /\ tasks'[j].at # "done" => tasks[j].at # "done"
    PROVE  /\ ToCome' <= ToCome /\ ToCome' \in Nat
           /\ Cardinality(Cancelling') <= Cardinality(Cancelling)
           /\ Cardinality(Cancelling') \in Nat
           /\ Room' <= Room /\ Room' \in Nat
<1>1. Tasks' = Tasks
  BY DEF Tasks
<1>2. \A e : Alive(e)' => Alive(e)
  BY <1>1 DEF Alive
<1>3. tasks' = <<>> <=> tasks = <<>>
  <2>1. tasks \in Seq(Task) /\ tasks' \in Seq(Task)
    BY DEF Typed
  <2> QED
    BY <2>1
<1>4. ToCome' <= ToCome /\ ToCome' \in Nat
  BY <1>2, <1>3 DEF ToCome
<1>5. Cancelling' \subseteq Cancelling
  BY <1>1 DEF Cancelling
<1>6. /\ Cardinality(Cancelling') <= Cardinality(Cancelling)
      /\ Cardinality(Cancelling') \in Nat
  BY <1>5, Sizes, FS_Subset, FS_CardinalityType
<1>7. Room' <= Room /\ Room' \in Nat
  BY <1>4, <1>6, Sizes, Sums, SMTT(60) DEF Room
<1> QED
  BY <1>4, <1>6, <1>7

(* One more task, and some old ones may be done.                             *)
LEMMA CountAppended ==
    ASSUME Typed, Typed', tasks # <<>>, Len(tasks') = Len(tasks) + 1,
           \A j \in Tasks :
              /\ tasks'[j].event = tasks[j].event
              /\ tasks'[j] = tasks[j] \/ tasks'[j].at = "done",
           NEW e, tasks'[Len(tasks) + 1].event = e, tasks'[Len(tasks) + 1].at = "pending"
    PROVE  /\ tasks' # <<>> /\ Cardinality(Cancelling') \in Nat
           /\ e \in {"Cancel", "Finalize"} => ToCome' <= ToCome
           /\ Cardinality(Cancelling') <= Cardinality(Cancelling) + 1
           /\ e # "Cancel" => Cardinality(Cancelling') <= Cardinality(Cancelling)
           /\ \A i \in Tasks : e # "Cancel" /\ i \in Cancelling /\ tasks'[i].at = "done" =>
                 Cardinality(Cancelling') < Cardinality(Cancelling)
<1>1. PICK k : k = Len(tasks) + 1
  OBVIOUS
<1>2. Tasks' = Tasks \cup {k} /\ k \notin Tasks
  <2>1. Len(tasks) \in Nat
    BY DEF Typed
  <2> QED
    BY <1>1, <2>1 DEF Tasks
<1>3. tasks' # <<>>
  <2>1. Len(tasks) \in Nat
    BY DEF Typed
  <2> QED
    BY <2>1
<1>4. \A d \in {"Made", "Start", "End"} : d # e => (Alive(d)' => Alive(d))
  BY <1>1, <1>2 DEF Alive
<1>5. e \in {"Cancel", "Finalize"} => ToCome' <= ToCome
  BY <1>3, <1>4 DEF ToCome
<1>6. /\ IsFiniteSet(Cancelling) /\ Cardinality(Cancelling) \in Nat
      /\ k \notin Cancelling
  BY <1>2, Sizes DEF Cancelling
<1>7. /\ Cancelling' \subseteq Cancelling \cup {k}
      /\ e # "Cancel" => Cancelling' \subseteq Cancelling
      /\ \A i \in Tasks : tasks'[i].at = "done" => i \notin Cancelling'
  BY <1>1, <1>2 DEF Cancelling
<1>8. /\ Cardinality(Cancelling') <= Cardinality(Cancelling) + 1
      /\ Cardinality(Cancelling') \in Nat
  <2>1. /\ IsFiniteSet(Cancelling \cup {k})
        /\ Cardinality(Cancelling \cup {k}) = Cardinality(Cancelling) + 1
    BY <1>6, FS_AddElement
  <2>2. /\ IsFiniteSet(Cancelling')
        /\ Cardinality(Cancelling') <= Cardinality(Cancelling \cup {k})
    BY <1>7, <2>1, FS_Subset
  <2> QED
    BY <2>1, <2>2, FS_CardinalityType
<1>9. e # "Cancel" => Cardinality(Cancelling') <= Cardinality(Cancelling)
  BY <1>6, <1>7, FS_Subset
<1>10. ASSUME NEW i \in Tasks, e # "Cancel", i \in Cancelling, tasks'[i].at = "done"
       PROVE  Cardinality(Cancelling') < Cardinality(Cancelling)
  <2>1. /\ IsFiniteSet(Cancelling \ {i})
        /\ Cardinality(Cancelling \ {i}) = Cardinality(Cancelling) - 1
    BY <1>6, <1>10, FS_RemoveElement
  <2>2. Cancelling' \subseteq Cancelling \ {i}
    BY <1>7, <1>10
  <2>3. Cardinality(Cancelling') <= Cardinality(Cancelling \ {i})
    BY <2>1, <2>2, FS_Subset
  <2>4. Cardinality(Cancelling') \in Nat
    BY <2>1, <2>2, FS_Subset, FS_CardinalityType
  <2> QED
    BY <1>6, <2>1, <2>3, <2>4
<1> QED
  BY <1>3, <1>5, <1>8, <1>9, <1>10

LEMMA CountScheduled ==
    ASSUME Typed, Typed', Chain, Chain', NEW i \in Tasks, Schedules(i)
    PROVE  Room' <= Room /\ Room' \in Nat
<1> DEFINE p == tasks[i].at
           k == Len(tasks) + 1
<1>1. PICK e : e = Plan[p].event
  OBVIOUS
<1>2. /\ p \in DOMAIN Plan
      /\ Len(tasks') = Len(tasks) + 1
      /\ \A j \in Tasks : j # i => tasks'[j] = tasks[j]
      /\ tasks'[i].event = tasks[i].event /\ tasks'[i].at = "done"
      /\ tasks'[k].event = e
      /\ tasks'[k].at = "pending"
  BY <1>1, SchedulesEffect
<1>3. /\ p \in {"start", "cancel", "end", "finalize", "keepalive"}
      /\ p = "start" => e = "Start"
      /\ p = "cancel" => e = "Cancel"
      /\ p = "end" => e = "End"
      /\ p \in {"finalize", "keepalive"} => e = "Finalize"
  BY <1>1, <1>2, PlanEffect
<1>4. /\ p = "start" => tasks[i].event = "Made"
      /\ p = "cancel" => tasks[i].event \in {"Made", "Start"}
      /\ p = "end" => tasks[i].event = "Start"
      /\ p = "finalize" => tasks[i].event = "Cancel"
      /\ p = "keepalive" => tasks[i].event \in {"Start", "End", "Cancel"}
  BY TaskFields DEF Chain, Fits
<1>5. /\ Tasks' = Tasks \cup {k} /\ k \notin Tasks /\ tasks # <<>>
  <2>1. Len(tasks) \in Nat
    BY DEF Typed
  <2>2. Tasks' = Tasks \cup {k} /\ k \notin Tasks
    BY <1>2, <2>1 DEF Tasks
  <2>3. tasks # <<>>
    BY DEF Tasks
  <2> QED
    BY <2>2, <2>3
<1>6. /\ tasks' # <<>>
      /\ e \in {"Cancel", "Finalize"} => ToCome' <= ToCome
      /\ Cardinality(Cancelling') \in Nat
      /\ Cardinality(Cancelling') <= Cardinality(Cancelling) + 1
      /\ e # "Cancel" => Cardinality(Cancelling') <= Cardinality(Cancelling)
      /\ e # "Cancel" /\ i \in Cancelling => Cardinality(Cancelling') < Cardinality(Cancelling)
  BY <1>2, <1>5, CountAppended
<1>7. /\ Len(tasks) \in Nat /\ ToCome \in 0..3 /\ ToCome' \in 0..3
      /\ Cardinality(Cancelling) \in Nat /\ Cardinality(Cancelling') \in Nat
  <2>1. ToCome' \in 0..3
    BY <1>6 DEF ToCome
  <2> QED
    BY <1>5, <1>6, <2>1, Sizes
<1>7a. p \notin {"done", "failed", "cancelled"}
  BY <1>3
<1>7b. \A d : tasks[i].event = d => Alive(d)
  BY <1>7a DEF Alive
<1>7c. \A d \in {"Made", "Start", "End"} : Alive(d)' =>
         \/ d = e
         \/ \E j \in Tasks : j # i /\ tasks[j].event = d
                                   /\ tasks[j].at \notin {"done", "failed", "cancelled"}
  BY <1>2, <1>5 DEF Alive
<1> HIDE DEF k
<1>7d. SUFFICES \/ ToCome' <= ToCome /\ Cardinality(Cancelling') < Cardinality(Cancelling)
                \/ ToCome' < ToCome /\ Cardinality(Cancelling') <= Cardinality(Cancelling)
                \/ ToCome' < ToCome - 1 /\ Cardinality(Cancelling') <= Cardinality(Cancelling) + 1
  <2>1. ToCome \in Nat /\ ToCome' \in Nat
    BY <1>7
  <2>2. Room' \in Nat
    BY <1>2, <1>7, <2>1 DEF Room
  <2> QED
    BY <1>2, <1>7, <2>1, <2>2, Sums DEF Room
<1>8. CASE tasks[i].event = "Cancel"
  <2>1. e = "Finalize" /\ i \in Cancelling
    BY <1>3, <1>4, <1>8 DEF Cancelling
  <2> QED
    BY <1>6, <1>7, <2>1
<1>9. CASE tasks[i].event = "Made"
  <2>1. ToCome = 3
    BY <1>5, <1>9, <1>7b, Sizes
  <2>2. \A j \in Tasks : j # i => tasks[j].event \notin {"Made", "Start", "End"}
    BY <1>7a, <1>9 DEF Chain
  <2>3. ~Alive("Made")' /\ (e = "Cancel" => ~Alive("Start")')
    BY <1>3, <1>4, <1>9, <1>7c, <2>2
  <2>4. ToCome' \in {0, 1, 2} /\ (e = "Cancel" => ToCome' \in {0, 1})
    BY <1>6, <2>3 DEF ToCome
  <2>5. ToCome' < ToCome /\ (e = "Cancel" => ToCome' < ToCome - 1)
    BY <2>1, <2>4
  <2>6. e \in {"Start", "Cancel"}
    BY <1>3, <1>4, <1>9
  <2> QED
    BY <1>6, <2>5, <2>6
<1>10. CASE tasks[i].event = "Start"
  <2>1. \A j \in Tasks : j # i => /\ tasks[j].event \notin {"Start", "End"}
                                  /\ tasks[j].event = "Made" => tasks[j].at = "done"
    BY <1>7a, <1>10 DEF Chain
  <2>2. ~Alive("Made")
    BY <1>10, <2>1 DEF Alive
  <2>3. ToCome = 2
    BY <1>5, <1>10, <1>7b, <2>2, Sizes
  <2>4. e \in {"End", "Cancel", "Finalize"}
    BY <1>3, <1>4, <1>10
  <2>5. /\ ~Alive("Made")' /\ ~Alive("Start")'
        /\ e # "End" => ~Alive("End")'
    BY <1>7c, <2>1, <2>4
  <2>6. ToCome' \in {0, 1} /\ (e # "End" => ToCome' = 0)
    BY <1>6, <2>5 DEF ToCome
  <2>7. ToCome' < ToCome /\ (e # "End" => ToCome' < ToCome - 1)
    BY <2>3, <2>6
  <2> QED
    BY <1>6, <2>4, <2>7
<1>11. CASE tasks[i].event = "End"
  <2>1. \A j \in Tasks : j # i => /\ tasks[j].event # "End"
                                  /\ tasks[j].event \in {"Made", "Start"} => tasks[j].at = "done"
    BY <1>11 DEF Chain
  <2>2. ~Alive("Made") /\ ~Alive("Start")
    BY <1>11, <2>1 DEF Alive
  <2>3. ToCome = 1
    BY <1>5, <1>11, <1>7b, <2>2, Sizes
  <2>4. e = "Finalize"
    BY <1>3, <1>4, <1>11
  <2>5. ~Alive("Made")' /\ ~Alive("Start")' /\ ~Alive("End")'
    BY <1>7c, <2>1, <2>4
  <2>6. ToCome' = 0
    BY <1>6, <2>5 DEF ToCome
  <2> QED
    BY <1>6, <1>7, <2>3, <2>4, <2>6
<1> QED
  BY <1>3, <1>4, <1>8, <1>9, <1>10, <1>11

LEMMA CountedInit == Init => Counted
<1> SUFFICES ASSUME Init PROVE Counted
    OBVIOUS
<1>1. Touching = {}
  <2>1. \A t \in Toucher : ~touching[t]
    BY Zenon DEF Init
  <2> QED
    BY <2>1 DEF Touching
<1>2. Cancelling = {} /\ Len(tasks) = 0 /\ ToCome = 4 /\ Listening = 0 /\ calls = 0
  BY DEF Init, Cancelling, Tasks, ToCome, Listening
<1> QED
  BY <1>1, <1>2, FS_EmptySet DEF Counted, Room

LEMMA CountedNext ==
    ASSUME Typed, Typed', Fresh, Chain, Chain', Counted, [Next]_vars
    PROVE  Counted'
<1> USE DEF outside
<1>0. /\ Room \in Nat /\ calls \in Nat /\ Listening \in 0..2
      /\ IsFiniteSet(Touching) /\ Cardinality(Touching) \in Nat
      /\ Room + Cardinality(Touching) + Listening <= 4 + 2 * calls
  BY Sizes, FS_CardinalityType DEF Counted
(* The threads are where they were.                                          *)
<1>1. ASSUME touching' = touching, Room' \in Nat, Listening' \in Nat, calls' \in Nat,
             \/ Room' <= Room /\ Listening' <= Listening /\ calls' = calls
             \/ Room' <= Room /\ Listening' <= Listening + 2 /\ calls' = calls + 1
             \/ Room' <= Room + 2 /\ Listening' = 0 /\ Listening = 2 /\ calls' = calls
      PROVE  Counted'
  <2>1. Touching' = Touching
    BY <1>1 DEF Touching
  <2>2. IsFiniteSet(Touching') /\ Cardinality(Touching') = Cardinality(Touching)
    BY <1>0, <2>1
  <2>3. Room' + Cardinality(Touching') + Listening' <= 4 + 2 * calls'
    <3>1. Listening \in Nat
      BY <1>0
    <3>2. CASE Room' <= Room /\ Listening' <= Listening /\ calls' = calls
      BY <1>0, <1>1, <2>2, <3>1, <3>2, Bounds, SMTT(60)
    <3>3. CASE Room' <= Room /\ Listening' <= Listening + 2 /\ calls' = calls + 1
      BY <1>0, <1>1, <2>2, <3>1, <3>3, Bounds, SMTT(60)
    <3>4. CASE Room' <= Room + 2 /\ Listening' = 0 /\ Listening = 2 /\ calls' = calls
      BY <1>0, <1>1, <2>2, <3>1, <3>4, Bounds, SMTT(60)
    <3> QED
      BY <1>1, <3>2, <3>3, <3>4
  <2> QED
    BY <2>2, <2>3 DEF Counted
<1>2. ASSUME Len(tasks') = Len(tasks), touching' = touching, calls' = calls,
             Listening' \in 0..2, Listening' <= Listening,
             \A j \in Tasks :
                /\ tasks'[j].event = tasks[j].event
                /\ tasks'[j].at \notin {"done", "failed", "cancelled"} =>
                      tasks[j].at \notin {"done", "failed", "cancelled"}
                /\ tasks'[j].at # "done" => tasks[j].at # "done"
      PROVE  Counted'
  <2>1. Room' <= Room /\ Room' \in Nat
    BY <1>2, CountKept
  <2>2. Listening' \in Nat /\ calls' \in Nat
    BY <1>0, <1>2, SMTT(30)
  <2> QED
    BY <1>1, <1>2, <2>1, <2>2
<1>3. ASSUME listener' = listener PROVE Listening' = Listening
  BY <1>3 DEF Listening
<1>4. ASSUME NEW i \in Tasks, Moves(i) \/ PostsOne(i) \/ Finalize(i) PROVE Counted'
  <2>1. PICK p \in Point : Goes(i, p)
    BY <1>4, MovesEffect, PostsOneEffect DEF Finalize, Point
  <2>2. tasks[i].at \in {"pending", "checked", "finalized", "stopping"}
    BY <1>4, MovesEffect, PostsOneEffect DEF Finalize, Checked
  <2>3. touching' = touching /\ calls' = calls /\ listener' = listener
    BY <1>4, MovesEffect, PostsOneEffect DEF Finalize
  <2>4. /\ Len(tasks') = Len(tasks)
        /\ \A j \in Tasks : j # i => tasks'[j] = tasks[j]
        /\ tasks'[i].event = tasks[i].event
    BY <2>1, GoesEffect
  <2>5. Listening' \in 0..2 /\ Listening' <= Listening
    BY <1>0, <1>3, <2>3
  <2>6. \A j \in Tasks :
           /\ tasks'[j].event = tasks[j].event
           /\ tasks'[j].at \notin {"done", "failed", "cancelled"} =>
                 tasks[j].at \notin {"done", "failed", "cancelled"}
           /\ tasks'[j].at # "done" => tasks[j].at # "done"
    BY <2>2, <2>4
  <2> QED
    BY <1>2, <2>3, <2>4, <2>5, <2>6
<1>5. ASSUME NEW i \in Tasks, Reschedule(i) PROVE Counted'
  <2>1. touching' = touching /\ calls' = calls /\ listener' = listener
        /\ tasks[i].at = "reschedule"
    BY <1>5 DEF Reschedule
  <2>2. \A j \in Tasks :
           /\ tasks'[j].event = tasks[j].event
           /\ tasks'[j].at \notin {"done", "failed", "cancelled"} =>
                 tasks[j].at \notin {"done", "failed", "cancelled"}
           /\ tasks'[j].at # "done" => tasks[j].at # "done"
    BY <1>5, <2>1, RescheduleEffect
  <2> QED
    BY <1>0, <1>2, <1>3, <1>5, <2>1, <2>2, RescheduleEffect
<1>6. ASSUME NEW i \in Tasks, Schedules(i) PROVE Counted'
  <2>1. touching' = touching /\ calls' = calls /\ listener' = listener
    BY <1>6 DEF Schedules
  <2>2. Room' <= Room /\ Room' \in Nat
    BY <1>6, CountScheduled
  <2> QED
    BY <1>0, <1>1, <1>3, <2>1, <2>2
<1>7. ASSUME next \in {"Start", "End", "Finalize"}, tasks' = CancelFuture(tasks)
      PROVE  /\ Len(tasks') = Len(tasks)
             /\ \A j \in Tasks :
                   /\ tasks'[j].event = tasks[j].event
                   /\ tasks'[j].at \notin {"done", "failed", "cancelled"} =>
                         tasks[j].at \notin {"done", "failed", "cancelled"}
                   /\ tasks'[j].at # "done" => tasks[j].at # "done"
  BY <1>7, CancelEffect DEF NoEvent
<1>8. CASE ListenerTests
  <2>1. /\ touching' = touching /\ calls' = calls /\ listener = "set"
        /\ tasks' = tasks \/ (tasks' = CancelFuture(tasks) /\ next \in {"Start", "End"})
    BY <1>8 DEF ListenerTests
  <2>2. Listening' \in 0..2 /\ Listening' <= Listening
    BY <2>1 DEF Listening
  <2> QED
    BY <1>2, <1>7, <2>1, <2>2
<1>9. CASE RSCancel
  <2>1. tasks' = tasks /\ touching' = touching /\ calls' = calls + 1
    BY <1>9 DEF RSCancel, chain
  <2>2. ToCome' = ToCome /\ Cancelling' = Cancelling /\ Listening' \in 0..2
    BY <2>1 DEF ToCome, Alive, Cancelling, Listening, Tasks
  <2>3. Room' = Room
    BY <2>1, <2>2 DEF Room
  <2>4. Room' <= Room /\ Room' \in Nat
    BY <1>0, <2>3
  <2>5. Listening' <= Listening + 2 /\ Listening' \in Nat
    BY <1>0, <2>2
  <2>6. calls' \in Nat
    BY <1>0, <2>1
  <2> QED
    BY <1>1, <2>1, <2>4, <2>5, <2>6
<1>10. CASE ListenerSets
  BY <1>0, <1>2, <1>10 DEF ListenerSets, chain, Listening
(* A task is added by the listener or by touch().                            *)
<1>11. ASSUME NEW e \in {"Cancel", "Finalize"}, NEW time \in Nat, Schedule(tasks, e, time),
              tasks # <<>>
       PROVE  /\ Room' \in Nat /\ Room' <= Room + 2
              /\ e # "Cancel" => Room' <= Room + 1
  <2>1. tasks \in Seq(Task) /\ now \in 0..MaxTime /\ e \in Event
    BY <1>11 DEF Typed, Event
  <2>2. /\ Len(tasks') = Len(tasks) + 1
        /\ \A j \in Tasks : tasks'[j] = tasks[j]
        /\ tasks'[Len(tasks) + 1].event = e
        /\ tasks'[Len(tasks) + 1].at = "pending"
    BY <1>11, <2>1, ScheduleEffect DEF Tasks
  <2>3. ToCome' \in Nat
    BY DEF ToCome
  <2>4. /\ ToCome' <= ToCome
        /\ Cardinality(Cancelling') <= Cardinality(Cancelling) + 1
        /\ e # "Cancel" => Cardinality(Cancelling') <= Cardinality(Cancelling)
        /\ Cardinality(Cancelling') \in Nat
    BY <1>11, <2>2, CountAppended
  <2>5. Len(tasks) \in Nat /\ ToCome \in Nat /\ Cardinality(Cancelling) \in Nat
    BY Sizes
  <2>6. Room' \in Nat
    BY <2>2, <2>3, <2>4, <2>5 DEF Room
  <2>7. Room' <= Room + 2
    BY <2>2, <2>3, <2>4, <2>5, Sums DEF Room
  <2>8. e # "Cancel" => Room' <= Room + 1
    <3>1. SUFFICES ASSUME e # "Cancel" PROVE Room' <= Room + 1
      OBVIOUS
    <3>2. Cardinality(Cancelling') <= Cardinality(Cancelling)
      BY <2>4, <3>1
    <3> QED
      BY <2>2, <2>3, <2>4, <2>5, <3>2, Sums DEF Room
  <2> QED
    BY <2>6, <2>7, <2>8
<1>12. CASE ListenerSchedules
  <2>1. /\ touching' = touching /\ calls' = calls /\ listener = "cancelling" /\ listener' = "idle"
        /\ Schedule(tasks, "Cancel", cancelled) /\ cancelled \in Nat
        /\ tasks # <<>>
    BY <1>12, Clocks DEF ListenerSchedules, Typed, Fresh
  <2>2. Listening = 2 /\ Listening' = 0
    BY <2>1 DEF Listening
  <2>3. Room' <= Room + 2 /\ Room' \in Nat
    BY <1>11, <2>1
  <2> QED
    BY <1>0, <1>1, <2>1, <2>2, <2>3
<1>13. ASSUME NEW t \in Toucher, TouchCancels(t) PROVE Counted'
  <2>1. /\ touching \in [Toucher -> BOOLEAN]
        /\ touching' = [touching EXCEPT ![t] = TRUE] /\ ~touching[t]
        /\ calls' = calls + 1 /\ listener' = listener
        /\ tasks' = CancelFuture(tasks) /\ next = "Finalize"
    BY <1>13 DEF TouchCancels, Typed
  <2>2. Touching' = Touching \cup {t} /\ t \notin Touching
    BY <2>1 DEF Touching
  <2>3. IsFiniteSet(Touching') /\ Cardinality(Touching') = Cardinality(Touching) + 1
    BY <1>0, <2>2, FS_AddElement
  <2>4. Room' <= Room /\ Room' \in Nat
    BY <1>7, <2>1, CountKept
  <2>5. Listening' = Listening
    BY <1>3, <2>1
  <2>6. Room' + Cardinality(Touching') + Listening' <= 4 + 2 * calls'
    <3>1. Listening \in Nat /\ calls' \in Nat /\ Cardinality(Touching') \in Nat
      BY <1>0, <2>1, <2>3, FS_CardinalityType
    <3> QED
      BY <1>0, <2>1, <2>3, <2>4, <2>5, <3>1, Bounds, SMTT(60)
  <2> QED
    BY <2>3, <2>6 DEF Counted
<1>14. ASSUME NEW t \in Toucher, TouchSchedules(t) PROVE Counted'
  <2>1. /\ touching \in [Toucher -> BOOLEAN]
        /\ touching' = [touching EXCEPT ![t] = FALSE] /\ touching[t]
        /\ calls' = calls /\ listener' = listener
        /\ Schedule(tasks, "Finalize", now + KeepAlive) /\ now + KeepAlive \in Nat
        /\ tasks # <<>>
    BY <1>14, Clocks, LifecycleAssumption, SMTT(30) DEF TouchSchedules, Typed, Fresh
  <2>2. Touching' = Touching \ {t} /\ t \in Touching
    BY <2>1 DEF Touching
  <2>3. IsFiniteSet(Touching') /\ Cardinality(Touching') + 1 = Cardinality(Touching)
    <3>1. Cardinality(Touching') = Cardinality(Touching) - 1 /\ IsFiniteSet(Touching')
      BY <1>0, <2>2, FS_RemoveElement
    <3> QED
      BY <1>0, <3>1
  <2>4. Room' <= Room + 1 /\ Room' \in Nat
    BY <1>11, <2>1
  <2>5. Listening' = Listening
    BY <1>3, <2>1
  <2>6. Room' + Cardinality(Touching') + Listening' <= 4 + 2 * calls'
    <3>1. Listening \in Nat /\ calls' \in Nat /\ Cardinality(Touching') \in Nat
      BY <1>0, <2>1, <2>3, FS_CardinalityType
    <3> QED
      BY <1>0, <2>1, <2>3, <2>4, <2>5, <3>1, Bounds, SMTT(60)
  <2> QED
    BY <2>3, <2>6 DEF Counted
<1>15. CASE Crash
  <2>1. tasks' = <<>> /\ listener' = "idle" /\ calls' = calls /\ Len(<<>>) = 0
    BY <1>15 DEF Crash
  <2>2. \A t \in Toucher : ~touching'[t]
    BY <1>15, Zenon DEF Crash
  <2>3. Touching' = {} /\ Cancelling' = {} /\ Len(tasks') = 0 /\ ToCome' = 4 /\ Listening' = 0
    BY <2>1, <2>2 DEF Touching, Cancelling, Tasks, ToCome, Listening
  <2>4. Room' = 4 /\ Cardinality(Touching') = 0 /\ IsFiniteSet(Touching')
    BY <2>3, FS_EmptySet DEF Room
  <2> QED
    BY <1>0, <2>1, <2>3, <2>4 DEF Counted
<1>16. CASE DoStart
  <2>1. /\ touching' = touching /\ calls' = calls /\ listener' = listener
        /\ Schedule(<<>>, "Made", now) /\ now \in Nat /\ now \in 0..MaxTime
        /\ "Made" \in Event /\ <<>> \in Seq(Task) /\ Len(<<>>) = 0
        /\ tasks = <<>>
    BY <1>16, MaxIsNat DEF DoStart, Typed, Fresh, Event
  <2>2. /\ Len(tasks') = Len(<<>>) + 1
        /\ tasks'[Len(<<>>) + 1].event = "Made" /\ tasks'[Len(<<>>) + 1].at = "pending"
    BY <2>1, ScheduleEffect
  <2>3. Len(tasks') = 1 /\ tasks' # <<>> /\ \A j \in Tasks' : tasks'[j].event = "Made"
    BY <2>1, <2>2, SMTT(30) DEF Tasks
  <2>4. Cancelling' = {} /\ ToCome' <= 3 /\ ToCome' \in Nat
    BY <2>3 DEF Cancelling, ToCome
  <2>5. Cancelling = {} /\ Len(tasks) = 0 /\ ToCome = 4
    BY <2>1 DEF ToCome, Cancelling, Tasks
  <2>6. Room = 4 /\ Room' <= 4 /\ Room' \in Nat
    BY <2>3, <2>4, <2>5, FS_EmptySet DEF Room
  <2> QED
    BY <1>0, <1>1, <1>3, <2>1, <2>6
<1>17. CASE Restart \/ NotifyStarted \/ Tick \/ UNCHANGED vars
  BY <1>0, <1>2, <1>3, <1>17 DEF Restart, NotifyStarted, Tick, vars, chain
<1> QED
  BY <1>4, <1>5, <1>6, <1>8, <1>9, <1>10, <1>12, <1>13, <1>14, <1>15, <1>16, <1>17, Cases
     DEF Listens

-----------------------------------------------------------------------------
(* The theorems                                                              *)

LifecycleInv ==
    Typed /\ Fresh /\ Chain /\ PostedInOrder /\ LifecycleOrder /\ Reasons /\ Waited /\ Counted

LEMMA LifecycleInvariant == Spec => []LifecycleInv
<1>1. Init => LifecycleInv
  BY TypedInit, ChainInit, OrderInit, ReasonsInit, CountedInit DEF LifecycleInv
<1>2. LifecycleInv /\ [Next]_vars => LifecycleInv'
  BY TypedNext, ChainNext, OrderNext, OrderOfPosted, ReasonsNext, CountedNext DEF LifecycleInv
<1> QED
  BY <1>1, <1>2, PTL DEF Spec

(* The fields, the scheduled tasks and the fields that point at them keep     *)
(* their types, and no run of the portal schedules more tasks than four, and  *)
(* two for each effective touch() or cancelReservation call.                  *)
THEOREM LifecycleTypes == Spec => []TypeOK
<1>1. LifecycleInv => TypeOK
  <2> SUFFICES ASSUME LifecycleInv PROVE TypeOK
      OBVIOUS
  <2>1. Len(tasks) <= MaxTasks
    <3>1. Typed /\ Counted
      BY DEF LifecycleInv
    <3>2. /\ calls \in Nat /\ Room \in Nat /\ Len(tasks) \in Nat /\ Listening \in 0..2
          /\ ToCome \in 0..4 /\ Cardinality(Cancelling) \in Nat
      BY <3>1, Sizes
    <3>3. Cardinality(Touching) \in Nat
      BY <3>1, FS_CardinalityType DEF Counted
    <3>4. calls <= MaxCalls /\ MaxCalls \in Nat
      BY <3>1, LifecycleAssumption DEF Typed
    <3>5. ToCome \in Nat
      BY <3>2
    <3>6. Len(tasks) <= Room
      BY <3>2, <3>5, Sums DEF Room
    <3>7. Room + Cardinality(Touching) + Listening <= 4 + 2 * calls
      BY <3>1 DEF Counted
    <3>8. Room <= 4 + 2 * calls
      BY <3>2, <3>3, <3>7
    <3>9. 4 + 2 * calls <= MaxTasks /\ MaxTasks \in Nat
      BY <3>2, <3>4 DEF MaxTasks
    <3> QED
      BY <3>2, <3>6, <3>8, <3>9
  <2>2. Typed
    BY DEF LifecycleInv
  <2>3. Task = [event : Event, due : 0..MaxTime,
                at : {"pending", "checked", "reschedule", "finalized", "stopping", "done",
                      "failed", "cancelled"} \cup DOMAIN Plan]
    BY Points DEF Task
  <2> QED
    BY <2>1, <2>2, <2>3, Zenon DEF TypeOK, Typed
<1> QED
  BY <1>1, LifecycleInvariant, PTL

(* A portal publishes that a reservation was made once and before anything    *)
(* else, that it started once, that it ended once and only after the start.   *)
THEOREM EventsInOrder == Spec => []LifecycleOrder
<1>1. LifecycleInv => LifecycleOrder
  BY DEF LifecycleInv
<1> QED
  BY <1>1, LifecycleInvariant, PTL

(* A running portal never finalizes a reservation before the keep-alive time  *)
(* has passed since it first published the end or the cancellation, unless    *)
(* it published a cancellation before doStart() had come to notifyStarted():  *)
(* isRunning() was FALSE then, and the finalization was not put off.          *)
THEOREM KeptAlive == Spec => []KeepAliveHonoured
<1>1. LifecycleInv => KeepAliveHonoured
  BY DEF LifecycleInv, Waited, Times, Deadline, KeepAliveHonoured
<1> QED
  BY <1>1, LifecycleInvariant, PTL

(* The database has a finalization only of a reservation whose end has come   *)
(* or that is cancelled, and no finalization is published before an end or a  *)
(* cancellation.                                                             *)
THEOREM NotFinalizedForNothing == Spec => []FinalizedForAReason
<1>1. LifecycleInv => FinalizedForAReason
  BY DEF LifecycleInv, Reasons, Causes, IsOver, FinalizedForAReason
<1> QED
  BY <1>1, LifecycleInvariant, PTL
=============================================================================
