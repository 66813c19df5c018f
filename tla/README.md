# A TLA+ model of the testbed runtime

The testbed runtime runs wireless sensor network testbeds.  Users reserve nodes
in a *reservation system* (RS), open a session at the *portal*, and get the
output of their nodes through SOAP `Controller` endpoints, while *gateways*
hold the connections to the nodes and talk to the portal over TCP.  *WiseGui*, a
single web page that the portal serves, does all this in a browser over REST and
WebSockets.  A federation of testbeds looks like one testbed to its users.

This directory has TLA+ modules of the parts whose correctness depends on the
order of steps of several threads, TLC configurations that check them, and
TLAPS proofs.  Paths below are shortened: `iwsn-portal/.../ReservationImpl.java`
is `src/iwsn-portal/src/main/java/de/uniluebeck/itm/tr/iwsn/portal/ReservationImpl.java`.
`PROJECT.json` maps every definition to the lines it models.

## 1. The system

| Component | State | Operations | Hard behaviour | What makes it correct |
|---|---|---|---|---|
| `DeliveryWorker` (iwsn-common) | five deques, two flags, a counter of errors, one of drops; a lock and a condition | `run`, `receive*`, `nodesAttached/Detached`, `reservationEnded`, `stopDelivery` | one consumer and many producers; calls that fail after they took effect; signals that come before the wait | nothing lost, overtaken or delivered without an account of it; bounded retries; it never sleeps on work; it ends |
| `DeliveryManagerImpl` (iwsn-common) | an immutable map of workers in a plain field; an executor | `addController`, `removeController`, broadcasts, `doStop` | no lock: client threads, workers that remove themselves, a shutdown thread | the map names the workers that serve; the shutdown ends |
| `ReservationImpl` (iwsn-portal) | the scheduled callable and its future, the dates of cancellation and finalization, service state | five callables, a persistence listener, `touch` | pool threads, RS threads and SOAP threads share fields without a lock; crash and rebuild | the order of events; a keep-alive time; finalization in the end |
| `ReservationManagerImpl`, `ReservationCacheImpl` (iwsn-portal) | maps from keys and nodes to reservations | `getReservation`, `put`, `lookup`, `remove`, clean-up | check-then-act; lookups under another lock than updates | one live `ReservationImpl` per key |
| `SingleUrnPrefixRS`, `RSPersistenceJPA` (rs) | rows of reservations; listeners | `makeReservation`, `cancelReservation`, `finalizeReservation`, `getReservation` | several transactions per call; repeated and partial cancellation | one owner of a node at a time; the past is kept |
| `InMemoryRSPersistence` (rs) | a list | as above | partly unsynchronized | as above |
| `UpstreamMessageQueueImpl`, `GatewayEventBusImpl`, `GatewayChannelHandler` (iwsn-gateway) | a persistent queue and its dequeue callbacks, a channel, a flag | `enqueue`, dequeue callbacks, connection attempts, connect, disconnect | failed writes, connections that overlap, several chains of callbacks, restarts | what is accepted is forwarded; the portal knows which nodes the gateway has |
| `DeviceManagerImpl` and device adapters (iwsn-gateway) | devices found, devices running | retry loop, attach, detach | exceptions on the way | no device forgotten |
| `PortalChannelHandler`, dispatchers and event buses (iwsn-portal) | nodes by channel context | `onRequest`, `processEvent`, disconnect | requests against attach and detach | each node of a request is answered once |
| `ResponseTrackerImpl` (iwsn-common) | one future per node | responses, progress, timeouts | late and repeated answers | each future completes once |
| `NodeApiImpl` (iwsn-common) | a queue of jobs, a current job, request ids 0..255 | `sendToNode`, `receiveFromNode` | late answers, ids that wrap | an answer belongs to its request |
| SOAP/REST API, sessions (iwsn-portal) | delivery managers and WSN services by key | `getInstance`, start and end of a reservation | tests outside the lock | one manager per reservation |
| `RSFederatorServiceImpl`, iWSN and SNAA federators | endpoints of the federates | fan-out, join, undo | one of several fails | all or nothing |
| WiseGui (iwsn-portal, JavaScript) | the event WebSocket, the login, intervals that poll, the view of each experiment, flash requests | timers, answers, clicks, WebSocket messages | one thread, but answers, timers and messages in any order; intervals that outlive their use | it shows what is the case, reconnects, polls once, keeps operations apart |
| SNAA, device database, event store, node status, plugins | sessions, configurations, logs, last status | reads and writes | little protocol | not modelled |

How they interact.  The RS calls the *listeners* of its persistence in the thread
that cancels or finalizes a reservation; each `ReservationImpl` is one.
`ReservationImpl` posts lifecycle events on the portal's event bus;
`SessionManagementImpl` starts and stops a `DeliveryManagerImpl` per reservation
on them.  Events of a gateway come through its upstream queue to
`PortalChannelHandler`, then to the reservation's event bus, then to the
delivery manager, which broadcasts them to the queues of its workers.  A worker
calls its manager back to remove itself.  WiseGui gets the events of a
reservation from a `WsnWebSocket`, which sends the past ones and listens on the
reservation's event bus for the others.  `ReservationImpl` calls the RS to
finalize its row.

## 2. The modules

| Module | Models | State and actions |
|---|---|---|
| `DeliveryChannel` | the promise of a worker (abstract) | per kind a FIFO channel with at-least-once delivery; `TellEnded` only when everything was acknowledged |
| `DeliveryWorker` | one worker and the threads around it | `pc` is where `run()` is; `queue[k]` the deques; `current`, `batch` what was polled; `errors`, `stopDelivery`, `experimentEnded`, `droppedSince` the fields; `registered` is what the worker needs to know of the map of controllers: `Remap` changes it at any time, as the unlocked assignments of other threads do.  One action per critical section of the lock |
| `DeliveryWorkerProofs` | | the nine theorems of the worker |
| `DeliveryManager` | the map of controllers and all who use it | `controllers` is the field; `call[t]` where thread `t` is inside `addController` or `removeController`, with the map it has built; a worker is reduced to its control; `toFeed` and `toEnd` are the workers that a broadcast has still to call, from the map as it was when the broadcast began; `shutdown` is the thread of `doStop()` |
| `DeliveryManagerProofs` | | the two theorems of the manager |
| `ReservationLifecycle` | one `ReservationImpl`, its listener, `touch()`, crash and restart | `next`, `future` are `nextScheduledEvent` and its future; `tasks` everything that was scheduled, each with its control point; `listener` and `touching` the control points of the outside threads; `stored` the row.  `service` is "starting" between the start runnable (line 188), from when callables may run, and `notifyStarted()` (189) |
| `ReservationLifecycleProofs` | | the four theorems of the lifecycle |
| `ReservationSystem` | the RS and its clients | `rows` are the reservations; `call[c]` where client `c` is inside `makeReservation` or `cancelReservation`.  A row remembers when it was added (`made`) and first cancelled (`first`) |
| `ReservationSystemProofs` | | the four theorems of the RS |
| `PortalLink` | a gateway's events on their way to the portal | `queue` the queue on disk; `at[c]`, `holds[c]` where the chain of callbacks is that connection `c` began, and the message it has; `writes[c]` the writes under way on `c`; `phase[c]` how far the handlers of `c` are; `connected`, `channel`, `registered` the fields of the three classes; `running` and `announced` the device, as its adapter's state and as its last event say; `attached[c]` what the portal knows; `settled` and `thrown` what has left the queue for good |
| `PortalLinkProofs` | | the three theorems of the link |
| `EventSocket` | the event WebSocket of WiseGui and its reconnection (`connectEventWebSocket`) | `state`, `schedule` the globals; `timers` the intervals that run; `connecting`, `open` the sockets; `connects`, `removers` the handlers bound so far; `modals` the dialogs in the page |
| `Session` | login, logout and `WiseGuiReservationObserver` | `poller` its field, `pollers` the intervals that run; `logins`, `logouts`, `fetches` the requests under way; `known` the reservations seen |
| `Federation` | `WisebedReservation` and `getFederatable`: which reservations can be used together, and what the merged one is | pure; the variables hold an input and its result |
| `ExperimentPage` | the view of an experiment and the `WsnWebSocket` that feeds it | `socket` where `onOpen` is; `replay` the past still to be sent, `wire` the messages on their way; `container`, `loads`, `views` the content of the page; `badge`, `bar`, `bars`, `controls` what it shows; `pressed` the requests and dialogs of the buttons that will call back |
| `FlashView` | the flash button and `flashNodes` | `call[f]` a flash request, `interval[f]` its interval, `asking`, `progressing`, `completing` the polls under way and their answers |
| `ExperimentPageProofs`, `FlashViewProofs` | | the theorems of these two |
| `WiseGui` | the page | the five parts side by side; `part` is the one that a behaviour follows, the others stay as they begin |
| `WiseGuiProofs` | | the twelve theorems of the page, from those of its parts |
| `MC...` | | the modules that the configurations give values to |

`DeliveryWorker` and `DeliveryManager` are two views of the same threads: the
first has the queues and no registry, the second the registry with workers
reduced to "has work or not", because their product is out of TLC's reach.
`StopDelivery` and `BeginEnd`/`FinishEnd` of the first are `RemoveStop` and
`EndOne` of the second; its `Remap` is whatever `Publish` of the second does to the
entry of one worker.  `ReservationLifecycle` and `ReservationSystem` share
the row: `RSCancel` and `Finalize` of the first are `CancelWrite` and
`FinalizeReservation` of the second, under the guards that each gives the other.

### Granularity and abstractions

* A critical section of a Java lock is one action.  The worker calls
  `endpoint.reservationEnded` with its lock held: that is `pc = "ending"`, in
  which every action that needs the lock is disabled.
* `isEmpty()` tests without the lock in the priority scan may miss an item that
  came since the last critical section, and never one that was seen (`seen`).
* Reads and writes of plain fields are sequentially consistent and each is a step
  where another thread can see the difference; the visibility rules of the Java
  memory model beyond that are not modelled.
* In a callable of `ReservationImpl`, the guard, the post together with the test
  that follows it, and the scheduling are three steps.  In `FinalizeCallable` the
  guard, the date together with the row, the post, and the stop are four.
  `scheduleEvent` is one step.  `Future.cancel(true)` prevents a task that has
  not begun; an interrupt of a task that runs is not modelled, as no callable
  waits while it matters.  One cancellation is in the listener at a time.  The
  cancel callable is due at the date of cancellation, which is never in the
  future: it is due at once.
* `doStart` is two steps: the listener is added and the start runnable handed to the
  scheduler (`DoStart`), then `notifyStarted()` (`NotifyStarted`).  A callable in
  between sees `isRunning()` false.
* `startAgain` says what `startAsync()` does on a service that is running.
  With Guava 18, which the build uses, it throws ("throws").  The repository's
  own tests call the callable on a reservation where it succeeds ("ignored");
  the model has both, so that the steps after it are explored too.
* Items are numbers in their order of acceptance.  What is in a message, a
  notification or a key is left out.
* Transactions of the RS database are serializable.  Keys are fresh.
* The clock counts and stops at a bound; a task is due at its date or later.
* A remote call returns or throws, and may take effect in both cases.

* `PortalLink`: the handlers of one connection run in its own thread, one after
  the other; each is one step, but `GatewayChannelHandler.channelConnected` is two,
  because a device may change between reading the nodes and announcing them.
  A write is complete when the portal has the message (`link = "up"`), when it is
  lost (`"dead"`: broken, and not noticed yet), or when it fails (`"down"`).  Two
  connection attempts at a time are as if the second had passed its test before
  the first had set the flag.  Messages are numbers with a kind.
* WiseGui: the browser runs one handler at a time, so each handler is one step.
  Its five parts share no state and are composed by a disjoint choice: each
  behaviour of the run follows one part.  The script does not cancel requests; an
  answer may come any time later or be an error.  In `ExperimentPage` the clock is before, at
  the start of, in or after the interval, because the replay of the past leaves the
  start out in its very instant (`ReservationImpl` 284 is strict).  The buttons that
  act on the nodes are taken together: `controls` says that one is enabled.  A press
  disables one, `Callback` enables one.

Variables named as history in the modules are read by no guard.

## 3. What the runs check

| Run | Question | Size |
|---|---|---|
| `worker` | nothing is lost, duplicated in the queues or overtaken (`FifoLedger`); the endpoint has what was acknowledged (`AtLeastOnce`); the queue exceeds its maximum by one batch at most (`QueueBound`); no sleep on work (`NoLostWakeup`); drops are counted once (`DropsAccounted`); after `RETRIES` failures no further call, unless the removal missed the worker (`RetriesBound`); the worker stops itself only for a reason (`GivesUpLate`); it implements `DeliveryChannel` (`ImplementsChannel`); what is accepted is delivered (`Delivered`) and the end is reached (`EndsAfterReservation`) | 264,000 states |
| `worker_stop_signal` | *violated*: a stopped worker stops | |
| `manager_calls` | while calls do not overlap, the map names exactly the serving workers; a shutdown ends | 445,000 |
| `manager_lost_update` | *violated*: a worker that gave up is stopped | |
| `manager_stale_removal` | *violated*: a worker is stopped only by a client or by itself | |
| `lifecycle` | the order of events, the keep-alive time, finalization for a reason, and finalization in the end | 381,000 |
| `lifecycle_start` | *violated*: a reservation that is not cancelled is started | |
| `rs` | double bookings only by overlapping calls (`DoubleBookingNeedsARace`); two owners of a node at one moment only after a race, a start in the past or a second cancellation (`SharedForAReason`); no moment of the past is taken away, and one is given only for the last two reasons (`PastOwnersKept`) | 1,342,000 (up to symmetry) |
| `portal_link` | everything the queue accepts reaches the portal if the network stops failing (`Forwarded`); the portal ends up with exactly the nodes of the gateway (`PortalKnowsDevices`) | 895,000 |
| `portal_lost_message` | *violated*: a message whose write throws on a closed channel is enqueued again | |
| `wisegui` | `ConnectedIsTrue`, `Reconnects`: the page says what its WebSocket is, and connects again; `PollersFollowLogin`, `AnnouncedOnce`: one poller, each reservation announced once; `OfferedHaveCommonTime`, `FederatedIsRight`: federated reservations have a common moment and are the right interval; `OneViewPerReservation`, `NothingMissed`, `BadgeFollows`, `ControlsFollow`: the page of an experiment follows what it is told of the reservation; `PollsWhileUnanswered`, `OneFlashAtATime`, `FlashAnswered`: flash requests one at a time, polled until answered | 127,000 |
| `rs_double_booking` | *violated*: a node has one owner at any time | |

### Bounds, and why they are enough

* Worker: batches of two, a message queue of one, lists of two, two retries, four
  messages and one attachment.  A batch of two against a queue of one
  exists only by a put-back in front of a refilled queue, which is the case
  `QueueBound` is about; a list of two against a queue of one has to be dropped in
  part; two retries make a reset distinguishable; an attachment, and
  the reports of drops, are kinds served before messages.  `worker_stop_signal` has
  two messages, one status and one attachment.  The theorems lift the bounds.
* Manager: two workers are enough to register a URL again while the first worker
  is on its way out, or to have two URLs; the counterexamples need two client
  threads or one.  `manager_calls` has the constraint `NotOverlapped`, because
  both of its properties say nothing once two calls have overlapped; overlapping
  calls are the subject of the two violated runs.
* Lifecycle: an interval of one unit that begins one unit after the reservation is
  made, a keep-alive time of one; two calls from outside (cancellations or
  touches) and one crash, each at any point.  A second cancellation meets the
  finalization of the first.  The clock ends where the last finalization of an
  undisturbed reservation is due; what is due later is due at the bound.
* RS: two clients, two reservations, two nodes, a clock that goes to two, three
  requests (one overlaps the others, one is empty; each may be made when it has
  begun); up to two keys in a cancellation, and any number of cancellations of the
  same key.  Conflicts are between two rows, and the theorems lift the bounds.

* Portal link: two connections, one event of a device that is connected or not as
  the behaviour begins, one restart.  Two connections overlap in every way, share
  a future, and disturb each other's channel; a third repeats that.  The network
  breaks a connection only while another is left to open (`Spare`), because
  otherwise the bound and not the code would keep messages from the portal.
  `portal_lost_message` needs no restart.
* WiseGui: six attempts to connect, so that attempts overlap and the interval
  outlives some; two reservations, two fetches under way and four logins and
  logouts; all inputs of up to three parts over four moments for `Federation`;
  three visits and two pressed buttons; two flash requests with two polls each under way.

`CHECK_DEADLOCK FALSE` is set where the system stops at a bound of the model: all
workers used up, the clock at its end, no call left.  A worker may always be
woken spuriously or have its reservation ended, so its runs keep the check.

### Fairness

* `DeliveryWorker`: weak fairness of the worker's next step (a thread of the
  executor, which has one thread per worker; calls to the endpoint return or
  throw because the SOAP client has timeouts) and of the signal of a thread
  inside `reservationEnded`.  No fairness of spurious wake-ups, clients, success
  of a call, `stopDelivery` or changes of the map.
* `DeliveryManager`: the same for every thread with a step to do, and for the loop
  of the broadcast and the shutdown thread.
* `ReservationLifecycle`: every task that is due runs and goes on (the scheduler's
  threads), the listener, `doStart()` and a thread in `touch()` go on, the clock ticks, a
  portal that crashed is started again.  No fairness of crashes,
  cancellations or touches.

* `PortalLink`: weak fairness of the next step of each connection's thread, callback
  and write (Netty's workers and the scheduler run them; a dead connection is
  noticed by the idle handler), and of the connection attempt, which is scheduled
  with a fixed delay.  Strong fairness of the opening, among attempts: attempts
  that go on do not fail for ever, which is the assumption on the network.  No
  fairness of breaking, crashes or the device.
* `EventSocket`: the browser runs its intervals, and an attempt that does not fail
  ends in an open WebSocket.  `FlashView`: requests are answered.

### What the properties except

Some properties name a case in which the code does otherwise.  No comment
promises more there, so these are not findings (the two that are, are named so), but
a reader should know them:

* `RetriesBound`, `Delivered`, `EndsAfterReservation`: `removeController` returns
  without stopping a worker that is not in the map (`spared`), which then goes on to
  call an endpoint that fails.  `manager_lost_update` (a finding) shows how a worker
  gets there.  `Delivered` also excepts a worker that was stopped.
* `Delivered` does not catch the starvation of a kind by those served before it: the
  number of items is bounded.  Nor does anything catch an endpoint whose
  `reservationEnded` never returns: fairness assumes that calls return or throw.
* `DropsAccounted`: drops after the last report stay counted and unreported.
* `RegisteredIffServing` excepts overlapping calls, `ShutdownCompletes` also workers
  that wait and were removed, or were added too late to be told.
* `KeepAliveHonoured`: a cancellation published before `notifyStarted()` finds
  `isRunning()` false and has the reservation finalized at once (`hasty`); it takes a
  reservation that is cancelled when it is built, after a restart of the portal, or
  cancelled while it starts.
* `EventuallyFinalized` is about the row: if the portal stops between the row and the
  event, `ReservationFinalizedEvent` is never posted.
* `SharedForAReason`, `PastOwnersKept`: a second cancellation overwrites the date of the
  first, and a reservation may be made with a start in the past.  Both give a moment
  of the past to a second owner, without any race, and the lookup of that moment then
  fails with "Found more than one reservation".  The properties say that nothing else
  does, and that no moment is taken away.
* `Forwarded`: the message whose write threw is not put back (a finding, see
  `portal_lost_message`); messages in the hands of callbacks are lost in a crash; and
  the late disconnection of an old connection clears the channel of the new one
  (`deaf`), after which nothing is forwarded although the gateway is connected.
* `PortalKnowsDevices`: a message written after a newer one (two chains, or a
  message put back behind others), also if the newer one was lost because its
  write threw; nodes read while a device changes; or old events in the queue after
  a restart (`misled`).  The case of the throwing write takes three connections and
  came out of the attempt to prove the property: the run, with two, does not
  meet it.
* `Reconnects`: a page whose *first* attempt fails never tries again, because its
  schedule is `null` and the test is for `undefined`.
* `PollersFollowLogin`: a second login under way leaves an interval that no logout
  stops.  `AnnouncedOnce` holds, but for the wrong reason: `equals` compares two
  objects as if they were arrays and is true for all, so that only the
  reservations of the first answer that has any are ever announced.
* `NothingMissed`: a page whose WebSocket asks for the past in the very instant of the
  start is not told of the start by it.
* `BadgeFollows` relates the badge to what the WebSocket had to tell: the past when it
  was opened and the events posted since.  In the build the events of the start and
  of the end are not posted (`lifecycle_start`, a finding), so a page that is opened
  before the start goes on saying pending, and one opened during the interval goes on
  saying running after its end; the property does not call this wrong.  It does say
  that the badge is never ahead of the reservation.  Excepted are an end that
  overtakes the replay of the start, which leaves the page running, and a start that
  is handled twice, which leaves a progress interval behind.
* `ControlsFollow`: a cancellation does not disable the buttons; an end that overtakes
  the replay of the start leaves them enabled; and the callback of a button that was
  pressed before the end enables it after the end (`reenabled`).
* `OneFlashAtATime`, `FlashAnswered`: an answer that comes after the request was
  answered enables the button; a node named twice makes the page poll for ever.
  What `PollersFollowLogin`, `AnnouncedOnce`, `Reconnects` and these two except is not
  caught by them; they say what holds besides.

### Findings

Six runs show that the code does otherwise than a comment or message in it says:

* `worker_stop_signal`: `stopDelivery()` does not signal, so a worker that waits
  when it is removed waits for ever.  A manager with such a worker never completes
  its shutdown, which is why `ShutdownCompletes` excepts it.
* `manager_lost_update`: overlapping calls lose an update of the map, and a worker
  that is not in the map is not stopped when it gives up.
* `manager_stale_removal`: a worker removes whatever is registered under its URL.
* `lifecycle_start`: `ReservationStartCallable` starts a service that runs already,
  which throws; the event is not posted and the chain of callables ends.
  `EventuallyFinalized` excepts a reservation to which this has happened.
* `rs_double_booking`: the check for free nodes and the insertion are separate
  transactions, so two overlapping calls reserve the same node.
* `portal_lost_message`: when a write throws because the channel is closed, the log
  says that the message is re-enqueued, and nothing does so: it is lost.

## 4. What is proved

The constants are arbitrary, within the assumptions `WorkerAssumption`,
`ManagerAssumption`, `ReservationAssumption`, `LifecycleAssumption`,
`LinkAssumption` and `GuiAssumption` of the modules: sizes, dates and bounds are
positive or natural numbers, threads and workers are apart, requests are spans of
the clock, the interval of a reservation begins before it ends and ends with the
clock at the latest, connections are numbered from one.
The theorems state every invariant and action property that the passing runs check.

**`DeliveryWorkerProofs`.**  `TypeCorrect` first; it is inductive.  `FifoLedger`
speaks of a concatenation of two sequences, so its inductive form is `Ledger`:
for each kind the numbers in the worker's hands and the numbers in the queue are
consecutive runs that meet, from the last acknowledged item to the last accepted
one.  Polling moves the border between the two runs, a return advances the lower
end, a put-back removes the border, an enqueue advances the upper end.
`NothingLost` follows, then `DeliveredAtLeastOnce` and `WorkerImplementsChannel`,
which use it to know *which* items a batch has.  In the refinement an enqueue or
`receive` is `Accept`, the end of a call is `Deliver` with or without
acknowledgement, the call to `reservationEnded` is `TellEnded` or `Close`, a stop
of the loop is `Close`, and everything else is a stutter, among it `Take` and
`PutBack`, because what is pending includes what is in the worker's hands.
`QueueIsBounded` needs `HeldBound`, that items held and queued together are at most `MaxQueue + BatchSize`, and `BatchBound`, that a batch is no larger than `BatchSize`:
`receive` fills the queue up to `MaxQueue` while at most one batch is in the
worker's hands, and a put-back or a poll moves items without changing the sum.  `RetriesAreBounded` and `StopsForAReason` need
`RetryInv`, which relates the counter to the control point, to the stop flag and to
whether a removal missed the worker,
and `EndInv`: at `ending` everything is acknowledged, because no one can get the
lock.  `WakeupsArrive` and `DropsAreAccounted` are inductive with the types.

**`DeliveryManagerProofs`.**  `ManagerTyped` includes that the map has under each
endpoint only a worker that was created for it; this needs the same of the map that
a call has built but not yet assigned (`Shape`), and that a worker whose endpoint is
not yet given has been touched by no one.  It holds whatever calls overlap.
`MapIsOfThoseThatServe` is not inductive: in the middle of `addController` the new
worker runs and is not in the map, in the middle of `removeController` the old one is
stopped and still there.  `InTurn` says that without an overlap one call at most is
under way, that only its worker may disagree with the map, and, step by step of the
call, how: until the assignment a new worker is unknown to every broadcast, so that
it cannot stop or leave, and a removed one is in the map under the URL of the call.
A worker that removes itself is either the one that is registered or was stopped
before; this is where the removal of another worker (`manager_stale_removal`) leaves
the map and the serving workers in agreement.

**`ReservationSystemProofs`.**  `ReservationsAreTyped` includes that no
reservation is cancelled in the future.  `OnlyRacesDoubleBook` rests on `SeenFree`:
a call between its check and its insertion conflicts with no live row that it
saw.  This holds because a row's interval and nodes never change and no step makes
a cancelled row live again (`RowsKept`); a new row therefore conflicts only with
rows that it has not seen, and those have not seen it.  `OwnersShareForAReason` is
about the lookup by node and moment, where cancelled rows count too.  Two owners of a
moment conflict, and unless they raced, the one booked later saw the other; then the
other had been cancelled before the booking (`SeenGone`).  So the moment is before the
booking, or after that first cancellation and before a later one: in either case one of
the two reaches back over it (`Reaches`).  `Dates` keeps the dates of a row in order.
`ThePastIsKept` rests on `RowsAge`: a step leaves nodes and interval of a row alone and
may set its cancellation to the present only, which takes no moment of the past away and
adds to it only for a row that was cancelled before; a new row is made now, so that all
it has of the past is before it was made.

**`ReservationLifecycleProofs`.**  What a callable may do depends on which other
callables were scheduled before it and on how far they are, because a cancellation
or a touch may leave several of them behind.  The invariant has a part for
each question.  `Chain`: there is one made callable, the first, and at most one start
and one end callable, and once one of these three exists those before it are done.
`PostedInOrder`: at each control point of a task, which events cannot have been posted
yet and which must have been; `LifecycleOrder` follows.  `Reasons`: a callable that is
about to reschedule, finalize or keep alive does so because the end or a cancellation
was posted, and the row has the date that caused it; `FinalizedForAReason` follows.
`Waited`: a pending finalization is due at the keep-alive deadline or later, or
everything is finalized already; `KeepAliveHonoured` follows.  `Counted` bounds the
number of tasks: each call from outside adds two at most.  `TypeOK` says so with
`MaxTasks`, and the fairness of the run, which is stated for the first `MaxTasks`
tasks, therefore covers all there are.

**`PortalLinkProofs`.**  `LinkTypes` includes that only a called callback holds a
message, that nobody waits while there is one, and that each write under way belongs
to one chain.  `NothingVanishes` is `Accounted`: every message accepted is in the queue,
with a callback, settled, or dropped by a write that threw.  `PortalIsRight` is the hardest of these proofs.  Call a
message pending while it is in the queue, with a callback, or being written.  As long
as nobody is `misled`, the last status of all, if it is pending, says what the device
is (`LastIsRight`); whatever is newer than a pending status is pending itself or not
newer than what was written or lost last, so that a status which is overtaken will be
counted as misleading when it is written (`NoneOvertaken`); and over the current
channel, once no status is unwritten, the writes under way leave the portal with the
state of the device (`ChannelKnows`).  At rest no write is under way, which is the
property.  TLC checked this invariant first: exhaustively with two connections, and
by simulation with three.

**`WiseGuiProofs`** and the two modules it rests on.  The invariant of the page is the
conjunction of those of its parts (`GuiInv`), and a step of one part leaves the
variables of the others alone (`OnePartAtATime`).
`ConnectedIsTrue` needs `ModalsCovered`: there are
at least as many handlers that take a modal away as there are modals.
`PollersFollowLogin` and the types support one another, and `AnnouncedOnce` follows
because what is processed as new is not among the known.
`OfferedHaveCommonTime` says that comparing pairs is enough for intervals: among
finitely many one begins last (`Greatest`, from the least-number principle `Least`),
and if each other overlaps it, that beginning is in all of them (`PairsAreEnough`).
`FederatedIsRight` is about what a fold computes.  `Right` says what the reservation
made of a set of parts must be; it is unique (`RightIsUnique`), there is one
(`SomeIsRight`), and adding a part of greater index to what is right gives what is
right (`StepIsRight`).  `MapThenFoldSet` chooses a function that satisfies the
equation of the fold, so one must exist (`FoldExists`: the one that gives what is
right), and whichever is chosen is right at each subset (`FoldIsRight`): of those at
which it is not, a smallest would have a smaller one.  The library's induction
theorems take an operator; the well-foundedness of the strict subset order
(`FS_StrictSubsetOrderingWellFounded`, `WFMin`) does not, and serves here and in
`Least`.  `OneFlashAtATime` rests
on `TakeTurns`: without a late callback at most one request is under way, and none
while the button is enabled; with `PollsFollowPost` a callback that is not late can
only be that of the one under way.  For `ExperimentPage` the invariant is
`Covered`: once `onOpen` has read the past, every event posted is handled, on its way or
still to be replayed, and so is all that the past had (`ReadOnce`: it is read once).  It
holds because the registration comes before the reading:
what was posted before is in the past, and what is posted after is sent.
`TellsTheTruth` says that nothing is told that has not happened, and `Shown` how the
badge, the bar and the buttons follow from what was handled.

Not proved, and checked by TLC only: liveness under fairness (`Delivered`,
`EndsAfterReservation`, `ShutdownCompletes`, `EventuallyFinalized`, `Forwarded`,
`Reconnects`, `FlashAnswered`), which the prover does not reason about.

## 5. What is not modelled

The components with status `not_modelled` in `PROJECT.json`, each with its
reason.  Within the modelled ones: interrupts; `reservationStarted` and the
variants for one endpoint of the delivery manager; the event store of a
reservation; `touch()` on a finalized reservation whose service has stopped, which
throws; the listing queries, authorization and remote checks of the RS; the
isolation levels of its database; listeners that throw; the stop of a gateway,
messages that it cannot deserialize, and the requests of the portal to it; the
rendering, dialogs, calendar, node tables and scripts of WiseGui.

Most of the JavaScript in the repository is third-party: jQuery, d3, ace and others,
several times over, and inside the bundle `wisegui.browserify.js`, whose own code
are some 6,300 of its 21,559 lines.  The definitions of the five WiseGui modules
map the lines of that code with state and order; the libraries are not modelled.

## 6. Plan

In this order, the most important first:

1. `ReservationRegistry`: `ReservationManagerImpl` with `ReservationCacheImpl`, one
   live reservation per key, eviction; composed with `ReservationLifecycle` through
   the row and the service state.
2. `NodeApi`: jobs, request ids modulo 256, timeouts and late answers.
3. `FederatedReservation`: make in parallel, undo; all or nothing as the abstract
   specification.
4. Proofs: the safety invariants of the modules above.
