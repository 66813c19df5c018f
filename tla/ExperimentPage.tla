---------------------------- MODULE ExperimentPage ----------------------------
(***************************************************************************)
(* The view of one experiment in the WiseGui page, and the WsnWebSocket of    *)
(* the portal that tells it how the reservation proceeds.  onOpen registers   *)
(* the WebSocket at the event bus of the reservation, then asks for the       *)
(* events of the past and sends them; a live event may be sent by another     *)
(* thread at any moment since the registration.  The page opens the           *)
(* WebSocket once and never again.                                           *)
(*                                                                         *)
(* The reservation itself is ReservationLifecycle's; here it is the part of    *)
(* the interval that the clock is in, whether and when it was cancelled, and  *)
(* the events that reached its bus.  A FinalizedEvent never does: the portal's *)
(* dispatcher hands on started, ended and cancelled events only.  In the       *)
(* build of the portal the events of the start and of the end are not posted   *)
(* either (see ReservationLifecycle): a page is told of them only if it is     *)
(* opened later, from the past.  So no event is certain to be posted here.    *)
(*                                                                         *)
(* The buttons that act on the nodes (flash, reset, send, ...) are bound to the *)
(* same events, and are taken together: what counts is whether one is enabled. *)
(***************************************************************************)
EXTENDS Naturals, Sequences

CONSTANTS
    MaxVisits,   (* bound: times the user navigates to the experiment           *)
    MaxPressed   (* bound: requests and dialogs of the buttons under way         *)

VARIABLES
    phase,        (* the clock: before, at the start of, in or after the interval *)
    cancelled,    (* "no", "early": not after the start, or "late"             *)
    finalized,    (* the reservation is finalized                              *)
    posted,       (* live events posted to the bus of the reservation           *)
    socket,       (* control point of the WebSocket, see TypeOK                 *)
    replay,       (* events of the past still to be sent by onOpen              *)
    wire,         (* messages on their way to the page                          *)
    visits,
    container,    (* contentContainers has an entry for the experiment          *)
    loads,        (* getByExperimentId requests in flight                       *)
    views,        (* WiseGuiReservationViews made                               *)
    badge,        (* status of the console view                                 *)
    bar,          (* progressBarSchedule: "none", "timer", or "stale"           *)
    bars,         (* progress intervals that the browser still runs             *)
    controls,     (* a button of bindToReservationState is enabled               *)
    pressed,      (* requests and dialogs of pressed buttons that will call back  *)
    handled,      (* history: types of the messages handled                     *)
    doubled,      (* history: a second STARTED was handled                      *)
    overtaken,    (* history: STARTED was handled after the end                 *)
    reenabled,    (* history: a callback enabled its button after the end       *)
    readAt,       (* history: phase in which onOpen asked for the past            *)
    read          (* history: the events it was given                           *)

portal == <<phase, cancelled, finalized, posted>>
view == <<badge, bar, bars, controls, pressed, handled, doubled, overtaken, reenabled>>
page == <<visits, container, loads, views>>
past == <<readAt, read>>
pageVars == <<portal, socket, replay, wire, page, view, past>>

Over == {"cancelled", "ended", "finalized"}

Init ==
    /\ phase = "before" /\ cancelled = "no" /\ finalized = FALSE /\ posted = {}
    /\ socket = "none" /\ replay = <<>> /\ wire = <<>>
    /\ visits = 0 /\ container = FALSE /\ loads = 0 /\ views = 0
    /\ badge = "pending" /\ bar = "none" /\ bars = 0 /\ controls = FALSE
    /\ pressed = 0 /\ reenabled = FALSE
    /\ handled = {} /\ doubled = FALSE /\ overtaken = FALSE
    /\ readAt = "never" /\ read = {}

-----------------------------------------------------------------------------
(* The reservation at the portal                                             *)

Clock ==
    /\ \/ phase = "before" /\ phase' = "start"
       \/ phase = "start" /\ phase' = "during"
       \/ phase = "during" /\ phase' = "after"
    /\ UNCHANGED <<cancelled, finalized, posted, socket, replay, wire, page, view, past>>

Cancel ==
    /\ cancelled = "no" /\ phase # "after"
    /\ cancelled' = IF phase \in {"before", "start"} THEN "early" ELSE "late"
    /\ UNCHANGED <<phase, finalized, posted, socket, replay, wire, page, view, past>>

Finalize ==
    /\ ~finalized
    /\ cancelled # "no" \/ phase = "after"
    /\ finalized' = TRUE
    /\ UNCHANGED <<phase, cancelled, posted, socket, replay, wire, page, view, past>>

(* The start is over at the next millisecond; a cancellation at the start is   *)
(* early.                                                                    *)
HasStarted == phase \in {"during", "after"} /\ cancelled # "early"

(* getPastLifecycleEvents; the made event is skipped by onOpen.              *)
PastLifecycleEvents ==
    (IF HasStarted THEN <<"started">> ELSE <<>>)
    \o (CASE cancelled # "no" -> <<"cancelled">>
          [] cancelled = "no" /\ phase = "after" -> <<"ended">>
          [] OTHER -> <<>>)
    \o (IF finalized THEN <<"finalized">> ELSE <<>>)

(* Mutant: the WebSocket is registered after the past was sent.              *)
RegisteredAfterReplay == socket = "open"

Registered == socket \in {"registered", "replaying", "open"}

(* post() on the bus sends the message in the thread of the callable.        *)
Post(event) ==
    /\ event \notin posted
    /\ posted' = posted \union {event}
    /\ wire' = IF Registered THEN Append(wire, event) ELSE wire
    /\ UNCHANGED <<phase, cancelled, finalized, socket, replay, page, view, past>>

(* A cancellation that comes while a callable schedules the next one may be   *)
(* passed over: the start and the end are posted nonetheless.                *)
PostStarted == phase # "before" /\ posted = {} /\ Post("started")
PostCancelled == cancelled # "no" /\ "ended" \notin posted /\ Post("cancelled")
PostEnded == phase = "after" /\ posted = {"started"} /\ Post("ended")

-----------------------------------------------------------------------------
(* The WebSocket                                                             *)

(* onOpen as far as register().                                              *)
Register ==
    /\ socket = "connecting"
    /\ socket' = "registered"
    /\ UNCHANGED <<portal, replay, wire, page, view, past>>

ReadPast ==
    /\ socket = "registered"
    /\ socket' = "replaying"
    /\ replay' = PastLifecycleEvents
    /\ readAt' = phase
    /\ read' = {replay'[i] : i \in DOMAIN replay'}
    /\ UNCHANGED <<portal, wire, page, view>>

Replay ==
    /\ socket = "replaying"
    /\ IF replay = <<>>
       THEN socket' = "open" /\ UNCHANGED <<replay, wire>>
       ELSE /\ wire' = Append(wire, Head(replay))
            /\ replay' = Tail(replay)
            /\ UNCHANGED socket
    /\ UNCHANGED <<portal, page, view, past>>

(* onClose at both ends, with whatever was on its way; the page does nothing. *)
Close ==
    /\ socket \notin {"none", "closed"}
    /\ socket' = "closed"
    /\ replay' = <<>> /\ wire' = <<>>
    /\ UNCHANGED <<portal, page, view, past>>

-----------------------------------------------------------------------------
(* The page                                                                  *)

(* Mutant: the container is entered once its content is there.               *)
VisitUncached ==
    /\ visits < MaxVisits
    /\ visits' = visits + 1
    /\ loads' = loads + 1
    /\ UNCHANGED <<portal, socket, replay, wire, container, views, view, past>>

(* switchContentContainer: the first visit makes the container and asks for   *)
(* the reservation, later ones find the container, filled or not.            *)
Visit ==
    /\ visits < MaxVisits
    /\ visits' = visits + 1
    /\ container' = TRUE
    /\ loads' = IF container THEN loads ELSE loads + 1
    /\ UNCHANGED <<portal, socket, replay, wire, views, view, past>>

(* The answer to getByExperimentId: a view whose console view connects, or an *)
(* alert and an empty container.                                              *)
Loaded ==
    /\ loads > 0
    /\ loads' = loads - 1
    /\ \/ views' = views + 1 /\ socket' = "connecting"
       \/ UNCHANGED <<views, socket>>
    /\ UNCHANGED <<portal, replay, wire, visits, container, view, past>>

(* Mutant: the interval of the progress bar goes on.                         *)
OnOverKeepsBar(event) ==
    /\ badge' = IF event = "cancelled" THEN "cancelled" ELSE "ended"
    /\ controls' = IF event = "ended" THEN FALSE ELSE controls
    /\ UNCHANGED <<bar, bars, pressed, doubled, overtaken, reenabled>>

(* Mutant: the buttons stay as they are.                                     *)
OnOverKeepsControls(event) ==
    /\ badge' = IF event = "cancelled" THEN "cancelled" ELSE "ended"
    /\ bars' = IF bar = "timer" THEN bars - 1 ELSE bars
    /\ bar' = IF bar = "timer" THEN "stale" ELSE bar
    /\ UNCHANGED <<controls, pressed, doubled, overtaken, reenabled>>

(* The handlers of CANCELLED, ENDED and FINALIZED: all three stop the         *)
(* progress bar, ENDED alone disables the buttons.                           *)
OnOver(event) ==
    /\ badge' = IF event = "cancelled" THEN "cancelled" ELSE "ended"
    /\ bars' = IF bar = "timer" THEN bars - 1 ELSE bars
    /\ bar' = IF bar = "timer" THEN "stale" ELSE bar
    /\ controls' = IF event = "ended" THEN FALSE ELSE controls
    /\ UNCHANGED <<pressed, doubled, overtaken, reenabled>>

(* The handlers of STARTED: a new interval, whatever the old one does.       *)
OnStarted ==
    /\ badge' = "running"
    /\ bar' = "timer" /\ bars' = bars + 1
    /\ controls' = TRUE
    /\ doubled' = (doubled \/ "started" \in handled)
    /\ overtaken' = (overtaken \/ handled \intersect Over # {})
    /\ UNCHANGED <<pressed, reenabled>>

(* onWebSocketMessageEvent.                                                  *)
Message ==
    /\ wire # <<>>
    /\ wire' = Tail(wire)
    /\ handled' = handled \union {Head(wire)}
    /\ IF Head(wire) = "started" THEN OnStarted ELSE OnOver(Head(wire))
    /\ UNCHANGED <<portal, socket, replay, page, past>>

(* executeFlashNodes, executeResetNodes, loadConfiguration, ...: a button that  *)
(* is enabled is disabled until its request is answered or its dialog closed; *)
(* the others stay as they are.                                             *)
Press ==
    /\ controls /\ pressed < MaxPressed
    /\ pressed' = pressed + 1
    /\ controls' \in BOOLEAN
    /\ UNCHANGED <<portal, socket, replay, wire, page, past>>
    /\ UNCHANGED <<badge, bar, bars, handled, doubled, overtaken, reenabled>>

(* The callbacks, of success and of failure, enable a button whatever the page  *)
(* was told in between.                                                      *)
Callback ==
    /\ pressed > 0
    /\ pressed' = pressed - 1
    /\ controls' = TRUE
    /\ reenabled' = (reenabled \/ "ended" \in handled)
    /\ UNCHANGED <<portal, socket, replay, wire, page, past>>
    /\ UNCHANGED <<badge, bar, bars, handled, doubled, overtaken>>

Next ==
    \/ Clock \/ Cancel \/ Finalize
    \/ PostStarted \/ PostCancelled \/ PostEnded
    \/ Register \/ ReadPast \/ Replay \/ Close
    \/ Visit \/ Loaded \/ Message
    \/ Press \/ Callback

Spec == Init /\ [][Next]_pageVars

-----------------------------------------------------------------------------
MessageType == {"started", "cancelled", "ended", "finalized"}
Phase == {"before", "start", "during", "after"}

TypeOK ==
    /\ phase \in Phase
    /\ cancelled \in {"no", "early", "late"} /\ finalized \in BOOLEAN
    /\ posted \subseteq {"started", "cancelled", "ended"}
    /\ socket \in {"none", "connecting", "registered", "replaying", "open", "closed"}
    /\ replay \in Seq(MessageType) /\ wire \in Seq(MessageType)
    /\ visits \in Nat /\ container \in BOOLEAN /\ loads \in Nat /\ views \in Nat
    /\ badge \in {"pending", "running", "cancelled", "ended"}
    /\ bar \in {"none", "timer", "stale"} /\ bars \in Nat
    /\ controls \in BOOLEAN /\ pressed \in Nat
    /\ handled \subseteq MessageType
    /\ doubled \in BOOLEAN /\ overtaken \in BOOLEAN /\ reenabled \in BOOLEAN
    /\ readAt \in Phase \union {"never"} /\ read \subseteq MessageType

(* The WebSocket is open, the past is replayed and nothing is on its way.     *)
AtRest == socket = "open" /\ wire = <<>>

(* An experiment has one view, and one WebSocket, in a page, however often    *)
(* and however quickly the user comes back to it.                             *)
OneViewPerReservation == loads + views <= 1

(* What the bus posted of the start and what the past had of it: the past does *)
(* not know of a start that came after the cancellation, nor, in the instant   *)
(* of the start, of the start itself.                                        *)
StartPosted == "started" \in posted /\ HasStarted /\ readAt # "start"

(* No event is lost between the past that onOpen reads and the live events:   *)
(* a page at rest has been told of the start, and that the reservation is     *)
(* over, if the bus was.                                                     *)
NothingMissed ==
    AtRest => /\ StartPosted => "started" \in handled
              /\ posted \intersect Over # {} => handled \intersect Over # {}

(* The badge never runs ahead of the reservation.  And a page at rest shows     *)
(* what its WebSocket had to tell, the past at its opening and the events      *)
(* posted since: its badge is not pending after a start and not running after  *)
(* an end that was told, unless the end overtook the replay of the start, and   *)
(* the progress bar moves exactly while the badge says running, unless the    *)
(* start came twice.  What is not posted while the page is open is not told:   *)
(* without the live events of the start and of the end the page goes on showing *)
(* what it was opened with.                                                  *)
BadgeFollows ==
    /\ badge = "running" => phase # "before"
    /\ badge = "cancelled" => cancelled # "no"
    /\ badge = "ended" => phase = "after" \/ finalized
    /\ AtRest /\ ~overtaken =>
        /\ "started" \in read \/ StartPosted => badge # "pending"
        /\ (read \union posted) \intersect Over # {} => badge \in {"cancelled", "ended"}
        /\ ~doubled => bars = IF badge = "running" THEN 1 ELSE 0

(* The buttons that act on the nodes are never enabled before the interval    *)
(* has begun at the portal.  Those of a page at rest that was told the end, by  *)
(* the past or by the bus, are disabled, with three exceptions: the           *)
(* reservation was cancelled (nothing disables them then), the end overtook    *)
(* the replay of the start, or the callback of a button pressed before came    *)
(* after the end and enabled it again.                                       *)
ControlsFollow ==
    /\ controls => phase # "before"
    /\ AtRest /\ "ended" \in read \union posted /\ cancelled = "no" /\ ~overtaken /\ ~reenabled
          => ~controls
=============================================================================
