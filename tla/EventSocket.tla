------------------------------ MODULE EventSocket ------------------------------
(***************************************************************************)
(* The event WebSocket of the WiseGui page.  connectEventWebSocket is called *)
(* once when the page is ready and then every five seconds while the page    *)
(* believes itself disconnected.  Each call opens a WebSocket of its own and *)
(* binds one more handler of the DISCONNECTED event, which shows a modal and *)
(* binds a CONNECTED handler that takes one modal away.  Nobody closes a     *)
(* WebSocket that a new one has replaced.                                    *)
(***************************************************************************)
EXTENDS Naturals

CONSTANT MaxConnects   (* bound: calls of connectEventWebSocket                *)

VARIABLES
    state,        (* eventWebSocketState                                       *)
    schedule,     (* eventWebSocketSchedule: "null" as the page begins, then   *)
                  (* "none" for undefined or "timer" for the id of an interval *)
    timers,       (* intervals that the browser still runs                     *)
    connecting,   (* WebSockets that are neither open nor closed yet           *)
    open,         (* open WebSockets                                           *)
    connects,     (* handlers bound to DISCONNECTED, one for each call         *)
    removers,     (* handlers bound to CONNECTED                               *)
    modals,       (* disconnection modals in the page                          *)
    opened        (* history: some WebSocket has been open                     *)

sockets == <<connecting, open>>
socketVars == <<state, schedule, timers, connecting, open, connects, removers, modals, opened>>

Init ==
    /\ state = "disconnected"
    /\ schedule = "null"
    /\ timers = 0
    /\ connecting = 1 /\ connects = 1
    /\ open = 0
    /\ removers = 0 /\ modals = 0
    /\ opened = FALSE

Less(n, k) == IF n > k THEN n - k ELSE 0

(* Mutant: the handle is dropped and the interval goes on.                   *)
OnOpenKeepsTimer ==
    /\ connecting > 0
    /\ connecting' = connecting - 1 /\ open' = open + 1
    /\ opened' = TRUE
    /\ state' = "connected"
    /\ modals' = Less(modals, removers)
    /\ schedule' = "none"
    /\ UNCHANGED <<timers, connects, removers>>

(* onOpen: the CONNECTED event reaches every handler bound so far, and the    *)
(* reconnection is called off.                                               *)
OnOpen ==
    /\ connecting > 0
    /\ connecting' = connecting - 1 /\ open' = open + 1
    /\ opened' = TRUE
    /\ state' = "connected"
    /\ modals' = Less(modals, removers)
    /\ timers' = IF schedule = "timer" THEN timers - 1 ELSE timers
    /\ schedule' = "none"
    /\ UNCHANGED <<connects, removers>>

(* The DISCONNECTED event reaches every handler bound so far.                *)
Disconnect ==
    /\ IF state = "connected"
       THEN modals' = modals + connects /\ removers' = removers + connects
       ELSE UNCHANGED <<modals, removers>>
    /\ state' = "disconnected"

(* Mutant: the test is for null, the value the page begins with.             *)
ScheduleIfNull ==
    IF schedule = "null"
    THEN schedule' = "timer" /\ timers' = timers + 1
    ELSE UNCHANGED <<schedule, timers>>

(* Mutant: every close sets an interval.                                     *)
ScheduleAlways == schedule' = "timer" /\ timers' = timers + 1

(* Null is not undefined: while no WebSocket was ever open nothing is        *)
(* scheduled.                                                                *)
ScheduleReconnect ==
    IF schedule = "none"
    THEN schedule' = "timer" /\ timers' = timers + 1
    ELSE UNCHANGED <<schedule, timers>>

(* onClosed, of any WebSocket: an open one that is lost, or an attempt that   *)
(* fails.  The network fails only while the bound leaves an attempt.         *)
OnClosed ==
    /\ connects < MaxConnects
    /\ \/ open > 0 /\ open' = open - 1 /\ UNCHANGED connecting
       \/ connecting > 0 /\ connecting' = connecting - 1 /\ UNCHANGED open
    /\ Disconnect
    /\ ScheduleReconnect
    /\ UNCHANGED <<connects, opened>>

(* The interval fires, whatever became of the attempts before.               *)
Reconnect ==
    /\ timers > 0
    /\ connects < MaxConnects
    /\ connects' = connects + 1
    /\ connecting' = connecting + 1
    /\ UNCHANGED <<state, schedule, timers, open, removers, modals, opened>>

Next == OnOpen \/ OnClosed \/ Reconnect

(* The browser runs its intervals, and an attempt that does not fail ends in  *)
(* an open connection.                                                        *)
Fairness == WF_socketVars(OnOpen) /\ WF_socketVars(Reconnect)

Spec == Init /\ [][Next]_socketVars /\ Fairness

-----------------------------------------------------------------------------
(* The state has its type, and the page never runs a second interval: the     *)
(* handle of a live one is always kept.                                       *)
TypeOK ==
    /\ state \in {"connected", "disconnected"}
    /\ schedule \in {"null", "none", "timer"}
    /\ timers = IF schedule = "timer" THEN 1 ELSE 0
    /\ connects \in Nat
    /\ connecting \in Nat /\ open \in Nat /\ connecting + open <= connects
    /\ removers \in Nat /\ modals \in Nat
    /\ opened \in BOOLEAN

(* A page that says it is connected has an open WebSocket, although it may    *)
(* have several and takes the close of any of them for its own; it does not   *)
(* try to reconnect; and no disconnection modal is left in it, however many   *)
(* handlers the attempts so far have bound.                                  *)
ConnectedIsTrue == state = "connected" => open > 0 /\ timers = 0 /\ modals = 0

(* Once a WebSocket has been open, a page that is disconnected connects again *)
(* when the network stops failing.  (A page whose first attempt fails does    *)
(* not: its schedule is null.)                                               *)
Reconnects == opened ~> state = "connected"
=============================================================================
