-------------------------- MODULE ReservationSystem --------------------------
(***************************************************************************)
(* The reservation system (RS) of one testbed: SingleUrnPrefixRS in front   *)
(* of RSPersistenceJPA.  The SOAP threads that serve clients run it without  *)
(* a lock: a call is a sequence of steps and only the methods of the         *)
(* persistence are atomic (@Transactional, taken to be serializable).        *)
(*                                                                         *)
(* A reservation is a row; a row remembers, as history, the rows that were   *)
(* there when the nodes it asks for were found to be free, when it was added  *)
(* and when it was cancelled for the first time.                              *)
(***************************************************************************)
EXTENDS Naturals, Sequences

CONSTANTS
    Node,         (* the node URNs that are served                          *)
    Client,       (* the threads that serve makeReservation, cancelReservation *)
    Reservation,  (* bound: the secret reservation keys ever given           *)
    Request,      (* what makeReservation is called with                     *)
    MaxTime,      (* bound: the clock                                        *)
    MaxKeys       (* bound: the keys in one cancelReservation                *)

Time == 0 .. MaxTime
Span == [nodes : SUBSET Node, from : Time, to : Time]

ASSUME ReservationAssumption ==
    /\ MaxTime \in Nat
    /\ MaxKeys \in Nat
    /\ Request \subseteq Span

Never == MaxTime + 1       (* a date that is null                            *)

VARIABLES
    now,     (* the clock                                                    *)
    rows,    (* the reservations, by key                                     *)
    call     (* call[c]: the makeReservation or cancelReservation of c       *)

vars == <<now, rows, call>>

Keys == DOMAIN rows
Row == [nodes : SUBSET Node, from : Time, to : Time,
        cancelled : Time \cup {Never}, finalized : BOOLEAN,
        seen : SUBSET Reservation, made : Time, first : Time \cup {Never}]

NoSpan == [nodes |-> {}, from |-> 0, to |-> 0]
Idle == [op |-> "idle", ask |-> NoSpan, seen |-> {}, keys |-> <<>>]

Init ==
    /\ now = 0
    /\ rows = [r \in {} |-> Idle]
    /\ call = [c \in Client |-> Idle]

Becomes(c, next) == call' = [call EXCEPT ![c] = next]

-----------------------------------------------------------------------------
(* The queries of the persistence                                            *)

Overlap(a, b) == a.from < b.to /\ b.from < a.to
Conflict(a, b) == a.nodes \cap b.nodes # {} /\ Overlap(a, b)
Live(r) == rows[r].cancelled = Never

(* Mutant: a reservation inside the requested interval is overlooked.        *)
TakenAtEnds(row) ==
    \E r \in Keys : /\ Live(r)
                    /\ rows[r].nodes \cap row.nodes # {}
                    /\ rows[r].from <= row.from /\ row.from < rows[r].to

(* getReservations(from, to, showCancelled = false) reserves one of the nodes *)
Taken(row) == \E r \in Keys : Live(r) /\ Conflict(rows[r], row)

(* Mutant: as if no reservation was ever cancelled.                          *)
InForceUncancelled(r, t) == rows[r].from < t /\ rows[r].to > t

(* Mutant: a cancelled reservation never was.                                *)
InForceUnlessCancelled(r, t) ==
    rows[r].from < t /\ rows[r].cancelled = Never /\ rows[r].to > t

InForce(r, t) ==
    /\ rows[r].from < t
    /\ \/ rows[r].cancelled = Never /\ rows[r].to > t
       \/ rows[r].cancelled # Never /\ rows[r].cancelled > t

(* getReservation(n, t): more than one is an RSFault.                        *)
Owners(n, t) == {r \in Keys : n \in rows[r].nodes /\ InForce(r, t)}

-----------------------------------------------------------------------------
(* makeReservation(q)                                                        *)

(* checkArgumentValid: from may lie in the past and may equal to.            *)
MakeArguments(c, q) ==
    /\ call[c] = Idle
    /\ q.to >= now /\ q.to >= q.from /\ q.nodes # {}
    /\ Becomes(c, [Idle EXCEPT !.op = "available", !.ask = q])
    /\ UNCHANGED <<now, rows>>

(* checkNodesAvailable, after the remote call of checkNodesServed: a conflict *)
(* is a fault.                                                               *)
MakeAvailable(c) ==
    /\ call[c].op = "available"
    /\ Becomes(c, IF Taken(call[c].ask)
                  THEN Idle
                  ELSE [call[c] EXCEPT !.op = "add", !.seen = Keys])
    /\ UNCHANGED <<now, rows>>

NewRow(c) ==
    [nodes |-> call[c].ask.nodes, from |-> call[c].ask.from, to |-> call[c].ask.to,
     cancelled |-> Never, finalized |-> FALSE,
     seen |-> call[c].seen, made |-> now, first |-> Never]

(* addReservation under a fresh key.                                         *)
MakeAdd(c) ==
    /\ call[c].op = "add"
    /\ \E key \in Reservation \ Keys :
           rows' = [r \in Keys \cup {key} |->
                       IF r = key THEN NewRow(c) ELSE rows[r]]
    /\ Becomes(c, Idle)
    /\ UNCHANGED now

-----------------------------------------------------------------------------
(* cancelReservation(keys): one key after the other; a fault leaves the       *)
(* reservations before it cancelled.                                         *)

CancelBegins(c, keys) ==
    /\ call[c] = Idle
    /\ Becomes(c, [Idle EXCEPT !.op = "check", !.keys = keys])
    /\ UNCHANGED <<now, rows>>

InPast(row) == row.to < now

(* checkNotInPast, on the row as it was read.                                *)
CancelCheck(c) ==
    /\ call[c].op = "check"
    /\ Becomes(c, IF InPast(rows[Head(call[c].keys)])
                  THEN Idle
                  ELSE [call[c] EXCEPT !.op = "cancel"])
    /\ UNCHANGED <<now, rows>>

(* Mutant: the reservation is given its own end as the date.                  *)
SetCancelledAtEnd(r) ==
    rows' = [rows EXCEPT ![r] =
                [rows[r] EXCEPT !.cancelled = rows[r].to,
                                !.first = IF Live(r) THEN now ELSE rows[r].first]]

SetCancelled(r) ==
    rows' = [rows EXCEPT ![r] =
                [rows[r] EXCEPT !.cancelled = now,
                                !.first = IF Live(r) THEN now ELSE rows[r].first]]

(* persistence.cancelReservation checks the end again, never whether the      *)
(* reservation is cancelled already: a second call overwrites the date.       *)
CancelWrite(c) ==
    LET key == Head(call[c].keys)
        rest == Tail(call[c].keys)
    IN  /\ call[c].op = "cancel"
        /\ IF InPast(rows[key])
           THEN Becomes(c, Idle) /\ UNCHANGED rows
           ELSE /\ SetCancelled(key)
                /\ Becomes(c, IF rest = <<>> THEN Idle
                                             ELSE [call[c] EXCEPT !.op = "check", !.keys = rest])
        /\ UNCHANGED now

-----------------------------------------------------------------------------
(* finalizeReservation, called by the portal's ReservationImpl once the       *)
(* reservation has ended or was cancelled (ReservationLifecycle).            *)

TooEarly(row) == row.to > now /\ row.cancelled # Never /\ row.cancelled > now

FinalizeReservation(r) ==
    /\ rows[r].to <= now \/ ~Live(r)
    /\ ~TooEarly(rows[r])
    /\ rows' = [rows EXCEPT ![r].finalized = TRUE]
    /\ UNCHANGED <<now, call>>

Tick ==
    /\ now < MaxTime
    /\ now' = now + 1
    /\ UNCHANGED <<rows, call>>

KeyLists == UNION {[1 .. n -> Keys] : n \in 1 .. MaxKeys}

Next ==
    \/ Tick
    \/ \E c \in Client :
           \/ \E q \in Request : MakeArguments(c, q)
           \/ MakeAvailable(c)
           \/ MakeAdd(c)
           \/ \E keys \in KeyLists : CancelBegins(c, keys)
           \/ CancelCheck(c)
           \/ CancelWrite(c)
    \/ \E r \in Keys : FinalizeReservation(r)

Spec == Init /\ [][Next]_vars

-----------------------------------------------------------------------------
(* Properties                                                                *)

Calls ==
    [op : {"idle", "available", "add", "check", "cancel"}, ask : Span,
     seen : SUBSET Reservation, keys : Seq(Reservation)]

(* Every row and every call in progress is one the program can hold: what a   *)
(* call has seen exists, the keys left in a cancelReservation are keys of      *)
(* reservations, and no reservation is cancelled in the future.                *)
TypeOK ==
    /\ now \in Time
    /\ Keys \subseteq Reservation
    /\ rows \in [Keys -> Row]
    /\ call \in [Client -> Calls]
    /\ \A r \in Keys : /\ rows[r].seen \subseteq Keys
                       /\ Live(r) \/ rows[r].cancelled <= now
    /\ \A c \in Client : /\ call[c].seen \subseteq Keys
                         /\ call[c].keys \in Seq(Keys)
                         /\ call[c].op \in {"check", "cancel"} => call[c].keys # <<>>

(* Two calls raced if neither saw the other's reservation when it checked     *)
(* that its nodes are free.                                                   *)
Raced(r, s) == r \notin rows[s].seen /\ s \notin rows[r].seen

(* A node is booked twice for the same time only by two makeReservation calls *)
(* that overlapped, each checking before the other added: whatever was        *)
(* cancelled, cancelled again or finalized in between, a call that checks     *)
(* after the other one returned is refused.                                   *)
DoubleBookingNeedsARace ==
    \A r, s \in Keys :
        r # s /\ Live(r) /\ Live(s) /\ Conflict(rows[r], rows[s]) => Raced(r, s)

(* A reservation reaches back over a moment if it was added after it, with a   *)
(* start in the past, or if it was cancelled by then and cancelled again later. *)
Reaches(r, t) ==
    \/ t < rows[r].made
    \/ rows[r].first <= t /\ t < rows[r].cancelled

(* The lookup of the reservation that a node belonged to at a moment agrees    *)
(* with the check made when it was booked.  It finds more than one only if     *)
(* calls raced, or if one of the two reaches back over the moment; a moment    *)
(* that has not passed is shared only after a race, and a reservation cancelled *)
(* once is never in the way of its successor.                                  *)
SharedForAReason ==
    \A n \in Node, t \in Time : \A r, s \in Owners(n, t) :
        r # s => Raced(r, s) \/ Reaches(r, t) \/ Reaches(s, t)

(* The past changes in one direction and for two reasons.  No step takes a      *)
(* moment of the past away from a reservation that owned a node then.  A step   *)
(* may give it to another one, also next to its owner: a reservation made with  *)
(* a start in the past, or one cancelled before that moment and now again.     *)
PastOwnersKept ==
    [][\A n \in Node, t \in Time : t < now =>
          /\ Owners(n, t) \subseteq Owners(n, t)'
          /\ \A r \in Owners(n, t)' \ Owners(n, t) : Reaches(r, t)']_vars

(* RSPersistenceJPA.getReservation(nodeUrn, timestamp) raises "Found more     *)
(* than one reservation for node URN" as an error: it expects one at most.    *)
OneOwner ==
    \A n \in Node, t \in Time : \A r, s \in Owners(n, t) : r = s
=============================================================================
