-------------------------- MODULE DeliveryChannel --------------------------
(***************************************************************************)
(* What a DeliveryWorker promises to the users of its manager: for every   *)
(* kind of item a FIFO channel to one Controller endpoint.  Items accepted  *)
(* by the channel are numbered 1, 2, 3, ... in the order of acceptance.     *)
(* The endpoint may process an item more than once (the acknowledgement of *)
(* a remote call can be lost), but it never sees an item before the ones   *)
(* accepted earlier, and no item is skipped.  The endpoint is told that    *)
(* the reservation ended at most once, as the last call, and only when     *)
(* everything accepted so far has been acknowledged.                        *)
(***************************************************************************)
EXTENDS Integers, Sequences

CONSTANT Kind        (* the kinds of items, one FIFO channel each          *)

VARIABLES pending,   (* pending[k]: accepted and not yet acknowledged       *)
          accepted,  (* accepted[k]: number of items accepted so far        *)
          received,  (* received[k]: highest item the endpoint processed    *)
          told,      (* the endpoint was told that the reservation ended    *)
          closed     (* no call to the endpoint will be made any more       *)

channelVars == <<pending, accepted, received, told, closed>>

Init ==
    /\ pending = [k \in Kind |-> <<>>]
    /\ accepted = [k \in Kind |-> 0]
    /\ received = [k \in Kind |-> 0]
    /\ told = FALSE
    /\ closed = FALSE

(* Items of one or more kinds are accepted, each at the tail of its kind.   *)
Accept ==
    /\ accepted' \in [Kind -> Nat]
    /\ \A k \in Kind : accepted'[k] >= accepted[k]
    /\ pending' = [k \in Kind |->
                      pending[k] \o [i \in 1..(accepted'[k] - accepted[k]) |-> accepted[k] + i]]
    /\ UNCHANGED <<received, told, closed>>

(* The endpoint processes the first n pending items; they leave the         *)
(* channel only if the call returns normally (ack).                         *)
Deliver(k, n, ack) ==
    /\ ~closed
    /\ ~told
    /\ received' = [received EXCEPT ![k] = IF pending[k][n] > @
                                           THEN pending[k][n] ELSE @]
    /\ pending' = IF ack
                  THEN [pending EXCEPT ![k] = SubSeq(@, n + 1, Len(@))]
                  ELSE pending
    /\ UNCHANGED <<accepted, told, closed>>

(* The endpoint is told that the reservation ended and the channel closes. *)
TellEnded ==
    /\ ~closed
    /\ \A k \in Kind : pending[k] = <<>>
    /\ told' = TRUE
    /\ closed' = TRUE
    /\ UNCHANGED <<pending, accepted, received>>

(* The channel is abandoned: the endpoint was removed or gave no answer.   *)
Close ==
    /\ ~closed
    /\ closed' = TRUE
    /\ UNCHANGED <<pending, accepted, received, told>>

Next ==
    \/ Accept
    \/ \E k \in Kind : \E n \in 1..Len(pending[k]), ack \in BOOLEAN : Deliver(k, n, ack)
    \/ TellEnded
    \/ Close

Spec == Init /\ [][Next]_channelVars
=============================================================================
