----------------------- MODULE MCReservationLifecycle -----------------------
(* The configurations give ReservationLifecycle an interval of one time unit *)
(* that begins one unit after the reservation is made, and a keep-alive time *)
(* of one unit.  Two calls from outside, cancellations or touches, and one    *)
(* crash may come anywhere between the steps of the callables.               *)
EXTENDS ReservationLifecycle
=============================================================================
