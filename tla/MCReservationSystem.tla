------------------------ MODULE MCReservationSystem ------------------------
EXTENDS ReservationSystem, TLC
CONSTANTS n1, n2

Asks(nodes, from, to) == [nodes |-> nodes, from |-> from, to |-> to]

(* Requests of which one overlaps the others, one is empty and touches another; *)
(* they share one node or two, and may be made when they have begun already.   *)
Requests == {Asks({n1}, 0, 2), Asks({n1, n2}, 1, 2), Asks({n1, n2}, 1, 1)}

(* Clients are interchangeable, and so are keys.                             *)
Symmetric == Permutations(Client) \cup Permutations(Reservation)
=============================================================================
