------------------------------ MODULE Federation ------------------------------
(***************************************************************************)
(* Which of the user's reservations the WiseGui page offers to use together,  *)
(* and the reservation it makes of them: getFederatable tests the overlap of  *)
(* each pair in each subset, and WisebedReservation folds the parts of a       *)
(* subset, in the order of the server's answer, into one.                     *)
(*                                                                         *)
(* A reservation is its interval and the moment at which it was cancelled; the *)
(* moment of its finalization is folded the same way and left out.  In         *)
(* JavaScript no comparison with undefined holds.                             *)
(***************************************************************************)
EXTENDS Naturals, FiniteSets, FiniteSetsExt

CONSTANTS
    MaxTime,    (* bound: the last moment                                       *)
    MaxLength   (* bound: reservations in the answer of the server              *)

Time == 0..MaxTime
Undefined == MaxTime + 1
Null == MaxTime + 2   (* as a WisebedReservation begins                         *)

(* Bound: two moments of cancellation are enough for parts that agree, that   *)
(* differ and that lack one.                                                 *)
Part == [from : Time, to : Time, cancelled : {0, MaxTime, Undefined}]

VARIABLES
    personal,      (* the answer to getPersonal, none before it                 *)
    answered,      (* the callback has run                                      *)
    federatable,   (* the subsets that are offered, as sets of indices          *)
    federated      (* federated[s]: the reservation made of subset s            *)

federationVars == <<personal, answered, federatable, federated>>

Init ==
    /\ personal = <<>>
    /\ answered = FALSE
    /\ federatable = {}
    /\ federated = <<>>

(* Mutant: intervals that only touch overlap.                                *)
Touch(p, q) == p.from <= q.to /\ p.to >= q.from

Overlap(p, q) == p.from < q.to /\ p.to > q.from

(* A moment replaces the one kept so far if that is null or the comparison    *)
(* holds.                                                                    *)
Earliest(kept, moment) ==
    IF kept = Null \/ (Undefined \notin {kept, moment} /\ moment <= kept)
    THEN moment ELSE kept

(* Mutant: the first part gives the beginning.                               *)
AddPartKeepsFrom(r, p) ==
    [from      |-> IF r.from = Null THEN p.from ELSE r.from,
     to        |-> IF r.to = Null \/ p.to <= r.to THEN p.to ELSE r.to,
     cancelled |-> Earliest(r.cancelled, p.cancelled)]

(* One step of the fold: the latest beginning and the earliest of the rest.    *)
AddPart(r, p) ==
    [from      |-> IF r.from = Null \/ p.from >= r.from THEN p.from ELSE r.from,
     to        |-> IF r.to = Null \/ p.to <= r.to THEN p.to ELSE r.to,
     cancelled |-> Earliest(r.cancelled, p.cancelled)]

EmptyReservation == [from |-> Null, to |-> Null, cancelled |-> Null]

(* The reservations of list in the subset s are added in their order.         *)
WisebedReservation(list, s) ==
    MapThenFoldSet(LAMBDA p, r : AddPart(r, p), EmptyReservation,
                   LAMBDA i : list[i], LAMBDA t : Max(t), s)

(* The subsets of more than one reservation in which each pair overlaps.      *)
OverlappingSubsets(list) ==
    {s \in SUBSET DOMAIN list :
         Cardinality(s) > 1 /\ \A i, j \in s : Overlap(list[i], list[j])}

(* The answer of getPersonal: no reservation is empty.                        *)
GetFederatable ==
    /\ ~answered
    /\ answered' = TRUE
    /\ \E n \in 1..MaxLength : personal' \in [1..n -> {p \in Part : p.from < p.to}]
    /\ federatable' = OverlappingSubsets(personal')
    /\ federated' = [s \in federatable' |-> WisebedReservation(personal', s)]

Next == GetFederatable

Spec == Init /\ [][Next]_federationVars

-----------------------------------------------------------------------------
During(r) == {t \in Time : r.from <= t /\ t < r.to}
Common(s) == {t \in Time : \A i \in s : t \in During(personal[i])}

(* Exactly those subsets are offered whose reservations have a moment that is *)
(* common to all of them, although only pairs are compared.                   *)
OfferedHaveCommonTime ==
    answered => federatable = {s \in SUBSET DOMAIN personal : Cardinality(s) > 1 /\ Common(s) # {}}

(* The reservation made of a subset covers exactly the time its parts share.  *)
(* It is shown as cancelled if the first of its parts is, whatever became of  *)
(* the others, and then since the earliest cancellation of any part.         *)
FederatedIsRight ==
    \A s \in federatable :
        LET moments == {personal[i].cancelled : i \in s} \ {Undefined}
            shown == federated[s].cancelled
        IN  /\ During(federated[s]) = Common(s)
            /\ IF personal[Min(s)].cancelled = Undefined
               THEN shown = Undefined
               ELSE shown \in moments /\ \A t \in moments : shown <= t
=============================================================================
