---------------------------- MODULE WiseGuiProofs ----------------------------
(***************************************************************************)
(* Proofs about the WiseGui page: the invariant of the page is that of each  *)
(* of its parts.  Those of the view of an experiment and of flashing have a   *)
(* module of their own, EP and FP; the others are here.                       *)
(***************************************************************************)
EXTENDS WiseGui, Integers, FiniteSetTheorems, WellFoundedInduction, TLAPS

EP == INSTANCE ExperimentPageProofs
FP == INSTANCE FlashViewProofs

-----------------------------------------------------------------------------
(* The event WebSocket                                                       *)

(* Each handler that shows a modal binds one that takes a modal away, so the   *)
(* next CONNECTED event finds as many of the second kind as there are modals. *)
ModalsCovered == modals <= removers

SocketInv == Events!TypeOK /\ ModalsCovered /\ Events!ConnectedIsTrue

LEMMA SocketInit == Events!Init => SocketInv
<1> SUFFICES ASSUME Events!Init PROVE SocketInv
  OBVIOUS
<1>1. opened \in BOOLEAN
  BY Zenon DEF Events!Init
<1> QED
  BY <1>1 DEF Events!Init, SocketInv, Events!TypeOK, ModalsCovered, Events!ConnectedIsTrue

LEMMA SocketStep == SocketInv /\ [Events!Next]_(Events!socketVars) => SocketInv'
<1> SUFFICES ASSUME SocketInv, [Events!Next]_(Events!socketVars) PROVE SocketInv'
  OBVIOUS
<1> USE DEF SocketInv, Events!TypeOK, ModalsCovered, Events!ConnectedIsTrue
<1>1. CASE Events!OnOpen
  BY <1>1 DEF Events!OnOpen, Events!Less
<1>2. CASE Events!OnClosed
  <2>1. schedule' \in {"null", "none", "timer"} /\ timers' = IF schedule' = "timer" THEN 1 ELSE 0
    BY <1>2 DEF Events!OnClosed, Events!ScheduleReconnect
  <2>2. connecting' \in Nat /\ open' \in Nat /\ connecting' + open' <= connects
    BY <1>2 DEF Events!OnClosed
  <2>3. /\ removers' \in Nat /\ modals' \in Nat /\ modals' <= removers'
        /\ state' = "disconnected"
    BY <1>2 DEF Events!OnClosed, Events!Disconnect
  <2> QED
    BY <1>2, <2>1, <2>2, <2>3 DEF Events!OnClosed
<1>3. CASE Events!Reconnect
  BY <1>3 DEF Events!Reconnect
<1>4. CASE UNCHANGED Events!socketVars
  BY <1>4 DEF Events!socketVars
<1> QED
  BY <1>1, <1>2, <1>3, <1>4 DEF Events!Next

-----------------------------------------------------------------------------
(* The login and the poller of reservations                                  *)

SessionInv == Login!TypeOK /\ Login!PollersFollowLogin /\ Login!AnnouncedOnce

(* A fetch keeps the types of what is in flight.                             *)
LEMMA SendFetchTyped ==
    ASSUME Login!TypeOK, Login!SendFetch
    PROVE  fetches' \subseteq Fetch /\ asked' \in [Fetch -> SUBSET Reservation]
BY DEF Login!TypeOK, Login!SendFetch

(* A login adds an interval, and counts it as surplus if one was observed.           *)
LEMMA LoggedInFollows ==
    ASSUME Login!TypeOK, Login!PollersFollowLogin, Login!LoggedIn
    PROVE  /\ isLoggedIn' \in BOOLEAN /\ isLoggedIn' /\ offered' \in BOOLEAN /\ poller' = "timer"
           /\ pollers' \in Nat /\ surplus' \in Nat /\ pollers' = surplus' + 1
           /\ fetches' \subseteq Fetch /\ asked' \in [Fetch -> SUBSET Reservation]
<1>1. isLoggedIn' \in BOOLEAN /\ isLoggedIn' /\ offered' \in BOOLEAN
  BY Zenon DEF Login!LoggedIn
<1> QED
  BY <1>1, SendFetchTyped DEF Login!TypeOK, Login!PollersFollowLogin, Login!LoggedIn

(* A logout stops the interval that is observed, if there is one.                    *)
LEMMA LoggedOutFollows ==
    ASSUME Login!TypeOK, Login!PollersFollowLogin, Login!LoggedOut
    PROVE  /\ isLoggedIn' \in BOOLEAN /\ ~isLoggedIn' /\ offered' \in BOOLEAN /\ poller' = "none"
           /\ pollers' \in Nat /\ pollers' = surplus /\ UNCHANGED <<surplus, fetches, asked>>
<1>1. isLoggedIn' \in BOOLEAN /\ ~isLoggedIn' /\ offered' \in BOOLEAN
  BY Zenon DEF Login!LoggedOut
<1> QED
  BY <1>1 DEF Login!TypeOK, Login!PollersFollowLogin, Login!LoggedOut, Login!fetching

(* Processing an answer announces what was not known, and nothing else.        *)
LEMMA ProcessAnnouncesOnce ==
    ASSUME Login!TypeOK, Login!AnnouncedOnce, NEW answer \in SUBSET Reservation, Login!Process(answer)
    PROVE  /\ known' \subseteq Reservation /\ announced' \in [Reservation -> Nat]
           /\ Login!AnnouncedOnce'
<1> DEFINE new == {r \in answer : ~\E k \in known : Login!Equals(r, k)}
<1>1. new \intersect known = {}
  BY DEF Login!Equals
<1>2. known' = known \union new
  BY DEF Login!Process
<1>3. announced' = [r \in Reservation |-> announced[r] + IF r \in new THEN 1 ELSE 0]
  BY DEF Login!Process
<1>4. new \subseteq Reservation
  OBVIOUS
<1> HIDE DEF new
<1> QED
  BY <1>1, <1>2, <1>3, <1>4 DEF Login!TypeOK, Login!AnnouncedOnce

LEMMA SessionInit == Login!Init => SessionInv
<1> SUFFICES ASSUME Login!Init PROVE SessionInv
  OBVIOUS
<1>1. isLoggedIn \in BOOLEAN /\ offered \in BOOLEAN /\ dialog \in BOOLEAN /\ ~isLoggedIn
  BY Zenon DEF Login!Init
<1> QED
  BY <1>1 DEF Login!Init, SessionInv, Login!TypeOK, Login!PollersFollowLogin, Login!AnnouncedOnce

LEMMA SessionStep == SessionInv /\ [Login!Next]_(Login!sessionVars) => SessionInv'
<1> SUFFICES ASSUME Login!TypeOK, Login!PollersFollowLogin, Login!AnnouncedOnce, [Login!Next]_(Login!sessionVars)
             PROVE  SessionInv'
  BY DEF SessionInv
<1> USE DEF SessionInv, Login!loginState, Login!asking, Login!fetching, Login!observed
<1>1. CASE Login!CheckAnswered
  <2>1. CASE Login!LoggedIn
    BY <1>1, <2>1, LoggedInFollows DEF Login!CheckAnswered, Login!TypeOK, Login!PollersFollowLogin, Login!AnnouncedOnce
  <2>2. CASE Login!LoggedOut
    BY <1>1, <2>2, LoggedOutFollows DEF Login!CheckAnswered, Login!TypeOK, Login!PollersFollowLogin, Login!AnnouncedOnce
  <2>3. CASE UNCHANGED <<Login!loginState, Login!fetching>>
    BY <1>1, <2>3 DEF Login!CheckAnswered, Login!TypeOK, Login!PollersFollowLogin, Login!AnnouncedOnce
  <2> QED
    BY <1>1, <2>1, <2>2, <2>3 DEF Login!CheckAnswered
<1>2. CASE Login!ShowDialog \/ Login!HideDialog
  BY <1>2 DEF Login!ShowDialog, Login!HideDialog, Login!TypeOK, Login!PollersFollowLogin, Login!AnnouncedOnce
<1>3. CASE Login!StartLogin \/ Login!StartLogout
  BY <1>3 DEF Login!StartLogin, Login!StartLogout, Login!TypeOK, Login!PollersFollowLogin, Login!AnnouncedOnce
<1>4. CASE Login!LoginAnswered
  <2>1. CASE Login!LoggedIn
    BY <1>4, <2>1, LoggedInFollows DEF Login!LoginAnswered, Login!TypeOK, Login!PollersFollowLogin, Login!AnnouncedOnce
  <2>2. CASE UNCHANGED <<Login!loginState, Login!fetching>>
    BY <1>4, <2>2 DEF Login!LoginAnswered, Login!TypeOK, Login!PollersFollowLogin, Login!AnnouncedOnce
  <2> QED
    BY <1>4, <2>1, <2>2 DEF Login!LoginAnswered
<1>5. CASE Login!LogoutAnswered
  <2>1. CASE Login!LoggedOut /\ dialog' = FALSE
    <3>1. dialog' \in BOOLEAN
      BY <2>1, Zenon
    <3> QED
      BY <1>5, <2>1, <3>1, LoggedOutFollows DEF Login!LogoutAnswered, Login!TypeOK, Login!PollersFollowLogin, Login!AnnouncedOnce
  <2>2. CASE UNCHANGED <<Login!loginState, Login!fetching, dialog>>
    BY <1>5, <2>2 DEF Login!LogoutAnswered, Login!TypeOK, Login!PollersFollowLogin, Login!AnnouncedOnce
  <2> QED
    BY <1>5, <2>1, <2>2 DEF Login!LogoutAnswered
<1>6. CASE Login!Poll
  BY <1>6, SendFetchTyped DEF Login!Poll, Login!TypeOK, Login!PollersFollowLogin, Login!AnnouncedOnce
<1>7. ASSUME NEW f \in Fetch, Login!FetchAnswered(f) PROVE SessionInv'
  <2>1. fetches' \subseteq Fetch /\ asked' \in [Fetch -> SUBSET Reservation]
    BY <1>7 DEF Login!FetchAnswered, Login!TypeOK
  <2>2. known' \subseteq Reservation /\ announced' \in [Reservation -> Nat] /\ Login!AnnouncedOnce'
    <3>1. CASE UNCHANGED <<known, announced>>
      BY <3>1 DEF Login!TypeOK, Login!AnnouncedOnce
    <3>2. ASSUME NEW answer \in SUBSET made, Login!Process(answer)
          PROVE  known' \subseteq Reservation /\ announced' \in [Reservation -> Nat] /\ Login!AnnouncedOnce'
      <4>1. answer \in SUBSET Reservation
        BY DEF Login!TypeOK
      <4> QED
        BY <3>2, <4>1, ProcessAnnouncesOnce
    <3> QED
      BY <1>7, <3>1, <3>2 DEF Login!FetchAnswered
  <2> QED
    BY <1>7, <2>1, <2>2 DEF Login!FetchAnswered, Login!TypeOK, Login!PollersFollowLogin
<1>8. ASSUME NEW r \in Reservation, Login!Reserve(r) PROVE SessionInv'
  BY <1>8 DEF Login!Reserve, Login!TypeOK, Login!PollersFollowLogin, Login!AnnouncedOnce
<1>9. CASE UNCHANGED Login!sessionVars
  BY <1>9 DEF Login!sessionVars, Login!TypeOK, Login!PollersFollowLogin, Login!AnnouncedOnce
<1> QED
  BY <1>1, <1>2, <1>3, <1>4, <1>5, <1>6, <1>7, <1>8, <1>9 DEF Login!Next

-----------------------------------------------------------------------------
(* Federated reservations                                                    *)

(* A set of natural numbers has a least one.                                 *)
LEMMA Least ==
    ASSUME NEW T \in SUBSET Nat, T # {}
    PROVE  \E x \in T : \A y \in T : x <= y
<1> DEFINE F == {0..x : x \in T}
<1>1. F \subseteq FiniteSubsetsOf(Nat) /\ F # {}
  <2>1. \A x \in T : IsFiniteSet(0..x) /\ 0..x \subseteq Nat
    BY FS_Interval
  <2> QED
    BY <2>1 DEF FiniteSubsetsOf
<1>2. PICK m \in F : \A k \in F : <<k, m>> \notin StrictSubsetOrdering(Nat)
  BY <1>1, FS_StrictSubsetOrderingWellFounded, WFMin
<1>3. PICK x \in T : m = 0..x
  OBVIOUS
<1>4. ASSUME NEW y \in T, y < x PROVE FALSE
  <2>1. 0..y \in F /\ 0..y \subseteq 0..x /\ 0..y # 0..x /\ 0..x \subseteq Nat
    BY <1>4
  <2> QED
    BY <1>2, <1>3, <2>1 DEF StrictSubsetOrdering
<1> QED
  BY <1>4

(* A set of natural numbers that has a bound has a greatest one.               *)
LEMMA Greatest ==
    ASSUME NEW b \in Nat, NEW T \in SUBSET (0..b), T # {}
    PROVE  \E x \in T : \A y \in T : y <= x
<1> DEFINE D == {b - x : x \in T}
<1>1. D \in SUBSET Nat /\ D # {}
  <2>1. \A x \in 0..b : b - x \in Nat
    OBVIOUS
  <2> QED
    BY <2>1
<1> HIDE DEF D
<1>2. PICK d \in D : \A e \in D : d <= e
  BY <1>1, Least
<1> USE DEF D
<1>3. PICK x \in T : d = b - x
  BY <1>2
<1>4. ASSUME NEW y \in T PROVE y <= x
  <2>1. b - x <= b - y
    BY <1>2, <1>3
  <2> QED
    BY <2>1
<1> QED
  BY <1>4

(* Nothing is offered before the answer.  Afterwards the parts are not empty,   *)
(* the subsets are those in which each pair overlaps, and the reservation made *)
(* of each is what the fold gives.                                           *)
FedInv ==
    /\ ~answered => federatable = {}
    /\ answered => /\ \E n \in 1..MaxLength :
                          personal \in [1..n -> {p \in Feds!Part : p.from < p.to}]
                   /\ federatable = Feds!OverlappingSubsets(personal)
                   /\ federated = [s \in federatable |-> Feds!WisebedReservation(personal, s)]

LEMMA FedInit == Feds!Init => FedInv
<1> SUFFICES ASSUME Feds!Init PROVE ~answered /\ federatable = {}
  BY DEF FedInv
<1> QED
  BY Zenon DEF Feds!Init

LEMMA FedStep == FedInv /\ [Feds!Next]_(Feds!federationVars) => FedInv'
<1>1. ASSUME Feds!Next PROVE FedInv'
  <2>1. /\ answered' = TRUE
        /\ \E n \in 1..MaxLength : personal' \in [1..n -> {p \in Feds!Part : p.from < p.to}]
        /\ federatable' = Feds!OverlappingSubsets(personal')
        /\ federated' = [s \in federatable' |-> Feds!WisebedReservation(personal', s)]
    BY <1>1, Zenon DEF Feds!Next, Feds!GetFederatable
  <2> QED
    BY <2>1, Zenon DEF FedInv, Feds!OverlappingSubsets, Feds!Overlap, Feds!WisebedReservation,
       Feds!MapThenFoldSet, Feds!AddPart, Feds!Earliest, Feds!EmptyReservation, Feds!Max
<1>2. ASSUME FedInv, UNCHANGED Feds!federationVars PROVE FedInv'
  <2>1. /\ answered' = answered /\ personal' = personal
        /\ federatable' = federatable /\ federated' = federated
    BY <1>2, Zenon DEF Feds!federationVars
  <2>2. CASE ~answered
    <3>1. ~answered' /\ federatable' = {}
      BY <1>2, <2>1, <2>2, Zenon DEF FedInv
    <3> QED
      BY <3>1, Zenon DEF FedInv
  <2>3. CASE answered
    <3>1. /\ \E n \in 1..MaxLength : personal \in [1..n -> {p \in Feds!Part : p.from < p.to}]
          /\ federatable = Feds!OverlappingSubsets(personal)
          /\ federated = [s \in federatable |-> Feds!WisebedReservation(personal, s)]
      BY <1>2, <2>3, Zenon DEF FedInv
    <3>2. /\ answered'
          /\ \E n \in 1..MaxLength : personal' \in [1..n -> {p \in Feds!Part : p.from < p.to}]
          /\ federatable' = Feds!OverlappingSubsets(personal')
      BY <2>1, <2>3, <3>1, Zenon
    <3>3. federated' = [s \in federatable' |-> Feds!WisebedReservation(personal', s)]
      BY <2>1, <3>1, Zenon
    <3> QED
      BY <3>2, <3>3, Zenon DEF FedInv, Feds!OverlappingSubsets, Feds!Overlap,
         Feds!WisebedReservation, Feds!MapThenFoldSet, Feds!AddPart, Feds!Earliest,
         Feds!EmptyReservation, Feds!Max
  <2> QED
    BY <2>2, <2>3
<1> QED
  BY <1>1, <1>2

(* Intervals of which each two overlap have a moment in common: the latest     *)
(* beginning.  It is enough to compare pairs.                                 *)
LEMMA PairsAreEnough ==
    ASSUME NEW list, NEW n \in Nat, list \in [1..n -> {p \in Feds!Part : p.from < p.to}],
           NEW s \in SUBSET (1..n), s # {}
    PROVE  (\A i, j \in s : Feds!Overlap(list[i], list[j]))
           <=> \E t \in Feds!Time : \A i \in s : t \in Feds!During(list[i])
<1>1. \A i \in s : /\ list[i].from \in 0..MaxTime /\ list[i].to \in 0..MaxTime
                   /\ list[i].from < list[i].to
  BY DEF Feds!Part, Feds!Time
<1>2. ASSUME \A i, j \in s : Feds!Overlap(list[i], list[j])
      PROVE  \E t \in Feds!Time : \A i \in s : t \in Feds!During(list[i])
  <2>1. {list[i].from : i \in s} \in SUBSET (0..MaxTime) /\ {list[i].from : i \in s} # {}
    BY <1>1
  <2>2. PICK f \in {list[i].from : i \in s} : \A y \in {list[i].from : i \in s} : y <= f
    BY <2>1, Greatest, GuiAssumption
  <2>3. PICK i \in s : \A j \in s : list[j].from <= list[i].from
    BY <2>2
  <2>4. \A j \in s : list[i].from < list[j].to
    BY <1>2 DEF Feds!Overlap
  <2> QED
    BY <1>1, <2>3, <2>4 DEF Feds!During, Feds!Time
<1>3. ASSUME NEW t \in Feds!Time, \A i \in s : t \in Feds!During(list[i]), NEW i \in s, NEW j \in s
      PROVE  Feds!Overlap(list[i], list[j])
  <2>1. /\ list[i].from <= t /\ t < list[i].to /\ list[j].from <= t /\ t < list[j].to
        /\ t \in Nat
    BY <1>3, GuiAssumption DEF Feds!During, Feds!Time
  <2> QED
    BY <1>1, <2>1, GuiAssumption DEF Feds!Overlap
<1> QED
  BY <1>2, <1>3

LEMMA SameCardinality == \A S : Feds!Cardinality(S) = Cardinality(S)
BY DEF Feds!Cardinality, Cardinality

LEMMA OfferedShareAMoment == FedInv => Feds!OfferedHaveCommonTime
<1> SUFFICES ASSUME FedInv, answered
             PROVE  federatable = {s \in SUBSET DOMAIN personal :
                                       Feds!Cardinality(s) > 1 /\ Feds!Common(s) # {}}
  BY DEF Feds!OfferedHaveCommonTime
<1>1. PICK n \in 1..MaxLength : personal \in [1..n -> {p \in Feds!Part : p.from < p.to}]
  BY DEF FedInv
<1>2. n \in Nat /\ DOMAIN personal = 1..n
  BY <1>1
<1>3. federatable = {s \in SUBSET DOMAIN personal :
                        Feds!Cardinality(s) > 1 /\ \A i, j \in s : Feds!Overlap(personal[i], personal[j])}
  BY DEF FedInv, Feds!OverlappingSubsets
<1>4. ASSUME NEW s \in SUBSET DOMAIN personal, Feds!Cardinality(s) > 1
      PROVE  (\A i, j \in s : Feds!Overlap(personal[i], personal[j])) <=> Feds!Common(s) # {}
  <2>1. s # {}
    BY <1>4, FS_EmptySet, SameCardinality
  <2>2. (\A i, j \in s : Feds!Overlap(personal[i], personal[j]))
        <=> \E t \in Feds!Time : \A i \in s : t \in Feds!During(personal[i])
    BY <1>1, <1>2, <2>1, PairsAreEnough
  <2> QED
    BY <2>2 DEF Feds!Common
<1> QED
  BY <1>3, <1>4, Zenon

-----------------------------------------------------------------------------
(* The fold of a federated reservation                                       *)

(* The first and the last index of a subset.                                 *)
LEMMA MaxIsGreatest ==
    ASSUME NEW n \in Nat, NEW T \in SUBSET (1..n), T # {}
    PROVE  Feds!Max(T) \in T /\ \A i \in T : i <= Feds!Max(T)
<1>1. \E x \in T : \A y \in T : x >= y
  <2>1. T \in SUBSET (0..n)
    OBVIOUS
  <2>2. PICK x \in T : \A y \in T : y <= x
    BY <2>1, Greatest
  <2> QED
    BY <2>2
<1>2. Feds!Max(T) \in T /\ \A y \in T : Feds!Max(T) >= y
  BY <1>1 DEF Feds!Max
<1> QED
  BY <1>2

LEMMA MinIsLeast ==
    ASSUME NEW n \in Nat, NEW T \in SUBSET (1..n), T # {}
    PROVE  Feds!Min(T) \in T /\ \A i \in T : Feds!Min(T) <= i
<1>1. \E x \in T : \A y \in T : x <= y
  BY Least
<1> QED
  BY <1>1 DEF Feds!Min

(* What the reservation r made of the parts in T must be: it begins with the   *)
(* last of them, ends with the first, and shows the first moment of a         *)
(* cancellation if the part with the least index has one.                     *)
Moments(list, T) == {list[i].cancelled : i \in T} \ {Feds!Undefined}

Shows(list, T, c) ==
    \E m \in T : /\ \A i \in T : m <= i
                 /\ IF list[m].cancelled = Feds!Undefined
                    THEN c = Feds!Undefined
                    ELSE c \in Moments(list, T) /\ \A t \in Moments(list, T) : c <= t

BeginsLast(list, T, t) == (\E i \in T : t = list[i].from) /\ \A i \in T : list[i].from <= t
EndsFirst(list, T, t) == (\E i \in T : t = list[i].to) /\ \A i \in T : t <= list[i].to

Right(list, T, r) ==
    /\ \E f, t, c : r = [from |-> f, to |-> t, cancelled |-> c]
    /\ BeginsLast(list, T, r.from) /\ EndsFirst(list, T, r.to) /\ Shows(list, T, r.cancelled)

LEMMA PartIsTyped ==
    ASSUME NEW p \in Feds!Part
    PROVE  /\ p.from \in 0..MaxTime /\ p.to \in 0..MaxTime
           /\ p.cancelled \in Nat /\ p.cancelled # Feds!Null
           /\ Feds!Undefined \in Nat /\ Feds!Null \in Nat /\ Feds!Null # Feds!Undefined
           /\ p.from # Feds!Null /\ p.to # Feds!Null
BY GuiAssumption DEF Feds!Part, Feds!Time, Feds!Undefined, Feds!Null

LEMMA RightIsUnique ==
    ASSUME NEW n \in Nat, NEW list \in [1..n -> Feds!Part], NEW T \in SUBSET (1..n),
           NEW r, NEW q, Right(list, T, r), Right(list, T, q)
    PROVE  r = q
<1>1. \A i \in T : list[i] \in Feds!Part
  OBVIOUS
<1>2. r.from = q.from
  <2>1. PICK i \in T : r.from = list[i].from
    BY DEF Right, BeginsLast
  <2>2. PICK j \in T : q.from = list[j].from
    BY DEF Right, BeginsLast
  <2>3. list[i].from \in Nat /\ list[j].from \in Nat
    BY <1>1, PartIsTyped
  <2>4. list[i].from <= list[j].from /\ list[j].from <= list[i].from
    BY <2>1, <2>2 DEF Right, BeginsLast
  <2>5. list[i].from = list[j].from
    BY <2>3, <2>4
  <2> QED
    BY <2>1, <2>2, <2>5
<1>3. r.to = q.to
  <2>1. PICK i \in T : r.to = list[i].to
    BY DEF Right, EndsFirst
  <2>2. PICK j \in T : q.to = list[j].to
    BY DEF Right, EndsFirst
  <2>3. list[i].to \in Nat /\ list[j].to \in Nat
    BY <1>1, PartIsTyped
  <2>4. list[i].to <= list[j].to /\ list[j].to <= list[i].to
    BY <2>1, <2>2 DEF Right, EndsFirst
  <2>5. list[i].to = list[j].to
    BY <2>3, <2>4
  <2> QED
    BY <2>1, <2>2, <2>5
<1>4. r.cancelled = q.cancelled
  <2>1. PICK m \in T :
            /\ \A i \in T : m <= i
            /\ IF list[m].cancelled = Feds!Undefined
               THEN r.cancelled = Feds!Undefined
               ELSE r.cancelled \in Moments(list, T) /\ \A t \in Moments(list, T) : r.cancelled <= t
    BY DEF Right, Shows
  <2>2. PICK k \in T :
            /\ \A i \in T : k <= i
            /\ IF list[k].cancelled = Feds!Undefined
               THEN q.cancelled = Feds!Undefined
               ELSE q.cancelled \in Moments(list, T) /\ \A t \in Moments(list, T) : q.cancelled <= t
    BY DEF Right, Shows
  <2>3. m = k
    <3>1. m <= k /\ k <= m /\ m \in Nat /\ k \in Nat
      BY <2>1, <2>2
    <3> QED
      BY <3>1
  <2>4. Moments(list, T) \subseteq Nat
    BY <1>1, PartIsTyped DEF Moments
  <2>5. CASE list[m].cancelled = Feds!Undefined
    BY <2>1, <2>2, <2>3, <2>5
  <2>6. CASE list[m].cancelled # Feds!Undefined
    <3>1. /\ r.cancelled \in Nat /\ q.cancelled \in Nat
          /\ r.cancelled <= q.cancelled /\ q.cancelled <= r.cancelled
      BY <2>1, <2>2, <2>3, <2>4, <2>6
    <3> QED
      BY <3>1
  <2> QED
    BY <2>5, <2>6
<1> QED
  BY <1>2, <1>3, <1>4 DEF Right

LEMMA SomeIsRight ==
    ASSUME NEW n \in Nat, NEW list \in [1..n -> Feds!Part], NEW T \in SUBSET (1..n), T # {}
    PROVE  \E r : Right(list, T, r)
<1>1. \A i \in T : list[i] \in Feds!Part
  OBVIOUS
<1>2. PICK f : BeginsLast(list, T, f)
  <2>1. {list[i].from : i \in T} \in SUBSET (0..MaxTime) /\ {list[i].from : i \in T} # {}
    BY <1>1, PartIsTyped
  <2>2. PICK f \in {list[i].from : i \in T} : \A y \in {list[i].from : i \in T} : y <= f
    BY <2>1, Greatest, GuiAssumption
  <2> QED
    BY <2>2 DEF BeginsLast
<1>3. PICK e : EndsFirst(list, T, e)
  <2>1. {list[i].to : i \in T} \in SUBSET Nat /\ {list[i].to : i \in T} # {}
    <3>1. \A i \in T : list[i].to \in Nat
      BY <1>1, PartIsTyped
    <3> QED
      BY <3>1
  <2>2. PICK t \in {list[i].to : i \in T} : \A y \in {list[i].to : i \in T} : t <= y
    BY <2>1, Least
  <2> QED
    BY <2>2 DEF EndsFirst
<1>4. PICK c : Shows(list, T, c)
  <2>1. PICK m \in T : \A i \in T : m <= i
    BY Least
  <2>2. CASE list[m].cancelled = Feds!Undefined
    BY <2>1, <2>2 DEF Shows
  <2>3. CASE list[m].cancelled # Feds!Undefined
    <3>1. Moments(list, T) \in SUBSET Nat /\ Moments(list, T) # {}
      BY <1>1, <2>3, PartIsTyped DEF Moments
    <3>2. PICK c \in Moments(list, T) : \A t \in Moments(list, T) : c <= t
      BY <3>1, Least
    <3> QED
      BY <2>1, <2>3, <3>2 DEF Shows
  <2> QED
    BY <2>2, <2>3
<1> DEFINE r == [from |-> f, to |-> e, cancelled |-> c]
<1>5. r.from = f /\ r.to = e /\ r.cancelled = c
  OBVIOUS
<1>6. Right(list, T, r)
  BY <1>2, <1>3, <1>4, <1>5 DEF Right
<1> QED
  BY <1>6

(* The first part alone is right, and adding one with a greater index keeps    *)
(* right what was.                                                           *)
LEMMA FirstIsRight ==
    ASSUME NEW n \in Nat, NEW list \in [1..n -> Feds!Part], NEW x \in 1..n
    PROVE  Right(list, {x}, Feds!AddPart(Feds!EmptyReservation, list[x]))
<1> DEFINE p == list[x]
           a == Feds!AddPart(Feds!EmptyReservation, p)
<1>1. p \in Feds!Part
  OBVIOUS
<1>2. a = [from |-> p.from, to |-> p.to, cancelled |-> p.cancelled]
  BY DEF Feds!AddPart, Feds!EmptyReservation, Feds!Earliest
<1>3. a.from = p.from /\ a.to = p.to /\ a.cancelled = p.cancelled
  BY <1>2
<1>4. BeginsLast(list, {x}, a.from) /\ EndsFirst(list, {x}, a.to)
  BY <1>1, <1>3, PartIsTyped DEF BeginsLast, EndsFirst
<1>5. Shows(list, {x}, a.cancelled)
  <2>1. Moments(list, {x}) = {p.cancelled} \ {Feds!Undefined}
    BY DEF Moments
  <2>2. p.cancelled \in Nat
    BY <1>1, PartIsTyped
  <2>3. \A t \in Moments(list, {x}) : t = p.cancelled
    BY <2>1
  <2>4. x \in {x} /\ \A i \in {x} : x <= i
    OBVIOUS
  <2>5. CASE p.cancelled = Feds!Undefined
    BY <1>3, <2>4, <2>5 DEF Shows
  <2>6. CASE p.cancelled # Feds!Undefined
    <3>1. p.cancelled \in Moments(list, {x})
      BY <2>1, <2>6
    <3>2. p.cancelled <= p.cancelled
      BY <2>2
    <3>3. a.cancelled \in Moments(list, {x}) /\ \A t \in Moments(list, {x}) : a.cancelled <= t
      BY <1>3, <2>3, <3>1, <3>2
    <3> QED
      BY <2>4, <2>6, <3>3 DEF Shows
  <2> QED
    BY <2>5, <2>6
<1> QED
  BY <1>2, <1>4, <1>5 DEF Right

LEMMA AddedIsRight ==
    ASSUME NEW n \in Nat, NEW list \in [1..n -> Feds!Part], NEW T \in SUBSET (1..n),
           NEW x \in 1..n, \A i \in T : i < x, NEW r, T # {}, Right(list, T, r)
    PROVE  Right(list, T \cup {x}, Feds!AddPart(r, list[x]))
<1> DEFINE p == list[x]
           a == Feds!AddPart(r, p)
           U == T \cup {x}
<1>1. p \in Feds!Part /\ \A i \in T : list[i] \in Feds!Part
  OBVIOUS
<1>2. /\ p.from \in Nat /\ p.to \in Nat /\ p.cancelled \in Nat
      /\ r.from \in Nat /\ r.from # Feds!Null /\ r.to \in Nat /\ r.to # Feds!Null
  <2>1. PICK i \in T : r.from = list[i].from
    BY DEF Right, BeginsLast
  <2>2. PICK j \in T : r.to = list[j].to
    BY DEF Right, EndsFirst
  <2>3. /\ list[i].from \in Nat /\ list[i].from # Feds!Null
        /\ list[j].to \in Nat /\ list[j].to # Feds!Null
    BY <1>1, PartIsTyped
  <2>4. p.from \in Nat /\ p.to \in Nat /\ p.cancelled \in Nat
    BY <1>1, PartIsTyped
  <2> QED
    BY <2>1, <2>2, <2>3, <2>4
<1>3. a = [from |-> IF p.from >= r.from THEN p.from ELSE r.from,
           to |-> IF p.to <= r.to THEN p.to ELSE r.to,
           cancelled |-> Feds!Earliest(r.cancelled, p.cancelled)]
  BY <1>2 DEF Feds!AddPart
<1>4. /\ a.from = IF p.from >= r.from THEN p.from ELSE r.from
      /\ a.to = IF p.to <= r.to THEN p.to ELSE r.to
      /\ a.cancelled = Feds!Earliest(r.cancelled, p.cancelled)
  BY <1>3
<1>5. BeginsLast(list, U, a.from)
  <2>1. /\ \E i \in T : r.from = list[i].from
        /\ \A i \in T : list[i].from <= r.from
    BY DEF Right, BeginsLast
  <2>2. CASE p.from >= r.from
    <3>1. a.from = p.from /\ x \in U /\ p.from = list[x].from
      BY <1>4, <2>2
    <3>2. ASSUME NEW i \in U PROVE list[i].from <= p.from
      <4>1. CASE i \in T
        <5>1. list[i].from \in Nat
          BY <1>1, <4>1, PartIsTyped
        <5> QED
          BY <1>2, <2>1, <2>2, <4>1, <5>1
      <4>2. CASE i = x
        BY <1>2, <4>2
      <4> QED
        BY <4>1, <4>2
    <3> QED
      BY <3>1, <3>2 DEF BeginsLast
  <2>3. CASE ~(p.from >= r.from)
    <3>1. a.from = r.from /\ \E i \in U : r.from = list[i].from
      BY <1>4, <2>1, <2>3
    <3>2. p.from <= r.from
      BY <1>2, <2>3
    <3>3. \A i \in U : list[i].from <= r.from
      BY <2>1, <3>2
    <3> QED
      BY <3>1, <3>3 DEF BeginsLast
  <2> QED
    BY <2>2, <2>3
<1>6. EndsFirst(list, U, a.to)
  <2>1. /\ \E i \in T : r.to = list[i].to
        /\ \A i \in T : r.to <= list[i].to
    BY DEF Right, EndsFirst
  <2>2. CASE p.to <= r.to
    <3>1. a.to = p.to /\ x \in U /\ p.to = list[x].to
      BY <1>4, <2>2
    <3>2. ASSUME NEW i \in U PROVE p.to <= list[i].to
      <4>1. CASE i \in T
        <5>1. list[i].to \in Nat
          BY <1>1, <4>1, PartIsTyped
        <5> QED
          BY <1>2, <2>1, <2>2, <4>1, <5>1
      <4>2. CASE i = x
        BY <1>2, <4>2
      <4> QED
        BY <4>1, <4>2
    <3> QED
      BY <3>1, <3>2 DEF EndsFirst
  <2>3. CASE ~(p.to <= r.to)
    <3>1. a.to = r.to /\ \E i \in U : r.to = list[i].to
      BY <1>4, <2>1, <2>3
    <3>2. r.to <= p.to
      BY <1>2, <2>3
    <3>3. \A i \in U : r.to <= list[i].to
      BY <2>1, <3>2
    <3> QED
      BY <3>1, <3>3 DEF EndsFirst
  <2> QED
    BY <2>2, <2>3
<1>7. Shows(list, U, a.cancelled)
  <2>1. PICK m \in T :
            /\ \A i \in T : m <= i
            /\ IF list[m].cancelled = Feds!Undefined
               THEN r.cancelled = Feds!Undefined
               ELSE r.cancelled \in Moments(list, T) /\ \A t \in Moments(list, T) : r.cancelled <= t
    BY DEF Right, Shows
  <2>2. m \in U /\ \A i \in U : m <= i
    BY <2>1
  <2>3. CASE list[m].cancelled = Feds!Undefined
    <3>1. a.cancelled = Feds!Undefined
      BY <1>1, <1>4, <2>1, <2>3, PartIsTyped DEF Feds!Earliest
    <3> QED
      BY <2>2, <2>3, <3>1 DEF Shows
  <2>4. CASE list[m].cancelled # Feds!Undefined
    <3>1. /\ Moments(list, T) \subseteq Nat /\ Feds!Undefined \notin Moments(list, T)
          /\ Feds!Null \notin Moments(list, T)
      BY <1>1, PartIsTyped DEF Moments
    <3>2. Moments(list, U) = Moments(list, T) \cup ({p.cancelled} \ {Feds!Undefined})
      BY DEF Moments
    <3>3. r.cancelled \in Moments(list, T) /\ \A t \in Moments(list, T) : r.cancelled <= t
      BY <2>1, <2>4
    <3>4. a.cancelled = IF Feds!Undefined # p.cancelled /\ p.cancelled <= r.cancelled
                        THEN p.cancelled ELSE r.cancelled
      BY <1>4, <3>1, <3>3 DEF Feds!Earliest
    <3>5. a.cancelled \in Moments(list, U) /\ \A t \in Moments(list, U) : a.cancelled <= t
      <4>1. r.cancelled \in Nat
        BY <3>1, <3>3
      <4>2. CASE Feds!Undefined # p.cancelled /\ p.cancelled <= r.cancelled
        <5>1. a.cancelled = p.cancelled /\ p.cancelled \in Moments(list, U)
          BY <3>2, <3>4, <4>2
        <5>2. ASSUME NEW t \in Moments(list, T) PROVE p.cancelled <= t
          <6>1. t \in Nat /\ r.cancelled <= t
            BY <3>1, <3>3
          <6> QED
            BY <1>2, <4>1, <4>2, <6>1
        <5>3. p.cancelled <= p.cancelled
          BY <1>2
        <5> QED
          BY <3>2, <5>1, <5>2, <5>3
      <4>3. CASE Feds!Undefined # p.cancelled /\ ~(p.cancelled <= r.cancelled)
        <5>1. r.cancelled <= p.cancelled
          BY <1>2, <4>1, <4>3
        <5> QED
          BY <3>2, <3>3, <3>4, <4>3, <5>1
      <4>4. CASE Feds!Undefined = p.cancelled
        <5>1. Moments(list, U) = Moments(list, T)
          BY <3>2, <4>4
        <5> QED
          BY <3>3, <3>4, <4>4, <5>1
      <4> QED
        BY <4>2, <4>3, <4>4
    <3> QED
      BY <2>2, <2>4, <3>5 DEF Shows
  <2> QED
    BY <2>3, <2>4
<1> QED
  BY <1>3, <1>5, <1>6, <1>7 DEF Right

(* The fold takes the parts from the least index to the greatest.             *)
FoldOf(list, s, g) ==
    g = [T \in SUBSET s |->
            IF T = {} THEN Feds!EmptyReservation
            ELSE Feds!AddPart(g[T \ {Feds!Max(T)}], list[Feds!Max(T)])]

LEMMA FoldIsChosen ==
    ASSUME NEW list, NEW s
    PROVE  Feds!WisebedReservation(list, s) = (CHOOSE g : FoldOf(list, s, g))[s]
BY DEF Feds!WisebedReservation, Feds!MapThenFoldSet, FoldOf

(* One step of a function that is right, or a fold so far.                    *)
LEMMA StepIsRight ==
    ASSUME NEW n \in Nat, NEW list \in [1..n -> Feds!Part], NEW T \in SUBSET (1..n), T # {},
           NEW r,
           IF T \ {Feds!Max(T)} = {} THEN r = Feds!EmptyReservation
           ELSE Right(list, T \ {Feds!Max(T)}, r)
    PROVE  Right(list, T, Feds!AddPart(r, list[Feds!Max(T)]))
<1>1. PICK x \in T : x = Feds!Max(T) /\ \A i \in T : i <= x
  BY MaxIsGreatest
<1>2. T = (T \ {x}) \cup {x} /\ x \in 1..n /\ T \ {x} \in SUBSET (1..n)
      /\ \A i \in T \ {x} : i < x
  <2>1. T = (T \ {x}) \cup {x} /\ x \in 1..n /\ T \ {x} \in SUBSET (1..n)
    BY <1>1
  <2>2. ASSUME NEW i \in T \ {x} PROVE i < x
    <3>1. i <= x /\ i # x /\ i \in Nat /\ x \in Nat
      BY <1>1
    <3> QED
      BY <3>1
  <2> QED
    BY <2>1, <2>2
<1>3. CASE T \ {x} = {}
  <2>1. T = {x}
    BY <1>3
  <2> QED
    BY <1>1, <1>2, <1>3, <2>1, FirstIsRight
<1>4. CASE T \ {x} # {}
  <2>1. Right(list, T \ {x}, r)
    BY <1>1, <1>4
  <2>2. Right(list, (T \ {x}) \cup {x}, Feds!AddPart(r, list[x]))
    BY <1>2, <1>4, <2>1, AddedIsRight
  <2> QED
    BY <1>1, <1>2, <2>2
<1> QED
  BY <1>3, <1>4

(* There is such a function: that which gives what is right.                  *)
LEMMA FoldExists ==
    ASSUME NEW n \in Nat, NEW list \in [1..n -> Feds!Part], NEW s \in SUBSET (1..n)
    PROVE  \E g : FoldOf(list, s, g)
<1> DEFINE g == [T \in SUBSET s |-> IF T = {} THEN Feds!EmptyReservation
                                    ELSE CHOOSE r : Right(list, T, r)]
<1>1. ASSUME NEW T \in SUBSET s, T # {} PROVE Right(list, T, g[T])
  <2>1. \E r : Right(list, T, r)
    BY <1>1, SomeIsRight
  <2>2. g[T] = CHOOSE r : Right(list, T, r)
    BY <1>1
  <2> QED
    BY <2>1, <2>2
<1>2. g[{}] = Feds!EmptyReservation
  OBVIOUS
<1>3. ASSUME NEW T \in SUBSET s, T # {}
      PROVE  g[T] = Feds!AddPart(g[T \ {Feds!Max(T)}], list[Feds!Max(T)])
  <2> DEFINE R == T \ {Feds!Max(T)}
  <2>1. IF R = {} THEN g[R] = Feds!EmptyReservation ELSE Right(list, R, g[R])
    BY <1>1, <1>2
  <2>2. Right(list, T, g[T])
    BY <1>1, <1>3
  <2> HIDE DEF g
  <2>3. Right(list, T, Feds!AddPart(g[R], list[Feds!Max(T)]))
    BY <1>3, <2>1, StepIsRight
  <2> QED
    BY <2>2, <2>3, RightIsUnique
<1>4. g = [T \in SUBSET s |-> IF T = {} THEN Feds!EmptyReservation ELSE g[T]]
  BY <1>2
<1> HIDE DEF g
<1>5. FoldOf(list, s, g)
  BY <1>3, <1>4 DEF FoldOf
<1> QED
  BY <1>5

LEMMA FoldIsRight ==
    ASSUME NEW n \in Nat, NEW list \in [1..n -> Feds!Part], NEW s \in SUBSET (1..n), s # {}
    PROVE  Right(list, s, Feds!WisebedReservation(list, s))
<1>1. PICK g : g = CHOOSE h : FoldOf(list, s, h)
  OBVIOUS
<1>2. FoldOf(list, s, g)
  BY <1>1, FoldExists
<1>3. g[{}] = Feds!EmptyReservation
  BY <1>2 DEF FoldOf
<1>4. ASSUME NEW T \in SUBSET s, T # {}
      PROVE  g[T] = Feds!AddPart(g[T \ {Feds!Max(T)}], list[Feds!Max(T)])
  BY <1>2, <1>4 DEF FoldOf
<1> DEFINE Wrong == {T \in SUBSET s : T # {} /\ ~Right(list, T, g[T])}
<1>5. ASSUME Wrong # {} PROVE FALSE
  <2>1. IsFiniteSet(s)
    <3>1. 1 \in Int /\ n \in Int
      OBVIOUS
    <3>2. IsFiniteSet(1..n)
      BY <3>1, FS_Interval
    <3> QED
      BY <3>2, FS_Subset
  <2>2. Wrong \subseteq FiniteSubsetsOf(s)
    BY <2>1, FS_FiniteSubsetsOfFinite
  <2>3. PICK T \in Wrong : \A R \in Wrong : <<R, T>> \notin StrictSubsetOrdering(s)
    BY <1>5, <2>2, FS_StrictSubsetOrderingWellFounded, WFMin
  <2>4. Feds!Max(T) \in T
    BY MaxIsGreatest
  <2>5. PICK R : R = T \ {Feds!Max(T)}
    OBVIOUS
  <2>6. R \notin Wrong
    BY <2>3, <2>4, <2>5 DEF StrictSubsetOrdering
  <2>7. IF R = {} THEN g[R] = Feds!EmptyReservation ELSE Right(list, R, g[R])
    BY <1>3, <2>5, <2>6
  <2>8. Right(list, T, Feds!AddPart(g[R], list[Feds!Max(T)]))
    BY <2>5, <2>7, StepIsRight
  <2> QED
    BY <1>4, <2>5, <2>8
<1>6. Right(list, s, g[s])
  BY <1>5
<1> QED
  BY <1>1, <1>6, FoldIsChosen

(* The fold covers the time its parts share: it begins with the last of them    *)
(* and ends with the first.                                                   *)
LEMMA RightCoversCommon ==
    ASSUME NEW n \in Nat, NEW list \in [1..n -> Feds!Part], NEW s \in SUBSET (1..n),
           NEW r, Right(list, s, r)
    PROVE  Feds!During(r) = {t \in Feds!Time : \A i \in s : t \in Feds!During(list[i])}
<1>1. \A i \in s : list[i].from \in Nat /\ list[i].to \in Nat
  <2>1. \A i \in s : list[i] \in Feds!Part
    OBVIOUS
  <2> QED
    BY <2>1, PartIsTyped
<1>2. PICK f \in s : r.from = list[f].from /\ \A i \in s : list[i].from <= r.from
  BY DEF Right, BeginsLast
<1>3. PICK l \in s : r.to = list[l].to /\ \A i \in s : r.to <= list[i].to
  BY DEF Right, EndsFirst
<1>4. ASSUME NEW t \in Feds!Time
      PROVE  r.from <= t /\ t < r.to <=> \A i \in s : list[i].from <= t /\ t < list[i].to
  <2>1. t \in Nat
    BY GuiAssumption DEF Feds!Time
  <2>2. ASSUME r.from <= t, t < r.to, NEW i \in s PROVE list[i].from <= t /\ t < list[i].to
    <3>1. /\ list[i].from \in Nat /\ list[i].to \in Nat /\ r.from \in Nat /\ r.to \in Nat
          /\ list[i].from <= r.from /\ r.to <= list[i].to
      BY <1>1, <1>2, <1>3
    <3> QED
      BY <2>1, <2>2, <3>1
  <2>3. ASSUME \A i \in s : list[i].from <= t /\ t < list[i].to PROVE r.from <= t /\ t < r.to
    BY <1>2, <1>3, <2>3
  <2> QED
    BY <2>2, <2>3
<1> QED
  BY <1>4 DEF Feds!During

LEMMA FederatedAreRight == FedInv => Feds!FederatedIsRight
<1> SUFFICES ASSUME FedInv, NEW s \in federatable
             PROVE  /\ Feds!During(federated[s]) = Feds!Common(s)
                    /\ IF personal[Feds!Min(s)].cancelled = Feds!Undefined
                       THEN federated[s].cancelled = Feds!Undefined
                       ELSE /\ federated[s].cancelled \in Moments(personal, s)
                            /\ \A t \in Moments(personal, s) : federated[s].cancelled <= t
  BY DEF Feds!FederatedIsRight, Moments
<1>1. answered
  BY DEF FedInv
<1>2. PICK n \in 1..MaxLength : personal \in [1..n -> {p \in Feds!Part : p.from < p.to}]
  BY <1>1 DEF FedInv
<1>3. n \in Nat /\ personal \in [1..n -> Feds!Part]
  BY <1>2
<1>4. s \in SUBSET (1..n) /\ Feds!Cardinality(s) > 1
  <2>1. s \in SUBSET DOMAIN personal /\ Feds!Cardinality(s) > 1
    BY <1>1, Zenon DEF FedInv, Feds!OverlappingSubsets
  <2> QED
    BY <1>3, <2>1
<1>5. s # {}
  BY <1>4, FS_EmptySet, SameCardinality
<1>6. PICK r : r = federated[s] /\ Right(personal, s, r)
  <2>1. federated[s] = Feds!WisebedReservation(personal, s)
    BY <1>1, Zenon DEF FedInv
  <2> QED
    BY <1>3, <1>4, <1>5, <2>1, FoldIsRight
<1>7. Feds!During(r) = Feds!Common(s)
  BY <1>3, <1>4, <1>6, RightCoversCommon DEF Feds!Common
<1>8. PICK m \in s :
          /\ \A i \in s : m <= i
          /\ IF personal[m].cancelled = Feds!Undefined
             THEN r.cancelled = Feds!Undefined
             ELSE /\ r.cancelled \in Moments(personal, s)
                  /\ \A t \in Moments(personal, s) : r.cancelled <= t
  BY <1>6 DEF Right, Shows
<1>9. m = Feds!Min(s)
  <2>1. Feds!Min(s) \in s /\ \A i \in s : Feds!Min(s) <= i
    BY <1>3, <1>4, <1>5, MinIsLeast
  <2>2. m \in Nat /\ Feds!Min(s) \in Nat
    <3>1. \A x \in s : x \in Nat
      BY <1>4
    <3> QED
      BY <2>1, <3>1
  <2>3. m <= Feds!Min(s) /\ Feds!Min(s) <= m
    BY <1>8, <2>1
  <2> QED
    BY <2>2, <2>3
<1> QED
  BY <1>6, <1>7, <1>8, <1>9

-----------------------------------------------------------------------------
(* The page                                                                  *)

(* Each of the two modules of proofs is about the same part of the page as the *)
(* module that it extends.                                                   *)
LEMMA SameExperiment ==
    /\ Experiment!Init => EP!Init
    /\ Experiment!Next => EP!Next
    /\ EP!TypeOK => Experiment!TypeOK
    /\ EP!OneViewPerReservation => OneViewPerReservation
    /\ EP!NothingMissed => NothingMissed
    /\ EP!BadgeFollows => BadgeFollows
    /\ EP!ControlsFollow => ControlsFollow
<1>1. Experiment!Init => EP!Init
  BY DEF Experiment!Init, EP!Init
<1>2. Experiment!Next => EP!Next
  BY DEF Experiment!Next, Experiment!Clock, Experiment!Cancel, Experiment!Finalize,
     Experiment!PostStarted, Experiment!PostCancelled, Experiment!PostEnded, Experiment!Post,
     Experiment!Registered, Experiment!Register, Experiment!ReadPast,
     Experiment!PastLifecycleEvents, Experiment!HasStarted, Experiment!Replay, Experiment!Close,
     Experiment!Visit, Experiment!Loaded, Experiment!Message, Experiment!OnStarted,
     Experiment!OnOver, Experiment!Over, Experiment!portal, Experiment!view, Experiment!page,
     Experiment!Press, Experiment!Callback, Experiment!past,
     EP!Next, EP!Clock, EP!Cancel, EP!Finalize, EP!PostStarted, EP!PostCancelled, EP!PostEnded,
     EP!Post, EP!Registered, EP!Register, EP!ReadPast, EP!PastLifecycleEvents, EP!HasStarted,
     EP!Replay, EP!Close, EP!Visit, EP!Loaded, EP!Message, EP!OnStarted, EP!OnOver, EP!Over,
     EP!portal, EP!view, EP!page, EP!Press, EP!Callback, EP!past
<1>3. EP!TypeOK => Experiment!TypeOK
  BY DEF EP!TypeOK, EP!MessageType, EP!Phase, Experiment!TypeOK, Experiment!MessageType,
     Experiment!Phase
<1>4. EP!OneViewPerReservation => OneViewPerReservation
  BY DEF EP!OneViewPerReservation, OneViewPerReservation, Experiment!OneViewPerReservation
<1>5. /\ EP!NothingMissed => NothingMissed
      /\ EP!BadgeFollows => BadgeFollows
      /\ EP!ControlsFollow => ControlsFollow
  BY DEF EP!NothingMissed, NothingMissed, Experiment!NothingMissed, EP!BadgeFollows, BadgeFollows,
     Experiment!BadgeFollows, EP!ControlsFollow, ControlsFollow, Experiment!ControlsFollow,
     EP!AtRest, Experiment!AtRest, EP!HasStarted, Experiment!HasStarted, EP!Over, Experiment!Over,
     EP!StartPosted, Experiment!StartPosted
<1> QED
  BY <1>1, <1>2, <1>3, <1>4, <1>5

LEMMA SameFlashing ==
    /\ Flashing!Init => FP!Init
    /\ Flashing!Next => FP!Next
    /\ FP!TypeOK => Flashing!TypeOK
    /\ FP!PollsWhileUnanswered => PollsWhileUnanswered
    /\ FP!OneFlashAtATime => OneFlashAtATime
<1>1. Flashing!Init => FP!Init
  BY DEF Flashing!Init, FP!Init
<1>2. Flashing!Next => FP!Next
  BY DEF Flashing!Next, Flashing!OnStarted, Flashing!OnEnded, Flashing!ExecuteFlashNodes,
     Flashing!Posted, Flashing!PostFails, Flashing!Complete, Flashing!Poll,
     Flashing!PortalAnswers, Flashing!OnProgress, Flashing!Callback, Flashing!OnComplete,
     Flashing!OnError, Flashing!Proceeds, Flashing!UnderWay, Flashing!Answered, Flashing!polls,
     FP!Next, FP!OnStarted, FP!OnEnded, FP!ExecuteFlashNodes, FP!Posted, FP!PostFails,
     FP!Complete, FP!Poll, FP!PortalAnswers, FP!OnProgress, FP!Callback, FP!OnComplete,
     FP!OnError, FP!Proceeds, FP!UnderWay, FP!Answered, FP!polls
<1>3. FP!TypeOK => Flashing!TypeOK
  BY DEF FP!TypeOK, Flashing!TypeOK
<1>4. /\ FP!PollsWhileUnanswered => PollsWhileUnanswered
      /\ FP!OneFlashAtATime => OneFlashAtATime
  BY DEF FP!PollsWhileUnanswered, PollsWhileUnanswered, Flashing!PollsWhileUnanswered,
     FP!OneFlashAtATime, OneFlashAtATime, Flashing!OneFlashAtATime, FP!UnderWay, Flashing!UnderWay
<1> QED
  BY <1>1, <1>2, <1>3, <1>4

GuiInv == SocketInv /\ SessionInv /\ FedInv /\ EP!PageInv /\ FP!FlashInv

LEMMA GuiInit == Init => GuiInv
BY SocketInit, SessionInit, FedInit, SameExperiment, EP!PageInit, SameFlashing, FP!FlashInit
   DEF Init, GuiInv

(* A step of the page is a step of one part, and the others stay as they are.   *)
LEMMA OnePartAtATime ==
    ASSUME [Next]_vars
    PROVE  /\ [Events!Next]_(Events!socketVars)
           /\ [Login!Next]_(Login!sessionVars)
           /\ [Feds!Next]_(Feds!federationVars)
           /\ [EP!Next]_(EP!pageVars)
           /\ [FP!Next]_(FP!flashVars)
<1> USE DEF InEvents, InLogin, InFederation, InExperiment, InFlashing, vars
<1>1. [Events!Next]_(Events!socketVars)
  <2>1. Events!Next \/ UNCHANGED eventVars
    BY DEF Next
  <2> QED
    BY <2>1 DEF eventVars, Events!socketVars
<1>2. [Login!Next]_(Login!sessionVars)
  <2>1. Login!Next \/ UNCHANGED loginVars
    BY DEF Next
  <2> QED
    BY <2>1 DEF loginVars, Login!sessionVars, Login!loginState, Login!asking, Login!fetching,
       Login!observed
<1>3. [Feds!Next]_(Feds!federationVars)
  <2>1. Feds!Next \/ UNCHANGED fedVars
    BY DEF Next
  <2> QED
    BY <2>1 DEF fedVars, Feds!federationVars
<1>4. [EP!Next]_(EP!pageVars)
  <2>1. Experiment!Next \/ UNCHANGED experimentVars
    BY DEF Next
  <2> QED
    BY <2>1, SameExperiment DEF experimentVars, EP!pageVars, EP!portal, EP!view, EP!page, EP!past
<1>5. [FP!Next]_(FP!flashVars)
  <2>1. Flashing!Next \/ UNCHANGED flashVars
    BY DEF Next
  <2> QED
    BY <2>1, SameFlashing DEF flashVars, FP!flashVars, FP!polls
<1> QED
  BY <1>1, <1>2, <1>3, <1>4, <1>5

LEMMA GuiStep == GuiInv /\ [Next]_vars => GuiInv'
<1> SUFFICES ASSUME GuiInv, [Next]_vars PROVE GuiInv'
  OBVIOUS
<1> QED
  BY OnePartAtATime, SocketStep, SessionStep, FedStep, EP!PageStep, FP!FlashStep DEF GuiInv

LEMMA GuiInvariant == Spec => []GuiInv
BY GuiInit, GuiStep, PTL DEF Spec

-----------------------------------------------------------------------------
(* The page keeps its types, with any number of attempts, requests, visits and *)
(* polls: no interval is cleared that does not run, no answer taken that was   *)
(* not asked for.                                                            *)
THEOREM PageTypes == Spec => []TypeOK
<1>1. GuiInv => TypeOK
  <2>1. GuiInv => Events!TypeOK /\ Login!TypeOK
    BY DEF GuiInv, SocketInv, SessionInv
  <2>2. GuiInv => EP!TypeOK /\ FP!TypeOK
    BY DEF GuiInv, EP!PageInv, FP!FlashInv
  <2> QED
    BY <2>1, <2>2, SameExperiment, SameFlashing DEF TypeOK
<1> QED
  BY <1>1, GuiInvariant, PTL

(* A page that says it is connected has an open WebSocket, runs no            *)
(* reconnection interval and shows no disconnection modal, after any number   *)
(* of attempts that overlap, fail or are lost.                               *)
THEOREM ConnectedPageIsConnected == Spec => []ConnectedIsTrue
<1>1. GuiInv => ConnectedIsTrue
  BY DEF GuiInv, SocketInv, ConnectedIsTrue
<1> QED
  BY <1>1, GuiInvariant, PTL

(* A page that is logged in polls once, a page that is logged out does not,    *)
(* but for one interval for each login that came while another was observed,  *)
(* in whatever order logins and logouts are answered.                         *)
THEOREM PollersAreThoseOfTheLogin == Spec => []PollersFollowLogin
<1>1. GuiInv => PollersFollowLogin
  BY DEF GuiInv, SessionInv, PollersFollowLogin
<1> QED
  BY <1>1, GuiInvariant, PTL

(* A reservation is announced once, when it becomes known, however many        *)
(* fetches are under way and however their answers overtake one another.       *)
THEOREM EachIsAnnouncedOnce == Spec => []AnnouncedOnce
<1>1. GuiInv => AnnouncedOnce
  BY DEF GuiInv, SessionInv, AnnouncedOnce
<1> QED
  BY <1>1, GuiInvariant, PTL

(* The subsets of reservations that are offered for federation are exactly      *)
(* those with a moment common to all, for any number of reservations, although *)
(* getFederatable compares pairs only.                                       *)
THEOREM OfferedCanBeFederated == Spec => []OfferedHaveCommonTime
<1>1. GuiInv => OfferedHaveCommonTime
  BY OfferedShareAMoment DEF GuiInv, OfferedHaveCommonTime
<1> QED
  BY <1>1, GuiInvariant, PTL

(* The reservation that WisebedReservation makes of any number of parts covers  *)
(* exactly the time they share, and shows as its cancellation what the first   *)
(* part lets it show: the earliest moment of any, or none.                    *)
THEOREM FederatedCoversItsParts == Spec => []FederatedIsRight
<1>1. GuiInv => FederatedIsRight
  BY FederatedAreRight DEF GuiInv, FederatedIsRight
<1> QED
  BY <1>1, GuiInvariant, PTL

(* An experiment has one view at most, however often the user comes back and   *)
(* whenever the request for its data is answered.                             *)
THEOREM OneViewForEach == Spec => []OneViewPerReservation
<1>1. GuiInv => OneViewPerReservation
  BY EP!PageHasOneView, SameExperiment DEF GuiInv
<1> QED
  BY <1>1, GuiInvariant, PTL

(* No event falls between the past that onOpen reads and the live events.      *)
THEOREM NoEventFallsBetween == Spec => []NothingMissed
<1>1. GuiInv => NothingMissed
  BY EP!PageMissesNothing, SameExperiment DEF GuiInv
<1> QED
  BY <1>1, GuiInvariant, PTL

(* The badge never runs ahead of the reservation, and a page at rest shows what *)
(* its WebSocket had to tell it, the past at its opening and the events posted *)
(* since; not what was never posted, and not if the start came twice or late.  *)
THEOREM BadgeShowsWhatBecame == Spec => []BadgeFollows
<1>1. GuiInv => BadgeFollows
  BY EP!PageShowsTheBadge, SameExperiment DEF GuiInv
<1> QED
  BY <1>1, GuiInvariant, PTL

(* The buttons are not enabled before the reservation begins.  After an end     *)
(* that the page was told they are only enabled if the reservation was         *)
(* cancelled, the start was replayed late, or a callback came late.            *)
THEOREM ControlsFollowTheReservation == Spec => []ControlsFollow
<1>1. GuiInv => ControlsFollow
  BY EP!PageEnablesControls, SameExperiment DEF GuiInv
<1> QED
  BY <1>1, GuiInvariant, PTL

(* The page polls for a flash request exactly while it is unanswered, whatever *)
(* the number and the order of the overlapping polls and of their answers.     *)
THEOREM PollsUntilAnswered == Spec => []PollsWhileUnanswered
<1>1. GuiInv => PollsWhileUnanswered
  <2>1. GuiInv => FP!PollsWhileUnanswered
    BY DEF GuiInv, FP!FlashInv
  <2> QED
    BY <2>1, SameFlashing
<1> QED
  BY <1>1, GuiInvariant, PTL

(* While the reservation runs the button keeps flash requests apart, unless a  *)
(* late callback or a second STARTED has enabled it.                          *)
THEOREM ButtonKeepsFlashesApart == Spec => []OneFlashAtATime
<1>1. GuiInv => OneFlashAtATime
  <2>1. GuiInv => FP!OneFlashAtATime
    BY DEF GuiInv, FP!FlashInv
  <2> QED
    BY <2>1, SameFlashing
<1> QED
  BY <1>1, GuiInvariant, PTL
=============================================================================
