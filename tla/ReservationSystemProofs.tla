------------------------ MODULE ReservationSystemProofs ------------------------
(***************************************************************************)
(* Theorems of ReservationSystem, for every set of nodes, clients, keys and  *)
(* requests and every bound of the clock.                                    *)
(***************************************************************************)
EXTENDS ReservationSystem, TLAPS

(* What SMT has to know of numbers and of the clock.                          *)
LEMMA TimeFacts ==
    /\ MaxTime \in Nat
    /\ Never \in Nat
    /\ Time \subseteq Nat
    /\ Never \notin Time
    /\ 0 \in Time
BY ReservationAssumption DEF Time, Never

(* The first and the other keys of a list of keys are keys.                   *)
LEMMA ListFacts ==
    ASSUME NEW S, NEW keys \in Seq(S), keys # <<>>
    PROVE  Head(keys) \in S /\ Tail(keys) \in Seq(S)
OBVIOUS

(* A list of keys of reservations is one of keys.                             *)
LEMMA ListWidens ==
    ASSUME NEW S, NEW T, S \subseteq T, NEW keys \in Seq(S)
    PROVE  keys \in Seq(T)
<1>1. keys \in [1 .. Len(keys) -> S] /\ Len(keys) \in Nat
  OBVIOUS
<1>2. keys \in [1 .. Len(keys) -> T]
  BY <1>1
<1> QED
  BY <1>1, <1>2

(* A function from 1 .. n is a list.                                          *)
LEMMA KeyListFacts ==
    ASSUME NEW keys \in KeyLists
    PROVE  keys \in Seq(Keys) /\ keys # <<>>
<1>1. PICK n \in 1 .. MaxKeys : keys \in [1 .. n -> Keys]
  BY DEF KeyLists
<1>2. n \in Nat /\ n >= 1
  BY ReservationAssumption
<1>3. keys \in Seq(Keys) /\ Len(keys) = n
  BY <1>1, <1>2
<1> QED
  BY <1>2, <1>3

(* The next call of one thread leaves those of the others alone.              *)
LEMMA BecomesTyped ==
    ASSUME TypeOK, NEW c \in Client, NEW next \in Calls, Becomes(c, next),
           next.seen \subseteq Keys, next.keys \in Seq(Keys),
           next.op \in {"check", "cancel"} => next.keys # <<>>
    PROVE  /\ call' \in [Client -> Calls]
           /\ \A d \in Client : /\ call'[d].seen \subseteq Keys
                                /\ call'[d].keys \in Seq(Keys)
                                /\ call'[d].op \in {"check", "cancel"} => call'[d].keys # <<>>
BY DEF TypeOK, Becomes

(* A thread between two calls holds nothing.                                  *)
LEMMA IdleTyped ==
    Idle \in Calls /\ Idle.op = "idle" /\ Idle.seen = {} /\ Idle.keys = <<>> /\ \A S : <<>> \in Seq(S)
BY TimeFacts DEF Idle, NoSpan, Calls, Span

(* The type invariant is inductive.                                           *)
LEMMA TypeInit == Init => TypeOK
<1> SUFFICES ASSUME Init PROVE TypeOK
  OBVIOUS
<1>1. Keys = {}
  BY DEF Init, Keys
<1> QED
  BY <1>1, TimeFacts, IdleTyped DEF Init, TypeOK

(* A step that leaves the reservations and the clock alone and takes one call *)
(* to a typed one keeps the type invariant.                                   *)
LEMMA CallTyped ==
    ASSUME TypeOK, NEW c \in Client, NEW next \in Calls, Becomes(c, next),
           next.seen \subseteq Keys, next.keys \in Seq(Keys),
           next.op \in {"check", "cancel"} => next.keys # <<>>,
           UNCHANGED <<now, rows>>
    PROVE  TypeOK'
BY BecomesTyped DEF TypeOK, Keys, Live

(* What a cancellation does to the rows.                                      *)
LEMMA CancelledRow ==
    ASSUME TypeOK, NEW key \in Keys, SetCancelled(key)
    PROVE  /\ rows' \in [Keys -> Row]
           /\ Keys' = Keys
           /\ \A r \in Keys : r # key => rows'[r] = rows[r]
           /\ rows'[key].cancelled = now
           /\ rows'[key].first = IF Live(key) THEN now ELSE rows[key].first
           /\ rows'[key].nodes = rows[key].nodes
           /\ rows'[key].from = rows[key].from
           /\ rows'[key].to = rows[key].to
           /\ rows'[key].seen = rows[key].seen
           /\ rows'[key].made = rows[key].made
<1> DEFINE date == IF Live(key) THEN now ELSE rows[key].first
           old == rows[key]
           new == [old EXCEPT !.cancelled = now, !.first = date]
<1>1. old \in Row /\ now \in Time
  BY DEF TypeOK
<1>2. date \in Time \cup {Never}
  BY <1>1 DEF Row
<1>3. rows' = [rows EXCEPT ![key] = new]
  BY Zenon DEF SetCancelled
<1>5. new \in Row /\ new.first = date /\ new.cancelled = now /\ new.nodes = old.nodes
      /\ new.from = old.from /\ new.to = old.to /\ new.seen = old.seen /\ new.made = old.made
  <2> DEFINE half == [old EXCEPT !.cancelled = now]
             whole == [half EXCEPT !.first = date]
  <2>1. new = whole
    OBVIOUS
  <2> HIDE DEF old, date
  <2>2. half \in Row /\ half.cancelled = now /\ half.nodes = old.nodes /\ half.from = old.from
        /\ half.to = old.to /\ half.seen = old.seen /\ half.made = old.made
    <3>1. half \in Row
      BY <1>1, ZenonT(40) DEF Row
    <3> QED
      BY <1>1, <3>1 DEF Row
  <2> HIDE DEF half
  <2>3. whole \in Row /\ whole.first = date /\ whole.cancelled = half.cancelled
        /\ whole.nodes = half.nodes /\ whole.from = half.from /\ whole.to = half.to
        /\ whole.seen = half.seen /\ whole.made = half.made
    <3>1. whole \in Row
      BY <1>2, <2>2, ZenonT(40) DEF Row
    <3> QED
      BY <2>2, <3>1 DEF Row
  <2> HIDE DEF whole, new
  <2> QED
    BY <2>1, <2>2, <2>3
<1>6. rows \in [Keys -> Row]
  BY DEF TypeOK
<1> HIDE DEF new
<1>7. rows' \in [Keys -> Row] /\ rows'[key] = new /\ \A r \in Keys : r # key => rows'[r] = rows[r]
  BY <1>3, <1>5, <1>6
<1>8. Keys' = Keys
  BY <1>3, <1>6 DEF Keys
<1> QED
  BY <1>5, <1>7, <1>8

(* Every step keeps rows and calls well formed.                               *)
LEMMA TypeStep == TypeOK /\ [Next]_vars => TypeOK'
<1> SUFFICES ASSUME TypeOK, [Next]_vars PROVE TypeOK'
  OBVIOUS
<1>1. CASE Tick
  BY <1>1, TimeFacts DEF Tick, TypeOK, Keys, Live, Time, Row
<1>2. ASSUME NEW c \in Client, NEW q \in Request, MakeArguments(c, q) PROVE TypeOK'
  <2> DEFINE next == [Idle EXCEPT !.op = "available", !.ask = q]
  <2>1. q \in Span
    BY ReservationAssumption
  <2>2. next \in Calls /\ next.seen = {} /\ next.keys = <<>> /\ next.op = "available"
    BY <2>1, IdleTyped DEF Calls, Idle
  <2>3. <<>> \in Seq(Keys)
    BY IdleTyped
  <2> QED
    BY <1>2, <2>2, <2>3, CallTyped DEF MakeArguments
<1>3. ASSUME NEW c \in Client, MakeAvailable(c) PROVE TypeOK'
  <2> DEFINE next == [call[c] EXCEPT !.op = "add", !.seen = Keys]
  <2>1. next \in Calls /\ next.seen = Keys /\ next.keys = call[c].keys /\ next.op = "add"
    BY DEF TypeOK, Calls
  <2>2. next.keys \in Seq(Keys)
    BY <2>1 DEF TypeOK
  <2>3. CASE Becomes(c, Idle)
    BY <1>3, <2>3, IdleTyped, CallTyped DEF MakeAvailable
  <2>4. CASE Becomes(c, next)
    <3> HIDE DEF next
    <3> QED
      BY <1>3, <2>1, <2>2, <2>4, CallTyped DEF MakeAvailable
  <2> QED
    BY <1>3, <2>3, <2>4 DEF MakeAvailable
<1>4. ASSUME NEW c \in Client, MakeAdd(c) PROVE TypeOK'
  <2>1. PICK key \in Reservation \ Keys :
            rows' = [r \in Keys \cup {key} |-> IF r = key THEN NewRow(c) ELSE rows[r]]
    BY <1>4 DEF MakeAdd
  <2>2. Keys' = Keys \cup {key}
    BY <2>1 DEF Keys
  <2>3. NewRow(c) \in Row /\ NewRow(c).seen \subseteq Keys /\ NewRow(c).cancelled = Never
    <3>1. call[c].ask \in Span /\ call[c].seen \subseteq Reservation /\ now \in Time
      BY DEF TypeOK, Calls
    <3>2. Never \in Time \cup {Never}
      OBVIOUS
    <3> QED
      BY <3>1, <3>2, ZenonT(40) DEF Span, NewRow, Row, TypeOK, Calls
  <2>4. Becomes(c, Idle) /\ now' = now
    BY <1>4 DEF MakeAdd
  <2>5. /\ call' \in [Client -> Calls]
        /\ \A d \in Client : /\ call'[d].seen \subseteq Keys
                             /\ call'[d].keys \in Seq(Keys)
                             /\ call'[d].op \in {"check", "cancel"} => call'[d].keys # <<>>
    BY <2>4, IdleTyped, BecomesTyped
  <2>6. \A d \in Client : call'[d].keys \in Seq(Keys')
    BY <2>2, <2>5, ListWidens
  <2>7. rows' \in [Keys' -> Row]
    BY <2>1, <2>2, <2>3 DEF TypeOK
  <2>8. \A r \in Keys' : rows'[r].seen \subseteq Keys' /\ (Live(r)' \/ rows'[r].cancelled <= now')
    BY <2>1, <2>2, <2>3, <2>4 DEF TypeOK, Live
  <2> QED
    BY <2>2, <2>4, <2>5, <2>6, <2>7, <2>8 DEF TypeOK
<1>5. ASSUME NEW c \in Client, NEW keys \in KeyLists, CancelBegins(c, keys) PROVE TypeOK'
  <2> DEFINE next == [Idle EXCEPT !.op = "check", !.keys = keys]
  <2>1. keys \in Seq(Keys) /\ keys # <<>>
    BY KeyListFacts
  <2>2. keys \in Seq(Reservation)
    BY <2>1, ListWidens DEF TypeOK
  <2>3. next \in Calls /\ next.seen = {} /\ next.keys = keys
    BY <2>2, IdleTyped DEF Calls, Idle
  <2> HIDE DEF next
  <2> QED
    BY <1>5, <2>1, <2>3, CallTyped DEF CancelBegins, next
<1>6. ASSUME NEW c \in Client, CancelCheck(c) PROVE TypeOK'
  <2> DEFINE next == [call[c] EXCEPT !.op = "cancel"]
  <2>1. /\ next \in Calls /\ next.seen = call[c].seen /\ next.keys = call[c].keys
        /\ call[c].seen \subseteq Keys /\ call[c].keys \in Seq(Keys) /\ call[c].keys # <<>>
    BY <1>6 DEF TypeOK, Calls, CancelCheck
  <2>2. CASE Becomes(c, Idle)
    BY <1>6, <2>2, IdleTyped, CallTyped DEF CancelCheck
  <2>3. CASE Becomes(c, next)
    <3> HIDE DEF next
    <3> QED
      BY <1>6, <2>1, <2>3, CallTyped DEF CancelCheck
  <2> QED
    BY <1>6, <2>2, <2>3 DEF CancelCheck
<1>7. ASSUME NEW c \in Client, CancelWrite(c) PROVE TypeOK'
  <2> DEFINE key == Head(call[c].keys)
  <2> DEFINE rest == Tail(call[c].keys)
  <2> DEFINE next == [call[c] EXCEPT !.op = "check", !.keys = rest]
  <2>1. /\ call[c] \in Calls /\ call[c].seen \subseteq Keys
        /\ call[c].keys \in Seq(Keys) /\ call[c].keys # <<>>
    BY <1>7 DEF TypeOK, CancelWrite
  <2>2. key \in Keys /\ rest \in Seq(Keys)
    BY <2>1, ListFacts
  <2>3. rest \in Seq(Reservation)
    BY <2>2, ListWidens DEF TypeOK
  <2>4. next \in Calls /\ next.seen = call[c].seen /\ next.keys = rest /\ next.op = "check"
    BY <2>1, <2>3 DEF Calls
  <2>5. CASE Becomes(c, Idle) /\ UNCHANGED rows
    BY <1>7, <2>5, IdleTyped, CallTyped DEF CancelWrite
  <2>6. CASE SetCancelled(key)
    <3>1. Becomes(c, Idle) \/ (rest # <<>> /\ Becomes(c, next))
      BY <1>7, <2>6 DEF CancelWrite
    <3> HIDE DEF next, key, rest
    <3>2. /\ call' \in [Client -> Calls]
          /\ \A d \in Client : /\ call'[d].seen \subseteq Keys
                               /\ call'[d].keys \in Seq(Keys)
                               /\ call'[d].op \in {"check", "cancel"} => call'[d].keys # <<>>
      BY <2>1, <2>2, <2>4, <3>1, IdleTyped, BecomesTyped
    <3>3. now' = now /\ Keys' = Keys
      BY <1>7, <2>6 DEF CancelWrite, SetCancelled, Keys
    <3>4. rows' \in [Keys -> Row]
      BY <2>2, <2>6, CancelledRow DEF TypeOK
    <3>5. \A r \in Keys : rows'[r].seen = rows[r].seen /\ (Live(r)' \/ rows'[r].cancelled <= now)
      <4>1. rows'[key].seen = rows[key].seen /\ rows'[key].cancelled = now /\ now <= now
        BY <2>2, <2>6, CancelledRow, TimeFacts DEF TypeOK
      <4>2. \A r \in Keys : r # key => rows'[r] = rows[r]
        BY <2>2, <2>6, CancelledRow
      <4> QED
        BY <4>1, <4>2 DEF TypeOK, Live
    <3> QED
      BY <3>2, <3>3, <3>4, <3>5 DEF TypeOK
  <2> QED
    BY <1>7, <2>5, <2>6 DEF CancelWrite
<1>8. ASSUME NEW r \in Keys, FinalizeReservation(r) PROVE TypeOK'
  <2>1. Keys' = Keys /\ now' = now /\ call' = call
    BY <1>8 DEF FinalizeReservation, Keys
  <2>2. rows' \in [Keys -> Row]
    <3>1. [rows[r] EXCEPT !.finalized = TRUE] \in Row
      BY ZenonT(40) DEF TypeOK, Row
    <3> QED
      BY <1>8, <3>1 DEF FinalizeReservation, TypeOK
  <2>3. \A s \in Keys : rows'[s].seen = rows[s].seen /\ rows'[s].cancelled = rows[s].cancelled
    BY <1>8 DEF FinalizeReservation, TypeOK, Row
  <2> QED
    BY <2>1, <2>2, <2>3 DEF TypeOK, Live
<1>9. CASE UNCHANGED vars
  BY <1>9 DEF vars, TypeOK, Keys, Live
<1> QED
  BY <1>1, <1>2, <1>3, <1>4, <1>5, <1>6, <1>7, <1>8, <1>9 DEF Next

(* Rows and calls are well formed whatever the clients do: TypeOK.             *)
THEOREM ReservationsAreTyped == Spec => []TypeOK
BY TypeInit, TypeStep, PTL DEF Spec

-----------------------------------------------------------------------------
(* Whatever a makeReservation saw when it found its nodes free is still no     *)
(* live reservation in conflict with it: rows keep their span, and a           *)
(* cancelled reservation does not come back.                                   *)
SeenFree ==
    \A c \in Client : call[c].op = "add" =>
        \A r \in call[c].seen : Live(r) => ~Conflict(rows[r], call[c].ask)

(* What every step but addReservation leaves of the rows.                      *)
RowsKept ==
    /\ Keys' = Keys
    /\ \A r \in Keys : /\ rows'[r].nodes = rows[r].nodes
                       /\ rows'[r].from = rows[r].from
                       /\ rows'[r].to = rows[r].to
                       /\ rows'[r].seen = rows[r].seen
                       /\ Live(r)' => Live(r)

(* A step that keeps the rows makes no conflict that was not there.            *)
LEMMA KeptConflicts ==
    ASSUME RowsKept, DoubleBookingNeedsARace
    PROVE  DoubleBookingNeedsARace'
<1> SUFFICES ASSUME NEW r \in Keys, NEW s \in Keys, r # s, Live(r)', Live(s)',
                    Conflict(rows'[r], rows'[s])
             PROVE  Raced(r, s)'
  BY DEF DoubleBookingNeedsARace, RowsKept
<1>1. Live(r) /\ Live(s) /\ Conflict(rows[r], rows[s])
  BY DEF RowsKept, Conflict, Overlap
<1> QED
  BY <1>1 DEF DoubleBookingNeedsARace, Raced, RowsKept

(* A step that keeps the rows, and starts no "add", keeps SeenFree.            *)
LEMMA KeptSeenFree ==
    ASSUME TypeOK, RowsKept, SeenFree,
           \A c \in Client : call'[c].op = "add" => call'[c] = call[c]
    PROVE  SeenFree'
<1> SUFFICES ASSUME NEW c \in Client, call'[c].op = "add", NEW r \in call'[c].seen, Live(r)'
             PROVE  ~Conflict(rows'[r], call'[c].ask)
  BY DEF SeenFree
<1>1. call'[c] = call[c] /\ r \in Keys
  BY DEF TypeOK
<1> QED
  BY <1>1 DEF SeenFree, RowsKept, Conflict, Overlap

(* A step that does not touch the rows keeps them.                            *)
LEMMA UnchangedRows == UNCHANGED rows => RowsKept
BY DEF RowsKept, Keys, Live

(* A cancellation changes no span and revives no reservation.                 *)
LEMMA CancelKeepsRows ==
    ASSUME TypeOK, NEW c \in Client, CancelWrite(c)
    PROVE  RowsKept
<1> DEFINE key == Head(call[c].keys)
<1>1. CASE UNCHANGED rows
  BY <1>1, UnchangedRows
<1>2. CASE SetCancelled(key)
  <2>1. key \in Keys
    BY ListFacts DEF TypeOK, CancelWrite
  <2>2. PICK k \in Keys : SetCancelled(k)
    BY <1>2, <2>1
  <2>3. /\ Keys' = Keys
        /\ \A r \in Keys : r # k => rows'[r] = rows[r]
        /\ rows'[k].cancelled = now
        /\ rows'[k].nodes = rows[k].nodes
        /\ rows'[k].from = rows[k].from
        /\ rows'[k].to = rows[k].to
        /\ rows'[k].seen = rows[k].seen
    BY <2>2, CancelledRow
  <2>4. now # Never
    BY TimeFacts DEF TypeOK
  <2>5. ~Live(k)'
    BY <2>3, <2>4 DEF Live
  <2> QED
    BY <2>3, <2>5 DEF RowsKept, Live
<1> QED
  BY <1>1, <1>2 DEF CancelWrite

(* A finalization changes no span and no cancellation.                        *)
LEMMA FinalizeKeepsRows ==
    ASSUME TypeOK, NEW r \in Keys, FinalizeReservation(r)
    PROVE  RowsKept
BY DEF FinalizeReservation, RowsKept, Keys, TypeOK, Row, Live

(* At the start there is no reservation and no call.                          *)
LEMMA RaceInit == Init => SeenFree /\ DoubleBookingNeedsARace
BY DEF Init, SeenFree, DoubleBookingNeedsARace, Idle, Keys

(* addReservation is the step that matters: its row conflicts only with rows  *)
(* that were not seen.                                                        *)
LEMMA RaceStep ==
    TypeOK /\ SeenFree /\ DoubleBookingNeedsARace /\ [Next]_vars
        => SeenFree' /\ DoubleBookingNeedsARace'
<1> SUFFICES ASSUME TypeOK, SeenFree, DoubleBookingNeedsARace, [Next]_vars
             PROVE  SeenFree' /\ DoubleBookingNeedsARace'
  OBVIOUS
<1>1. CASE Tick
  BY <1>1, UnchangedRows, KeptConflicts, KeptSeenFree DEF Tick
<1>2. ASSUME NEW c \in Client, NEW q \in Request, MakeArguments(c, q)
      PROVE  SeenFree' /\ DoubleBookingNeedsARace'
  <2>1. \A d \in Client : call'[d].op = "add" => call'[d] = call[d]
    BY <1>2 DEF MakeArguments, Becomes, TypeOK, Idle
  <2> QED
    BY <1>2, <2>1, UnchangedRows, KeptConflicts, KeptSeenFree DEF MakeArguments
<1>3. ASSUME NEW c \in Client, MakeAvailable(c) PROVE SeenFree' /\ DoubleBookingNeedsARace'
  <2>1. DoubleBookingNeedsARace'
    BY <1>3, UnchangedRows, KeptConflicts DEF MakeAvailable
  <2>2. SUFFICES ASSUME NEW d \in Client, call'[d].op = "add",
                        NEW r \in call'[d].seen, Live(r)'
                 PROVE  ~Conflict(rows'[r], call'[d].ask)
    BY <2>1 DEF SeenFree
  <2>3. rows' = rows /\ Live(r)
    BY <1>3, <2>2 DEF MakeAvailable, Live
  <2>4. CASE d # c
    <3>1. call'[d] = call[d]
      BY <1>3, <2>4 DEF MakeAvailable, Becomes, TypeOK
    <3> QED
      BY <2>2, <2>3, <3>1 DEF SeenFree
  <2>5. CASE d = c
    <3>1. ~Taken(call[c].ask) /\ call'[c] = [call[c] EXCEPT !.op = "add", !.seen = Keys]
      BY <1>3, <2>2, <2>5 DEF MakeAvailable, Becomes, TypeOK, Idle
    <3>2. call'[c].ask = call[c].ask /\ call'[c].seen = Keys
      BY <3>1 DEF TypeOK, Calls
    <3> QED
      BY <2>2, <2>3, <2>5, <3>1, <3>2 DEF Taken
  <2> QED
    BY <2>4, <2>5
<1>4. ASSUME NEW c \in Client, MakeAdd(c) PROVE SeenFree' /\ DoubleBookingNeedsARace'
  <2>1. PICK key \in Reservation \ Keys :
            rows' = [r \in Keys \cup {key} |-> IF r = key THEN NewRow(c) ELSE rows[r]]
    BY <1>4 DEF MakeAdd
  <2>2. /\ Keys' = Keys \cup {key}
        /\ rows'[key] = NewRow(c)
        /\ \A r \in Keys : rows'[r] = rows[r] /\ (Live(r)' <=> Live(r))
    BY <2>1 DEF Keys, Live
  <2>3. call[c].op = "add" /\ Becomes(c, Idle)
    BY <1>4 DEF MakeAdd
  <2>4. SeenFree'
    <3> SUFFICES ASSUME NEW d \in Client, call'[d].op = "add", NEW r \in call'[d].seen, Live(r)'
                 PROVE  ~Conflict(rows'[r], call'[d].ask)
      BY DEF SeenFree
    <3>1. call'[d] = call[d]
      BY <2>3 DEF Becomes, TypeOK, Idle
    <3>2. r \in Keys
      BY <3>1 DEF TypeOK
    <3> QED
      BY <2>2, <3>1, <3>2 DEF SeenFree
  <2>5. DoubleBookingNeedsARace'
    <3>1. ASSUME NEW r \in Keys, Live(r), Conflict(rows[r], NewRow(c)) \/ Conflict(NewRow(c), rows[r])
          PROVE  r \notin NewRow(c).seen /\ key \notin rows[r].seen
      <4>1. Conflict(rows[r], call[c].ask)
        BY <3>1 DEF Conflict, Overlap, NewRow
      <4>2. r \notin call[c].seen
        BY <2>3, <3>1, <4>1 DEF SeenFree
      <4> QED
        BY <2>1, <4>2 DEF NewRow, TypeOK
    <3> SUFFICES ASSUME NEW r \in Keys', NEW s \in Keys', r # s, Live(r)', Live(s)',
                        Conflict(rows'[r], rows'[s])
                 PROVE  Raced(r, s)'
      BY DEF DoubleBookingNeedsARace
    <3>2. CASE r \in Keys /\ s \in Keys
      BY <2>2, <3>2 DEF DoubleBookingNeedsARace, Raced
    <3>3. CASE r = key
      BY <2>2, <3>1, <3>3 DEF Raced
    <3>4. CASE s = key
      BY <2>2, <3>1, <3>4 DEF Raced
    <3> QED
      BY <2>2, <3>2, <3>3, <3>4
  <2> QED
    BY <2>4, <2>5
<1>5. ASSUME NEW c \in Client, NEW keys \in KeyLists, CancelBegins(c, keys)
      PROVE  SeenFree' /\ DoubleBookingNeedsARace'
  <2>1. \A d \in Client : call'[d].op = "add" => call'[d] = call[d]
    BY <1>5 DEF CancelBegins, Becomes, TypeOK, Idle
  <2> QED
    BY <1>5, <2>1, UnchangedRows, KeptConflicts, KeptSeenFree DEF CancelBegins
<1>6. ASSUME NEW c \in Client, CancelCheck(c) PROVE SeenFree' /\ DoubleBookingNeedsARace'
  <2>1. \A d \in Client : call'[d].op = "add" => call'[d] = call[d]
    BY <1>6 DEF CancelCheck, Becomes, TypeOK, Idle, Calls
  <2> QED
    BY <1>6, <2>1, UnchangedRows, KeptConflicts, KeptSeenFree DEF CancelCheck
<1>7. ASSUME NEW c \in Client, CancelWrite(c) PROVE SeenFree' /\ DoubleBookingNeedsARace'
  <2>1. \A d \in Client : call'[d].op = "add" => call'[d] = call[d]
    <3>1. Idle.op # "add" /\ \A rest : [call[c] EXCEPT !.op = "check", !.keys = rest].op # "add"
      BY DEF TypeOK, Calls, Idle
    <3>2. PICK next : Becomes(c, next) /\ next.op # "add"
      BY <1>7, <3>1 DEF CancelWrite
    <3> QED
      BY <3>2 DEF Becomes, TypeOK
  <2> QED
    BY <1>7, <2>1, CancelKeepsRows, KeptConflicts, KeptSeenFree
<1>8. ASSUME NEW r \in Keys, FinalizeReservation(r) PROVE SeenFree' /\ DoubleBookingNeedsARace'
  BY <1>8, FinalizeKeepsRows, KeptConflicts, KeptSeenFree DEF FinalizeReservation
<1>9. CASE UNCHANGED vars
  BY <1>9, UnchangedRows, KeptConflicts, KeptSeenFree DEF vars
<1> QED
  BY <1>1, <1>2, <1>3, <1>4, <1>5, <1>6, <1>7, <1>8, <1>9 DEF Next

(* However many clients book, cancel and cancel again, two live reservations   *)
(* share a node at one time only if their makeReservation calls overlapped:    *)
(* DoubleBookingNeedsARace.                                                    *)
THEOREM OnlyRacesDoubleBook == Spec => []DoubleBookingNeedsARace
<1>1. Init => TypeOK /\ SeenFree /\ DoubleBookingNeedsARace
  BY TypeInit, RaceInit
<1>2. TypeOK /\ SeenFree /\ DoubleBookingNeedsARace /\ [Next]_vars
          => (TypeOK /\ SeenFree /\ DoubleBookingNeedsARace)'
  BY TypeStep, RaceStep
<1> QED
  BY <1>1, <1>2, PTL DEF Spec

-----------------------------------------------------------------------------
(* The dates of a row: it was not made later than now; if it is cancelled, it  *)
(* was cancelled first and last in this order, and last before its end and now. *)
DatesOf(r) ==
    /\ rows[r].made <= now
    /\ Live(r) <=> rows[r].first = Never
    /\ ~Live(r) => /\ rows[r].first <= rows[r].cancelled
                   /\ rows[r].cancelled <= now
                   /\ rows[r].cancelled <= rows[r].to

Dates == \A r \in Keys : DatesOf(r)

(* What a reservation saw and is in conflict with was cancelled when it was    *)
(* made.                                                                      *)
SeenGone ==
    \A r, s \in Keys :
        r \in rows[s].seen /\ Conflict(rows[r], rows[s]) => rows[r].first <= rows[s].made

(* The numbers in a row.                                                      *)
LEMMA RowNumbers ==
    ASSUME TypeOK, NEW r \in Keys
    PROVE  /\ rows[r].from \in Nat /\ rows[r].to \in Nat /\ rows[r].cancelled \in Nat
           /\ rows[r].made \in Nat /\ rows[r].first \in Nat
           /\ rows[r].cancelled = Never \/ rows[r].cancelled \in Time
           /\ rows[r].first = Never \/ rows[r].first \in Time
           /\ now \in Nat /\ now \in Time /\ now < Never
<1>1. rows[r] \in Row /\ now \in Time
  BY DEF TypeOK
<1>2. now < Never
  BY <1>1, ReservationAssumption DEF Time, Never
<1> QED
  BY <1>1, <1>2, TimeFacts DEF Row

(* A step that changes no dates keeps them, also when the clock goes on.       *)
LEMMA DatesKept ==
    ASSUME TypeOK, Dates, SeenGone, now' \in Nat, now' >= now, Keys' = Keys,
           \A r \in Keys : /\ rows'[r].made = rows[r].made
                           /\ rows'[r].first = rows[r].first
                           /\ rows'[r].cancelled = rows[r].cancelled
                           /\ rows'[r].to = rows[r].to
                           /\ rows'[r].from = rows[r].from
                           /\ rows'[r].nodes = rows[r].nodes
                           /\ rows'[r].seen = rows[r].seen
    PROVE  Dates' /\ SeenGone'
<1>1. ASSUME NEW r \in Keys PROVE DatesOf(r)'
  <2>1. DatesOf(r)
    BY DEF Dates
  <2>2. /\ rows[r].made \in Nat /\ rows[r].cancelled \in Nat /\ now \in Nat
    BY RowNumbers
  <2> QED
    BY <2>1, <2>2 DEF DatesOf, Live
<1>2. SeenGone'
  BY DEF SeenGone, Conflict, Overlap
<1> QED
  BY <1>1, <1>2 DEF Dates

LEMMA DatesInit == Init => Dates /\ SeenGone
BY DEF Init, Dates, SeenGone, Keys

LEMMA DatesStep ==
    TypeOK /\ SeenFree /\ Dates /\ SeenGone /\ [Next]_vars => Dates' /\ SeenGone'
<1> SUFFICES ASSUME TypeOK, SeenFree, Dates, SeenGone, [Next]_vars PROVE Dates' /\ SeenGone'
  OBVIOUS
<1>0. now \in Nat /\ now <= now
  BY TimeFacts DEF TypeOK
<1>1. ASSUME UNCHANGED rows, now' = now \/ now' = now + 1 PROVE Dates' /\ SeenGone'
  <2>1. now' \in Nat /\ now' >= now /\ Keys' = Keys
    BY <1>0, <1>1 DEF Keys
  <2> QED
    BY <1>1, <2>1, DatesKept
<1>2. ASSUME NEW c \in Client, MakeAdd(c) PROVE Dates' /\ SeenGone'
  <2>1. PICK key \in Reservation \ Keys :
            rows' = [r \in Keys \cup {key} |-> IF r = key THEN NewRow(c) ELSE rows[r]]
    BY <1>2 DEF MakeAdd
  <2>2. /\ Keys' = Keys \cup {key} /\ now' = now
        /\ rows'[key] = NewRow(c)
        /\ \A r \in Keys : r # key /\ rows'[r] = rows[r]
    BY <1>2, <2>1 DEF Keys, MakeAdd
  <2>3. /\ NewRow(c).made = now /\ NewRow(c).first = Never /\ NewRow(c).cancelled = Never
        /\ NewRow(c).seen = call[c].seen
        /\ \A row : Conflict(row, NewRow(c)) <=> Conflict(row, call[c].ask)
    BY DEF NewRow, Conflict, Overlap
  <2>4. Dates'
    <3>1. DatesOf(key)'
      BY <1>0, <2>2, <2>3 DEF DatesOf, Live
    <3>2. \A r \in Keys : DatesOf(r)'
      BY <2>2 DEF Dates, DatesOf, Live
    <3> QED
      BY <2>2, <3>1, <3>2 DEF Dates
  <2>5. SeenGone'
    <3> SUFFICES ASSUME NEW r \in Keys', NEW s \in Keys', r \in rows'[s].seen,
                        Conflict(rows'[r], rows'[s])
                 PROVE  rows'[r].first <= rows'[s].made
      BY DEF SeenGone
    <3>1. CASE s \in Keys
      <4>1. r \in Keys
        BY <2>2, <3>1 DEF TypeOK
      <4> QED
        BY <2>2, <3>1, <4>1 DEF SeenGone
    <3>2. CASE s = key
      <4>1. r \in call[c].seen /\ r \in Keys
        BY <2>2, <2>3, <3>2 DEF TypeOK
      <4>2. Conflict(rows[r], call[c].ask) /\ call[c].op = "add"
        BY <1>2, <2>2, <2>3, <3>2, <4>1 DEF MakeAdd
      <4>3. ~Live(r)
        BY <4>1, <4>2 DEF SeenFree
      <4>4. rows[r].first <= now
        BY <4>1, <4>3, RowNumbers DEF Dates, DatesOf
      <4> QED
        BY <2>2, <2>3, <3>2, <4>1, <4>4
    <3> QED
      BY <2>2, <3>1, <3>2
  <2> QED
    BY <2>4, <2>5
<1>3. ASSUME NEW c \in Client, CancelWrite(c) PROVE Dates' /\ SeenGone'
  <2>1. CASE UNCHANGED rows
    BY <1>1, <1>3, <2>1 DEF CancelWrite
  <2>2. CASE ~UNCHANGED rows
    <3>1. PICK key \in Keys : ~InPast(rows[key]) /\ SetCancelled(key)
      BY <1>3, <2>2, ListFacts DEF CancelWrite, TypeOK
    <3>2. now' = now
      BY <1>3 DEF CancelWrite
    <3>3. /\ Keys' = Keys
          /\ \A r \in Keys : r # key => rows'[r] = rows[r]
          /\ rows'[key].cancelled = now
          /\ rows'[key].first = IF Live(key) THEN now ELSE rows[key].first
          /\ rows'[key].nodes = rows[key].nodes
          /\ rows'[key].from = rows[key].from
          /\ rows'[key].to = rows[key].to
          /\ rows'[key].seen = rows[key].seen
          /\ rows'[key].made = rows[key].made
      BY <3>1, CancelledRow
    <3>4. /\ rows[key].to \in Nat /\ rows[key].made \in Nat /\ rows[key].first \in Nat
          /\ rows[key].cancelled \in Nat /\ now < Never
          /\ rows[key].first = Never \/ rows[key].first \in Time
      BY RowNumbers
    <3>5. rows[key].to >= now
      BY <1>0, <3>1, <3>4 DEF InPast
    <3>6. DatesOf(key)
      BY DEF Dates
    <3>7. DatesOf(key)'
      <4>1. rows'[key].cancelled # Never /\ ~Live(key)'
        BY <1>0, <3>3, <3>4 DEF Live
      <4>2. CASE Live(key)
        BY <1>0, <3>2, <3>3, <3>4, <3>5, <3>6, <4>1, <4>2, TimeFacts DEF DatesOf
      <4>3. CASE ~Live(key)
        BY <1>0, <3>2, <3>3, <3>4, <3>5, <3>6, <4>1, <4>3, TimeFacts DEF DatesOf
      <4> QED
        BY <4>2, <4>3
    <3>8. \A r \in Keys : r # key => DatesOf(r)'
      BY <3>2, <3>3 DEF Dates, DatesOf, Live
    <3>9. SeenGone'
      <4> SUFFICES ASSUME NEW r \in Keys, NEW s \in Keys, r \in rows'[s].seen,
                          Conflict(rows'[r], rows'[s])
                   PROVE  rows'[r].first <= rows'[s].made
        BY <3>3 DEF SeenGone
      <4>1. /\ r \in rows[s].seen /\ Conflict(rows[r], rows[s])
            /\ rows'[s].made = rows[s].made
        BY <3>3 DEF Conflict, Overlap
      <4>2. rows[r].first <= rows[s].made
        BY <4>1 DEF SeenGone
      <4>3. rows'[r].first = rows[r].first
        <5>1. DatesOf(r) /\ DatesOf(s)
          BY DEF Dates
        <5>2. rows[r].first \in Nat /\ rows[s].made \in Nat /\ rows[s].made <= now
          BY <5>1, RowNumbers DEF DatesOf
        <5>3. rows[r].first # Never
          BY <1>0, <3>4, <4>2, <5>2, TimeFacts
        <5>4. ~Live(r)
          BY <5>1, <5>3 DEF DatesOf
        <5> QED
          BY <3>3, <5>4
      <4> QED
        BY <4>1, <4>2, <4>3
    <3> QED
      BY <3>3, <3>7, <3>8, <3>9 DEF Dates
  <2> QED
    BY <2>1, <2>2
<1>4. ASSUME NEW r \in Keys, FinalizeReservation(r) PROVE Dates' /\ SeenGone'
  <2>1. Keys' = Keys /\ now' = now
    BY <1>4 DEF FinalizeReservation, Keys
  <2>2. \A s \in Keys : /\ rows'[s].made = rows[s].made
                        /\ rows'[s].first = rows[s].first
                        /\ rows'[s].cancelled = rows[s].cancelled
                        /\ rows'[s].to = rows[s].to
                        /\ rows'[s].from = rows[s].from
                        /\ rows'[s].nodes = rows[s].nodes
                        /\ rows'[s].seen = rows[s].seen
    BY <1>4 DEF FinalizeReservation, TypeOK, Row
  <2> QED
    BY <1>0, <2>1, <2>2, DatesKept
<1> QED
  BY <1>1, <1>2, <1>3, <1>4
     DEF Next, vars, Tick, MakeArguments, MakeAvailable, CancelBegins, CancelCheck

(* Of two owners of a moment, the one that saw the other reaches back over it,  *)
(* or the other does.                                                         *)
LEMMA SeenOwner ==
    ASSUME TypeOK, Dates, SeenGone, NEW n \in Node, NEW t \in Time,
           NEW r \in Owners(n, t), NEW s \in Owners(n, t), r \in rows[s].seen
    PROVE  Reaches(r, t) \/ Reaches(s, t)
<1>1. /\ r \in Keys /\ n \in rows[r].nodes /\ InForce(r, t)
      /\ s \in Keys /\ n \in rows[s].nodes /\ InForce(s, t)
  BY DEF Owners
<1>2. /\ rows[r].from \in Nat /\ rows[r].to \in Nat /\ rows[r].cancelled \in Nat
      /\ rows[r].first \in Nat
      /\ rows[s].from \in Nat /\ rows[s].to \in Nat /\ rows[s].cancelled \in Nat
      /\ rows[s].made \in Nat /\ t \in Nat /\ now \in Nat /\ now < Never /\ Never \in Nat
  BY <1>1, RowNumbers, TimeFacts
<1>3. DatesOf(r) /\ DatesOf(s)
  BY <1>1 DEF Dates
<1>4. rows[r].from < t /\ t < rows[r].to /\ rows[s].from < t /\ t < rows[s].to
  BY <1>1, <1>2, <1>3 DEF InForce, DatesOf, Live
<1>5. Conflict(rows[r], rows[s])
  BY <1>1, <1>2, <1>4 DEF Conflict, Overlap
<1>6. rows[r].first <= rows[s].made
  BY <1>1, <1>5 DEF SeenGone
<1>7. CASE t < rows[s].made
  BY <1>7 DEF Reaches
<1>8. CASE ~(t < rows[s].made)
  <2>1. rows[r].first <= t /\ rows[r].first # Never
    BY <1>2, <1>3, <1>6, <1>8 DEF DatesOf
  <2>2. t < rows[r].cancelled
    BY <1>1, <1>3, <2>1 DEF DatesOf, InForce, Live
  <2> QED
    BY <2>1, <2>2 DEF Reaches
<1> QED
  BY <1>7, <1>8

(* What the theorems about the owners of a moment rest on.                     *)
LEMMA RowsInvariant == Spec => [](TypeOK /\ SeenFree /\ Dates /\ SeenGone)
<1>1. Init => TypeOK /\ SeenFree /\ DoubleBookingNeedsARace /\ Dates /\ SeenGone
  BY TypeInit, RaceInit, DatesInit
<1>2. TypeOK /\ SeenFree /\ DoubleBookingNeedsARace /\ Dates /\ SeenGone /\ [Next]_vars
          => (TypeOK /\ SeenFree /\ DoubleBookingNeedsARace /\ Dates /\ SeenGone)'
  BY TypeStep, RaceStep, DatesStep
<1> QED
  BY <1>1, <1>2, PTL DEF Spec

(* A node has two owners at one moment only if their bookings raced, or if one  *)
(* of them was added after that moment, or was cancelled by then and cancelled  *)
(* again later: SharedForAReason.                                              *)
THEOREM OwnersShareForAReason == Spec => []SharedForAReason
<1>1. TypeOK /\ Dates /\ SeenGone => SharedForAReason
  BY SeenOwner DEF SharedForAReason, Raced, Owners
<1> QED
  BY <1>1, RowsInvariant, PTL

-----------------------------------------------------------------------------
(* The past: owners are looked up by from, to and cancelled.  A reservation    *)
(* that is cancelled, or cancelled again, gets the date now: later than every  *)
(* moment of the past, and not later than its end.                             *)
RowsAge ==
    /\ Keys \subseteq Keys'
    /\ \A r \in Keys' \ Keys : rows'[r].made = now
    /\ \A r \in Keys :
          /\ rows'[r].nodes = rows[r].nodes
          /\ rows'[r].from = rows[r].from
          /\ rows'[r].to = rows[r].to
          /\ \/ rows'[r].cancelled = rows[r].cancelled
             \/ /\ rows'[r].cancelled = now /\ now <= rows[r].to
                /\ ~Live(r) => rows'[r].first = rows[r].first

(* Rows that age like this keep every owner of every past moment.             *)
LEMMA PastKept ==
    ASSUME TypeOK, RowsAge, NEW n \in Node, NEW t \in Time, t < now
    PROVE  Owners(n, t) \subseteq Owners(n, t)'
<1> SUFFICES ASSUME NEW r \in Keys, n \in rows[r].nodes, InForce(r, t)
             PROVE  r \in Keys' /\ n \in rows'[r].nodes /\ InForce(r, t)'
  BY DEF Owners
<1>1. r \in Keys' /\ n \in rows'[r].nodes /\ rows'[r].from < t
  BY DEF RowsAge, InForce
<1>2. CASE rows'[r].cancelled = rows[r].cancelled
  BY <1>1, <1>2 DEF RowsAge, InForce
<1>3. CASE rows'[r].cancelled = now
  BY <1>1, <1>3, TimeFacts DEF TypeOK, InForce
<1> QED
  BY <1>2, <1>3, <1>1 DEF RowsAge

(* An owner that a past moment gets by a step reaches back over it.            *)
LEMMA PastGiven ==
    ASSUME TypeOK, Dates, RowsAge, NEW n \in Node, NEW t \in Time, t < now,
           NEW r \in Owners(n, t)' \ Owners(n, t)
    PROVE  Reaches(r, t)'
<1>1. r \in Keys' /\ n \in rows'[r].nodes /\ InForce(r, t)' /\ t \in Nat /\ now \in Nat
  BY TimeFacts DEF Owners, TypeOK
<1>2. CASE r \notin Keys
  BY <1>1, <1>2 DEF RowsAge, Reaches
<1>3. CASE r \in Keys
  <2>1. /\ rows'[r].nodes = rows[r].nodes /\ rows'[r].from = rows[r].from
        /\ rows'[r].to = rows[r].to /\ rows[r].from < t
    BY <1>1, <1>3 DEF RowsAge, InForce
  <2>2. ~InForce(r, t)
    BY <1>1, <1>3, <2>1 DEF Owners
  <2>3. rows'[r].cancelled # rows[r].cancelled
    BY <1>1, <2>1, <2>2 DEF InForce
  <2>4. /\ rows'[r].cancelled = now /\ now <= rows[r].to
        /\ ~Live(r) => rows'[r].first = rows[r].first
    BY <1>3, <2>3 DEF RowsAge
  <2>5. /\ rows[r].to \in Nat /\ rows[r].cancelled \in Nat /\ rows[r].first \in Nat
        /\ DatesOf(r)
    BY <1>3, RowNumbers DEF Dates
  <2>6. ~Live(r)
    BY <1>1, <2>1, <2>2, <2>4, <2>5 DEF InForce, Live
  <2>7. rows[r].first <= t
    BY <1>1, <2>1, <2>2, <2>5, <2>6 DEF InForce, Live, DatesOf
  <2> QED
    BY <2>4, <2>6, <2>7 DEF Reaches
<1> QED
  BY <1>2, <1>3

(* Every step lets the rows age like this.                                    *)
LEMMA StepsAgeRows == TypeOK /\ [Next]_vars => RowsAge
<1> SUFFICES ASSUME TypeOK, [Next]_vars PROVE RowsAge
  OBVIOUS
<1>1. CASE UNCHANGED rows
  BY <1>1 DEF RowsAge, Keys
<1>2. ASSUME NEW c \in Client, MakeAdd(c) PROVE RowsAge
  BY <1>2 DEF MakeAdd, RowsAge, Keys, NewRow
<1>3. ASSUME NEW c \in Client, CancelWrite(c) PROVE RowsAge
  <2>1. CASE ~UNCHANGED rows
    <3>1. PICK key \in Keys : ~InPast(rows[key]) /\ SetCancelled(key)
      BY <1>3, <2>1, ListFacts DEF CancelWrite, TypeOK
    <3>2. now <= rows[key].to
      BY <3>1, RowNumbers DEF InPast
    <3> QED
      BY <3>1, <3>2, CancelledRow DEF RowsAge
  <2> QED
    BY <1>1, <2>1
<1>4. ASSUME NEW r \in Keys, FinalizeReservation(r) PROVE RowsAge
  BY <1>4 DEF FinalizeReservation, RowsAge, Keys, TypeOK, Row
<1> QED
  BY <1>1, <1>2, <1>3, <1>4
     DEF Next, vars, Tick, MakeArguments, MakeAvailable, CancelBegins, CancelCheck

(* No step takes the ownership of a moment of the past away, and what a step    *)
(* gives of it, it gives to a reservation that reaches back over the moment:   *)
(* PastOwnersKept.                                                             *)
THEOREM ThePastIsKept == Spec => PastOwnersKept
<1>1. TypeOK /\ Dates /\ [Next]_vars
          => [\A n \in Node, t \in Time : t < now =>
                /\ Owners(n, t) \subseteq Owners(n, t)'
                /\ \A r \in Owners(n, t)' \ Owners(n, t) : Reaches(r, t)']_vars
  BY StepsAgeRows, PastKept, PastGiven
<1> QED
  BY <1>1, RowsInvariant, PTL DEF Spec, PastOwnersKept
=============================================================================
