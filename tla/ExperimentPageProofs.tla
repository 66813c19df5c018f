-------------------------- MODULE ExperimentPageProofs --------------------------
(***************************************************************************)
(* Theorems of ExperimentPage, for every number of visits.                   *)
(***************************************************************************)
EXTENDS ExperimentPage, TLAPS

-----------------------------------------------------------------------------
(* Messages on their way                                                     *)

In(m, s) == \E i \in 1..Len(s) : s[i] = m

LEMMA InAppend ==
    ASSUME NEW S, NEW s \in Seq(S), NEW e \in S
    PROVE  Append(s, e) \in Seq(S) /\ \A m : In(m, Append(s, e)) <=> In(m, s) \/ m = e
<1>1. Append(s, e) \in Seq(S) /\ Len(Append(s, e)) = Len(s) + 1 /\ Len(s) \in Nat
  OBVIOUS
<1>2. \A i \in 1..Len(s) : Append(s, e)[i] = s[i]
  OBVIOUS
<1>3. Append(s, e)[Len(s) + 1] = e
  OBVIOUS
<1>4. ASSUME NEW m, In(m, Append(s, e)) PROVE In(m, s) \/ m = e
  <2>1. PICK i \in 1..(Len(s) + 1) : Append(s, e)[i] = m
    BY <1>1, <1>4 DEF In
  <2>2. CASE i \in 1..Len(s)
    BY <1>2, <2>1, <2>2 DEF In
  <2>3. CASE i = Len(s) + 1
    BY <1>3, <2>1, <2>3
  <2> QED
    BY <1>1, <2>1, <2>2, <2>3
<1>5. ASSUME NEW m, In(m, s) \/ m = e PROVE In(m, Append(s, e))
  <2>1. CASE In(m, s)
    <3>1. PICK i \in 1..Len(s) : s[i] = m
      BY <2>1 DEF In
    <3>2. i \in 1..(Len(s) + 1) /\ Append(s, e)[i] = m
      BY <1>1, <1>2, <3>1
    <3> QED
      BY <1>1, <3>2 DEF In
  <2>2. CASE m = e
    <3>1. Len(s) + 1 \in 1..Len(Append(s, e))
      BY <1>1
    <3> QED
      BY <1>3, <2>2, <3>1 DEF In
  <2> QED
    BY <1>5, <2>1, <2>2
<1> QED
  BY <1>1, <1>4, <1>5

LEMMA InTail ==
    ASSUME NEW S, NEW s \in Seq(S), s # <<>>
    PROVE  /\ Head(s) \in S /\ Tail(s) \in Seq(S)
           /\ \A m : In(m, s) <=> In(m, Tail(s)) \/ m = Head(s)
<1>1. /\ Head(s) \in S /\ Tail(s) \in Seq(S) /\ Len(s) \in Nat /\ Len(s) >= 1
      /\ Len(Tail(s)) = Len(s) - 1 /\ Head(s) = s[1]
  OBVIOUS
<1>2. \A i \in 1..Len(Tail(s)) : Tail(s)[i] = s[i + 1]
  OBVIOUS
<1>3. ASSUME NEW m, In(m, s) PROVE In(m, Tail(s)) \/ m = Head(s)
  <2>1. PICK i \in 1..Len(s) : s[i] = m
    BY <1>3 DEF In
  <2>2. CASE i = 1
    BY <1>1, <2>1, <2>2
  <2>3. CASE i # 1
    <3>1. i - 1 \in 1..Len(Tail(s)) /\ Tail(s)[i - 1] = s[(i - 1) + 1]
      BY <1>1, <1>2, <2>1, <2>3
    <3>2. (i - 1) + 1 = i
      BY <2>1
    <3> QED
      BY <2>1, <3>1, <3>2 DEF In
  <2> QED
    BY <2>2, <2>3
<1>4. ASSUME NEW m, In(m, Tail(s)) \/ m = Head(s) PROVE In(m, s)
  <2>1. CASE In(m, Tail(s))
    <3>1. PICK i \in 1..Len(Tail(s)) : Tail(s)[i] = m
      BY <2>1 DEF In
    <3>2. i + 1 \in 1..Len(s) /\ s[i + 1] = m
      BY <1>1, <1>2, <3>1
    <3> QED
      BY <3>2 DEF In
  <2>2. CASE m = Head(s)
    <3>1. 1 \in 1..Len(s)
      BY <1>1
    <3> QED
      BY <1>1, <2>2, <3>1 DEF In
  <2> QED
    BY <1>4, <2>1, <2>2
<1> QED
  BY <1>1, <1>3, <1>4

LEMMA InEmpty == \A m : ~In(m, <<>>)
BY DEF In

LEMMA InOne == \A m, e : In(m, <<e>>) <=> m = e
BY DEF In

LEMMA InConcat ==
    ASSUME NEW S, NEW s \in Seq(S), NEW t \in Seq(S)
    PROVE  s \o t \in Seq(S) /\ \A m : In(m, s \o t) <=> In(m, s) \/ In(m, t)
<1>1. /\ s \o t \in Seq(S) /\ Len(s \o t) = Len(s) + Len(t) /\ Len(s) \in Nat /\ Len(t) \in Nat
  OBVIOUS
<1>2. /\ \A i \in 1..Len(s) : (s \o t)[i] = s[i]
      /\ \A i \in 1..Len(t) : (s \o t)[Len(s) + i] = t[i]
  OBVIOUS
<1>3. ASSUME NEW m, In(m, s \o t) PROVE In(m, s) \/ In(m, t)
  <2>1. PICK i \in 1..(Len(s) + Len(t)) : (s \o t)[i] = m
    BY <1>1, <1>3 DEF In
  <2>2. CASE i <= Len(s)
    BY <1>1, <1>2, <2>1, <2>2 DEF In
  <2>3. CASE i > Len(s)
    <3>1. i - Len(s) \in 1..Len(t) /\ Len(s) + (i - Len(s)) = i
      BY <1>1, <2>1, <2>3
    <3> QED
      BY <1>2, <2>1, <3>1 DEF In
  <2> QED
    BY <1>1, <2>1, <2>2, <2>3
<1>4. ASSUME NEW m, In(m, s) PROVE In(m, s \o t)
  <2>1. PICK i \in 1..Len(s) : s[i] = m
    BY <1>4 DEF In
  <2>2. i \in 1..Len(s \o t) /\ (s \o t)[i] = m
    BY <1>1, <1>2, <2>1
  <2> QED
    BY <2>2 DEF In
<1>5. ASSUME NEW m, In(m, t) PROVE In(m, s \o t)
  <2>1. PICK i \in 1..Len(t) : t[i] = m
    BY <1>5 DEF In
  <2>2. Len(s) + i \in 1..Len(s \o t) /\ (s \o t)[Len(s) + i] = m
    BY <1>1, <1>2, <2>1
  <2> QED
    BY <2>2 DEF In
<1> QED
  BY <1>1, <1>3, <1>4, <1>5

(* What onOpen reads of the past.                                            *)
LEMMA PastFacts ==
    ASSUME phase \in Phase, cancelled \in {"no", "early", "late"},
           finalized \in BOOLEAN
    PROVE  /\ PastLifecycleEvents \in Seq(MessageType)
           /\ In("started", PastLifecycleEvents) <=> HasStarted
           /\ In("cancelled", PastLifecycleEvents) <=> cancelled # "no"
           /\ In("ended", PastLifecycleEvents) <=> cancelled = "no" /\ phase = "after"
           /\ In("finalized", PastLifecycleEvents) <=> finalized
<1> DEFINE a == IF HasStarted THEN <<"started">> ELSE <<>>
           b == CASE cancelled # "no" -> <<"cancelled">>
                  [] cancelled = "no" /\ phase = "after" -> <<"ended">>
                  [] OTHER -> <<>>
           d == IF finalized THEN <<"finalized">> ELSE <<>>
<1>1. PastLifecycleEvents = a \o b \o d
  BY DEF PastLifecycleEvents
<1>2. a \in {<<"started">>, <<>>} /\ (a = <<"started">> <=> HasStarted)
  <2>1. CASE HasStarted
    BY <2>1
  <2>2. CASE ~HasStarted
    BY <2>2
  <2> QED
    BY <2>1, <2>2
<1>3. /\ b \in {<<"cancelled">>, <<"ended">>, <<>>}
      /\ (b = <<"cancelled">> <=> cancelled # "no")
      /\ (b = <<"ended">> <=> cancelled = "no" /\ phase = "after")
  <2>1. CASE cancelled # "no"
    BY <2>1
  <2>2. CASE cancelled = "no" /\ phase = "after"
    BY <2>2
  <2>3. CASE cancelled = "no" /\ phase # "after"
    BY <2>3
  <2> QED
    BY <2>1, <2>2, <2>3
<1>4. d \in {<<"finalized">>, <<>>} /\ (d = <<"finalized">> <=> finalized)
  <2>1. CASE finalized
    BY <2>1
  <2>2. CASE ~finalized
    BY <2>2
  <2> QED
    BY <2>1, <2>2
<1> HIDE DEF a, b, d
<1>5. a \in Seq(MessageType) /\ b \in Seq(MessageType) /\ d \in Seq(MessageType)
  <2>1. \A m \in MessageType : <<m>> \in Seq(MessageType)
    OBVIOUS
  <2>2. <<>> \in Seq(MessageType)
    OBVIOUS
  <2>3. /\ "started" \in MessageType /\ "cancelled" \in MessageType
        /\ "ended" \in MessageType /\ "finalized" \in MessageType
    BY DEF MessageType
  <2> QED
    BY <1>2, <1>3, <1>4, <2>1, <2>2, <2>3
<1>6. /\ a \o b \o d \in Seq(MessageType)
      /\ \A m : In(m, a \o b \o d) <=> In(m, a) \/ In(m, b) \/ In(m, d)
  <2>1. a \o b \in Seq(MessageType) /\ \A m : In(m, a \o b) <=> In(m, a) \/ In(m, b)
    BY <1>5, InConcat
  <2> QED
    BY <1>5, <2>1, InConcat
<1>7. In("started", a) <=> HasStarted
  BY <1>2, InOne, InEmpty
<1>8. ~In("cancelled", a) /\ ~In("ended", a) /\ ~In("finalized", a)
  BY <1>2, InOne, InEmpty
<1>9. /\ ~In("started", b) /\ ~In("finalized", b)
      /\ In("cancelled", b) <=> cancelled # "no"
      /\ In("ended", b) <=> cancelled = "no" /\ phase = "after"
  BY <1>3, InOne, InEmpty
<1>10. /\ ~In("started", d) /\ ~In("cancelled", d) /\ ~In("ended", d)
       /\ In("finalized", d) <=> finalized
  BY <1>4, InOne, InEmpty
<1> QED
  BY <1>1, <1>6, <1>7, <1>8, <1>9, <1>10

-----------------------------------------------------------------------------
(* The inductive invariant                                                   *)

(* The bus is told what has happened.                                        *)
PostedFacts ==
    /\ "started" \in posted => phase # "before"
    /\ "ended" \in posted => phase = "after"
    /\ "cancelled" \in posted => cancelled # "no"

(* The container is entered before the request for its content is sent.        *)
LoadedOnce == (~container => loads + views = 0) /\ loads + views <= 1

(* What the page has been told or will be if nothing is lost.                 *)
Told(m) == m \in handled \/ In(m, wire) \/ In(m, replay)

Connected == socket \in {"replaying", "open"}

(* The moment at which onOpen read the past has been.                          *)
ReadOnce ==
    /\ Connected => readAt # "never"
    /\ readAt \in {"during", "after"} => phase \in {"during", "after"}

(* Once onOpen has read the past, everything that was posted is told, unless it *)
(* read the past in the instant of the start.                                *)
Covered ==
    Connected =>
        /\ "started" \in posted /\ readAt = "before" => Told("started")
        /\ readAt \in {"during", "after"} /\ cancelled # "early" => Told("started")
        /\ "cancelled" \in posted => Told("cancelled")
        /\ "ended" \in posted => Told("ended") \/ Told("cancelled")
        /\ \A m \in read : Told(m)

(* An open WebSocket has nothing left to replay, and nothing is told that has  *)
(* not happened.                                                             *)
TellsTheTruth ==
    /\ socket = "open" => replay = <<>>
    /\ Told("started") => phase # "before"
    /\ Told("cancelled") => cancelled # "no"
    /\ Told("ended") => phase = "after"
    /\ Told("finalized") => finalized

(* The badge, the progress bar and the buttons follow what was handled.        *)
Shown ==
    /\ "started" \in handled => badge # "pending"
    /\ badge = "running" => "started" \in handled
    /\ badge = "cancelled" => "cancelled" \in handled
    /\ badge = "ended" => "ended" \in handled \/ "finalized" \in handled
    /\ handled \intersect Over # {} /\ ~overtaken => badge \in {"cancelled", "ended"}
    /\ bar = "timer" <=> badge = "running"
    /\ bar = "timer" => bars > 0
    /\ "started" \notin handled => bar = "none" /\ bars = 0
    /\ ~doubled => bars = IF bar = "timer" THEN 1 ELSE 0
    /\ controls \/ pressed > 0 => "started" \in handled
    /\ controls /\ ~overtaken /\ ~reenabled => "ended" \notin handled

PageInv == TypeOK /\ PostedFacts /\ LoadedOnce /\ ReadOnce /\ Covered /\ TellsTheTruth /\ Shown

LEMMA PageInit == Init => PageInv
<1> SUFFICES ASSUME Init PROVE PageInv
  OBVIOUS
<1>1. /\ finalized \in BOOLEAN /\ container \in BOOLEAN /\ controls \in BOOLEAN /\ doubled \in BOOLEAN
      /\ overtaken \in BOOLEAN /\ reenabled \in BOOLEAN /\ ~controls
  BY Zenon DEF Init
<1>2. <<>> \in Seq(MessageType)
  OBVIOUS
<1>3. TypeOK
  BY <1>1, <1>2 DEF Init, TypeOK, Phase
<1>4. PostedFacts /\ LoadedOnce /\ ReadOnce /\ Covered
  BY DEF Init, PostedFacts, LoadedOnce, ReadOnce, Covered, Connected
<1>5. TellsTheTruth
  BY InEmpty DEF Init, TellsTheTruth, Told
<1>6. Shown
  BY <1>1 DEF Init, Shown
<1> QED
  BY <1>3, <1>4, <1>5, <1>6 DEF PageInv

(* A step that leaves the view alone leaves what it shows.                    *)
LEMMA ShownKept ==
    ASSUME Shown, UNCHANGED view
    PROVE  Shown'
BY DEF Shown, view

LEMMA PageStep == PageInv /\ [Next]_pageVars => PageInv'
<1> SUFFICES ASSUME TypeOK, PostedFacts, LoadedOnce, ReadOnce, Covered, TellsTheTruth, Shown,
                    [Next]_pageVars
             PROVE  PageInv'
  BY DEF PageInv
<1> USE DEF PageInv, portal, view, page, past, Phase, ReadOnce, Connected
<1>1. CASE Clock
  <2>1. TypeOK' /\ PostedFacts' /\ LoadedOnce' /\ ReadOnce'
    BY <1>1 DEF Clock, TypeOK, PostedFacts, LoadedOnce
  <2>2. Covered' /\ TellsTheTruth'
    BY <1>1 DEF Clock, PostedFacts, Covered, TellsTheTruth, Told, HasStarted
  <2> QED
    BY <1>1, <2>1, <2>2, ShownKept DEF Clock
<1>2. CASE Cancel
  <2>1. TypeOK' /\ PostedFacts' /\ LoadedOnce' /\ ReadOnce'
    BY <1>2 DEF Cancel, TypeOK, PostedFacts, LoadedOnce
  <2>2. Covered' /\ TellsTheTruth'
    BY <1>2 DEF Cancel, PostedFacts, Covered, TellsTheTruth, Told, HasStarted
  <2> QED
    BY <1>2, <2>1, <2>2, ShownKept DEF Cancel
<1>3. CASE Finalize
  <2>1. finalized' \in BOOLEAN
    BY <1>3, Zenon DEF Finalize
  <2>2. TypeOK' /\ PostedFacts' /\ LoadedOnce' /\ ReadOnce'
    BY <1>3, <2>1 DEF Finalize, TypeOK, PostedFacts, LoadedOnce
  <2>3. Covered' /\ TellsTheTruth'
    BY <1>3 DEF Finalize, Covered, TellsTheTruth, Told, HasStarted
  <2> QED
    BY <1>3, <2>2, <2>3, ShownKept DEF Finalize
<1>4. ASSUME NEW event \in {"started", "cancelled", "ended"}, Post(event),
             event = "started" => phase # "before",
             event = "cancelled" => cancelled # "no",
             event = "ended" => phase = "after"
      PROVE  PageInv'
  <2>1. event \in MessageType
    BY DEF MessageType
  <2>2. /\ wire' \in Seq(MessageType)
        /\ \A m : In(m, wire') <=> In(m, wire) \/ (Registered /\ m = event)
    <3>1. CASE Registered
      <4>1. wire' = Append(wire, event) /\ wire \in Seq(MessageType)
        BY <1>4, <3>1 DEF Post, TypeOK
      <4> QED
        BY <2>1, <3>1, <4>1, InAppend
    <3>2. CASE ~Registered
      BY <1>4, <3>2 DEF Post, TypeOK
    <3> QED
      BY <3>1, <3>2
  <2>3. TypeOK' /\ PostedFacts' /\ LoadedOnce' /\ ReadOnce'
    BY <1>4, <2>2 DEF Post, TypeOK, PostedFacts, LoadedOnce
  <2>4. \A m : Told(m)' <=> Told(m) \/ (Registered /\ m = event)
    BY <1>4, <2>2 DEF Post, Told
  <2>5. socket \in {"replaying", "open"} => Registered
    BY DEF Registered
  <2>6. Covered'
    BY <1>4, <2>4, <2>5 DEF Post, Covered, HasStarted
  <2>7. TellsTheTruth'
    BY <1>4, <2>4 DEF Post, TellsTheTruth
  <2> QED
    BY <1>4, <2>3, <2>6, <2>7, ShownKept DEF Post
<1>5. CASE PostStarted
  BY <1>4, <1>5 DEF PostStarted
<1>6. CASE PostCancelled
  BY <1>4, <1>6 DEF PostCancelled
<1>7. CASE PostEnded
  BY <1>4, <1>7 DEF PostEnded
<1>8. CASE Register
  BY <1>8, ShownKept DEF Register, TypeOK, PostedFacts, LoadedOnce, Covered, TellsTheTruth, Told
<1>9. CASE ReadPast
  <2>1. /\ replay' = PastLifecycleEvents /\ socket' = "replaying"
        /\ readAt' = phase
        /\ read' = {replay'[i] : i \in DOMAIN replay'}
        /\ UNCHANGED <<portal, wire, page, view>>
    BY <1>9 DEF ReadPast
  <2>2. /\ replay' \in Seq(MessageType)
        /\ In("started", replay') <=> HasStarted
        /\ In("cancelled", replay') <=> cancelled # "no"
        /\ In("ended", replay') <=> cancelled = "no" /\ phase = "after"
        /\ In("finalized", replay') <=> finalized
    BY <2>1, PastFacts DEF TypeOK
  <2>6. read' \subseteq MessageType /\ \A m \in read' : In(m, replay')
    <3>1. DOMAIN replay' = 1..Len(replay') /\ \A i \in DOMAIN replay' : replay'[i] \in MessageType
      BY <2>2
    <3> QED
      BY <2>1, <3>1 DEF In
  <2>3. TypeOK' /\ PostedFacts' /\ LoadedOnce' /\ ReadOnce'
    BY <2>1, <2>2, <2>6 DEF TypeOK, PostedFacts, LoadedOnce
  <2>4. Covered'
    BY <2>1, <2>2, <2>6 DEF PostedFacts, Covered, Told, HasStarted
  <2>5. TellsTheTruth'
    BY <2>1, <2>2 DEF TellsTheTruth, Told, HasStarted
  <2> QED
    BY <2>1, <2>3, <2>4, <2>5, ShownKept
<1>10. CASE Replay
  <2>1. CASE replay = <<>>
    BY <1>10, <2>1, ShownKept
       DEF Replay, TypeOK, PostedFacts, LoadedOnce, Covered, TellsTheTruth, Told, HasStarted
  <2>2. CASE replay # <<>>
    <3>0. /\ replay \in Seq(MessageType) /\ replay' = Tail(replay)
          /\ wire \in Seq(MessageType) /\ wire' = Append(wire, Head(replay))
      BY <1>10, <2>2 DEF Replay, TypeOK
    <3>1. /\ Head(replay) \in MessageType /\ replay' \in Seq(MessageType)
          /\ \A m : In(m, replay) <=> In(m, replay') \/ m = Head(replay)
      BY <2>2, <3>0, InTail
    <3>2. /\ wire' \in Seq(MessageType)
          /\ \A m : In(m, wire') <=> In(m, wire) \/ m = Head(replay)
      BY <3>0, <3>1, InAppend
    <3>3. \A m : Told(m)' <=> Told(m)
      BY <1>10, <3>1, <3>2 DEF Replay, Told
    <3>4. TypeOK' /\ PostedFacts' /\ LoadedOnce' /\ ReadOnce'
      BY <1>10, <2>2, <3>1, <3>2 DEF Replay, TypeOK, PostedFacts, LoadedOnce
    <3>5. Covered' /\ TellsTheTruth'
      BY <1>10, <2>2, <3>3 DEF Replay, Covered, TellsTheTruth, HasStarted
    <3> QED
      BY <1>10, <3>4, <3>5, ShownKept DEF Replay
  <2> QED
    BY <2>1, <2>2
<1>11. CASE Close
  <2>1. /\ replay' = <<>> /\ wire' = <<>> /\ socket' = "closed"
        /\ UNCHANGED <<portal, page, view, past>>
    BY <1>11 DEF Close
  <2>2. <<>> \in Seq(MessageType)
    OBVIOUS
  <2>3. TypeOK' /\ PostedFacts' /\ LoadedOnce' /\ ReadOnce'
    BY <2>1, <2>2 DEF TypeOK, PostedFacts, LoadedOnce
  <2>4. Covered' /\ TellsTheTruth'
    BY <2>1, InEmpty DEF Covered, TellsTheTruth, Told
  <2> QED
    BY <2>1, <2>3, <2>4, ShownKept
<1>12. CASE Visit
  <2>1. container' \in BOOLEAN /\ container'
    BY <1>12, Zenon DEF Visit
  <2>2. TypeOK' /\ PostedFacts' /\ LoadedOnce' /\ ReadOnce'
    BY <1>12, <2>1 DEF Visit, TypeOK, PostedFacts, LoadedOnce
  <2>3. Covered' /\ TellsTheTruth'
    BY <1>12 DEF Visit, Covered, TellsTheTruth, Told, HasStarted
  <2> QED
    BY <1>12, <2>2, <2>3, ShownKept DEF Visit
<1>13. CASE Loaded
  <2>1. TypeOK' /\ PostedFacts' /\ LoadedOnce' /\ ReadOnce'
    BY <1>13 DEF Loaded, TypeOK, PostedFacts, LoadedOnce
  <2>2. Covered' /\ TellsTheTruth'
    BY <1>13 DEF Loaded, Covered, TellsTheTruth, Told, HasStarted
  <2> QED
    BY <1>13, <2>1, <2>2, ShownKept DEF Loaded
<1>14. CASE Message
  <2> DEFINE m == Head(wire)
  <2>1. /\ m \in MessageType /\ wire' \in Seq(MessageType)
        /\ \A n : In(n, wire) <=> In(n, wire') \/ n = m
    BY <1>14, InTail DEF Message, TypeOK
  <2>2. handled' = handled \union {m} /\ UNCHANGED <<portal, socket, replay, page, past>>
    BY <1>14 DEF Message
  <2>3. \A n : Told(n)' <=> Told(n)
    BY <2>1, <2>2 DEF Told
  <2>4. Covered' /\ TellsTheTruth' /\ PostedFacts' /\ LoadedOnce' /\ ReadOnce'
    BY <2>2, <2>3 DEF Covered, TellsTheTruth, PostedFacts, LoadedOnce, HasStarted
  <2>5. CASE m = "started"
    <3>1. OnStarted
      BY <1>14, <2>5 DEF Message
    <3>2. /\ controls' \in BOOLEAN /\ doubled' \in BOOLEAN /\ overtaken' \in BOOLEAN
          /\ controls' /\ UNCHANGED <<pressed, reenabled>>
      BY <3>1, Zenon DEF OnStarted, TypeOK
    <3>3. TypeOK'
      BY <2>1, <2>2, <3>1, <3>2 DEF OnStarted, TypeOK
    <3>4. doubled' \/ "started" \notin handled
      BY <3>1 DEF OnStarted
    <3>5. overtaken' \/ handled' \intersect Over = {}
      BY <2>2, <2>5, <3>1 DEF OnStarted, Over
    <3>6. Shown'
      BY <2>2, <2>5, <3>1, <3>2, <3>4, <3>5 DEF OnStarted, Shown, TypeOK, Over
    <3> QED
      BY <2>4, <3>3, <3>6
  <2>6. CASE m # "started"
    <3>1. OnOver(m) /\ m \in Over
      BY <1>14, <2>1, <2>6 DEF Message, MessageType, Over
    <3>2. controls' \in BOOLEAN /\ (controls' => controls /\ m # "ended")
      BY <3>1, Zenon DEF OnOver, TypeOK
    <3>3. TypeOK'
      <4>1. bars' \in Nat
        BY <3>1 DEF OnOver, TypeOK, Shown
      <4>2. badge' \in {"cancelled", "ended"} /\ bar' \in {"none", "timer", "stale"}
        BY <3>1 DEF OnOver, TypeOK
      <4>3. UNCHANGED <<pressed, doubled, overtaken, reenabled>>
        BY <3>1 DEF OnOver
      <4>4. doubled' \in BOOLEAN /\ overtaken' \in BOOLEAN /\ reenabled' \in BOOLEAN
        BY <4>3, Zenon DEF TypeOK
      <4>5. /\ phase' \in Phase /\ cancelled' \in {"no", "early", "late"} /\ finalized' \in BOOLEAN
            /\ container' \in BOOLEAN
        BY <2>2, Zenon DEF TypeOK
      <4>6. handled' \subseteq MessageType /\ pressed' \in Nat
        BY <2>1, <2>2, <4>3 DEF TypeOK
      <4> QED
        BY <2>1, <2>2, <3>2, <4>1, <4>2, <4>4, <4>5, <4>6 DEF TypeOK
    <3>4. Shown'
      <4>1. /\ badge' = (IF m = "cancelled" THEN "cancelled" ELSE "ended")
            /\ bars' = (IF bar = "timer" THEN bars - 1 ELSE bars)
            /\ bar' = (IF bar = "timer" THEN "stale" ELSE bar)
            /\ UNCHANGED <<pressed, doubled, overtaken, reenabled>>
        BY <3>1 DEF OnOver
      <4>2. m \in {"cancelled", "ended", "finalized"}
        BY <3>1 DEF Over
      <4>3. /\ badge' = "cancelled" => "cancelled" \in handled'
            /\ badge' = "ended" => "ended" \in handled' \/ "finalized" \in handled'
            /\ badge' \in {"cancelled", "ended"} /\ bar' # "timer"
        BY <2>2, <4>1, <4>2
      <4>4. /\ "started" \notin handled' => bar' = "none" /\ bars' = 0
            /\ ~doubled' => bars' = 0
        BY <2>2, <2>6, <4>1 DEF Shown, TypeOK
      <4>5. /\ controls' \/ pressed' > 0 => "started" \in handled'
            /\ controls' /\ ~overtaken' /\ ~reenabled' => "ended" \notin handled'
        BY <2>2, <3>2, <4>1 DEF Shown
      <4> QED
        BY <4>3, <4>4, <4>5 DEF Shown
    <3> QED
      BY <2>4, <3>3, <3>4
  <2> QED
    BY <2>5, <2>6
<1>16. CASE Press
  <2>1. /\ pressed' = pressed + 1 /\ controls' \in BOOLEAN /\ controls
        /\ UNCHANGED <<portal, socket, replay, wire, page, past>>
        /\ UNCHANGED <<badge, bar, bars, handled, doubled, overtaken, reenabled>>
    BY <1>16 DEF Press
  <2>2. TypeOK' /\ PostedFacts' /\ LoadedOnce' /\ ReadOnce'
    BY <2>1 DEF TypeOK, PostedFacts, LoadedOnce
  <2>3. Covered' /\ TellsTheTruth'
    BY <2>1 DEF Covered, TellsTheTruth, Told
  <2>4. Shown'
    BY <2>1 DEF Shown, TypeOK
  <2> QED
    BY <2>2, <2>3, <2>4
<1>17. CASE Callback
  <2>1. /\ pressed > 0 /\ pressed' = pressed - 1
        /\ UNCHANGED <<portal, socket, replay, wire, page, past>>
        /\ UNCHANGED <<badge, bar, bars, handled, doubled, overtaken>>
    BY <1>17 DEF Callback
  <2>2. controls' \in BOOLEAN /\ reenabled' \in BOOLEAN /\ (reenabled' \/ "ended" \notin handled)
    BY <1>17, Zenon DEF Callback
  <2>3. TypeOK' /\ PostedFacts' /\ LoadedOnce' /\ ReadOnce'
    BY <2>1, <2>2 DEF TypeOK, PostedFacts, LoadedOnce
  <2>4. Covered' /\ TellsTheTruth'
    BY <2>1 DEF Covered, TellsTheTruth, Told
  <2>5. Shown'
    BY <2>1, <2>2 DEF Shown, TypeOK
  <2> QED
    BY <2>3, <2>4, <2>5
<1>15. CASE UNCHANGED pageVars
  BY <1>15, ShownKept
     DEF pageVars, TypeOK, PostedFacts, LoadedOnce, Covered, TellsTheTruth, Told, HasStarted
<1> QED
  BY <1>1, <1>2, <1>3, <1>5, <1>6, <1>7, <1>8, <1>9, <1>10, <1>11, <1>12, <1>13, <1>14, <1>15,
     <1>16, <1>17 DEF Next

LEMMA PageInvariant == Spec => []PageInv
BY PageInit, PageStep, PTL DEF Spec

-----------------------------------------------------------------------------
(* A page at rest has handled what it was told.                              *)
LEMMA AtRestHandled ==
    ASSUME PageInv, AtRest
    PROVE  \A m : Told(m) => m \in handled
BY InEmpty DEF PageInv, AtRest, TellsTheTruth, Told

LEMMA PageHasOneView == PageInv => OneViewPerReservation
BY DEF PageInv, LoadedOnce, OneViewPerReservation

LEMMA PageMissesNothing == PageInv => NothingMissed
<1> SUFFICES ASSUME PageInv, AtRest
             PROVE  /\ StartPosted => "started" \in handled
                    /\ posted \intersect Over # {} => handled \intersect Over # {}
  BY DEF NothingMissed
<1>1. posted \intersect Over # {} => "cancelled" \in posted \/ "ended" \in posted
  BY DEF PageInv, TypeOK, Over
<1>2. Covered /\ Connected /\ readAt \in {"before", "start", "during", "after"}
  BY DEF PageInv, AtRest, Connected, ReadOnce, TypeOK, Phase
<1>3. StartPosted => Told("started")
  BY <1>2 DEF StartPosted, HasStarted, Covered
<1> QED
  BY <1>1, <1>2, <1>3, AtRestHandled DEF Covered, Over

LEMMA PageShowsTheBadge == PageInv => BadgeFollows
<1>1. ASSUME PageInv
      PROVE  /\ badge = "running" => phase # "before"
             /\ badge = "cancelled" => cancelled # "no"
             /\ badge = "ended" => phase = "after" \/ finalized
  BY <1>1 DEF PageInv, Shown, TellsTheTruth, Told
<1>2. ASSUME PageInv, AtRest, ~overtaken
      PROVE  /\ "started" \in read \/ StartPosted => badge # "pending"
             /\ (read \union posted) \intersect Over # {} => badge \in {"cancelled", "ended"}
             /\ ~doubled => bars = IF badge = "running" THEN 1 ELSE 0
  <2>1. /\ StartPosted => "started" \in handled
        /\ posted \intersect Over # {} => handled \intersect Over # {}
    BY <1>2, PageMissesNothing DEF NothingMissed
  <2>2. \A m \in read : m \in handled
    BY <1>2, AtRestHandled DEF PageInv, AtRest, Covered, Connected
  <2> QED
    BY <1>2, <2>1, <2>2 DEF PageInv, Shown
<1> QED
  BY <1>1, <1>2 DEF BadgeFollows

LEMMA PageEnablesControls == PageInv => ControlsFollow
<1>1. ASSUME PageInv, controls PROVE phase # "before"
  BY <1>1 DEF PageInv, Shown, TellsTheTruth, Told
<1>2. ASSUME PageInv, AtRest, "ended" \in read \union posted, cancelled = "no", ~overtaken, ~reenabled
      PROVE  ~controls
  <2>1. Told("ended") /\ ~Told("cancelled")
    BY <1>2 DEF PageInv, Covered, TellsTheTruth, AtRest, Connected
  <2>2. "ended" \in handled
    BY <1>2, <2>1, AtRestHandled
  <2> QED
    BY <1>2, <2>2 DEF PageInv, Shown
<1> QED
  BY <1>1, <1>2 DEF ControlsFollow

(* The page keeps its types; an interval is never cleared that does not run.   *)
THEOREM PageTyped == Spec => []TypeOK
<1>1. PageInv => TypeOK
  BY DEF PageInv
<1> QED
  BY <1>1, PageInvariant, PTL

(* An experiment has one view at most, however often the user comes back and   *)
(* whenever the request for its data is answered.                             *)
THEOREM OneView == Spec => []OneViewPerReservation
BY PageHasOneView, PageInvariant, PTL

(* No event falls between the past that onOpen reads and the live events.      *)
THEOREM NoEventIsMissed == Spec => []NothingMissed
BY PageMissesNothing, PageInvariant, PTL

(* The badge never runs ahead of the reservation, and a page at rest shows what *)
(* its WebSocket had to tell it: BadgeFollows, with its two exceptions.        *)
THEOREM BadgeIsRight == Spec => []BadgeFollows
BY PageShowsTheBadge, PageInvariant, PTL

(* The buttons are not enabled before the reservation begins.  After an end     *)
(* that the page was told they are only enabled if the reservation was         *)
(* cancelled, the start was replayed late or a callback came late:             *)
(* ControlsFollow.                                                           *)
THEOREM ControlsAreRight == Spec => []ControlsFollow
BY PageEnablesControls, PageInvariant, PTL
=============================================================================
