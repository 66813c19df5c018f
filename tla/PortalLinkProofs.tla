--------------------------- MODULE PortalLinkProofs ---------------------------
(***************************************************************************)
(* Theorems of PortalLink, for any number of connections, device events and   *)
(* restarts: its types, that no message vanishes without a trace, and that    *)
(* the portal ends up knowing of the node exactly if the gateway has it.       *)
(*                                                                         *)
(* A message is pending while it is in the queue or with a callback that was   *)
(* called (Unwritten) and while a chain writes it (OnItsWay).  A status is an  *)
(* attached or detached event.  As long as nobody is misled, the last status   *)
(* of all, if it is pending, is the state of the device (LastIsRight); a       *)
(* status is lost only when something at least as new was written, so that the *)
(* older ones that are pending will mislead if they are written later          *)
(* (NoneOvertaken); hence the status that is written last to a connection is   *)
(* the last of all, and once none is unwritten the writes of the channel leave *)
(* the portal with the state of the device (ChannelKnows).                    *)
(***************************************************************************)
EXTENDS PortalLink, FiniteSetTheorems, TLAPS

Kind == {"hello", "attached", "detached"}
Stage == {"none", "waiting", "called", "writing"}
Phase == {"unused", "open", "observed", "read", "up", "leaving", "gone"}
Early == {"unused", "open", "observed"}

Typed ==
    /\ connected \in BOOLEAN /\ trying \in BOOLEAN
    /\ phase \in [Channel -> Phase]
    /\ link \in [Channel -> {"none", "up", "dead", "down"}]
    /\ registered \in BOOLEAN /\ channel \in Channel \cup {0} /\ deaf \in BOOLEAN
    /\ attached \in [Channel -> BOOLEAN] /\ running \in BOOLEAN /\ announced \in BOOLEAN
    /\ accepted \in Seq(Kind)
    /\ events \in Nat /\ crashes \in Nat
    /\ settled \subseteq Messages /\ thrown \subseteq Messages /\ newest \in Messages \cup {0}
    /\ misled \in BOOLEAN

(* The callbacks a, their messages h and the queue q fit together: who holds a *)
(* message was called, and nobody waits while there is one.                   *)
HeldIn(M, q, a, h) ==
    /\ q \in Seq(M) /\ a \in [Channel -> Stage] /\ h \in [Channel -> M \cup {0}]
    /\ \A c \in Channel : h[c] # 0 <=> a[c] \in {"called", "writing"}
    /\ \A c \in Channel : a[c] = "waiting" => q = <<>>
Held == HeldIn(Messages, queue, at, holds)

(* The message is in the queue, or with a callback that was called.            *)
UnwrittenIn(q, a, h, m) ==
    m \in Range(q) \/ \E c \in Channel : a[c] = "called" /\ h[c] = m
Unwritten(m) == UnwrittenIn(queue, at, holds, m)

OnItsWay(m) == \E c \in Channel : at[c] = "writing" /\ holds[c] = m
Pending(m) == Unwritten(m) \/ OnItsWay(m)
Statuses == {m \in Messages : accepted[m] # "hello"}

(* A chain is in the writes of one connection, once, exactly while it writes.  *)
Writes ==
    /\ writes \in [Channel -> Seq(Channel)]
    /\ \A d \in Channel : \A i \in 1..Len(writes[d]) : at[writes[d][i]] = "writing"
    /\ \A c \in Channel : at[c] = "writing" =>
          \E d \in Channel : \E i \in 1..Len(writes[d]) : writes[d][i] = c
    /\ \A d, e \in Channel : \A i \in 1..Len(writes[d]), j \in 1..Len(writes[e]) :
          writes[d][i] = writes[e][j] => d = e /\ i = j

(* A connection whose handlers have not yet reached the queue.                *)
Young ==
    /\ \A c \in Channel : phase[c] \in Early =>
          at[c] = "none" /\ writes[c] = <<>> /\ attached[c] = FALSE
    /\ \A c \in Channel : c = channel => phase[c] \notin Early

(* No message vanishes without a trace.                                      *)
Done == settled \cup thrown
NoneLost == \A m \in Messages : m \in Done \/ Pending(m)

USE DEF Done

(* Nothing is on its way that is newer than newest.                          *)
WrittenIsOld == \A c \in Channel : at[c] = "writing" => holds[c] <= newest

(* A handler that has read the node will announce what is still so.           *)
ReadIsRight == ~misled => \A c \in Channel : phase[c] = "read" => announced = TRUE

(* The last status of all, if it is pending, is the state of the device.      *)
LastIsRight ==
    ~misled => \A m \in Statuses : Pending(m) /\ (\A k \in Statuses : k <= m)
                   => announced = (accepted[m] = "attached")

(* What is newer than a pending status is pending or not newer than newest.    *)
NoneOvertaken ==
    ~misled => \A m, k \in Statuses : Pending(m) /\ k > m => Pending(k) \/ k <= newest

(* The portal knows the device, or will when what connection c writes arrives. *)
Written(c, i) == holds[writes[c][i]]
WillKnow(c) ==
    \/ /\ attached[c] = announced
       /\ \A i \in 1..Len(writes[c]) : accepted[Written(c, i)] = "hello"
    \/ \E i \in 1..Len(writes[c]) :
          /\ accepted[Written(c, i)] # "hello"
          /\ announced = (accepted[Written(c, i)] = "attached")
          /\ \A j \in 1..Len(writes[c]) : j > i => accepted[Written(c, j)] = "hello"

(* Over the channel the portal learns the state of the device once no status   *)
(* is unwritten.                                                             *)
ChannelKnows ==
    ~misled => \A c \in Channel :
        c = channel /\ link[c] = "up" /\ phase[c] = "up" /\ (\A m \in Statuses : ~Unwritten(m))
            => WillKnow(c)

LinkInv ==
    /\ Typed /\ Held /\ Writes /\ Young /\ NoneLost /\ WrittenIsOld
    /\ ReadIsRight /\ LastIsRight /\ NoneOvertaken /\ ChannelKnows

(* What a step leaves to a chain: its stage and message, or a message m it      *)
(* waited for.                                                               *)
KeptOrGiven(d, a, h, m) ==
    \/ at'[d] = a[d] /\ holds'[d] = h[d]
    \/ a[d] = "waiting" /\ at'[d] = "called" /\ holds'[d] = m

-----------------------------------------------------------------------------
LEMMA RangeOfEmpty == Range(<<>>) = {}
BY DEF Range

LEMMA RangeOfAppend ==
    ASSUME NEW S, NEW s \in Seq(S), NEW e \in S
    PROVE  Append(s, e) \in Seq(S) /\ Range(Append(s, e)) = Range(s) \cup {e}
<1>1. DOMAIN Append(s, e) = 1..(Len(s) + 1) /\ DOMAIN s = 1..Len(s) /\ Len(s) \in Nat
  OBVIOUS
<1>2. Append(s, e)[Len(s) + 1] = e /\ \A i \in 1..Len(s) : Append(s, e)[i] = s[i]
  OBVIOUS
<1>3. 1..(Len(s) + 1) = 1..Len(s) \cup {Len(s) + 1}
  BY <1>1
<1> QED
  BY <1>1, <1>2, <1>3 DEF Range

LEMMA RangeOfTail ==
    ASSUME NEW S, NEW s \in Seq(S), s # <<>>
    PROVE  /\ Head(s) \in S /\ Tail(s) \in Seq(S)
           /\ Range(s) = {Head(s)} \cup Range(Tail(s))
<1>1. Len(s) \in Nat \ {0} /\ DOMAIN s = 1..Len(s) /\ Head(s) = s[1] /\ Head(s) \in S
  OBVIOUS
<1>2. Tail(s) \in Seq(S) /\ Len(Tail(s)) = Len(s) - 1
  OBVIOUS
<1>3. DOMAIN Tail(s) = 1..(Len(s) - 1)
  BY <1>2
<1>4. \A i \in 1..(Len(s) - 1) : Tail(s)[i] = s[i + 1]
  BY <1>1
<1>5. \A i \in 1..Len(s) : i = 1 \/ (i - 1 \in 1..(Len(s) - 1) /\ i = (i - 1) + 1)
  BY <1>1
<1>6. \A i \in 1..(Len(s) - 1) : i + 1 \in 1..Len(s)
  BY <1>1
<1>7. Range(s) \subseteq {Head(s)} \cup Range(Tail(s))
  <2> SUFFICES ASSUME NEW i \in 1..Len(s) PROVE s[i] \in {Head(s)} \cup Range(Tail(s))
    BY <1>1 DEF Range
  <2>1. CASE i = 1
    BY <1>1, <2>1
  <2>2. CASE i # 1
    <3>1. PICK j \in 1..(Len(s) - 1) : i = j + 1
      BY <1>5, <2>2
    <3>2. Tail(s)[j] = s[i]
      BY <1>4, <3>1
    <3> QED
      BY <1>3, <3>2 DEF Range
  <2> QED
    BY <2>1, <2>2
<1>8. Range(Tail(s)) \subseteq Range(s)
  BY <1>1, <1>3, <1>4, <1>6 DEF Range
<1>9. Head(s) \in Range(s)
  BY <1>1 DEF Range
<1> QED
  BY <1>1, <1>2, <1>7, <1>8, <1>9

LEMMA OneElement ==
    ASSUME NEW e
    PROVE  <<e>> \in Seq({e}) /\ Len(<<e>>) = 1 /\ <<e>>[1] = e /\ Range(<<e>>) = {e}
<1>1. <<e>> \in Seq({e}) /\ Len(<<e>>) = 1 /\ <<e>>[1] = e
  OBVIOUS
<1>2. DOMAIN <<e>> = 1..1
  OBVIOUS
<1> QED
  BY <1>1, <1>2 DEF Range

LEMMA NoElement == ASSUME NEW S PROVE <<>> \in Seq(S) /\ Len(<<>>) = 0
OBVIOUS

LEMMA SeqOver == ASSUME NEW S, NEW T, S \subseteq T, NEW s \in Seq(S) PROVE s \in Seq(T)
OBVIOUS

-----------------------------------------------------------------------------
(* Put keeps the callbacks, their messages and the queue together; message m   *)
(* becomes unwritten, and is given to the chains that waited, if any.          *)
LEMMA PutEffect ==
    ASSUME NEW M, 0 \notin M, NEW here, NEW have, NEW m \in M,
           HeldIn(M, queue, here, have), Put(m, here, have)
    PROVE  /\ HeldIn(M, queue', at', holds')
           /\ \A d \in Channel : KeptOrGiven(d, here, have, m)
           /\ \A k : UnwrittenIn(queue', at', holds', k)
                         <=> k = m \/ UnwrittenIn(queue, here, have, k)
<1>1. CASE \E c \in Channel : here[c] = "waiting"
  <2>1. queue = <<>> /\ queue' = <<>>
    BY <1>1 DEF Put, HeldIn
  <2>2. /\ at' = [c \in Channel |-> IF here[c] = "waiting" THEN "called" ELSE here[c]]
        /\ holds' = [c \in Channel |-> IF here[c] = "waiting" THEN m ELSE have[c]]
    BY <1>1 DEF Put
  <2>3. at' \in [Channel -> Stage] /\ holds' \in [Channel -> M \cup {0}]
    BY <2>2 DEF HeldIn, Stage
  <2>4. \A d \in Channel : IF here[d] = "waiting" THEN at'[d] = "called" /\ holds'[d] = m
                           ELSE at'[d] = here[d] /\ holds'[d] = have[d]
    BY <2>2
  <2>5. HeldIn(M, queue', at', holds')
    BY <2>1, <2>3, <2>4 DEF HeldIn
  <2>6. ASSUME NEW k
        PROVE  UnwrittenIn(queue', at', holds', k)
                         <=> k = m \/ UnwrittenIn(queue, here, have, k)
    BY <1>1, <2>1, <2>4, RangeOfEmpty DEF UnwrittenIn
  <2> QED
    BY <2>4, <2>5, <2>6 DEF KeptOrGiven
<1>2. CASE ~ \E c \in Channel : here[c] = "waiting"
  <2>1. queue' = Append(queue, m) /\ at' = here /\ holds' = have
    BY <1>2 DEF Put
  <2>2. queue' \in Seq(M) /\ Range(queue') = Range(queue) \cup {m}
    BY <2>1, RangeOfAppend DEF HeldIn
  <2>3. HeldIn(M, queue', at', holds')
    BY <1>2, <2>1, <2>2 DEF HeldIn
  <2> QED
    BY <2>1, <2>2, <2>3 DEF KeptOrGiven, UnwrittenIn
<1> QED
  BY <1>1, <1>2

(* The first message moves from the queue to the callback of chain c.         *)
LEMMA HeadEffect ==
    ASSUME NEW M, 0 \notin M, NEW c \in Channel, HeldIn(M, queue, at, holds), at[c] # "called",
           queue # <<>>
    PROVE  LET a == [at EXCEPT ![c] = "called"]
               h == [holds EXCEPT ![c] = Head(queue)]
           IN  /\ HeldIn(M, Tail(queue), a, h)
               /\ \A k : UnwrittenIn(Tail(queue), a, h, k) <=> Unwritten(k)
<1> DEFINE a == [at EXCEPT ![c] = "called"]
           h == [holds EXCEPT ![c] = Head(queue)]
<1>1. Head(queue) \in M /\ Tail(queue) \in Seq(M) /\ Range(queue) = {Head(queue)} \cup Range(Tail(queue))
  BY RangeOfTail DEF HeldIn
<1>2. a \in [Channel -> Stage] /\ h \in [Channel -> M \cup {0}]
  BY <1>1 DEF HeldIn, Stage
<1>3. a[c] = "called" /\ h[c] = Head(queue) /\ \A d \in Channel \ {c} : a[d] = at[d] /\ h[d] = holds[d]
  BY DEF HeldIn
<1> HIDE DEF a, h
<1>4. HeldIn(M, Tail(queue), a, h)
  BY <1>1, <1>2, <1>3 DEF HeldIn
<1>5. ASSUME NEW k PROVE UnwrittenIn(Tail(queue), a, h, k) <=> Unwritten(k)
  BY <1>1, <1>3 DEF Unwritten, UnwrittenIn
<1> QED
  BY <1>4, <1>5 DEF a, h

(* A chain that has written asks for the next message.                       *)
LEMMA DequeueEffect ==
    ASSUME NEW c \in Channel, Held, at[c] # "called", Dequeue(c)
    PROVE  /\ HeldIn(Messages, queue', at', holds')
           /\ at'[c] \in {"waiting", "called"}
           /\ \A d \in Channel \ {c} : at'[d] = at[d] /\ holds'[d] = holds[d]
           /\ \A k : UnwrittenIn(queue', at', holds', k) <=> Unwritten(k)
<1>0. 0 \notin Messages
  BY DEF Messages
<1>1. CASE queue = <<>>
  <2>1. /\ queue' = queue /\ at' = [at EXCEPT ![c] = "waiting"] /\ holds' = [holds EXCEPT ![c] = 0]
    BY <1>1 DEF Dequeue
  <2>2. /\ at' \in [Channel -> Stage] /\ holds' \in [Channel -> Messages \cup {0}]
        /\ at'[c] = "waiting" /\ holds'[c] = 0
        /\ \A d \in Channel \ {c} : at'[d] = at[d] /\ holds'[d] = holds[d]
    BY <2>1 DEF Held, HeldIn, Stage
  <2>3. HeldIn(Messages, queue', at', holds')
    BY <1>1, <2>1, <2>2 DEF Held, HeldIn
  <2> QED
    BY <2>1, <2>2, <2>3 DEF Unwritten, UnwrittenIn
<1>2. CASE queue # <<>>
  <2>1. /\ at' = [at EXCEPT ![c] = "called"] /\ holds' = [holds EXCEPT ![c] = Head(queue)]
        /\ queue' = Tail(queue)
    BY <1>2 DEF Dequeue
  <2>2. /\ HeldIn(Messages, queue', at', holds')
        /\ \A k : UnwrittenIn(queue', at', holds', k) <=> Unwritten(k)
    BY <1>0, <1>2, <2>1, HeadEffect DEF Held
  <2> QED
    BY <2>1, <2>2 DEF Held, HeldIn
<1> QED
  BY <1>1, <1>2

LEMMA HeldOver ==
    ASSUME NEW M, NEW N, M \subseteq N, NEW q, NEW a, NEW h, HeldIn(M, q, a, h)
    PROVE  HeldIn(N, q, a, h)
<1>1. q \in Seq(N)
  BY SeqOver DEF HeldIn
<1>2. h \in [Channel -> N \cup {0}]
  BY DEF HeldIn
<1> QED
  BY <1>1, <1>2 DEF HeldIn

(* A chain that writes goes on, one that does not stays so.                  *)
SameWriters ==
    \A d \in Channel : /\ at'[d] = "writing" <=> at[d] = "writing"
                       /\ at[d] = "writing" => holds'[d] = holds[d]

LEMMA Numbering ==
    ASSUME accepted \in Seq(Kind), NEW kind \in Kind, accepted' = Append(accepted, kind)
    PROVE  /\ accepted' \in Seq(Kind) /\ Len(accepted) + 1 \in Nat /\ Len(accepted) + 1 \notin Messages
           /\ Messages \subseteq Nat \ {0} /\ Messages' \subseteq Nat \ {0}
           /\ Messages' = Messages \cup {Len(accepted) + 1}
           /\ \A m \in Messages : m < Len(accepted) + 1 /\ accepted'[m] = accepted[m]
           /\ accepted'[Len(accepted) + 1] = kind
           /\ Statuses' = Statuses \cup IF kind = "hello" THEN {} ELSE {Len(accepted) + 1}
<1>1. accepted' \in Seq(Kind) /\ Len(accepted') = Len(accepted) + 1 /\ Len(accepted) \in Nat
  OBVIOUS
<1>2. accepted'[Len(accepted) + 1] = kind
  OBVIOUS
<1>3. \A m \in 1..Len(accepted) : accepted'[m] = accepted[m]
  OBVIOUS
<1>4. 1..(Len(accepted) + 1) = 1..Len(accepted) \cup {Len(accepted) + 1}
  BY <1>1
<1>5. Messages' = Messages \cup {Len(accepted) + 1}
  BY <1>1, <1>4 DEF Messages
<1>6. Statuses' = Statuses \cup IF kind = "hello" THEN {} ELSE {Len(accepted) + 1}
  BY <1>2, <1>3, <1>5 DEF Statuses, Messages
<1>7. \A m \in Messages : m < Len(accepted) + 1
  BY <1>1 DEF Messages
<1> QED
  BY <1>1, <1>2, <1>3, <1>5, <1>6, <1>7 DEF Messages

(* A new message is enqueued.                                                *)
LEMMA AcceptEffect ==
    ASSUME Typed, Held, NEW kind \in Kind, Accept(kind)
    PROVE  /\ Held' /\ SameWriters
           /\ \A d \in Channel : at[d] = "none" => at'[d] = "none"
           /\ \A k : Unwritten(k)' <=> k = Len(accepted) + 1 \/ Unwritten(k)
<1> DEFINE n == Len(accepted) + 1
<1>1. Messages' \subseteq Nat \ {0} /\ n \in Messages' /\ Messages \subseteq Messages'
  BY Numbering DEF Accept, Typed
<1>2. HeldIn(Messages', queue, at, holds) /\ Put(n, at, holds)
  BY <1>1, HeldOver DEF Held, Accept
<1> HIDE DEF n
<1>3. /\ HeldIn(Messages', queue', at', holds')
      /\ \A d \in Channel : KeptOrGiven(d, at, holds, n)
      /\ \A k : UnwrittenIn(queue', at', holds', k) <=> k = n \/ UnwrittenIn(queue, at, holds, k)
  BY <1>1, <1>2, PutEffect
<1> QED
  BY <1>3 DEF n, Held, SameWriters, KeptOrGiven, Unwritten

(* Chain c begins and a new message is enqueued.                             *)
LEMMA BeginEffect ==
    ASSUME Typed, Held, NEW c \in Channel, at[c] = "none", Begin(c),
           NEW kind \in Kind, accepted' = Append(accepted, kind)
    PROVE  /\ Held' /\ SameWriters
           /\ \A d \in Channel \ {c} : at[d] = "none" => at'[d] = "none"
           /\ \A k : Unwritten(k)' <=> k = Len(accepted) + 1 \/ Unwritten(k)
<1> DEFINE n == Len(accepted) + 1
<1>1. Messages' \subseteq Nat \ {0} /\ n \in Messages' /\ Messages \subseteq Messages'
  BY Numbering DEF Typed
<1>2. HeldIn(Messages', queue, at, holds) /\ DequeueWith(c, n) /\ holds[c] = 0
  <2>1. HeldIn(Messages', queue, at, holds)
    BY <1>1, HeldOver DEF Held
  <2>2. holds[c] = 0
    BY DEF Held, HeldIn
  <2> QED
    BY <2>1, <2>2 DEF Begin
<1>3. CASE queue = <<>>
  <2> DEFINE here == [at EXCEPT ![c] = "waiting"]
  <2>1. Put(n, here, holds)
    BY <1>2, <1>3 DEF DequeueWith
  <2>2. /\ here \in [Channel -> Stage] /\ here[c] = "waiting"
        /\ \A d \in Channel \ {c} : here[d] = at[d]
    BY DEF Held, HeldIn, Stage
  <2> HIDE DEF here, n
  <2>3. HeldIn(Messages', queue, here, holds)
    BY <1>2, <1>3, <2>2 DEF HeldIn
  <2>4. /\ HeldIn(Messages', queue', at', holds')
        /\ \A d \in Channel : KeptOrGiven(d, here, holds, n)
        /\ \A k : UnwrittenIn(queue', at', holds', k) <=> k = n \/ UnwrittenIn(queue, here, holds, k)
    BY <1>1, <2>1, <2>3, PutEffect
  <2>5. \A k : UnwrittenIn(queue, here, holds, k) <=> Unwritten(k)
    BY <2>2 DEF UnwrittenIn, Unwritten
  <2> QED
    BY <2>2, <2>4, <2>5 DEF n, Held, SameWriters, KeptOrGiven, Unwritten
<1>4. CASE queue # <<>>
  <2> DEFINE a == [at EXCEPT ![c] = "called"]
             h == [holds EXCEPT ![c] = Head(queue)]
  <2>1. at' = a /\ holds' = h /\ queue' = Append(Tail(queue), n)
    BY <1>2, <1>4 DEF DequeueWith
  <2>2. /\ HeldIn(Messages', Tail(queue), a, h)
        /\ \A k : UnwrittenIn(Tail(queue), a, h, k) <=> Unwritten(k)
    BY <1>1, <1>2, <1>4, HeadEffect
  <2>3. at'[c] = "called" /\ \A d \in Channel \ {c} : at'[d] = at[d] /\ holds'[d] = holds[d]
    BY <2>1 DEF Held, HeldIn
  <2> HIDE DEF a, h, n
  <2>4. queue' \in Seq(Messages') /\ Range(queue') = Range(Tail(queue)) \cup {n}
    <3>1. Tail(queue) \in Seq(Messages')
      BY <2>2 DEF HeldIn
    <3>2. n \in Messages'
      BY <1>1
    <3>3. \A s \in Seq(Messages'), e \in Messages' :
              Append(s, e) \in Seq(Messages') /\ Range(Append(s, e)) = Range(s) \cup {e}
      BY RangeOfAppend
    <3>4. /\ Append(Tail(queue), n) \in Seq(Messages')
          /\ Range(Append(Tail(queue), n)) = Range(Tail(queue)) \cup {n}
      BY <3>1, <3>2, <3>3, Zenon
    <3> QED
      BY <2>1, <3>4
  <2>5. \A d \in Channel : at'[d] # "waiting"
    BY <1>2, <1>4, <2>3 DEF HeldIn
  <2>6. HeldIn(Messages', queue', at', holds')
    BY <2>1, <2>2, <2>4, <2>5 DEF HeldIn
  <2> QED
    BY <2>1, <2>2, <2>3, <2>4, <2>6, ZenonT(60) DEF n, Held, SameWriters, Unwritten, UnwrittenIn
<1> QED
  BY <1>3, <1>4

(* The message of chain c is enqueued again.                                 *)
LEMMA PutBackEffect ==
    ASSUME Held, NEW c \in Channel, at[c] \in {"called", "writing"}, PutBack(c),
           UNCHANGED accepted
    PROVE  /\ Held' /\ at'[c] = "none"
           /\ \A d \in Channel \ {c} : KeptOrGiven(d, at, holds, holds[c])
           /\ holds[c] \in Messages
           /\ \A k : Unwritten(k)' <=> k = holds[c] \/ Unwritten(k)
<1> DEFINE here == [at EXCEPT ![c] = "none"]
           have == [holds EXCEPT ![c] = 0]
<1>1. 0 \notin Messages /\ holds[c] \in Messages /\ Messages' = Messages
  BY DEF Messages, Held, HeldIn
<1>2. /\ here \in [Channel -> Stage] /\ have \in [Channel -> Messages \cup {0}]
      /\ here[c] = "none" /\ have[c] = 0
      /\ \A d \in Channel \ {c} : here[d] = at[d] /\ have[d] = holds[d]
  BY DEF Held, HeldIn, Stage
<1>3. Put(holds[c], here, have)
  BY DEF PutBack
<1> HIDE DEF here, have
<1>4. HeldIn(Messages, queue, here, have)
  BY <1>2 DEF Held, HeldIn
<1>5. /\ HeldIn(Messages, queue', at', holds')
      /\ \A d \in Channel : KeptOrGiven(d, here, have, holds[c])
      /\ \A k : UnwrittenIn(queue', at', holds', k)
                    <=> k = holds[c] \/ UnwrittenIn(queue, here, have, k)
  BY <1>1, <1>3, <1>4, PutEffect
<1>6. \A k : k = holds[c] \/ UnwrittenIn(queue, here, have, k) <=> k = holds[c] \/ Unwritten(k)
  BY <1>2 DEF UnwrittenIn, Unwritten
<1>7. Held' /\ \A k : Unwritten(k)' <=> k = holds[c] \/ Unwritten(k)
  BY <1>1, <1>5, <1>6 DEF Held, Unwritten
<1> QED
  BY <1>1, <1>2, <1>5, <1>7 DEF KeptOrGiven

(* Chain c writes its message.                                               *)
LEMMA OnSuccessEffect ==
    ASSUME Held, NEW c \in Channel, OnSuccess(c)
    PROVE  /\ Held' /\ at'[c] = "writing"
           /\ \A d \in Channel \ {c} : at'[d] = at[d]
           /\ holds[c] \in Messages
           /\ \A k : Unwritten(k)' => Unwritten(k)
           /\ \A k : Unwritten(k) => Unwritten(k)' \/ k = holds[c]
<1>1. at' = [at EXCEPT ![c] = "writing"] /\ UNCHANGED <<queue, holds, accepted>> /\ at[c] = "called"
  BY DEF OnSuccess
<1>2. /\ at' \in [Channel -> Stage] /\ at'[c] = "writing"
      /\ \A d \in Channel \ {c} : at'[d] = at[d]
  BY <1>1 DEF Held, HeldIn, Stage
<1>3. 0 \notin Messages /\ holds[c] \in Messages /\ Messages' = Messages
  BY <1>1 DEF Messages, Held, HeldIn
<1>4. HeldIn(Messages, queue', at', holds')
  BY <1>1, <1>2, <1>3 DEF Held, HeldIn
<1>5. Held'
  BY <1>3, <1>4 DEF Held
<1>6. ASSUME NEW k PROVE (Unwritten(k)' => Unwritten(k)) /\ (Unwritten(k) => Unwritten(k)' \/ k = holds[c])
  BY <1>1, <1>2 DEF Unwritten, UnwrittenIn
<1> QED
  BY <1>2, <1>3, <1>5, <1>6

(* The write of chain c throws.                                              *)
LEMMA WriteThrowsEffect ==
    ASSUME Held, NEW c \in Channel, WriteThrows(c)
    PROVE  /\ Held' /\ SameWriters /\ at'[c] = "none"
           /\ \A d \in Channel \ {c} : at'[d] = at[d]
           /\ holds[c] \in Messages
           /\ \A k : Unwritten(k)' => Unwritten(k)
           /\ \A k : Unwritten(k) => Unwritten(k)' \/ k = holds[c]
<1>1. /\ at' = [at EXCEPT ![c] = "none"] /\ holds' = [holds EXCEPT ![c] = 0]
      /\ UNCHANGED <<queue, accepted>> /\ at[c] = "called"
  BY DEF WriteThrows
<1>2. /\ at' \in [Channel -> Stage] /\ at'[c] = "none"
      /\ holds' \in [Channel -> Messages \cup {0}] /\ holds'[c] = 0
      /\ \A d \in Channel \ {c} : at'[d] = at[d] /\ holds'[d] = holds[d]
  BY <1>1 DEF Held, HeldIn, Stage
<1>3. 0 \notin Messages /\ holds[c] \in Messages /\ Messages' = Messages
  BY <1>1 DEF Messages, Held, HeldIn
<1>4. HeldIn(Messages, queue', at', holds')
  BY <1>1, <1>2, <1>3 DEF Held, HeldIn
<1>5. Held'
  BY <1>3, <1>4 DEF Held
<1>6. ASSUME NEW k PROVE (Unwritten(k)' => Unwritten(k)) /\ (Unwritten(k) => Unwritten(k)' \/ k = holds[c])
  BY <1>1, <1>2 DEF Unwritten, UnwrittenIn
<1> QED
  BY <1>1, <1>2, <1>3, <1>5, <1>6 DEF SameWriters

-----------------------------------------------------------------------------
(* The writes of the connections.                                            *)

LEMMA WritesSame ==
    ASSUME Writes, SameWriters, UNCHANGED writes
    PROVE  Writes'
<1>1. writes' \in [Channel -> Seq(Channel)]
  BY DEF Writes
<1>2. ASSUME NEW d \in Channel PROVE \A i \in 1..Len(writes[d]) : writes[d][i] \in Channel
  BY DEF Writes
<1>3. \A d \in Channel : \A i \in 1..Len(writes[d]) : at'[writes[d][i]] = "writing"
  BY <1>2 DEF Writes, SameWriters
<1>4. ASSUME NEW c \in Channel, at'[c] = "writing"
      PROVE  \E d \in Channel : \E i \in 1..Len(writes[d]) : writes[d][i] = c
  BY <1>4 DEF Writes, SameWriters
<1>5. \A d, e \in Channel : \A i \in 1..Len(writes[d]), j \in 1..Len(writes[e]) :
          writes[d][i] = writes[e][j] => d = e /\ i = j
  BY DEF Writes
<1> QED
  BY <1>1, <1>3, <1>4, <1>5 DEF Writes

LEMMA WritesAppend ==
    ASSUME Writes, NEW c \in Channel, NEW b \in Channel, at[c] # "writing", at'[c] = "writing",
           \A d \in Channel \ {c} : at'[d] = at[d],
           writes' = [writes EXCEPT ![b] = Append(@, c)]
    PROVE  Writes'
<1>1. writes' \in [Channel -> Seq(Channel)]
  BY DEF Writes
<1>2. ASSUME NEW d \in Channel PROVE Len(writes[d]) \in Nat /\ \A i \in 1..Len(writes[d]) : writes[d][i] \in Channel
  BY DEF Writes
<1>3. \A d \in Channel \ {b} : writes'[d] = writes[d]
  BY DEF Writes
<1>4. writes'[b] = Append(writes[b], c) /\ writes[b] \in Seq(Channel)
  BY DEF Writes
<1>5. /\ Len(writes'[b]) = Len(writes[b]) + 1
      /\ writes'[b][Len(writes[b]) + 1] = c
      /\ \A i \in 1..Len(writes[b]) : writes'[b][i] = writes[b][i]
  BY <1>4
<1>6. 1..Len(writes'[b]) = 1..Len(writes[b]) \cup {Len(writes[b]) + 1}
  BY <1>2, <1>5
<1>7. \A d \in Channel : \A i \in 1..Len(writes'[d]) :
         \/ i \in 1..Len(writes[d]) /\ writes'[d][i] = writes[d][i]
         \/ d = b /\ i = Len(writes[b]) + 1 /\ writes'[d][i] = c
  BY <1>3, <1>5, <1>6
<1>8. \A d \in Channel : \A i \in 1..Len(writes[d]) :
         i \in 1..Len(writes'[d]) /\ writes'[d][i] = writes[d][i]
  BY <1>3, <1>5, <1>6
<1>9. \A d \in Channel : \A i \in 1..Len(writes[d]) : writes[d][i] # c /\ at[writes[d][i]] = "writing"
  BY DEF Writes
<1>10. \A d \in Channel : \A i \in 1..Len(writes'[d]) : at'[writes'[d][i]] = "writing"
  BY <1>2, <1>7, <1>9
<1>11. ASSUME NEW k \in Channel, at'[k] = "writing"
       PROVE  \E d \in Channel : \E i \in 1..Len(writes'[d]) : writes'[d][i] = k
  <2>1. CASE k = c
    BY <1>5, <1>6, <2>1
  <2>2. CASE k # c
    <3>1. PICK d \in Channel : \E i \in 1..Len(writes[d]) : writes[d][i] = k
      BY <1>11, <2>2 DEF Writes
    <3> QED
      BY <1>8, <3>1
  <2> QED
    BY <2>1, <2>2
<1>12. \A d, e \in Channel : \A i \in 1..Len(writes[d]), j \in 1..Len(writes[e]) :
          writes[d][i] = writes[e][j] => d = e /\ i = j
  BY DEF Writes
<1>13. \A d, e \in Channel : \A i \in 1..Len(writes'[d]), j \in 1..Len(writes'[e]) :
          writes'[d][i] = writes'[e][j] => d = e /\ i = j
  BY <1>7, <1>9, <1>12
<1> QED
  BY <1>1, <1>10, <1>11, <1>13 DEF Writes

LEMMA WritesTail ==
    ASSUME Writes, NEW b \in Channel, writes[b] # <<>>, at'[Head(writes[b])] # "writing",
           \A d \in Channel \ {Head(writes[b])} : at'[d] = "writing" <=> at[d] = "writing",
           writes' = [writes EXCEPT ![b] = Tail(@)]
    PROVE  /\ Writes' /\ Head(writes[b]) \in Channel /\ at[Head(writes[b])] = "writing"
           /\ Len(writes[b]) \in Nat /\ Len(writes'[b]) = Len(writes[b]) - 1
           /\ 1 \in 1..Len(writes[b]) /\ writes[b][1] = Head(writes[b])
           /\ \A i \in 1..Len(writes'[b]) : i + 1 \in 1..Len(writes[b]) /\ writes'[b][i] = writes[b][i + 1]
           /\ \A d \in Channel \ {b} : writes'[d] = writes[d]
           /\ \A d \in Channel : \A i \in 1..Len(writes'[d]) : writes'[d][i] # Head(writes[b])
<1> DEFINE h == Head(writes[b])
<1>1. writes[b] \in Seq(Channel) /\ \A d \in Channel \ {b} : writes'[d] = writes[d]
  BY DEF Writes
<1>2. writes'[b] = Tail(writes[b])
  BY DEF Writes
<1>3. /\ Tail(writes[b]) \in Seq(Channel) /\ Len(writes[b]) \in Nat \ {0}
      /\ Len(Tail(writes[b])) = Len(writes[b]) - 1 /\ h = writes[b][1] /\ h \in Channel
  BY <1>1
<1>4. \A i \in 1..(Len(writes[b]) - 1) : Tail(writes[b])[i] = writes[b][i + 1]
  BY <1>1, <1>3
<1>5. writes' \in [Channel -> Seq(Channel)]
  BY <1>3 DEF Writes
<1>6. \A d \in Channel : \A i \in 1..Len(writes[d]) : writes[d][i] \in Channel /\ Len(writes[d]) \in Nat
  BY DEF Writes
<1>7. 1 \in 1..Len(writes[b])
  BY <1>3
<1>8. \A i \in 1..Len(writes'[b]) : i + 1 \in 1..Len(writes[b]) /\ writes'[b][i] = writes[b][i + 1] /\ i + 1 # 1
  <2> SUFFICES ASSUME NEW i \in 1..Len(writes'[b])
               PROVE  i + 1 \in 1..Len(writes[b]) /\ writes'[b][i] = writes[b][i + 1] /\ i + 1 # 1
    OBVIOUS
  <2>1. i \in 1..(Len(writes[b]) - 1)
    BY <1>2, <1>3
  <2>2. i + 1 \in 1..Len(writes[b]) /\ i + 1 # 1
    BY <1>3, <2>1
  <2> QED
    BY <1>2, <1>4, <2>1, <2>2
<1>9. \A i \in 1..Len(writes[b]) : i # 1 => i - 1 \in 1..Len(writes'[b]) /\ writes'[b][i - 1] = writes[b][i]
  <2> SUFFICES ASSUME NEW i \in 1..Len(writes[b]), i # 1
               PROVE  i - 1 \in 1..Len(writes'[b]) /\ writes'[b][i - 1] = writes[b][i]
    OBVIOUS
  <2>1. i - 1 \in 1..(Len(writes[b]) - 1) /\ (i - 1) + 1 = i
    BY <1>3
  <2>2. Tail(writes[b])[i - 1] = writes[b][(i - 1) + 1]
    BY <1>4, <2>1
  <2> QED
    BY <1>2, <1>3, <2>1, <2>2
<1>10. \A d, e \in Channel : \A i \in 1..Len(writes[d]), j \in 1..Len(writes[e]) :
          writes[d][i] = writes[e][j] => d = e /\ i = j
  BY DEF Writes
<1>11. \A d \in Channel : \A i \in 1..Len(writes[d]) : at[writes[d][i]] = "writing"
  BY DEF Writes
<1> HIDE DEF h
(* What is left of the writes, with its place before.                        *)
<1>12. \A d \in Channel : \A i \in 1..Len(writes'[d]) :
          \E j \in 1..Len(writes[d]) :
             /\ writes'[d][i] = writes[d][j] /\ writes[d][j] # h
             /\ j = IF d = b THEN i + 1 ELSE i
  <2> SUFFICES ASSUME NEW d \in Channel, NEW i \in 1..Len(writes'[d])
               PROVE  \E j \in 1..Len(writes[d]) :
                         /\ writes'[d][i] = writes[d][j] /\ writes[d][j] # h
                         /\ j = IF d = b THEN i + 1 ELSE i
    OBVIOUS
  <2>1. CASE d = b
    <3>1. i + 1 \in 1..Len(writes[b]) /\ writes'[b][i] = writes[b][i + 1] /\ i + 1 # 1
      BY <1>8, <2>1
    <3>2. writes[b][i + 1] # h
      BY <1>3, <1>7, <1>10, <3>1, SMTT(30)
    <3> QED
      BY <2>1, <3>1, <3>2
  <2>2. CASE d # b
    BY <1>1, <1>3, <1>7, <1>10, <2>2
  <2> QED
    BY <2>1, <2>2
<1>13. \A d \in Channel : \A i \in 1..Len(writes'[d]) : at'[writes'[d][i]] = "writing" /\ writes'[d][i] # h
  <2> SUFFICES ASSUME NEW d \in Channel, NEW i \in 1..Len(writes'[d])
               PROVE  at'[writes'[d][i]] = "writing" /\ writes'[d][i] # h
    OBVIOUS
  <2>1. PICK j \in 1..Len(writes[d]) : writes'[d][i] = writes[d][j] /\ writes[d][j] # h
    BY <1>12
  <2>2. writes[d][j] \in Channel \ {h} /\ at[writes[d][j]] = "writing"
    BY <1>6, <1>11, <2>1
  <2> QED
    BY <2>1, <2>2 DEF h
<1>14. ASSUME NEW k \in Channel, at'[k] = "writing"
       PROVE  \E d \in Channel : \E i \in 1..Len(writes'[d]) : writes'[d][i] = k
  <2>1. k # h /\ at[k] = "writing"
    BY <1>14 DEF h
  <2>0. PICK d \in Channel : \E i \in 1..Len(writes[d]) : writes[d][i] = k
    BY <2>1 DEF Writes
  <2>2. PICK i \in 1..Len(writes[d]) : writes[d][i] = k
    BY <2>0
  <2>3. CASE d = b
    <3>1. i # 1
      BY <1>3, <2>1, <2>2, <2>3
    <3> QED
      BY <1>9, <2>2, <2>3, <3>1, ZenonT(40)
  <2>4. CASE d # b
    BY <1>1, <2>2, <2>4
  <2> QED
    BY <2>3, <2>4
<1>15. \A i, j \in Nat : i + 1 = j + 1 => i = j
  OBVIOUS
<1>16. \A d \in Channel : \A i \in 1..Len(writes'[d]) : i \in Nat
  BY <1>5
<1>17. \A d, e \in Channel : \A i \in 1..Len(writes'[d]), j \in 1..Len(writes'[e]) :
          writes'[d][i] = writes'[e][j] => d = e /\ i = j
  <2> SUFFICES ASSUME NEW d \in Channel, NEW e \in Channel,
                      NEW i \in 1..Len(writes'[d]), NEW j \in 1..Len(writes'[e]),
                      writes'[d][i] = writes'[e][j]
               PROVE  d = e /\ i = j
    OBVIOUS
  <2>1. PICK k \in 1..Len(writes[d]) : writes'[d][i] = writes[d][k] /\ k = IF d = b THEN i + 1 ELSE i
    BY <1>12
  <2>2. PICK l \in 1..Len(writes[e]) : writes'[e][j] = writes[e][l] /\ l = IF e = b THEN j + 1 ELSE j
    BY <1>12
  <2>3. d = e /\ k = l
    BY <1>10, <2>1, <2>2
  <2>4. i \in Nat /\ j \in Nat
    BY <1>16
  <2>5. CASE d = b
    <3>1. k = i + 1 /\ l = j + 1
      BY <2>1, <2>2, <2>3, <2>5
    <3> QED
      BY <1>15, <2>3, <2>4, <3>1
  <2>6. CASE d # b
    BY <2>1, <2>2, <2>3, <2>6
  <2> QED
    BY <2>5, <2>6
<1>18. Writes'
  <2>1. \A d \in Channel : \A i \in 1..Len(writes'[d]) : at'[writes'[d][i]] = "writing"
    BY <1>13
  <2>2. \A k \in Channel : at'[k] = "writing" =>
           \E d \in Channel : \E i \in 1..Len(writes'[d]) : writes'[d][i] = k
    BY <1>14
  <2> QED
    BY <1>5, <1>17, <2>1, <2>2, Zenon DEF Writes
<1>19. at[h] = "writing"
  BY <1>3, <1>7, <1>11
<1> QED
  BY <1>1, <1>2, <1>3, <1>7, <1>8, <1>13, <1>18, <1>19 DEF h

-----------------------------------------------------------------------------
(* What is pending.                                                          *)

LEMMA OnItsWayKept ==
    ASSUME SameWriters
    PROVE  \A k : OnItsWay(k)' <=> OnItsWay(k)
BY DEF SameWriters, OnItsWay

(* A message with number Len(accepted) + 1 arrives, and goes to the queue or to *)
(* a callback.                                                               *)
LEMMA NewMessage ==
    ASSUME LinkInv, NEW kind \in Kind, accepted' = Append(accepted, kind), SameWriters,
           \A k : Unwritten(k)' <=> k = Len(accepted) + 1 \/ Unwritten(k),
           UNCHANGED <<writes, newest, settled, thrown>>, ~misled' => ~misled
    PROVE  /\ Writes' /\ NoneLost' /\ WrittenIsOld' /\ NoneOvertaken'
           /\ \A k : Pending(k)' <=> k = Len(accepted) + 1 \/ Pending(k)
<1> DEFINE n == Len(accepted) + 1
<1>1. Writes'
  BY WritesSame DEF LinkInv
<1>2. \A k : Pending(k)' <=> k = n \/ Pending(k)
  <2> SUFFICES ASSUME NEW k PROVE Pending(k)' <=> k = n \/ Pending(k)
    OBVIOUS
  <2> QED
    BY OnItsWayKept DEF Pending
<1>3. /\ Messages \subseteq Nat \ {0} /\ Messages' = Messages \cup {n} /\ n \in Nat
      /\ \A m \in Messages : m < n
      /\ Statuses' = Statuses \cup IF kind = "hello" THEN {} ELSE {n}
  BY Numbering DEF LinkInv, Typed
<1>4. WrittenIsOld'
  BY DEF LinkInv, WrittenIsOld, SameWriters
<1> HIDE DEF n
<1>5. NoneLost'
  <2> SUFFICES ASSUME NEW m \in Messages' PROVE m \in Done' \/ Pending(m)'
    BY DEF NoneLost
  <2> QED
    BY <1>2, <1>3 DEF LinkInv, NoneLost
<1>6. NoneOvertaken'
  <2> SUFFICES ASSUME ~misled', NEW m \in Statuses', NEW k \in Statuses', Pending(m)', k > m
               PROVE  Pending(k)' \/ k <= newest'
    BY DEF NoneOvertaken
  <2>1. CASE k = n
    BY <1>2, <2>1
  <2>2. CASE k # n
    <3>1. k \in Statuses /\ k \in Messages /\ k < n
      BY <1>3, <2>2 DEF Statuses
    <3>2. m # n
      BY <1>3, <3>1
    <3>3. m \in Statuses /\ Pending(m)
      BY <1>2, <1>3, <3>2
    <3> QED
      BY <1>2, <3>1, <3>3 DEF LinkInv, NoneOvertaken
  <2> QED
    BY <2>1, <2>2
<1> QED
  BY <1>1, <1>2, <1>4, <1>5, <1>6 DEF n

(* No message arrives, and what is no longer pending is done and old.          *)
LEMMA NoNewMessage ==
    ASSUME LinkInv, UNCHANGED <<accepted, announced>>, ~misled' => ~misled,
           newest' \in Nat, newest <= newest', Done \subseteq Done',
           \A k : Pending(k)' => Pending(k),
           \A k \in Messages : Pending(k) => Pending(k)' \/ (k <= newest' /\ k \in Done')
    PROVE  NoneLost' /\ LastIsRight' /\ NoneOvertaken'
<1>1. Messages' = Messages /\ Statuses' = Statuses /\ Statuses \subseteq Messages
  BY DEF Messages, Statuses
<1>2. Messages \subseteq Nat \ {0} /\ newest \in Nat
  BY DEF Messages, LinkInv, Typed
<1>3. NoneLost'
  <2> SUFFICES ASSUME NEW m \in Messages PROVE m \in Done' \/ Pending(m)'
    BY <1>1 DEF NoneLost
  <2> QED
    BY DEF LinkInv, NoneLost
<1>4. LastIsRight'
  <2> SUFFICES ASSUME ~misled', NEW m \in Statuses, Pending(m)', \A k \in Statuses : k <= m
               PROVE  announced = (accepted[m] = "attached")
    BY <1>1 DEF LastIsRight
  <2> QED
    BY DEF LinkInv, LastIsRight
<1>5. NoneOvertaken'
  <2> SUFFICES ASSUME ~misled', NEW m \in Statuses, NEW k \in Statuses, Pending(m)', k > m
               PROVE  Pending(k)' \/ k <= newest'
    BY <1>1 DEF NoneOvertaken
  <2>1. Pending(k) \/ k <= newest
    BY DEF LinkInv, NoneOvertaken
  <2>2. CASE Pending(k)
    BY <1>1, <2>2
  <2>3. CASE k <= newest
    BY <1>1, <1>2, <2>3
  <2> QED
    BY <2>1, <2>2, <2>3
<1> QED
  BY <1>3, <1>4, <1>5

(* What the writes of a connection leave to know depends on them alone.       *)
LEMMA WillKnowKept ==
    ASSUME NEW c, WillKnow(c), announced' = announced, attached'[c] = attached[c],
           writes'[c] = writes[c],
           \A i \in 1..Len(writes[c]) : /\ holds'[writes[c][i]] = holds[writes[c][i]]
                                       /\ accepted'[holds[writes[c][i]]] = accepted[holds[writes[c][i]]]
    PROVE  WillKnow(c)'
<1>1. \A i \in 1..Len(writes[c]) : accepted'[Written(c, i)'] = accepted[Written(c, i)]
  BY DEF Written
<1> QED
  BY <1>1 DEF WillKnow

(* The messages of writes are numbers of accepted messages.                   *)
LEMMA WrittenTyped ==
    ASSUME Typed, Held, Writes, NEW c \in Channel, NEW i \in 1..Len(writes[c])
    PROVE  /\ writes[c][i] \in Channel /\ at[writes[c][i]] = "writing"
           /\ Written(c, i) \in Messages /\ accepted[Written(c, i)] \in Kind
<1>1. writes[c][i] \in Channel /\ at[writes[c][i]] = "writing"
  BY DEF Writes
<1>2. Written(c, i) \in Messages
  BY <1>1 DEF Held, HeldIn, Written
<1>3. \A m \in Messages : accepted[m] \in Kind
  BY DEF Typed, Messages
<1> QED
  BY <1>1, <1>2, <1>3

-----------------------------------------------------------------------------
(* The steps.                                                                *)

(* A step that leaves messages, callbacks and writes alone.                   *)
LEMMA QuietStep ==
    ASSUME LinkInv, UNCHANGED <<queue, at, holds, writes, accepted, settled, thrown, newest, misled, announced>>,
           Typed', Young',
           \A c \in Channel : phase'[c] = "read" => phase[c] = "read",
           \A c \in Channel : c = channel' /\ link'[c] = "up" /\ phase'[c] = "up" =>
               c = channel /\ link[c] = "up" /\ phase[c] = "up" /\ attached'[c] = attached[c]
    PROVE  LinkInv'
<1>1. Messages' = Messages /\ Statuses' = Statuses
  BY DEF Messages, Statuses
<1>2. Held'
  BY <1>1 DEF LinkInv, Held
<1>3. SameWriters
  BY DEF SameWriters
<1>4. Writes' /\ WrittenIsOld'
  BY <1>3, WritesSame DEF LinkInv, WrittenIsOld
<1>5. \A k : (Unwritten(k)' <=> Unwritten(k)) /\ (Pending(k)' <=> Pending(k))
  BY DEF Unwritten, Pending, OnItsWay
<1>6. NoneLost' /\ LastIsRight' /\ NoneOvertaken'
  <2>1. newest \in Nat
    BY DEF LinkInv, Typed, Messages
  <2> QED
    BY <1>5, <2>1, NoNewMessage
<1>7. ReadIsRight'
  BY DEF LinkInv, ReadIsRight
<1>8. ChannelKnows'
  <2> SUFFICES ASSUME ~misled, NEW c \in Channel, c = channel', link'[c] = "up", phase'[c] = "up",
                      \A m \in Statuses : ~Unwritten(m)
               PROVE  WillKnow(c)'
    BY <1>1, <1>5 DEF ChannelKnows
  <2>1. WillKnow(c)
    BY DEF LinkInv, ChannelKnows
  <2> QED
    BY <2>1, WillKnowKept
<1> QED
  BY <1>2, <1>4, <1>6, <1>7, <1>8 DEF LinkInv

LEMMA ConnectingStep ==
    ASSUME LinkInv, TryToConnect \/ ConnectFails \/ DeviceSettles
    PROVE  LinkInv'
<1> USE DEF TryToConnect, ConnectFails, DeviceSettles, connecting, handlers, callbacks, network, device,
            bounds, past
<1>1. /\ UNCHANGED <<queue, at, holds, writes, accepted, settled, thrown, newest, misled, announced>>
      /\ UNCHANGED <<phase, channel, link, attached>>
  OBVIOUS
<1>2. connected' \in BOOLEAN /\ trying' \in BOOLEAN /\ running' \in BOOLEAN
  BY Zenon DEF LinkInv, Typed
<1>3. UNCHANGED <<registered, deaf, events, crashes>>
  OBVIOUS
<1>4. Typed'
  BY <1>1, <1>2, <1>3 DEF LinkInv, Typed, Messages
<1>5. Young'
  BY <1>1 DEF LinkInv, Young
<1> QED
  BY <1>1, <1>4, <1>5, QuietStep

LEMMA OpenStep ==
    ASSUME LinkInv, NEW c \in Channel, Open(c)
    PROVE  LinkInv'
<1> USE DEF Open, handlers, callbacks, network, device, bounds, past
<1>1. /\ UNCHANGED <<queue, at, holds, writes, accepted, settled, thrown, newest, misled, announced>>
      /\ UNCHANGED <<connected, registered, channel, deaf, attached, running, events, crashes>>
      /\ trying' = FALSE
  OBVIOUS
<1>2. phase' = [phase EXCEPT ![c] = "open"] /\ link' = [link EXCEPT ![c] = "up"] /\ phase[c] = "unused"
  OBVIOUS
<1>3. /\ phase' \in [Channel -> Phase] /\ link' \in [Channel -> {"none", "up", "dead", "down"}]
      /\ phase'[c] = "open" /\ \A d \in Channel \ {c} : phase'[d] = phase[d] /\ link'[d] = link[d]
  BY <1>2 DEF LinkInv, Typed, Phase
<1>4. Typed'
  BY <1>1, <1>3 DEF LinkInv, Typed, Messages
<1>5. Young'
  BY <1>1, <1>2, <1>3 DEF LinkInv, Young, Early
<1> QED
  BY <1>1, <1>3, <1>4, <1>5, QuietStep

LEMMA HandlerStep ==
    ASSUME LinkInv, NEW c \in Channel, Observe(c) \/ Lose(c) \/ Leave(c)
    PROVE  LinkInv'
<1>1. /\ UNCHANGED <<queue, at, holds, writes, accepted, settled, thrown, newest, misled, announced>>
      /\ UNCHANGED <<trying, attached, running, events, crashes, link>>
  BY DEF Observe, Lose, Leave, connecting, handlers, callbacks, network, device, bounds, past
<1>2. connected' \in BOOLEAN /\ registered' \in BOOLEAN /\ deaf' \in BOOLEAN
  BY Zenon DEF Observe, Lose, Leave, connecting, LinkInv, Typed
<1>3. channel' \in {0, channel}
  BY DEF Observe, Lose, Leave
<1>4. \/ phase[c] = "open" /\ phase' = [phase EXCEPT ![c] = "observed"]
      \/ phase[c] = "up" /\ phase' = [phase EXCEPT ![c] = "leaving"]
      \/ phase[c] = "leaving" /\ phase' = [phase EXCEPT ![c] = "gone"]
  BY DEF Observe, Lose, Leave
<1>5. /\ phase' \in [Channel -> Phase] /\ phase'[c] \in {"observed", "leaving", "gone"}
      /\ \A d \in Channel \ {c} : phase'[d] = phase[d]
      /\ phase'[c] \in Early => phase[c] \in Early
  BY <1>4 DEF LinkInv, Typed, Phase, Early
<1>6. Typed'
  BY <1>1, <1>2, <1>3, <1>5 DEF LinkInv, Typed, Messages
<1>7. Young'
  <2>1. 0 \notin Channel
    BY LinkAssumption
  <2>2. \A d \in Channel : phase'[d] \in Early => phase[d] \in Early
    BY <1>5
  <2>3. \A d \in Channel : phase[d] \in Early => phase'[d] \in Early
    BY <1>4, <1>5 DEF Early
  <2> QED
    BY <1>1, <1>3, <2>1, <2>2, <2>3 DEF LinkInv, Young
<1>8. \A d \in Channel : d = channel' /\ link'[d] = "up" /\ phase'[d] = "up" =>
          d = channel /\ link[d] = "up" /\ phase[d] = "up" /\ attached'[d] = attached[d]
  BY <1>1, <1>3, <1>5, LinkAssumption
<1> QED
  BY <1>1, <1>5, <1>6, <1>7, <1>8, QuietStep

LEMMA BreakStep ==
    ASSUME LinkInv, NEW c \in Channel, Break(c) \/ Notice(c)
    PROVE  LinkInv'
<1>1. /\ UNCHANGED <<queue, at, holds, writes, accepted, settled, thrown, newest, misled, announced>>
      /\ UNCHANGED <<trying, connected, registered, channel, phase, deaf, running, events, crashes>>
  BY DEF Break, Notice, connecting, handlers, callbacks, network, device, bounds, past
<1>2. /\ attached' \in [Channel -> BOOLEAN] /\ \A d \in Channel \ {c} : attached'[d] = attached[d]
      /\ attached'[c] \in {FALSE, attached[c]}
  BY Zenon DEF Break, Notice, LinkInv, Typed
<1>3. link' = [link EXCEPT ![c] = "dead"] \/ link' = [link EXCEPT ![c] = "down"]
  BY DEF Break, Notice
<1>4. /\ link' \in [Channel -> {"none", "up", "dead", "down"}] /\ link'[c] # "up"
      /\ \A d \in Channel \ {c} : link'[d] = link[d]
  BY <1>3 DEF LinkInv, Typed
<1>5. Typed'
  BY <1>1, <1>2, <1>4 DEF LinkInv, Typed, Messages
<1>6. Young'
  BY <1>1, <1>2 DEF LinkInv, Young
<1> QED
  BY <1>1, <1>2, <1>4, <1>5, <1>6, QuietStep

(* The device fires an event, which is the last of its kind.                  *)
LEMMA DeviceEventStep ==
    ASSUME LinkInv, DeviceEvent
    PROVE  LinkInv'
<1> DEFINE n == Len(accepted) + 1
           kind == IF announced THEN "detached" ELSE "attached"
<1>1. /\ UNCHANGED <<connected, trying, phase, registered, channel, deaf, link, writes, attached, settled, thrown,
                    running, crashes, newest>>
      /\ events' = events + 1 /\ Accept(kind)
  BY DEF DeviceEvent, connecting, handlers, network
<1>2. announced' \in BOOLEAN /\ misled' \in BOOLEAN /\ (announced' <=> ~announced)
      /\ (misled' <=> misled \/ \E c \in Channel : phase[c] = "read")
  BY Zenon DEF DeviceEvent
<1>3. kind \in Kind /\ kind # "hello" /\ announced' = (kind = "attached")
  <2>1. kind \in Kind /\ kind # "hello"
    BY DEF Kind
  <2>2. announced \in BOOLEAN
    BY DEF LinkInv, Typed
  <2>3. CASE announced = TRUE
    <3>1. announced' = FALSE
      BY <1>2, <2>3
    <3>2. kind = "detached"
      BY <2>3
    <3> QED
      BY <2>1, <3>1, <3>2
  <2>4. CASE announced = FALSE
    <3>1. announced' = TRUE
      BY <1>2, <2>4
    <3>2. kind = "attached"
      BY <2>4
    <3> QED
      BY <2>1, <3>1, <3>2
  <2> QED
    BY <2>1, <2>2, <2>3, <2>4
<1>4. accepted' = Append(accepted, kind)
  BY <1>1 DEF Accept
<1>5. /\ Held' /\ SameWriters
      /\ \A d \in Channel : at[d] = "none" => at'[d] = "none"
      /\ \A k : Unwritten(k)' <=> k = n \/ Unwritten(k)
  BY <1>1, <1>3, AcceptEffect DEF LinkInv
<1>6. /\ Writes' /\ NoneLost' /\ WrittenIsOld' /\ NoneOvertaken'
      /\ \A k : Pending(k)' <=> k = n \/ Pending(k)
  BY <1>1, <1>2, <1>3, <1>4, <1>5, NewMessage
<1>7. /\ accepted' \in Seq(Kind) /\ n \in Nat /\ Messages' = Messages \cup {n} /\ n \notin Messages
      /\ Statuses' = Statuses \cup {n} /\ accepted'[n] = kind
      /\ \A m \in Messages : m < n
  BY <1>3, <1>4, Numbering DEF LinkInv, Typed
<1> HIDE DEF n, kind
<1>8. Typed'
  <2>1. events' \in Nat
    BY <1>1 DEF LinkInv, Typed
  <2>2. settled' \subseteq Messages' /\ thrown' \subseteq Messages' /\ newest' \in Messages' \cup {0}
    BY <1>1, <1>7 DEF LinkInv, Typed
  <2> QED
    BY <1>1, <1>2, <1>7, <2>1, <2>2 DEF LinkInv, Typed
<1>9. Young'
  BY <1>1, <1>5 DEF LinkInv, Young
<1>10. ReadIsRight'
  BY <1>1, <1>2 DEF ReadIsRight
<1>11. LastIsRight'
  <2> SUFFICES ASSUME NEW m \in Statuses', \A k \in Statuses' : k <= m
               PROVE  announced' = (accepted'[m] = "attached")
    BY DEF LastIsRight
  <2>1. m = n
    <3> SUFFICES ASSUME m # n PROVE FALSE
      OBVIOUS
    <3>1. m \in Messages /\ m < n /\ n <= m /\ m \in Nat
      BY <1>7 DEF Statuses, Messages
    <3> QED
      BY <1>7, <3>1
  <2> QED
    BY <1>3, <1>7, <2>1
<1>12. ChannelKnows'
  BY <1>5, <1>7 DEF ChannelKnows
<1> QED
  BY <1>5, <1>6, <1>8, <1>9, <1>10, <1>11, <1>12 DEF LinkInv

(* The handler of a new connection announces the node it has read.            *)
LEMMA SendNodesStep ==
    ASSUME LinkInv, NEW c \in Channel, SendNodes(c)
    PROVE  LinkInv'
<1> DEFINE n == Len(accepted) + 1
<1>1. /\ UNCHANGED <<connected, trying, registered, channel, deaf, link, writes, attached, settled, thrown,
                    running, announced, events, crashes, newest, misled>>
      /\ Accept("attached") /\ phase[c] = "read" /\ phase' = [phase EXCEPT ![c] = "up"]
  BY DEF SendNodes, connecting, network, device, bounds
<1>2. accepted' = Append(accepted, "attached") /\ "attached" \in Kind
  BY <1>1 DEF Accept, Kind
<1>3. /\ Held' /\ SameWriters
      /\ \A d \in Channel : at[d] = "none" => at'[d] = "none"
      /\ \A k : Unwritten(k)' <=> k = n \/ Unwritten(k)
  BY <1>1, <1>2, AcceptEffect DEF LinkInv
<1>4. /\ Writes' /\ NoneLost' /\ WrittenIsOld' /\ NoneOvertaken'
      /\ \A k : Pending(k)' <=> k = n \/ Pending(k)
  BY <1>1, <1>2, <1>3, NewMessage
<1>5. /\ accepted' \in Seq(Kind) /\ n \in Nat /\ Messages' = Messages \cup {n} /\ n \notin Messages
      /\ Statuses' = Statuses \cup {n} /\ accepted'[n] = "attached"
      /\ \A m \in Messages : m < n
  BY <1>2, Numbering DEF LinkInv, Typed
<1> HIDE DEF n
<1>6. /\ phase' \in [Channel -> Phase] /\ phase'[c] = "up"
      /\ \A d \in Channel \ {c} : phase'[d] = phase[d]
  BY <1>1 DEF LinkInv, Typed, Phase
<1>7. Typed'
  <2>1. settled' \subseteq Messages' /\ thrown' \subseteq Messages' /\ newest' \in Messages' \cup {0}
    BY <1>1, <1>5 DEF LinkInv, Typed
  <2> QED
    BY <1>1, <1>5, <1>6, <2>1 DEF LinkInv, Typed
<1>8. Young'
  BY <1>1, <1>3, <1>6 DEF LinkInv, Young, Early
<1>9. ReadIsRight'
  BY <1>1, <1>6 DEF LinkInv, ReadIsRight
<1>10. LastIsRight'
  <2> SUFFICES ASSUME ~misled', NEW m \in Statuses', \A k \in Statuses' : k <= m
               PROVE  announced' = (accepted'[m] = "attached")
    BY DEF LastIsRight
  <2>1. m = n
    <3> SUFFICES ASSUME m # n PROVE FALSE
      OBVIOUS
    <3>1. m \in Messages /\ m < n /\ n <= m /\ m \in Nat
      BY <1>5 DEF Statuses, Messages
    <3> QED
      BY <1>5, <3>1
  <2>2. announced = TRUE
    BY <1>1 DEF LinkInv, ReadIsRight
  <2> QED
    BY <1>1, <1>5, <2>1, <2>2
<1>11. ChannelKnows'
  BY <1>3, <1>5 DEF ChannelKnows
<1> QED
  BY <1>3, <1>4, <1>7, <1>8, <1>9, <1>10, <1>11 DEF LinkInv

(* The handler of a new connection starts a chain and says hello.             *)
LEMMA AddChannelStep ==
    ASSUME LinkInv, NEW c \in Channel, AddChannel(c)
    PROVE  LinkInv'
<1> DEFINE n == Len(accepted) + 1
<1>1. /\ UNCHANGED <<connected, trying, registered, link, writes, attached, settled, thrown,
                    running, announced, events, crashes, newest>>
      /\ phase[c] = "observed" /\ channel' = c /\ deaf' = FALSE
      /\ phase' = [phase EXCEPT ![c] = IF running THEN "read" ELSE "up"]
      /\ accepted' = Append(accepted, "hello") /\ Begin(c)
  BY DEF AddChannel, connecting, network, device, bounds
<1>2. misled' \in BOOLEAN /\ (misled' <=> misled \/ running # announced)
  BY Zenon DEF AddChannel
<1>3. "hello" \in Kind /\ at[c] = "none" /\ writes[c] = <<>> /\ attached[c] = FALSE
  BY <1>1 DEF Kind, LinkInv, Young, Early
<1>4. /\ Held' /\ SameWriters
      /\ \A d \in Channel \ {c} : at[d] = "none" => at'[d] = "none"
      /\ \A k : Unwritten(k)' <=> k = n \/ Unwritten(k)
  BY <1>1, <1>3, BeginEffect DEF LinkInv
<1>5. /\ Writes' /\ NoneLost' /\ WrittenIsOld' /\ NoneOvertaken'
      /\ \A k : Pending(k)' <=> k = n \/ Pending(k)
  BY <1>1, <1>2, <1>3, <1>4, NewMessage
<1>6. /\ accepted' \in Seq(Kind) /\ n \in Nat /\ Messages' = Messages \cup {n} /\ n \notin Messages
      /\ Statuses' = Statuses
      /\ \A m \in Messages : accepted'[m] = accepted[m]
  BY <1>1, <1>3, Numbering DEF LinkInv, Typed
<1> HIDE DEF n
<1>7. /\ phase' \in [Channel -> Phase] /\ phase'[c] \in {"read", "up"}
      /\ phase'[c] = "read" => running
      /\ \A d \in Channel \ {c} : phase'[d] = phase[d]
  BY <1>1 DEF LinkInv, Typed, Phase
<1>8. Typed'
  <2>1. settled' \subseteq Messages' /\ thrown' \subseteq Messages' /\ newest' \in Messages' \cup {0}
    BY <1>1, <1>6 DEF LinkInv, Typed
  <2> QED
    BY <1>1, <1>2, <1>6, <1>7, <2>1 DEF LinkInv, Typed
<1>9. Young'
  BY <1>1, <1>4, <1>7 DEF LinkInv, Young, Early
<1>10. ReadIsRight'
  <2> SUFFICES ASSUME ~misled', NEW d \in Channel, phase'[d] = "read" PROVE announced = TRUE
    BY <1>1 DEF ReadIsRight
  <2>1. CASE d = c
    BY <1>2, <1>7, <2>1 DEF LinkInv, Typed
  <2>2. CASE d # c
    BY <1>2, <1>7, <2>2 DEF LinkInv, ReadIsRight
  <2> QED
    BY <2>1, <2>2
<1>11. LastIsRight'
  <2> SUFFICES ASSUME ~misled', NEW m \in Statuses, Pending(m)', \A k \in Statuses : k <= m
               PROVE  announced = (accepted'[m] = "attached")
    BY <1>1, <1>6 DEF LastIsRight
  <2>1. m \in Messages
    BY DEF Statuses
  <2>2. Pending(m)
    BY <1>5, <1>6, <2>1
  <2> QED
    BY <1>2, <1>6, <2>1, <2>2 DEF LinkInv, LastIsRight
<1>12. ChannelKnows'
  <2> SUFFICES ASSUME ~misled', phase'[c] = "up" PROVE WillKnow(c)'
    BY <1>1 DEF ChannelKnows
  <2>1. announced' = FALSE
    BY <1>1, <1>2, <1>7 DEF LinkInv, Typed
  <2>2. attached'[c] = FALSE /\ Len(writes'[c]) = 0
    BY <1>1, <1>3
  <2>3. \A i \in 1..Len(writes'[c]) : FALSE
    BY <2>2
  <2> QED
    BY <2>1, <2>2, <2>3 DEF WillKnow
<1> QED
  BY <1>4, <1>5, <1>8, <1>9, <1>10, <1>11, <1>12 DEF LinkInv

(* A callback finds no channel, and puts its message back.                    *)
LEMMA OnSuccessDisconnectedStep ==
    ASSUME LinkInv, NEW c \in Channel, OnSuccessDisconnected(c)
    PROVE  LinkInv'
<1>1. /\ UNCHANGED <<connected, trying, phase, registered, channel, deaf, link, writes, attached, settled, thrown,
                    running, announced, events, crashes, accepted, newest, misled>>
      /\ at[c] = "called" /\ channel = 0 /\ PutBack(c)
  BY DEF OnSuccessDisconnected, connecting, handlers, network, device, bounds, past
<1>2. /\ Held' /\ at'[c] = "none"
      /\ \A d \in Channel \ {c} : KeptOrGiven(d, at, holds, holds[c])
      /\ \A k : Unwritten(k)' <=> k = holds[c] \/ Unwritten(k)
  BY <1>1, PutBackEffect DEF LinkInv
<1>3. SameWriters
  BY <1>1, <1>2 DEF SameWriters, KeptOrGiven
<1>4. Writes' /\ WrittenIsOld'
  BY <1>1, <1>3, WritesSame DEF LinkInv, WrittenIsOld, SameWriters
<1>5. \A k : Pending(k)' <=> Pending(k)
  <2> SUFFICES ASSUME NEW k PROVE Pending(k)' <=> Pending(k)
    OBVIOUS
  <2>1. Unwritten(holds[c])
    BY <1>1 DEF Unwritten, UnwrittenIn
  <2> QED
    BY <1>2, <1>3, <2>1, OnItsWayKept DEF Pending
<1>6. NoneLost' /\ LastIsRight' /\ NoneOvertaken'
  <2>1. newest \in Nat
    BY DEF LinkInv, Typed, Messages
  <2> QED
    BY <1>1, <1>5, <2>1, NoNewMessage
<1>7. Typed' /\ ReadIsRight'
  BY <1>1 DEF LinkInv, Typed, Messages, ReadIsRight
<1>8. Young'
  BY <1>1, <1>2 DEF LinkInv, Young, KeptOrGiven
<1>9. ChannelKnows'
  BY <1>1, LinkAssumption DEF ChannelKnows
<1> QED
  BY <1>2, <1>4, <1>6, <1>7, <1>8, <1>9 DEF LinkInv

(* A write to connection b fails, and its message is put back.                *)
LEMMA WriteFailsStep ==
    ASSUME LinkInv, NEW b \in Channel, WriteFails(b)
    PROVE  LinkInv'
<1> DEFINE h == Head(writes[b])
<1>1. /\ UNCHANGED <<connected, trying, phase, registered, channel, deaf, link, attached, settled, thrown,
                    running, announced, events, crashes, accepted, newest, misled>>
      /\ link[b] = "down" /\ writes[b] # <<>> /\ PutBack(h)
      /\ writes' = [writes EXCEPT ![b] = Tail(@)]
  BY DEF WriteFails, connecting, handlers, device, bounds, past
<1>2. h \in Channel /\ at[h] = "writing"
  <2>1. writes[b] \in Seq(Channel) /\ Len(writes[b]) \in Nat
    BY DEF LinkInv, Writes
  <2>2. 1 \in 1..Len(writes[b]) /\ h = writes[b][1]
    BY <1>1, <2>1
  <2> QED
    BY <2>2 DEF LinkInv, Writes
<1>3. /\ Held' /\ at'[h] = "none" /\ holds[h] \in Messages
      /\ \A d \in Channel \ {h} : KeptOrGiven(d, at, holds, holds[h])
      /\ \A k : Unwritten(k)' <=> k = holds[h] \/ Unwritten(k)
  BY <1>1, <1>2, PutBackEffect DEF LinkInv
<1>4. \A d \in Channel \ {h} : /\ at'[d] = "writing" <=> at[d] = "writing"
                               /\ at[d] = "writing" => holds'[d] = holds[d]
  BY <1>3 DEF KeptOrGiven
<1>5. /\ Writes' /\ \A d \in Channel \ {b} : writes'[d] = writes[d]
      /\ \A d \in Channel : \A i \in 1..Len(writes'[d]) : writes'[d][i] # h
  BY <1>1, <1>3, <1>4, WritesTail DEF LinkInv
<1> HIDE DEF h
<1>6. WrittenIsOld'
  BY <1>1, <1>3, <1>4 DEF LinkInv, WrittenIsOld
<1>7. \A k : Pending(k)' <=> Pending(k)
  <2> SUFFICES ASSUME NEW k PROVE Pending(k)' <=> Pending(k)
    OBVIOUS
  <2>1. OnItsWay(k)' => OnItsWay(k)
    BY <1>3, <1>4 DEF OnItsWay
  <2>2. OnItsWay(k) => OnItsWay(k)' \/ k = holds[h]
    BY <1>4 DEF OnItsWay
  <2>3. OnItsWay(holds[h])
    BY <1>2 DEF OnItsWay
  <2> QED
    BY <1>3, <2>1, <2>2, <2>3 DEF Pending
<1>8. NoneLost' /\ LastIsRight' /\ NoneOvertaken'
  <2>1. newest \in Nat
    BY DEF LinkInv, Typed, Messages
  <2> QED
    BY <1>1, <1>7, <2>1, NoNewMessage
<1>9. Typed' /\ ReadIsRight'
  BY <1>1 DEF LinkInv, Typed, Messages, ReadIsRight
<1>10. Young'
  <2>1. \A d \in Channel : phase[d] \in Early => d # b /\ d # h
    BY <1>1, <1>2 DEF LinkInv, Young
  <2> QED
    BY <1>1, <1>3, <1>5, <2>1 DEF LinkInv, Young, KeptOrGiven
<1>11. ChannelKnows'
  <2>1. Messages' = Messages /\ Statuses' = Statuses
    BY <1>1 DEF Messages, Statuses
  <2> SUFFICES ASSUME ~misled, NEW c \in Channel, c = channel, link[c] = "up", phase[c] = "up",
                      \A m \in Statuses : ~Unwritten(m)'
               PROVE  WillKnow(c)'
    BY <1>1, <2>1 DEF ChannelKnows
  <2>2. WillKnow(c)
    BY <1>3 DEF LinkInv, ChannelKnows
  <2>3. writes'[c] = writes[c]
    BY <1>1, <1>5
  <2>4. \A i \in 1..Len(writes[c]) : holds'[writes[c][i]] = holds[writes[c][i]]
    <3> SUFFICES ASSUME NEW i \in 1..Len(writes[c]) PROVE holds'[writes[c][i]] = holds[writes[c][i]]
      OBVIOUS
    <3>1. writes[c][i] \in Channel \ {h} /\ at[writes[c][i]] = "writing"
      BY <1>5, <2>3, WrittenTyped DEF LinkInv
    <3> QED
      BY <1>4, <3>1
  <2> QED
    BY <1>1, <2>2, <2>3, <2>4, WillKnowKept
<1> QED
  BY <1>3, <1>5, <1>6, <1>8, <1>9, <1>10, <1>11 DEF LinkInv

LEMMA NewerIs ==
    ASSUME Typed, NEW m \in Messages
    PROVE  Newer(m) \in Messages \cup {0} /\ Newer(m) \in Nat /\ newest <= Newer(m) /\ m <= Newer(m)
<1>1. newest \in Nat /\ m \in Nat /\ newest \in Messages \cup {0}
  BY DEF Typed, Messages
<1>2. CASE m > newest
  BY <1>1, <1>2 DEF Newer
<1>3. CASE ~(m > newest)
  BY <1>1, <1>3 DEF Newer
<1> QED
  BY <1>2, <1>3

(* A callback writes its message to the channel of the moment.  If it is an    *)
(* event, nothing else of the kind is left unwritten and nobody is misled, it  *)
(* is the last event of all.                                                  *)
LEMMA OnSuccessStep ==
    ASSUME LinkInv, NEW c \in Channel, OnSuccess(c)
    PROVE  LinkInv'
<1>0. PICK m, b : m = holds[c] /\ b = channel
  OBVIOUS
<1>1. /\ UNCHANGED <<connected, trying, phase, registered, channel, deaf, link, attached, settled, thrown,
                    running, announced, events, crashes, accepted, queue, holds>>
      /\ at[c] = "called" /\ channel # 0
      /\ writes' = [writes EXCEPT ![b] = Append(@, c)] /\ newest' = Newer(m)
  BY <1>0 DEF OnSuccess, connecting, handlers, device, bounds
<1>2. misled' \in BOOLEAN /\ (misled' <=> misled \/ m < newest)
  BY <1>0, Zenon DEF OnSuccess
<1>3. /\ Held' /\ at'[c] = "writing" /\ m \in Messages
      /\ \A d \in Channel \ {c} : at'[d] = at[d]
      /\ \A k : Unwritten(k)' => Unwritten(k)
      /\ \A k : Unwritten(k) => Unwritten(k)' \/ k = m
  BY <1>0, OnSuccessEffect DEF LinkInv
<1>4. b \in Channel
  BY <1>0, <1>1 DEF LinkInv, Typed
<1>5. Writes'
  BY <1>1, <1>3, <1>4, WritesAppend DEF LinkInv
<1>6. newest' \in Messages \cup {0} /\ newest' \in Nat /\ newest <= newest' /\ m <= newest'
  BY <1>1, <1>3, NewerIs DEF LinkInv
<1>7. /\ Messages' = Messages /\ Statuses' = Statuses /\ Messages \subseteq Nat \ {0}
      /\ Statuses \subseteq Messages /\ newest \in Nat
  BY <1>1 DEF Messages, Statuses, LinkInv, Typed
<1>8. WrittenIsOld'
  <2> SUFFICES ASSUME NEW d \in Channel, at'[d] = "writing" PROVE holds[d] <= newest'
    BY <1>1 DEF WrittenIsOld
  <2>1. CASE d = c
    BY <1>0, <1>6, <2>1
  <2>2. CASE d # c
    <3>1. holds[d] <= newest /\ holds[d] \in Nat
      BY <1>3, <1>7, <2>2 DEF LinkInv, WrittenIsOld, Held, HeldIn
    <3> QED
      BY <1>6, <1>7, <3>1
  <2> QED
    BY <2>1, <2>2
<1>9. \A k : Pending(k)' <=> Pending(k)
  <2> SUFFICES ASSUME NEW k PROVE Pending(k)' <=> Pending(k)
    OBVIOUS
  <2>1. OnItsWay(k)' => OnItsWay(k) \/ k = m
    BY <1>0, <1>1, <1>3 DEF OnItsWay
  <2>2. OnItsWay(k) => OnItsWay(k)'
    BY <1>0, <1>1, <1>3 DEF OnItsWay
  <2>3. Unwritten(m) /\ OnItsWay(m)'
    BY <1>0, <1>1, <1>3 DEF Unwritten, UnwrittenIn, OnItsWay
  <2> QED
    BY <1>3, <2>1, <2>2, <2>3 DEF Pending
<1>10. NoneLost' /\ LastIsRight' /\ NoneOvertaken'
  BY <1>1, <1>2, <1>6, <1>9, NoNewMessage
<1>11. Typed' /\ ReadIsRight'
  BY <1>1, <1>2, <1>6, <1>7 DEF LinkInv, Typed, ReadIsRight
<1>12. phase[b] \notin Early /\ phase[c] \notin Early
  BY <1>0, <1>1, <1>4 DEF LinkInv, Young
<1>13. \A d \in Channel \ {b} : writes'[d] = writes[d]
  BY <1>1, <1>4 DEF LinkInv, Writes
<1>14. Young'
  BY <1>1, <1>3, <1>12, <1>13 DEF LinkInv, Young
<1>15. ASSUME ~misled', link[b] = "up", phase[b] = "up", \A k \in Statuses : ~Unwritten(k)'
       PROVE  WillKnow(b)'
  <2>1. writes[b] \in Seq(Channel) /\ writes'[b] = Append(writes[b], c)
    BY <1>1, <1>4 DEF LinkInv, Writes
  <2>2. /\ Len(writes[b]) \in Nat /\ Len(writes'[b]) = Len(writes[b]) + 1
        /\ writes'[b][Len(writes[b]) + 1] = c
        /\ \A i \in 1..Len(writes[b]) : writes'[b][i] = writes[b][i]
    BY <2>1
  <2>3. /\ 1..Len(writes'[b]) = 1..Len(writes[b]) \cup {Len(writes[b]) + 1}
        /\ \A i \in 1..Len(writes[b]) : i < Len(writes[b]) + 1 /\ i \in Nat
    BY <2>2
  <2>0. PICK l : l = Len(writes[b]) + 1
    OBVIOUS
  <2>4. /\ l \in 1..Len(writes'[b]) /\ accepted'[Written(b, l)'] = accepted[m]
        /\ \A i \in 1..Len(writes[b]) : accepted'[Written(b, i)'] = accepted[Written(b, i)]
    <3>1. l \in 1..Len(writes'[b]) /\ writes'[b][l] = c
      BY <2>0, <2>2, <2>3
    <3>2. Written(b, l)' = m
      BY <1>0, <1>1, <3>1 DEF Written
    <3>3. \A i \in 1..Len(writes[b]) : Written(b, i)' = Written(b, i)
      BY <1>1, <2>2 DEF Written
    <3> QED
      BY <1>1, <3>1, <3>2, <3>3
  <2>5. CASE accepted[m] = "hello"
    <3>1. \A k \in Statuses : ~Unwritten(k)
      BY <1>3, <1>15, <2>5 DEF Statuses
    <3>2. WillKnow(b)
      BY <1>0, <1>2, <1>4, <1>15, <3>1 DEF LinkInv, ChannelKnows
    <3>3. CASE /\ attached[b] = announced
               /\ \A i \in 1..Len(writes[b]) : accepted[Written(b, i)] = "hello"
      <4>1. \A i \in 1..Len(writes'[b]) : accepted'[Written(b, i)'] = "hello"
        BY <2>0, <2>3, <2>4, <2>5, <3>3
      <4> QED
        BY <1>1, <3>3, <4>1 DEF WillKnow
    <3>4. CASE \E i \in 1..Len(writes[b]) :
                  /\ accepted[Written(b, i)] # "hello"
                  /\ announced = (accepted[Written(b, i)] = "attached")
                  /\ \A j \in 1..Len(writes[b]) : j > i => accepted[Written(b, j)] = "hello"
      <4>1. PICK i \in 1..Len(writes[b]) :
                  /\ accepted[Written(b, i)] # "hello"
                  /\ announced = (accepted[Written(b, i)] = "attached")
                  /\ \A j \in 1..Len(writes[b]) : j > i => accepted[Written(b, j)] = "hello"
        BY <3>4
      <4>2. i \in 1..Len(writes'[b]) /\ accepted'[Written(b, i)'] = accepted[Written(b, i)]
        BY <2>3, <2>4
      <4>3. \A j \in 1..Len(writes'[b]) : j > i => accepted'[Written(b, j)'] = "hello"
        BY <2>0, <2>3, <2>4, <2>5, <4>1
      <4> QED
        BY <1>1, <4>1, <4>2, <4>3 DEF WillKnow
    <3> QED
      BY <3>2, <3>3, <3>4 DEF WillKnow
  <2>6. CASE accepted[m] # "hello"
    <3>1. m \in Statuses /\ Pending(m)
      BY <1>0, <1>1, <1>3, <2>6 DEF Statuses, Pending, Unwritten, UnwrittenIn
    <3>2. \A k \in Statuses : k <= m
      <4> SUFFICES ASSUME NEW k \in Statuses, k > m PROVE FALSE
        <5>1. \A k \in Statuses : k \in Nat /\ m \in Nat
          BY <1>7, <3>1
        <5> QED
          BY <5>1
      <4>1. m \in Nat /\ k \in Nat /\ m >= newest /\ k > newest /\ k # m
        BY <1>2, <1>7, <1>15, <3>1
      <4>2. Pending(k)
        BY <1>2, <1>15, <1>7, <3>1, <4>1 DEF LinkInv, NoneOvertaken
      <4>3. ~Unwritten(k)
        BY <1>3, <1>15, <4>1
      <4>4. ~OnItsWay(k)
        BY <1>7, <4>1 DEF LinkInv, WrittenIsOld, OnItsWay
      <4> QED
        BY <4>2, <4>3, <4>4 DEF Pending
    <3>3. announced = (accepted[m] = "attached")
      BY <1>2, <1>15, <3>1, <3>2 DEF LinkInv, LastIsRight
    <3>4. \A j \in 1..Len(writes'[b]) : ~(j > l)
      BY <2>0, <2>2, <2>3
    <3> QED
      BY <1>1, <2>4, <2>6, <3>3, <3>4 DEF WillKnow
  <2> QED
    BY <2>5, <2>6
<1>16. ChannelKnows'
  BY <1>0, <1>1, <1>7, <1>15 DEF ChannelKnows
<1> QED
  BY <1>3, <1>5, <1>8, <1>10, <1>11, <1>14, <1>16 DEF LinkInv

(* A write throws: its message is lost, and counts as written.                *)
LEMMA WriteThrowsStep ==
    ASSUME LinkInv, NEW c \in Channel, WriteThrows(c)
    PROVE  LinkInv'
<1>0. PICK m, b : m = holds[c] /\ b = channel
  OBVIOUS
<1>1. /\ UNCHANGED <<connected, trying, phase, registered, deaf, queue, writes, settled, running, announced,
                    events, crashes, accepted, misled>>
      /\ at[c] = "called" /\ channel # 0
      /\ thrown' = thrown \cup {m} /\ newest' = Newer(m)
      /\ channel' \in {0, b}
  BY <1>0 DEF WriteThrows, connecting, device, bounds
<1>2. link' = [link EXCEPT ![b] = "down"] /\ attached' = [attached EXCEPT ![b] = FALSE]
  BY <1>0 DEF WriteThrows
<1>3. /\ Held' /\ SameWriters /\ at'[c] = "none" /\ m \in Messages
      /\ \A d \in Channel \ {c} : at'[d] = at[d]
      /\ \A k : Unwritten(k)' => Unwritten(k)
      /\ \A k : Unwritten(k) => Unwritten(k)' \/ k = m
  BY <1>0, WriteThrowsEffect DEF LinkInv
<1>4. b \in Channel
  BY <1>0, <1>1 DEF LinkInv, Typed
<1>5. newest' \in Messages \cup {0} /\ newest' \in Nat /\ newest <= newest' /\ m <= newest'
  BY <1>1, <1>3, NewerIs DEF LinkInv
<1>6. Messages' = Messages /\ Messages \subseteq Nat \ {0} /\ newest \in Nat
  BY <1>1 DEF Messages, LinkInv, Typed
<1>7. Writes'
  BY <1>1, <1>3, WritesSame DEF LinkInv
<1>8. WrittenIsOld'
  <2> SUFFICES ASSUME NEW d \in Channel, at'[d] = "writing" PROVE holds'[d] <= newest'
    BY DEF WrittenIsOld
  <2>1. holds'[d] = holds[d] /\ holds[d] <= newest /\ holds[d] \in Nat
    BY <1>3, <1>6 DEF LinkInv, WrittenIsOld, Held, HeldIn, SameWriters
  <2> QED
    BY <1>5, <1>6, <2>1
<1>9. \A k : Pending(k)' => Pending(k)
  <2> SUFFICES ASSUME NEW k PROVE Pending(k)' => Pending(k)
    OBVIOUS
  <2> QED
    BY <1>3, OnItsWayKept DEF Pending
<1>10. \A k \in Messages : Pending(k) => Pending(k)' \/ (k <= newest' /\ k \in Done')
  <2> SUFFICES ASSUME NEW k \in Messages, Pending(k), ~Pending(k)' PROVE k = m
    BY <1>1, <1>5
  <2> QED
    BY <1>3, OnItsWayKept DEF Pending
<1>11. NoneLost' /\ LastIsRight' /\ NoneOvertaken'
  BY <1>1, <1>5, <1>9, <1>10, NoNewMessage
<1>12. /\ attached' \in [Channel -> BOOLEAN] /\ link' \in [Channel -> {"none", "up", "dead", "down"}]
       /\ link'[b] = "down" /\ \A d \in Channel : attached'[d] = TRUE => attached[d] = TRUE
  BY <1>2, <1>4 DEF LinkInv, Typed
<1>13. Typed' /\ ReadIsRight'
  BY <1>0, <1>1, <1>3, <1>5, <1>6, <1>12 DEF LinkInv, Typed, ReadIsRight
<1>14. Young'
  <2>1. \A d \in Channel : d = channel' => d = channel
    BY <1>0, <1>1, LinkAssumption
  <2>2. \A d \in Channel : attached'[d] \in BOOLEAN
    BY <1>12
  <2>3. \A d \in Channel : at[d] = "none" => at'[d] = "none"
    BY <1>3
  <2> QED
    BY <1>1, <1>12, <2>1, <2>2, <2>3 DEF LinkInv, Young
<1>15. ChannelKnows'
  BY <1>1, <1>12, LinkAssumption DEF ChannelKnows
<1> QED
  BY <1>3, <1>7, <1>8, <1>11, <1>13, <1>14, <1>15 DEF LinkInv

(* The first write of connection b is complete, and the portal has handled its *)
(* message if the connection was up.                                         *)
LEMMA WriteSucceedsStep ==
    ASSUME LinkInv, NEW b \in Channel, WriteSucceeds(b)
    PROVE  LinkInv'
<1>0. PICK h, m : h = Head(writes[b]) /\ m = holds[h]
  OBVIOUS
<1>1. /\ UNCHANGED <<connected, trying, phase, registered, channel, deaf, link, thrown,
                    running, announced, events, crashes, accepted, newest, misled>>
      /\ writes[b] # <<>> /\ Dequeue(h) /\ settled' = settled \cup {m}
      /\ writes' = [writes EXCEPT ![b] = Tail(@)]
  BY <1>0 DEF WriteSucceeds, connecting, handlers, device, bounds, past
<1>2. h \in Channel /\ at[h] = "writing" /\ Len(writes[b]) \in Nat
  <2>1. writes[b] \in Seq(Channel) /\ Len(writes[b]) \in Nat
    BY DEF LinkInv, Writes
  <2>2. 1 \in 1..Len(writes[b]) /\ h = writes[b][1]
    BY <1>0, <1>1, <2>1
  <2> QED
    BY <2>1, <2>2 DEF LinkInv, Writes
<1>3. Messages' = Messages /\ Statuses' = Statuses /\ m \in Messages /\ newest \in Nat
  BY <1>0, <1>1, <1>2 DEF Messages, Statuses, LinkInv, Typed, Held, HeldIn
<1>4. /\ Held' /\ at'[h] \in {"waiting", "called"}
      /\ \A d \in Channel \ {h} : at'[d] = at[d] /\ holds'[d] = holds[d]
      /\ \A k : Unwritten(k)' <=> Unwritten(k)
  BY <1>1, <1>2, <1>3, DequeueEffect DEF LinkInv, Held, Unwritten
<1>5. /\ Writes' /\ Len(writes'[b]) = Len(writes[b]) - 1
      /\ 1 \in 1..Len(writes[b]) /\ writes[b][1] = h
      /\ \A i \in 1..Len(writes'[b]) : i + 1 \in 1..Len(writes[b]) /\ writes'[b][i] = writes[b][i + 1]
      /\ \A d \in Channel \ {b} : writes'[d] = writes[d]
      /\ \A d \in Channel : \A i \in 1..Len(writes'[d]) : writes'[d][i] # h
  <2>1. at'[Head(writes[b])] # "writing" /\ writes[b] # <<>> /\ Writes
    BY <1>0, <1>1, <1>4 DEF LinkInv
  <2>2. \A d \in Channel \ {Head(writes[b])} : at'[d] = "writing" <=> at[d] = "writing"
    BY <1>0, <1>4
  <2>3. writes' = [writes EXCEPT ![b] = Tail(@)]
    BY <1>1
  <2>4. /\ Writes' /\ Len(writes'[b]) = Len(writes[b]) - 1
        /\ 1 \in 1..Len(writes[b]) /\ writes[b][1] = Head(writes[b])
        /\ \A i \in 1..Len(writes'[b]) : i + 1 \in 1..Len(writes[b]) /\ writes'[b][i] = writes[b][i + 1]
        /\ \A d \in Channel \ {b} : writes'[d] = writes[d]
        /\ \A d \in Channel : \A i \in 1..Len(writes'[d]) : writes'[d][i] # Head(writes[b])
    BY <2>1, <2>2, <2>3, WritesTail
  <2> QED
    BY <1>0, <2>4, Zenon
<1>6. WrittenIsOld'
  BY <1>1, <1>4 DEF LinkInv, WrittenIsOld
<1>7. \A k : Pending(k)' => Pending(k)
  <2> SUFFICES ASSUME NEW k PROVE Pending(k)' => Pending(k)
    OBVIOUS
  <2>1. OnItsWay(k)' => OnItsWay(k)
    BY <1>4 DEF OnItsWay
  <2> QED
    BY <1>4, <2>1 DEF Pending
<1>8. \A k \in Messages : Pending(k) => Pending(k)' \/ (k <= newest' /\ k \in Done')
  <2> SUFFICES ASSUME NEW k \in Messages, Pending(k), ~Pending(k)' PROVE k <= newest /\ k = m
    BY <1>1
  <2>1. OnItsWay(k) /\ ~OnItsWay(k)'
    BY <1>4 DEF Pending
  <2>2. k = m
    BY <1>0, <1>4, <2>1 DEF OnItsWay
  <2> QED
    BY <2>1, <2>2 DEF LinkInv, WrittenIsOld, OnItsWay
<1>9. NoneLost' /\ LastIsRight' /\ NoneOvertaken'
  BY <1>1, <1>3, <1>7, <1>8, NoNewMessage
<1>10. PICK e : e = CASE link[b] = "up" /\ accepted[m] = "attached" -> TRUE
                      [] link[b] = "up" /\ accepted[m] = "detached" -> FALSE
                      [] OTHER -> attached[b]
  OBVIOUS
<1>11. attached' = [attached EXCEPT ![b] = e]
  BY <1>0, <1>10 DEF WriteSucceeds
<1>12. attached[b] \in BOOLEAN /\ accepted[m] \in Kind
  BY <1>3 DEF LinkInv, Typed, Messages
<1>13. /\ e \in BOOLEAN
       /\ link[b] = "up" /\ accepted[m] = "hello" => e = attached[b]
       /\ link[b] = "up" /\ accepted[m] # "hello" => e = (accepted[m] = "attached")
  BY <1>10, <1>12 DEF Kind
<1>14. /\ attached' \in [Channel -> BOOLEAN] /\ attached'[b] = e
       /\ \A d \in Channel \ {b} : attached'[d] = attached[d]
  BY <1>11, <1>13 DEF LinkInv, Typed
<1>15. Typed' /\ ReadIsRight'
  BY <1>1, <1>3, <1>14 DEF LinkInv, Typed, ReadIsRight
<1>16. Young'
  <2>1. \A d \in Channel : phase[d] \in Early => d # b /\ d # h
    BY <1>1, <1>2 DEF LinkInv, Young
  <2> QED
    BY <1>1, <1>4, <1>5, <1>14, <2>1 DEF LinkInv, Young
<1>17. ASSUME NEW c \in Channel, NEW i \in 1..Len(writes'[c])
       PROVE  Written(c, i)' = holds[writes'[c][i]]
  <2>1. writes'[c][i] \in Channel \ {h}
    BY <1>5 DEF Writes
  <2> QED
    BY <1>4, <2>1 DEF Written
<1>18. ASSUME WillKnow(b), link[b] = "up" PROVE WillKnow(b)'
  <2>1. \A i \in 1..Len(writes'[b]) : i + 1 \in 1..Len(writes[b]) /\ Written(b, i)' = Written(b, i + 1)
    BY <1>5, <1>17 DEF Written
  <2>2. Written(b, 1) = m
    BY <1>0, <1>5 DEF Written
  <2>3. CASE /\ attached[b] = announced
             /\ \A i \in 1..Len(writes[b]) : accepted[Written(b, i)] = "hello"
    <3>1. attached'[b] = announced'
      BY <1>1, <1>5, <1>13, <1>14, <1>18, <2>2, <2>3
    <3>2. \A i \in 1..Len(writes'[b]) : accepted'[Written(b, i)'] = "hello"
      BY <1>1, <2>1, <2>3
    <3> QED
      BY <3>1, <3>2 DEF WillKnow
  <2>4. CASE \E i \in 1..Len(writes[b]) :
                /\ accepted[Written(b, i)] # "hello"
                /\ announced = (accepted[Written(b, i)] = "attached")
                /\ \A j \in 1..Len(writes[b]) : j > i => accepted[Written(b, j)] = "hello"
    <3>1. PICK i \in 1..Len(writes[b]) :
                /\ accepted[Written(b, i)] # "hello"
                /\ announced = (accepted[Written(b, i)] = "attached")
                /\ \A j \in 1..Len(writes[b]) : j > i => accepted[Written(b, j)] = "hello"
      BY <2>4
    <3>2. CASE i = 1
      <4>1. attached'[b] = announced'
        BY <1>1, <1>13, <1>14, <1>18, <2>2, <3>1, <3>2
      <4>2. \A j \in 1..Len(writes'[b]) : j + 1 > i
        BY <3>2
      <4>3. \A j \in 1..Len(writes'[b]) : accepted'[Written(b, j)'] = "hello"
        BY <1>1, <2>1, <3>1, <4>2
      <4> QED
        BY <4>1, <4>3 DEF WillKnow
    <3>3. CASE i # 1
      <4>1. PICK k \in Nat : i = k + 1 /\ k \in 1..(Len(writes[b]) - 1)
        <5>1. i - 1 \in 1..(Len(writes[b]) - 1) /\ i = (i - 1) + 1
          BY <1>2, <3>3
        <5> QED
          BY <5>1
      <4>2. k \in 1..Len(writes'[b]) /\ Written(b, k)' = Written(b, i)
        BY <1>5, <2>1, <4>1
      <4>3. \A j \in 1..Len(writes'[b]) : j > k => j + 1 > i
        BY <4>1
      <4>4. \A j \in 1..Len(writes'[b]) : j > k => accepted'[Written(b, j)'] = "hello"
        BY <1>1, <2>1, <3>1, <4>3
      <4> QED
        BY <1>1, <3>1, <4>2, <4>4 DEF WillKnow
    <3> QED
      BY <3>2, <3>3
  <2> QED
    BY <1>18, <2>3, <2>4 DEF WillKnow
<1>19. ChannelKnows'
  <2> SUFFICES ASSUME ~misled, NEW c \in Channel, c = channel, link[c] = "up", phase[c] = "up",
                      \A k \in Statuses : ~Unwritten(k)'
               PROVE  WillKnow(c)'
    BY <1>1, <1>3 DEF ChannelKnows
  <2>1. WillKnow(c)
    BY <1>4 DEF LinkInv, ChannelKnows
  <2>2. CASE c = b
    BY <1>18, <2>1, <2>2
  <2>3. CASE c # b
    <3>1. writes'[c] = writes[c] /\ attached'[c] = attached[c]
      BY <1>5, <1>14, <2>3
    <3>2. \A i \in 1..Len(writes[c]) : holds'[writes[c][i]] = holds[writes[c][i]]
      BY <1>17, <3>1 DEF Written
    <3> QED
      BY <1>1, <2>1, <3>1, <3>2, WillKnowKept
  <2> QED
    BY <2>2, <2>3
<1> QED
  BY <1>4, <1>5, <1>6, <1>9, <1>15, <1>16, <1>19 DEF LinkInv

(* The gateway stops: only the queue is left.                                *)
LEMMA CrashStep ==
    ASSUME LinkInv, Crash
    PROVE  LinkInv'
<1>1. /\ UNCHANGED <<queue, thrown, events, accepted, newest>>
      /\ crashes' = crashes + 1 /\ connected' = FALSE /\ trying' = FALSE /\ registered' = FALSE
      /\ channel' = 0 /\ deaf' = FALSE /\ running' = FALSE /\ announced' = FALSE
      /\ settled' = settled \cup (Range(holds) \ {0})
  BY DEF Crash
<1>2. misled' \in BOOLEAN /\ (misled' <=> misled \/ queue # <<>>)
  BY Zenon DEF Crash
<1>3. /\ at' = [c \in Channel |-> "none"] /\ holds' = [c \in Channel |-> 0]
      /\ writes' = [c \in Channel |-> <<>>] /\ attached' = [c \in Channel |-> FALSE]
  BY DEF Crash
<1>4. /\ phase' = [c \in Channel |-> IF phase[c] = "unused" THEN "unused" ELSE "gone"]
      /\ link' = [c \in Channel |-> IF link[c] = "none" THEN "none" ELSE "down"]
  BY DEF Crash
<1>5. Messages' = Messages /\ 0 \notin Messages /\ Messages \subseteq Nat
  BY <1>1 DEF Messages
<1>6. Held'
  <2>1. at' \in [Channel -> Stage] /\ holds' \in [Channel -> Messages \cup {0}]
    BY <1>3 DEF Stage
  <2>2. \A c \in Channel : at'[c] = "none" /\ holds'[c] = 0
    BY <1>3
  <2> QED
    BY <1>1, <1>5, <2>1, <2>2 DEF LinkInv, Held, HeldIn
<1>7. Writes'
  <2>1. \A d \in Channel : writes'[d] = <<>> /\ at'[d] # "writing" /\ 1..Len(writes'[d]) = {}
    BY <1>3
  <2>2. writes' \in [Channel -> Seq(Channel)]
    BY <1>3
  <2> QED
    BY <2>1, <2>2 DEF Writes
<1>8. Typed'
  <2>1. /\ phase' \in [Channel -> Phase] /\ link' \in [Channel -> {"none", "up", "dead", "down"}]
        /\ attached' \in [Channel -> BOOLEAN]
    BY <1>3, <1>4 DEF Phase
  <2>2. Range(holds) \ {0} \subseteq Messages
    BY DEF LinkInv, Held, HeldIn, Range
  <2>3. settled' \subseteq Messages /\ thrown' \subseteq Messages /\ crashes' \in Nat
    BY <1>1, <2>2 DEF LinkInv, Typed
  <2> QED
    BY <1>1, <1>2, <1>5, <2>1, <2>3 DEF LinkInv, Typed
<1>9. Young'
  BY <1>1, <1>3, LinkAssumption DEF Young
<1>10. WrittenIsOld' /\ ChannelKnows'
  BY <1>1, <1>3, LinkAssumption DEF WrittenIsOld, ChannelKnows
<1>11. ReadIsRight'
  BY <1>4 DEF ReadIsRight
<1>12. NoneLost'
  <2> SUFFICES ASSUME NEW m \in Messages, m \notin Done' PROVE Unwritten(m)'
    BY <1>5 DEF NoneLost, Pending
  <2>1. DOMAIN holds = Channel
    BY DEF LinkInv, Held, HeldIn
  <2>2. \A c \in Channel : holds[c] # m
    BY <1>1, <1>5, <2>1 DEF Range
  <2>3. m \in Range(queue)
    BY <1>1, <2>2 DEF LinkInv, NoneLost, Pending, Unwritten, UnwrittenIn, OnItsWay
  <2> QED
    BY <1>1, <2>3 DEF Unwritten, UnwrittenIn
<1>13. ASSUME ~misled', NEW m, Pending(m)' PROVE FALSE
  <2>1. Range(queue') = {}
    BY <1>1, <1>2, <1>13, RangeOfEmpty
  <2>2. \A c \in Channel : at'[c] = "none"
    BY <1>3
  <2> QED
    BY <1>13, <2>1, <2>2 DEF Pending, Unwritten, UnwrittenIn, OnItsWay
<1>14. LastIsRight' /\ NoneOvertaken'
  BY <1>13 DEF LastIsRight, NoneOvertaken
<1> QED
  BY <1>6, <1>7, <1>8, <1>9, <1>10, <1>11, <1>12, <1>14 DEF LinkInv

LEMMA LinkInit == Init => LinkInv
<1> SUFFICES ASSUME Init PROVE LinkInv
  OBVIOUS
<1>1. /\ phase = [c \in Channel |-> "unused"] /\ link = [c \in Channel |-> "none"] /\ channel = 0
      /\ at = [c \in Channel |-> "none"] /\ holds = [c \in Channel |-> 0]
      /\ writes = [c \in Channel |-> <<>>] /\ attached = [c \in Channel |-> FALSE]
      /\ accepted = (IF running THEN <<"attached">> ELSE <<>>)
      /\ queue = IF running THEN <<1>> ELSE <<>>
      /\ settled = {} /\ thrown = {} /\ newest = 0 /\ events = 0 /\ crashes = 0
  BY DEF Init
<1>2. /\ connected \in BOOLEAN /\ trying \in BOOLEAN /\ registered \in BOOLEAN /\ deaf \in BOOLEAN
      /\ running \in BOOLEAN /\ announced \in BOOLEAN /\ announced = running /\ misled \in BOOLEAN
  BY Zenon DEF Init
<1>3. \/ running = TRUE /\ accepted = <<"attached">> /\ queue = <<1>>
      \/ running = FALSE /\ accepted = <<>> /\ queue = <<>>
  BY <1>1, <1>2
<1>4. \/ running = TRUE /\ Messages = {1} /\ accepted[1] = "attached" /\ queue \in Seq({1}) /\ Range(queue) = {1}
      \/ running = FALSE /\ Messages = {} /\ queue \in Seq({}) /\ Range(queue) = {}
  <2>1. CASE running = TRUE
    <3>1. accepted = <<"attached">> /\ queue = <<1>>
      BY <1>3, <2>1
    <3>2. Len(accepted) = 1 /\ accepted[1] = "attached"
      BY <3>1, OneElement
    <3>3. queue \in Seq({1}) /\ Range(queue) = {1}
      BY <3>1, OneElement
    <3> QED
      BY <2>1, <3>2, <3>3 DEF Messages
  <2>2. CASE running = FALSE
    <3>1. Len(accepted) = 0 /\ queue \in Seq({})
      BY <1>3, <2>2, NoElement
    <3> QED
      BY <1>3, <2>2, <3>1, RangeOfEmpty DEF Messages
  <2> QED
    BY <1>2, <2>1, <2>2
<1>5. Typed
  <2>1. accepted \in Seq(Kind)
    <3>1. <<>> \in Seq(Kind) /\ <<"attached">> \in Seq(Kind)
      BY NoElement, OneElement, SeqOver DEF Kind
    <3> QED
      BY <1>3, <3>1
  <2>2. /\ phase \in [Channel -> Phase] /\ link \in [Channel -> {"none", "up", "dead", "down"}]
        /\ attached \in [Channel -> BOOLEAN]
    BY <1>1 DEF Phase
  <2> QED
    BY <1>1, <1>2, <2>1, <2>2 DEF Typed
<1>6. Held
  <2>1. queue \in Seq(Messages)
    BY <1>4
  <2>2. at \in [Channel -> Stage] /\ holds \in [Channel -> Messages \cup {0}]
    BY <1>1 DEF Stage
  <2> QED
    BY <1>1, <2>1, <2>2 DEF Held, HeldIn
<1>7. Writes
  <2>1. \A d \in Channel : writes[d] = <<>> /\ at[d] # "writing" /\ 1..Len(writes[d]) = {}
    BY <1>1
  <2>2. writes \in [Channel -> Seq(Channel)]
    BY <1>1
  <2> QED
    BY <2>1, <2>2 DEF Writes
<1>8. Young /\ WrittenIsOld /\ ReadIsRight /\ ChannelKnows
  BY <1>1, LinkAssumption DEF Young, WrittenIsOld, ReadIsRight, ChannelKnows
<1>9. NoneLost
  BY <1>4 DEF NoneLost, Pending, Unwritten, UnwrittenIn
<1>10. LastIsRight /\ NoneOvertaken
  <2>1. \A m \in Statuses : m = 1 /\ running = TRUE /\ accepted[m] = "attached"
    BY <1>4 DEF Statuses
  <2>2. LastIsRight
    BY <1>2, <2>1 DEF LastIsRight
  <2>3. NoneOvertaken
    BY <2>1 DEF NoneOvertaken
  <2> QED
    BY <2>2, <2>3
<1> QED
  BY <1>5, <1>6, <1>7, <1>8, <1>9, <1>10 DEF LinkInv

LEMMA LinkStep == LinkInv /\ [Next]_linkVars => LinkInv'
<1> SUFFICES ASSUME LinkInv, [Next]_linkVars PROVE LinkInv'
  OBVIOUS
<1>1. CASE TryToConnect \/ ConnectFails \/ DeviceSettles
  BY <1>1, ConnectingStep
<1>2. CASE DeviceEvent
  BY <1>2, DeviceEventStep
<1>3. CASE Crash
  BY <1>3, CrashStep
<1>4. ASSUME NEW c \in Channel, Open(c) \/ Break(c) \/ WriteThrows(c) \/ Proceeds(c)
      PROVE  LinkInv'
  <2>1. CASE Open(c)
    BY <2>1, OpenStep
  <2>2. CASE Break(c) \/ Notice(c)
    BY <2>2, BreakStep
  <2>3. CASE Observe(c) \/ Lose(c) \/ Leave(c)
    BY <2>3, HandlerStep
  <2>4. CASE AddChannel(c)
    BY <2>4, AddChannelStep
  <2>5. CASE SendNodes(c)
    BY <2>5, SendNodesStep
  <2>6. CASE OnSuccessDisconnected(c)
    BY <2>6, OnSuccessDisconnectedStep
  <2>7. CASE OnSuccess(c)
    BY <2>7, OnSuccessStep
  <2>8. CASE WriteThrows(c)
    BY <2>8, WriteThrowsStep
  <2>9. CASE WriteSucceeds(c)
    BY <2>9, WriteSucceedsStep
  <2>10. CASE WriteFails(c)
    BY <2>10, WriteFailsStep
  <2> QED
    BY <1>4, <2>1, <2>2, <2>3, <2>4, <2>5, <2>6, <2>7, <2>8, <2>9, <2>10 DEF Proceeds
<1>5. CASE UNCHANGED linkVars
  <2>1. UNCHANGED <<queue, at, holds, writes, accepted, settled, thrown, newest, misled, announced>>
    BY <1>5 DEF linkVars, callbacks, network, past, device
  <2>2. UNCHANGED <<phase, channel, link, attached, connected, trying, registered, deaf, running, events, crashes>>
    BY <1>5 DEF linkVars, connecting, handlers, network, device, bounds
  <2>3. Typed' /\ Young'
    BY <2>1, <2>2 DEF LinkInv, Typed, Messages, Young
  <2> QED
    BY <2>1, <2>2, <2>3, QuietStep
<1> QED
  BY <1>1, <1>2, <1>3, <1>4, <1>5 DEF Next

LEMMA LinkInvariant == Spec => []LinkInv
BY LinkInit, LinkStep, PTL DEF Spec

(* A chain is in the writes of one connection exactly while it writes.        *)
LEMMA WritesCounted ==
    ASSUME Writes
    PROVE  \A c \in Channel : Cardinality({d \in Channel : c \in Range(writes[d])})
                                  = IF at[c] = "writing" THEN 1 ELSE 0
<1>1. ASSUME NEW c \in Channel, NEW d \in Channel
      PROVE  c \in Range(writes[d]) <=> \E i \in 1..Len(writes[d]) : writes[d][i] = c
  <2>1. DOMAIN writes[d] = 1..Len(writes[d])
    BY DEF Writes
  <2> QED
    BY <2>1 DEF Range
<1> SUFFICES ASSUME NEW c \in Channel
             PROVE  Cardinality({d \in Channel : c \in Range(writes[d])})
                        = IF at[c] = "writing" THEN 1 ELSE 0
  OBVIOUS
<1>2. CASE at[c] = "writing"
  <2>1. PICK e \in Channel : c \in Range(writes[e])
    BY <1>1, <1>2 DEF Writes
  <2>2. \A d \in Channel : c \in Range(writes[d]) => d = e
    <3>1. PICK j \in 1..Len(writes[e]) : writes[e][j] = c
      BY <1>1, <2>1
    <3> SUFFICES ASSUME NEW d \in Channel, c \in Range(writes[d]) PROVE d = e
      OBVIOUS
    <3>2. PICK i \in 1..Len(writes[d]) : writes[d][i] = c
      BY <1>1
    <3> QED
      BY <3>1, <3>2 DEF Writes
  <2>3. {d \in Channel : c \in Range(writes[d])} = {e}
    BY <2>1, <2>2
  <2> QED
    BY <1>2, <2>3, FS_Singleton
<1>3. CASE at[c] # "writing"
  <2>1. \A d \in Channel : c \notin Range(writes[d])
    <3> SUFFICES ASSUME NEW d \in Channel, c \in Range(writes[d]) PROVE FALSE
      OBVIOUS
    <3>1. PICK i \in 1..Len(writes[d]) : writes[d][i] = c
      BY <1>1
    <3> QED
      BY <1>3, <3>1 DEF Writes
  <2>2. {d \in Channel : c \in Range(writes[d])} = {}
    BY <2>1
  <2> QED
    BY <1>3, <2>2, FS_EmptySet
<1> QED
  BY <1>2, <1>3

(* Through any number of connections, failed writes and restarts the state has *)
(* its type: only a callback that was called or writes holds a message, one    *)
(* waits only while the queue is empty, and each write belongs to one chain.   *)
THEOREM LinkTypes == Spec => []TypeOK
<1>1. LinkInv => TypeOK
  <2> SUFFICES ASSUME LinkInv PROVE TypeOK
    OBVIOUS
  <2>1. Typed /\ Held /\ Writes
    BY DEF LinkInv
  <2>2. (\E c \in Channel : at[c] = "waiting") => queue = <<>>
    BY <2>1 DEF Held, HeldIn
  <2>3. /\ queue \in Seq(Messages) /\ at \in [Channel -> Stage] /\ holds \in [Channel -> Messages \cup {0}]
        /\ \A c \in Channel : holds[c] # 0 <=> at[c] \in {"called", "writing"}
    BY <2>1 DEF Held, HeldIn
  <2>4. writes \in [Channel -> Seq(Channel)]
    BY <2>1 DEF Writes
  <2>5. \A c \in Channel : Cardinality({d \in Channel : c \in Range(writes[d])})
                                  = IF at[c] = "writing" THEN 1 ELSE 0
    BY <2>1, WritesCounted
  <2> QED
    BY <2>1, <2>2, <2>3, <2>4, <2>5, Zenon DEF Typed, TypeOK, Phase, Stage, Kind
<1> QED
  BY <1>1, LinkInvariant, PTL

(* When everything has arrived over the one connection that is left, the       *)
(* portal knows of the node exactly if the gateway has it, unless the code     *)
(* let an old message be written late.                                       *)
THEOREM PortalIsRight == Spec => []PortalKnowsDevices
<1>1. LinkInv => PortalKnowsDevices
  <2> SUFFICES ASSUME LinkInv, AtRest, ~misled PROVE attached[channel] = running
    BY DEF PortalKnowsDevices
  <2>1. channel \in Channel /\ link[channel] = "up" /\ phase[channel] = "up"
    BY DEF AtRest
  <2>2. \A c \in Channel : at[c] \notin {"called", "writing"}
    BY DEF AtRest, LinkInv, Held, HeldIn
  <2>3. \A m \in Statuses : ~Unwritten(m)
    BY <2>2, RangeOfEmpty DEF AtRest, Unwritten, UnwrittenIn
  <2>4. WillKnow(channel)
    BY <2>1, <2>3 DEF LinkInv, ChannelKnows
  <2>5. \A i \in 1..Len(writes[channel]) : FALSE
    <3> SUFFICES ASSUME NEW i \in 1..Len(writes[channel]) PROVE FALSE
      OBVIOUS
    <3>1. writes[channel][i] \in Channel /\ at[writes[channel][i]] = "writing"
      BY <2>1, WrittenTyped DEF LinkInv
    <3> QED
      BY <2>2, <3>1
  <2>6. attached[channel] = announced
    BY <2>4, <2>5 DEF WillKnow
  <2> QED
    BY <2>6 DEF AtRest
<1> QED
  BY <1>1, LinkInvariant, PTL

(* No message vanishes without a trace: each that was accepted has reached the *)
(* portal, was lost with its connection, its write or the gateway, or is in    *)
(* the queue or with a callback.                                             *)
THEOREM NothingVanishes == Spec => []Accounted
<1>1. LinkInv => Accounted
  <2> SUFFICES ASSUME LinkInv, NEW m \in Messages
               PROVE  m \in Done \/ m \in Range(queue) \/ m \in Range(holds)
    BY DEF Accounted
  <2>1. DOMAIN holds = Channel
    BY DEF LinkInv, Held, HeldIn
  <2>2. m \in Done \/ m \in Range(queue) \/ \E c \in Channel : holds[c] = m
    BY DEF LinkInv, NoneLost, Pending, Unwritten, UnwrittenIn, OnItsWay
  <2> QED
    BY <2>1, <2>2 DEF Range
<1> QED
  BY <1>1, LinkInvariant, PTL
=============================================================================
