------------------------ MODULE DeliveryWorkerProofs ------------------------
(***************************************************************************)
(* Proofs about DeliveryWorker, for every batch size, queue bound, number  *)
(* of retries and load.                                                     *)
(***************************************************************************)
EXTENDS DeliveryWorker, SequenceTheorems, TLAPS

-----------------------------------------------------------------------------
(* Sequences of consecutive numbers                                         *)

Ids(a, n) == [i \in 1..n |-> a + i]

(* The run of n numbers after a is a list of them, in order.                  *)
LEMMA IdsType ==
    ASSUME NEW a \in Nat, NEW n \in Nat
    PROVE  /\ Ids(a, n) \in Seq(Nat)
           /\ Len(Ids(a, n)) = n
           /\ \A i \in 1..n : Ids(a, n)[i] = a + i
<1>1. Ids(a, n) \in [1..n -> Nat]
  BY DEF Ids
<1>2. Ids(a, n) \in Seq(Nat)
  BY <1>1
<1>3. Len(Ids(a, n)) = n
  BY <1>1, <1>2, LenProperties
<1>4. QED
  BY <1>2, <1>3 DEF Ids

(* The head and the rest of a sequence, as poll() splits a deque.           *)
LEMMA SplitSeq ==
    ASSUME NEW s \in Seq(Nat), NEW n \in 0..Len(s)
    PROVE  /\ SubSeq(s, 1, n) \in Seq(Nat)
           /\ Len(SubSeq(s, 1, n)) = n
           /\ \A i \in 1..n : SubSeq(s, 1, n)[i] = s[i]
           /\ SubSeq(s, n + 1, Len(s)) \in Seq(Nat)
           /\ Len(SubSeq(s, n + 1, Len(s))) = Len(s) - n
           /\ \A i \in 1..(Len(s) - n) : SubSeq(s, n + 1, Len(s))[i] = s[n + i]
<1> DEFINE L == Len(s)
<1>1. L \in Nat /\ n \in Nat /\ n <= L
  OBVIOUS
<1>2. \A i \in 1..L : s[i] \in Nat
  OBVIOUS
<1>3. \A i \in 1..n : s[i] \in Nat
  BY <1>1, <1>2
<1>4. \A i \in (n + 1)..L : s[i] \in Nat
  BY <1>1, <1>2
<1>5. /\ SubSeq(s, 1, n) \in Seq(Nat)
      /\ Len(SubSeq(s, 1, n)) = IF 1 <= n THEN n - 1 + 1 ELSE 0
      /\ \A i \in 1..(n - 1 + 1) : SubSeq(s, 1, n)[i] = s[1 + i - 1]
  BY <1>1, <1>3, SubSeqProperties
<1>6. /\ SubSeq(s, n + 1, L) \in Seq(Nat)
      /\ Len(SubSeq(s, n + 1, L)) = IF n + 1 <= L THEN L - (n + 1) + 1 ELSE 0
      /\ \A i \in 1..(L - (n + 1) + 1) : SubSeq(s, n + 1, L)[i] = s[(n + 1) + i - 1]
  <2>1. n + 1 \in Int /\ L \in Int
    BY <1>1
  <2> HIDE DEF L
  <2>2. QED
    BY <2>1, <1>4, SubSeqProperties
<1>7. \A i \in 1..n : i \in 1..(n - 1 + 1) /\ 1 + i - 1 = i
  BY <1>1
<1>8. \A i \in 1..(L - n) : i \in 1..(L - (n + 1) + 1) /\ (n + 1) + i - 1 = n + i
  BY <1>1
<1>9. \A i \in 1..n : SubSeq(s, 1, n)[i] = s[i]
  BY <1>5, <1>7
<1>10. \A i \in 1..(L - n) : SubSeq(s, n + 1, L)[i] = s[n + i]
  BY <1>6, <1>8
<1>11. Len(SubSeq(s, 1, n)) = n
  BY <1>1, <1>5
<1>12. Len(SubSeq(s, n + 1, L)) = L - n
  BY <1>1, <1>6
<1>13. QED
  BY <1>5, <1>6, <1>9, <1>10, <1>11, <1>12

-----------------------------------------------------------------------------
(* Types                                                                    *)

(* The worker starts well typed.                                              *)
LEMMA InitTypeOK == Init => TypeOK
<1> SUFFICES ASSUME Init PROVE TypeOK
  OBVIOUS
<1>1. <<>> \in Seq(Nat)
  OBVIOUS
<1>2. [k \in Kind |-> <<>>] \in [Kind -> Seq(Nat)]
  BY <1>1
<1>3. [k \in Kind |-> 0] \in [Kind -> Nat]
  OBVIOUS
<1>4. pc \in Control /\ ~(pc \in {"call", "failed"})
  BY DEF Init, Control
<1>5. QED
  BY <1>1, <1>2, <1>3, <1>4 DEF Init, TypeOK

(* One delivery takes at least one item and at most BatchSize.                *)
LEMMA BatchOfType == \A k \in Kind : BatchOf(k) \in Nat \ {0} /\ BatchOf(k) <= BatchSize
  BY WorkerAssumption DEF BatchOf

(* The batch a worker polls is never empty and is the head of the queue.    *)
LEMMA TakeType ==
    ASSUME TypeOK, NEW k \in Kind, Take(k)
    PROVE  \E n \in 1..Len(queue[k]) :
               /\ n <= BatchOf(k)
               /\ batch' = SubSeq(queue[k], 1, n)
               /\ queue' = [queue EXCEPT ![k] = SubSeq(queue[k], n + 1, Len(queue[k]))]
<1> DEFINE n == Smaller(BatchOf(k), Len(queue[k]))
<1>1. queue[k] \in Seq(Nat) /\ queue[k] # <<>>
  BY DEF TypeOK, Take
<1>2. Len(queue[k]) \in Nat \ {0}
  BY <1>1, EmptySeq
<1>3. n \in 1..Len(queue[k]) /\ n <= BatchOf(k)
  BY <1>2, BatchOfType DEF Smaller
<1>4. /\ batch' = SubSeq(queue[k], 1, n)
      /\ queue' = [queue EXCEPT ![k] = SubSeq(queue[k], n + 1, Len(queue[k]))]
  BY DEF Take
<1>5. QED
  BY <1>3, <1>4

(* The room left in the message queue is a number of messages.                *)
LEMMA RoomType == TypeOK => Room \in Nat
<1> SUFFICES ASSUME TypeOK PROVE Room \in Nat
  OBVIOUS
<1>1. queue["message"] \in Seq(Nat)
  BY DEF TypeOK, Kind
<1>2. Len(queue["message"]) \in Nat
  BY <1>1
<1>3. QED
  BY <1>2, WorkerAssumption DEF Room

(* What receive(), receiveStatus(), receiveNotification(), nodesAttached() *)
(* and nodesDetached() have in common: cnt[k] new items at the tail of k.   *)
Appended(cnt) ==
    /\ accepted' = [k \in Kind |-> accepted[k] + cnt[k]]
    /\ queue' = [k \in Kind |-> queue[k] \o Ids(accepted[k], cnt[k])]
    /\ cnt["message"] <= Room
    /\ LockFree
    /\ Signal
    /\ UNCHANGED <<current, batch, seen, errors, stopDelivery, registry, ended,
                   acked, received, failStreak, told>>

HandOver ==
    \/ \E k \in Kind, n \in 1..ListSize : Enqueue(k, n)
    \/ \E n \in 1..ListSize : ReceiveAll(n)
    \/ \E n \in 1..ListSize, notify \in BOOLEAN : ReceiveSome(n, notify)

(* Whatever the manager hands over is appended to the queues in order.        *)
LEMMA HandOverAppends ==
    ASSUME TypeOK, HandOver
    PROVE  \E cnt \in [Kind -> Nat] : Appended(cnt)
<1>0. /\ queue \in [Kind -> Seq(Nat)] /\ accepted \in [Kind -> Nat]
      /\ "message" \in Kind /\ "notification" \in Kind
      /\ Room \in Nat /\ \A n \in 1..ListSize : n \in Nat
  <2>1. queue \in [Kind -> Seq(Nat)] /\ accepted \in [Kind -> Nat] /\ Room \in Nat
    BY RoomType DEF TypeOK
  <2>2. "message" \in Kind /\ "notification" \in Kind
    BY DEF Kind
  <2>3. \A n \in 1..ListSize : n \in Nat
    BY WorkerAssumption
  <2>4. QED
    BY <2>1, <2>2, <2>3
<1>1. \A k \in Kind : queue[k] \o Ids(accepted[k], 0) = queue[k]
  <2> SUFFICES ASSUME NEW k \in Kind PROVE queue[k] \o Ids(accepted[k], 0) = queue[k]
    OBVIOUS
  <2>1. queue[k] \in Seq(Nat)
    BY <1>0
  <2>2. Ids(accepted[k], 0) = <<>>
    BY DEF Ids
  <2>3. QED
    BY <2>1, <2>2, ConcatEmptySeq
<1>2. ASSUME NEW k \in Kind, NEW n \in 1..ListSize, Enqueue(k, n)
      PROVE  \E cnt \in [Kind -> Nat] : Appended(cnt)
  <2> DEFINE cnt == [j \in Kind |-> IF j = k THEN n ELSE 0]
  <2>1. cnt \in [Kind -> Nat] /\ cnt["message"] <= Room
    BY <1>0, <1>2 DEF Enqueue
  <2>2. accepted' = [j \in Kind |-> accepted[j] + cnt[j]]
    <3>1. accepted' = [accepted EXCEPT ![k] = accepted[k] + n]
      BY <1>2 DEF Enqueue
    <3>2. \A j \in Kind : accepted[j] + 0 = accepted[j]
      BY <1>0
    <3>3. QED
      BY <1>0, <3>1, <3>2
  <2>3. queue' = [j \in Kind |-> queue[j] \o Ids(accepted[j], cnt[j])]
    <3>1. queue' = [queue EXCEPT ![k] = queue[k] \o Ids(accepted[k], n)]
      BY <1>2 DEF Enqueue, Numbered, Ids
    <3>2. queue' = [j \in Kind |-> IF j = k THEN queue[k] \o Ids(accepted[k], n) ELSE queue[j]]
      BY <1>0, <3>1
    <3>3. QED
      BY <1>1, <3>2
  <2>4. Appended(cnt)
    BY <1>2, <2>1, <2>2, <2>3 DEF Enqueue, Appended
  <2>5. QED
    BY <2>1, <2>4
<1>3. ASSUME NEW n \in 1..ListSize, ReceiveAll(n)
      PROVE  \E cnt \in [Kind -> Nat] : Appended(cnt)
  <2> DEFINE cnt == [j \in Kind |-> IF j = "message" THEN n ELSE 0]
  <2>1. cnt \in [Kind -> Nat] /\ cnt["message"] <= Room
    BY <1>0, <1>3 DEF ReceiveAll
  <2>2. accepted' = [j \in Kind |-> accepted[j] + cnt[j]]
    <3>1. accepted' = [accepted EXCEPT !["message"] = accepted["message"] + n]
      BY <1>3 DEF ReceiveAll
    <3>2. \A j \in Kind : accepted[j] + 0 = accepted[j]
      BY <1>0
    <3>3. QED
      BY <1>0, <3>1, <3>2
  <2>3. queue' = [j \in Kind |-> queue[j] \o Ids(accepted[j], cnt[j])]
    <3>1. queue' = [queue EXCEPT !["message"] = queue["message"] \o Ids(accepted["message"], n)]
      BY <1>3 DEF ReceiveAll, Numbered, Ids
    <3>2. queue' = [j \in Kind |-> IF j = "message"
                                   THEN queue[j] \o Ids(accepted[j], n) ELSE queue[j]]
      BY <1>0, <3>1
    <3>3. QED
      BY <1>1, <3>2
  <2>4. Appended(cnt)
    BY <1>3, <2>1, <2>2, <2>3 DEF ReceiveAll, Appended
  <2>5. QED
    BY <2>1, <2>4
<1>4. ASSUME NEW n \in 1..ListSize, NEW notify \in BOOLEAN, ReceiveSome(n, notify)
      PROVE  \E cnt \in [Kind -> Nat] : Appended(cnt)
  <2> DEFINE noticed == IF notify THEN 1 ELSE 0
             cnt == [j \in Kind |-> IF j = "message" THEN Room
                                    ELSE IF j = "notification" THEN noticed ELSE 0]
  <2>0. "message" # "notification" /\ noticed \in Nat
    OBVIOUS
  <2>1. cnt \in [Kind -> Nat] /\ cnt["message"] <= Room
    BY <1>0, <2>0
  <2>2. accepted' = [j \in Kind |-> accepted[j] + cnt[j]]
    <3>1. accepted' = [accepted EXCEPT !["message"] = @ + Room, !["notification"] = @ + noticed]
      BY <1>4 DEF ReceiveSome
    <3>2. accepted' = [j \in Kind |-> IF j = "message" THEN accepted[j] + Room
                                      ELSE IF j = "notification" THEN accepted[j] + noticed
                                      ELSE accepted[j]]
      BY <1>0, <2>0, <3>1
    <3>3. \A j \in Kind : accepted[j] + 0 = accepted[j]
      BY <1>0
    <3>4. QED
      BY <3>2, <3>3
  <2>3. queue' = [j \in Kind |-> queue[j] \o Ids(accepted[j], cnt[j])]
    <3>1. queue' = [queue EXCEPT !["message"] = @ \o Ids(accepted["message"], Room),
                                 !["notification"] = @ \o Ids(accepted["notification"], noticed)]
      BY <1>4 DEF ReceiveSome, Numbered, Ids
    <3>2. queue' = [j \in Kind |-> IF j = "message" THEN queue[j] \o Ids(accepted[j], Room)
                                   ELSE IF j = "notification" THEN queue[j] \o Ids(accepted[j], noticed)
                                   ELSE queue[j]]
      BY <1>0, <2>0, <3>1
    <3>3. QED
      BY <1>1, <3>2
  <2>4. Appended(cnt)
    BY <1>4, <2>1, <2>2, <2>3 DEF ReceiveSome, Appended
  <2>5. QED
    BY <2>1, <2>4
<1>5. QED
  BY <1>2, <1>3, <1>4 DEF HandOver

(* Appending numbers to the queues keeps them queues of numbers.              *)
LEMMA AppendedTypes ==
    ASSUME TypeOK, NEW cnt \in [Kind -> Nat], Appended(cnt)
    PROVE  queue' \in [Kind -> Seq(Nat)] /\ accepted' \in [Kind -> Nat]
<1>1. ASSUME NEW k \in Kind PROVE queue[k] \o Ids(accepted[k], cnt[k]) \in Seq(Nat)
  <2>1. queue[k] \in Seq(Nat) /\ accepted[k] \in Nat /\ cnt[k] \in Nat
    BY DEF TypeOK
  <2>2. QED
    BY <2>1, IdsType, ConcatProperties
<1>2. accepted \in [Kind -> Nat] /\ \A k \in Kind : accepted[k] + cnt[k] \in Nat
  BY SMTT(30) DEF TypeOK
<1>3. accepted' \in [Kind -> Nat]
  BY <1>2 DEF Appended
<1>4. queue' \in [Kind -> Seq(Nat)]
  BY <1>1 DEF Appended
<1>5. QED
  BY <1>3, <1>4

(* The drop counters: numbers, and every drop in exactly one of them.       *)
LEMMA HandOverDrops ==
    ASSUME TypeOK, HandOver
    PROVE  /\ dropped' \in Nat /\ droppedSince' \in Nat /\ reported' \in Nat
           /\ DropsAccounted => DropsAccounted'
<1>0. dropped \in Nat /\ droppedSince \in Nat /\ reported \in Nat /\ Room \in Nat
  BY RoomType DEF TypeOK
<1>1. CASE UNCHANGED drops
  BY <1>0, <1>1 DEF drops, DropsAccounted
<1>2. ASSUME NEW n \in 1..ListSize, NEW notify \in BOOLEAN, ReceiveSome(n, notify)
      PROVE  /\ dropped' \in Nat /\ droppedSince' \in Nat /\ reported' \in Nat
             /\ DropsAccounted => DropsAccounted'
  <2>1. PICK lost \in Nat :
            /\ dropped' = dropped + lost
            /\ droppedSince' = IF notify THEN 0 ELSE droppedSince + lost
            /\ reported' = IF notify THEN reported + droppedSince + lost ELSE reported
    <3>1. n \in Nat /\ n > Room
      BY <1>2, WorkerAssumption DEF ReceiveSome
    <3>2. n - Room \in Nat
      BY <1>0, <3>1
    <3>3. QED
      BY <1>2, <3>2 DEF ReceiveSome
  <2>2. CASE notify
    BY <1>0, <2>1, <2>2 DEF DropsAccounted
  <2>3. CASE ~notify
    BY <1>0, <2>1, <2>3 DEF DropsAccounted
  <2>4. QED
    BY <2>2, <2>3
<1>3. QED
  BY <1>1, <1>2 DEF HandOver, Enqueue, ReceiveAll

(* A worker that removes itself may or may not be stopped by it.             *)
LEMMA RemovalType ==
    ASSUME TypeOK, RemovesItself
    PROVE  stopDelivery' \in BOOLEAN /\ registered' \in BOOLEAN
  BY DEF TypeOK, RemovesItself

(* One action of the worker or of the manager keeps the types.              *)
LEMMA NextTypeOK == TypeOK /\ [Next]_vars => TypeOK'
<1> SUFFICES ASSUME TypeOK, [Next]_vars
             PROVE  TypeOK'
  OBVIOUS
<1> USE DEF Control
<1>1. CASE LoopTest
  BY <1>1 DEF TypeOK, LoopTest, ended, drops, registry
<1>2. CASE CheckEnded
  BY <1>2 DEF TypeOK, CheckEnded, ended, drops, registry, NonEmpty
<1>3. CASE TellEnded
  <2>1. stopDelivery' \in BOOLEAN /\ registered' \in BOOLEAN /\ spared' \in BOOLEAN
    BY <1>3, RemovalType DEF TellEnded, TypeOK
  <2>2. told' \in BOOLEAN
    BY <1>3 DEF TellEnded, TypeOK
  <2>3. QED
    BY <1>3, <2>1, <2>2 DEF TypeOK, TellEnded, ended, drops
<1>4. ASSUME NEW k \in Kind, Take(k) PROVE TypeOK'
  <2>1. PICK n \in 1..Len(queue[k]) :
               /\ n <= BatchOf(k)
               /\ batch' = SubSeq(queue[k], 1, n)
               /\ queue' = [queue EXCEPT ![k] = SubSeq(queue[k], n + 1, Len(queue[k]))]
    BY <1>4, TakeType
  <2>2. queue[k] \in Seq(Nat) /\ n \in 0..Len(queue[k]) /\ n # 0
    BY <2>1 DEF TypeOK
  <2>3. /\ batch' \in Seq(Nat)
        /\ Len(batch') = n
        /\ SubSeq(queue[k], n + 1, Len(queue[k])) \in Seq(Nat)
    BY <2>1, <2>2, SplitSeq
  <2>4. queue' \in [Kind -> Seq(Nat)]
    BY <2>1, <2>3 DEF TypeOK
  <2>5. batch' # <<>>
    BY <2>2, <2>3, EmptySeq
  <2>6. k # NoKind
    BY DEF Kind, NoKind
  <2>7. QED
    BY <1>4, <2>3, <2>4, <2>5, <2>6 DEF TypeOK, Take, ended, drops, registry
<1>5. CASE NothingToDo
  BY <1>5 DEF TypeOK, NothingToDo, ended, drops, registry
<1>6. ASSUME pc \in {"call", "failed"}
      PROVE  current \in Kind /\ batch \in Seq(Nat) /\ Len(batch) \in Nat \ {0}
             /\ batch[Len(batch)] \in Nat
  <2>1. current \in Kind /\ batch \in Seq(Nat) /\ batch # <<>>
    BY <1>6 DEF TypeOK
  <2>2. Len(batch) \in Nat \ {0}
    BY <2>1, EmptySeq
  <2>3. QED
    BY <2>1, <2>2, ElementOfSeq
<1>7. CASE CallReturns
  <2>1. /\ current \in Kind /\ batch \in Seq(Nat) /\ Len(batch) \in Nat
        /\ batch[Len(batch)] \in Nat
    BY <1>6, <1>7 DEF CallReturns
  <2>2. received' \in [Kind -> Nat]
    BY <1>7, <2>1 DEF CallReturns, Processed, Larger, TypeOK
  <2>3. acked' \in [Kind -> Nat]
    BY <1>7, <2>1 DEF CallReturns, TypeOK
  <2>4. spared' \in BOOLEAN /\ registered' \in BOOLEAN
    BY <1>7 DEF TypeOK, CallReturns
  <2>5. UNCHANGED <<queue, seen, stopDelivery, ended, drops, accepted, told>>
        /\ batch' = <<>> /\ current' = NoKind /\ errors' = 0 /\ failStreak' = 0 /\ pc' = "settle"
    BY <1>7 DEF CallReturns
  <2>6. QED
    BY <2>2, <2>3, <2>4, <2>5 DEF TypeOK, ended, drops
<1>8. CASE CallThrows
  <2>1. current \in Kind /\ batch[Len(batch)] \in Nat
    BY <1>6, <1>8 DEF CallThrows
  <2>2. received' \in [Kind -> Nat]
    BY <1>8, <2>1 DEF CallThrows, Processed, Larger, TypeOK
  <2>3. failStreak' \in Nat
    BY <1>8, WorkerAssumption DEF TypeOK, CallThrows, Smaller
  <2>4. QED
    BY <1>8, <2>2, <2>3, SMTT(30) DEF TypeOK, CallThrows, ended, drops, registry
<1>9. CASE PutBack
  <2>1. current \in Kind /\ batch \in Seq(Nat) /\ queue[current] \in Seq(Nat)
    BY <1>6, <1>9 DEF PutBack, TypeOK
  <2>2. batch \o queue[current] \in Seq(Nat)
    BY <2>1, ConcatProperties
  <2>3. queue' \in [Kind -> Seq(Nat)]
    BY <1>9, <2>2 DEF PutBack, TypeOK
  <2>4. errors' \in Nat
    BY <1>9, WorkerAssumption DEF PutBack, TypeOK, Smaller
  <2>5. stopDelivery' \in BOOLEAN /\ registered' \in BOOLEAN
    BY <1>9, RemovalType DEF PutBack, TypeOK
  <2>6. spared' \in BOOLEAN
    BY <1>9, ZenonT(30) DEF PutBack, TypeOK
  <2>7. QED
    BY <1>9, <2>3, <2>4, <2>5, <2>6 DEF TypeOK, PutBack, ended, drops
<1>10. CASE Settle
  BY <1>10 DEF TypeOK, Settle, ended, drops, registry
<1>11. CASE SpuriousWakeup
  BY <1>11 DEF TypeOK, SpuriousWakeup, ended, drops, registry
<1>12. CASE HandOver
  <2>1. PICK cnt \in [Kind -> Nat] : Appended(cnt)
    BY <1>12, HandOverAppends
  <2>2. queue' \in [Kind -> Seq(Nat)] /\ accepted' \in [Kind -> Nat]
    BY <2>1, AppendedTypes
  <2>3. dropped' \in Nat /\ droppedSince' \in Nat /\ reported' \in Nat
    BY <1>12, HandOverDrops
  <2>4. QED
    BY <2>1, <2>2, <2>3 DEF TypeOK, Appended, Signal, ended, registry
<1>13. CASE BeginEnd
  BY <1>13 DEF TypeOK, BeginEnd, drops, registry
<1>14. CASE FinishEnd
  BY <1>14 DEF TypeOK, FinishEnd, Signal, drops, registry
<1>15. CASE StopDelivery
  BY <1>15 DEF TypeOK, StopDelivery, ended, drops, registry
<1>18. CASE Remap
  BY <1>18 DEF TypeOK, Remap, ended, drops
<1>16. CASE UNCHANGED vars
  BY <1>16 DEF TypeOK, vars
<1>17. QED
  BY <1>1, <1>2, <1>3, <1>4, <1>5, <1>7, <1>8, <1>9, <1>10, <1>11, <1>12,
     <1>13, <1>14, <1>15, <1>18, <1>16 DEF Next, Work, Manager, HandOver

(* The fields of a worker always have their types, and a batch is held      *)
(* exactly from poll() to the end of the call: DeliveryWorker, all methods. *)
THEOREM TypeCorrect == Spec => []TypeOK
<1>1. QED
  BY InitTypeOK, NextTypeOK, PTL DEF Spec

-----------------------------------------------------------------------------
(* The ledger: where the accepted items are                                 *)

Held(k) == Len(InFlight(k))

(* FifoLedger without the concatenation: first the batch, then the queue.   *)
LedgerOf(k) ==
    /\ acked[k] + Held(k) + Len(queue[k]) = accepted[k]
    /\ \A i \in 1..Held(k) : InFlight(k)[i] = acked[k] + i
    /\ \A i \in 1..Len(queue[k]) : queue[k][i] = acked[k] + Held(k) + i

Ledger == \A k \in Kind : LedgerOf(k)

ledgerVars == <<queue, current, batch, accepted, acked>>

(* The steps that move items, and the ones that do not.                     *)
LEMMA MovesOrNot ==
    ASSUME [Next]_vars
    PROVE  \/ \E k \in Kind : Take(k)
           \/ CallReturns
           \/ PutBack
           \/ HandOver
           \/ UNCHANGED ledgerVars
  BY DEF Next, vars, Work, Manager, HandOver, ledgerVars, LoopTest, CheckEnded, TellEnded,
         NothingToDo, CallThrows, Settle, SpuriousWakeup, BeginEnd, FinishEnd, StopDelivery, Remap

(* The items of a call in progress, and those queued, are counted lists.      *)
LEMMA InFlightType ==
    ASSUME TypeOK, NEW k \in Kind
    PROVE  InFlight(k) \in Seq(Nat) /\ Held(k) \in Nat /\ queue[k] \in Seq(Nat)
           /\ Len(queue[k]) \in Nat /\ acked[k] \in Nat /\ accepted[k] \in Nat
<1>1. InFlight(k) \in Seq(Nat)
  BY DEF InFlight, TypeOK
<1>2. QED
  BY <1>1 DEF Held, TypeOK

(* At the start nothing was accepted and nothing is pending.                  *)
LEMMA LedgerInit == Init => Ledger
<1> SUFFICES ASSUME Init, NEW k \in Kind PROVE LedgerOf(k)
  BY DEF Ledger
<1>1. InFlight(k) = <<>> /\ queue[k] = <<>> /\ acked[k] = 0 /\ accepted[k] = 0
  BY DEF Init, InFlight, Kind, NoKind
<1>2. QED
  BY <1>1 DEF LedgerOf, Held

(* Polling a batch moves the head of the queue into the worker's hands.     *)
LEMMA LedgerTake ==
    ASSUME TypeOK, Ledger, NEW k \in Kind, Take(k)
    PROVE  Ledger'
<1> SUFFICES ASSUME NEW j \in Kind PROVE LedgerOf(j)'
  BY DEF Ledger
<1>1. /\ pc = "scan" /\ current = NoKind /\ current' = k /\ k # NoKind
      /\ UNCHANGED <<accepted, acked>>
  BY DEF Take, TypeOK, Kind, NoKind
<1>2. InFlight(k) = <<>> /\ InFlight(j) = <<>>
  BY <1>1 DEF InFlight, Kind, NoKind
<1>3. PICK n \in 1..Len(queue[k]) :
          /\ n <= BatchOf(k)
          /\ batch' = SubSeq(queue[k], 1, n)
          /\ queue' = [queue EXCEPT ![k] = SubSeq(queue[k], n + 1, Len(queue[k]))]
  BY TakeType
<1>4. CASE j = k
  <2>1. /\ InFlight(k)' = SubSeq(queue[k], 1, n)
        /\ queue'[k] = SubSeq(queue[k], n + 1, Len(queue[k]))
    BY <1>1, <1>3 DEF InFlight, TypeOK
  <2>2. queue[k] \in Seq(Nat) /\ Len(queue[k]) \in Nat /\ n \in 0..Len(queue[k])
        /\ acked[k] \in Nat /\ accepted[k] \in Nat
    BY InFlightType
  <2>3. /\ acked[k] + Len(queue[k]) = accepted[k]
        /\ \A i \in 1..Len(queue[k]) : queue[k][i] = acked[k] + i
    BY <1>2, <2>2, SMTT(30) DEF Ledger, LedgerOf, Held
  <2>4. /\ Held(k)' = n
        /\ \A i \in 1..n : InFlight(k)'[i] = queue[k][i]
        /\ Len(queue'[k]) = Len(queue[k]) - n
        /\ \A i \in 1..(Len(queue[k]) - n) : queue'[k][i] = queue[k][n + i]
    BY <2>1, <2>2, SplitSeq DEF Held
  <2>5. \A i \in 1..n : InFlight(k)'[i] = acked[k] + i
    BY <2>2, <2>3, <2>4
  <2>6. \A i \in 1..(Len(queue[k]) - n) : queue'[k][i] = acked[k] + n + i
    <3>1. \A i \in 1..(Len(queue[k]) - n) : n + i \in 1..Len(queue[k])
      BY <2>2
    <3>2. \A i \in 1..(Len(queue[k]) - n) : acked[k] + (n + i) = acked[k] + n + i
      BY <2>2
    <3>3. QED
      BY <2>3, <2>4, <3>1, <3>2
  <2>7. acked[k] + n + (Len(queue[k]) - n) = accepted[k]
    BY <2>2, <2>3
  <2>8. QED
    BY <1>1, <1>4, <2>4, <2>5, <2>6, <2>7 DEF LedgerOf
<1>5. CASE j # k
  <2>1. InFlight(j)' = <<>> /\ queue'[j] = queue[j]
    BY <1>1, <1>3, <1>5 DEF InFlight, TypeOK
  <2>2. LedgerOf(j)
    BY DEF Ledger
  <2>3. QED
    BY <1>1, <1>2, <2>1, <2>2 DEF LedgerOf, Held
<1>6. QED
  BY <1>4, <1>5

(* A successful call acknowledges the batch.                                *)
LEMMA LedgerReturn ==
    ASSUME TypeOK, Ledger, CallReturns
    PROVE  Ledger'
<1> SUFFICES ASSUME NEW j \in Kind PROVE LedgerOf(j)'
  BY DEF Ledger
<1>1. /\ current \in Kind /\ current' = NoKind /\ UNCHANGED <<queue, accepted>>
      /\ acked' = [acked EXCEPT ![current] = @ + Len(batch)]
  BY DEF CallReturns, TypeOK
<1>2. InFlight(j)' = <<>>
  BY <1>1 DEF InFlight, Kind, NoKind
<1>3. LedgerOf(j) /\ Held(j) \in Nat /\ Len(queue[j]) \in Nat /\ acked[j] \in Nat
  BY InFlightType DEF Ledger
<1>4. acked'[j] = acked[j] + Held(j)
  <2>1. CASE j = current
    BY <1>1, <2>1 DEF TypeOK, Held, InFlight
  <2>2. CASE j # current
    <3>1. Held(j) = 0 /\ acked'[j] = acked[j]
      BY <1>1, <2>2 DEF TypeOK, Held, InFlight
    <3>2. QED
      BY <1>3, <3>1
  <2>3. QED
    BY <2>1, <2>2
<1>5. Held(j)' = 0
  BY <1>2 DEF Held
<1>6. /\ acked'[j] + 0 + Len(queue[j]) = accepted[j]
      /\ \A i \in 1..Len(queue[j]) : queue[j][i] = acked'[j] + 0 + i
  BY <1>3, <1>4 DEF LedgerOf
<1>7. QED
  BY <1>1, <1>5, <1>6 DEF LedgerOf

(* A failed batch goes back to where it was taken from.                     *)
LEMMA LedgerPutBack ==
    ASSUME TypeOK, Ledger, PutBack
    PROVE  Ledger'
<1> SUFFICES ASSUME NEW j \in Kind PROVE LedgerOf(j)'
  BY DEF Ledger
<1>1. /\ current \in Kind /\ current' = NoKind /\ UNCHANGED <<acked, accepted>>
      /\ queue' = [queue EXCEPT ![current] = batch \o queue[current]]
  BY DEF PutBack, TypeOK
<1>2. InFlight(j)' = <<>>
  BY <1>1 DEF InFlight, Kind, NoKind
<1>3. /\ LedgerOf(j) /\ InFlight(j) \in Seq(Nat) /\ queue[j] \in Seq(Nat)
      /\ Held(j) \in Nat /\ Len(queue[j]) \in Nat /\ acked[j] \in Nat
  BY InFlightType DEF Ledger
<1>4. queue'[j] = InFlight(j) \o queue[j]
  <2>1. CASE j = current
    BY <1>1, <2>1 DEF TypeOK, InFlight
  <2>2. CASE j # current
    <3>1. InFlight(j) = <<>> /\ queue'[j] = queue[j]
      BY <1>1, <2>2 DEF TypeOK, InFlight
    <3>2. QED
      BY <1>3, <3>1, ConcatEmptySeq
  <2>3. QED
    BY <2>1, <2>2
<1>5. /\ Len(queue'[j]) = Held(j) + Len(queue[j])
      /\ \A i \in 1..(Held(j) + Len(queue[j])) :
             queue'[j][i] = IF i <= Held(j) THEN InFlight(j)[i] ELSE queue[j][i - Held(j)]
  BY <1>3, <1>4, ConcatProperties DEF Held
<1>6. \A i \in 1..(Held(j) + Len(queue[j])) : queue'[j][i] = acked[j] + 0 + i
  <2> SUFFICES ASSUME NEW i \in 1..(Held(j) + Len(queue[j]))
               PROVE  queue'[j][i] = acked[j] + 0 + i
    OBVIOUS
  <2>1. CASE i <= Held(j)
    <3>1. i \in 1..Held(j)
      BY <1>3, <2>1
    <3>2. InFlight(j)[i] = acked[j] + i
      BY <1>3, <3>1 DEF LedgerOf
    <3>3. QED
      BY <1>3, <1>5, <2>1, <3>2
  <2>2. CASE ~(i <= Held(j))
    <3>1. i - Held(j) \in 1..Len(queue[j])
      BY <1>3, <2>2
    <3>2. queue[j][i - Held(j)] = acked[j] + Held(j) + (i - Held(j))
      BY <1>3, <3>1 DEF LedgerOf
    <3>3. QED
      BY <1>3, <1>5, <2>2, <3>2
  <2>3. QED
    BY <2>1, <2>2
<1>7. acked[j] + 0 + (Held(j) + Len(queue[j])) = accepted[j]
  BY <1>3 DEF LedgerOf
<1>8. Held(j)' = 0
  BY <1>2 DEF Held
<1>9. QED
  BY <1>1, <1>5, <1>6, <1>7, <1>8 DEF LedgerOf

(* New items go to the tails.                                               *)
LEMMA LedgerHandOver ==
    ASSUME TypeOK, Ledger, HandOver
    PROVE  Ledger'
<1> SUFFICES ASSUME NEW j \in Kind PROVE LedgerOf(j)'
  BY DEF Ledger
<1>1. PICK cnt \in [Kind -> Nat] : Appended(cnt)
  BY HandOverAppends
<1>2. /\ queue'[j] = queue[j] \o Ids(accepted[j], cnt[j])
      /\ accepted'[j] = accepted[j] + cnt[j]
      /\ acked' = acked /\ InFlight(j)' = InFlight(j) /\ cnt[j] \in Nat
  BY <1>1 DEF Appended, InFlight
<1>3. /\ LedgerOf(j) /\ queue[j] \in Seq(Nat) /\ Held(j) \in Nat
      /\ Len(queue[j]) \in Nat /\ acked[j] \in Nat /\ accepted[j] \in Nat
  BY InFlightType DEF Ledger
<1>4. /\ Ids(accepted[j], cnt[j]) \in Seq(Nat)
      /\ Len(Ids(accepted[j], cnt[j])) = cnt[j]
      /\ \A i \in 1..cnt[j] : Ids(accepted[j], cnt[j])[i] = accepted[j] + i
  BY <1>2, <1>3, IdsType
<1>5. /\ Len(queue'[j]) = Len(queue[j]) + cnt[j]
      /\ \A i \in 1..(Len(queue[j]) + cnt[j]) :
             queue'[j][i] = IF i <= Len(queue[j]) THEN queue[j][i]
                            ELSE Ids(accepted[j], cnt[j])[i - Len(queue[j])]
  <2> DEFINE t == Ids(accepted[j], cnt[j])
  <2>1. queue[j] \in Seq(Nat) /\ t \in Seq(Nat) /\ Len(t) = cnt[j] /\ queue'[j] = queue[j] \o t
    BY <1>2, <1>3, <1>4
  <2> HIDE DEF t
  <2>2. /\ Len(queue[j] \o t) = Len(queue[j]) + Len(t)
        /\ \A i \in 1..(Len(queue[j]) + Len(t)) :
               (queue[j] \o t)[i] = IF i <= Len(queue[j]) THEN queue[j][i]
                                    ELSE t[i - Len(queue[j])]
    BY <2>1, ConcatProperties
  <2>3. QED
    BY <2>1, <2>2 DEF t
<1>6. \A i \in 1..(Len(queue[j]) + cnt[j]) : queue'[j][i] = acked[j] + Held(j) + i
  <2> SUFFICES ASSUME NEW i \in 1..(Len(queue[j]) + cnt[j])
               PROVE  queue'[j][i] = acked[j] + Held(j) + i
    OBVIOUS
  <2>1. CASE i <= Len(queue[j])
    <3>1. i \in 1..Len(queue[j])
      BY <1>2, <1>3, <2>1
    <3>2. QED
      BY <1>3, <1>5, <2>1, <3>1 DEF LedgerOf
  <2>2. CASE ~(i <= Len(queue[j]))
    <3>1. i - Len(queue[j]) \in 1..cnt[j]
      BY <1>2, <1>3, <2>2
    <3>2. queue'[j][i] = accepted[j] + (i - Len(queue[j]))
      BY <1>4, <1>5, <2>2, <3>1
    <3>3. accepted[j] = acked[j] + Held(j) + Len(queue[j])
      BY <1>3 DEF LedgerOf
    <3>4. QED
      BY <1>2, <1>3, <3>2, <3>3, SMTT(30)
  <2>3. QED
    BY <2>1, <2>2
<1>7. acked[j] + Held(j) + (Len(queue[j]) + cnt[j]) = accepted[j] + cnt[j]
  BY <1>2, <1>3 DEF LedgerOf
<1>8. Held(j)' = Held(j)
  BY <1>2 DEF Held
<1>9. \A i \in 1..Held(j) : InFlight(j)[i] = acked[j] + i
  BY <1>3 DEF LedgerOf
<1>10. QED
  BY <1>2, <1>5, <1>6, <1>7, <1>8, <1>9 DEF LedgerOf

(* No step loses, duplicates or reorders a pending item.                      *)
LEMMA LedgerStep == TypeOK /\ Ledger /\ [Next]_vars => Ledger'
<1> SUFFICES ASSUME TypeOK, Ledger, [Next]_vars PROVE Ledger'
  OBVIOUS
<1>1. CASE UNCHANGED ledgerVars
  BY <1>1 DEF Ledger, LedgerOf, Held, InFlight, ledgerVars
<1>2. QED
  BY <1>1, MovesOrNot, LedgerTake, LedgerReturn, LedgerPutBack, LedgerHandOver

(* The ledger, kept kind by kind, says what FifoLedger says.                  *)
LEMMA LedgerIsFifo == TypeOK /\ Ledger => FifoLedger
<1> SUFFICES ASSUME TypeOK, Ledger, NEW k \in Kind
             PROVE  /\ acked[k] + Len(Pending(k)) = accepted[k]
                    /\ \A i \in 1..Len(Pending(k)) : Pending(k)[i] = acked[k] + i
  BY DEF FifoLedger
<1>1. /\ LedgerOf(k) /\ InFlight(k) \in Seq(Nat) /\ queue[k] \in Seq(Nat)
      /\ Held(k) \in Nat /\ Len(queue[k]) \in Nat /\ acked[k] \in Nat
  BY InFlightType DEF Ledger
<1>2. /\ Len(Pending(k)) = Held(k) + Len(queue[k])
      /\ \A i \in 1..(Held(k) + Len(queue[k])) :
             Pending(k)[i] = IF i <= Held(k) THEN InFlight(k)[i] ELSE queue[k][i - Held(k)]
  BY <1>1, ConcatProperties DEF Held, Pending
<1>3. ASSUME NEW i \in 1..(Held(k) + Len(queue[k])) PROVE Pending(k)[i] = acked[k] + i
  <2>1. CASE i <= Held(k)
    <3>1. i \in 1..Held(k)
      BY <1>1, <2>1
    <3>2. QED
      BY <1>1, <1>2, <2>1, <3>1 DEF LedgerOf
  <2>2. CASE ~(i <= Held(k))
    <3>1. i - Held(k) \in 1..Len(queue[k])
      BY <1>1, <2>2
    <3>2. queue[k][i - Held(k)] = acked[k] + Held(k) + (i - Held(k))
      BY <1>1, <3>1 DEF LedgerOf
    <3>3. acked[k] + Held(k) + (i - Held(k)) = acked[k] + i
      BY <1>1
    <3>4. Pending(k)[i] = queue[k][i - Held(k)]
      BY <1>2, <2>2
    <3>5. QED
      BY <3>2, <3>3, <3>4
  <2>3. QED
    BY <2>1, <2>2
<1>4. acked[k] + (Held(k) + Len(queue[k])) = accepted[k]
  BY <1>1 DEF LedgerOf
<1>5. QED
  BY <1>2, <1>3, <1>4

(* Nothing accepted by a DeliveryWorker is lost, duplicated or overtaken     *)
(* between the queue and the acknowledged call, whatever calls fail:        *)
(* deliverMessages() and its four siblings, receive() and its four siblings.*)
THEOREM NothingLost == Spec => []FifoLedger
<1>1. TypeOK /\ Ledger /\ [Next]_vars => (TypeOK /\ Ledger)'
  BY NextTypeOK, LedgerStep
<1>2. Init => TypeOK /\ Ledger
  BY InitTypeOK, LedgerInit
<1>3. QED
  BY <1>1, <1>2, LedgerIsFifo, PTL DEF Spec

-----------------------------------------------------------------------------
(* What the endpoint has seen, and how long the message queue can get       *)

(* In a call the last item of the batch is the highest one handed out.      *)
LEMMA BatchLast ==
    ASSUME TypeOK, Ledger, pc \in {"call", "failed"}
    PROVE  /\ current \in Kind /\ batch \in Seq(Nat) /\ Len(batch) \in Nat \ {0}
           /\ batch[Len(batch)] = acked[current] + Len(batch)
           /\ acked[current] + Len(batch) <= accepted[current]
<1>1. current \in Kind /\ batch \in Seq(Nat) /\ batch # <<>>
  BY DEF TypeOK
<1>2. Len(batch) \in Nat \ {0}
  BY <1>1, EmptySeq
<1>3. InFlight(current) = batch /\ Held(current) = Len(batch)
  BY DEF InFlight, Held
<1>4. LedgerOf(current) /\ Len(queue[current]) \in Nat /\ acked[current] \in Nat
      /\ accepted[current] \in Nat
  BY <1>1, InFlightType DEF Ledger
<1>5. Len(batch) \in 1..Held(current)
  BY <1>2, <1>3
<1>6. batch[Len(batch)] = acked[current] + Len(batch)
  BY <1>3, <1>4, <1>5 DEF LedgerOf
<1>7. acked[current] + Len(batch) <= accepted[current]
  BY <1>2, <1>3, <1>4 DEF LedgerOf
<1>8. QED
  BY <1>1, <1>2, <1>6, <1>7

(* What is acknowledged was handed to the endpoint, after every step.         *)
LEMMA AtLeastOnceStep == TypeOK /\ Ledger /\ AtLeastOnce /\ [Next]_vars => AtLeastOnce'
<1> SUFFICES ASSUME TypeOK, Ledger, AtLeastOnce, [Next]_vars, NEW k \in Kind
             PROVE  acked'[k] <= received'[k] /\ received'[k] <= accepted'[k]
  BY DEF AtLeastOnce
<1>1. /\ acked \in [Kind -> Nat] /\ received \in [Kind -> Nat] /\ accepted \in [Kind -> Nat]
      /\ acked[k] <= received[k] /\ received[k] <= accepted[k]
  BY DEF TypeOK, AtLeastOnce
<1>2. CASE UNCHANGED <<acked, received, accepted>>
  BY <1>1, <1>2
<1>3. CASE HandOver
  <2>1. PICK cnt \in [Kind -> Nat] : Appended(cnt)
    BY <1>3, HandOverAppends
  <2>2. accepted'[k] = accepted[k] + cnt[k] /\ cnt[k] \in Nat /\ UNCHANGED <<acked, received>>
    BY <2>1 DEF Appended
  <2>3. QED
    BY <1>1, <2>2
<1>4. ASSUME pc \in {"call", "failed"}, Processed,
             acked' = acked \/ acked' = [acked EXCEPT ![current] = @ + Len(batch)],
             accepted' = accepted
      PROVE  acked'[k] <= received'[k] /\ received'[k] <= accepted'[k]
  <2>1. /\ current \in Kind /\ Len(batch) \in Nat
        /\ batch[Len(batch)] = acked[current] + Len(batch)
        /\ acked[current] + Len(batch) <= accepted[current]
    BY <1>4, BatchLast
  <2>2. received' = [received EXCEPT ![current] = Larger(received[current], acked[current] + Len(batch))]
    BY <1>4, <2>1 DEF Processed
  <2>3. CASE k = current
    <3>1. received'[k] = Larger(received[k], acked[k] + Len(batch))
      BY <1>1, <2>2, <2>3
    <3>2. acked'[k] <= acked[k] + Len(batch)
      BY <1>1, <1>4, <2>1, <2>3
    <3>3. acked'[k] \in Nat
      BY <1>1, <1>4, <2>1, <2>3
    <3>4. QED
      BY <1>1, <1>4, <2>1, <2>3, <3>1, <3>2, <3>3 DEF Larger
  <2>4. CASE k # current
    BY <1>1, <1>4, <2>1, <2>2, <2>4
  <2>5. QED
    BY <2>3, <2>4
<1>5. CASE CallReturns
  BY <1>4, <1>5 DEF CallReturns
<1>6. CASE CallThrows
  BY <1>2, <1>4, <1>6 DEF CallThrows
<1>7. QED
  BY <1>2, <1>3, <1>5, <1>6 DEF Next, vars, Work, Manager, HandOver, LoopTest, CheckEnded,
     TellEnded, Take, NothingToDo, PutBack, Settle, SpuriousWakeup, BeginEnd, FinishEnd,
     StopDelivery, Remap

(* An acknowledged item was processed by the endpoint, and the endpoint     *)
(* processed nothing that was not accepted: run(), deliverMessages() etc.   *)
THEOREM DeliveredAtLeastOnce == Spec => []AtLeastOnce
<1>1. Init => AtLeastOnce
  BY DEF Init, AtLeastOnce
<1>2. TypeOK /\ Ledger /\ AtLeastOnce /\ [Next]_vars => (TypeOK /\ Ledger /\ AtLeastOnce)'
  BY NextTypeOK, LedgerStep, AtLeastOnceStep
<1>3. Init => TypeOK /\ Ledger
  BY InitTypeOK, LedgerInit
<1>4. QED
  BY <1>1, <1>2, <1>3, PTL DEF Spec

BatchBound == Len(batch) <= BatchSize
HeldBound == Held("message") + Len(queue["message"]) <= MaxQueue + BatchSize

(* receive() fills up to the limit; only a batch put back exceeds it.         *)
LEMMA BoundStep ==
    TypeOK /\ BatchBound /\ HeldBound /\ [Next]_vars => BatchBound' /\ HeldBound'
<1> DEFINE m == "message"
<1> SUFFICES ASSUME TypeOK, BatchBound, HeldBound, [Next]_vars
             PROVE  BatchBound' /\ HeldBound'
  OBVIOUS
<1>0. /\ m \in Kind /\ BatchSize \in Nat /\ MaxQueue \in Nat
      /\ Held(m) \in Nat /\ Len(queue[m]) \in Nat /\ batch \in Seq(Nat)
      /\ InFlight(m) \in Seq(Nat) /\ queue[m] \in Seq(Nat) /\ m # NoKind
  <2>1. m \in Kind /\ m # NoKind
    BY DEF Kind, NoKind
  <2>2. QED
    BY <2>1, InFlightType, WorkerAssumption DEF TypeOK
<1>1. CASE UNCHANGED ledgerVars
  BY <1>1 DEF BatchBound, HeldBound, Held, InFlight, ledgerVars
<1>2. ASSUME NEW k \in Kind, Take(k) PROVE BatchBound' /\ HeldBound'
  <2>1. PICK n \in 1..Len(queue[k]) :
            /\ n <= BatchOf(k)
            /\ batch' = SubSeq(queue[k], 1, n)
            /\ queue' = [queue EXCEPT ![k] = SubSeq(queue[k], n + 1, Len(queue[k]))]
    BY <1>2, TakeType
  <2>2. queue[k] \in Seq(Nat) /\ Len(queue[k]) \in Nat /\ n \in 0..Len(queue[k])
    BY InFlightType
  <2>3. Len(batch') = n /\ Len(SubSeq(queue[k], n + 1, Len(queue[k]))) = Len(queue[k]) - n
    BY <2>1, <2>2, SplitSeq
  <2>4. BatchBound'
    BY <1>0, <2>1, <2>2, <2>3, BatchOfType DEF BatchBound
  <2>5. pc = "scan" /\ current = NoKind /\ current' = k /\ InFlight(m) = <<>> /\ Held(m) = 0
    BY <1>0, <1>2 DEF Take, TypeOK, InFlight, Held
  <2>6. CASE k = m
    <3>1. Held(m)' = n /\ Len(queue'[m]) = Len(queue[m]) - n
      BY <2>1, <2>3, <2>5, <2>6 DEF Held, InFlight, TypeOK
    <3>2. QED
      BY <1>0, <2>2, <2>4, <2>5, <2>6, <3>1 DEF HeldBound
  <2>7. CASE k # m
    <3>1. Held(m)' = 0 /\ queue'[m] = queue[m]
      BY <2>1, <2>5, <2>7 DEF Held, InFlight, TypeOK
    <3>2. QED
      BY <2>4, <2>5, <3>1 DEF HeldBound
  <2>8. QED
    BY <2>6, <2>7
<1>3. CASE CallReturns
  <2>1. batch' = <<>> /\ current' = NoKind /\ queue' = queue
    BY <1>3 DEF CallReturns
  <2>2. Held(m)' = 0 /\ Len(batch') = 0
    BY <1>0, <2>1 DEF Held, InFlight
  <2>3. QED
    BY <1>0, <2>1, <2>2 DEF BatchBound, HeldBound
<1>4. CASE PutBack
  <2>1. /\ batch' = <<>> /\ current' = NoKind /\ current \in Kind
        /\ queue' = [queue EXCEPT ![current] = batch \o queue[current]]
    BY <1>4 DEF PutBack, TypeOK
  <2>2. Held(m)' = 0 /\ Len(batch') = 0
    BY <1>0, <2>1 DEF Held, InFlight
  <2>3. Len(queue'[m]) = Held(m) + Len(queue[m])
    <3>1. CASE current = m
      <4>1. queue'[m] = InFlight(m) \o queue[m]
        BY <1>0, <2>1, <3>1 DEF TypeOK, InFlight
      <4>2. QED
        BY <1>0, <4>1, ConcatProperties DEF Held
    <3>2. CASE current # m
      <4>1. queue'[m] = queue[m] /\ Held(m) = 0
        BY <1>0, <2>1, <3>2 DEF TypeOK, Held, InFlight
      <4>2. QED
        BY <1>0, <4>1
    <3>3. QED
      BY <3>1, <3>2
  <2>4. QED
    BY <1>0, <2>2, <2>3 DEF BatchBound, HeldBound
<1>5. CASE HandOver
  <2>1. PICK cnt \in [Kind -> Nat] : Appended(cnt)
    BY <1>5, HandOverAppends
  <2> DEFINE t == Ids(accepted[m], cnt[m])
  <2>2. /\ cnt[m] \in Nat /\ cnt[m] <= Room /\ queue'[m] = queue[m] \o t
        /\ UNCHANGED <<batch, current>>
    BY <1>0, <2>1 DEF Appended
  <2>3. t \in Seq(Nat) /\ Len(t) = cnt[m]
    BY <1>0, <2>2, IdsType DEF TypeOK
  <2> HIDE DEF t
  <2>4. Len(queue'[m]) = Len(queue[m]) + cnt[m]
    <3>1. Len(queue[m] \o t) = Len(queue[m]) + Len(t)
      BY <1>0, <2>3, ConcatProperties
    <3>2. QED
      BY <2>2, <2>3, <3>1
  <2>5. Held(m)' = Held(m) /\ Held(m) <= BatchSize
    BY <1>0, <2>2 DEF Held, InFlight, BatchBound
  <2>6. cnt[m] = 0 \/ Len(queue[m]) + cnt[m] <= MaxQueue
    BY <1>0, <2>2 DEF Room
  <2>7. QED
    BY <1>0, <2>2, <2>4, <2>5, <2>6, SMTT(30) DEF BatchBound, HeldBound
<1>6. QED
  BY <1>1, <1>2, <1>3, <1>4, <1>5, MovesOrNot

(* The message queue never holds more than its maximum and one batch that    *)
(* was put back over it: receive() and deliverMessages().                    *)
THEOREM QueueIsBounded == Spec => []QueueBound
<1>1. Init => BatchBound /\ HeldBound
  <2> SUFFICES ASSUME Init PROVE BatchBound /\ HeldBound
    OBVIOUS
  <2>1. batch = <<>> /\ queue["message"] = <<>> /\ InFlight("message") = <<>>
    BY DEF Init, InFlight, Kind
  <2>2. QED
    BY <2>1, WorkerAssumption DEF BatchBound, HeldBound, Held
<1>2. TypeOK /\ HeldBound => QueueBound
  <2> SUFFICES ASSUME TypeOK, HeldBound PROVE QueueBound
    OBVIOUS
  <2>1. "message" \in Kind
    BY DEF Kind
  <2>2. InFlight("message") \in Seq(Nat) /\ queue["message"] \in Seq(Nat)
    BY <2>1, InFlightType
  <2>3. Len(Pending("message")) = Held("message") + Len(queue["message"])
    BY <2>2, ConcatProperties DEF Pending, Held
  <2>4. QED
    BY <2>3 DEF HeldBound, QueueBound
<1>3. TypeOK /\ BatchBound /\ HeldBound /\ [Next]_vars => (TypeOK /\ BatchBound /\ HeldBound)'
  BY NextTypeOK, BoundStep
<1>4. QED
  BY <1>1, <1>2, <1>3, InitTypeOK, PTL DEF Spec

-----------------------------------------------------------------------------
(* Waiting, retrying and ending                                             *)

(* NonEmpty depends on the queues only, and handing over never empties one. *)
LEMMA HandOverKeeps ==
    ASSUME TypeOK, NEW cnt \in [Kind -> Nat], Appended(cnt)
    PROVE  NonEmpty \subseteq NonEmpty'
<1> SUFFICES ASSUME NEW k \in Kind, queue[k] # <<>> PROVE queue'[k] # <<>>
  BY DEF NonEmpty
<1> DEFINE t == Ids(accepted[k], cnt[k])
<1>1. queue[k] \in Seq(Nat) /\ accepted[k] \in Nat /\ cnt[k] \in Nat
  BY DEF TypeOK
<1>2. t \in Seq(Nat)
  BY <1>1, IdsType
<1>3. queue'[k] = queue[k] \o t
  BY DEF Appended
<1> HIDE DEF t
<1>4. QED
  BY <1>1, <1>2, <1>3, ConcatEqualIffEmpty

(* A worker that waits was not left with work by any step.                    *)
LEMMA NoLostWakeupStep == TypeOK /\ NoLostWakeup /\ [Next]_vars => NoLostWakeup'
<1> SUFFICES ASSUME TypeOK, NoLostWakeup, [Next]_vars PROVE NoLostWakeup'
  OBVIOUS
<1>1. CASE HandOver
  <2>1. PICK cnt \in [Kind -> Nat] : Appended(cnt)
    BY <1>1, HandOverAppends
  <2>2. pc' # "waiting"
    BY <2>1 DEF Appended, Signal
  <2>3. QED
    BY <2>2 DEF NoLostWakeup
<1>2. CASE FinishEnd
  BY <1>2 DEF NoLostWakeup, FinishEnd, Signal
<1>3. CASE BeginEnd
  BY <1>3 DEF NoLostWakeup, BeginEnd, NonEmpty
<1>4. CASE Settle
  BY <1>4 DEF NoLostWakeup, Settle, NonEmpty, ended
<1>5. CASE StopDelivery \/ Remap \/ UNCHANGED vars
  BY <1>5 DEF NoLostWakeup, StopDelivery, Remap, vars, NonEmpty, ended
<1>6. CASE SpuriousWakeup \/ LoopTest \/ CheckEnded \/ TellEnded \/ NothingToDo
           \/ CallReturns \/ CallThrows \/ PutBack \/ \E k \in Kind : Take(k)
  <2>1. pc' # "waiting"
    BY <1>6 DEF SpuriousWakeup, LoopTest, CheckEnded, TellEnded, NothingToDo,
       CallReturns, CallThrows, PutBack, Take
  <2>2. QED
    BY <2>1 DEF NoLostWakeup
<1>7. QED
  BY <1>1, <1>2, <1>3, <1>4, <1>5, <1>6 DEF Next, Work, Manager, HandOver

(* await() is never entered, and never stayed in, with work to do:           *)
(* the last critical section of run() against receive(), reservationEnded().*)
THEOREM WakeupsArrive == Spec => []NoLostWakeup
<1>1. Init => NoLostWakeup
  BY DEF Init, NoLostWakeup
<1>2. QED
  BY <1>1, InitTypeOK, NextTypeOK, NoLostWakeupStep, PTL DEF Spec

(* The history of failed calls against the worker's own counter: they agree *)
(* until a removal missed the worker, and from then on both are at the end. *)
RetryInv ==
    /\ ~spared => failStreak = IF pc = "failed" THEN errors + 1 ELSE errors
    /\ spared => errors = Retries /\ failStreak >= Retries
    /\ errors <= Retries
    /\ errors >= Retries => spared \/ (stopDelivery /\ pc \in {"settle", "loop", "done"})
    /\ errors > 0 => current # NoKind \/ NonEmpty # {}
    /\ pc = "scan" /\ seen = {} => errors = 0

EndInv ==
    /\ pc = "ending" => experimentEnded /\ NonEmpty = {}
    /\ told => pc = "done"

(* The failures in a row are counted one by one and reset by a success.       *)
LEMMA RetryStep ==
    TypeOK /\ RetryInv /\ [Next]_vars => RetryInv'
<1> SUFFICES ASSUME TypeOK, RetryInv, [Next]_vars PROVE RetryInv'
  OBVIOUS
<1>0. errors \in Nat /\ failStreak \in Nat /\ Retries \in Nat \ {0} /\ spared \in BOOLEAN
      /\ (pc \in {"call", "failed"} <=> current # NoKind)
  BY WorkerAssumption DEF TypeOK
<1>1. CASE LoopTest
  BY <1>0, <1>1 DEF RetryInv, LoopTest, NonEmpty, registry
<1>2. CASE CheckEnded
  <2>1. UNCHANGED <<errors, failStreak, spared, current, stopDelivery, queue>> /\ current = NoKind
        /\ seen' = NonEmpty /\ pc = "check" /\ pc' \in {"ending", "scan"}
    BY <1>0, <1>2 DEF CheckEnded, registry
  <2>2. NonEmpty' = NonEmpty
    BY <2>1 DEF NonEmpty
  <2>3. NonEmpty = {} => errors = 0
    BY <1>0, <2>1 DEF RetryInv
  <2>4. errors >= Retries => spared
    BY <1>0, <2>1 DEF RetryInv
  <2>5. QED
    BY <1>0, <2>1, <2>2, <2>3, <2>4 DEF RetryInv
<1>3. CASE TellEnded
  <2>1. UNCHANGED <<errors, failStreak, spared, current, queue>> /\ pc = "ending" /\ pc' = "done"
    BY <1>3 DEF TellEnded
  <2>2. NonEmpty' = NonEmpty
    BY <2>1 DEF NonEmpty
  <2>3. errors >= Retries => spared
    BY <1>0, <2>1 DEF RetryInv
  <2>4. QED
    BY <1>0, <2>1, <2>2, <2>3 DEF RetryInv
<1>4. ASSUME NEW k \in Kind, Take(k) PROVE RetryInv'
  <2>1. k # NoKind
    BY DEF Kind, NoKind
  <2>2. QED
    BY <1>0, <1>4, <2>1 DEF RetryInv, Take, registry
<1>5. CASE NothingToDo
  BY <1>0, <1>5 DEF RetryInv, NothingToDo, NonEmpty, registry
<1>6. CASE CallReturns
  BY <1>0, <1>6 DEF RetryInv, CallReturns
<1>7. CASE CallThrows
  <2>1. UNCHANGED <<errors, spared, current>> /\ pc = "call" /\ pc' = "failed" /\ current # NoKind
    BY <1>0, <1>7 DEF CallThrows, registry
  <2>2. failStreak' = IF failStreak + 1 < Retries + 1 THEN failStreak + 1 ELSE Retries + 1
    BY <1>7 DEF CallThrows, Smaller
  <2>3. errors >= Retries => spared
    BY <1>0, <2>1 DEF RetryInv
  <2>4. ~spared => failStreak' = errors + 1
    BY <1>0, <2>1, <2>2, <2>3 DEF RetryInv
  <2>5. spared => failStreak' >= Retries
    BY <1>0, <2>2 DEF RetryInv
  <2>6. QED
    BY <1>0, <2>1, <2>3, <2>4, <2>5 DEF RetryInv
<1>8. CASE PutBack
  <2>1. current \in Kind /\ batch \in Seq(Nat) /\ batch # <<>> /\ queue[current] \in Seq(Nat)
    BY <1>8 DEF PutBack, TypeOK
  <2>2. queue'[current] = batch \o queue[current]
    BY <1>8, <2>1 DEF PutBack, TypeOK
  <2>3. queue'[current] # <<>>
    BY <2>1, <2>2, ConcatEqualIffEmpty
  <2>4. NonEmpty' # {}
    BY <2>1, <2>3 DEF NonEmpty
  <2>5. /\ ~spared => errors < Retries /\ failStreak = errors + 1
        /\ spared => errors = Retries /\ failStreak >= Retries
    BY <1>0, <1>8 DEF RetryInv, PutBack
  <2>6. /\ errors' = IF errors + 1 < Retries THEN errors + 1 ELSE Retries
        /\ spared' = (spared \/ (errors + 1 >= Retries /\ ~registered))
        /\ failStreak' = failStreak /\ pc' = "settle"
        /\ errors + 1 >= Retries => stopDelivery' = (stopDelivery \/ registered)
    BY <1>8 DEF PutBack, Smaller, RemovesItself
  <2>7. errors' <= Retries /\ (errors' >= Retries => errors + 1 >= Retries)
    BY <1>0, <2>6
  <2>8. ~spared' => failStreak' = errors'
    BY <1>0, <2>5, <2>6
  <2>9. spared' => errors' = Retries /\ failStreak' >= Retries
    BY <1>0, <2>5, <2>6
  <2>10. errors' >= Retries => spared' \/ stopDelivery'
    BY <2>6, <2>7
  <2>11. QED
    BY <1>0, <2>4, <2>6, <2>7, <2>8, <2>9, <2>10 DEF RetryInv
<1>9. CASE Settle
  <2>1. UNCHANGED <<errors, failStreak, spared, current, stopDelivery, queue>> /\ pc = "settle"
        /\ pc' = IF ~experimentEnded /\ ~stopDelivery /\ NonEmpty = {} THEN "waiting" ELSE "loop"
    BY <1>9 DEF Settle, registry
  <2>2. NonEmpty' = NonEmpty
    BY <2>1 DEF NonEmpty
  <2>3. QED
    BY <1>0, <2>1, <2>2 DEF RetryInv
<1>10. CASE SpuriousWakeup
  BY <1>0, <1>10 DEF RetryInv, SpuriousWakeup, NonEmpty, registry
<1>11. CASE HandOver
  <2>1. PICK cnt \in [Kind -> Nat] : Appended(cnt)
    BY <1>11, HandOverAppends
  <2>2. NonEmpty \subseteq NonEmpty'
    BY <2>1, HandOverKeeps
  <2>3. UNCHANGED <<errors, failStreak, spared, current, stopDelivery, seen>>
        /\ pc' = IF pc = "waiting" THEN "loop" ELSE pc
    BY <2>1 DEF Appended, Signal, registry
  <2>4. QED
    BY <1>0, <2>2, <2>3 DEF RetryInv
<1>12. CASE BeginEnd
  BY <1>0, <1>12 DEF RetryInv, BeginEnd, NonEmpty, registry
<1>13. CASE FinishEnd
  BY <1>0, <1>13 DEF RetryInv, FinishEnd, Signal, NonEmpty, registry
<1>14. CASE StopDelivery
  BY <1>0, <1>14 DEF RetryInv, StopDelivery, NonEmpty
<1>17. CASE Remap
  BY <1>0, <1>17 DEF RetryInv, Remap, NonEmpty
<1>15. CASE UNCHANGED vars
  BY <1>15 DEF RetryInv, vars, NonEmpty
<1>16. QED
  BY <1>1, <1>2, <1>3, <1>4, <1>5, <1>6, <1>7, <1>8, <1>9, <1>10, <1>11, <1>12, <1>13,
     <1>14, <1>15, <1>17 DEF Next, Work, Manager, HandOver

(* The worker is told of the end only after the manager flagged it.           *)
LEMMA EndStep == TypeOK /\ EndInv /\ [Next]_vars => EndInv'
<1> SUFFICES ASSUME TypeOK, EndInv, [Next]_vars PROVE EndInv'
  OBVIOUS
<1>1. CASE HandOver
  <2>1. PICK cnt \in [Kind -> Nat] : Appended(cnt)
    BY <1>1, HandOverAppends
  <2>2. pc # "ending" /\ told' = told /\ pc' = IF pc = "waiting" THEN "loop" ELSE pc
    BY <2>1 DEF Appended, Signal, LockFree
  <2>3. QED
    BY <2>2 DEF EndInv
<1>2. CASE CheckEnded
  BY <1>2 DEF EndInv, CheckEnded, NonEmpty, ended
<1>3. CASE TellEnded
  BY <1>3 DEF EndInv, TellEnded
<1>4. CASE LoopTest \/ NothingToDo \/ CallReturns \/ CallThrows \/ PutBack
           \/ Settle \/ SpuriousWakeup \/ \E k \in Kind : Take(k)
  <2>1. pc \notin {"done", "ending"} /\ pc' # "ending" /\ told' = told
    BY <1>4 DEF LoopTest, NothingToDo, CallReturns, CallThrows, PutBack, Settle,
       SpuriousWakeup, Take
  <2>2. QED
    BY <2>1 DEF EndInv
<1>5. CASE BeginEnd \/ FinishEnd \/ StopDelivery \/ Remap \/ UNCHANGED vars
  BY <1>5 DEF EndInv, BeginEnd, FinishEnd, StopDelivery, Remap, Signal, LockFree, vars,
     NonEmpty, ended
<1>6. QED
  BY <1>1, <1>2, <1>3, <1>4, <1>5 DEF Next, Work, Manager, HandOver

(* At the start no call failed and the reservation has not ended.             *)
LEMMA RetryEndInit == Init => RetryInv /\ EndInv
  BY WorkerAssumption DEF Init, RetryInv, EndInv

(* An endpoint that failed RETRIES calls in a row is called again only if the *)
(* removal that the worker asked for missed it: run(), removeController().   *)
THEOREM RetriesAreBounded == Spec => []RetriesBound
<1>1. TypeOK /\ RetryInv => RetriesBound
  BY WorkerAssumption DEF TypeOK, RetryInv, RetriesBound
<1>2. QED
  BY <1>1, InitTypeOK, NextTypeOK, RetryEndInit, RetryStep, PTL DEF Spec

(* The worker stops on its own only after RETRIES failed calls in a row, or   *)
(* when the reservation ended and everything accepted was acknowledged.      *)
THEOREM StopsForAReason == Spec => GivesUpLate
<1> DEFINE I == TypeOK /\ Ledger /\ RetryInv /\ EndInv
           Reason == (stopDelivery' # stopDelivery /\ pc # pc')
                       => \/ failStreak >= Retries
                          \/ experimentEnded /\ \A k \in Kind : acked[k] = accepted[k]
<1>1. I /\ [Next]_vars => I'
  BY NextTypeOK, LedgerStep, RetryStep, EndStep
<1>2. Init => I
  BY InitTypeOK, LedgerInit, RetryEndInit
<1>3. I /\ [Next]_vars => [Reason]_vars
  <2> SUFFICES ASSUME I, Next, stopDelivery' # stopDelivery, pc # pc'
               PROVE  \/ failStreak >= Retries
                      \/ experimentEnded /\ \A k \in Kind : acked[k] = accepted[k]
    BY DEF vars
  <2>1. TellEnded \/ PutBack
    <3>1. ~HandOver
      BY HandOverAppends DEF Appended
    <3>2. QED
      BY <3>1 DEF Next, Work, Manager, HandOver, LoopTest, CheckEnded, Take, NothingToDo,
         CallReturns, CallThrows, Settle, SpuriousWakeup, BeginEnd, FinishEnd, StopDelivery, Remap
  <2>2. CASE PutBack
    <3>1. errors + 1 >= Retries /\ pc = "failed"
      BY <2>2 DEF PutBack
    <3>2. QED
      BY <3>1, WorkerAssumption DEF RetryInv, TypeOK
  <2>3. CASE TellEnded
    <3>1. experimentEnded /\ NonEmpty = {} /\ current = NoKind
      BY <2>3 DEF TellEnded, EndInv, TypeOK
    <3>2. ASSUME NEW k \in Kind PROVE acked[k] = accepted[k]
      <4>1. queue[k] = <<>> /\ InFlight(k) = <<>>
        BY <3>1 DEF NonEmpty, InFlight, Kind, NoKind
      <4>2. Held(k) = 0 /\ Len(queue[k]) = 0
        BY <4>1 DEF Held
      <4>3. QED
        BY <4>2, InFlightType DEF Ledger, LedgerOf
    <3>3. QED
      BY <3>1, <3>2
  <2>4. QED
    BY <2>1, <2>2, <2>3
<1>4. QED
  BY <1>1, <1>2, <1>3, PTL DEF Spec, GivesUpLate

(* What a full queue drops is announced or still to be announced.             *)
LEMMA DropsStep == TypeOK /\ DropsAccounted /\ [Next]_vars => DropsAccounted'
<1> SUFFICES ASSUME TypeOK, DropsAccounted, [Next]_vars PROVE DropsAccounted'
  OBVIOUS
<1>1. CASE HandOver
  BY <1>1, HandOverDrops
<1>2. CASE UNCHANGED drops
  BY <1>2 DEF DropsAccounted, drops
<1>3. QED
  BY <1>1, <1>2 DEF Next, vars, drops, Work, Manager, HandOver, LoopTest, CheckEnded, TellEnded,
     Take, NothingToDo, CallReturns, CallThrows, PutBack, Settle, SpuriousWakeup, BeginEnd,
     FinishEnd, StopDelivery, Remap

(* Every dropped message is counted in exactly one notification, or waits to *)
(* be: receive() and enqueueDropNotificationIfNotificationRateAllows().      *)
THEOREM DropsAreAccounted == Spec => []DropsAccounted
<1>1. Init => DropsAccounted
  BY DEF Init, DropsAccounted
<1>2. QED
  BY <1>1, InitTypeOK, NextTypeOK, DropsStep, PTL DEF Spec

-----------------------------------------------------------------------------
(* The worker implements its channel                                        *)

(* The ledger determines what is pending.                                   *)
PendingIsIds ==
    \A k \in Kind : /\ accepted[k] - acked[k] \in Nat
                    /\ Pending(k) = Ids(acked[k], accepted[k] - acked[k])

(* What is pending is exactly what was accepted and not yet acknowledged.     *)
LEMMA LedgerCanon == TypeOK /\ Ledger => PendingIsIds
<1> SUFFICES ASSUME TypeOK, Ledger, NEW k \in Kind
             PROVE  /\ accepted[k] - acked[k] \in Nat
                    /\ Pending(k) = Ids(acked[k], accepted[k] - acked[k])
  BY DEF PendingIsIds
<1> DEFINE n == Len(Pending(k))
           t == Ids(acked[k], n)
<1>1. /\ acked[k] \in Nat /\ accepted[k] \in Nat
      /\ InFlight(k) \in Seq(Nat) /\ queue[k] \in Seq(Nat)
  BY InFlightType
<1>2. Pending(k) \in Seq(Nat)
  BY <1>1, ConcatProperties DEF Pending
<1>3. n \in Nat /\ acked[k] + n = accepted[k]
      /\ \A i \in 1..n : Pending(k)[i] = acked[k] + i
  BY <1>2, LedgerIsFifo DEF FifoLedger
<1>4. t \in Seq(Nat) /\ Len(t) = n /\ \A i \in 1..n : t[i] = acked[k] + i
  BY <1>1, <1>3, IdsType
<1>5. Pending(k) = t
  <2> HIDE DEF t
  <2>1. Len(Pending(k)) = Len(t) /\ \A i \in 1..Len(Pending(k)) : Pending(k)[i] = t[i]
    BY <1>3, <1>4
  <2>2. QED
    BY <1>2, <1>4, <2>1, SeqEqual
<1>6. accepted[k] - acked[k] = n
  BY <1>1, <1>3
<1>7. QED
  BY <1>3, <1>5, <1>6

(* A run of numbers without its first m is the run that starts m later.       *)
LEMMA DropHead ==
    ASSUME NEW a \in Nat, NEW n \in Nat, NEW m \in 0..n
    PROVE  SubSeq(Ids(a, n), m + 1, Len(Ids(a, n))) = Ids(a + m, n - m)
<1> DEFINE s == Ids(a, n)
           u == SubSeq(s, m + 1, Len(s))
           v == Ids(a + m, n - m)
<1>1. s \in Seq(Nat) /\ Len(s) = n /\ \A i \in 1..n : s[i] = a + i
  BY IdsType
<1>2. n - m \in Nat /\ a + m \in Nat
  OBVIOUS
<1>3. v \in Seq(Nat) /\ Len(v) = n - m /\ \A i \in 1..(n - m) : v[i] = a + m + i
  BY <1>2, IdsType
<1>4. u \in Seq(Nat) /\ Len(u) = n - m /\ \A i \in 1..(n - m) : u[i] = s[m + i]
  <2> HIDE DEF s
  <2>1. QED
    BY <1>1, SplitSeq
<1>5. \A i \in 1..(n - m) : u[i] = v[i]
  <2> HIDE DEF s, u, v
  <2> SUFFICES ASSUME NEW i \in 1..(n - m) PROVE u[i] = v[i]
    OBVIOUS
  <2>1. m + i \in 1..n /\ a + (m + i) = a + m + i
    OBVIOUS
  <2>2. QED
    BY <1>1, <1>3, <1>4, <2>1
<1>6. QED
  <2> HIDE DEF s, u, v
  <2>1. u = v
    BY <1>3, <1>4, <1>5, SeqEqual
  <2>2. QED
    BY <2>1 DEF s, u, v

pend == [k \in Kind |-> Pending(k)]

ChannelInv == TypeOK /\ Ledger /\ EndInv

(* The worker starts as an empty channel.                                     *)
LEMMA ChannelInit == Init => Channel!Init
<1> SUFFICES ASSUME Init PROVE Channel!Init
  OBVIOUS
<1>1. ASSUME NEW k \in Kind PROVE Pending(k) = <<>>
  <2>1. InFlight(k) = <<>> /\ queue[k] = <<>>
    BY DEF Init, InFlight, Kind, NoKind
  <2>2. QED
    BY <2>1 DEF Pending
<1>2. QED
  BY <1>1 DEF Init, Channel!Init

(* Polling and putting back do not show: the items stay pending.            *)
LEMMA PendSame ==
    ASSUME PendingIsIds, PendingIsIds', UNCHANGED <<accepted, acked>>
    PROVE  pend' = pend
  BY DEF PendingIsIds, pend

(* Two runs of numbers, one after the other, are one run.                     *)
LEMMA IdsConcat ==
    ASSUME NEW a \in Nat, NEW n \in Nat, NEW m \in Nat
    PROVE  Ids(a, n) \o Ids(a + n, m) = Ids(a, n + m)
<1> DEFINE s == Ids(a, n)
           t == Ids(a + n, m)
           u == Ids(a, n + m)
<1>1. s \in Seq(Nat) /\ Len(s) = n /\ \A i \in 1..n : s[i] = a + i
  BY IdsType
<1>0. a + n \in Nat
  OBVIOUS
<1>2. t \in Seq(Nat) /\ Len(t) = m /\ \A i \in 1..m : t[i] = a + n + i
  BY <1>0, IdsType
<1>3. u \in Seq(Nat) /\ Len(u) = n + m /\ \A i \in 1..(n + m) : u[i] = a + i
  BY IdsType
<1> HIDE DEF s, t, u
<1>4. /\ s \o t \in Seq(Nat) /\ Len(s \o t) = Len(s) + Len(t)
      /\ \A i \in 1..(Len(s) + Len(t)) : (s \o t)[i] = IF i <= Len(s) THEN s[i] ELSE t[i - Len(s)]
  BY <1>1, <1>2, ConcatProperties
<1>5. ASSUME NEW i \in 1..(n + m) PROVE (s \o t)[i] = u[i]
  <2>1. CASE i <= n
    <3>1. i \in 1..n
      BY <2>1
    <3>2. QED
      BY <1>1, <1>2, <1>3, <1>4, <2>1, <3>1
  <2>2. CASE ~(i <= n)
    <3>1. i - n \in 1..m /\ a + n + (i - n) = a + i
      BY <2>2
    <3>2. (s \o t)[i] = t[i - n]
      BY <1>1, <1>2, <1>4, <2>2
    <3>3. QED
      BY <1>2, <1>3, <3>1, <3>2
  <2>3. QED
    BY <2>1, <2>2
<1>6. s \o t = u
  <2>1. Len(s \o t) = Len(u) /\ \A i \in 1..Len(s \o t) : (s \o t)[i] = u[i]
    BY <1>1, <1>2, <1>3, <1>4, <1>5
  <2>2. QED
    BY <1>3, <1>4, <2>1, SeqEqual
<1>7. QED
  BY <1>6 DEF s, t, u

(* Handing items over is the Accept of the channel.                           *)
LEMMA AcceptStep ==
    ASSUME TypeOK, HandOver, PendingIsIds, PendingIsIds'
    PROVE  Channel!Accept
<1>1. PICK cnt \in [Kind -> Nat] : Appended(cnt)
  BY HandOverAppends
<1>2. accepted \in [Kind -> Nat] /\ acked \in [Kind -> Nat]
  BY DEF TypeOK
<1>3. accepted' = [k \in Kind |-> accepted[k] + cnt[k]] /\ acked' = acked
  BY <1>1 DEF Appended
<1>4. accepted' \in [Kind -> Nat] /\ \A k \in Kind : accepted'[k] >= accepted[k]
  BY <1>2, <1>3
<1>5. ASSUME NEW k \in Kind
      PROVE  Pending(k)' = Pending(k) \o [i \in 1..(accepted'[k] - accepted[k]) |-> accepted[k] + i]
  <2> DEFINE d == accepted[k] - acked[k]
             a == acked[k]
             c == cnt[k]
  <2>1. /\ c \in Nat /\ a \in Nat /\ d \in Nat /\ accepted'[k] - accepted[k] = c
        /\ accepted[k] = a + d /\ accepted'[k] - acked'[k] = d + c
    BY <1>2, <1>3 DEF PendingIsIds
  <2>2. Pending(k) = Ids(a, d) /\ Pending(k)' = Ids(a, d + c)
    BY <1>3, <2>1 DEF PendingIsIds
  <2>3. [i \in 1..(accepted'[k] - accepted[k]) |-> accepted[k] + i] = Ids(a + d, c)
    BY <2>1 DEF Ids
  <2> HIDE DEF a, c, d
  <2>4. Ids(a, d) \o Ids(a + d, c) = Ids(a, d + c)
    BY <2>1, IdsConcat
  <2>5. QED
    BY <2>2, <2>3, <2>4
<1>6. pend' = [k \in Kind |->
                 pend[k] \o [i \in 1..(accepted'[k] - accepted[k]) |-> accepted[k] + i]]
  BY <1>5 DEF pend
<1>7. UNCHANGED <<received, told>> /\ (pc = "done")' = (pc = "done")
  BY <1>1 DEF Appended, Signal
<1>8. QED
  BY <1>4, <1>6, <1>7 DEF Channel!Accept, pend

(* A call that the endpoint processed delivers the batch, acknowledged or   *)
(* not.                                                                      *)
LEMMA DeliverStep ==
    ASSUME TypeOK, Ledger, EndInv, PendingIsIds, PendingIsIds', pc = "call", pc' # "done", Processed,
           UNCHANGED <<accepted, told>>, NEW ack \in BOOLEAN,
           acked' = IF ack THEN [acked EXCEPT ![current] = @ + Len(batch)] ELSE acked
    PROVE  \E k \in Kind : \E n \in 1..Len(pend[k]) : Channel!Deliver(k, n, ack)
<1> DEFINE n == Len(batch)
<1>1. /\ current \in Kind /\ n \in Nat \ {0}
      /\ batch[n] = acked[current] + n
      /\ acked[current] + n <= accepted[current]
      /\ acked[current] \in Nat /\ accepted[current] \in Nat
  BY BatchLast, InFlightType
<1>2. /\ pend[current] = Ids(acked[current], accepted[current] - acked[current])
      /\ accepted[current] - acked[current] \in Nat
  BY <1>1 DEF pend, PendingIsIds
<1>3. /\ Len(pend[current]) = accepted[current] - acked[current]
      /\ \A i \in 1..(accepted[current] - acked[current]) : pend[current][i] = acked[current] + i
  <2> DEFINE d == accepted[current] - acked[current]
             a == acked[current]
  <2>1. d \in Nat /\ a \in Nat /\ pend[current] = Ids(a, d)
    BY <1>1, <1>2
  <2> HIDE DEF d, a
  <2>2. Len(pend[current]) = d /\ \A i \in 1..d : pend[current][i] = a + i
    BY <2>1, IdsType
  <2>3. QED
    BY <2>2 DEF d, a
<1>4. n \in 1..Len(pend[current]) /\ n \in 0..(accepted[current] - acked[current])
  BY <1>1, <1>3
<1>5. pend[current][n] = batch[n]
  BY <1>1, <1>3, <1>4
<1>6. received' = [received EXCEPT ![current] = IF pend[current][n] > @ THEN pend[current][n] ELSE @]
  <2>1. /\ batch[n] \in Nat /\ received[current] \in Nat
    BY <1>1 DEF TypeOK
  <2>2. Larger(received[current], batch[n])
          = IF batch[n] > received[current] THEN batch[n] ELSE received[current]
    BY <2>1 DEF Larger
  <2>3. QED
    BY <1>1, <1>5, <2>2 DEF Processed, TypeOK
<1>7. CASE ack
  <2>1. \A k \in Kind : k # current => acked'[k] = acked[k]
    BY <1>7 DEF TypeOK
  <2>2. acked'[current] = acked[current] + n
    BY <1>1, <1>7 DEF TypeOK
  <2>3. ASSUME NEW k \in Kind, k # current PROVE pend'[k] = pend[k]
    BY <2>1, <2>3 DEF PendingIsIds, pend
  <2>4. accepted[current] - (acked[current] + n) = accepted[current] - acked[current] - n
    BY <1>1
  <2>5. pend'[current] = Ids(acked[current] + n, accepted[current] - acked[current] - n)
    BY <1>1, <2>2, <2>4 DEF PendingIsIds, pend
  <2>6. pend'[current] = SubSeq(pend[current], n + 1, Len(pend[current]))
    <3> DEFINE d == accepted[current] - acked[current]
               a == acked[current]
    <3>1. /\ d \in Nat /\ a \in Nat /\ n \in 0..d /\ pend[current] = Ids(a, d)
          /\ pend'[current] = Ids(a + n, d - n)
      BY <1>1, <1>2, <1>4, <2>5
    <3> HIDE DEF d, a, n
    <3>2. SubSeq(Ids(a, d), n + 1, Len(Ids(a, d))) = Ids(a + n, d - n)
      BY <3>1, DropHead
    <3>3. QED
      BY <3>1, <3>2
  <2>7. pend' = [pend EXCEPT ![current] = SubSeq(@, n + 1, Len(@))]
    BY <1>1, <2>3, <2>6 DEF pend
  <2>8. Channel!Deliver(current, n, ack)
    BY <1>6, <1>7, <2>7 DEF Channel!Deliver, pend, EndInv
  <2>9. QED
    BY <1>1, <1>4, <2>8
<1>8. CASE ~ack
  <2>1. pend' = pend
    BY <1>8, PendSame
  <2>2. Channel!Deliver(current, n, ack)
    BY <1>6, <1>8, <2>1 DEF Channel!Deliver, pend, EndInv
  <2>3. QED
    BY <1>1, <1>4, <2>2
<1>9. QED
  BY <1>7, <1>8

(* Every step of the worker is a step of the channel or none.                 *)
LEMMA ChannelStep ==
    ASSUME ChannelInv, PendingIsIds, PendingIsIds', [Next]_vars
    PROVE  [Channel!Next]_(Channel!channelVars)
<1> USE DEF ChannelInv
<1> DEFINE Same == pend' = pend /\ UNCHANGED <<accepted, received, told>>
           Stutter == Same /\ (pc = "done")' = (pc = "done")
<1>0. Stutter => UNCHANGED Channel!channelVars
  BY DEF Channel!channelVars, pend
<1>1. Same /\ pc # "done" /\ pc' = "done" => Channel!Close
  BY DEF Channel!Close, pend
<1>2. CASE HandOver
  BY <1>2, AcceptStep DEF Channel!Next
<1>3. CASE LoopTest
  <2>1. UNCHANGED <<queue, current, batch, accepted, acked, received, told>> /\ pc = "loop"
        /\ pc' \in {"done", "check"}
    BY <1>3 DEF LoopTest
  <2>2. Same
    BY <2>1, PendSame
  <2>3. QED
    BY <1>0, <1>1, <2>1, <2>2 DEF Channel!Next
<1>4. CASE TellEnded
  <2>1. /\ UNCHANGED <<queue, current, batch, accepted, acked, received>>
        /\ pc = "ending" /\ pc' = "done" /\ told' \in {told, TRUE}
    BY <1>4 DEF TellEnded
  <2>2. NonEmpty = {} /\ current = NoKind
    BY <2>1 DEF EndInv, TypeOK
  <2>3. ASSUME NEW k \in Kind PROVE pend[k] = <<>>
    <3>1. queue[k] = <<>> /\ InFlight(k) = <<>>
      BY <2>2 DEF NonEmpty, InFlight, Kind, NoKind
    <3>2. Pending(k) = <<>>
      BY <3>1 DEF Pending
    <3>3. QED
      BY <3>2 DEF pend
  <2>4. pend' = pend
    BY <2>1, PendSame
  <2>5. CASE told' = told
    BY <1>1, <2>1, <2>4, <2>5 DEF Channel!Next
  <2>6. CASE told' = TRUE
    <3>1. Channel!TellEnded
      BY <2>1, <2>3, <2>4, <2>6 DEF Channel!TellEnded, pend
    <3>2. QED
      BY <3>1 DEF Channel!Next
  <2>7. QED
    BY <2>1, <2>5, <2>6
<1>5. CASE CallReturns
  <2>1. \E k \in Kind : \E n \in 1..Len(pend[k]) : Channel!Deliver(k, n, TRUE)
    BY <1>5, DeliverStep DEF CallReturns
  <2>2. QED
    BY <2>1 DEF Channel!Next, pend
<1>6. CASE CallThrows
  <2>1. CASE Processed
    <3>1. \E k \in Kind : \E n \in 1..Len(pend[k]) : Channel!Deliver(k, n, FALSE)
      BY <1>6, <2>1, DeliverStep DEF CallThrows
    <3>2. QED
      BY <3>1 DEF Channel!Next, pend
  <2>2. CASE UNCHANGED received
    <3>1. Stutter
      BY <1>6, <2>2, PendSame DEF CallThrows
    <3>2. QED
      BY <1>0, <3>1
  <2>3. QED
    BY <1>6, <2>1, <2>2 DEF CallThrows
<1>7. CASE CheckEnded \/ NothingToDo \/ PutBack \/ Settle \/ SpuriousWakeup \/ BeginEnd
           \/ FinishEnd \/ StopDelivery \/ Remap \/ (\E k \in Kind : Take(k))
           \/ UNCHANGED vars
  <2>1. UNCHANGED <<accepted, acked, received, told>> /\ (pc = "done")' = (pc = "done")
    BY <1>7 DEF CheckEnded, NothingToDo, PutBack, Settle, SpuriousWakeup, BeginEnd, FinishEnd,
       StopDelivery, Remap, Take, vars, Signal
  <2>2. Stutter
    BY <2>1, PendSame
  <2>3. QED
    BY <1>0, <2>2
<1>8. QED
  BY <1>2, <1>3, <1>4, <1>5, <1>6, <1>7 DEF Next, Work, Manager, HandOver

(* A DeliveryWorker implements the FIFO channel with at-least-once delivery  *)
(* that DeliveryChannel states: run() with all its handlers and callers.    *)
THEOREM WorkerImplementsChannel == Spec => ImplementsChannel
<1>1. Init => ChannelInv
  BY InitTypeOK, LedgerInit, RetryEndInit DEF ChannelInv
<1>2. ChannelInv /\ [Next]_vars => ChannelInv'
  BY NextTypeOK, LedgerStep, EndStep DEF ChannelInv
<1>3. ChannelInv => PendingIsIds
  BY LedgerCanon DEF ChannelInv
<1>4. ChannelInv /\ ChannelInv' /\ [Next]_vars => [Channel!Next]_(Channel!channelVars)
  <2>1. ChannelInv' => PendingIsIds'
    BY <1>3, PTL
  <2>2. QED
    BY <1>3, <2>1, ChannelStep
<1>5. QED
  BY <1>1, <1>2, <1>4, ChannelInit, PTL DEF Spec, ImplementsChannel, Channel!Spec
=============================================================================
