---------------------------- MODULE FlashViewProofs ----------------------------
(***************************************************************************)
(* Theorems of FlashView, for every set of flash requests and every number of *)
(* polls under way.                                                          *)
(***************************************************************************)
EXTENDS FlashView, TLAPS

(* Nobody asks for the status of a request before the POST is answered.       *)
PollsFollowPost ==
    \A f \in Flash : call[f] \in {"unused", "posting"} =>
        asking[f] = 0 /\ progressing[f] = 0 /\ completing[f] = 0

(* Flash requests take turns as long as no late callback enables the button:   *)
(* one is under way at most, and none while the button is enabled.            *)
TakeTurns ==
    ~late => /\ \A f, g \in Flash : UnderWay(f) /\ UnderWay(g) => f = g
             /\ button => \A f \in Flash : ~UnderWay(f)

FlashInv == TypeOK /\ PollsWhileUnanswered /\ PollsFollowPost /\ TakeTurns /\ OneFlashAtATime

LEMMA FlashInit == Init => FlashInv
<1> SUFFICES ASSUME Init PROVE FlashInv
  OBVIOUS
<1>1. /\ button \in BOOLEAN /\ ~button /\ late \in BOOLEAN
      /\ duplicated \in [Flash -> BOOLEAN]
  BY Zenon DEF Init
<1>2. interval \in [Flash -> BOOLEAN] /\ \A f \in Flash : ~interval[f]
  BY DEF Init
<1>3. TypeOK
  BY <1>1, <1>2 DEF Init, TypeOK
<1>4. \A f \in Flash : ~UnderWay(f) /\ call[f] = "unused"
  BY DEF Init, UnderWay
<1>5. PollsWhileUnanswered
  BY <1>2, <1>4 DEF PollsWhileUnanswered
<1>6. PollsFollowPost
  BY DEF Init, PollsFollowPost
<1> QED
  BY <1>3, <1>4, <1>5, <1>6 DEF Init, FlashInv, TakeTurns, OneFlashAtATime

(* A step that leaves the button and the calls alone keeps the turns.          *)
LEMMA TurnsKept ==
    ASSUME TakeTurns, OneFlashAtATime, UNCHANGED <<button, told, call, late>>
    PROVE  TakeTurns' /\ OneFlashAtATime'
BY DEF TakeTurns, OneFlashAtATime, UnderWay

(* A callback ends the turn of the request that was under way.                 *)
LEMMA CallbackEndsTurn ==
    ASSUME TypeOK, PollsFollowPost, TakeTurns, NEW f \in Flash,
           NEW outcome \in {"done", "failed"}, Callback(f, outcome), UNCHANGED told,
           call[f] \notin {"unused", "posting"}
    PROVE  /\ call' \in [Flash -> {"unused", "posting", "polling", "done", "failed"}]
           /\ call'[f] = outcome /\ \A g \in Flash : g # f => call'[g] = call[g]
           /\ button' \in BOOLEAN /\ late' \in BOOLEAN
           /\ TakeTurns' /\ OneFlashAtATime'
<1>1. call' = [call EXCEPT ![f] = outcome] /\ button' = TRUE /\ late' = (late \/ Answered(f))
  BY DEF Callback
<1>2. button' \in BOOLEAN /\ late' \in BOOLEAN /\ button'
  BY <1>1, Zenon DEF TypeOK
<1>3. /\ call' \in [Flash -> {"unused", "posting", "polling", "done", "failed"}]
      /\ call'[f] = outcome /\ \A g \in Flash : g # f => call'[g] = call[g]
  BY <1>1 DEF TypeOK
<1>4. ASSUME ~late' PROVE \A g \in Flash : ~UnderWay(g)'
  <2>1. ~late /\ ~Answered(f)
    BY <1>1, <1>4
  <2>2. UnderWay(f)
    BY <2>1 DEF Answered, UnderWay, TypeOK
  <2>3. \A g \in Flash : g # f => ~UnderWay(g)
    BY <2>1, <2>2 DEF TakeTurns
  <2> QED
    BY <1>3, <2>3 DEF UnderWay
<1>5. TakeTurns' /\ OneFlashAtATime'
  BY <1>2, <1>4 DEF TakeTurns, OneFlashAtATime
<1> QED
  BY <1>2, <1>3, <1>5

LEMMA FlashStep == FlashInv /\ [Next]_flashVars => FlashInv'
<1> SUFFICES ASSUME TypeOK, PollsWhileUnanswered, PollsFollowPost, TakeTurns, OneFlashAtATime,
                    [Next]_flashVars
             PROVE  FlashInv'
  BY DEF FlashInv
<1> USE DEF FlashInv, polls
<1>1. CASE OnStarted
  <2>1. button' \in BOOLEAN /\ late' \in BOOLEAN /\ button'
    BY <1>1, Zenon DEF OnStarted, TypeOK
  <2>2. TypeOK' /\ PollsWhileUnanswered' /\ PollsFollowPost'
    BY <1>1, <2>1 DEF OnStarted, TypeOK, PollsWhileUnanswered, PollsFollowPost
  <2>3. late' \/ \A f \in Flash : ~UnderWay(f)'
    BY <1>1 DEF OnStarted, UnderWay
  <2> QED
    BY <2>1, <2>2, <2>3 DEF TakeTurns, OneFlashAtATime
<1>2. CASE OnEnded
  <2>1. button' \in BOOLEAN /\ ~button' /\ told' = "ended"
    BY <1>2, Zenon DEF OnEnded
  <2>2. TypeOK' /\ PollsWhileUnanswered' /\ PollsFollowPost'
    BY <1>2, <2>1 DEF OnEnded, TypeOK, PollsWhileUnanswered, PollsFollowPost
  <2> QED
    BY <1>2, <2>1, <2>2 DEF OnEnded, TakeTurns, OneFlashAtATime, UnderWay
<1>3. ASSUME NEW f \in Flash, ExecuteFlashNodes(f) PROVE FlashInv'
  <2>1. button' \in BOOLEAN /\ ~button' /\ button
    BY <1>3, Zenon DEF ExecuteFlashNodes
  <2>2. TypeOK'
    BY <1>3, <2>1 DEF ExecuteFlashNodes, TypeOK
  <2>3. PollsWhileUnanswered' /\ PollsFollowPost'
    BY <1>3 DEF ExecuteFlashNodes, TypeOK, PollsWhileUnanswered, PollsFollowPost
  <2>4. \A g \in Flash : UnderWay(g)' <=> g = f \/ UnderWay(g)
    BY <1>3 DEF ExecuteFlashNodes, TypeOK, UnderWay
  <2> QED
    BY <1>3, <2>1, <2>2, <2>3, <2>4 DEF ExecuteFlashNodes, TakeTurns, OneFlashAtATime
<1>4. ASSUME NEW f \in Flash, PostFails(f) PROVE FlashInv'
  <2>1. button' \in BOOLEAN /\ button'
    BY <1>4, Zenon DEF PostFails
  <2>2. TypeOK'
    BY <1>4, <2>1 DEF PostFails, TypeOK
  <2>3. PollsWhileUnanswered' /\ PollsFollowPost'
    BY <1>4 DEF PostFails, TypeOK, PollsWhileUnanswered, PollsFollowPost
  <2>4. UnderWay(f) /\ \A g \in Flash : UnderWay(g)' <=> g # f /\ UnderWay(g)
    BY <1>4 DEF PostFails, TypeOK, UnderWay
  <2> QED
    BY <1>4, <2>1, <2>2, <2>3, <2>4 DEF PostFails, TakeTurns, OneFlashAtATime
<1>5. ASSUME NEW f \in Flash, Posted(f) PROVE FlashInv'
  <2>1. interval' \in [Flash -> BOOLEAN] /\ interval'[f]
        /\ \A g \in Flash : g # f => interval'[g] = interval[g]
    BY <1>5 DEF Posted, TypeOK
  <2>2. TypeOK'
    BY <1>5, <2>1 DEF Posted, TypeOK
  <2>3. PollsWhileUnanswered' /\ PollsFollowPost'
    BY <1>5, <2>1 DEF Posted, TypeOK, PollsWhileUnanswered, PollsFollowPost
  <2>4. \A g \in Flash : UnderWay(g)' <=> UnderWay(g)
    BY <1>5 DEF Posted, TypeOK, UnderWay
  <2> QED
    BY <1>5, <2>2, <2>3, <2>4 DEF Posted, TakeTurns, OneFlashAtATime
<1>6. ASSUME NEW f \in Flash, Complete(f) PROVE FlashInv'
  BY <1>6, TurnsKept DEF Complete, TypeOK, PollsWhileUnanswered, PollsFollowPost
<1>7. ASSUME NEW f \in Flash, Poll(f) PROVE FlashInv'
  <2>1. call[f] = "polling"
    BY <1>7 DEF Poll, PollsWhileUnanswered
  <2>2. asking' \in [Flash -> Nat] /\ \A g \in Flash : g # f => asking'[g] = asking[g]
    BY <1>7 DEF Poll, TypeOK
  <2>3. TypeOK' /\ PollsWhileUnanswered'
    BY <1>7, <2>2 DEF Poll, TypeOK, PollsWhileUnanswered
  <2>4. PollsFollowPost'
    BY <1>7, <2>1, <2>2 DEF Poll, PollsFollowPost
  <2> QED
    BY <1>7, <2>3, <2>4, TurnsKept DEF Poll
<1>8. ASSUME NEW f \in Flash, PortalAnswers(f) PROVE FlashInv'
  BY <1>8, TurnsKept DEF PortalAnswers, TypeOK, PollsWhileUnanswered, PollsFollowPost
<1>9. ASSUME NEW f \in Flash, OnProgress(f) PROVE FlashInv'
  BY <1>9, TurnsKept DEF OnProgress, TypeOK, PollsWhileUnanswered, PollsFollowPost
<1>10. ASSUME NEW f \in Flash, OnComplete(f) PROVE FlashInv'
  <2>1. call[f] \notin {"unused", "posting"}
    BY <1>10 DEF OnComplete, PollsFollowPost
  <2>2. CASE duplicated[f]
    BY <1>10, <2>2, TurnsKept DEF OnComplete, TypeOK, PollsWhileUnanswered, PollsFollowPost
  <2>3. CASE ~duplicated[f]
    <3>1. Callback(f, "done") /\ interval' = [interval EXCEPT ![f] = FALSE] /\ told' = told
      BY <1>10, <2>3 DEF OnComplete
    <3>2. /\ call' \in [Flash -> {"unused", "posting", "polling", "done", "failed"}]
          /\ call'[f] = "done" /\ \A g \in Flash : g # f => call'[g] = call[g]
          /\ button' \in BOOLEAN /\ late' \in BOOLEAN
          /\ TakeTurns' /\ OneFlashAtATime'
      BY <2>1, <3>1, CallbackEndsTurn
    <3>3. interval' \in [Flash -> BOOLEAN] /\ ~interval'[f]
          /\ \A g \in Flash : g # f => interval'[g] = interval[g]
      BY <3>1 DEF TypeOK
    <3>4. completing' \in [Flash -> Nat]
          /\ \A g \in Flash : g # f => completing'[g] = completing[g]
      BY <1>10 DEF OnComplete, TypeOK
    <3>5. TypeOK'
      BY <1>10, <3>2, <3>3, <3>4 DEF OnComplete, TypeOK
    <3>6. PollsWhileUnanswered' /\ PollsFollowPost'
      BY <1>10, <3>2, <3>3, <3>4 DEF OnComplete, PollsWhileUnanswered, PollsFollowPost
    <3> QED
      BY <3>2, <3>5, <3>6
  <2> QED
    BY <2>2, <2>3
<1>11. ASSUME NEW f \in Flash, OnError(f) PROVE FlashInv'
  <2>1. call[f] \notin {"unused", "posting"}
    BY <1>11 DEF OnError, PollsFollowPost
  <2>2. Callback(f, "failed") /\ interval' = [interval EXCEPT ![f] = FALSE] /\ told' = told
    BY <1>11 DEF OnError
  <2>3. /\ call' \in [Flash -> {"unused", "posting", "polling", "done", "failed"}]
        /\ call'[f] = "failed" /\ \A g \in Flash : g # f => call'[g] = call[g]
        /\ button' \in BOOLEAN /\ late' \in BOOLEAN
        /\ TakeTurns' /\ OneFlashAtATime'
    BY <2>1, <2>2, CallbackEndsTurn
  <2>4. interval' \in [Flash -> BOOLEAN] /\ ~interval'[f]
        /\ \A g \in Flash : g # f => interval'[g] = interval[g]
    BY <2>2 DEF TypeOK
  <2>5. /\ asking' \in [Flash -> Nat] /\ progressing' \in [Flash -> Nat]
        /\ completing' \in [Flash -> Nat]
        /\ \A g \in Flash : g # f => /\ asking'[g] = asking[g]
                                     /\ progressing'[g] = progressing[g]
                                     /\ completing'[g] = completing[g]
    BY <1>11 DEF OnError, TypeOK
  <2> QED
    BY <1>11, <2>3, <2>4, <2>5 DEF OnError, TypeOK, PollsWhileUnanswered, PollsFollowPost
<1>12. CASE UNCHANGED flashVars
  BY <1>12, TurnsKept DEF flashVars, TypeOK, PollsWhileUnanswered, PollsFollowPost
<1> QED
  BY <1>1, <1>2, <1>3, <1>4, <1>5, <1>6, <1>7, <1>8, <1>9, <1>10, <1>11, <1>12
     DEF Next, Proceeds

LEMMA FlashInvariant == Spec => []FlashInv
BY FlashInit, FlashStep, PTL DEF Spec

(* Counters of polls keep their type: no answer is taken that was not sent.   *)
THEOREM FlashTyped == Spec => []TypeOK
<1>1. FlashInv => TypeOK
  BY DEF FlashInv
<1> QED
  BY <1>1, FlashInvariant, PTL

(* The page polls for a request exactly while it is unanswered, whatever the   *)
(* number and the order of the overlapping polls and of their answers.         *)
THEOREM PollingEndsWithTheAnswer == Spec => []PollsWhileUnanswered
<1>1. FlashInv => PollsWhileUnanswered
  BY DEF FlashInv
<1> QED
  BY <1>1, FlashInvariant, PTL

(* While the reservation runs the button keeps flash requests apart, unless a  *)
(* late callback or a second STARTED has enabled it.                          *)
THEOREM FlashRequestsTakeTurns == Spec => []OneFlashAtATime
<1>1. FlashInv => OneFlashAtATime
  BY DEF FlashInv
<1> QED
  BY <1>1, FlashInvariant, PTL
=============================================================================
