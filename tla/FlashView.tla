------------------------------- MODULE FlashView -------------------------------
(***************************************************************************)
(* The flash button of an experiment in the WiseGui page, and flashNodes: a   *)
(* POST starts the operation at the portal, then an interval of two seconds   *)
(* asks for its status until every node of the request is complete.  The     *)
(* interval does not wait for the answer to its last question, so that        *)
(* several polls may be under way and may be answered in any order.           *)
(*                                                                         *)
(* The status has one entry for each node: if the user selects one node in    *)
(* two configurations of a request the sorted lists never become equal.       *)
(***************************************************************************)
EXTENDS Naturals

CONSTANTS
    Flash,      (* bound: the flash requests of a behaviour                     *)
    MaxPolls,   (* bound: polls of one request under way at the same time       *)
    MaxStarts   (* bound: STARTED events that the page handles                  *)

VARIABLES
    button,       (* the flash button is enabled                               *)
    told,         (* what the page was told last: "pending", "running", "ended" *)
    starts,
    call,         (* call[f]: "unused", "posting", "polling", "done", "failed"  *)
    duplicated,   (* duplicated[f]: a node occurs twice in the request          *)
    operation,    (* operation[f] at the portal: "none", "running", "complete"  *)
    interval,     (* interval[f]: the browser still runs it                     *)
    asking,       (* asking[f]: polls the portal has not answered               *)
    progressing,  (* progressing[f]: answers "running" on their way             *)
    completing,   (* completing[f]: answers "complete" on their way             *)
    late          (* history: a callback came for a request answered before, or *)
                  (* STARTED while one was under way                           *)

polls == <<asking, progressing, completing>>
flashVars == <<button, told, starts, call, duplicated, operation, interval, polls, late>>

Init ==
    /\ button = FALSE /\ told = "pending" /\ starts = 0
    /\ call = [f \in Flash |-> "unused"]
    /\ duplicated \in [Flash -> BOOLEAN]
    /\ operation = [f \in Flash |-> "none"]
    /\ interval = [f \in Flash |-> FALSE]
    /\ asking = [f \in Flash |-> 0]
    /\ progressing = [f \in Flash |-> 0]
    /\ completing = [f \in Flash |-> 0]
    /\ late = FALSE

UnderWay(f) == call[f] \in {"posting", "polling"}
Answered(f) == call[f] \in {"done", "failed"}

-----------------------------------------------------------------------------
(* bindToReservationState                                                    *)

OnStarted ==
    /\ starts < MaxStarts
    /\ starts' = starts + 1
    /\ told' = "running"
    /\ button' = TRUE
    /\ late' = (late \/ \E f \in Flash : UnderWay(f))
    /\ UNCHANGED <<call, duplicated, operation, interval, polls>>

OnEnded ==
    /\ told' = "ended"
    /\ button' = FALSE
    /\ UNCHANGED <<starts, call, duplicated, operation, interval, polls, late>>

-----------------------------------------------------------------------------
(* Mutant: the button is not disabled.                                       *)
ExecuteWithoutDisable(f) ==
    /\ button
    /\ call[f] = "unused"
    /\ call' = [call EXCEPT ![f] = "posting"]
    /\ operation' = [operation EXCEPT ![f] = "running"]
    /\ UNCHANGED <<button, told, starts, duplicated, interval, polls, late>>

(* executeFlashNodes: the button is disabled until a callback enables it.     *)
ExecuteFlashNodes(f) ==
    /\ button
    /\ call[f] = "unused"
    /\ button' = FALSE
    /\ call' = [call EXCEPT ![f] = "posting"]
    /\ operation' = [operation EXCEPT ![f] = "running"]
    /\ UNCHANGED <<told, starts, duplicated, interval, polls, late>>

(* requestSuccessCallback.                                                   *)
Posted(f) ==
    /\ call[f] = "posting"
    /\ call' = [call EXCEPT ![f] = "polling"]
    /\ interval' = [interval EXCEPT ![f] = TRUE]
    /\ UNCHANGED <<button, told, starts, duplicated, operation, polls, late>>

(* The POST fails, before or after the portal has begun.                     *)
PostFails(f) ==
    /\ call[f] = "posting"
    /\ call' = [call EXCEPT ![f] = "failed"]
    /\ button' = TRUE
    /\ UNCHANGED <<told, starts, duplicated, operation, interval, polls, late>>

(* The portal has the status of every node.                                  *)
Complete(f) ==
    /\ operation[f] = "running"
    /\ operation' = [operation EXCEPT ![f] = "complete"]
    /\ UNCHANGED <<button, told, starts, call, duplicated, interval, polls, late>>

Poll(f) ==
    /\ interval[f]
    /\ asking[f] + progressing[f] + completing[f] < MaxPolls
    /\ asking' = [asking EXCEPT ![f] = @ + 1]
    /\ UNCHANGED <<button, told, starts, call, duplicated, operation, interval, progressing,
                   completing, late>>

(* The portal reads the status of the operation.                             *)
PortalAnswers(f) ==
    /\ asking[f] > 0
    /\ asking' = [asking EXCEPT ![f] = @ - 1]
    /\ IF operation[f] = "complete"
       THEN completing' = [completing EXCEPT ![f] = @ + 1] /\ UNCHANGED progressing
       ELSE progressing' = [progressing EXCEPT ![f] = @ + 1] /\ UNCHANGED completing
    /\ UNCHANGED <<button, told, starts, call, duplicated, operation, interval, late>>

(* Not all nodes are complete: the view is updated and nothing else.          *)
OnProgress(f) ==
    /\ progressing[f] > 0
    /\ progressing' = [progressing EXCEPT ![f] = @ - 1]
    /\ UNCHANGED <<button, told, starts, call, duplicated, operation, interval, asking,
                   completing, late>>

(* callbackDone and callbackError enable the button whoever disabled it.      *)
Callback(f, outcome) ==
    /\ button' = TRUE
    /\ call' = [call EXCEPT ![f] = outcome]
    /\ late' = (late \/ Answered(f))

(* Mutant: the interval is left running.                                     *)
OnCompleteKeepsInterval(f) ==
    /\ completing[f] > 0
    /\ completing' = [completing EXCEPT ![f] = @ - 1]
    /\ IF duplicated[f]
       THEN UNCHANGED <<button, call, late>>
       ELSE Callback(f, "done")
    /\ UNCHANGED <<told, starts, duplicated, operation, interval, asking, progressing>>

(* Mutant: the lists are not sorted, and equal for no request.               *)
OnCompleteNeverEqual(f) ==
    /\ completing[f] > 0
    /\ completing' = [completing EXCEPT ![f] = @ - 1]
    /\ UNCHANGED <<button, call, late, told, starts, duplicated, operation, interval, asking,
                   progressing>>

(* Every node the portal knows of is complete: the comparison of the lists    *)
(* fails only if the request names a node twice.                              *)
OnComplete(f) ==
    /\ completing[f] > 0
    /\ completing' = [completing EXCEPT ![f] = @ - 1]
    /\ IF duplicated[f]
       THEN UNCHANGED <<button, call, interval, late>>
       ELSE /\ Callback(f, "done")
            /\ interval' = [interval EXCEPT ![f] = FALSE]
    /\ UNCHANGED <<told, starts, duplicated, operation, asking, progressing>>

(* A poll fails, wherever it is.                                             *)
OnError(f) ==
    /\ \/ asking[f] > 0 /\ asking' = [asking EXCEPT ![f] = @ - 1]
          /\ UNCHANGED <<progressing, completing>>
       \/ progressing[f] > 0 /\ progressing' = [progressing EXCEPT ![f] = @ - 1]
          /\ UNCHANGED <<asking, completing>>
       \/ completing[f] > 0 /\ completing' = [completing EXCEPT ![f] = @ - 1]
          /\ UNCHANGED <<asking, progressing>>
    /\ interval' = [interval EXCEPT ![f] = FALSE]
    /\ Callback(f, "failed")
    /\ UNCHANGED <<told, starts, duplicated, operation>>

(* What the browser, the network and the portal do of their own accord.       *)
Proceeds(f) ==
    \/ Posted(f) \/ Poll(f) \/ PortalAnswers(f) \/ OnProgress(f) \/ OnComplete(f)

Next ==
    \/ OnStarted \/ OnEnded
    \/ \E f \in Flash : \/ ExecuteFlashNodes(f) \/ PostFails(f) \/ Complete(f) \/ OnError(f)
                        \/ Proceeds(f)

Fairness ==
    \A f \in Flash :
        /\ WF_flashVars(Posted(f)) /\ WF_flashVars(Poll(f)) /\ WF_flashVars(PortalAnswers(f))
        /\ WF_flashVars(OnProgress(f)) /\ WF_flashVars(OnComplete(f))

Spec == Init /\ [][Next]_flashVars /\ Fairness

-----------------------------------------------------------------------------
TypeOK ==
    /\ button \in BOOLEAN /\ told \in {"pending", "running", "ended"} /\ starts \in Nat
    /\ call \in [Flash -> {"unused", "posting", "polling", "done", "failed"}]
    /\ duplicated \in [Flash -> BOOLEAN]
    /\ operation \in [Flash -> {"none", "running", "complete"}]
    /\ interval \in [Flash -> BOOLEAN]
    /\ asking \in [Flash -> Nat] /\ progressing \in [Flash -> Nat] /\ completing \in [Flash -> Nat]
    /\ late \in BOOLEAN

(* The page polls for a request exactly while it is unanswered: no interval    *)
(* outlives the answer, whichever of the overlapping polls brought it, and    *)
(* none is dead before.                                                      *)
PollsWhileUnanswered == \A f \in Flash : interval[f] <=> call[f] = "polling"

(* While the reservation runs, the button is enabled exactly while no flash   *)
(* request is under way, so that one follows the other, unless a callback of   *)
(* an answered request or a second STARTED has enabled it in between.          *)
OneFlashAtATime ==
    told = "running" /\ ~late => (button <=> \A f \in Flash : ~UnderWay(f))

(* A request whose operation is complete at the portal is answered in the     *)
(* page, if it names no node twice.                                           *)
FlashAnswered ==
    \A f \in Flash :
        operation[f] = "complete" /\ ~duplicated[f] ~> call[f] \in {"done", "failed"}
=============================================================================
