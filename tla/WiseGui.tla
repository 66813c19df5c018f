-------------------------------- MODULE WiseGui --------------------------------
(***************************************************************************)
(* Five parts of the WiseGui page.  They run in the event loop of one browser *)
(* window and share no state, so that each behaviour follows one of them, and *)
(* the others stay as they begin.                                            *)
(***************************************************************************)
EXTENDS Naturals, Sequences

CONSTANTS MaxConnects, Reservation, Fetch, MaxRequests, MaxTime, MaxLength, MaxVisits, Flash,
          MaxPolls, MaxStarts, MaxPressed

ASSUME GuiAssumption == MaxTime \in Nat

VARIABLES
    part,
    state, schedule, timers, connecting, open, connects, removers, modals, opened,
    check, isLoggedIn, offered, dialog, logins, logouts, requests, poller, pollers, surplus,
    fetches, asked, made, known, announced,
    personal, answered, federatable, federated,
    phase, cancelled, finalized, posted, socket, replay, wire, visits, container, loads, views,
    badge, bar, bars, controls, pressed, handled, doubled, overtaken, reenabled, readAt, read,
    button, told, starts, call, duplicated, operation, interval, asking, progressing,
    completing, late

Events == INSTANCE EventSocket
Login == INSTANCE Session
Feds == INSTANCE Federation
Experiment == INSTANCE ExperimentPage
Flashing == INSTANCE FlashView

Init ==
    /\ part \in {"events", "login", "federation", "experiment", "flash"}
    /\ Events!Init /\ Login!Init /\ Feds!Init /\ Experiment!Init /\ Flashing!Init
    /\ part # "login" => made = {}
    /\ part # "flash" => \A f \in Flash : ~duplicated[f]

eventVars == <<state, schedule, timers, connecting, open, connects, removers, modals, opened>>
loginVars == <<check, isLoggedIn, offered, dialog, logins, logouts, requests, poller, pollers,
               surplus, fetches, asked, made, known, announced>>
fedVars == <<personal, answered, federatable, federated>>
experimentVars == <<phase, cancelled, finalized, posted, socket, replay, wire, visits, container,
                    loads, views, badge, bar, bars, controls, pressed, handled, doubled,
                    overtaken, reenabled, readAt, read>>
flashVars == <<button, told, starts, call, duplicated, operation, interval, asking, progressing,
               completing, late>>
vars == <<part, eventVars, loginVars, fedVars, experimentVars, flashVars>>

InEvents(step) ==
    /\ part = "events" /\ step
    /\ UNCHANGED <<part, loginVars, fedVars, experimentVars, flashVars>>

InLogin(step) ==
    /\ part = "login" /\ step
    /\ UNCHANGED <<part, eventVars, fedVars, experimentVars, flashVars>>

InFederation(step) ==
    /\ part = "federation" /\ step
    /\ UNCHANGED <<part, eventVars, loginVars, experimentVars, flashVars>>

InExperiment(step) ==
    /\ part = "experiment" /\ step
    /\ UNCHANGED <<part, eventVars, loginVars, fedVars, flashVars>>

InFlashing(step) ==
    /\ part = "flash" /\ step
    /\ UNCHANGED <<part, eventVars, loginVars, fedVars, experimentVars>>

Next ==
    \/ InEvents(Events!Next)
    \/ InLogin(Login!Next)
    \/ InFederation(Feds!Next)
    \/ InExperiment(Experiment!Next)
    \/ InFlashing(Flashing!Next)

(* The fairness of the two parts that promise something.                     *)
Fairness ==
    /\ WF_vars(InEvents(Events!OnOpen)) /\ WF_vars(InEvents(Events!Reconnect))
    /\ \A f \in Flash :
           /\ WF_vars(InFlashing(Flashing!Posted(f)))
           /\ WF_vars(InFlashing(Flashing!Poll(f)))
           /\ WF_vars(InFlashing(Flashing!PortalAnswers(f)))
           /\ WF_vars(InFlashing(Flashing!OnProgress(f)))
           /\ WF_vars(InFlashing(Flashing!OnComplete(f)))

Spec == Init /\ [][Next]_vars /\ Fairness

-----------------------------------------------------------------------------
(* The state of every part has its type.                                     *)
TypeOK == Events!TypeOK /\ Login!TypeOK /\ Experiment!TypeOK /\ Flashing!TypeOK

(* A connected page has an open event WebSocket and is calm.                 *)
ConnectedIsTrue == Events!ConnectedIsTrue

(* A page that was connected once connects again.                            *)
Reconnects == Events!Reconnects

(* One poller for the login, and one for each login that overlapped another. *)
PollersFollowLogin == Login!PollersFollowLogin

(* No reservation is announced twice.                                        *)
AnnouncedOnce == Login!AnnouncedOnce

(* The subsets offered for federation have a common moment.                  *)
OfferedHaveCommonTime == Feds!OfferedHaveCommonTime

(* A federated reservation is the common time of its parts.                  *)
FederatedIsRight == Feds!FederatedIsRight

(* One view and one WebSocket for each experiment.                           *)
OneViewPerReservation == Experiment!OneViewPerReservation

(* No event falls between the past and the live ones.                        *)
NothingMissed == Experiment!NothingMissed

(* The badge and the progress bar show what the page was told.                *)
BadgeFollows == Experiment!BadgeFollows

(* The buttons follow what the page was told, but for three exceptions.        *)
ControlsFollow == Experiment!ControlsFollow

(* No interval outlives the answer of its flash request.                     *)
PollsWhileUnanswered == Flashing!PollsWhileUnanswered

(* The flash button keeps flash requests apart.                              *)
OneFlashAtATime == Flashing!OneFlashAtATime

(* A flash request that is complete is answered.                             *)
FlashAnswered == Flashing!FlashAnswered
=============================================================================
