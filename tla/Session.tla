------------------------------- MODULE Session -------------------------------
(***************************************************************************)
(* Who is logged in, as the WiseGui page sees it, and the observer that polls *)
(* the user's reservations: LOGGED_IN starts an interval that fetches them    *)
(* every minute, LOGGED_OUT stops the interval of the last login.  The OK     *)
(* button of the login dialog is disabled while a login is under way, but    *)
(* the Enter key starts another one.  Answers of the server come in any       *)
(* order, and a fetch may be answered with what was known at any moment       *)
(* since it was sent.                                                        *)
(*                                                                         *)
(* The login is never renewed: doLogin hands the observer the loginData of    *)
(* the global object, which is undefined, so that the interval of            *)
(* WiseGuiLoginObserver is never set and has no part here.                    *)
(***************************************************************************)
EXTENDS Naturals

CONSTANTS
    Reservation,   (* personal reservations made in the course of a behaviour  *)
    Fetch,         (* bound: fetches in flight at the same time                *)
    MaxRequests    (* bound: logins and logouts sent                           *)

VARIABLES
    check,        (* the isLoggedIn request of the page's start                *)
    isLoggedIn,   (* the global                                                *)
    offered,      (* the login button is shown                                 *)
    dialog,       (* a login dialog is shown                                   *)
    logins, logouts,   (* requests in flight                                   *)
    requests,
    poller,       (* schedule of WiseGuiReservationObserver                    *)
    pollers,      (* its intervals that the browser still runs                 *)
    surplus,      (* history: logins announced while one was being observed    *)
    fetches,      (* the fetches in flight                                     *)
    asked,        (* what was made when each of them was sent                  *)
    made,         (* the reservations of the server                            *)
    known,        (* lastKnownReservations                                     *)
    announced     (* history: RESERVATION_ADDED events for each reservation    *)

loginState == <<isLoggedIn, offered, poller, pollers, surplus>>
asking == <<check, dialog, logins, logouts, requests>>
fetching == <<fetches, asked>>
observed == <<made, known, announced>>
sessionVars == <<loginState, asking, fetching, observed>>

Init ==
    /\ check = "sent"
    /\ isLoggedIn = FALSE /\ offered = FALSE
    /\ dialog = FALSE
    /\ logins = 0 /\ logouts = 0 /\ requests = 0
    /\ poller = "none" /\ pollers = 0 /\ surplus = 0
    /\ fetches = {} /\ asked = [f \in Fetch |-> {}]
    /\ made \in SUBSET Reservation
    /\ known = {}
    /\ announced = [r \in Reservation |-> 0]

(* fetchReservationsAndProcess.                                              *)
SendFetch ==
    \E f \in Fetch \ fetches :
        /\ fetches' = fetches \union {f}
        /\ asked' = [asked EXCEPT ![f] = made]

(* Every handler of LOGGED_IN: the new interval takes the place of the old    *)
(* one, which goes on.                                                       *)
LoggedIn ==
    /\ isLoggedIn' = TRUE /\ offered' = FALSE
    /\ poller' = "timer"
    /\ pollers' = pollers + 1
    /\ surplus' = IF poller = "timer" THEN surplus + 1 ELSE surplus
    /\ SendFetch

(* Mutant: stopObserving forgets the interval without clearing it.           *)
LoggedOutForgets ==
    /\ isLoggedIn' = FALSE /\ offered' = TRUE
    /\ poller' = "none"
    /\ UNCHANGED <<pollers, surplus, fetching>>

LoggedOut ==
    /\ isLoggedIn' = FALSE /\ offered' = TRUE
    /\ pollers' = IF poller = "timer" THEN pollers - 1 ELSE pollers
    /\ poller' = "none"
    /\ UNCHANGED <<surplus, fetching>>

(* The answer to the check; on an error neither button is ever shown.         *)
CheckAnswered ==
    /\ check = "sent"
    /\ check' = "answered"
    /\ LoggedIn \/ LoggedOut \/ UNCHANGED <<loginState, fetching>>
    /\ UNCHANGED <<dialog, logins, logouts, requests, observed>>

ShowDialog ==
    /\ offered /\ ~dialog
    /\ dialog' = TRUE
    /\ UNCHANGED <<loginState, check, logins, logouts, requests, fetching, observed>>

(* Cancelled, or hidden a second after a login, a logout or an error.         *)
HideDialog ==
    /\ dialog
    /\ dialog' = FALSE
    /\ UNCHANGED <<loginState, check, logins, logouts, requests, fetching, observed>>

(* startLogin, from the OK button or the Enter key.                          *)
StartLogin ==
    /\ dialog
    /\ requests < MaxRequests
    /\ requests' = requests + 1
    /\ logins' = logins + 1
    /\ UNCHANGED <<loginState, check, dialog, logouts, fetching, observed>>

LoginAnswered ==
    /\ logins > 0
    /\ logins' = logins - 1
    /\ LoggedIn \/ UNCHANGED <<loginState, fetching>>
    /\ UNCHANGED <<check, dialog, logouts, requests, observed>>

(* The logout button, which shows while the page is logged in and no dialog   *)
(* covers it.                                                                *)
StartLogout ==
    /\ isLoggedIn /\ ~dialog
    /\ requests < MaxRequests
    /\ requests' = requests + 1
    /\ logouts' = logouts + 1
    /\ UNCHANGED <<loginState, check, dialog, logins, fetching, observed>>

(* A logout that succeeds removes the dialog from the page.                  *)
LogoutAnswered ==
    /\ logouts > 0
    /\ logouts' = logouts - 1
    /\ \/ LoggedOut /\ dialog' = FALSE
       \/ UNCHANGED <<loginState, fetching, dialog>>
    /\ UNCHANGED <<check, logins, requests, observed>>

Poll ==
    /\ pollers > 0
    /\ SendFetch
    /\ UNCHANGED <<loginState, asking, observed>>

(* Mutant: a reservation is recognised by nothing.                           *)
NeverEquals(r, k) == FALSE

(* reservations.equals compares the two objects as if they were arrays: a     *)
(* WisebedReservation has no length, so that no element is ever compared.     *)
Equals(r, k) == TRUE

(* processReservationsFetched.                                               *)
Process(answer) ==
    LET new == {r \in answer : ~\E k \in known : Equals(r, k)}
    IN  /\ known' = known \union new
        /\ announced' = [r \in Reservation |->
                             announced[r] + IF r \in new THEN 1 ELSE 0]

FetchAnswered(f) ==
    /\ f \in fetches
    /\ fetches' = fetches \ {f}
    /\ asked' = [asked EXCEPT ![f] = {}]
    /\ \/ \E answer \in SUBSET made : asked[f] \subseteq answer /\ Process(answer)
       \/ UNCHANGED <<known, announced>>
    /\ UNCHANGED <<loginState, asking, made>>

(* A reservation made in the page or anywhere else.                          *)
Reserve(r) ==
    /\ r \notin made
    /\ made' = made \union {r}
    /\ UNCHANGED <<loginState, asking, fetching, known, announced>>

Next ==
    \/ CheckAnswered
    \/ ShowDialog \/ HideDialog
    \/ StartLogin \/ LoginAnswered
    \/ StartLogout \/ LogoutAnswered
    \/ Poll
    \/ \E f \in Fetch : FetchAnswered(f)
    \/ \E r \in Reservation : Reserve(r)

Spec == Init /\ [][Next]_sessionVars

-----------------------------------------------------------------------------
TypeOK ==
    /\ check \in {"sent", "answered"}
    /\ isLoggedIn \in BOOLEAN /\ offered \in BOOLEAN /\ dialog \in BOOLEAN
    /\ logins \in Nat /\ logouts \in Nat /\ requests \in Nat
    /\ logins + logouts <= requests
    /\ poller \in {"none", "timer"}
    /\ pollers \in Nat /\ surplus \in Nat
    /\ fetches \subseteq Fetch /\ asked \in [Fetch -> SUBSET Reservation]
    /\ made \subseteq Reservation /\ known \subseteq Reservation
    /\ announced \in [Reservation -> Nat]

(* A page that is logged in polls its reservations and a page that is logged  *)
(* out does not, except for the intervals of earlier logins: each login that  *)
(* came while one was being observed leaves one interval that no logout        *)
(* stops.                                                                    *)
PollersFollowLogin ==
    /\ isLoggedIn <=> poller = "timer"
    /\ pollers = surplus + IF isLoggedIn THEN 1 ELSE 0

(* Each reservation is announced to the page once at most, although several   *)
(* intervals may poll and answers overtake one another.                       *)
AnnouncedOnce == \A r \in Reservation : announced[r] = IF r \in known THEN 1 ELSE 0
=============================================================================
