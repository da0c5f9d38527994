------------------------------ MODULE PageTitle ------------------------------
(***************************************************************************)
(* components/PageTitle.jsx: the heading of every page, which asks the     *)
(* coordinator for its version and uptime every second and opens a dialog  *)
(* when it cannot.  The dialog is Bootstrap's: it is in the page only once *)
(* render has something to show, and the user may close it.                *)
(***************************************************************************)
EXTENDS Integers

CONSTANT Grace      \* 30: the seconds of the condition in refreshLoop

VARIABLES
    up,         \* does the coordinator answer?
    session,    \* is the user logged in?
    request,    \* "none", "open", or its outcome: "info", "401", "fail"
    page,       \* "open", "reloading", or "login" when it has gone there
    timer,      \* is a refreshLoop due?
    state,      \* the component's state
    dialog,     \* is the dialog visible?
    shows       \* how often it was opened since the last answer

server == <<up, session>>
pageVars == <<page, timer, state, dialog, shows>>
vars == <<server, request, pageVars>>

State == [noConnection: BOOLEAN, lightShown: BOOLEAN, info: BOOLEAN,
          lastSuccess: 0..Grace + 1,    \* seconds since then
          modalShown: BOOLEAN]

(* The constructor *)
initialState == [noConnection |-> FALSE, lightShown |-> FALSE, info |-> FALSE,
                 lastSuccess |-> 0, modalShown |-> FALSE]

TypeOK ==
    /\ up \in BOOLEAN
    /\ session \in BOOLEAN
    /\ request \in {"none", "open", "info", "401", "fail"}
    /\ page \in {"open", "reloading", "login"}
    /\ timer \in BOOLEAN
    /\ state \in State
    /\ dialog \in BOOLEAN
    /\ shows \in Nat
    /\ timer => request = "none"

(* componentDidMount sends the first request. *)
Init ==
    /\ up = TRUE
    /\ session = TRUE
    /\ request = "open"
    /\ page = "open"
    /\ timer = FALSE
    /\ state = initialState
    /\ dialog = FALSE
    /\ shows = 0

-----------------------------------------------------------------------------
(* The coordinator stops and starts again, the session expires. *)
Change ==
    /\ \/ up' = ~up /\ UNCHANGED session
       \/ session /\ session' = FALSE /\ UNCHANGED up
    /\ UNCHANGED <<request, pageVars>>

Serve ==
    /\ request = "open"
    /\ request' = IF ~up THEN "fail" ELSE IF session THEN "info" ELSE "401"
    /\ UNCHANGED <<server, pageVars>>

(* The request is lost on its way. *)
Fault ==
    /\ request = "open"
    /\ request' = "fail"
    /\ UNCHANGED <<server, pageVars>>

Tick ==
    /\ state.lastSuccess <= Grace
    /\ state' = [state EXCEPT !.lastSuccess = @ + 1]
    /\ UNCHANGED <<server, request, page, timer, dialog, shows>>

-----------------------------------------------------------------------------
refreshLoop ==
    /\ timer
    /\ timer' = FALSE
    /\ request' = "open"
    /\ UNCHANGED <<server, page, state, dialog, shows>>

(* Mutant: the dialog counts as shown after the connection is back. *)
connectedModalShown == [state EXCEPT !.info = TRUE, !.noConnection = FALSE, !.lastSuccess = 0]

connected == [state EXCEPT !.info = TRUE, !.noConnection = FALSE, !.lastSuccess = 0, !.modalShown = FALSE]

hide == dialog' = FALSE

(* refreshLoop: then(info => ...) *)
Connected ==
    /\ request = "info"
    /\ request' = "none"
    /\ state' = connected
    /\ hide
    /\ shows' = 0
    /\ timer' = TRUE
    /\ UNCHANGED <<server, page>>

(* fail is an Error: the condition on the time is never decisive. *)
opens ==
    LET fail == TRUE
    IN  ~state.modalShown /\ (fail \/ state.lastSuccess > Grace)

(* refreshLoop: catch(fail => ...).  A 401 reloads the page first, and has *)
(* no JSON body.  Without info there is no dialog in the page to open.     *)
Disconnected ==
    /\ request \in {"fail", "401"}
    /\ request' = "none"
    /\ page' = IF request = "401" THEN "reloading" ELSE page
    /\ state' = [state EXCEPT !.noConnection = TRUE, !.lightShown = ~@, !.modalShown = @ \/ opens]
    /\ timer' = TRUE
    /\ IF opens /\ state.info THEN dialog' = TRUE /\ shows' = shows + 1 ELSE UNCHANGED <<dialog, shows>>
    /\ UNCHANGED server

(* The user closes the dialog. *)
Dismiss ==
    /\ dialog
    /\ dialog' = FALSE
    /\ UNCHANGED <<server, request, page, timer, state, shows>>

(* The browser reloads the page, by way of the login form. *)
Leave ==
    /\ page = "reloading"
    /\ page' = "login"
    /\ request' = "none"
    /\ timer' = FALSE
    /\ state' = initialState
    /\ dialog' = FALSE
    /\ shows' = 0
    /\ UNCHANGED server

Login ==
    /\ page = "login"
    /\ up
    /\ session' = TRUE
    /\ page' = "open"
    /\ request' = "open"
    /\ UNCHANGED <<up, timer, state, dialog, shows>>

Next ==
    \/ Change
    \/ Serve
    \/ Fault
    \/ Tick
    \/ refreshLoop
    \/ Connected
    \/ Disconnected
    \/ Dismiss
    \/ Leave
    \/ Login

Spec == Init /\ [][Next]_vars

(* A coordinator that keeps answering answers some request, and timers and *)
(* promises run.                                                           *)
Fairness ==
    /\ SF_vars(Serve)
    /\ WF_vars(refreshLoop)
    /\ WF_vars(Connected)
    /\ WF_vars(Disconnected)

LiveSpec == Spec /\ Fairness

-----------------------------------------------------------------------------
(* The dialog is closed by the answer that ends the outage, whatever the   *)
(* user did with it before.                                                *)
DialogOnlyOffline == dialog => state.noConnection

(* An outage opens the dialog once: the user who has closed it is not      *)
(* asked again by each of the failures that follow.                        *)
OneDialogPerOutage == shows <= 1

(* No outage of a page that has been loaded goes unreported: one after the *)
(* connection was back opens the dialog again.                             *)
OutageReported == state.noConnection /\ state.info => shows > 0

(* Once the coordinator stays up, the page finds it again, though    *)
(* requests may still be lost now and then.                                *)
Reconnects == <>[](up /\ session /\ page = "open") => []<>(~state.noConnection)
=============================================================================
