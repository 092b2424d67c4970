---------------------------- MODULE UssdSession -----------------------------
(***************************************************************************)
(* internal/ussd: the sessions of POST /ussd in the memory of the API      *)
(* process, and the engine that takes each input through a menu or, once a *)
(* flow has been started, to the step that the flow is in.                 *)
(*                                                                         *)
(* A gateway sends the next input of a session after the answer to the     *)
(* last one, so one request is one step.  Requests of different sessions   *)
(* use the map of sessions at the same time without a lock; the Go runtime *)
(* then may stop the process, see MapRace.                                 *)
(***************************************************************************)
EXTENDS Naturals, Sequences, FiniteSets

CONSTANTS
  SessionIds,   \* the values of sessionId
  Inputs        \* the last segment of text, as a number: see HandleInput

VARIABLES
  sessions,   \* [SessionIds -> SUBSET SessionState], the map: at most one each
  answer      \* [SessionIds -> Answers], the prefix of the last answer

vars == <<sessions, answer>>

\* NewStaticMenuEngine: what choice i of a menu is, another menu or an action.
Menus ==
  [MAIN       |-> <<"balance", "AIRTIME", "BUNDLE", "my_account", "HELP",
                    "SETTINGS", "SEND_MONEY">>,
   AIRTIME    |-> <<"airtime.self", "airtime.other", "MAIN">>,
   BUNDLE     |-> <<"bundle.self", "bundle.other", "MAIN">>,
   HELP       |-> <<"help.fees", "help.support", "MAIN">>,
   SETTINGS   |-> <<"settings.language", "settings.notifications", "MAIN">>,
   SEND_MONEY |-> <<"send_money.coming_soon", "MAIN">>]

FlowStates == {"MENU", "ENTER_AMOUNT", "ENTER_RECIPIENT", "ENTER_PIN", "CONFIRM"}

\* SessionState; of the payload, which of its keys are set.
SessionState ==
  [CurrentMenu : DOMAIN Menus, Flow : FlowStates,
   Payload : SUBSET {"channel", "amount", "recipient", "pin_entered"}]

Answers == {"none", "CON", "END"}

NewSession == [CurrentMenu |-> "MAIN", Flow |-> "MENU", Payload |-> {}]

Init ==
  /\ sessions = [s \in SessionIds |-> {}]
  /\ answer = [s \in SessionIds |-> "none"]

-----------------------------------------------------------------------------
\* Load, and the slot that the handler fills before the engine runs.
Load(s) ==
  LET found == IF sessions[s] = {} THEN NewSession ELSE CHOOSE x \in sessions[s] : TRUE
  IN  [found EXCEPT !.Payload = @ \cup {"channel"}]

\* handleFlowStep: what the input is stored as.  It ends the session from every
\* flow step and leaves Flow as it is.
Collected(flow) ==
  CASE flow = "ENTER_AMOUNT"    -> {"amount"}
    [] flow = "ENTER_RECIPIENT" -> {"recipient"}
    [] flow = "ENTER_PIN"       -> {"pin_entered"}
    [] OTHER                    -> {}

\* handleAction: the flow an action starts; the others leave it alone.
FlowAfter(action, flow) ==
  CASE action = "airtime.self"                        -> "ENTER_AMOUNT"
    [] action \in {"airtime.other", "bundle.other"}   -> "ENTER_RECIPIENT"
    [] action = "bundle.self"                         -> "CONFIRM"
    [] action = "send_money.coming_soon"              -> "MENU"
    [] OTHER                                          -> flow

\* HandleInput: the session afterwards.  0 is an empty input, and an input that
\* is no key of the menu is an invalid choice.
HandleInput(state, input) ==
  IF state.Flow # "MENU"
  THEN [state EXCEPT !.Payload = @ \cup Collected(state.Flow)]
  ELSE IF input \notin DOMAIN Menus[state.CurrentMenu] THEN state
  ELSE LET choice == Menus[state.CurrentMenu][input]
       IN  IF choice \in DOMAIN Menus
           THEN [state EXCEPT !.CurrentMenu = choice]
           ELSE [state EXCEPT !.Flow = FlowAfter(choice, @)]

\* The second result of HandleInput.  No action ends a session, so the reset
\* that follows handleAction is never reached.
Ends(state) == state.Flow # "MENU"

\* USSDHandler, with the deferred Save.
USSDHandler(s, input) ==
  LET state == Load(s)
  IN  /\ sessions' = [sessions EXCEPT ![s] = {HandleInput(state, input)}]
      /\ answer' = [answer EXCEPT ![s] = IF Ends(state) THEN "END" ELSE "CON"]

\* Two sessions are in the map at the same time, one of them writing: the
\* runtime detects it and ends the process, and a new one knows no session.
MapRace ==
  /\ Cardinality(SessionIds) > 1
  /\ sessions' = [s \in SessionIds |-> {}]
  /\ answer' = [s \in SessionIds |-> "none"]

Next ==
  \/ \E s \in SessionIds, input \in Inputs : USSDHandler(s, input)
  \/ MapRace

Spec == Init /\ [][Next]_vars

-----------------------------------------------------------------------------
(***************************************************************************)
(* Property.                                                               *)
(***************************************************************************)

\* internal/ussd/engine.go:130, "If flow is complete, reset payload to avoid
\* leaking data into next transaction": of a flow that has been answered END
\* nothing is left in the session, and the next input starts from a menu.
FinishedFlowIsReset ==
  \A s \in SessionIds : answer[s] = "END" =>
    \A state \in sessions[s] : state.Flow = "MENU" /\ state.Payload \subseteq {"channel"}

=============================================================================
