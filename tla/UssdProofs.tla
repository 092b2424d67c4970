----------------------------- MODULE UssdProofs -----------------------------
(***************************************************************************)
(* What the sessions of POST /ussd do instead of being reset, for any      *)
(* sessions and inputs.                                                    *)
(***************************************************************************)
EXTENDS UssdSession, TLAPS

\* The map has at most one state for each session, and every state is one the
\* engine knows how to go on from.
SessionsOK ==
  /\ sessions \in [SessionIds -> SUBSET SessionState]
  /\ \A s \in SessionIds : \A x, y \in sessions[s] : x = y
  /\ answer \in [SessionIds -> Answers]

\* The opposite of FinishedFlowIsReset: whoever is answered END is still in the
\* flow that ended.
FinishedFlowStays ==
  \A s \in SessionIds : answer[s] = "END" =>
    sessions[s] # {} /\ \A state \in sessions[s] : state.Flow # "MENU"

-----------------------------------------------------------------------------
\* Menus, one by one.
LEMMA MenuNames ==
  DOMAIN Menus = {"MAIN", "AIRTIME", "BUNDLE", "HELP", "SETTINGS", "SEND_MONEY"}
BY DEF Menus

LEMMA LoadType ==
  ASSUME SessionsOK, NEW s \in SessionIds
  PROVE  /\ Load(s) \in SessionState
         /\ \A x \in sessions[s] : Load(s) = [x EXCEPT !.Payload = @ \cup {"channel"}]
<1>1. NewSession \in SessionState
  BY MenuNames DEF NewSession, SessionState, FlowStates
<1> DEFINE found == IF sessions[s] = {} THEN NewSession
                    ELSE CHOOSE x \in sessions[s] : TRUE
<1>2. found \in SessionState /\ \A x \in sessions[s] : found = x
  BY <1>1 DEF SessionsOK
<1>3. Load(s) = [found EXCEPT !.Payload = @ \cup {"channel"}]
  BY DEF Load
<1> HIDE DEF found
<1>4. Load(s) \in SessionState
  BY <1>2, <1>3 DEF SessionState
<1>5. QED
  BY <1>2, <1>3, <1>4

\* The engine keeps a state one of its states, never takes anything out of the
\* payload and never leaves a flow.
LEMMA HandleInputType ==
  ASSUME NEW state \in SessionState, NEW input
  PROVE  /\ HandleInput(state, input) \in SessionState
         /\ state.Payload \subseteq HandleInput(state, input).Payload
         /\ state.Flow # "MENU" => HandleInput(state, input).Flow = state.Flow
<1>1. CASE state.Flow # "MENU"
  <2>1. Collected(state.Flow) \subseteq {"channel", "amount", "recipient", "pin_entered"}
    BY DEF Collected
  <2>2. HandleInput(state, input) =
          [state EXCEPT !.Payload = @ \cup Collected(state.Flow)]
    BY <1>1 DEF HandleInput
  <2>3. QED
    BY <2>1, <2>2 DEF SessionState
<1>2. CASE state.Flow = "MENU" /\ input \notin DOMAIN Menus[state.CurrentMenu]
  BY <1>2 DEF HandleInput
<1>3. CASE state.Flow = "MENU" /\ input \in DOMAIN Menus[state.CurrentMenu]
  <2> DEFINE choice == Menus[state.CurrentMenu][input]
  <2>1. HandleInput(state, input) =
          IF choice \in DOMAIN Menus THEN [state EXCEPT !.CurrentMenu = choice]
          ELSE [state EXCEPT !.Flow = FlowAfter(choice, @)]
    BY <1>3 DEF HandleInput
  <2>2. FlowAfter(choice, state.Flow) \in FlowStates
    BY <1>3 DEF FlowAfter, FlowStates
  <2> HIDE DEF choice
  <2>3. QED
    BY <1>3, <2>1, <2>2 DEF SessionState
<1>4. QED
  BY <1>1, <1>2, <1>3

LEMMA SessionsInit == Init => SessionsOK /\ FinishedFlowStays
BY DEF Init, SessionsOK, FinishedFlowStays, Answers

LEMMA SessionsNext ==
  SessionsOK /\ FinishedFlowStays /\ [Next]_vars => (SessionsOK /\ FinishedFlowStays)'
<1> SUFFICES ASSUME SessionsOK, FinishedFlowStays, [Next]_vars
             PROVE  (SessionsOK /\ FinishedFlowStays)'
  OBVIOUS
<1>1. ASSUME NEW s \in SessionIds, NEW input \in Inputs, USSDHandler(s, input)
      PROVE  (SessionsOK /\ FinishedFlowStays)'
  <2> DEFINE state == Load(s)
             after == HandleInput(state, input)
  <2>1. /\ sessions' = [sessions EXCEPT ![s] = {after}]
        /\ answer' = [answer EXCEPT ![s] = IF state.Flow # "MENU" THEN "END" ELSE "CON"]
    BY <1>1 DEF USSDHandler, Ends
  <2>2. state \in SessionState
    BY LoadType
  <2>3. after \in SessionState /\ (state.Flow # "MENU" => after.Flow # "MENU")
    BY <2>2, HandleInputType
  <2> HIDE DEF state, after
  <2>4. SessionsOK'
    BY <2>1, <2>3 DEF SessionsOK, Answers
  <2>5. ASSUME NEW r \in SessionIds, answer'[r] = "END"
        PROVE  sessions'[r] # {} /\ \A x \in sessions'[r] : x.Flow # "MENU"
    <3>1. CASE r = s
      BY <2>1, <2>3, <2>5, <3>1 DEF SessionsOK
    <3>2. CASE r # s
      BY <2>1, <2>5, <3>2 DEF SessionsOK, FinishedFlowStays
    <3>3. QED
      BY <3>1, <3>2
  <2>6. QED
    BY <2>4, <2>5 DEF FinishedFlowStays
<1>2. CASE MapRace
  BY <1>2 DEF MapRace, SessionsOK, FinishedFlowStays, Answers
<1>3. CASE UNCHANGED vars
  BY <1>3 DEF vars, SessionsOK, FinishedFlowStays
<1>4. QED
  BY <1>1, <1>2, <1>3 DEF Next

LEMMA SessionsAlways == Spec => [](SessionsOK /\ FinishedFlowStays)
BY SessionsInit, SessionsNext, PTL DEF Spec

\* Every session in the map is at a menu or a flow step of the engine, however
\* sessions interleave and the process is restarted (Store.Load, Store.Save).
THEOREM SessionsAreWellFormed == Spec => []SessionsOK
BY SessionsAlways, PTL

\* handleFlowStep ends the session without resetting Flow: of no flow that was
\* answered END is the session ever back at a menu.
THEOREM FinishedFlowsStay == Spec => []FinishedFlowStays
BY SessionsAlways, PTL

\* Nothing but the end of the process takes a session out of a flow once it has
\* been started, and what the flow has collected only grows: a session id gets
\* one action out of the menu and END for every input after it.
THEOREM FlowsAreNeverLeft ==
  Spec => [][\A s \in SessionIds : \A state \in sessions[s] : state.Flow # "MENU" =>
               \/ sessions'[s] = {}
               \/ \E next \in sessions'[s] :
                    next.Flow = state.Flow /\ state.Payload \subseteq next.Payload]_vars
<1> DEFINE Kept(s, state) ==
             \/ sessions'[s] = {}
             \/ \E next \in sessions'[s] :
                  next.Flow = state.Flow /\ state.Payload \subseteq next.Payload
<1>1. ASSUME SessionsOK, Next, NEW s \in SessionIds, NEW state \in sessions[s],
             state.Flow # "MENU"
      PROVE  Kept(s, state)
  <2>1. CASE MapRace
    BY <2>1 DEF MapRace
  <2>2. ASSUME NEW r \in SessionIds, NEW input \in Inputs, USSDHandler(r, input)
        PROVE  Kept(s, state)
    <3>1. CASE r = s
      <4>1. state \in SessionState /\ Load(s) \in SessionState
        BY <1>1, LoadType DEF SessionsOK
      <4>2. Load(s).Flow = state.Flow /\ state.Payload \subseteq Load(s).Payload
        <5>1. Load(s) = [state EXCEPT !.Payload = @ \cup {"channel"}]
          BY <1>1, LoadType
        <5>2. QED
          BY <4>1, <5>1 DEF SessionState
      <4>3. /\ HandleInput(Load(s), input).Flow = state.Flow
            /\ state.Payload \subseteq HandleInput(Load(s), input).Payload
        BY <1>1, <4>1, <4>2, HandleInputType
      <4>4. HandleInput(Load(s), input) \in sessions'[s]
        BY <1>1, <2>2, <3>1 DEF USSDHandler, SessionsOK
      <4>5. QED
        BY <4>3, <4>4
    <3>2. CASE r # s
      <4>1. sessions'[s] = sessions[s]
        BY <1>1, <2>2, <3>2 DEF USSDHandler, SessionsOK
      <4>2. QED
        BY <1>1, <4>1
    <3>3. QED
      BY <3>1, <3>2
  <2>3. QED
    BY <1>1, <2>1, <2>2 DEF Next
<1>2. SessionsOK /\ [Next]_vars =>
        [\A s \in SessionIds : \A state \in sessions[s] :
           state.Flow # "MENU" => Kept(s, state)]_vars
  BY <1>1
<1>3. QED
  BY <1>2, SessionsAreWellFormed, PTL DEF Spec

=============================================================================
