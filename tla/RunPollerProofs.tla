-------------------------- MODULE RunPollerProofs --------------------------
(***************************************************************************)
(* Proofs about RunPoller for every value of MaxAttempts (0 included) and *)
(* of StatusWithoutState.  The invariant checked by TLC is                 *)
(* TypeOK /\ PollBudget /\ DecoratorEvents; it is inductive as it stands,  *)
(* because while the loop runs (result = "Running") PollBudget pins sleeps *)
(* to the number of fetches and DecoratorEvents pins the event log to one  *)
(* get_run event per fetch.                                                *)
(***************************************************************************)
EXTENDS RunPoller, SequenceTheorems, TLAPS

(* The get_run part of the event log.                                     *)
GetRunLog(h) == [i \in 1..Len(h) |-> [fn |-> "get_run", ok |-> h[i] \notin FetchErrors]]

(* Appending a fetch to the history appends its event to the log.         *)
LEMMA GetRunLogAppend ==
  ASSUME NEW h \in Seq(Observations), NEW o \in Observations
  PROVE  GetRunLog(Append(h, o)) = GetRunLog(h) \o <<GetRunEvent(o)>>
BY DEF GetRunLog, GetRunEvent, Event

(* What one iteration of the loop yields is a well-typed exit.            *)
LEMMA AttemptResultType ==
  ASSUME NEW o \in Observations
  PROVE  AttemptResult(o) \in Results
BY DEF AttemptResult, Results

(* An iteration never exits the way an exhausted loop does.              *)
LEMMA AttemptResultNotExhausted ==
  ASSUME NEW o \in Observations
  PROVE  AttemptResult(o) # "DidNotComplete"
BY DEF AttemptResult

-----------------------------------------------------------------------------
(* One step keeps the types.                                              *)
LEMMA TypeStep == TypeOK /\ [Next]_vars => TypeOK'
<1> SUFFICES ASSUME TypeOK, [Next]_vars PROVE TypeOK'
  OBVIOUS
<1>1. CASE PollAttempt
  <2>0. Looping /\ resource' = resource
    BY <1>1 DEF PollAttempt
  <2>1. PICK o \in {resource} \cup FetchErrors :
               /\ history' = Append(history, o)
               /\ result' = AttemptResult(o)
               /\ sleeps' = SleepsAfter(AttemptResult(o))
               /\ events' = events \o <<GetRunEvent(o)>>
                                   \o PollEvents(AttemptResult(o))
    BY <1>1 DEF PollAttempt
  <2>2. o \in Observations
    BY <2>1 DEF TypeOK, Observations
  <2>3. AttemptResult(o) \in Results
    BY <2>2, AttemptResultType
  <2> DEFINE EventRec == [fn : {"get_run", "poll_run_await_completion"},
                            ok : BOOLEAN]
  <2>4. history' \in Seq(Observations) /\ Len(history') <= MaxAttempts
    BY <2>0, <2>1, <2>2, AppendProperties, MaxAttemptsAssumption
    DEF Looping, TypeOK
  <2>5. sleeps' \in Nat
    BY <2>1 DEF TypeOK, SleepsAfter
  <2>6. <<GetRunEvent(o)>> \in Seq(EventRec)
    BY DEF GetRunEvent, Event
  <2>7. PollEvent(AttemptResult(o)) \in EventRec
    BY DEF PollEvent, Event
  <2>8. PollEvents(AttemptResult(o)) \in Seq(EventRec)
    <3>1. <<PollEvent(AttemptResult(o))>> \in Seq(EventRec)
      BY <2>7
    <3>2. << >> \in Seq(EventRec)
      OBVIOUS
    <3>3. QED
      BY <3>1, <3>2 DEF PollEvents
  <2>9. events \o <<GetRunEvent(o)>> \in Seq(EventRec)
    BY <2>6, ConcatProperties DEF TypeOK
  <2>10. events' \in Seq(EventRec)
    BY <2>1, <2>8, <2>9, ConcatProperties
  <2>11. QED
    BY <2>0, <2>1, <2>3, <2>4, <2>5, <2>10 DEF TypeOK
<1>2. CASE PollExhausted
  BY <1>2 DEF PollExhausted, TypeOK, Results, PollEvents, PollEvent, Event
<1>3. CASE RunProgresses
  BY <1>3 DEF RunProgresses, TypeOK
<1>4. CASE UNCHANGED vars
  BY <1>4 DEF vars, TypeOK
<1>5. QED
  BY <1>1, <1>2, <1>3, <1>4 DEF Next, Poll

(* Type correctness: every variable keeps its type, and the loop never    *)
(* fetches more than max_attempts times.                                   *)
THEOREM TypeCorrect == Spec => []TypeOK
<1>1. Init => TypeOK
  BY MaxAttemptsAssumption DEF Init, TypeOK, ResourceViews, Results
<1>2. QED
  BY <1>1, TypeStep, PTL DEF Spec

-----------------------------------------------------------------------------
(* The invariant proved: types, the poll budget and the decorator's log.  *)
Inv == TypeOK /\ PollBudget /\ DecoratorEvents

LEMMA InvInit == Init => Inv
BY MaxAttemptsAssumption
DEF Init, Inv, TypeOK, PollBudget, DecoratorEvents, ResourceViews, Results

LEMMA InvStep == Inv /\ [Next]_vars => Inv'
<1> SUFFICES ASSUME Inv, [Next]_vars PROVE Inv'
  OBVIOUS
<1>0. TypeOK'
  BY TypeStep DEF Inv
<1>1. CASE PollAttempt
  <2>1. PICK o \in {resource} \cup FetchErrors :
               /\ history' = Append(history, o)
               /\ result' = AttemptResult(o)
               /\ sleeps' = SleepsAfter(AttemptResult(o))
               /\ events' = events \o <<GetRunEvent(o)>>
                                   \o PollEvents(AttemptResult(o))
    BY <1>1 DEF PollAttempt
  <2> DEFINE r == AttemptResult(o)
  <2>2. o \in Observations /\ history \in Seq(Observations)
    BY <2>1 DEF Inv, TypeOK, Observations
  <2>3. r # "DidNotComplete"
    BY <2>2, AttemptResultNotExhausted
  <2>4. result = "Running"
    BY <1>1 DEF PollAttempt, Looping
  <2>5. sleeps = Len(history) /\ events = GetRunLog(history)
    BY <2>4 DEF Inv, PollBudget, DecoratorEvents, GetRunLog
  <2>6. PollBudget'
    BY <2>1, <2>2, <2>3, <2>5 DEF PollBudget, SleepsAfter
  <2>7. events' = GetRunLog(history') \o PollEvents(r)
    BY <2>1, <2>2, <2>5, GetRunLogAppend
  <2>8. DecoratorEvents'
    BY <2>1, <2>7 DEF DecoratorEvents, GetRunLog, PollEvents, PollEvent, Event
  <2>9. QED
    BY <1>0, <2>6, <2>8 DEF Inv
<1>2. CASE PollExhausted
  <2>1. sleeps = Len(history) /\ events = GetRunLog(history)
    BY <1>2 DEF PollExhausted, Inv, PollBudget, DecoratorEvents, GetRunLog
  <2>2. PollBudget'
    BY <1>2, <2>1 DEF PollExhausted, PollBudget
  <2>3. DecoratorEvents'
    BY <1>2, <2>1
    DEF PollExhausted, DecoratorEvents, GetRunLog, PollEvents, PollEvent, Event
  <2>4. QED
    BY <1>0, <2>2, <2>3 DEF Inv
<1>3. CASE RunProgresses
  BY <1>0, <1>3 DEF RunProgresses, Inv, PollBudget, DecoratorEvents
<1>4. CASE UNCHANGED vars
  BY <1>0, <1>4 DEF vars, Inv, PollBudget, DecoratorEvents
<1>5. QED
  BY <1>1, <1>2, <1>3, <1>4 DEF Next, Poll

(* The poll budget and the decorator's event log (PollBudget,             *)
(* DecoratorEvents of the run MCRunPoller) hold in every reachable state, *)
(* for every max_attempts.                                                 *)
THEOREM PollBudgetAndEvents == Spec => [](PollBudget /\ DecoratorEvents)
<1>1. Spec => []Inv
  BY InvInit, InvStep, PTL DEF Spec
<1>2. QED
  BY <1>1, PTL DEF Inv

(* For every max_attempts, the decorator's events of one poll are exactly *)
(* one per get_run call, a failure exactly when the get raised, then one   *)
(* for the poll once its body exited, a success only after TERMINATED     *)
(* (locust_client_function around get_run and poll_run_await_completion). *)
THEOREM DecoratorEventsHold == Spec => []DecoratorEvents
<1>1. Inv => DecoratorEvents
  BY DEF Inv
<1>2. QED
  BY <1>1, InvInit, InvStep, PTL DEF Spec
-----------------------------------------------------------------------------
(* Refinement of the monitor of spec 4.1.  It holds when the operator      *)
(* never exposes a status without a lifecycle state; the run               *)
(* poll_status_without_state shows it fails otherwise.                     *)

(* The abstract state under the refinement mapping.                       *)
ObsBar == [i \in 1..Len(history) |-> AbstractObs(history[i])]

(* Without StatusWithoutState the object never shows a status without its *)
(* lifecycle state.                                                        *)
RInv == TypeOK /\ resource # NoLifeCycle

(* On every other observation, the code's exit is the table's outcome.    *)
LEMMA DecisionMatches ==
  ASSUME NEW o \in Observations \ {NoLifeCycle}
  PROVE  /\ AbstractObs(o) \in Monitor!Observations
         /\ Monitor!Decision(AbstractObs(o)) = AbstractResult(AttemptResult(o))
BY DEF Observations, ResourceViews, LifeCycleStates, FetchErrors, NoStatus,
       NoLifeCycle, AbstractObs, AbstractResult, AttemptResult,
       Monitor!Observations, Monitor!Decision

LEMMA RInvStep ==
  ASSUME ~StatusWithoutState
  PROVE  RInv /\ [Next]_vars => RInv'
<1> SUFFICES ASSUME RInv, [Next]_vars PROVE RInv'
  OBVIOUS
<1>1. TypeOK'
  BY TypeStep DEF RInv
<1>2. resource' # NoLifeCycle
  <2>1. CASE RunProgresses
    BY <2>1 DEF RunProgresses, LifeCycleStep, NoStatus, NoLifeCycle
  <2>2. CASE PollAttempt
    BY <2>2 DEF PollAttempt, RInv
  <2>3. CASE PollExhausted
    BY <2>3 DEF PollExhausted, RInv
  <2>4. CASE UNCHANGED vars
    BY <2>4 DEF vars, RInv
  <2>5. QED
    BY <2>1, <2>2, <2>3, <2>4 DEF Next, Poll
<1>3. QED
  BY <1>1, <1>2 DEF RInv

LEMMA RefinementStep ==
  ASSUME ~StatusWithoutState
  PROVE  RInv /\ [Next]_vars
           => [Monitor!Next]_<<ObsBar, AbstractResult(result)>>
<1> SUFFICES ASSUME RInv, [Next]_vars
             PROVE  [Monitor!Next]_<<ObsBar, AbstractResult(result)>>
  OBVIOUS
<1>1. CASE PollAttempt
  <2>0. Looping /\ resource' = resource
    BY <1>1 DEF PollAttempt
  <2>1. PICK o \in {resource} \cup FetchErrors :
               /\ history' = Append(history, o)
               /\ result' = AttemptResult(o)
    BY <1>1 DEF PollAttempt
  <2>2. o \in Observations \ {NoLifeCycle}
    BY <2>1 DEF RInv, TypeOK, Observations, FetchErrors, NoLifeCycle
  <2>3. history \in Seq(Observations)
    BY DEF RInv, TypeOK
  <2>4. ObsBar' = Append(ObsBar, AbstractObs(o))
    BY <2>1, <2>2, <2>3 DEF ObsBar
  <2>5. AbstractResult(result) = "Pending" /\ Len(ObsBar) < MaxAttempts
    BY <2>0, <2>3 DEF Looping, AbstractResult, ObsBar
  <2>6. AbstractResult(result)' = Monitor!Decision(AbstractObs(o))
    BY <2>1, <2>2, DecisionMatches
  <2>7. Monitor!Fetch(AbstractObs(o))
    BY <2>4, <2>5, <2>6 DEF Monitor!Fetch, ObsBar
  <2>8. QED
    BY <2>2, <2>7, DecisionMatches DEF Monitor!Next
<1>2. CASE PollExhausted
  <2>1. history \in Seq(Observations)
    BY DEF RInv, TypeOK
  <2>2. Monitor!GiveUp
    BY <1>2, <2>1 DEF PollExhausted, Monitor!GiveUp, AbstractResult, ObsBar
  <2>3. QED
    BY <2>2 DEF Monitor!Next
<1>3. CASE RunProgresses \/ UNCHANGED vars
  BY <1>3 DEF RunProgresses, vars, ObsBar
<1>4. QED
  BY <1>1, <1>2, <1>3 DEF Next, Poll

(* poll_run_await_completion implements the decision table of spec 4.1    *)
(* (AwaitCompletionRefined of the run poll_refines_monitor), for every     *)
(* max_attempts, when every status carries a lifecycle state.              *)
THEOREM AwaitCompletionImplemented ==
  ASSUME ~StatusWithoutState
  PROVE  Spec => AwaitCompletionRefined
<1>1. Init => RInv
  BY MaxAttemptsAssumption
  DEF Init, RInv, TypeOK, ResourceViews, Results, NoStatus, NoLifeCycle
<1>2. Spec => []RInv
  BY <1>1, RInvStep, PTL DEF Spec
<1>3. Init => Monitor!Init
  BY DEF Init, Monitor!Init, ObsBar, AbstractResult
<1>4. QED
  BY <1>2, <1>3, RefinementStep, PTL
  DEF Spec, AwaitCompletionRefined, Monitor!Spec, ObsBar
=============================================================================
