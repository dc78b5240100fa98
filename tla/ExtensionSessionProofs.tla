----------------------- MODULE ExtensionSessionProofs -----------------------
(* Proofs about ExtensionSession, for any tools and any number of runs and *)
(* executions.                                                             *)
EXTENDS ExtensionSession, TLAPS

-----------------------------------------------------------------------------
(* Typing.                                                                 *)

LEMMA FailedType ==
    ASSUME NEW s \in RecoveryState
    PROVE  /\ FailedState(s) \in RecoveryState
           /\ FailedState(s).armedBy = s.armedBy
BY DEF FailedState, RecoveryState, Terminal

LEMMA ArmedType ==
    ASSUME NEW s \in RecoveryState, NEW n \in Nat
    PROVE  /\ [s EXCEPT !.armedBy = n] \in RecoveryState
           /\ [s EXCEPT !.armedBy = n].armedBy = n
BY DEF RecoveryState

LEMMA InitType == Init => TypeOK
<1> SUFFICES ASSUME Init PROVE TypeOK
  OBVIOUS
<1>1. Fresh \in RecoveryState
  BY DEF Fresh, RecoveryState, Terminal
<1>2. state \in [Runs -> RecoveryState] /\ injected \in [Runs -> Nat]
  BY <1>1 DEF Init
<1>3. active \subseteq AllTools
  BY DEF Init, AllTools
<1>4. 0 \in 0..MaxRuns
  BY SessionAssumption DEF SessionAssumption
<1>5. QED BY <1>2, <1>3, <1>4 DEF Init, TypeOK

(* The failures of an execution.                                           *)
LEMMA FailType ==
    ASSUME TypeOK, NEW x \in executing, FailAsync(x) \/ Fail(x)
    PROVE  TypeOK'
<1>1. x.run \in Runs /\ x.attempt \in Nat
  BY DEF TypeOK, Execution
<1>2. state[x.run] \in RecoveryState
  BY <1>1 DEF TypeOK
<1>3. state' \in [Runs -> RecoveryState]
  <2>1. CASE state' = [state EXCEPT ![x.run] =
                          FailedState([state[x.run] EXCEPT !.armedBy = x.attempt])]
    BY <1>1, <1>2, <2>1, FailedType, ArmedType DEF TypeOK
  <2>2. CASE state' = [state EXCEPT ![x.run] = FailedState(state[x.run])]
    BY <1>1, <1>2, <2>2, FailedType DEF TypeOK
  <2>3. QED BY <2>1, <2>2 DEF FailAsync, Fail
<1>4. prompt' \in BOOLEAN
  BY DEF FailAsync, Fail, TypeOK
<1>5. QED BY <1>3, <1>4 DEF FailAsync, Fail, TypeOK, toolVars, runVars

LEMMA StepType == TypeOK /\ [Next]_vars => TypeOK'
<1> SUFFICES ASSUME TypeOK, [Next]_vars PROVE TypeOK'
  OBVIOUS
<1>1. ASSUME NEW t \in Custom, LoadTool(t) \/ RemoveTool(t) PROVE TypeOK'
  <2>1. registered' \subseteq Custom /\ active' \subseteq AllTools
    BY <1>1 DEF LoadTool, RemoveTool, TypeOK, AllTools
  <2>2. /\ reloaded' = TRUE
        /\ UNCHANGED <<run, open, retried, mutates, saved, before, recovery, state, allowed,
                       prompt, injected, executing>>
    BY <1>1 DEF LoadTool, RemoveTool, recoveryVars, runVars
  <2>3. QED BY <2>1, <2>2 DEF TypeOK
<1>2. ASSUME NEW m \in BOOLEAN, NEW f \in BOOLEAN, BeforeAgentStart(m, f) PROVE TypeOK'
  <2>1. run' \in Runs /\ run' \in 0..MaxRuns /\ run' # 0
    BY <1>2, SessionAssumption DEF SessionAssumption, BeforeAgentStart, NewRun, TypeOK, Runs
  <2>2. state' \in [Runs -> RecoveryState]
    BY <1>2, <2>1 DEF BeforeAgentStart, TypeOK, RecoveryState
  <2>3. active' \subseteq AllTools /\ saved' \subseteq SUBSET AllTools
    BY <1>2 DEF BeforeAgentStart, Route, Narrowed, TypeOK, AllTools
  <2>4. mutates' \subseteq Runs
    BY <1>2, <2>1 DEF BeforeAgentStart, TypeOK
  <2>5. /\ open' \in BOOLEAN /\ allowed' \in BOOLEAN /\ prompt' \in BOOLEAN
        /\ recovery' \in 0..MaxRuns /\ reloaded' \in BOOLEAN /\ before' \subseteq AllTools
        /\ registered' \subseteq Custom
        /\ executing' \subseteq Execution /\ injected' \in [Runs -> Nat]
        /\ retried' \subseteq Runs
    BY <1>2, <2>1 DEF BeforeAgentStart, NewRun, TypeOK
  <2>6. QED BY <2>1, <2>2, <2>3, <2>4, <2>5 DEF TypeOK
<1>3. CASE RunAgain
  <2>1. run' \in 0..MaxRuns /\ run' # 0 /\ run' \in Runs
    BY <1>3, SessionAssumption DEF SessionAssumption, RunAgain, NewRun, TypeOK, Runs
  <2>2. QED BY <1>3, <2>1 DEF RunAgain, NewRun, TypeOK, recoveryVars
<1>4. CASE Context
  <2>1. run \in Runs
    BY <1>4, SessionAssumption DEF SessionAssumption, Context, TypeOK, Runs
  <2>2. injected[run] + 1 \in Nat
    BY <2>1 DEF TypeOK
  <2>3. injected' \in [Runs -> Nat]
    BY <1>4, <2>2 DEF Context, TypeOK
  <2>4. QED BY <1>4, <2>3 DEF Context, TypeOK, toolVars, runVars
<1>5. CASE AgentEnd
  <2>1. active' \subseteq AllTools
    BY <1>5 DEF AgentEnd, TypeOK
  <2>2. 0 \in 0..MaxRuns
    BY SessionAssumption DEF SessionAssumption
  <2>3. QED BY <1>5, <2>1, <2>2 DEF AgentEnd, TypeOK
<1>6. CASE Execute
  <2>1. recovery' \in Runs
    BY <1>6, SessionAssumption DEF SessionAssumption, Execute, TypeOK, Runs
  <2>2. state' \in [Runs -> RecoveryState]
    BY <1>6, <2>1 DEF Execute, TypeOK, RecoveryState
  <2>3. state'[recovery'].attempts \in Nat
    BY <2>1, <2>2 DEF RecoveryState
  <2>4. executing' \subseteq Execution
    BY <1>6, <2>1, <2>3 DEF Execute, Execution, TypeOK
  <2>5. recovery' \in 0..MaxRuns
    BY <2>1 DEF Runs
  <2>6. QED BY <1>6, <2>2, <2>4, <2>5 DEF Execute, TypeOK, toolVars, runVars
<1>7. ASSUME NEW x \in executing, Succeed(x) PROVE TypeOK'
  <2>1. state' \in [Runs -> RecoveryState]
    BY <1>7 DEF Succeed, TypeOK, RecoveryState, Terminal
  <2>2. QED BY <1>7, <2>1 DEF Succeed, TypeOK, toolVars, runVars
<1>8. ASSUME NEW x \in executing, FailAsync(x) \/ Fail(x) PROVE TypeOK'
  BY <1>8, FailType
<1>9. CASE UNCHANGED vars
  BY <1>9 DEF vars, runVars, toolVars, recoveryVars, TypeOK
<1>10. QED
  BY <1>1, <1>2, <1>3, <1>4, <1>5, <1>6, <1>7, <1>8, <1>9 DEF Next

(* Every variable keeps its type, for any tools and any number of runs.    *)
THEOREM TypeCorrect == Spec => []TypeOK
<1>1. QED BY InitType, StepType, PTL DEF Spec

-----------------------------------------------------------------------------
(* Routing.                                                                *)

(* The inductive invariant: during a run in which no tool was reloaded,    *)
(* the tools before the run are the saved ones, or still the active ones.  *)
RoutingInv ==
    /\ ~open => saved = {}
    /\ ~reloaded => IF saved = {} THEN active = before ELSE saved = {before}

LEMMA StepRouting == RoutingInv /\ [Next]_vars => RoutingInv'
<1> SUFFICES ASSUME RoutingInv, [Next]_vars PROVE RoutingInv'
  OBVIOUS
<1>1. ASSUME NEW t \in Custom, LoadTool(t) \/ RemoveTool(t) PROVE RoutingInv'
  BY <1>1 DEF LoadTool, RemoveTool, RoutingInv, runVars
<1>2. ASSUME NEW m \in BOOLEAN, NEW f \in BOOLEAN, BeforeAgentStart(m, f) PROVE RoutingInv'
  BY <1>2 DEF BeforeAgentStart, NewRun, Route, RoutingInv
<1>3. CASE RunAgain
  BY <1>3 DEF RunAgain, NewRun, RoutingInv
<1>4. CASE AgentEnd
  BY <1>4 DEF AgentEnd, RoutingInv
<1>5. CASE UNCHANGED <<open, toolVars>>
  BY <1>5 DEF toolVars, RoutingInv
<1>6. QED
  BY <1>1, <1>2, <1>3, <1>4, <1>5 DEF Next, Context, Execute, Succeed, FailAsync, Fail, vars, runVars

(* Between runs the active tools are those before the last run, unless a   *)
(* custom tool was loaded or removed since it started.                     *)
THEOREM RestoredUnlessReloadedHolds == Spec => []RestoredUnlessReloaded
<1>1. Init => RoutingInv
  BY DEF Init, RoutingInv
<1>2. RoutingInv => RestoredUnlessReloaded
  BY DEF RoutingInv, RestoredUnlessReloaded
<1>3. QED BY <1>1, <1>2, StepRouting, PTL DEF Spec

-----------------------------------------------------------------------------
(* Recovery.                                                               *)

(* The inductive invariant.  What a run got and what is pending for it     *)
(* together are one prompt if a failure of the run armed the recovery and  *)
(* none otherwise; what is under way and what is pending belong to the     *)
(* open run; runs to come got nothing; and as long as a run that began a   *)
(* request for a change is open, recovery is not allowed.                  *)
PromptsCounted ==
    \A r \in Runs : injected[r] + (IF prompt /\ r = run THEN 1 ELSE 0)
                        <= (IF state[r].armedBy # 0 THEN 1 ELSE 0)
OpenRunOnly ==
    /\ ~open => ~prompt /\ executing = {} /\ recovery = 0
    /\ open => recovery \in {0, run}
    /\ \A x \in executing : x.run = run /\ x.attempt # 0
    /\ \A r \in Runs : r > run => injected[r] = 0
    /\ \A r \in retried : r <= run
MutationsBarred ==
    /\ \A r \in mutates : r <= run
    /\ \A r \in mutates \ retried : injected[r] = 0
    /\ open /\ run \in mutates \ retried => ~allowed /\ ~prompt
RecoveryInv == PromptsCounted /\ OpenRunOnly /\ MutationsBarred

LEMMA StepRecovery == TypeOK /\ RecoveryInv /\ [Next]_vars => RecoveryInv'
<1> SUFFICES ASSUME TypeOK, RecoveryInv, [Next]_vars PROVE RecoveryInv'
  OBVIOUS
<1> USE DEF RecoveryInv
<1>0. /\ run \in Nat /\ Runs \subseteq Nat
      /\ mutates \subseteq Runs /\ retried \subseteq Runs
      /\ injected \in [Runs -> Nat]
      /\ state \in [Runs -> RecoveryState]
      /\ \A r \in Runs : state[r].armedBy \in Nat /\ state[r].attempts \in Nat
  <2>1. run \in Nat /\ Runs \subseteq Nat
    BY SessionAssumption DEF SessionAssumption, TypeOK, Runs
  <2>2. /\ mutates \subseteq Runs /\ retried \subseteq Runs
        /\ injected \in [Runs -> Nat]
        /\ state \in [Runs -> RecoveryState]
    BY DEF TypeOK
  <2>3. \A s \in RecoveryState : s.armedBy \in Nat /\ s.attempts \in Nat
    BY DEF RecoveryState
  <2>4. QED BY <2>1, <2>2, <2>3
<1>1. ASSUME UNCHANGED <<run, open, retried, mutates, recoveryVars, executing>> PROVE RecoveryInv'
  BY <1>1 DEF recoveryVars, PromptsCounted, OpenRunOnly, MutationsBarred
<1>2. ASSUME NEW m \in BOOLEAN, NEW f \in BOOLEAN, BeforeAgentStart(m, f) PROVE RecoveryInv'
  <2>1. /\ run' = run + 1 /\ open' = TRUE /\ ~open
        /\ mutates' = (IF m THEN mutates \union {run'} ELSE mutates) /\ retried' = retried
        /\ allowed' = ~m /\ prompt' = FALSE /\ recovery' = run'
        /\ state' = [state EXCEPT ![run'].autoRouted = f]
        /\ UNCHANGED <<executing, injected>>
    BY <1>2 DEF BeforeAgentStart, NewRun
  <2>2. \A r \in Runs : state'[r].armedBy = state[r].armedBy
    BY <1>0, <2>1 DEF RecoveryState
  <2>3. PromptsCounted'
    BY <1>0, <2>1, <2>2 DEF PromptsCounted
  <2>4. OpenRunOnly'
    BY <1>0, <2>1 DEF OpenRunOnly
  <2>5. run' \in Runs
    BY <1>2, <1>0, <2>1, SessionAssumption
       DEF SessionAssumption, BeforeAgentStart, NewRun, Runs
  <2>6. /\ \A r \in mutates \union retried : r < run'
        /\ \A r \in mutates \ retried : injected[r] = 0
    BY <1>0, <2>1 DEF MutationsBarred, OpenRunOnly
  <2>7. injected[run'] = 0
    BY <1>0, <2>1, <2>5 DEF OpenRunOnly
  <2>8. \A r \in mutates' : r <= run' /\ r \in mutates \union {run'}
    BY <1>0, <2>1, <2>6
  <2>9. \A r \in mutates' \ retried' : injected'[r] = 0
    BY <2>1, <2>6, <2>7, <2>8
  <2>10. run' \in mutates' => ~allowed' /\ ~prompt'
    <3>1. CASE m
      BY <2>1, <3>1
    <3>2. CASE ~m
      <4>1. mutates' = mutates
        BY <2>1, <3>2
      <4>2. run' \notin mutates
        BY <1>0, <2>5, <2>6
      <4>3. QED BY <4>1, <4>2
    <3>3. QED BY <3>1, <3>2
  <2>11. MutationsBarred'
    BY <2>8, <2>9, <2>10 DEF MutationsBarred
  <2>12. QED BY <2>3, <2>4, <2>11
<1>3. CASE RunAgain
  <2>1. /\ run' = run + 1 /\ open' = TRUE /\ ~open
        /\ retried' = retried \union {run'}
        /\ mutates' \subseteq mutates \union {run'}
        /\ UNCHANGED <<recovery, state, allowed, prompt, injected, executing>>
    BY <1>3 DEF RunAgain, NewRun, recoveryVars
  <2>2. PromptsCounted' /\ OpenRunOnly'
    BY <1>0, <2>1 DEF PromptsCounted, OpenRunOnly
  <2>3. MutationsBarred'
    BY <1>0, <2>1 DEF MutationsBarred
  <2>4. QED BY <2>2, <2>3
<1>4. CASE Context
  <2>1. /\ open /\ prompt /\ executing = {} /\ prompt' = FALSE
        /\ injected' = [injected EXCEPT ![run] = @ + 1]
        /\ UNCHANGED <<run, open, retried, mutates, recovery, state, allowed, executing>>
    BY <1>4 DEF Context, runVars
  <2>2. \A r \in Runs : injected'[r] = injected[r] + (IF r = run THEN 1 ELSE 0)
    BY <1>0, <2>1
  <2>3. PromptsCounted'
    BY <1>0, <2>1, <2>2 DEF PromptsCounted
  <2>4. OpenRunOnly'
    BY <1>0, <2>1, <2>2 DEF OpenRunOnly
  <2>5. MutationsBarred'
    BY <1>0, <2>1, <2>2 DEF MutationsBarred
  <2>6. QED BY <2>3, <2>4, <2>5
<1>5. CASE AgentEnd
  BY <1>0, <1>5 DEF AgentEnd, PromptsCounted, OpenRunOnly, MutationsBarred
<1>6. CASE Execute
  <2>1. /\ open /\ recovery' = run
        /\ UNCHANGED <<run, open, retried, mutates, allowed, prompt, injected>>
        /\ state' = [state EXCEPT ![run].attempts = @ + 1]
        /\ executing' = executing \union {[run |-> run, attempt |-> state'[run].attempts]}
    BY <1>6 DEF Execute, OpenRunOnly, runVars
  <2>2. run \in Runs
    BY <2>1, SessionAssumption DEF SessionAssumption, TypeOK, Runs
  <2>3. /\ \A r \in Runs : state'[r].armedBy = state[r].armedBy
        /\ state'[run].attempts = state[run].attempts + 1
    BY <1>0, <2>1, <2>2 DEF RecoveryState
  <2>4. state'[run].attempts # 0
    BY <1>0, <2>2, <2>3
  <2>5. PromptsCounted' /\ MutationsBarred'
    BY <2>1, <2>3 DEF PromptsCounted, MutationsBarred
  <2>6. OpenRunOnly'
    BY <2>1, <2>4 DEF OpenRunOnly
  <2>7. QED BY <2>5, <2>6
<1>7. ASSUME NEW x \in executing, executing' = executing \ {x},
             UNCHANGED <<run, open, retried, mutates, recovery, allowed, prompt, injected>>,
             \A r \in Runs : state'[r].armedBy = state[r].armedBy
      PROVE  RecoveryInv'
  BY <1>7 DEF PromptsCounted, OpenRunOnly, MutationsBarred
<1>8. ASSUME NEW x \in executing, Succeed(x) \/ Fail(x) \/ FailAsync(x) PROVE RecoveryInv'
  <2>1. x.run \in Runs /\ x.attempt \in Nat /\ state[x.run] \in RecoveryState
    BY <1>0 DEF TypeOK, Execution
  <2>2. CASE state' = [state EXCEPT ![x.run] = FailedState(state[x.run])]
             /\ UNCHANGED <<run, open, retried, mutates, recovery, allowed, prompt, injected>>
             /\ executing' = executing \ {x}
    <3>1. \A r \in Runs : state'[r].armedBy = state[r].armedBy
      BY <1>0, <2>1, <2>2, FailedType
    <3>2. QED BY <1>7, <2>2, <3>1
  <2>3. CASE Succeed(x)
    <3>1. \A r \in Runs : state'[r].armedBy = state[r].armedBy
      BY <1>0, <2>1, <2>3 DEF Succeed, RecoveryState
    <3>2. QED BY <1>7, <2>3, <3>1 DEF Succeed, runVars
  <2>4. CASE FailAsync(x) /\ allowed /\ CanRecover(x)
    <3>1. /\ prompt' = TRUE
          /\ state' = [state EXCEPT ![x.run] =
                          FailedState([state[x.run] EXCEPT !.armedBy = x.attempt])]
          /\ executing' = executing \ {x}
          /\ UNCHANGED <<run, open, retried, mutates, recovery, allowed, injected>>
      BY <2>4 DEF FailAsync, runVars
    <3>2. /\ x.run = run /\ x.attempt # 0 /\ open
          /\ state[run].armedBy = 0 /\ allowed
      BY <2>4 DEF CanRecover, OpenRunOnly
    <3>3. \A r \in Runs : state'[r].armedBy = IF r = run THEN x.attempt ELSE state[r].armedBy
      BY <1>0, <2>1, <3>1, <3>2, FailedType, ArmedType
    <3>4. PromptsCounted'
      BY <1>0, <2>1, <3>1, <3>2, <3>3 DEF PromptsCounted
    <3>5. OpenRunOnly' /\ MutationsBarred'
      BY <3>1, <3>2 DEF OpenRunOnly, MutationsBarred
    <3>6. QED BY <3>4, <3>5
  <2>5. QED BY <1>8, <2>2, <2>3, <2>4 DEF Fail, FailAsync, runVars
<1>9. QED
  BY <1>1, <1>2, <1>3, <1>4, <1>5, <1>6, <1>8
     DEF Next, LoadTool, RemoveTool, vars, runVars, toolVars, recoveryVars

LEMMA InitRecovery == Init => RecoveryInv
BY DEF Init, RecoveryInv, PromptsCounted, OpenRunOnly, MutationsBarred, Fresh

(* A run gets at most one recovery prompt, and only for its own failure.   *)
THEOREM OnePromptPerRunHolds == Spec => []OnePromptPerRun
<1>1. TypeOK /\ RecoveryInv => OnePromptPerRun
  BY DEF TypeOK, RecoveryState, RecoveryInv, PromptsCounted, OnePromptPerRun
<1>2. QED BY <1>1, InitRecovery, StepRecovery, TypeCorrect, PTL DEF Spec

(* A request for a change gets no recovery prompt unless it is retried.    *)
THEOREM NoRecoveryOfMutationHolds == Spec => []NoRecoveryOfMutation
<1>1. RecoveryInv => NoRecoveryOfMutation
  BY DEF RecoveryInv, MutationsBarred, NoRecoveryOfMutation
<1>2. QED BY <1>1, InitRecovery, StepRecovery, TypeCorrect, PTL DEF Spec
=============================================================================
