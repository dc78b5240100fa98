-------------------------- MODULE ExtensionSession --------------------------
(***************************************************************************)
(* The session of the extension (src/index.ts): the handlers of Pi's       *)
(* events, the routing of a prompt to code_execution, which narrows Pi's   *)
(* active tools for the time of one agent run, and the recovery of a       *)
(* failed execution (src/recovery-state.ts), whose prompt goes into the    *)
(* next context of the run.                                                *)
(*                                                                         *)
(* A run lasts to agent_end.  Pi awaits the tool calls of a run before it  *)
(* builds the next context or ends the run.  It goes on with a user's      *)
(* request after an error in a new run, without before_agent_start: a      *)
(* request is a run that before_agent_start began and the retried runs     *)
(* that follow it.  Pi's own functions are taken not to throw.  The order  *)
(* of the active tools is abstracted, and so is what a recovery prompt     *)
(* says.                                                                   *)
(***************************************************************************)
EXTENDS Naturals, FiniteSets

CONSTANTS
    Builtin,       \* the tools that are always registered
    Custom,        \* the tools CustomToolManager may load and remove
    Routable,      \* the tools Python may call that are also called directly
    MaxRuns,       \* bound on the runs of the agent
    MaxAttempts    \* bound on the executions of a run

CE == "code_execution"

ASSUME SessionAssumption ==
    /\ CE \notin Builtin \union Custom
    /\ Builtin \intersect Custom = {}
    /\ MaxRuns \in Nat
    /\ MaxAttempts \in Nat

VARIABLES
    run,         \* the number of runs started
    open,        \* the last of them has not ended
    retried,     \* the runs that go on with the request of the run before
    mutates,     \* the runs whose request asks for a change
    registered,  \* the custom tools that are loaded
    active,      \* Pi's active tools
    saved,       \* activeToolsBeforeRouting, {} when null, else {the list}
    recovery,    \* recoveryState of the session: its run, 0 when null
    state,       \* the recovery state of each run
    allowed,     \* recoveryAllowed
    prompt,      \* pendingRecoveryPrompt is set
    executing,   \* the executions under way
    injected,    \* how many contexts of a run got a recovery prompt
    before,      \* Pi's active tools when the last run started
    reloaded     \* a custom tool was loaded or removed since then

toolVars     == <<registered, active, saved, before, reloaded>>
recoveryVars == <<recovery, state, allowed, prompt, injected>>
runVars      == <<run, open, retried, mutates>>
vars         == <<runVars, toolVars, recoveryVars, executing>>

Runs     == 1..MaxRuns
AllTools == Builtin \union Custom \union {CE}
Terminal == {"none", "success", "failed_without_recovery", "failed_after_recovery"}

(* armedBy is the attempt whose failure armed the recovery, 0 when none    *)
(* did: recoveryAttempted and failureClass are set exactly then.           *)
RecoveryState == [autoRouted : BOOLEAN, attempts : Nat, armedBy : Nat,
                  terminal : Terminal]

(* createPtcRecoveryState                                                  *)
Fresh == [autoRouted |-> FALSE, attempts |-> 0, armedBy |-> 0, terminal |-> "none"]

(* An execution keeps the recovery state it started with.                  *)
Execution == [run : Runs, attempt : Nat]

Init ==
    /\ run = 0
    /\ open = FALSE
    /\ retried = {}
    /\ mutates = {}
    /\ registered \in SUBSET Custom
    /\ \E direct \in SUBSET {CE} : active = Builtin \union registered \union direct
    /\ saved = {}
    /\ recovery = 0
    /\ state = [r \in Runs |-> Fresh]
    /\ allowed = TRUE
    /\ prompt = FALSE
    /\ executing = {}
    /\ injected = [r \in Runs |-> 0]
    /\ before = active
    /\ reloaded = FALSE

-----------------------------------------------------------------------------
(* The tools.                                                              *)

(* registerLoadedTool and deactivateTool of CustomToolManager.             *)
LoadTool(t) ==
    /\ t \notin registered
    /\ registered' = registered \union {t}
    /\ active' = active \union {t}
    /\ reloaded' = TRUE
    /\ UNCHANGED <<runVars, saved, before, recoveryVars, executing>>

RemoveTool(t) ==
    /\ t \in registered
    /\ registered' = registered \ {t}
    /\ active' = active \ {t}
    /\ reloaded' = TRUE
    /\ UNCHANGED <<runVars, saved, before, recoveryVars, executing>>

\* Mutant: routing activates the alias glob, which Pi does not know.
NarrowedWithAlias ==
    (active \ (Routable \intersect (Builtin \union registered))) \union {CE, "glob"}

(* applyAutoRouting: the routable tools go, code_execution comes; the list *)
(* is saved when that changes it.                                          *)
Narrowed == (active \ (Routable \intersect (Builtin \union registered))) \union {CE}

Route ==
    /\ active' = Narrowed
    /\ saved' = IF Narrowed # active THEN {active} ELSE saved

-----------------------------------------------------------------------------
(* The runs of the agent.                                                  *)

NewRun ==
    /\ ~open /\ run < MaxRuns
    /\ run' = run + 1
    /\ open' = TRUE
    /\ before' = active
    /\ reloaded' = FALSE

(* before_agent_start with a prompt that asks for a change or not, and     *)
(* calls for a code_execution that Pi lists or not: one may do both.  Of a *)
(* routing that throws, since two tools have one Python name, Pi drops the *)
(* error; autoRouted is set by then, and nothing else.                     *)
BeforeAgentStart(mutation, fanout) ==
    /\ NewRun
    /\ retried' = retried
    /\ mutates' = IF mutation THEN mutates \union {run'} ELSE mutates
    /\ allowed' = ~mutation
    /\ prompt' = FALSE
    /\ recovery' = run'
    /\ state' = [state EXCEPT ![run'].autoRouted = fanout]
    /\ (fanout /\ Route) \/ UNCHANGED <<active, saved>>
    /\ UNCHANGED <<registered, executing, injected>>

(* Pi goes on with the request: no handler of the extension is called.     *)
RunAgain ==
    /\ run # 0
    /\ NewRun
    /\ retried' = retried \union {run'}
    /\ mutates' = IF run \in mutates THEN mutates \union {run'} ELSE mutates
    /\ UNCHANGED <<registered, active, saved, recoveryVars, executing>>

(* context: before each turn, when the tool calls of the last are done.    *)
Context ==
    /\ open /\ executing = {}
    /\ prompt
    /\ prompt' = FALSE
    /\ injected' = [injected EXCEPT ![run] = @ + 1]
    /\ UNCHANGED <<runVars, toolVars, recovery, state, allowed, executing>>

\* Mutant: agent_end leaves the pending prompt.
AgentEndKeepingPrompt ==
    /\ open /\ executing = {}
    /\ open' = FALSE
    /\ active' \in IF saved = {} THEN {active} ELSE saved
    /\ saved' = {}
    /\ allowed' = TRUE
    /\ recovery' = 0
    /\ UNCHANGED <<run, retried, mutates, registered, before, reloaded, state, prompt,
                   executing, injected>>

\* Mutant: the saved list is restored and not dropped.
AgentEndKeepingList ==
    /\ open /\ executing = {}
    /\ open' = FALSE
    /\ active' \in IF saved = {} THEN {active} ELSE saved
    /\ prompt' = FALSE
    /\ allowed' = TRUE
    /\ recovery' = 0
    /\ UNCHANGED <<run, retried, mutates, registered, saved, before, reloaded, state,
                   executing, injected>>

(* agent_end: restoreActiveToolsAfterRouting and the resets.               *)
AgentEnd ==
    /\ open /\ executing = {}
    /\ open' = FALSE
    /\ active' \in IF saved = {} THEN {active} ELSE saved
    /\ saved' = {}
    /\ prompt' = FALSE
    /\ allowed' = TRUE
    /\ recovery' = 0
    /\ UNCHANGED <<run, retried, mutates, registered, before, reloaded, state, executing, injected>>

-----------------------------------------------------------------------------
(* The tool code_execution.                                                *)

(* execute up to its await: getRequestRecoveryState makes a state when     *)
(* there is none, then noteCodeExecutionAttempt.                           *)
Execute ==
    /\ open /\ CE \in active
    /\ state[run].attempts < MaxAttempts
    /\ recovery' = IF recovery = 0 THEN run ELSE recovery
    /\ state' = [state EXCEPT ![recovery'].attempts = @ + 1]
    /\ executing' = executing \union
                        {[run |-> recovery', attempt |-> state'[recovery'].attempts]}
    /\ UNCHANGED <<runVars, toolVars, allowed, prompt, injected>>

(* noteCodeExecutionSuccess                                                *)
Succeed(x) ==
    /\ x \in executing
    /\ executing' = executing \ {x}
    /\ state' = [state EXCEPT ![x.run].terminal = "success"]
    /\ UNCHANGED <<runVars, toolVars, recovery, allowed, prompt, injected>>

(* canAttemptAutomaticRecovery, with PTC_AUTO_RECOVER on.                  *)
CanRecover(x) == state[x.run].attempts > 0 /\ state[x.run].armedBy = 0

FailedState(s) ==
    [s EXCEPT !.terminal = IF s.armedBy # 0 THEN "failed_after_recovery"
                                            ELSE "failed_without_recovery"]

\* Mutant: recoveryAllowed is not asked.
FailAsyncAlways(x) ==
    /\ x \in executing
    /\ executing' = executing \ {x}
    /\ IF CanRecover(x)
       THEN /\ prompt' = TRUE
            /\ state' = [state EXCEPT ![x.run] =
                            FailedState([@ EXCEPT !.armedBy = x.attempt])]
       ELSE /\ prompt' = prompt
            /\ state' = [state EXCEPT ![x.run] = FailedState(@)]
    /\ UNCHANGED <<runVars, toolVars, recovery, allowed, injected>>

(* A Python error that classifyCodeExecutionFailure names: armed once a    *)
(* run, whatever attempt failed.                                           *)
FailAsync(x) ==
    /\ x \in executing
    /\ executing' = executing \ {x}
    /\ IF allowed /\ CanRecover(x)
       THEN /\ prompt' = TRUE
            /\ state' = [state EXCEPT ![x.run] =
                            FailedState([@ EXCEPT !.armedBy = x.attempt])]
       ELSE /\ prompt' = prompt
            /\ state' = [state EXCEPT ![x.run] = FailedState(@)]
    /\ UNCHANGED <<runVars, toolVars, recovery, allowed, injected>>

(* Any other failure.                                                      *)
Fail(x) ==
    /\ x \in executing
    /\ executing' = executing \ {x}
    /\ state' = [state EXCEPT ![x.run] = FailedState(@)]
    /\ UNCHANGED <<runVars, toolVars, recovery, allowed, prompt, injected>>

Next ==
    \/ \E t \in Custom : LoadTool(t) \/ RemoveTool(t)
    \/ \E mutation, fanout \in BOOLEAN : BeforeAgentStart(mutation, fanout)
    \/ RunAgain \/ Context \/ AgentEnd \/ Execute
    \/ \E x \in executing : Succeed(x) \/ FailAsync(x) \/ Fail(x)

Spec == Init /\ [][Next]_vars

-----------------------------------------------------------------------------
TypeOK ==
    /\ run \in 0..MaxRuns
    /\ open \in BOOLEAN
    /\ open => run # 0
    /\ retried \subseteq Runs
    /\ mutates \subseteq Runs
    /\ registered \subseteq Custom
    /\ active \subseteq AllTools
    /\ saved \subseteq SUBSET AllTools
    /\ recovery \in 0..MaxRuns
    /\ state \in [Runs -> RecoveryState]
    /\ allowed \in BOOLEAN
    /\ prompt \in BOOLEAN
    /\ executing \subseteq Execution
    /\ injected \in [Runs -> Nat]
    /\ before \subseteq AllTools
    /\ reloaded \in BOOLEAN

(* A run gets at most one recovery prompt, and only for a failure of its   *)
(* own: executions that fail alike at the same time and a prompt left      *)
(* unused when a run ends bring no other one (armAutomaticRecovery,        *)
(* handleContext, handleAgentEnd).  It is less than README.md:157 says,    *)
(* "only async-only first-attempt failures are eligible, and at most one   *)
(* auto-recovery attempt is allowed per user request": any attempt arms,   *)
(* and each retried run of a request may get a prompt of its own, since    *)
(* agent_end drops the recovery state (index.ts:412).                      *)
OnePromptPerRun ==
    \A r \in Runs : injected[r] <= (IF state[r].armedBy # 0 THEN 1 ELSE 0)

(* A request for a change gets no recovery prompt, whatever happened in    *)
(* the requests before it, unless Pi retries it: README.md:910 says that   *)
(* it never does, but agent_end allows recovery again (index.ts:411) and a *)
(* retried run has no before_agent_start to forbid it.                     *)
NoRecoveryOfMutation == \A r \in mutates : injected[r] > 0 => r \in retried

(* Routing leaves no trace: between runs, Pi's active tools are what they  *)
(* were before the last run unless custom tools were reloaded since, by    *)
(* whatever sequence of routed and other runs, and though a routing may    *)
(* throw (activeToolsBeforeRouting).                                       *)
RestoredUnlessReloaded == ~open /\ ~reloaded => active = before
=============================================================================
