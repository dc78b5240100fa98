# Specifications of pi-ptc-next

`pi-ptc-next` is an extension of the Pi coding agent. It gives the model one
tool, `code_execution`, that runs a Python program; the program calls the other
tools of the agent as Python functions, over two pipes, and only what it
returns goes back to the model. This directory holds TLA+ specifications of the
extension, the configurations TLC checks them with, and theorems about them
with proofs for TLAPS. Paths below are relative to the repository's `src/` and
`README.md`; line numbers are those of the commit the specifications were
written from.

    tlc -config MCRpcBridge_calls.cfg MCRpcBridge     # a run
    tlapm RpcBridgeProofs.tla                         # the proofs of a module

`PROJECT.json` lists the runs, the source lines of every definition, the
hazards and the theorems.

## 1. The system

| component | state | operations | talks to |
|---|---|---|---|
| `CodeExecutor` (code-executor.ts) | none of its own | `execute`: validates the program, fixes the callable tools, spawns the sandbox, waits for the outcome | ToolRegistry, sandbox, RpcProtocol |
| `RpcProtocol` (rpc-protocol.ts) | the completion promise, gathered stdout and stderr, counters, exit and close flags, two timers | handlers of lines, `close`, `exit`, `error`, stderr data, abort, timeout | child process through pipes, the tools through `runTool` |
| `RpcClient` (rpc.py) | the call counter, pending futures, the reader task | `call`, `_handle_response`, `_stdin_reader`, `cleanup` | the host through stdin and stdout |
| driver and stdout proxy (runtime.py) | the unfinished line | `_runtime_main`, `write`, `flush` | RpcClient, `user_main` |
| `DockerSandbox` (sandbox-manager.ts) | the container's id, when it was used last, the cleanup timer | `spawn`, `cleanupExpired`, `cleanup` | docker, CodeExecutor, session |
| `CustomToolManager` (custom-tool-manager.ts) | tool name of each file, signatures, debounce timers, watcher and poll | `start`, the watcher's callback, the poll, `reconcileFile`, `close` | files, ToolRegistry, Pi's active tools, `onToolSetChanged` |
| session handlers (index.ts) | the active tools before routing, the pending recovery prompt, whether recovery is allowed, the recovery state | `session_start`, `before_agent_start`, `context`, `agent_end`, `session_shutdown`, `execute` of the tool | Pi, all of the above |
| recovery (recovery-state.ts, recovery-classifier.ts) | attempts, whether recovery was attempted, how the run ended | `noteCodeExecutionAttempt`, `armAutomaticRecovery`, ... | session handlers |
| `ToolRegistry` (tool-registry.ts) | custom tools, executors from other extensions | upsert and remove, `getCallableTools`, `createCallableToolRuntime` | Pi's tools |
| wrapper generation (tools/tool-wrapper.ts, python-tool-contract.ts) | the metadata an execution carries | helper names and their validation, the generated functions, what `ptc.help` returns | CodeExecutor, the program |
| Python helpers (runtime.py) | none between calls | `gather_limit`, `batch_tool`, `read_many`, `first_success`, `fit_output`, reports | RpcClient |

The rest is conversion, formatting, settings and developer tools
(`PROJECT.json` lists it with reasons for leaving it out).

What is hard about it:

* **The bridge.** Two processes, two pipes and a dozen event handlers. The end
  of a program shows as a terminal frame, a line that is no frame, the close of
  stdout, the exit event, stderr data, an abort or a timeout, several of them
  in any order, and nested calls are answered out of order meanwhile. Raw output
  may swallow a frame, and a request may be one that the host refuses. Correct
  is: one outcome, justified by what the program did, with all its output; each
  call that is a frame served once and answered with its own result; every
  execution settled, and no program still using tools for nobody.
* **Hot reload.** Files change at any moment, events are lost and merged, the
  watcher and the poll reload the same file, files share names, and the callback
  after a registration may throw. Correct is: the registered and active tools
  are those of the files once things are quiet, and consistent all along.
* **The session.** Routing narrows a list that Pi, the reloads and the user
  share, and must be undone; a failure arms a prompt for the next context that
  must not be repeated, nor reach another run, nor a run that asked for changes.
* **The container.** Three parties measure its age; docker calls fail; it may
  die. Correct is: no execution loses it early, none is left behind.
* **The policy.** A tool is put together from up to four layers (builtin, sent
  by an extension, custom, listed by Pi), each with its own idea of what it is,
  and filtered by five settings. Correct is: what is judged is what runs. The
  code takes metadata and implementation from the layers independently of each
  other, so there are tools of which that is not so.
* **Batches.** Calls run side by side in the program under a limit, fail alone
  and are cancelled together. Correct is: a helper's outcome tells what its calls
  came to, and it leaves none running unawares.
* **Output budgets.** A text that says how long it is changes its length by
  saying so, twice over: in the report of `fit_output` and in the notice of
  `truncateOutput`. Correct is: the limits hold, what is said is true, and what
  was fitted is not cut again.
* **Calls of tools.** A tool reaches a program as a schema, as a generated
  function, as one that runtime.py wraps again, and as the host's own check of
  the parameters, while the registry moves on. Correct is: a call that follows
  the schema arrives, at the tool it was meant for and with what was meant.

## 2. The plan

The order is that of importance. All eight are written.

| | module | abstract specification, composition | status |
|---|---|---|---|
| 1 | `RpcBridge` | implements `Execution` | modelled, checked, proved, the refinement too |
| 2 | `HotReload` | - | modelled, checked, proved |
| 3 | `ExtensionSession` | - | modelled, checked, proved |
| 4 | `DockerSandbox` | - | modelled, checked, proved |
| 5 | `Batch` | over the calls of `RpcBridge`, each of which comes to a value or an error | modelled, checked, proved |
| 6 | `ToolPolicy` | with the custom tools of `HotReload` and the routing of `ExtensionSession`, each reduced to what the policy sees | modelled, checked, proved |
| 7 | `OutputBudget` | from the value in the program to the text for the model | modelled, checked, proved |
| 8 | `PythonHelpers` | the tools of one execution while the registry changes, reduced to a choice among sets of tools (`HotReload` and `ToolPolicy` say which) | modelled, checked, proved |

Every invariant and action property that a passing run checks, and the
refinement, is proved (section 5). What those runs check and no theorem states
is liveness.

## 3. The modules

### RpcBridge and Execution

`Execution` says what `CodeExecutor.execute` promises, with no process, pipe or
frame in it: a program prints, may put stray output on stdout, may complain on
stderr and ends; the caller sees one outcome, which is justified by the
program's end and carries what was printed if it is a success: all of it, or
some of it in the right order (`Excerpt`) when stray output swallowed lines.

`RpcBridge` is one execution from the spawn on. The process's life is `prog`
(`unspawned` when the spawn fails), RpcClient's are `callId`, `pending`, `call`,
`got` and `reader`; the pipes are the sequences `toHost` and `toPy`; the host's
are `completion` (the promise), `timer`, `counts`, `stdout`, `stderrSeen`,
`exitSeen`, `closed`, `signals` and `killTimer`. Each handler of the RpcProtocol
constructor is one action; a handler that rejects after an `await` queues a
microtask (`micro`), and no other host callback runs while one is queued, as in
Node.js. `run[c]` is the tool started for call `c`; `ToolReturns` covers its
three ends, among them the value that `JSON.stringify` cannot send, which is
counted twice. On the program's side the tasks of `user_main` call, print,
are resumed, time out after 300 s and are cancelled in any order; a response of
more than 4 MB kills the reader; text without a newline waits in the stdout
proxy; `_runtime_main` ends in a `complete` or an `error` frame, and the process
may die anywhere, tearing the frame it writes.

A request may fail to be a frame in three ways. `json.dumps` refuses a parameter
after the id was counted (`PyCallUnsent`): nothing is awaited. A parameter is NaN
or infinite (`PyCallUnreadable`): Python writes it and `JSON.parse` refuses the
line. Or text on the raw stdout that no newline has ended (`stray`) makes one line
with what is written next, whatever that is (`Put`). `lost` has the calls of all
three. A report may be refused in the same ways (`PyReturnUnreadable`). A program
may close its stdout and live on (`PyCloseStdout`, `hungUp`): the host then sees
the close event of a live program, and no terminal frame can be written
(`PyLeave`). After `user_main` the interpreter may exit (`PyExit`) but need not:
`asyncio.run` waits for tasks that swallow their cancellation, and the interpreter
for threads.

A frame carries its type and one number. Progress and update frames change no
state and are left out, as is an `onUpdate` that throws.

### HotReload

The files of the tools directory are `disk`: a stamp (modification time and
size) and a content, which is a tool definition, something invalid, or absent.
Writers change it between any two steps. `fileToTool`, `signatures`, `timers`
are the manager's maps; `registry` and `active` are the ToolRegistry's custom
tools and Pi's active ones; `loads` are the calls of `reconcileFile` and of
`start()` that wait for their file. `registerLoadedTool` is `Upserted` and
`Activated`; when the callback throws because two helper names clash, `Undo` is
what the catch of `reconcileFile` makes of it, and the catch of `start()`, which
only logs, is in `FinishStart`.

`imports` says how `import()` behaves. In the CommonJS build it is a `require`
in a microtask, so that a callback and its loads end before the next callback
starts; when the loader evaluates modules asynchronously (Pi loads
`src/index.ts` itself), other callbacks run in between. Consistency is claimed
for both, agreement with the files for the first only: under the second the
older of two overlapping reloads may win.

### ExtensionSession

A run of the agent lasts from `before_agent_start` (or from Pi's own retry, without
that event) to `agent_end`. A retry goes on with the same request of the user
(`retried`): it asks for a change if the run before it did, and as `agent_end` has
reset `recoveryAllowed` and dropped the recovery state, and no `before_agent_start`
sets them again, it starts without either. `saved` is `activeToolsBeforeRouting`,
`allowed` and `prompt` are `recoveryAllowed` and `pendingRecoveryPrompt`; each run
has its recovery state, which an execution keeps across its await. Custom tools are
loaded and removed at any time. The regular expressions that classify a prompt or a
failure are free choices, and a prompt may both ask for a change and be routed, as
one that names `code_execution` does. A routing may be called for and not take
place: when `code_execution` is not registered, or when it throws since two tools
have one Python name; Pi drops what a handler throws.

### DockerSandbox

Time passes in ticks; `idle` is the time since `lastUsed`, `age` that of each
execution; both stop counting when nothing can tell greater values apart.
Every `docker` call is synchronous, hence one step, and may fail; a container
may die by itself. `docker stop` always fails for a container that is gone,
since `stopContainerNow` looks for "No such container" in a message it has
asked not to get (`stdio: "ignore"`): the spawn that meets an expired container
that died throws, and the next makes a new one, because the id is forgotten
first. `IdleForgotten` depends on that order.

### Batch

One use of `batch_tool`, `read_many`, `reduce_tool`, `gather_limit` or
`first_success` (runtime.py). `kind` tells the helpers apart by what they do
with a failed call: `"raise"` and `"reduce"` let it out, `"collect"` and
`"many"` turn it into an entry, `"first"` makes the next call. `task[i]` is the
task of a call, from the wait for the semaphore (`slots`) to its end; `reply`
is what the call came to, for which the model allows what `RpcBridge` says of a
call: any value or error, at any time, or never. `outer` is the future of
`asyncio.gather`, which takes the first exception and lets the other tasks run
on; `helper` is the coroutine the program awaits, and may cancel. When all calls
have returned the helper may still raise (`ConversionRaises`): what it makes of
the results of `grep` and `read` supposes a form that a tool need not keep to, and
the reducer of `reduce_tool` is the program's. Argument
checks, which raise before any call is made, are left out. asyncio is modelled
as of Python 3.12.

### ToolPolicy

`buildToolMap` and `getCallableTools` are functions of the state, `ToolMap` and
`CanCall`; each variable is a layer they read. `custom` are the registry's
`customTools`, with `owned` the `extensionOwnedToolNames` by which it tells a
removed tool that Pi cannot forget; `sent` the `extensionExecutors`; `pi` says
whose tool Pi has under a name and `other` what another extension registered
there; `active` is Pi's list, `saved` the one from before routing. `shows` says
which of `ptc` and `execute` Pi's list shows of its tools: `ActivePiToolInfo` has
both as optional, and `buildToolMap` tests each by itself. Settings are those of
the session. `UpsertTool` and `RemoveTool` are the registry's, with what their
callers in `CustomToolManager` do to Pi's list; `Register`,
`IngestExtensionExecutors` and `Toggle` are the other extensions and the user.

Of Pi the model assumes that the extension that registers a name last has it, and
of the other extensions nothing: they register over builtin and custom tools and
over their own, and send executors with other metadata than they register. So
`buildToolMap` may judge a tool by the metadata of one definition (line 359) and
run the code of another (line 368): when Pi shows one of the two and not the
other, or when a tool comes without metadata. `Mixed` is that case. Metadata that
contradict themselves (`policy: "mutating"`, `readOnly: true`) count as read-only
if either says so, as `normalizeStoredPtc` keeps both. Left out are `glob`,
schemas, and builtin tools that fail to initialize.

### OutputBudget

What a program returns, by its lengths alone: `FitOutput`, `FitsAsItIs`, `AsText`,
`Shrink` and `Shrunk` are `fit_output`, from its limits through
`_fit_result_to_char_budget` to the minimal and the bare result; `Complete` is
the frame and what the host puts before it; `Whole`, `FirstNotice`, `Attempt`
and `Bound` are `truncateOutput`. `phase` is the place in this sequence.
`preview` counts characters, those that take two when they are escaped, and the
astral ones, which Python counts once and JavaScript twice. Where a text is
cut any of its quotes and astral characters may be in either part, which stands
for every order they can have.

What the model shows beyond its property: the loop of `fit_output` never runs a
second round, as its first takes off all that is too much; the loop of
`truncateOutput` does not always settle, and its notice is then wrong by one (of
an output of 100 characters under a setting of 66 it says that the first 10 are
shown, and shows 9); a fitted result is cut again if the program also printed, or
if it holds astral characters.

### PythonHelpers

Everything between a schema and the value a call returns. `registry` are the
callable tools there are now, `tools` those of the execution, in an order that
`_callable_tool_lookup` depends on (`Help`): it knows a tool by both of its
names, and the later entry wins. `CallHelper` is a call that follows the schema
that was `asked` for: required parameters by position, the others by name. The
order of the required ones can be read off `required` alone, as the metadata
sort the properties by name. `Takes`, `Formals` and `Mandatory` are what the
function has instead, generated from the schema, or of its own as for `read`, or
wrapped by runtime.py with one positional parameter. `CallByName` is a batch
helper, which sends its dictionary as it is. `Serve` is `runTool`, `Answer` what
`normalizeToolResult` makes of the result. `Change` replaces the registry at any
time: a program keeps its tools, which for `runTool` is the tool map that
`createCallableToolRuntime` made.

A helper is a Python name like any other. `Rebound` are the names that the text of
the program binds again after the helpers: `asyncio` (code-executor.ts:53) and what
runtime.py imports from `typing`; such a helper is gone. `LookedUp` are the names
that rpc.py and runtime.py, in the same module, look up while they run: `json`,
`sys`, `list`, `isinstance` and many more. A helper of such a name replaces the
module or the builtin, and depending on which it is the program dies at its start,
calls raise, or answers never arrive; `Break` allows each of these, or none.

`RefusedForAReason` lists all reasons why a call that follows the schema may fail.
In `Misfits` each is a place where the code's own readings of a schema differ: an
override of `read` that is given another Python name (the metadata say `read_text`,
only `read` is defined) or other parameters; an override of `grep`, `find`, `glob`
or `ls` whose first parameter is another; a required parameter that may be null,
which the function takes for optional and drops. In the program a call may also
fail since its helper was rebound, or some helper has a looked-up name.
`AnsweredAsDeclared` names one more difference: `sg` is declared to return a
record, but a text-only result stays text.

## 4. The runs

| run | bounds | shows |
|---|---|---|
| `bridge_calls` | two calls, one of them or of the reports no frame | a call that is a frame is served once and answered with its own result; one that waits for its timeout had no frame, and its execution is rejected; the report of a success counts every answer the program used |
| `bridge_outcome` | one call, one text, one stray output, a stdout that may be closed | `RpcBridge` implements `Execution`; every execution settles, stopped programs die, and `user_main` is over when its execution is, unless a bad line settled it, it closed its stdout or it is being terminated |
| `bridge_hard_timeout` | one stray output | violated: a finding |
| `reload` | two files, three definitions, two of them with one helper name, two writes and one | consistency at every step, agreement when settled, convergence, silence after `close()` |
| `reload_skipped` | the same | violated: a finding |
| `session` | three runs of two executions, one custom tool | no run gets two prompts or another's, no request for a change gets one unless Pi retries it, and routing is undone |
| `docker` | two executions at once, three containers, a timeout of five ticks checked every two | executions keep their container, one container runs, an idle one is forgotten |
| `batch` | three calls, every limit up to three | the limit holds, outcomes are true to the calls, only a failure leaves calls behind, failures show at once, answers end every helper |
| `policy` | three names, three metadata or none, three settings, all that Pi may show, three changes | what runs was meant to be run by a program under the settings, but for mixed tools; removed tools stay away, the report on the allow list is complete, routing takes away nothing that a program cannot run but what only Pi has |
| `policy_routed` | the same | violated: a finding |
| `budget` | twelve values, six limits, some 150 settings | the limits hold from the program to the model, the notice is true but for one, and what fits arrives whole unless the program prints |
| `helpers` | eleven sets of tools that replace one another | a call that follows the schema arrives at the tool it was meant for, as it was meant, or fails for one of the reasons listed |

Why these bounds are enough: two calls are the fewest that can be confused, overtake
each other or be caught together by a dying reader; one text can be printed, half
printed, flushed or swallowed, between a call and the report; one stray output is
enough to swallow any frame or to settle an execution early. What order several
texts keep is proved. Two files are the fewest that share or take each other's
names, and two writes of one file the fewest for a write to fall between a load and
the refresh of the signature and be followed by another. In a third run of the
session, state from a run before the last would show. One container can expire, one
leak and one die in the same behaviour, and a timeout that is no multiple of the
period puts the check on both sides of it. Among three calls one can fail, one be
under way and one wait for the semaphore. Of the three names one is a builtin tool
that reads, one a builtin that does not and has its own setting, one none of them;
the metadata are old and new style, agree with themselves or not, opt in, name
callers, take the Python name of another tool, or are missing, which is not to opt
in; the settings are the strict and the open ones, and one with lists; a name is in
three layers after three changes (registered, sent, then overlaid or switched), with
the same metadata or others in each, and routing comes and goes between them. The
settings of the budget lie around each length at which a form of the result or the
notice begins to fit, or a number in it gains a digit; the values are empty, short,
long, all quotes and all astral characters, and lists shorter and longer than ten
items. Among the sets of tools are versions of one tool that differ in the order and
kind of their parameters, helpers that take another tool's name, a reserved one, one
that is looked up (`json`) or one that is rebound (`asyncio`), and overrides of
`read` and `grep`; two versions are enough for a program to hold one and the
registry the other.

`MaxWrites`, `MaxCalls`, `MaxPrints`, `MaxNoise`, `MaxHangUps`, `MaxRuns`,
`MaxAttempts`, `MaxLimit` and `MaxChanges` bound counters; `Containers` and `Execs`
are finite sets in the run. In `HotReload` at most one load per file and starter is
under way at a time. Deadlock is checked for `DockerSandbox`, whose clock always
ticks, and for `PythonHelpers`, whose registry may always change; the others may
stop: an execution, a helper or a result ends, nobody has to write a file or start a
run.

Every property has a mutant in `PROJECT.json`: an operator, marked as such in
its module, that changes one definition the way a plausible slip in the code
would and under which TLC finds the property violated.

### Fairness

`RpcBridge!Fairness` assumes that Node's event loop runs the handlers of queued
lines, exits and timers, and that a SIGKILL works. It assumes nothing of the
program, which may compute or ignore SIGTERM for ever, of its interpreter, which
may never exit, of the close of its stdout, which a subprocess that inherited it
can hold back, nor of the tools, which may never return. Hence `Settles` rests on
the timeout, and no property says that every program exits.
`HotReload!Fairness` assumes that the session starts, that loads end, and that
watch events that were raised, debounce timers and the poll, all of them timers or queued
callbacks of the event loop, are run; nothing makes anyone write a file or makes
the watcher report a write. `Converges` therefore asks for the report of the
last write. `Batch!Fairness` assumes that the event loop of the program runs
its ready tasks. It does not assume that calls are answered: `FailsFast`
(test/live-audit-composition.test.ts:270, "batch_tool fails fast") holds though
the other calls never are, and `Settles` has that as its premise, which the
300 s timeout of `RpcClient.call` meets.

### Findings

Each is a run that states what the repository says and that TLC violates.

* `HardTimeout`: README.md:736 calls `PTC_EXECUTION_TIMEOUT_MS` a "hard timeout
  for the full Python execution". A stray line on stdout rejects the promise
  without terminating the process, and the timer is cleared with it.
* `SkippedStaysOut`: `start()` warns that it skips a tool for which the
  callback threw, but has registered it; the clash then fails each execution.
* `AsInChatWhenRouted`: README.md:168 says that active overrides of `read`,
  `grep` and `edit` "should be the same implementations users see in chat".
  Routing deactivates them before the program runs, and `buildToolMap` uses an
  override only while it is active: a routed program gets the builtin tool.

Some properties that hold name what they leave out, since the code is such that
the simpler statement is false.

* `Converges` asks that the watcher reports the last write: one that falls between
  a load and the refresh of its signature is lost for the poll, which compares with
  what it finds then.
* `RestoredUnlessReloaded` leaves out the tools reloaded during a routed run: its
  end restores the list saved at its start over them.
* `OnePromptPerRun` is about runs and any attempt. README.md:157 (and 745) says
  "only async-only first-attempt failures are eligible, and at most one
  auto-recovery attempt is allowed per user request": the code arms after any
  attempt, and a run that Pi retries for the same request may get another prompt.
* `NoRecoveryOfMutation` leaves out retried runs. README.md:910 calls prompts for
  mutations ineligible, but `agent_end` allows recovery again (index.ts:411) and
  nothing forbids it in the retry.
* `MutatingNeedsPermission` and `OptInRespected` leave out mixed tools: without
  `PTC_ALLOW_MUTATIONS`, a mutating tool can run under the metadata of a read-only
  definition of its name, and one that never opted in under those of one that did.
* `NoLostAnswer` leaves out calls whose request was no frame: they wait for the
  300 s timeout, but not unseen, as the line they were in rejects the execution.
* `RoutingLosesNothing` leaves out tools of which only Pi's list has the code: it
  is not used once routing has hidden the tool.

The two on recovery, the first two reasons of `OverWhenSettled` and the mixed tools
are as much disagreements with what the repository says as the three runs above.

## 5. The proofs

Eight modules hold theorems, for every value of the constants that meets the
named assumptions (`BoundsAssumption`, `ToolAssumption`, `DistinctAssumption`,
`SessionAssumption`, `SandboxAssumption`, `BatchAssumption`, `PolicyAssumption`,
`BudgetAssumption`, `HelpersAssumption`: the bounds are natural numbers, names
and definitions are distinct from the words that stand for their absence, the
parts of a value are no more than the whole, the parameters of a tool are
distinct).
Each proves `TypeOK` first, one step per action.

* `RpcBridgeProofs`, the calls: `CallInvariant`, from which `ServedOnce`,
  `OwnAnswer` and `NoLostAnswer` follow. None of the three is inductive alone.
  `CallInv` says where a call is: its frame is in the pipe once and its tool has
  not run, or the frame is gone and the tool has, or its request never was a frame
  (`lost`) and it has neither; an answer in the pipe has the
  kind of its tool's outcome; the tool of a call still awaited by a live program
  has run to its end only if the answer is in the pipe or the future resolved.
  Of a lost call that is awaited `LostTold` says that the line it went under with
  is in the pipe or was refused (`Refusing`), and `StepRefusing` that this stays so
  until the execution has settled.
* `RpcBridgeProofs`, the outcome: `ImplementsExecution`, for every bound. The
  refinement mapping forgets frames and processes: `Life` is the program's end
  by the terminal frame it wrote, or by its death without one, `Wrote` the texts
  it printed, `Outcome` and `Given` what the caller sees once the race with the
  timeout is taken into account. Each settlement must be justified by what the
  program did long before, so `OutcomeInv` follows the evidence on its way:
  `TextsOK` the printed texts, of which those gathered and those in the pipe are
  in order, and consecutive and complete as long as nothing stray was written, all
  before the `complete` frame; `TerminalOK` the
  terminal frame; `NoiseOK` a stray line, in the pipe or as a microtask;
  `CloseOK` the close event, after which nothing comes. Hence at the `complete`
  frame the gathered text is all of it, or an excerpt of it under a stray output
  (`Tells`), and at a close without an outcome the program is dead or has closed
  its stdout, and has written neither a terminal frame nor anything stray.
  Of `Execution` it is then easy to prove what the caller may rely on, and the
  refinement carries it over: `TruthfulHolds` and `OutcomeStays`.
* `RpcBridgeProofs`, the report: `ReportCoversAnswers` with `CountsOK`, that each
  counter is the number of calls whose run is in the states it counts, an
  unserialisable result in two of them. `CallInv` gives that an answer used was
  counted, `TerminalOK` that the program takes none once its report is made.
* `RpcBridgeProofs`, `NothingStuck`: what of `Settles` and `StopKills` can be
  said of a state. While there is no outcome the timeout is armed, so the
  fairness of that timer is what `Settles` rests on.
* `RpcBridgeProofs`, `OverWhenSettledHolds`: which outcomes can find `user_main`
  still running, from `OutcomeInv` and what each settlement needs: a terminal
  frame and a close of stdout come after the program's own end or hang-up.
* `HotReloadProofs`: `NoOrphanTool` is inductive given `TypeOK`: what
  registers an entry also sets the file's name, and what takes the name of a
  file takes the entry. `ClashOnlyFromStart` needs `ClashAdmitted`: of two registered
  tools that clash, one is the tool of a file that `start()` turned away and no
  reload has touched, which in turn needs `NoOrphanTool`.
  `InStep` and `ClosedIsQuiet` follow from `ReloadInv`. Its core is `Owed`: while
  the tool of a file does not agree with it, the file is in the queue of
  `start()`, has an event or a timer, a signature that is out of date or a write
  the watcher missed, or a load that has not read it or that read what is still
  there. `Fresh` says that a write since a load has read its file raised an
  event or was missed; `StartLoads` that the loads of `start()` come one at a
  time, for files without a tool; `Sources` that the tool of a file is one it
  may hold, so that files that share no name cannot disturb each other.
  `Fresh`, `Owed` and `NothingLeft` are claimed for loads that no other callback
  interrupts.
* `ExtensionSessionProofs`: `RestoredUnlessReloaded` from `RoutingInv`, which
  says what `saved` holds in the middle of a run. The two properties of
  recovery from `RecoveryInv`: prompts given and pending add up to the armed
  failure of that run; what is under way belongs to the open run; a run for
  changes that is no retry has neither.
* `DockerSandboxProofs`: `KeepsInUse`, `OneContainer` and `IdleForgotten` from
  `SandboxInv`: `lastUsed` is no older than the youngest execution in the
  container, which is what makes a test of `lastUsed` a test of the executions,
  and the timer found the container fresh when it fired last. `KeepsInUse`
  makes no assumption on the execution timeout: it says for how long after its
  start an execution keeps its container, which is 270 s.
* `BatchProofs`: `BatchInv`, from which all four invariants of the run follow.
  `SlotsCounted` says that the slots left and the calls under way do not exceed
  the limit, an inequality since cancelled tasks leave without giving theirs
  back; `FutureTold` ties the future of `gather` to the tasks, `HelperFollows`
  the helper to the future; `OneByOne` says which candidate `first_success` has
  come to. While the helper runs the inequality is an equation
  (`Counted`), and with it `NeverStarved` holds: something can always go on,
  which is what of `FailsFast` and `Settles` can be said of a state.
* `ToolPolicyProofs`: what the code keeps of the layers is little (`Layers`: what
  Pi has from the manager is owned, what it has from others was registered), and
  the rest is a case distinction over `buildToolMap`. `EntryOf` and `BaseOf` say
  what an entry consists of, `RunOf` whose code it runs, `JudgedBy` that its
  metadata are those of one of the definitions of its name, and `JudgedByOwn` that
  they are those of the code that runs unless the tool is mixed. `StoredKeeps` says
  that normalizing metadata, which happens up to three times, changes nothing that
  matters. `MutatingNeedsPermission`, `OptInRespected` and `RemovedStaysAway`
  follow for any metadata and any settings. `GapsExplained` needs no invariant: it
  compares two functions of the same state. For the action property
  `RoutingLosesNothing`, `SameWhenHidden` shows that a tool that routing takes out
  of the active ones has an entry that still runs, and that the policy admits
  as before, unless its code is only in Pi's list.
* `OutputBudgetProofs`: `BudgetInv`, from which `WithinBudget` follows for every
  value, limit and setting. `FitInv` says what is true of the preview in each
  phase; `ShrinkEnough` that one round is enough, since the text of the preview
  loses at least what was too much and three characters, and the number that
  counts it gains no digit. `NoticeInv` ties `budget` to the number `shown`;
  `DigitsStep` says that numbers that differ by one differ in length by one
  digit at most, so that the number in the notice is off by one at most.
* `PythonHelpersProofs`: `HelpersInv`, with `Journey` saying in each phase what
  the frame holds. The argument is about order: the function keeps fewer
  parameters without a default than the schema requires (`Mandatory`), so its
  i-th may be another than the one meant. `SameUpTo` and `PositionsAgree` show
  that then some required parameter has lost its place, must also be given by
  name or as None, and the call fails or is one of the listed cases; a frame
  that is sent therefore holds what was meant.

Only model-checked, since the prover handles no fairness (no `ENABLED`):
`Settles` and `StopKills` of `RpcBridge`, `Converges` of
`HotReload`, `FailsFast` and `Settles` of `Batch`. `NothingStuck`, `Owed` and
`NeverStarved` are the parts of them that are about states, and hold for every
bound.

## 6. What is not modelled

* The death of the host, stdin that fails before the exit event is handled, what a
  subprocess writes to stdout after the program's death, raw output that happens to
  be a frame, an `onUpdate` that throws, an abort signal raised before the
  execution starts.
* Two writes of one file within one modification time and of one size; the
  promise that `reconcileFile` rejects when the callback throws a second time
  in `removeFileTool` (the removal is complete by then); a second
  `session_start` after `session_shutdown`, and a shutdown during the start.
* Tool calls of a run that go on after `agent_end`: Pi awaits them.
* The directory a container mounts, and what a signal to `docker exec` does
  inside the container.
* `find_files` and `read_text`, which make one call, and `read_tree`, which is
  `find_files` before `read_many`.
* Of the budgets: dictionaries and nested values, and other `max_items` and
  `max_depth`. They give the same loop other lengths to start from. Error
  messages and tracebacks are not cut by this code at all.
* Of the helpers: the types of parameters beyond whether they may be null, names
  Python cannot take, helpers named like a function that runtime.py itself defines
  (`_generated_grep`, `_extract_text`), and `describePythonHelper`, which only tests
  call. `buildCombinedCode` indents every line of the program, those inside a string of several lines included;
  the text of programs is not modelled.
* How results are parsed into lists and records, and the progress frames of the
  tracer, which change no state.
* The components that `PROJECT.json` calls `not_modelled`: they keep no state,
  or are tools of the developers.
