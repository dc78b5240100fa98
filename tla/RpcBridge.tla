----------------------------- MODULE RpcBridge -----------------------------
(***************************************************************************)
(* One execution of a Python program by CodeExecutor.execute: the host's   *)
(* RpcProtocol (src/rpc-protocol.ts), the program's RpcClient              *)
(* (src/python-runtime/rpc.py) with its stdout proxy and _runtime_main     *)
(* (src/python-runtime/runtime.py), the two pipes between them, stderr and *)
(* the life of the child process.                                          *)
(*                                                                         *)
(* A frame is its type and one number: the call id of a tool call, the     *)
(* index of a printed text, 0 otherwise.  A "noise" frame is a line that   *)
(* parseMessage refuses: raw output of a subprocess, a frame glued to raw  *)
(* output or torn by the death of its writer, a call or a report that      *)
(* json.dumps writes and JSON.parse or the validators refuse (NaN).        *)
(* execution_progress and update frames only call onUpdate and are left    *)
(* out.                                                                    *)
(***************************************************************************)
EXTENDS Naturals, Sequences, FiniteSets

CONSTANTS
    MaxCalls,   \* bound on the nested tool calls of one program
    MaxPrints,  \* bound on the texts it prints
    MaxNoise,   \* bound on what it writes to stdout that is no frame
    MaxHangUps  \* 0 or 1: bound on its closing its stdout

ASSUME BoundsAssumption == /\ MaxCalls \in Nat
                           /\ MaxPrints \in Nat
                           /\ MaxNoise \in Nat
                           /\ MaxHangUps \in 0..1

Calls == 1..MaxCalls

VARIABLES
    \* the Python process
    prog,        \* its life
    terminal,    \* the terminal frame it wrote, for the refinement
    callId,      \* RpcClient.call_id
    pending,     \* the keys of RpcClient.pending_calls
    call,        \* where the coroutine awaiting each call is
    got,         \* what the future of each call was resolved with
    reader,      \* RpcClient._stdin_reader
    printed,     \* how many texts the program has printed
    buffered,    \* _StdoutProxy._buffer holds the last of them
    noise,       \* how often it has put on stdout what is no frame
    stray,       \* the last of it has no newline yet
    hungUp,      \* it closed its stdout
    stderr,      \* it wrote something that looks like a Python failure
    \* the pipes
    toHost,      \* frames on the child's stdout, oldest first
    toPy,        \* tool results on its stdin, oldest first
    \* the host
    completion,  \* completionPromise
    result,      \* what completionPromise was resolved with
    timer,       \* the timeout of waitForCompletion
    micro,       \* queued microtasks that may reject
    run,         \* the tool run started for each call id
    counts,      \* nestedToolCalls, nestedResultCount and nestedErrors
    stdout,      \* the texts appendStdout has gathered
    stderrSeen,  \* the stderr data handler has run
    exitSeen,    \* the exit event was handled; stdin is destroyed
    closed,      \* the line reader's close event was handled
    aborted,     \* the AbortSignal
    signals,     \* the signals sent to the child
    killTimer,   \* the 5 s timeout of terminateProcess
    \* no part of the program: for the properties
    lost         \* the calls whose request was never a frame

pyVars   == <<prog, terminal, callId, pending, call, got, reader, printed,
              buffered, noise, stray, hungUp, stderr, lost>>
waitVars == <<completion, result, timer>>
toolVars == <<run, counts, stdout>>
endVars  == <<stderrSeen, exitSeen, closed>>
stopVars == <<aborted, signals, killTimer>>
hostVars == <<waitVars, micro, toolVars, endVars, stopVars>>
vars     == <<pyVars, toHost, toPy, waitVars, micro, toolVars, endVars, stopVars>>

FrameTypes == {"call", "out", "complete", "error", "noise"}
Frame      == [type : FrameTypes, n : Nat]
F(type, n) == [type |-> type, n |-> n]

AnswerKinds == {"value", "error", "huge"}
Answer      == [id : Calls, kind : AnswerKinds]

CallStates  == {"unused", "waiting", "answered", "returned", "raised",
                "expired", "cancelled"}
Completions == {"pending", "resolved", "python", "protocol", "transport", "abort"}
Counts      == [calls : Nat, results : Nat, errors : Nat]

Alive == prog \in {"starting", "running", "cleaning"}

Init ==
    /\ prog \in {"starting", "unspawned"}
    /\ terminal = "none"
    /\ callId = 0
    /\ pending = {}
    /\ call = [c \in Calls |-> "unused"]
    /\ got = [c \in Calls |-> [id |-> 0, kind |-> "none"]]
    /\ reader = "off"
    /\ printed = 0
    /\ buffered = FALSE
    /\ noise = 0
    /\ stray = FALSE
    /\ hungUp = FALSE
    /\ stderr = FALSE
    /\ lost = {}
    /\ toHost = <<>>
    /\ toPy = <<>>
    /\ completion = "pending"
    /\ result = [output |-> <<>>, counts |-> [calls |-> 0, results |-> 0, errors |-> 0]]
    /\ timer = "armed"
    /\ micro = <<>>
    /\ run = [c \in Calls |-> "none"]
    /\ counts = [calls |-> 0, results |-> 0, errors |-> 0]
    /\ stdout = <<>>
    /\ stderrSeen = FALSE
    /\ exitSeen = FALSE
    /\ closed = FALSE
    /\ aborted = FALSE
    /\ signals = {}
    /\ killTimer = "off"

-----------------------------------------------------------------------------
(* The Python program.                                                     *)


(* A line put on the pipe q: text that no newline has ended, glued, makes  *)
(* one line of itself and what is written next.                            *)
Put(q, glued, f) == Append(q, IF glued THEN F("noise", 0) ELSE f)

outVars == <<noise, stray, hungUp, stderr, lost>>

(* _runtime_main starts the reader and enters user_main.                   *)
PyBoot ==
    /\ prog = "starting"
    /\ prog' = "running"
    /\ reader' = "on"
    /\ UNCHANGED <<terminal, callId, pending, call, got, printed, buffered,
                   outVars, toHost, toPy, hostVars>>

(* RpcClient.call up to its await.  A task that user_main left behind can  *)
(* still get here while _runtime_main awaits cleanup.                      *)
NewCall ==
    /\ prog \in {"running", "cleaning"}
    /\ callId < MaxCalls
    /\ callId' = callId + 1
    /\ UNCHANGED <<prog, terminal, got, reader, printed, buffered, hungUp,
                   stderr, toPy, hostVars>>

Awaited(c) ==
    /\ pending' = pending \union {c}
    /\ call' = [call EXCEPT ![c] = "waiting"]

PyCall ==
    /\ NewCall /\ ~hungUp
    /\ Awaited(callId')
    /\ toHost' = Put(toHost, stray, F("call", callId'))
    /\ stray' = FALSE
    /\ lost' = IF stray THEN lost \union {callId'} ELSE lost
    /\ UNCHANGED noise

(* A parameter is NaN or infinite: json.dumps writes it, JSON.parse will   *)
(* refuse the line.                                                        *)
PyCallUnreadable ==
    /\ NewCall /\ ~hungUp
    /\ noise < MaxNoise
    /\ noise' = noise + 1
    /\ Awaited(callId')
    /\ toHost' = Append(toHost, F("noise", 0))
    /\ stray' = FALSE
    /\ lost' = lost \union {callId'}

(* json.dumps or the write raises: nothing is written nor awaited, but the *)
(* id is used up.                                                          *)
PyCallUnsent ==
    /\ NewCall
    /\ call' = [call EXCEPT ![callId'] = "raised"]
    /\ lost' = lost \union {callId'}
    /\ UNCHANGED <<pending, noise, stray, toHost>>

(* The reader takes a line it can hold: a response to a call that is no    *)
(* longer pending is dropped, a future that is done is left alone.         *)
PyHandleResponse ==
    /\ prog = "running" /\ reader = "on"
    /\ toPy # <<>>
    /\ Head(toPy).kind # "huge"
    /\ LET a == Head(toPy)
           open == a.id \in pending /\ call[a.id] = "waiting"
       IN /\ pending' = pending \ {a.id}
          /\ call' = [call EXCEPT ![a.id] = IF open THEN "answered" ELSE @]
          /\ got' = [got EXCEPT ![a.id] = IF open THEN a ELSE @]
    /\ toPy' = Tail(toPy)
    /\ UNCHANGED <<prog, terminal, callId, reader, printed, buffered, outVars,
                   toHost, hostVars>>

(* The line is over the 4 MB limit of the StreamReader: every pending call *)
(* fails and the reader is gone for good.                                  *)
PyReaderFails ==
    /\ prog = "running" /\ reader = "on"
    /\ toPy # <<>>
    /\ Head(toPy).kind = "huge"
    /\ reader' = "failed"
    /\ call' = [c \in Calls |-> IF c \in pending /\ call[c] = "waiting"
                                THEN "answered" ELSE call[c]]
    /\ got' = [c \in Calls |-> IF c \in pending /\ call[c] = "waiting"
                               THEN [id |-> c, kind |-> "reader"] ELSE got[c]]
    /\ pending' = {}
    /\ toPy' = Tail(toPy)
    /\ UNCHANGED <<prog, terminal, callId, printed, buffered, outVars, toHost,
                   hostVars>>

(* The coroutine that awaits an answered call is resumed.                  *)
PyResume(c) ==
    /\ prog \in {"running", "cleaning"}
    /\ call[c] = "answered"
    /\ call' = [call EXCEPT ![c] = IF got[c].kind = "value" THEN "returned" ELSE "raised"]
    /\ UNCHANGED <<prog, terminal, callId, pending, got, reader, printed,
                   buffered, outVars, toHost, toPy, hostVars>>

(* wait_for gives up after 300 s.  It may do so after the future was       *)
(* resolved and before the coroutine was resumed.                          *)
PyExpire(c) ==
    /\ prog \in {"running", "cleaning"}
    /\ call[c] \in {"waiting", "answered"}
    /\ call' = [call EXCEPT ![c] = "expired"]
    /\ pending' = pending \ {c}
    /\ UNCHANGED <<prog, terminal, callId, got, reader, printed, buffered,
                   outVars, toHost, toPy, hostVars>>

(* The awaiting task is cancelled, by the user's code or by asyncio.run at *)
(* the end: only a timeout deletes the entry of pending_calls, so it stays. *)
PyCancel(c) ==
    /\ prog \in {"running", "cleaning"}
    /\ call[c] \in {"waiting", "answered"}
    /\ call' = [call EXCEPT ![c] = "cancelled"]
    /\ UNCHANGED <<prog, terminal, callId, pending, got, reader, printed,
                   buffered, outVars, toHost, toPy, hostVars>>

(* _StdoutProxy.write of a whole line, of a text without a newline, and of *)
(* the newline (or a flush) that completes it.  A program that closed its  *)
(* stdout prints nothing more.                                             *)
CanPrint == prog = "running" /\ ~hungUp

PyPrintLine ==
    /\ CanPrint /\ ~buffered
    /\ printed < MaxPrints
    /\ printed' = printed + 1
    /\ toHost' = Put(toHost, stray, F("out", printed'))
    /\ stray' = FALSE
    /\ UNCHANGED <<prog, terminal, callId, pending, call, got, reader,
                   buffered, noise, hungUp, stderr, lost, toPy, hostVars>>

PyPrintPart ==
    /\ CanPrint /\ ~buffered
    /\ printed < MaxPrints
    /\ printed' = printed + 1
    /\ buffered' = TRUE
    /\ UNCHANGED <<prog, terminal, callId, pending, call, got, reader, outVars,
                   toHost, toPy, hostVars>>

PyEndLine ==
    /\ CanPrint /\ buffered
    /\ buffered' = FALSE
    /\ toHost' = Put(toHost, stray, F("out", printed))
    /\ stray' = FALSE
    /\ UNCHANGED <<prog, terminal, callId, pending, call, got, reader,
                   printed, noise, hungUp, stderr, lost, toPy, hostVars>>

(* Something writes to the real stdout behind the proxy's back, a line or  *)
(* a part of one.                                                          *)
PyNoise ==
    /\ prog \in {"running", "cleaning"} /\ ~hungUp
    /\ noise < MaxNoise
    /\ noise' = noise + 1
    /\ \/ toHost' = Append(toHost, F("noise", 0)) /\ stray' = FALSE
       \/ toHost' = toHost /\ stray' = TRUE
    /\ UNCHANGED <<prog, terminal, callId, pending, call, got, reader,
                   printed, buffered, hungUp, stderr, lost, toPy, hostVars>>

(* A traceback or an import error on stderr, fatal or not.                 *)
PyStderr ==
    /\ Alive /\ ~stderr
    /\ stderr' = TRUE
    /\ UNCHANGED <<prog, terminal, callId, pending, call, got, reader,
                   printed, buffered, noise, stray, hungUp, lost, toHost, toPy,
                   hostVars>>

(* At the end of stdout readline makes a line of what no newline ended.    *)
Rest == IF stray THEN Append(toHost, F("noise", 0)) ELSE toHost

(* The program closes its stdout and goes on.                              *)
PyCloseStdout ==
    /\ prog \in {"running", "cleaning"} /\ ~hungUp
    /\ MaxHangUps = 1
    /\ hungUp' = TRUE
    /\ toHost' = Rest
    /\ stray' = FALSE
    /\ UNCHANGED <<prog, terminal, callId, pending, call, got, reader,
                   printed, buffered, noise, stderr, lost, toPy, hostVars>>

(* user_main is over: _runtime_main leaves its try.                        *)
Over ==
    /\ prog = "running"
    /\ prog' = "cleaning"
    /\ reader' = "off"
    /\ UNCHANGED <<callId, pending, call, got, printed, hungUp, stderr, lost,
                   toPy, hostVars>>

\* Mutant: the proxy is not flushed before the terminal frame.
FlushForgotten == toHost

Flushed == IF buffered THEN Put(toHost, stray, F("out", printed)) ELSE toHost

(* It returned: the proxy is flushed and the terminal frame is written; it *)
(* is an error frame when the output cannot be serialised.                 *)
PyReturn(frame) ==
    /\ Over /\ ~hungUp
    /\ terminal' = frame
    /\ buffered' = FALSE
    /\ toHost' = Put(Flushed, stray /\ ~buffered, F(frame, 0))
    /\ stray' = FALSE
    /\ UNCHANGED noise

(* The same with a report that the host refuses.                           *)
PyReturnUnreadable ==
    /\ Over /\ ~hungUp
    /\ noise < MaxNoise
    /\ noise' = noise + 1
    /\ terminal' = "complete"
    /\ buffered' = FALSE
    /\ toHost' = Append(Flushed, F("noise", 0))
    /\ stray' = FALSE

(* user_main raised: nothing flushes the proxy.                            *)
PyRaise ==
    /\ Over /\ ~hungUp
    /\ terminal' = "error"
    /\ toHost' = Put(toHost, stray, F("error", 0))
    /\ stray' = FALSE
    /\ UNCHANGED <<buffered, noise>>

(* With no stdout neither terminal frame can be written.                   *)
PyLeave ==
    /\ Over /\ hungUp
    /\ UNCHANGED <<terminal, buffered, noise, stray, toHost>>

Dies ==
    /\ Alive
    /\ prog' = "dead"
    /\ reader' = "off"
    /\ toPy' = <<>>
    /\ stray' = FALSE
    /\ UNCHANGED <<terminal, callId, pending, call, got, printed, buffered,
                   hungUp, stderr, lost, hostVars>>

(* A death that nobody schedules: sys.exit, os._exit, a failed start, the  *)
(* OOM killer.  Its last frame may be torn.                                *)
PyDie ==
    /\ Dies
    /\ \/ toHost' = Rest /\ UNCHANGED noise
       \/ /\ prog # "starting" /\ ~hungUp /\ noise < MaxNoise
          /\ noise' = noise + 1
          /\ toHost' = Append(toHost, F("noise", 0))

(* The interpreter may exit once cleanup is over, and need not: asyncio.run *)
(* waits for the tasks that are left, the interpreter for the threads.     *)
PyExit ==
    /\ prog = "cleaning"
    /\ Dies
    /\ toHost' = Rest
    /\ UNCHANGED noise

(* SIGTERM may be ignored by the program, SIGKILL may not.                 *)
PySignalled(s) ==
    /\ s \in signals
    /\ Dies
    /\ toHost' = Rest
    /\ UNCHANGED noise

-----------------------------------------------------------------------------
(* The host.  A chunk of stdout may hold several lines; the microtasks     *)
(* their handlers queue run when the chunk is done, and before any other   *)
(* event: every host action but the line and close events waits for them.  *)

(* resolveOnce and rejectOnce; whichever comes first clears the timer.     *)
\* Mutant: a close clears the timer and rejects nothing.
SettleExceptClose(o) ==
    /\ completion' = IF completion = "pending" /\ o # "transport" THEN o ELSE completion
    /\ timer' = IF completion = "pending" /\ timer = "armed" THEN "cleared" ELSE timer

Settle(o) ==
    /\ completion' = IF completion = "pending" THEN o ELSE completion
    /\ timer' = IF completion = "pending" /\ timer = "armed" THEN "cleared" ELSE timer

Line(type) == toHost # <<>> /\ Head(toHost).type = type /\ toHost' = Tail(toHost)

(* handleToolCall up to its await.  Nothing asks whether the execution has *)
(* settled: a call is served for as long as the program can write one.     *)
\* Mutant: a call that comes after the outcome is dropped.
DropLateToolCall ==
    /\ Line("call")
    /\ counts' = [counts EXCEPT !.calls = @ + 1]
    /\ run' = IF completion # "pending" THEN run
              ELSE [run EXCEPT ![Head(toHost).n] = "running"]
    /\ UNCHANGED <<pyVars, toPy, waitVars, micro, stdout, endVars, stopVars>>

HandleToolCall ==
    /\ Line("call")
    /\ counts' = [counts EXCEPT !.calls = @ + 1]
    /\ run' = [run EXCEPT ![Head(toHost).n] = "running"]
    /\ UNCHANGED <<pyVars, toPy, waitVars, micro, stdout, endVars, stopVars>>

HandleStdout ==
    /\ Line("out")
    /\ stdout' = Append(stdout, Head(toHost).n)
    /\ UNCHANGED <<pyVars, toPy, waitVars, micro, run, counts, endVars, stopVars>>

HandleComplete ==
    /\ Line("complete")
    /\ Settle("resolved")
    /\ result' = IF completion = "pending" THEN [output |-> stdout, counts |-> counts]
                 ELSE result
    /\ UNCHANGED <<pyVars, toPy, micro, toolVars, endVars, stopVars>>

HandleError ==
    /\ Line("error")
    /\ Settle("python")
    /\ UNCHANGED <<pyVars, toPy, result, micro, toolVars, endVars, stopVars>>

(* parseMessage throws; the catch of the line listener rejects later.      *)
HandleBadLine ==
    /\ Line("noise")
    /\ micro' = Append(micro, "protocol")
    /\ UNCHANGED <<pyVars, toPy, waitVars, toolVars, endVars, stopVars>>

(* The line reader's close event: stdout has ended, with the program or    *)
(* before it, and is drained.                                              *)
HandleClose ==
    /\ prog = "dead" \/ hungUp
    /\ toHost = <<>> /\ ~closed
    /\ closed' = TRUE
    /\ micro' = IF completion = "pending" THEN Append(micro, "close") ELSE micro
    /\ UNCHANGED <<pyVars, toHost, toPy, waitVars, toolVars, stderrSeen,
                   exitSeen, stopVars>>

(* buildUnexpectedCloseError goes by the stderr received so far.           *)
UnexpectedClose == IF stderrSeen THEN "python" ELSE "transport"

RunMicrotask ==
    /\ micro # <<>>
    /\ micro' = Tail(micro)
    /\ Settle(IF Head(micro) = "close" THEN UnexpectedClose ELSE Head(micro))
    /\ UNCHANGED <<pyVars, toHost, toPy, result, toolVars, endVars, stopVars>>

(* The promise of runTool settles with a value, a value over the reader's  *)
(* line limit, a value JSON.stringify refuses, or an error.                *)
ToolOutcomes == AnswerKinds \union {"unserialisable"}

(* An unserialisable value is counted as a result before send fails, and   *)
(* the catch then counts it as an error too.                               *)
\* Mutant: the catch does not count the error.
ErrorsUncounted(o) == [counts EXCEPT !.results = IF o = "error" THEN @ ELSE @ + 1]

Counted(o) ==
    [counts EXCEPT !.results = IF o = "error" THEN @ ELSE @ + 1,
                   !.errors = IF o \in {"value", "huge"} THEN @ ELSE @ + 1]

\* Mutant: a value JSON.stringify refuses is sent as it is.
ReplyUncaught(c, o) == [id |-> c, kind |-> o]
\* Mutant: the reply takes the id of the latest call.
ReplyToLatest(c, o) == [id |-> callId, kind |-> IF o = "unserialisable" THEN "error" ELSE o]

Reply(c, o) == [id |-> c, kind |-> IF o = "unserialisable" THEN "error" ELSE o]

(* send writes while stdin is not destroyed; what is written to a dead     *)
(* program is lost.                                                        *)
\* Mutant: the catch does not send the error.
ErrorsUnsent(a) == IF exitSeen \/ a.kind = "error" THEN toPy ELSE Append(toPy, a)

Sent(a) == IF exitSeen \/ prog = "dead" THEN toPy ELSE Append(toPy, a)

ToolReturns(c, o) ==
    /\ micro = <<>>
    /\ run[c] = "running"
    /\ run' = [run EXCEPT ![c] = o]
    /\ counts' = Counted(o)
    /\ toPy' = Sent(Reply(c, o))
    /\ UNCHANGED <<pyVars, toHost, waitVars, micro, stdout, endVars, stopVars>>

StderrData ==
    /\ micro = <<>>
    /\ stderr /\ ~stderrSeen
    /\ stderrSeen' = TRUE
    /\ UNCHANGED <<pyVars, toHost, toPy, waitVars, micro, toolVars, exitSeen,
                   closed, stopVars>>

HandleExit ==
    /\ micro = <<>>
    /\ prog = "dead" /\ ~exitSeen
    /\ exitSeen' = TRUE
    /\ UNCHANGED <<pyVars, toHost, toPy, waitVars, micro, toolVars, stderrSeen,
                   closed, stopVars>>

(* The child could not be spawned: the error event of the process.         *)
HandleSpawnError ==
    /\ micro = <<>>
    /\ prog = "unspawned"
    /\ prog' = "dead"
    /\ exitSeen' = TRUE
    /\ Settle("transport")
    /\ UNCHANGED <<terminal, callId, pending, call, got, reader, printed,
                   buffered, outVars, toHost, toPy, result, micro, toolVars,
                   stderrSeen, closed, stopVars>>

(* SIGTERM now, SIGKILL five seconds later.                                *)
\* Mutant: the timeout does not terminate the process.
TerminateNothing == UNCHANGED <<signals, killTimer>>
\* Mutant: nothing escalates to SIGKILL.
TerminateOnce    == signals' = signals \union {"TERM"} /\ UNCHANGED killTimer

TerminateProcess ==
    /\ signals' = signals \union {"TERM"}
    /\ killTimer' = "armed"

(* The race of waitForCompletion is lost; completionPromise stays open.    *)
TimerFires ==
    /\ micro = <<>>
    /\ timer = "armed"
    /\ timer' = "fired"
    /\ TerminateProcess
    /\ UNCHANGED <<pyVars, toHost, toPy, completion, result, micro, toolVars,
                   endVars, aborted>>

(* The abort listener, which outlives the execution.                       *)
Abort ==
    /\ micro = <<>>
    /\ ~aborted
    /\ aborted' = TRUE
    /\ TerminateProcess
    /\ Settle("abort")
    /\ UNCHANGED <<pyVars, toHost, toPy, result, micro, toolVars, endVars>>

Escalate ==
    /\ micro = <<>>
    /\ killTimer = "armed"
    /\ killTimer' = "off"
    /\ signals' = IF exitSeen THEN signals ELSE signals \union {"KILL"}
    /\ UNCHANGED <<pyVars, toHost, toPy, waitVars, micro, toolVars, endVars, aborted>>

-----------------------------------------------------------------------------
Python ==
    \/ PyBoot \/ PyCall \/ PyCallUnreadable \/ PyCallUnsent
    \/ PyHandleResponse \/ PyReaderFails
    \/ PyPrintLine \/ PyPrintPart \/ PyEndLine
    \/ PyNoise \/ PyStderr \/ PyCloseStdout
    \/ PyReturn("complete") \/ PyReturn("error") \/ PyReturnUnreadable
    \/ PyRaise \/ PyLeave \/ PyDie \/ PyExit
    \/ \E c \in Calls : PyResume(c) \/ PyExpire(c) \/ PyCancel(c)
    \/ \E s \in {"TERM", "KILL"} : PySignalled(s)

HandleLine ==
    \/ HandleToolCall \/ HandleStdout \/ HandleComplete \/ HandleError \/ HandleBadLine

Host ==
    \/ HandleLine \/ HandleClose \/ RunMicrotask
    \/ \E c \in Calls, o \in ToolOutcomes : ToolReturns(c, o)
    \/ StderrData \/ HandleExit \/ HandleSpawnError
    \/ TimerFires \/ Abort \/ Escalate

Next == Python \/ Host

Spec == Init /\ [][Next]_vars

(* The fairness of the host's event loop and of the kernel: queued lines,  *)
(* microtasks, events and timers are run, and a SIGKILL works.  Nothing is *)
(* assumed of user_main, of the tools, of the interpreter's exit, nor of   *)
(* the close event, which a subprocess that keeps stdout open holds back.  *)
Fairness ==
    /\ WF_vars(HandleLine) /\ WF_vars(RunMicrotask)
    /\ WF_vars(HandleExit) /\ WF_vars(HandleSpawnError)
    /\ WF_vars(TimerFires) /\ WF_vars(Escalate)
    /\ WF_vars(PySignalled("KILL"))

FairSpec == Spec /\ Fairness

-----------------------------------------------------------------------------
(* Properties.                                                             *)

PyTypeOK ==
    /\ prog \in {"unspawned", "starting", "running", "cleaning", "dead"}
    /\ terminal \in {"none", "complete", "error"}
    /\ callId \in 0..MaxCalls
    /\ pending \subseteq Calls
    /\ call \in [Calls -> CallStates]
    /\ got \in [Calls -> [id : 0..MaxCalls, kind : {"none", "value", "error", "reader"}]]
    /\ reader \in {"off", "on", "failed"}
    /\ printed \in 0..MaxPrints
    /\ buffered \in BOOLEAN
    /\ noise \in 0..MaxNoise
    /\ stray \in BOOLEAN
    /\ hungUp \in BOOLEAN
    /\ stderr \in BOOLEAN
    /\ lost \subseteq Calls

PipeTypeOK ==
    /\ toHost \in Seq(Frame)
    /\ toPy \in Seq(Answer)

WaitTypeOK ==
    /\ completion \in Completions
    /\ result \in [output : Seq(Nat), counts : Counts]
    /\ timer \in {"armed", "cleared", "fired"}
    /\ micro \in Seq({"protocol", "close"})

ToolTypeOK ==
    /\ run \in [Calls -> {"none", "running"} \union ToolOutcomes]
    /\ counts \in Counts
    /\ stdout \in Seq(Nat)

EndTypeOK ==
    /\ stderrSeen \in BOOLEAN
    /\ exitSeen \in BOOLEAN
    /\ closed \in BOOLEAN
    /\ aborted \in BOOLEAN
    /\ signals \subseteq {"TERM", "KILL"}
    /\ killTimer \in {"off", "armed"}

TypeOK == PyTypeOK /\ PipeTypeOK /\ WaitTypeOK /\ ToolTypeOK /\ EndTypeOK

CallFrames(c) == {i \in DOMAIN toHost : toHost[i] = F("call", c)}
Answers(c)    == {i \in DOMAIN toPy : toPy[i].id = c}

(* Every call whose request is written as a frame is served by exactly one *)
(* tool run: its frame is in the pipe once and no run exists, or the frame *)
(* is gone and the run exists.  A call whose request never was a frame is  *)
(* never run (RpcClient.call, handleToolCall).                             *)
ServedOnce ==
    \A c \in Calls :
        IF c > callId \/ c \in lost THEN CallFrames(c) = {} /\ run[c] = "none"
        ELSE \/ Cardinality(CallFrames(c)) = 1 /\ run[c] = "none"
             \/ CallFrames(c) = {} /\ run[c] # "none"

(* The host has refused a line, or will before the execution can outlive   *)
(* it: the execution is rejected or has settled otherwise.                 *)
Refusing ==
    \/ completion # "pending"
    \/ \E i \in DOMAIN toHost : toHost[i].type = "noise"
    \/ \E i \in DOMAIN micro : micro[i] = "protocol"

(* While the reader lives, a call the program waits for is on its way: its *)
(* request is in the pipe, its tool is running, or its answer is in the    *)
(* other pipe.  The one other call that can be left to the 300 s timeout   *)
(* is one whose request was no frame, and then the execution is rejected.  *)
NoLostAnswer ==
    \A c \in Calls :
        prog = "running" /\ reader = "on" /\ call[c] = "waiting"
        => \/ CallFrames(c) # {}
           \/ run[c] = "running"
           \/ Answers(c) # {}
           \/ c \in lost /\ Refusing

(* Answers may come in any order, and after their call expired or was      *)
(* cancelled; a call only ever gets the outcome of its own tool run.       *)
OwnAnswer ==
    \A c \in Calls :
        /\ got[c].kind = "value" => got[c].id = c /\ run[c] = "value"
        /\ got[c].kind = "error" => got[c].id = c /\ run[c] \in {"error", "unserialisable"}

(* A resolved execution's details count at least the calls whose answers   *)
(* the program has used (buildExecutionDetails at the complete frame).     *)
ReportCoversAnswers ==
    completion = "resolved" =>
        /\ Cardinality({c \in Calls : got[c].kind = "value"}) <= result.counts.results
        /\ Cardinality({c \in Calls : got[c].kind = "error"}) <= result.counts.errors
        /\ Cardinality({c \in Calls : got[c].kind \in {"value", "error"}})
               <= result.counts.calls

(* The outcome of waitForCompletion, and with it of execute; what is left  *)
(* of the program once frames and processes are forgotten; its texts.      *)
Outcome == IF timer = "fired" THEN "timeout" ELSE completion

Life == CASE terminal = "complete" -> "ok"
          [] terminal = "error"    -> "failed"
          [] OTHER -> IF prog \in {"dead", "unspawned"} \/ hungUp
                      THEN "gone" ELSE "live"

Wrote == [i \in 1..printed |-> i]
Given == IF timer = "fired" THEN <<>> ELSE result.output

Abstract == INSTANCE Execution WITH
    program <- Life,
    wrote   <- Wrote,
    noisy   <- noise > 0,
    told    <- stderr,
    outcome <- Outcome,
    output  <- Given

(* The bridge implements Execution: one outcome, never changed, justified  *)
(* by what the program did; a resolved one carries every printed text in   *)
(* order, save what stray output may have swallowed.                       *)
ImplementsExecution == Abstract!Spec

(* Every execution settles, whatever the program and the tools do.         *)
Settles == <>(Outcome # "pending")

(* A program that was timed out or aborted is dead in the end, also one    *)
(* that ignores SIGTERM (terminateProcess).                                *)
StopKills == (timer = "fired" \/ aborted) ~> (prog = "dead")

(* Once the execution has settled user_main is over, so nothing the caller *)
(* no longer waits for goes on using tools: unless a bad line settled it,  *)
(* the program closed its own stdout, or it is being terminated            *)
(* (waitForCompletion, rejectOnce, terminateProcess).                      *)
OverWhenSettled ==
    Outcome # "pending" /\ prog = "running" =>
        completion = "protocol" \/ hungUp \/ "TERM" \in signals

(* The execution timeout covers the whole Python run: no program outlives  *)
(* it.                                                                     *)
HardTimeout == <>(prog = "dead")
=============================================================================
