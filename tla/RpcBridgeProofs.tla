-------------------------- MODULE RpcBridgeProofs --------------------------
(***************************************************************************)
(* Theorems about RpcBridge, for every bound.                              *)
(***************************************************************************)
EXTENDS RpcBridge, FiniteSetTheorems, TLAPS

(* Queue lemmas: what Append and Tail do to the elements of a queue.       *)
LEMMA AppendFacts ==
    ASSUME NEW S, NEW s \in Seq(S), NEW e \in S
    PROVE  /\ Append(s, e) \in Seq(S)
           /\ Append(s, e) # <<>>
           /\ DOMAIN Append(s, e) = DOMAIN s \union {Len(s) + 1}
           /\ \A i \in DOMAIN s : Append(s, e)[i] = s[i]
           /\ Append(s, e)[Len(s) + 1] = e
           /\ Len(s) + 1 \notin DOMAIN s
  OBVIOUS

LEMMA TailFacts ==
    ASSUME NEW S, NEW s \in Seq(S), s # <<>>
    PROVE  /\ Tail(s) \in Seq(S)
           /\ Head(s) \in S
           /\ 1 \in DOMAIN s
           /\ Head(s) = s[1]
           /\ DOMAIN Tail(s) = 1 .. (Len(s) - 1)
           /\ DOMAIN s = 1 .. Len(s)
           /\ Len(s) \in Nat \ {0}
           /\ \A i \in DOMAIN Tail(s) : i + 1 \in DOMAIN s /\ Tail(s)[i] = s[i + 1]
  OBVIOUS

-----------------------------------------------------------------------------
(* Type correctness.                                                       *)

LEMMA InitType == Init => TypeOK
  <1> SUFFICES ASSUME Init PROVE TypeOK
    OBVIOUS
  <1> USE BoundsAssumption DEF BoundsAssumption
  <1>1. PyTypeOK
    <2>1. call \in [Calls -> CallStates]
      BY DEF Init, CallStates
    <2>2. got \in [Calls -> [id : 0..MaxCalls, kind : {"none", "value", "error", "reader"}]]
      BY DEF Init
    <2>3. /\ callId \in 0..MaxCalls
          /\ printed \in 0..MaxPrints
          /\ noise \in 0..MaxNoise
      BY DEF Init
    <2>4. /\ prog \in {"unspawned", "starting", "running", "cleaning", "dead"}
          /\ terminal \in {"none", "complete", "error"}
          /\ pending \subseteq Calls
          /\ reader \in {"off", "on", "failed"}
          /\ buffered \in BOOLEAN
          /\ stray \in BOOLEAN
          /\ hungUp \in BOOLEAN
          /\ stderr \in BOOLEAN
          /\ lost \subseteq Calls
      BY DEF Init
    <2> QED
      BY <2>1, <2>2, <2>3, <2>4 DEF PyTypeOK
  <1>2. PipeTypeOK
    BY DEF Init, PipeTypeOK
  <1>3. WaitTypeOK
    BY DEF Init, WaitTypeOK, Completions, Counts
  <1>4. ToolTypeOK
    BY DEF Init, ToolTypeOK, Counts
  <1>5. EndTypeOK
    BY DEF Init, EndTypeOK
  <1> QED
    BY <1>1, <1>2, <1>3, <1>4, <1>5 DEF TypeOK

LEMMA FrameAppended ==
    ASSUME NEW q \in Seq(Frame), NEW t \in FrameTypes, NEW n \in Nat
    PROVE  Append(q, F(t, n)) \in Seq(Frame)
  <1>1. F(t, n) \in Frame
    BY DEF F, Frame
  <1> QED
    BY <1>1

LEMMA HeadFrame ==
    ASSUME NEW q \in Seq(Frame), q # <<>>
    PROVE  Head(q).n \in Nat /\ Head(q).type \in FrameTypes
  <1>1. Head(q) \in Frame
    OBVIOUS
  <1> QED
    BY <1>1 DEF Frame

LEMMA HeadAnswer ==
    ASSUME NEW q \in Seq(Answer), q # <<>>
    PROVE  /\ Head(q).id \in Calls
           /\ Head(q).kind \in AnswerKinds
           /\ Head(q).kind # "huge" => Head(q) \in [id : 0..MaxCalls, kind : {"none", "value", "error", "reader"}]
  <1>1. Head(q) \in Answer
    OBVIOUS
  <1>2. Calls \subseteq 0..MaxCalls
    BY BoundsAssumption DEF BoundsAssumption, Calls
  <1> QED
    BY <1>1, <1>2 DEF Answer, AnswerKinds

LEMMA ReplyType ==
    ASSUME NEW c \in Calls, NEW o \in ToolOutcomes
    PROVE  Reply(c, o) \in Answer
  BY DEF Reply, Answer, AnswerKinds, ToolOutcomes

LEMMA TextAppended ==
    ASSUME NEW q \in Seq(Nat), NEW n \in Nat
    PROVE  Append(q, n) \in Seq(Nat)
  OBVIOUS

LEMMA MicroAppended ==
    ASSUME NEW q \in Seq({"protocol", "close"}), NEW m \in {"protocol", "close"}
    PROVE  Append(q, m) \in Seq({"protocol", "close"})
  OBVIOUS

LEMMA CountsBumped ==
    ASSUME NEW k \in Counts
    PROVE  /\ [k EXCEPT !.calls = @ + 1] \in Counts
           /\ \A r \in {k.results, k.results + 1}, e \in {k.errors, k.errors + 1} :
                [k EXCEPT !.results = r, !.errors = e] \in Counts
  <1>1. k.calls \in Nat /\ k.results \in Nat /\ k.errors \in Nat
    BY DEF Counts
  <1>2. [k EXCEPT !.calls = @ + 1] \in Counts
    BY <1>1 DEF Counts
  <1>3. ASSUME NEW r \in Nat, NEW e \in Nat
        PROVE  [k EXCEPT !.results = r, !.errors = e] \in Counts
    <2>1. [k EXCEPT !.results = r] \in Counts
      BY <1>1, <1>3 DEF Counts
    <2> QED
      BY <2>1, <1>3 DEF Counts
  <1>4. \A r \in {k.results, k.results + 1} : r \in Nat
    BY <1>1
  <1>5. \A e \in {k.errors, k.errors + 1} : e \in Nat
    BY <1>1
  <1> QED
    BY <1>2, <1>3, <1>4, <1>5

(* The program's steps change nothing of the host.                         *)
LEMMA PythonOnly == Python => UNCHANGED hostVars
  BY DEF Python, PyBoot, PyCall, PyCallUnreadable, PyCallUnsent, NewCall, PyHandleResponse,
     PyReaderFails, PyPrintLine, PyPrintPart, PyEndLine, PyNoise, PyStderr, PyCloseStdout,
     PyReturn, PyReturnUnreadable, PyRaise, PyLeave, Over, PyDie, PyExit, PySignalled, Dies,
     PyResume, PyExpire, PyCancel

LEMMA StepType == TypeOK /\ [Next]_vars => TypeOK'
  <1> SUFFICES ASSUME TypeOK, [Next]_vars PROVE TypeOK'
    OBVIOUS
  <1> USE BoundsAssumption DEF BoundsAssumption, TypeOK
  <1>0. CASE UNCHANGED vars
    BY <1>0 DEF vars, pyVars, waitVars, toolVars, endVars, stopVars, PyTypeOK,
       PipeTypeOK, WaitTypeOK, ToolTypeOK, EndTypeOK
  <1>1. CASE Python
    <2>0. WaitTypeOK' /\ ToolTypeOK' /\ EndTypeOK'
      <3>1. UNCHANGED hostVars
        BY <1>1, PythonOnly
      <3> QED
        BY <3>1 DEF hostVars, waitVars, toolVars, endVars, stopVars, WaitTypeOK,
           ToolTypeOK, EndTypeOK
    <2>f. /\ toHost \in Seq(Frame) /\ toPy \in Seq(Answer) /\ callId \in Nat
          /\ callId + 1 \in Nat /\ printed \in Nat /\ printed + 1 \in Nat
          /\ stray \in BOOLEAN /\ buffered \in BOOLEAN
      BY DEF PyTypeOK, PipeTypeOK
    <2>g. \A t \in FrameTypes, n \in Nat, g \in BOOLEAN :
              /\ Put(toHost, g, F(t, n)) \in Seq(Frame)
              /\ Put(Flushed, g, F(t, n)) \in Seq(Frame)
              /\ Rest \in Seq(Frame)
              /\ Append(toHost, F(t, n)) \in Seq(Frame)
              /\ Append(Flushed, F(t, n)) \in Seq(Frame)
      BY <2>f, FrameAppended DEF Put, Flushed, Rest, FrameTypes
    <2>h. \A n \in Nat : n \in Nat /\ {"call", "out", "complete", "error", "noise"} = FrameTypes
      BY DEF FrameTypes
    <2>1. CASE PyBoot \/ PyStderr \/ PyPrintPart
      <3>1. PyTypeOK'
        <4>1. CASE PyBoot
          BY <4>1 DEF PyBoot, outVars, PyTypeOK
        <4>2. CASE PyStderr
          BY <4>2 DEF PyStderr, PyTypeOK
        <4>3. CASE PyPrintPart
          BY <4>3 DEF PyPrintPart, CanPrint, outVars, PyTypeOK
        <4> QED
          BY <2>1, <4>1, <4>2, <4>3
      <3>2. PipeTypeOK'
        BY <2>1 DEF PyBoot, PyStderr, PyPrintPart, PipeTypeOK
      <3> QED
        BY <2>0, <3>1, <3>2
    <2>2. CASE PyCall \/ PyCallUnreadable \/ PyCallUnsent
      <3>1. callId + 1 \in Calls /\ callId' = callId + 1
        BY <2>2, <2>f DEF PyCall, PyCallUnreadable, PyCallUnsent, NewCall, PyTypeOK, Calls
      <3>2. PipeTypeOK'
        BY <2>2, <2>f, <2>g, <3>1 DEF PyCall, PyCallUnreadable, PyCallUnsent, NewCall, PipeTypeOK,
           FrameTypes
      <3>3. PyTypeOK'
        <4>0. /\ callId' \in 0..MaxCalls
              /\ noise' \in 0..MaxNoise
              /\ printed' \in 0..MaxPrints
          BY <2>2, <2>f, <3>1 DEF PyCall, PyCallUnreadable, PyCallUnsent, NewCall, PyTypeOK, Calls
        <4>1. CASE PyCall \/ PyCallUnreadable
          <5>1. pending' \subseteq Calls /\ call' \in [Calls -> CallStates] /\ lost' \subseteq Calls
            BY <4>1, <3>1 DEF PyCall, PyCallUnreadable, Awaited, PyTypeOK, CallStates
          <5>2. stray' \in BOOLEAN
            BY <4>1 DEF PyCall, PyCallUnreadable
          <5> QED
            BY <4>0, <4>1, <5>1, <5>2 DEF PyCall, PyCallUnreadable, NewCall, PyTypeOK
        <4>3. CASE PyCallUnsent
          <5>1. call' \in [Calls -> CallStates] /\ lost' \subseteq Calls
            BY <4>3, <3>1 DEF PyCallUnsent, PyTypeOK, CallStates
          <5> QED
            BY <4>0, <4>3, <5>1 DEF PyCallUnsent, NewCall, PyTypeOK
        <4> QED
          BY <2>2, <4>1, <4>3
      <3> QED
        BY <2>0, <3>2, <3>3
    <2>3. CASE PyHandleResponse
      <3>1. PyTypeOK'
        BY <2>3, HeadAnswer DEF PyHandleResponse, PyTypeOK, Calls, CallStates, PipeTypeOK, outVars
      <3>2. PipeTypeOK'
        BY <2>3, TailFacts DEF PyHandleResponse, PipeTypeOK
      <3> QED
        BY <2>0, <3>1, <3>2
    <2>4. CASE PyReaderFails
      <3>1. PyTypeOK'
        BY <2>4 DEF PyReaderFails, PyTypeOK, Calls, CallStates, outVars
      <3>2. PipeTypeOK'
        BY <2>4, TailFacts DEF PyReaderFails, PipeTypeOK
      <3> QED
        BY <2>0, <3>1, <3>2
    <2>5. CASE PyPrintLine \/ PyEndLine \/ PyNoise \/ PyCloseStdout
      <3>1. PyTypeOK'
        <4>1. CASE PyPrintLine
          <5>1. printed' \in 0..MaxPrints
            BY <4>1 DEF PyPrintLine, PyTypeOK
          <5> QED
            BY <4>1, <5>1 DEF PyPrintLine, CanPrint, PyTypeOK
        <4>2. CASE PyEndLine
          BY <4>2 DEF PyEndLine, CanPrint, PyTypeOK
        <4>3. CASE PyNoise
          <5>1. noise' \in 0..MaxNoise
            BY <4>3 DEF PyNoise, PyTypeOK
          <5>2. stray' \in BOOLEAN
            BY <4>3 DEF PyNoise
          <5> QED
            BY <4>3, <5>1, <5>2 DEF PyNoise, PyTypeOK
        <4>4. CASE PyCloseStdout
          BY <4>4 DEF PyCloseStdout, PyTypeOK
        <4> QED
          BY <2>5, <4>1, <4>2, <4>3, <4>4
      <3>2. PipeTypeOK'
        BY <2>5, <2>f, <2>g DEF PyPrintLine, PyEndLine, PyNoise, PyCloseStdout, PipeTypeOK,
           FrameTypes
      <3> QED
        BY <2>0, <3>1, <3>2
    <2>6. CASE PyReturn("complete") \/ PyReturn("error") \/ PyReturnUnreadable \/ PyRaise
               \/ PyLeave
      <3>1. PyTypeOK'
        <4>1. CASE PyReturn("complete") \/ PyReturn("error")
          BY <4>1 DEF PyReturn, Over, PyTypeOK
        <4>2. CASE PyReturnUnreadable
          <5>1. noise' \in 0..MaxNoise
            BY <4>2 DEF PyReturnUnreadable, PyTypeOK
          <5> QED
            BY <4>2, <5>1 DEF PyReturnUnreadable, Over, PyTypeOK
        <4>3. CASE PyRaise
          BY <4>3 DEF PyRaise, Over, PyTypeOK
        <4>4. CASE PyLeave
          BY <4>4 DEF PyLeave, Over, PyTypeOK
        <4> QED
          BY <2>6, <4>1, <4>2, <4>3, <4>4
      <3>2. PipeTypeOK'
        BY <2>6, <2>f, <2>g DEF PyReturn, PyReturnUnreadable, PyRaise, PyLeave, Over, PipeTypeOK,
           FrameTypes
      <3> QED
        BY <2>0, <3>1, <3>2
    <2>7. CASE PyDie \/ PyExit \/ \E x \in {"TERM", "KILL"} : PySignalled(x)
      <3>1. PyTypeOK'
        <4>1. Dies /\ noise' \in 0..MaxNoise
          BY <2>7 DEF PyDie, PyExit, PySignalled, PyTypeOK
        <4> QED
          BY <4>1 DEF Dies, PyTypeOK
      <3>2. PipeTypeOK'
        <4>1. Dies /\ toHost' \in {Rest, Append(toHost, F("noise", 0))}
          BY <2>7 DEF PyDie, PyExit, PySignalled
        <4>2. Rest \in Seq(Frame) /\ Append(toHost, F("noise", 0)) \in Seq(Frame)
          BY <2>g DEF FrameTypes
        <4> QED
          BY <4>1, <4>2 DEF Dies, PipeTypeOK
      <3> QED
        BY <2>0, <3>1, <3>2
    <2>8. ASSUME NEW c \in Calls, PyResume(c) \/ PyExpire(c) \/ PyCancel(c)
          PROVE  TypeOK'
      <3>1. PyTypeOK'
        BY <2>8 DEF PyResume, PyExpire, PyCancel, outVars, PyTypeOK, Calls, CallStates
      <3>2. PipeTypeOK'
        BY <2>8 DEF PyResume, PyExpire, PyCancel, PipeTypeOK
      <3> QED
        BY <2>0, <3>1, <3>2
    <2> QED
      BY <1>1, <2>1, <2>2, <2>3, <2>4, <2>5, <2>6, <2>7, <2>8 DEF Python
  <1>19. CASE HandleToolCall
    <2>1. PipeTypeOK'
      BY <1>19, TailFacts DEF HandleToolCall, PipeTypeOK, Frame, FrameTypes,
         F, Answer, AnswerKinds, Calls, Line
    <2>2. ToolTypeOK'
      BY <1>19, CountsBumped DEF HandleToolCall, ToolTypeOK, ToolOutcomes,
         AnswerKinds, Counts, Calls
    <2>3. PyTypeOK' /\ WaitTypeOK' /\ EndTypeOK'
      BY <1>19 DEF HandleToolCall, pyVars, waitVars, endVars, stopVars,
         PyTypeOK, WaitTypeOK, EndTypeOK
    <2> QED BY <2>1, <2>2, <2>3
  <1>20. CASE HandleStdout
    <2>1. PipeTypeOK'
      BY <1>20, TailFacts DEF HandleStdout, PipeTypeOK, Frame, FrameTypes, F,
         Answer, AnswerKinds, Calls, Line
    <2>2. ToolTypeOK'
      BY <1>20, HeadFrame, TextAppended DEF HandleStdout, ToolTypeOK,
         ToolOutcomes, AnswerKinds, Counts, Calls, PipeTypeOK, Line
    <2>3. PyTypeOK' /\ WaitTypeOK' /\ EndTypeOK'
      BY <1>20 DEF HandleStdout, pyVars, waitVars, endVars, stopVars,
         PyTypeOK, WaitTypeOK, EndTypeOK
    <2> QED BY <2>1, <2>2, <2>3
  <1>21. CASE HandleComplete
    <2>1. PipeTypeOK'
      BY <1>21, TailFacts DEF HandleComplete, PipeTypeOK, Frame, FrameTypes,
         F, Answer, AnswerKinds, Calls, Line
    <2>2. WaitTypeOK'
      BY <1>21 DEF HandleComplete, WaitTypeOK, Completions, Counts, Settle,
         ToolTypeOK
    <2>3. PyTypeOK' /\ ToolTypeOK' /\ EndTypeOK'
      BY <1>21 DEF HandleComplete, pyVars, toolVars, endVars, stopVars,
         PyTypeOK, ToolTypeOK, EndTypeOK
    <2> QED BY <2>1, <2>2, <2>3
  <1>22. CASE HandleError
    <2>1. PipeTypeOK'
      BY <1>22, TailFacts DEF HandleError, PipeTypeOK, Frame, FrameTypes, F,
         Answer, AnswerKinds, Calls, Line
    <2>2. WaitTypeOK'
      BY <1>22 DEF HandleError, WaitTypeOK, Completions, Counts, Settle
    <2>3. PyTypeOK' /\ ToolTypeOK' /\ EndTypeOK'
      BY <1>22 DEF HandleError, pyVars, toolVars, endVars, stopVars, PyTypeOK,
         ToolTypeOK, EndTypeOK
    <2> QED BY <2>1, <2>2, <2>3
  <1>23. CASE HandleBadLine
    <2>1. PipeTypeOK'
      BY <1>23, TailFacts DEF HandleBadLine, PipeTypeOK, Frame, FrameTypes, F,
         Answer, AnswerKinds, Calls, Line
    <2>2. WaitTypeOK'
      BY <1>23, MicroAppended DEF HandleBadLine, WaitTypeOK, Completions,
         Counts, waitVars
    <2>3. PyTypeOK' /\ ToolTypeOK' /\ EndTypeOK'
      BY <1>23 DEF HandleBadLine, pyVars, toolVars, endVars, stopVars,
         PyTypeOK, ToolTypeOK, EndTypeOK
    <2> QED BY <2>1, <2>2, <2>3
  <1>24. CASE HandleClose
    <2>1. WaitTypeOK'
      BY <1>24, MicroAppended DEF HandleClose, WaitTypeOK, Completions,
         Counts, waitVars
    <2>2. EndTypeOK'
      BY <1>24 DEF HandleClose, EndTypeOK, endVars, stopVars
    <2>3. PyTypeOK' /\ PipeTypeOK' /\ ToolTypeOK'
      BY <1>24 DEF HandleClose, pyVars, toolVars, PyTypeOK, PipeTypeOK,
         ToolTypeOK
    <2> QED BY <2>1, <2>2, <2>3
  <1>25. CASE RunMicrotask
    <2>1. WaitTypeOK'
      BY <1>25, TailFacts DEF RunMicrotask, WaitTypeOK, Completions, Counts,
         Settle, UnexpectedClose
    <2>2. PyTypeOK' /\ PipeTypeOK' /\ ToolTypeOK' /\ EndTypeOK'
      BY <1>25 DEF RunMicrotask, pyVars, toolVars, endVars, stopVars,
         PyTypeOK, PipeTypeOK, ToolTypeOK, EndTypeOK
    <2> QED BY <2>1, <2>2
  <1>26. ASSUME NEW c \in Calls, NEW o \in ToolOutcomes, ToolReturns(c, o) PROVE TypeOK'
    <2>1. PipeTypeOK'
      BY <1>26, ReplyType DEF ToolReturns, PipeTypeOK, Sent
    <2>2. ToolTypeOK'
      BY <1>26, CountsBumped DEF ToolReturns, Counted, ToolTypeOK, ToolOutcomes,
         AnswerKinds, Counts, Calls
    <2>3. PyTypeOK' /\ WaitTypeOK' /\ EndTypeOK'
      BY <1>26 DEF ToolReturns, pyVars, waitVars, endVars, stopVars, PyTypeOK,
         WaitTypeOK, EndTypeOK
    <2> QED BY <2>1, <2>2, <2>3
  <1>27. CASE StderrData
    <2>1. EndTypeOK'
      BY <1>27 DEF StderrData, EndTypeOK, endVars, stopVars
    <2>2. PyTypeOK' /\ PipeTypeOK' /\ WaitTypeOK' /\ ToolTypeOK'
      BY <1>27 DEF StderrData, pyVars, waitVars, toolVars, PyTypeOK,
         PipeTypeOK, WaitTypeOK, ToolTypeOK
    <2> QED BY <2>1, <2>2
  <1>28. CASE HandleExit
    <2>1. EndTypeOK'
      BY <1>28 DEF HandleExit, EndTypeOK, endVars, stopVars
    <2>2. PyTypeOK' /\ PipeTypeOK' /\ WaitTypeOK' /\ ToolTypeOK'
      BY <1>28 DEF HandleExit, pyVars, waitVars, toolVars, PyTypeOK,
         PipeTypeOK, WaitTypeOK, ToolTypeOK
    <2> QED BY <2>1, <2>2
  <1>29. CASE HandleSpawnError
    <2>1. PyTypeOK'
      BY <1>29 DEF HandleSpawnError, outVars, PyTypeOK
    <2>2. WaitTypeOK'
      BY <1>29 DEF HandleSpawnError, WaitTypeOK, Completions, Counts, Settle
    <2>3. EndTypeOK'
      BY <1>29 DEF HandleSpawnError, EndTypeOK, endVars, stopVars
    <2>4. PipeTypeOK' /\ ToolTypeOK'
      BY <1>29 DEF HandleSpawnError, toolVars, PipeTypeOK, ToolTypeOK
    <2> QED BY <2>1, <2>2, <2>3, <2>4
  <1>30. CASE TimerFires
    <2>1. WaitTypeOK'
      BY <1>30 DEF TimerFires, WaitTypeOK, Completions, Counts
    <2>2. EndTypeOK'
      BY <1>30 DEF TimerFires, EndTypeOK, TerminateProcess, endVars, stopVars
    <2>3. PyTypeOK' /\ PipeTypeOK' /\ ToolTypeOK'
      BY <1>30 DEF TimerFires, pyVars, toolVars, PyTypeOK, PipeTypeOK,
         ToolTypeOK
    <2> QED BY <2>1, <2>2, <2>3
  <1>31. CASE Abort
    <2>1. WaitTypeOK'
      BY <1>31 DEF Abort, WaitTypeOK, Completions, Counts, Settle
    <2>2. EndTypeOK'
      BY <1>31 DEF Abort, EndTypeOK, TerminateProcess, endVars, stopVars
    <2>3. PyTypeOK' /\ PipeTypeOK' /\ ToolTypeOK'
      BY <1>31 DEF Abort, pyVars, toolVars, PyTypeOK, PipeTypeOK, ToolTypeOK
    <2> QED BY <2>1, <2>2, <2>3
  <1>32. CASE Escalate
    <2>1. EndTypeOK'
      BY <1>32 DEF Escalate, EndTypeOK, endVars, stopVars
    <2>2. PyTypeOK' /\ PipeTypeOK' /\ WaitTypeOK' /\ ToolTypeOK'
      BY <1>32 DEF Escalate, pyVars, waitVars, toolVars, PyTypeOK, PipeTypeOK,
         WaitTypeOK, ToolTypeOK
    <2> QED BY <2>1, <2>2
  <1> QED
    BY <1>0, <1>1, <1>19, <1>20, <1>21, <1>22, <1>23, <1>24, <1>25, <1>26, <1>27,
       <1>28, <1>29, <1>30, <1>31, <1>32 DEF Next, Host, HandleLine

(* Every variable keeps its type, for every bound on calls, texts and      *)
(* stray lines.                                                            *)
THEOREM TypeCorrect == Spec => []TypeOK
  BY InitType, StepType, PTL DEF Spec

-----------------------------------------------------------------------------
(* The fate of a nested call.  The inductive invariant says where the      *)
(* frame, the run and the answer of each call are.                         *)

(* Of q, the frames in the pipe, and l, the calls whose request was never  *)
(* a frame: every call frame is of a call that has not run, no two are     *)
(* alike, and a call not in l that has not run has its frame.              *)
FramesOK(q, k, r, l) ==
    /\ \A i \in DOMAIN q : q[i].type = "call" => q[i].n \in (1..k) \ l /\ r[q[i].n] = "none"
    /\ \A i, j \in DOMAIN q : q[i].type = "call" /\ q[j] = q[i] => i = j
    /\ \A c \in (1..k) \ l : r[c] = "none" => \E i \in DOMAIN q : q[i] = F("call", c)

(* What the run of a call must have come to for an answer to be true.      *)
Ran(c, kind) == IF kind = "error" THEN run[c] \in {"error", "unserialisable"}
                ELSE run[c] = kind

AnswersTrue == \A i \in DOMAIN toPy : Ran(toPy[i].id, toPy[i].kind)

GotTrue == \A c \in Calls : got[c].kind \in {"value", "error"}
                            => got[c].id = c /\ Ran(c, got[c].kind)

Unused == /\ \A c \in Calls : c > callId => run[c] = "none" /\ call[c] = "unused"
          /\ \A c \in lost : c <= callId /\ run[c] = "none"
          /\ prog \in {"unspawned", "starting"} => callId = 0

Delivered ==
    \A c \in Calls :
        prog = "running" /\ reader = "on" /\ call[c] = "waiting"
        => \/ run[c] \in {"none", "running"}
           \/ \E i \in DOMAIN toPy : toPy[i].id = c

WaitingPending == \A c \in Calls : call[c] = "waiting" => c \in pending

ExitDead == exitSeen => prog = "dead"

CallRest == /\ FramesOK(toHost, callId, run, lost)
            /\ AnswersTrue
            /\ GotTrue
            /\ Unused
            /\ WaitingPending
            /\ Delivered
            /\ ExitDead

CallInv == TypeOK /\ CallRest

LEMMA AppendFrame ==
    ASSUME NEW q \in Seq(Frame), NEW k \in Nat, NEW r, NEW l, NEW f \in Frame,
           f.type # "call", FramesOK(q, k, r, l)
    PROVE  FramesOK(Append(q, f), k, r, l)
  <1> DEFINE p == Append(q, f)
  <1>1. /\ DOMAIN q = 1..Len(q) /\ DOMAIN p = 1..(Len(q) + 1) /\ Len(q) \in Nat
        /\ \A i \in DOMAIN q : p[i] = q[i]
        /\ p[Len(q) + 1] = f
    OBVIOUS
  <1> HIDE DEF p
  <1>2. \A i \in DOMAIN p : p[i].type = "call" => i \in DOMAIN q /\ p[i] = q[i]
    BY <1>1
  <1>3. FramesOK(p, k, r, l)
    BY <1>1, <1>2 DEF FramesOK
  <1> QED
    BY <1>3 DEF p

LEMMA TailFrame ==
    ASSUME NEW q \in Seq(Frame), q # <<>>, NEW k \in Nat, NEW r, NEW l,
           Head(q).type # "call", FramesOK(q, k, r, l)
    PROVE  FramesOK(Tail(q), k, r, l)
  <1> DEFINE p == Tail(q)
  <1>1. /\ DOMAIN q = 1..Len(q) /\ DOMAIN p = 1..(Len(q) - 1) /\ Len(q) \in Nat \ {0}
        /\ \A i \in DOMAIN p : p[i] = q[i + 1]
        /\ q[1] = Head(q)
    OBVIOUS
  <1> HIDE DEF p
  <1>2. \A i \in DOMAIN p : i + 1 \in DOMAIN q /\ p[i] = q[i + 1]
    BY <1>1
  <1>3. \A i \in DOMAIN q : q[i].type = "call" => i - 1 \in DOMAIN p /\ p[i - 1] = q[i]
    BY <1>1
  <1>4. ASSUME NEW i \in DOMAIN p, NEW j \in DOMAIN p, p[i].type = "call", p[j] = p[i]
        PROVE  i = j
    <2>1. i + 1 = j + 1
      BY <1>2, <1>4 DEF FramesOK
    <2> QED
      BY <2>1, <1>1
  <1>5. ASSUME NEW c \in (1..k) \ l, r[c] = "none" PROVE \E i \in DOMAIN p : p[i] = F("call", c)
    <2>1. PICK i \in DOMAIN q : q[i] = F("call", c)
      BY <1>5 DEF FramesOK
    <2> QED
      BY <2>1, <1>3 DEF F
  <1>6. FramesOK(p, k, r, l)
    BY <1>2, <1>4, <1>5 DEF FramesOK
  <1> QED
    BY <1>6 DEF p

(* The frame of a call leaves the pipe as its run starts.                  *)
LEMMA TailCall ==
    ASSUME NEW q \in Seq(Frame), q # <<>>, NEW k \in 0..MaxCalls,
           NEW r \in [Calls -> {"none", "running"} \union ToolOutcomes], NEW l,
           Head(q).type = "call", FramesOK(q, k, r, l)
    PROVE  FramesOK(Tail(q), k, [r EXCEPT ![Head(q).n] = "running"], l)
  <1> DEFINE p == Tail(q)
             n == Head(q).n
             s == [r EXCEPT ![n] = "running"]
  <1>1. /\ DOMAIN q = 1..Len(q) /\ DOMAIN p = 1..(Len(q) - 1) /\ Len(q) \in Nat \ {0}
        /\ \A i \in DOMAIN p : p[i] = q[i + 1]
        /\ q[1] = Head(q)
        /\ \A i \in DOMAIN q : q[i] \in Frame
    OBVIOUS
  <1>2. n \in 1..k /\ n \in Calls
    BY <1>1, BoundsAssumption DEF FramesOK, BoundsAssumption, Calls
  <1>3. s[n] = "running" /\ \A c \in Calls : c # n => s[c] = r[c]
    BY <1>2
  <1>4. \A c \in 1..k : c \in Calls
    BY BoundsAssumption DEF BoundsAssumption, Calls
  <1>5. q[1].n = n /\ q[1].type = "call"
    BY <1>1
  <1> HIDE DEF p, n, s
  <1>6. \A i \in DOMAIN p : i + 1 \in DOMAIN q /\ i + 1 # 1 /\ p[i] = q[i + 1]
    BY <1>1
  <1>7. \A i \in DOMAIN q : i # 1 => i - 1 \in DOMAIN p /\ p[i - 1] = q[i]
    BY <1>1
  <1>8. \A i \in DOMAIN q : q[i].type = "call" /\ q[i].n = n => i = 1
    <2> SUFFICES ASSUME NEW i \in DOMAIN q, q[i].type = "call", q[i].n = n PROVE i = 1
      OBVIOUS
    <2>1. q[i] = q[1]
      BY <1>1, <1>5 DEF Frame
    <2> QED
      BY <2>1, <1>1, <1>5 DEF FramesOK
  <1>9. ASSUME NEW i \in DOMAIN p, p[i].type = "call"
        PROVE  p[i].n \in (1..k) \ l /\ s[p[i].n] = "none"
    BY <1>3, <1>4, <1>6, <1>8, <1>9 DEF FramesOK
  <1>10. ASSUME NEW i \in DOMAIN p, NEW j \in DOMAIN p, p[i].type = "call", p[j] = p[i]
         PROVE  i = j
    <2>1. i + 1 = j + 1
      BY <1>6, <1>10 DEF FramesOK
    <2> QED
      BY <2>1, <1>1
  <1>11. ASSUME NEW c \in (1..k) \ l, s[c] = "none" PROVE \E i \in DOMAIN p : p[i] = F("call", c)
    <2>1. c # n /\ r[c] = "none"
      BY <1>3, <1>4, <1>11
    <2>2. PICK i \in DOMAIN q : q[i] = F("call", c)
      BY <2>1 DEF FramesOK
    <2>3. i # 1
      BY <2>1, <2>2, <1>5 DEF F
    <2> QED
      BY <2>2, <2>3, <1>7
  <1>12. FramesOK(p, k, s, l)
    BY <1>9, <1>10, <1>11 DEF FramesOK
  <1> QED
    BY <1>12 DEF p, n, s

LEMMA CallAppended ==
    ASSUME NEW q \in Seq(Frame), NEW k \in Nat, NEW r, NEW l, r[k + 1] = "none", k + 1 \notin l,
           FramesOK(q, k, r, l)
    PROVE  FramesOK(Append(q, F("call", k + 1)), k + 1, r, l)
  <1> DEFINE p == Append(q, F("call", k + 1))
  <1>1. /\ DOMAIN q = 1..Len(q) /\ DOMAIN p = 1..(Len(q) + 1) /\ Len(q) \in Nat
        /\ \A i \in DOMAIN q : p[i] = q[i]
        /\ p[Len(q) + 1] = F("call", k + 1)
    OBVIOUS
  <1> HIDE DEF p
  <1>2. \A i \in DOMAIN p : i = Len(q) + 1 \/ (i \in DOMAIN q /\ p[i] = q[i])
    BY <1>1
  <1>3. F("call", k + 1).n = k + 1 /\ F("call", k + 1).type = "call"
    BY DEF F
  <1>4. ASSUME NEW i \in DOMAIN p, p[i].type = "call"
        PROVE  p[i].n \in (1..(k + 1)) \ l /\ r[p[i].n] = "none"
    BY <1>1, <1>2, <1>3, <1>4 DEF FramesOK
  <1>5. \A i \in DOMAIN q : q[i].type = "call" => q[i].n # k + 1
    BY DEF FramesOK
  <1>6. ASSUME NEW i \in DOMAIN p, NEW j \in DOMAIN p, p[i].type = "call", p[j] = p[i]
        PROVE  i = j
    BY <1>1, <1>2, <1>3, <1>5, <1>6 DEF FramesOK
  <1>7. ASSUME NEW c \in (1..(k + 1)) \ l, r[c] = "none" PROVE \E i \in DOMAIN p : p[i] = F("call", c)
    <2>1. CASE c = k + 1
      BY <2>1, <1>1
    <2>2. CASE c \in (1..k) \ l
      BY <2>2, <1>1, <1>7 DEF FramesOK
    <2> QED
      BY <2>1, <2>2
  <1>8. FramesOK(p, k + 1, r, l)
    BY <1>4, <1>6, <1>7 DEF FramesOK
  <1> QED
    BY <1>8 DEF p

(* A call whose request is no frame.                                       *)
LEMMA CallUnframed ==
    ASSUME NEW q \in Seq(Frame), NEW k \in Nat, NEW r, NEW l, FramesOK(q, k, r, l)
    PROVE  FramesOK(q, k + 1, r, l \union {k + 1})
  <1>1. \A c : c \in (1..k) \ l <=> c \in (1..(k + 1)) \ (l \union {k + 1})
    OBVIOUS
  <1>2. /\ \A i \in DOMAIN q : q[i].type = "call" =>
              q[i].n \in (1..(k + 1)) \ (l \union {k + 1}) /\ r[q[i].n] = "none"
        /\ \A c \in (1..(k + 1)) \ (l \union {k + 1}) : r[c] = "none" =>
              \E i \in DOMAIN q : q[i] = F("call", c)
    BY <1>1 DEF FramesOK
  <1> QED
    BY <1>2 DEF FramesOK

LEMMA RunEnded ==
    ASSUME NEW q \in Seq(Frame), NEW k \in 0..MaxCalls,
           NEW r \in [Calls -> {"none", "running"} \union ToolOutcomes],
           NEW c \in Calls, r[c] = "running", NEW o \in ToolOutcomes, NEW l,
           FramesOK(q, k, r, l)
    PROVE  FramesOK(q, k, [r EXCEPT ![c] = o], l)
  <1> DEFINE s == [r EXCEPT ![c] = o]
  <1>1. \A d \in 1..k : d \in Calls
    BY BoundsAssumption DEF BoundsAssumption, Calls
  <1>2. \A d \in Calls : s[d] = "none" <=> r[d] = "none"
    BY DEF ToolOutcomes, AnswerKinds
  <1> HIDE DEF s
  <1>3. FramesOK(q, k, s, l)
    BY <1>1, <1>2 DEF FramesOK
  <1> QED
    BY <1>3 DEF s

LEMMA CallInit == Init => CallRest
  <1> SUFFICES ASSUME Init PROVE CallRest
    OBVIOUS
  <1>1. FramesOK(toHost, callId, run, lost)
    BY DEF Init, FramesOK
  <1>2. AnswersTrue /\ GotTrue
    BY DEF Init, AnswersTrue, GotTrue
  <1>3. Unused /\ WaitingPending /\ Delivered /\ ExitDead
    BY DEF Init, Unused, WaitingPending, Delivered, ExitDead
  <1> QED
    BY <1>1, <1>2, <1>3 DEF CallRest

(* Most actions leave the calls alone or touch one thing about them.       *)
callVars == <<prog, callId, pending, call, got, reader, lost, toHost, toPy, run, exitSeen>>

LEMMA QuietStep ==
    ASSUME CallRest, UNCHANGED callVars
    PROVE  CallRest'
  BY DEF CallRest, callVars, FramesOK, AnswersTrue, GotTrue, Unused,
     WaitingPending, Delivered, ExitDead, Ran

(* The pipe changes, no call does.                                         *)
LEMMA PipeStep ==
    ASSUME CallRest, FramesOK(toHost', callId, run, lost),
           UNCHANGED <<prog, callId, pending, call, got, reader, lost, toPy, run, exitSeen>>
    PROVE  CallRest'
  BY DEF CallRest, FramesOK, AnswersTrue, GotTrue, Unused,
     WaitingPending, Delivered, ExitDead, Ran

(* The program leaves user_main or dies.                                   *)
LEMMA EndStep ==
    ASSUME CallRest, FramesOK(toHost', callId, run, lost),
           prog' \in {"cleaning", "dead"},
           \/ UNCHANGED <<toPy, exitSeen>> /\ prog # "dead"
           \/ prog' = "dead" /\ toPy' \in {toPy, <<>>},
           UNCHANGED <<callId, pending, call, got, lost, run>>
    PROVE  CallRest'
  BY DEF CallRest, FramesOK, AnswersTrue, GotTrue, Unused,
     WaitingPending, Delivered, ExitDead, Ran

(* A call begins.                                                          *)
LEMMA NewCallStep ==
    ASSUME TypeOK, CallRest, NewCall, lost' \in {lost, lost \union {callId + 1}},
           FramesOK(toHost', callId + 1, run, lost'),
           \/ Awaited(callId')
           \/ pending' = pending /\ call' = [call EXCEPT ![callId'] = "raised"]
    PROVE  CallRest'
  <1>1. /\ callId \in Nat /\ callId + 1 \in Calls /\ callId' = callId + 1
        /\ call \in [Calls -> CallStates]
    BY BoundsAssumption DEF BoundsAssumption, NewCall, Calls, TypeOK, PyTypeOK
  <1>2. /\ UNCHANGED <<prog, got, reader, toPy, run, exitSeen>>
        /\ prog \notin {"unspawned", "starting"}
        /\ run[callId + 1] = "none"
    BY <1>1 DEF NewCall, CallRest, Unused, hostVars, toolVars, endVars
  <1>3. FramesOK(toHost', callId', run', lost')
    BY <1>1, <1>2
  <1>4. AnswersTrue' /\ GotTrue' /\ ExitDead'
    BY <1>2 DEF CallRest, AnswersTrue, GotTrue, ExitDead, Ran
  <1>5. /\ \A c \in Calls : c # callId + 1 => call'[c] = call[c]
        /\ call'[callId + 1] = "waiting" => callId + 1 \in pending'
        /\ pending \subseteq pending'
    BY <1>1 DEF Awaited
  <1>6. Unused'
    <2>1. \A c \in Calls : c > callId + 1 => c > callId /\ c # callId + 1
      BY <1>1 DEF Calls
    <2>2. \A c \in lost' : c <= callId + 1 /\ run[c] = "none"
      <3>1. \A c \in lost : c <= callId /\ run[c] = "none" /\ c \in Nat
        BY DEF CallRest, Unused, TypeOK, PyTypeOK, Calls
      <3> QED
        BY <1>1, <1>2, <3>1
    <2> QED
      BY <1>1, <1>2, <1>5, <2>1, <2>2 DEF CallRest, Unused
  <1>7. WaitingPending'
    BY <1>5 DEF CallRest, WaitingPending
  <1>8. Delivered'
    BY <1>1, <1>2, <1>5 DEF CallRest, Delivered
  <1> QED
    BY <1>3, <1>4, <1>6, <1>7, <1>8 DEF CallRest

LEMMA NoiseFrame == ASSUME NEW t \in FrameTypes, NEW n \in Nat, t # "call"
                    PROVE  F(t, n) \in Frame /\ F(t, n).type # "call"
  BY DEF F, Frame

(* The program puts something that is no call on the pipe.                 *)
LEMMA PutFrame ==
    ASSUME NEW q \in Seq(Frame), NEW k \in Nat, NEW r, NEW l, FramesOK(q, k, r, l),
           NEW t \in FrameTypes, NEW n \in Nat, t # "call", NEW g \in BOOLEAN
    PROVE  /\ Put(q, g, F(t, n)) \in Seq(Frame)
           /\ FramesOK(Put(q, g, F(t, n)), k, r, l)
  BY NoiseFrame, AppendFrame DEF Put, FrameTypes

LEMMA CallStep == CallInv /\ [Next]_vars => CallRest'
  <1> SUFFICES ASSUME CallInv, [Next]_vars PROVE CallRest'
    OBVIOUS
  <1> USE DEF CallInv
  <1>t. /\ toHost \in Seq(Frame)
        /\ callId \in 0..MaxCalls
        /\ callId \in Nat
        /\ printed \in Nat
        /\ run \in [Calls -> {"none", "running"} \union ToolOutcomes]
        /\ call \in [Calls -> CallStates]
        /\ toPy \in Seq(Answer)
        /\ FramesOK(toHost, callId, run, lost)
    BY BoundsAssumption DEF BoundsAssumption, TypeOK, PyTypeOK, PipeTypeOK, ToolTypeOK, CallRest
  <1>u. \A i \in DOMAIN toPy : toPy[i].id \in Calls /\ toPy[i].kind \in AnswerKinds
    <2>1. \A i \in DOMAIN toPy : toPy[i] \in Answer
      BY <1>t
    <2> QED
      BY <2>1 DEF Answer
  <1>0. CASE UNCHANGED vars
    BY <1>0, QuietStep DEF vars, pyVars, endVars, toolVars, callVars
  <1>1. CASE PyBoot
    BY <1>1 DEF PyBoot, outVars, hostVars, toolVars, endVars, CallRest, FramesOK,
       AnswersTrue, GotTrue, Unused, WaitingPending, Delivered, ExitDead, Ran, Calls
  <1>2. CASE PyCall \/ PyCallUnreadable \/ PyCallUnsent
    <2>1. NewCall /\ callId' = callId + 1 /\ callId + 1 \in Nat /\ stray \in BOOLEAN
      BY <1>2, <1>t DEF PyCall, PyCallUnreadable, PyCallUnsent, NewCall, TypeOK, PyTypeOK
    <2>2. run[callId + 1] = "none" /\ callId + 1 \notin lost
      <3>1. callId + 1 \in Calls
        BY <1>t, <2>1, BoundsAssumption DEF BoundsAssumption, NewCall, Calls
      <3> QED
        BY <1>t, <3>1 DEF CallRest, Unused
    <2>3. FramesOK(toHost, callId + 1, run, lost \union {callId + 1})
      BY <1>t, CallUnframed
    <2>4. FramesOK(Append(toHost, F("noise", 0)), callId + 1, run, lost \union {callId + 1})
      BY <1>t, <2>1, <2>3, NoiseFrame, AppendFrame DEF FrameTypes
    <2>5. /\ FramesOK(toHost', callId + 1, run, lost')
          /\ lost' \in {lost, lost \union {callId + 1}}
      <3>1. CASE PyCall /\ ~stray
        BY <1>t, <2>1, <2>2, <3>1, CallAppended DEF PyCall, Put
      <3>2. CASE PyCall /\ stray
        BY <2>1, <2>4, <3>2 DEF PyCall, Put
      <3>3. CASE PyCallUnreadable
        BY <2>1, <2>4, <3>3 DEF PyCallUnreadable
      <3>4. CASE PyCallUnsent
        BY <2>1, <2>3, <3>4 DEF PyCallUnsent
      <3> QED
        BY <1>2, <2>1, <3>1, <3>2, <3>3, <3>4
    <2> QED
      BY <1>2, <2>1, <2>5, NewCallStep DEF PyCall, PyCallUnreadable, PyCallUnsent
  <1>3. CASE PyHandleResponse
    <2> DEFINE a == Head(toPy)
    <2>0. /\ toPy # <<>> /\ toPy' = Tail(toPy) /\ a = toPy[1]
          /\ a.id \in Calls /\ a.kind \in AnswerKinds /\ a.kind # "huge"
          /\ DOMAIN toPy = 1..Len(toPy) /\ DOMAIN toPy' = 1..(Len(toPy) - 1)
          /\ Len(toPy) \in Nat \ {0}
          /\ \A i \in DOMAIN toPy' : toPy'[i] = toPy[i + 1]
      BY <1>3, <1>t, HeadAnswer DEF PyHandleResponse
    <2>1. /\ UNCHANGED <<prog, callId, reader, lost, toHost, run, exitSeen>>
          /\ pending' = pending \ {a.id}
          /\ \A c \in Calls : c # a.id => call'[c] = call[c] /\ got'[c] = got[c]
          /\ IF a.id \in pending /\ call[a.id] = "waiting"
             THEN call'[a.id] = "answered" /\ got'[a.id] = a
             ELSE call'[a.id] = call[a.id] /\ got'[a.id] = got[a.id]
      BY <1>3, <1>t, <2>0 DEF PyHandleResponse, outVars, hostVars, toolVars, endVars,
         TypeOK, PyTypeOK
    <2> HIDE DEF a
    <2>2. FramesOK(toHost', callId', run', lost')
      BY <1>t, <2>1
    <2>3. AnswersTrue'
      BY <2>0, <2>1 DEF CallRest, AnswersTrue, Ran
    <2>4. GotTrue'
      <3>1. Ran(a.id, a.kind)
        BY <2>0 DEF CallRest, AnswersTrue
      <3> QED
        BY <2>0, <2>1, <3>1 DEF CallRest, GotTrue, Ran
    <2>5. WaitingPending'
      BY <2>0, <2>1 DEF CallRest, WaitingPending
    <2>6. Unused' /\ ExitDead'
      BY <2>0, <2>1 DEF CallRest, Unused, ExitDead
    <2>7. Delivered'
      <3> SUFFICES ASSUME NEW c \in Calls, prog = "running", reader = "on",
                          call'[c] = "waiting", run[c] \notin {"none", "running"}
                   PROVE  \E i \in DOMAIN toPy' : toPy'[i].id = c
        BY <2>1 DEF Delivered
      <3>1. c # a.id /\ call[c] = "waiting"
        BY <2>0, <2>1 DEF CallRest, WaitingPending
      <3>2. PICK i \in DOMAIN toPy : toPy[i].id = c
        BY <3>1 DEF CallRest, Delivered
      <3>3. i # 1
        BY <2>0, <3>1, <3>2
      <3>4. i - 1 \in DOMAIN toPy' /\ (i - 1) + 1 = i
        BY <2>0, <3>3
      <3> QED
        BY <2>0, <3>2, <3>4
    <2> QED
      BY <2>2, <2>3, <2>4, <2>5, <2>6, <2>7 DEF CallRest
  <1>4. CASE PyReaderFails
    <2>0. /\ UNCHANGED <<prog, callId, lost, toHost, run, exitSeen>> /\ reader' = "failed"
          /\ DOMAIN toPy = 1..Len(toPy) /\ DOMAIN toPy' = 1..(Len(toPy) - 1)
          /\ Len(toPy) \in Nat \ {0}
          /\ \A i \in DOMAIN toPy' : toPy'[i] = toPy[i + 1]
      BY <1>4, <1>t DEF PyReaderFails, outVars, hostVars, toolVars, endVars
    <2>1. \A c \in Calls : /\ call'[c] # "waiting"
                           /\ c > callId => call'[c] = "unused"
                           /\ \/ got'[c] = got[c]
                              \/ got'[c].kind = "reader"
      BY <1>4 DEF PyReaderFails, CallRest, WaitingPending, Unused
    <2>2. FramesOK(toHost', callId', run', lost')
      BY <1>t, <2>0
    <2>3. AnswersTrue'
      BY <2>0 DEF CallRest, AnswersTrue, Ran
    <2>4. GotTrue'
      BY <2>0, <2>1 DEF CallRest, GotTrue, Ran
    <2>5. Unused' /\ WaitingPending' /\ Delivered' /\ ExitDead'
      BY <2>0, <2>1 DEF CallRest, Unused, WaitingPending, Delivered, ExitDead
    <2> QED
      BY <2>2, <2>3, <2>4, <2>5 DEF CallRest
  <1>5. ASSUME NEW c \in Calls, PyResume(c) \/ PyExpire(c) \/ PyCancel(c)
        PROVE  CallRest'
    <2>0. /\ UNCHANGED <<prog, callId, got, reader, lost, toHost, toPy, run, exitSeen>>
          /\ pending' \in {pending, pending \ {c}}
          /\ call[c] # "unused" /\ call'[c] \notin {"waiting", "unused"}
          /\ \A d \in Calls : d # c => call'[d] = call[d]
      BY <1>5, <1>t DEF PyResume, PyExpire, PyCancel, outVars, hostVars, toolVars, endVars
    <2>1. FramesOK(toHost', callId', run', lost') /\ AnswersTrue' /\ GotTrue' /\ ExitDead'
      BY <1>t, <2>0 DEF CallRest, AnswersTrue, GotTrue, ExitDead, Ran
    <2>2. Unused' /\ WaitingPending'
      BY <2>0 DEF CallRest, Unused, WaitingPending
    <2>3. Delivered'
      BY <2>0 DEF CallRest, Delivered
    <2> QED
      BY <2>1, <2>2, <2>3 DEF CallRest
  <1>p. \A t \in FrameTypes, n \in Nat, g \in BOOLEAN :
            t # "call" => /\ Put(toHost, g, F(t, n)) \in Seq(Frame)
                          /\ FramesOK(Put(toHost, g, F(t, n)), callId, run, lost)
    BY <1>t, PutFrame
  <1>q. /\ Append(toHost, F("noise", 0)) \in Seq(Frame)
        /\ FramesOK(Append(toHost, F("noise", 0)), callId, run, lost)
    <2>1. Append(toHost, F("noise", 0)) = Put(toHost, FALSE, F("noise", 0))
      BY DEF Put
    <2> QED
      BY <2>1, <1>p DEF FrameTypes
  <1>r. FramesOK(Rest, callId, run, lost)
    BY <1>t, <1>q DEF Rest
  <1>6. CASE PyPrintLine \/ PyEndLine \/ PyNoise \/ PyCloseStdout
    <2>1. FramesOK(toHost', callId, run, lost)
      <3>1. printed + 1 \in Nat /\ stray \in BOOLEAN
        BY <1>t DEF TypeOK, PyTypeOK
      <3>2. CASE PyPrintLine \/ PyEndLine
        BY <1>t, <1>p, <3>1, <3>2 DEF PyPrintLine, PyEndLine, FrameTypes
      <3>3. CASE PyNoise \/ PyCloseStdout
        BY <1>t, <1>q, <1>r, <3>3 DEF PyNoise, PyCloseStdout
      <3> QED
        BY <1>6, <3>2, <3>3
    <2> QED
      BY <1>6, <2>1, PipeStep DEF PyPrintLine, PyEndLine, PyNoise, PyCloseStdout, hostVars,
         toolVars, endVars
  <1>7. CASE PyPrintPart \/ PyStderr
    BY <1>7, QuietStep DEF PyPrintPart, PyStderr, outVars, hostVars, toolVars, endVars, callVars
  <1>8. CASE PyReturn("complete") \/ PyReturn("error") \/ PyReturnUnreadable \/ PyRaise
             \/ PyLeave
    <2>1. Flushed \in Seq(Frame) /\ FramesOK(Flushed, callId, run, lost)
      <3>1. stray \in BOOLEAN
        BY DEF TypeOK, PyTypeOK
      <3> QED
        BY <1>t, <1>p, <3>1 DEF Flushed, FrameTypes
    <2>2. \A t \in FrameTypes, g \in BOOLEAN :
              t # "call" => FramesOK(Put(Flushed, g, F(t, 0)), callId, run, lost)
      BY <1>t, <2>1, PutFrame
    <2>3. FramesOK(Append(Flushed, F("noise", 0)), callId, run, lost)
      BY <1>t, <2>1, NoiseFrame, AppendFrame DEF FrameTypes
    <2>4. stray \in BOOLEAN /\ (stray /\ ~buffered) \in BOOLEAN
      BY DEF TypeOK, PyTypeOK
    <2>5. FramesOK(toHost', callId, run, lost)
      <3>1. CASE PyReturn("complete") \/ PyReturn("error")
        BY <2>2, <2>4, <3>1 DEF PyReturn, FrameTypes
      <3>2. CASE PyReturnUnreadable
        BY <2>3, <3>2 DEF PyReturnUnreadable
      <3>3. CASE PyRaise
        BY <1>p, <2>4, <3>3 DEF PyRaise, FrameTypes
      <3>4. CASE PyLeave
        BY <1>t, <3>4 DEF PyLeave
      <3> QED
        BY <1>8, <3>1, <3>2, <3>3, <3>4
    <2>6. Over
      BY <1>8 DEF PyReturn, PyReturnUnreadable, PyRaise, PyLeave
    <2> QED
      BY <2>5, <2>6, EndStep DEF Over, hostVars, toolVars, endVars
  <1>10. CASE PyDie \/ PyExit \/ \E s \in {"TERM", "KILL"} : PySignalled(s)
    <2>1. Dies /\ FramesOK(toHost', callId, run, lost)
      BY <1>10, <1>q, <1>r DEF PyDie, PyExit, PySignalled
    <2> QED
      BY <2>1, EndStep DEF Dies, Alive, hostVars, toolVars, endVars
  <1>12. CASE HandleToolCall
    <2>0. /\ toHost # <<>> /\ Head(toHost).type = "call" /\ toHost' = Tail(toHost)
          /\ run' = [run EXCEPT ![Head(toHost).n] = "running"]
          /\ UNCHANGED <<prog, callId, pending, call, got, reader, lost, toPy, exitSeen>>
      BY <1>12 DEF HandleToolCall, Line, pyVars, endVars
    <2>1. FramesOK(toHost', callId', run', lost')
      BY <1>t, <2>0, TailCall
    <2>2. Head(toHost).n \in (1..callId) \ lost /\ run[Head(toHost).n] = "none"
      <3>1. 1 \in DOMAIN toHost /\ toHost[1] = Head(toHost)
        BY <1>t, <2>0
      <3> QED
        BY <1>t, <2>0, <3>1 DEF FramesOK
    <2>3. /\ Head(toHost).n \in Calls
          /\ run'[Head(toHost).n] = "running"
          /\ \A c \in Calls : c # Head(toHost).n => run'[c] = run[c]
      BY <1>t, <2>0, <2>2, BoundsAssumption DEF BoundsAssumption, Calls
    <2>4. AnswersTrue'
      <3>2. \A i \in DOMAIN toPy : toPy[i].id # Head(toHost).n
        BY <1>u, <2>2 DEF CallRest, AnswersTrue, Ran, AnswerKinds
      <3> QED
        BY <1>u, <3>2, <2>0, <2>3 DEF CallRest, AnswersTrue, Ran
    <2>5. GotTrue'
      BY <2>0, <2>2, <2>3 DEF CallRest, GotTrue, Ran
    <2>6. Unused' /\ WaitingPending' /\ ExitDead'
      BY <2>0, <2>2, <2>3, <1>t DEF CallRest, Unused, WaitingPending, ExitDead, Calls
    <2>7. Delivered'
      BY <2>0, <2>2, <2>3 DEF CallRest, Delivered
    <2> QED
      BY <2>1, <2>4, <2>5, <2>6, <2>7 DEF CallRest
  <1>13. CASE HandleStdout \/ HandleComplete \/ HandleError \/ HandleBadLine
    <2>1. toHost # <<>> /\ Head(toHost).type # "call" /\ toHost' = Tail(toHost)
      BY <1>13 DEF HandleStdout, HandleComplete, HandleError, HandleBadLine, Line
    <2>2. FramesOK(toHost', callId, run, lost)
      BY <1>t, <2>1, TailFrame
    <2> QED
      BY <1>13, <2>2, PipeStep DEF HandleStdout, HandleComplete, HandleError,
         HandleBadLine, pyVars, toolVars, endVars
  <1>14. CASE HandleClose \/ RunMicrotask \/ StderrData \/ TimerFires \/ Abort \/ Escalate
    BY <1>14, QuietStep DEF HandleClose, RunMicrotask, StderrData, TimerFires,
       Abort, Escalate, pyVars, toolVars, endVars, callVars
  <1>15. ASSUME NEW c \in Calls, NEW o \in ToolOutcomes, ToolReturns(c, o)
         PROVE  CallRest'
    <2> DEFINE kind == IF o = "unserialisable" THEN "error" ELSE o
               a == [id |-> c, kind |-> kind]
    <2>0. /\ UNCHANGED <<prog, callId, pending, call, got, reader, lost, toHost, exitSeen>>
          /\ run[c] = "running" /\ run' = [run EXCEPT ![c] = o]
          /\ run'[c] = o
          /\ \A d \in Calls : d # c => run'[d] = run[d]
          /\ \/ toPy' = toPy /\ (exitSeen \/ prog = "dead")
             \/ toPy' = Append(toPy, a)
      BY <1>15, <1>t DEF ToolReturns, Sent, Reply, pyVars, endVars
    <2>1. FramesOK(toHost', callId', run', lost')
      BY <1>t, <2>0, RunEnded
    <2>2. o \notin {"none", "running"} /\ kind # "none" /\ kind # "running"
      BY DEF ToolOutcomes, AnswerKinds
    <2>3. (IF kind = "error" THEN o \in {"error", "unserialisable"} ELSE o = kind)
      BY DEF ToolOutcomes, AnswerKinds
    <2>4. Ran(c, kind)'
      BY <2>0, <2>3 DEF Ran
    <2>5. \A i \in DOMAIN toPy : toPy[i].id \in Calls /\ toPy[i].id # c
      BY <1>u, <2>0 DEF CallRest, AnswersTrue, Ran, AnswerKinds
    <2>6. AnswersTrue'
      <3>1. \A i \in DOMAIN toPy : Ran(toPy[i].id, toPy[i].kind)'
        BY <2>0, <2>5 DEF CallRest, AnswersTrue, Ran
      <3>2. CASE toPy' = toPy
        BY <3>1, <3>2 DEF AnswersTrue, Ran
      <3>3. CASE toPy' = Append(toPy, a)
        <4>1. /\ DOMAIN toPy' = 1..(Len(toPy) + 1) /\ DOMAIN toPy = 1..Len(toPy)
              /\ Len(toPy) \in Nat
              /\ \A i \in DOMAIN toPy : toPy'[i] = toPy[i]
              /\ toPy'[Len(toPy) + 1] = a
          BY <1>t, <3>3
        <4>2. a.id = c /\ a.kind = kind
          OBVIOUS
        <4> HIDE DEF a, kind
        <4>3. ASSUME NEW i \in DOMAIN toPy' PROVE Ran(toPy[i].id, toPy[i].kind)' 
          <5>1. CASE i = Len(toPy) + 1
            BY <5>1, <4>1, <4>2, <2>4 DEF Ran
          <5>2. CASE i \in DOMAIN toPy
            BY <5>2, <4>1, <3>1 DEF Ran
          <5> QED
            BY <5>1, <5>2, <4>1
        <4> QED
          BY <4>3 DEF AnswersTrue
      <3> QED
        BY <2>0, <3>2, <3>3
    <2>7. GotTrue'
      BY <2>0 DEF CallRest, GotTrue, Ran
    <2>8. Unused' /\ WaitingPending' /\ ExitDead'
      BY <2>0 DEF CallRest, Unused, WaitingPending, ExitDead
    <2>9. Delivered'
      <3> SUFFICES ASSUME NEW d \in Calls, prog = "running", reader = "on",
                          call[d] = "waiting", run'[d] \notin {"none", "running"}
                   PROVE  \E i \in DOMAIN toPy' : toPy'[i].id = d
        BY <2>0 DEF Delivered
      <3>1. toPy' = Append(toPy, a)
        BY <2>0 DEF CallRest, ExitDead
      <3>2. /\ DOMAIN toPy' = 1..(Len(toPy) + 1) /\ DOMAIN toPy = 1..Len(toPy)
            /\ Len(toPy) \in Nat
            /\ \A i \in DOMAIN toPy : toPy'[i] = toPy[i]
            /\ toPy'[Len(toPy) + 1] = a
        BY <1>t, <3>1
      <3>3. CASE d = c
        BY <3>2, <3>3
      <3>4. CASE d # c
        <4>1. PICK i \in DOMAIN toPy : toPy[i].id = d
          BY <3>4, <2>0 DEF CallRest, Delivered
        <4> QED
          BY <4>1, <3>2
      <3> QED
        BY <3>3, <3>4
    <2> QED
      BY <2>1, <2>6, <2>7, <2>8, <2>9 DEF CallRest
  <1>16. CASE HandleExit
    BY <1>16, <1>t, EndStep DEF HandleExit, pyVars, toolVars
  <1>17. CASE HandleSpawnError
    BY <1>17, <1>t, EndStep DEF HandleSpawnError, outVars, toolVars
  <1> QED
    BY <1>0, <1>1, <1>2, <1>3, <1>4, <1>5, <1>6, <1>7, <1>8, <1>10,
       <1>12, <1>13, <1>14, <1>15, <1>16, <1>17 DEF Next, Python, Host, HandleLine

THEOREM CallInvariant == Spec => []CallInv
  <1>1. Init => CallInv
    BY InitType, CallInit DEF CallInv
  <1>2. CallInv /\ [Next]_vars => CallInv'
    BY StepType, CallStep DEF CallInv
  <1> QED
    BY <1>1, <1>2, PTL DEF Spec

-----------------------------------------------------------------------------
(* A call only ever gets the outcome of its own tool run.                  *)
THEOREM OwnAnswerHolds == Spec => []OwnAnswer
  <1>1. CallInv => OwnAnswer
    BY DEF CallInv, CallRest, GotTrue, Ran, OwnAnswer
  <1> QED
    BY <1>1, CallInvariant, PTL

(* A call whose request was no frame is only waited for in an execution    *)
(* that is rejected.                                                       *)
LostTold == \A c \in lost : call[c] = "waiting" => Refusing

(* Only the host takes lines from the pipe.                                *)
Begins(q, p) == \A i \in DOMAIN q : i \in DOMAIN p /\ p[i] = q[i]

LEMMA PutBegins ==
    ASSUME NEW q \in Seq(Frame), NEW g \in BOOLEAN, NEW t \in FrameTypes, NEW n \in Nat
    PROVE  /\ Put(q, g, F(t, n)) \in Seq(Frame)
           /\ Begins(q, Put(q, g, F(t, n)))
           /\ Begins(q, Append(q, F("noise", 0)))
  <1>1. \A f \in Frame : Append(q, f) \in Seq(Frame) /\ Begins(q, Append(q, f))
    BY DEF Begins
  <1>2. F(t, n) \in Frame /\ F("noise", 0) \in Frame
    BY DEF F, Frame, FrameTypes
  <1> QED
    BY <1>1, <1>2 DEF Put

LEMMA PipeGrows == TypeOK /\ [Next]_vars /\ ~HandleLine => Begins(toHost, toHost')
  <1> SUFFICES ASSUME TypeOK, [Next]_vars, ~HandleLine PROVE Begins(toHost, toHost')
    OBVIOUS
  <1>t. /\ toHost \in Seq(Frame) /\ stray \in BOOLEAN /\ buffered \in BOOLEAN
        /\ callId + 1 \in Nat /\ printed \in Nat /\ printed + 1 \in Nat
        /\ {"call", "out", "complete", "error", "noise"} = FrameTypes
    BY BoundsAssumption DEF BoundsAssumption, TypeOK, PyTypeOK, PipeTypeOK, FrameTypes
  <1>1. Begins(toHost, toHost) /\ Begins(toHost, Rest)
    BY <1>t, PutBegins DEF Begins, Rest
  <1>2. \A g \in BOOLEAN, t \in FrameTypes, n \in Nat :
            /\ Begins(toHost, Put(toHost, g, F(t, n)))
            /\ Begins(toHost, Append(toHost, F("noise", 0)))
    BY <1>t, PutBegins
  <1>3. CASE PyReturn("complete") \/ PyReturn("error") \/ PyReturnUnreadable
    <2>1. Flushed \in Seq(Frame) /\ Begins(toHost, Flushed)
      BY <1>t, <1>1, PutBegins DEF Flushed
    <2>2. /\ \A g \in BOOLEAN, t \in FrameTypes : Begins(Flushed, Put(Flushed, g, F(t, 0)))
          /\ Begins(Flushed, Append(Flushed, F("noise", 0)))
      BY <1>t, <2>1, PutBegins
    <2>3. Begins(Flushed, toHost')
      BY <1>t, <1>3, <2>2 DEF PyReturn, PyReturnUnreadable
    <2> QED
      BY <2>1, <2>3 DEF Begins
  <1>4. CASE PyCall \/ PyCallUnreadable \/ PyCallUnsent
    <2>1. callId' = callId + 1
      BY <1>4 DEF PyCall, PyCallUnreadable, PyCallUnsent, NewCall
    <2> QED
      BY <1>t, <1>1, <1>2, <1>4, <2>1 DEF PyCall, PyCallUnreadable, PyCallUnsent
  <1>5. CASE PyPrintLine \/ PyEndLine \/ PyNoise \/ PyCloseStdout \/ PyRaise \/ PyLeave
    BY <1>t, <1>1, <1>2, <1>5 DEF PyPrintLine, PyEndLine, PyNoise, PyCloseStdout, PyRaise, PyLeave
  <1>6. CASE PyDie \/ PyExit \/ \E s \in {"TERM", "KILL"} : PySignalled(s)
    BY <1>t, <1>1, <1>2, <1>6 DEF PyDie, PyExit, PySignalled
  <1>7. CASE PyBoot \/ PyHandleResponse \/ PyReaderFails \/ PyPrintPart \/ PyStderr
             \/ \E c \in Calls : PyResume(c) \/ PyExpire(c) \/ PyCancel(c)
    BY <1>1, <1>7 DEF PyBoot, PyHandleResponse, PyReaderFails, PyPrintPart, PyStderr, PyResume,
       PyExpire, PyCancel
  <1>8. CASE HandleClose \/ RunMicrotask \/ StderrData \/ HandleExit \/ HandleSpawnError
             \/ TimerFires \/ Abort \/ Escalate \/ UNCHANGED vars
             \/ \E c \in Calls, o \in ToolOutcomes : ToolReturns(c, o)
    BY <1>1, <1>8 DEF HandleClose, RunMicrotask, StderrData, HandleExit, HandleSpawnError,
       TimerFires, Abort, Escalate, ToolReturns, vars
  <1> QED
    BY <1>3, <1>4, <1>5, <1>6, <1>7, <1>8 DEF Next, Python, Host

LEMMA StepRefusing == TypeOK /\ Refusing /\ [Next]_vars => Refusing'
  <1> SUFFICES ASSUME TypeOK, Refusing, [Next]_vars PROVE Refusing'
    OBVIOUS
  <1>t. /\ toHost \in Seq(Frame) /\ micro \in Seq({"protocol", "close"})
        /\ completion \in Completions
    BY DEF TypeOK, PipeTypeOK, WaitTypeOK
  <1>1. CASE completion # "pending"
    <2>1. ASSUME NEW o, Settle(o) PROVE completion' = completion
      BY <1>1, <2>1 DEF Settle
    <2>2. completion' = completion
      <3>1. CASE Python
        BY <3>1, PythonOnly DEF hostVars, waitVars
      <3>2. CASE HandleComplete \/ HandleError \/ RunMicrotask \/ HandleSpawnError \/ Abort
        BY <2>1, <3>2 DEF HandleComplete, HandleError, RunMicrotask, HandleSpawnError, Abort
      <3>3. CASE HandleToolCall \/ HandleStdout \/ HandleBadLine \/ HandleClose \/ StderrData
                 \/ HandleExit \/ TimerFires \/ Escalate \/ UNCHANGED vars
                 \/ \E c \in Calls, o \in ToolOutcomes : ToolReturns(c, o)
        BY <3>3 DEF HandleToolCall, HandleStdout, HandleBadLine, HandleClose, StderrData,
           HandleExit, TimerFires, Escalate, ToolReturns, vars, waitVars
      <3> QED
        BY <3>1, <3>2, <3>3 DEF Next, Host, HandleLine
    <2> QED
      BY <1>1, <2>2 DEF Refusing
  <1>3. ASSUME NEW i \in DOMAIN micro, micro[i] = "protocol",
               micro' = micro \/ \E m \in {"protocol", "close"} : micro' = Append(micro, m)
        PROVE  Refusing'
    <2>1. i \in DOMAIN micro' /\ micro'[i] = micro[i]
      BY <1>t, <1>3
    <2> QED
      BY <1>3, <2>1 DEF Refusing
  <1>4. CASE RunMicrotask
    <2>1. Head(micro) \in {"protocol", "close"}
      BY <1>t, <1>4 DEF RunMicrotask
    <2>2. completion' # "pending"
      BY <1>4, <2>1 DEF RunMicrotask, Settle, UnexpectedClose
    <2> QED
      BY <2>2 DEF Refusing
  <1>5. ASSUME NEW i \in DOMAIN micro, micro[i] = "protocol", ~RunMicrotask PROVE Refusing'
    <2>1. \/ micro' = micro
          \/ micro' = Append(micro, "protocol")
          \/ micro' = Append(micro, "close")
      <3>1. CASE Python
        BY <3>1, PythonOnly DEF hostVars
      <3> QED
        BY <1>5, <3>1 DEF Next, Host, HandleLine, HandleToolCall, HandleStdout, HandleComplete,
           HandleError, HandleBadLine, HandleClose, StderrData, HandleExit, HandleSpawnError,
           TimerFires, Abort, Escalate, ToolReturns, vars, waitVars
    <2> QED
      BY <1>3, <1>5, <2>1
  <1>6. ASSUME NEW i \in DOMAIN toHost, toHost[i].type = "noise", completion = "pending"
        PROVE  Refusing'
    <2>1. CASE HandleLine
      <3>1. toHost # <<>> /\ toHost' = Tail(toHost)
        BY <2>1 DEF HandleLine, HandleToolCall, HandleStdout, HandleComplete, HandleError,
           HandleBadLine, Line
      <3>2. CASE i = 1
        <4>1. HandleBadLine
          BY <1>t, <1>6, <2>1, <3>1, <3>2 DEF HandleLine, HandleToolCall, HandleStdout,
             HandleComplete, HandleError, Line
        <4>2. micro' = Append(micro, "protocol")
          BY <4>1 DEF HandleBadLine
        <4>3. Len(micro) + 1 \in DOMAIN micro' /\ micro'[Len(micro) + 1] = "protocol"
          BY <1>t, <4>2
        <4> QED
          BY <4>3 DEF Refusing
      <3>3. CASE i # 1
        <4>1. i - 1 \in DOMAIN toHost' /\ toHost'[i - 1] = toHost[i]
          BY <1>t, <3>1, <3>3
        <4> QED
          BY <1>6, <4>1 DEF Refusing
      <3> QED
        BY <3>2, <3>3
    <2>2. CASE ~HandleLine
      <3>1. i \in DOMAIN toHost' /\ toHost'[i] = toHost[i]
        BY <2>2, PipeGrows DEF Begins
      <3> QED
        BY <1>6, <3>1 DEF Refusing
    <2> QED
      BY <2>1, <2>2
  <1> QED
    BY <1>1, <1>4, <1>5, <1>6 DEF Refusing

LEMMA StepLostTold == CallInv /\ LostTold /\ [Next]_vars => LostTold'
  <1> SUFFICES ASSUME CallInv, LostTold, [Next]_vars, NEW c \in lost', call'[c] = "waiting"
               PROVE  Refusing'
    BY DEF LostTold, Refusing
  <1>t. /\ toHost \in Seq(Frame) /\ call \in [Calls -> CallStates] /\ lost \subseteq Calls
        /\ got \in [Calls -> [id : 0..MaxCalls, kind : {"none", "value", "error", "reader"}]]
        /\ callId \in Nat
    BY BoundsAssumption DEF BoundsAssumption, CallInv, TypeOK, PyTypeOK, PipeTypeOK
  <1>1. CASE c \in lost /\ call[c] = "waiting"
    BY <1>1, StepRefusing DEF LostTold, CallInv
  <1>2. ASSUME toHost' = Append(toHost, F("noise", 0)) PROVE Refusing'
    <2>1. Len(toHost) + 1 \in DOMAIN toHost' /\ toHost'[Len(toHost) + 1] = F("noise", 0)
      BY <1>t, <1>2
    <2> QED
      BY <2>1 DEF Refusing, F
  <1>3. CASE PyCall \/ PyCallUnreadable \/ PyCallUnsent
    <2>1. /\ callId' = callId + 1 /\ callId + 1 \in Calls /\ callId + 1 \notin lost
          /\ \A d \in lost : d \in Nat
      <3>1. NewCall
        BY <1>3 DEF PyCall, PyCallUnreadable, PyCallUnsent
      <3>2. callId' = callId + 1 /\ callId + 1 \in Calls
        BY <1>t, <3>1, BoundsAssumption DEF BoundsAssumption, NewCall, Calls
      <3>3. \A d \in lost : d <= callId /\ d \in Nat
        BY <1>t DEF CallInv, CallRest, Unused, Calls
      <3>4. callId + 1 \notin lost
        BY <1>t, <3>3
      <3> QED
        BY <3>2, <3>3, <3>4
    <2>2. CASE c \in lost
      <3>1. call'[c] = call[c]
        BY <1>3, <1>t, <2>1, <2>2 DEF PyCall, PyCallUnreadable, PyCallUnsent, Awaited
      <3> QED
        BY <1>1, <2>2, <3>1
    <2>3. CASE c \notin lost /\ PyCallUnsent
      BY <1>t, <2>1, <2>3 DEF PyCallUnsent
    <2>4. CASE c \notin lost /\ ~PyCallUnsent
      BY <1>2, <1>3, <2>4 DEF PyCall, PyCallUnreadable, Put
    <2> QED
      BY <2>2, <2>3, <2>4
  <1>4. CASE ~(PyCall \/ PyCallUnreadable \/ PyCallUnsent)
    <2>1. lost' = lost /\ (call'[c] = "waiting" => call[c] = "waiting")
      <3>1. CASE PyHandleResponse \/ PyReaderFails
        BY <1>t, <3>1 DEF PyHandleResponse, PyReaderFails, outVars
      <3>2. CASE \E d \in Calls : PyResume(d) \/ PyExpire(d) \/ PyCancel(d)
        BY <1>t, <3>2 DEF PyResume, PyExpire, PyCancel, outVars
      <3>3. CASE UNCHANGED <<lost, call>>
        BY <3>3
      <3>4. CASE HandleSpawnError
        BY <3>4 DEF HandleSpawnError, outVars
      <3>5. CASE (Host /\ ~HandleSpawnError) \/ UNCHANGED vars
        <4>1. UNCHANGED pyVars
          BY <3>5 DEF Host, HandleLine, HandleToolCall, HandleStdout, HandleComplete, HandleError,
             HandleBadLine, HandleClose, RunMicrotask, ToolReturns, StderrData, HandleExit,
             TimerFires, Abort, Escalate, vars
        <4> QED
          BY <4>1 DEF pyVars
      <3>6. CASE PyBoot \/ PyPrintLine \/ PyPrintPart \/ PyEndLine \/ PyNoise \/ PyStderr
                 \/ PyCloseStdout \/ PyReturn("complete") \/ PyReturn("error")
                 \/ PyReturnUnreadable \/ PyRaise \/ PyLeave
                 \/ PyDie \/ PyExit \/ \E x \in {"TERM", "KILL"} : PySignalled(x)
        BY <3>6 DEF PyBoot, PyPrintLine, PyPrintPart, PyEndLine, PyNoise, PyStderr,
           PyCloseStdout, PyReturn, PyReturnUnreadable, PyRaise, PyLeave, Over, PyDie, PyExit,
           PySignalled, Dies, outVars
      <3> QED
        BY <1>4, <3>1, <3>2, <3>4, <3>5, <3>6 DEF Next, Python
    <2> QED
      BY <1>1, <2>1
  <1> QED
    BY <1>3, <1>4

(* While the reader lives, an awaited call is in a pipe or in its tool, or *)
(* its request was no frame and the execution is rejected.                 *)
THEOREM NoLostAnswerHolds == Spec => []NoLostAnswer
  <1>1. CallInv /\ LostTold => NoLostAnswer
    <2> SUFFICES ASSUME CallInv, LostTold, NEW c \in Calls, prog = "running", reader = "on",
                        call[c] = "waiting"
                 PROVE  CallFrames(c) # {} \/ run[c] = "running" \/ Answers(c) # {}
                        \/ (c \in lost /\ Refusing)
      BY DEF NoLostAnswer
    <2>0. CASE c \in lost
      BY <2>0 DEF LostTold
    <2>1. CASE run[c] = "none" /\ c \notin lost
      <3>1. c \in (1..callId) \ lost
        BY <2>1 DEF CallInv, CallRest, Unused, Calls, TypeOK, PyTypeOK
      <3>2. PICK i \in DOMAIN toHost : toHost[i] = F("call", c)
        BY <2>1, <3>1 DEF CallInv, CallRest, FramesOK
      <3> QED
        BY <3>2 DEF CallFrames
    <2>2. CASE run[c] = "running"
      BY <2>2
    <2>3. CASE run[c] \notin {"none", "running"}
      <3>1. PICK i \in DOMAIN toPy : toPy[i].id = c
        BY <2>3 DEF CallInv, CallRest, Delivered
      <3> QED
        BY <3>1 DEF Answers
    <2> QED
      BY <2>0, <2>1, <2>2, <2>3
  <1>2. Init => LostTold
    BY DEF Init, LostTold
  <1> QED
    BY <1>1, <1>2, StepLostTold, CallInvariant, PTL DEF Spec

(* Each call whose request is written as a frame is served by exactly one  *)
(* tool run, one whose request is not by none.                             *)
THEOREM ServedOnceHolds == Spec => []ServedOnce
  <1>1. CallInv => ServedOnce
    <2> SUFFICES ASSUME CallInv, NEW c \in Calls
                 PROVE  IF c > callId \/ c \in lost THEN CallFrames(c) = {} /\ run[c] = "none"
                        ELSE \/ Cardinality(CallFrames(c)) = 1 /\ run[c] = "none"
                             \/ CallFrames(c) = {} /\ run[c] # "none"
      BY DEF ServedOnce
    <2>0. /\ FramesOK(toHost, callId, run, lost) /\ callId \in Nat /\ c \in Nat \ {0}
          /\ c > callId \/ c \in lost => run[c] = "none"
      BY BoundsAssumption DEF BoundsAssumption, CallInv, CallRest, Unused, Calls, TypeOK, PyTypeOK
    <2>1. \A i \in CallFrames(c) : /\ i \in DOMAIN toHost /\ toHost[i] = F("call", c)
                                   /\ toHost[i].type = "call" /\ toHost[i].n = c
      BY DEF CallFrames, F
    <2>2. CASE c > callId \/ c \in lost
      BY <2>0, <2>1, <2>2 DEF FramesOK
    <2>3. CASE c <= callId /\ c \notin lost /\ run[c] # "none"
      BY <2>0, <2>1, <2>3 DEF FramesOK
    <2>4. CASE c <= callId /\ c \notin lost /\ run[c] = "none"
      <3>1. c \in (1..callId) \ lost
        BY <2>0, <2>4
      <3>2. PICK i \in DOMAIN toHost : toHost[i] = F("call", c)
        BY <2>0, <2>4, <3>1 DEF FramesOK
      <3>3. CallFrames(c) = {i}
        BY <2>0, <2>1, <3>2 DEF FramesOK, CallFrames, F
      <3>4. Cardinality({i}) = 1
        BY FS_Singleton
      <3> QED
        BY <2>0, <2>4, <3>3, <3>4
    <2> QED
      BY <2>0, <2>2, <2>3, <2>4
  <1> QED
    BY <1>1, CallInvariant, PTL

-----------------------------------------------------------------------------
(* The outcome.  The inductive invariant says where the printed texts, the *)
(* terminal frame, the stray lines and the close event are on their way to *)
(* the settlement of completionPromise.                                    *)

(* Whether a frame of type t is in the pipe q.                             *)
Has(q, t) == \E i \in DOMAIN q : q[i].type = t

(* Of the pipe q, the texts given to the host, the number k printed and    *)
(* whether the last is buffered: the texts are given in order, those that  *)
(* are not given or buffered are in the pipe in order, and a complete      *)
(* frame comes after all of them.                                          *)
TextsOK(q, given, k, b) ==
    /\ given \in Seq(Nat) /\ Len(given) <= k
    /\ \A i \in 1..Len(given) : given[i] = i
    /\ b => Len(given) < k /\ ~Has(q, "complete")
    /\ \A i \in DOMAIN q : q[i].type = "out" =>
          Len(given) < q[i].n /\ q[i].n <= k /\ (b => q[i].n < k)
    /\ \A i, j \in DOMAIN q :
          q[i].type = "out" /\ q[j].type = "out" /\ i < j => q[i].n < q[j].n
    /\ \A n \in 1..k : Len(given) < n /\ (b => n < k) =>
          \E i \in DOMAIN q : q[i].type = "out" /\ q[i].n = n
    /\ \A i, j \in DOMAIN q : q[i].type = "complete" /\ q[j].type = "out" => j < i

(* Whatever stray output does to the lines: the texts given and those in   *)
(* the pipe come in order, each once, before the text m that is next.      *)
TextsUp(q, given, m) ==
    /\ given \in Seq(Nat) /\ m \in Nat \ {0}
    /\ \A i \in DOMAIN given : 0 < given[i] /\ given[i] < m
    /\ \A i, j \in DOMAIN given : i < j => given[i] < given[j]
    /\ \A i \in DOMAIN q : q[i].type = "out" => 0 < q[i].n /\ q[i].n < m
    /\ \A i, j \in DOMAIN q :
          q[i].type = "out" /\ q[j].type = "out" /\ i < j => q[i].n < q[j].n
    /\ \A i \in DOMAIN given, j \in DOMAIN q : q[j].type = "out" => given[i] < q[j].n

Upcoming == IF buffered THEN printed ELSE printed + 1

(* The terminal frame: written once, at the end of user_main, and on its   *)
(* way until it settles the execution, unless stray output swallowed it.   *)
TerminalOK ==
    /\ prog \in {"unspawned", "starting", "running"} => terminal = "none"
    /\ \A t \in {"complete", "error"} : Has(toHost, t) => terminal = t
    /\ completion = "pending" /\ terminal # "none" /\ noise = 0 => Has(toHost, terminal)
    /\ completion = "resolved" => terminal = "complete"

(* Stray output waits for its newline, is in the pipe or among the         *)
(* microtasks until the execution has settled.                             *)
Queued(m) == \E i \in DOMAIN micro : micro[i] = m
NoiseOK ==
    /\ prog = "unspawned" => noise = 0
    /\ stray \/ Has(toHost, "noise") \/ Queued("protocol") => noise > 0
    /\ completion = "pending" /\ noise > 0
           => stray \/ Has(toHost, "noise") \/ Queued("protocol")
    /\ stray => ~hungUp /\ prog \in {"running", "cleaning"}

(* The close event comes last.                                             *)
CloseOK ==
    /\ closed => (prog = "dead" \/ hungUp) /\ toHost = <<>>
    /\ \A i \in DOMAIN micro : micro[i] = "close" => closed /\ i = Len(micro)

(* Only one outcome, and what goes with it.                                *)
OutcomeOK ==
    /\ completion # "pending" => timer # "armed"
    /\ completion # "resolved" => result.output = <<>>
    /\ stderrSeen => stderr

EndsOK == TerminalOK /\ NoiseOK /\ CloseOK /\ OutcomeOK

Texts == /\ noise = 0 => TextsOK(toHost, stdout, printed, buffered)
         /\ TextsUp(toHost, stdout, Upcoming)

OutcomeInv == TypeOK /\ Texts /\ EndsOK

(* What Append and Tail do to the frames of a queue.                       *)
LEMMA HasAppend ==
    ASSUME NEW q \in Seq(Frame), NEW f \in Frame
    PROVE  \A t : Has(Append(q, f), t) <=> Has(q, t) \/ f.type = t
  <1> DEFINE p == Append(q, f)
  <1>1. /\ DOMAIN p = DOMAIN q \union {Len(q) + 1}
        /\ \A i \in DOMAIN q : p[i] = q[i]
        /\ p[Len(q) + 1] = f
    BY AppendFacts
  <1> HIDE DEF p
  <1>2. \A t : Has(p, t) <=> Has(q, t) \/ f.type = t
    BY <1>1 DEF Has
  <1> QED
    BY <1>2 DEF p

LEMMA TailIndex ==
    ASSUME NEW S, NEW q \in Seq(S), q # <<>>
    PROVE  /\ Tail(q) \in Seq(S)
           /\ Head(q) = q[1] /\ 1 \in DOMAIN q /\ DOMAIN q \subseteq Nat
           /\ \A i \in DOMAIN Tail(q) : i + 1 \in DOMAIN q /\ Tail(q)[i] = q[i + 1]
           /\ \A i \in DOMAIN q : i # 1 => i - 1 \in DOMAIN Tail(q) /\ Tail(q)[i - 1] = q[i]
           /\ DOMAIN Tail(q) \subseteq Nat
  OBVIOUS

LEMMA HasTail ==
    ASSUME NEW q \in Seq(Frame), q # <<>>
    PROVE  \A t : Has(q, t) <=> Has(Tail(q), t) \/ Head(q).type = t
  <1> DEFINE p == Tail(q)
  <1>1. /\ q[1] = Head(q) /\ 1 \in DOMAIN q
        /\ \A i \in DOMAIN p : i + 1 \in DOMAIN q /\ p[i] = q[i + 1]
        /\ \A i \in DOMAIN q : i # 1 => i - 1 \in DOMAIN p /\ p[i - 1] = q[i]
    BY TailIndex
  <1> HIDE DEF p
  <1>2. \A t : Has(q, t) <=> Has(p, t) \/ Head(q).type = t
    BY <1>1 DEF Has
  <1> QED
    BY <1>2 DEF p

LEMMA FrameTyped ==
    ASSUME NEW t \in FrameTypes, NEW n \in Nat
    PROVE  F(t, n) \in Frame /\ F(t, n).type = t /\ F(t, n).n = n
  BY DEF F, Frame

-----------------------------------------------------------------------------
(* The texts in the pipe.                                                  *)

(* A frame that is no text leaves them, if a complete frame finds nothing  *)
(* buffered.                                                               *)
LEMMA TextsKept ==
    ASSUME NEW q \in Seq(Frame), NEW given, NEW k \in Nat, NEW b \in BOOLEAN,
           NEW f \in Frame, f.type # "out", f.type = "complete" => ~b,
           TextsOK(q, given, k, b)
    PROVE  TextsOK(Append(q, f), given, k, b)
  <1> DEFINE p == Append(q, f)
  <1>1. /\ DOMAIN p = DOMAIN q \union {Len(q) + 1} /\ DOMAIN q = 1..Len(q) /\ Len(q) \in Nat
        /\ \A i \in DOMAIN q : p[i] = q[i]
        /\ p[Len(q) + 1] = f
    BY AppendFacts
  <1>2. Has(p, "complete") <=> Has(q, "complete") \/ f.type = "complete"
    BY HasAppend
  <1> HIDE DEF p
  <1>3. \A i \in DOMAIN p : p[i].type = "out" => i \in DOMAIN q /\ p[i] = q[i]
    BY <1>1
  <1>4. \A i \in DOMAIN p : i = Len(q) + 1 \/ (i \in DOMAIN q /\ p[i] = q[i])
    BY <1>1
  <1>5. \A i, j \in DOMAIN p : p[i].type = "complete" /\ p[j].type = "out" => j < i
    <2> SUFFICES ASSUME NEW i \in DOMAIN p, NEW j \in DOMAIN p,
                        p[i].type = "complete", p[j].type = "out"
                 PROVE  j < i
      OBVIOUS
    <2>1. j \in DOMAIN q /\ p[j] = q[j]
      BY <1>3
    <2>2. CASE i = Len(q) + 1
      BY <1>1, <2>1, <2>2
    <2>3. CASE i \in DOMAIN q /\ p[i] = q[i]
      BY <2>1, <2>3 DEF TextsOK
    <2> QED
      BY <1>4, <2>2, <2>3
  <1>6. ASSUME NEW n \in 1..k, Len(given) < n, b => n < k
        PROVE  \E i \in DOMAIN p : p[i].type = "out" /\ p[i].n = n
    <2>1. PICK i \in DOMAIN q : q[i].type = "out" /\ q[i].n = n
      BY <1>6 DEF TextsOK
    <2> QED
      BY <1>1, <2>1
  <1>7. TextsOK(p, given, k, b)
    BY <1>2, <1>3, <1>5, <1>6 DEF TextsOK
  <1> QED
    BY <1>7 DEF p

(* A text reaches the pipe: the one just printed or the one buffered.      *)
LEMMA TextPiped ==
    ASSUME NEW q \in Seq(Frame), NEW given, NEW k \in Nat, NEW b \in BOOLEAN,
           NEW m \in Nat, m = (IF b THEN k ELSE k + 1), ~Has(q, "complete"),
           TextsOK(q, given, k, b)
    PROVE  TextsOK(Append(q, F("out", m)), given, m, FALSE)
  <1> DEFINE p == Append(q, F("out", m))
  <1>0. F("out", m) \in Frame /\ F("out", m).type = "out" /\ F("out", m).n = m
    BY FrameTyped DEF FrameTypes
  <1>1. /\ DOMAIN p = DOMAIN q \union {Len(q) + 1} /\ DOMAIN q = 1..Len(q) /\ Len(q) \in Nat
        /\ \A i \in DOMAIN q : p[i] = q[i]
        /\ p[Len(q) + 1].type = "out" /\ p[Len(q) + 1].n = m
        /\ \A i \in DOMAIN q : q[i].n \in Nat
    <2>1. \A i \in DOMAIN q : q[i] \in Frame
      OBVIOUS
    <2>2. \A i \in DOMAIN q : q[i].n \in Nat
      BY <2>1 DEF Frame
    <2> QED
      BY <1>0, <2>2, AppendFacts
  <1>2. ~Has(p, "complete")
    BY <1>0, HasAppend
  <1> HIDE DEF p
  <1>3. given \in Seq(Nat) /\ Len(given) \in Nat /\ Len(given) < m
    <2>1. given \in Seq(Nat) /\ Len(given) <= k /\ (b => Len(given) < k)
      BY DEF TextsOK
    <2> QED
      BY <2>1
  <1>4. \A i \in DOMAIN q : q[i].type = "out" => Len(given) < q[i].n /\ q[i].n < m
    BY <1>1 DEF TextsOK
  <1>5. \A i \in DOMAIN p : i = Len(q) + 1 \/ (i \in DOMAIN q /\ p[i] = q[i])
    BY <1>1
  <1>6. \A i \in DOMAIN p : p[i].type = "out" => Len(given) < p[i].n /\ p[i].n <= m
    <2> SUFFICES ASSUME NEW i \in DOMAIN p, p[i].type = "out"
                 PROVE  Len(given) < p[i].n /\ p[i].n <= m
      OBVIOUS
    <2>1. CASE i = Len(q) + 1
      BY <1>1, <1>3, <2>1
    <2>2. CASE i \in DOMAIN q /\ p[i] = q[i]
      BY <1>1, <1>4, <2>2
    <2> QED
      BY <1>5, <2>1, <2>2
  <1>7. \A i, j \in DOMAIN p :
           p[i].type = "out" /\ p[j].type = "out" /\ i < j => p[i].n < p[j].n
    <2> SUFFICES ASSUME NEW i \in DOMAIN p, NEW j \in DOMAIN p,
                        p[i].type = "out", p[j].type = "out", i < j
                 PROVE  p[i].n < p[j].n
      OBVIOUS
    <2>1. i \in DOMAIN q /\ p[i] = q[i]
      <3>1. i # Len(q) + 1
        BY <1>1
      <3> QED
        BY <1>5, <3>1
    <2>2. CASE j = Len(q) + 1
      BY <1>1, <1>4, <2>1, <2>2
    <2>3. CASE j \in DOMAIN q /\ p[j] = q[j]
      BY <2>1, <2>3 DEF TextsOK
    <2> QED
      BY <1>5, <2>2, <2>3
  <1>8. ASSUME NEW n \in 1..m, Len(given) < n
        PROVE  \E i \in DOMAIN p : p[i].type = "out" /\ p[i].n = n
    <2>1. CASE n = m
      BY <1>1, <2>1
    <2>2. CASE n # m
      <3>1. n \in 1..k /\ (b => n < k)
        BY <2>2
      <3>2. PICK i \in DOMAIN q : q[i].type = "out" /\ q[i].n = n
        BY <1>8, <3>1 DEF TextsOK
      <3> QED
        BY <1>1, <3>2
    <2> QED
      BY <2>1, <2>2
  <1>9. \A i \in 1..Len(given) : given[i] = i
    BY DEF TextsOK
  <1>10. TextsOK(p, given, m, FALSE)
    BY <1>2, <1>3, <1>6, <1>7, <1>8, <1>9 DEF TextsOK, Has
  <1> QED
    BY <1>10 DEF p

(* A text waits in the proxy for the end of its line.                      *)
LEMMA TextBuffered ==
    ASSUME NEW q \in Seq(Frame), NEW given, NEW k \in Nat, ~Has(q, "complete"),
           TextsOK(q, given, k, FALSE)
    PROVE  TextsOK(q, given, k + 1, TRUE)
  <1>1. \A i \in DOMAIN q : q[i].n \in Nat
    <2>1. \A i \in DOMAIN q : q[i] \in Frame
      OBVIOUS
    <2> QED
      BY <2>1 DEF Frame
  <1>2. given \in Seq(Nat) /\ Len(given) \in Nat /\ Len(given) <= k
    BY DEF TextsOK
  <1>3. \A i \in DOMAIN q : q[i].type = "out" => Len(given) < q[i].n /\ q[i].n < k + 1
    BY <1>1 DEF TextsOK
  <1>4. \A n \in 1..(k + 1) : n < k + 1 => n \in 1..k
    OBVIOUS
  <1>5. \A n \in 1..(k + 1) : Len(given) < n /\ n < k + 1 =>
           \E i \in DOMAIN q : q[i].type = "out" /\ q[i].n = n
    BY <1>4 DEF TextsOK
  <1>6. /\ \A i \in 1..Len(given) : given[i] = i
        /\ \A i, j \in DOMAIN q :
              q[i].type = "out" /\ q[j].type = "out" /\ i < j => q[i].n < q[j].n
        /\ \A i, j \in DOMAIN q : q[i].type = "complete" /\ q[j].type = "out" => j < i
    BY DEF TextsOK
  <1>7. Len(given) <= k + 1 /\ Len(given) < k + 1 /\ \A i \in DOMAIN q : q[i].n < k + 1 => q[i].n <= k + 1
    BY <1>1, <1>2
  <1> QED
    BY <1>2, <1>3, <1>5, <1>6, <1>7 DEF TextsOK

(* The host takes a frame that is no text.                                 *)
LEMMA TextsTail ==
    ASSUME NEW q \in Seq(Frame), q # <<>>, NEW given, NEW k \in Nat, NEW b \in BOOLEAN,
           Head(q).type # "out", TextsOK(q, given, k, b)
    PROVE  TextsOK(Tail(q), given, k, b)
  <1> DEFINE p == Tail(q)
  <1>1. /\ q[1] = Head(q) /\ DOMAIN q \subseteq Nat /\ DOMAIN p \subseteq Nat
        /\ \A i \in DOMAIN p : i + 1 \in DOMAIN q /\ p[i] = q[i + 1]
        /\ \A i \in DOMAIN q : i # 1 => i - 1 \in DOMAIN p /\ p[i - 1] = q[i]
    BY TailIndex
  <1>2. Has(p, "complete") => Has(q, "complete")
    BY HasTail
  <1> HIDE DEF p
  <1>3. \A i \in DOMAIN p : p[i].type = "out" =>
            Len(given) < p[i].n /\ p[i].n <= k /\ (b => p[i].n < k)
    BY <1>1 DEF TextsOK
  <1>4. ASSUME NEW i \in DOMAIN p, NEW j \in DOMAIN p
        PROVE  /\ p[i].type = "out" /\ p[j].type = "out" /\ i < j => p[i].n < p[j].n
               /\ p[i].type = "complete" /\ p[j].type = "out" => j < i
    <2>1. /\ i + 1 \in DOMAIN q /\ j + 1 \in DOMAIN q
          /\ p[i] = q[i + 1] /\ p[j] = q[j + 1]
          /\ (i < j <=> i + 1 < j + 1) /\ (j < i <=> j + 1 < i + 1)
      BY <1>1
    <2> QED
      BY <2>1 DEF TextsOK
  <1>5. ASSUME NEW n \in 1..k, Len(given) < n, b => n < k
        PROVE  \E i \in DOMAIN p : p[i].type = "out" /\ p[i].n = n
    <2>1. PICK i \in DOMAIN q : q[i].type = "out" /\ q[i].n = n
      BY <1>5 DEF TextsOK
    <2>2. i # 1
      BY <1>1, <2>1
    <2> QED
      BY <1>1, <2>1, <2>2
  <1>6. TextsOK(p, given, k, b)
    BY <1>2, <1>3, <1>4, <1>5 DEF TextsOK
  <1> QED
    BY <1>6 DEF p

(* The host takes a text: it is the next one.                              *)
LEMMA TextTaken ==
    ASSUME NEW q \in Seq(Frame), q # <<>>, NEW given, NEW k \in Nat, NEW b \in BOOLEAN,
           Head(q).type = "out", TextsOK(q, given, k, b)
    PROVE  TextsOK(Tail(q), Append(given, Head(q).n), k, b)
  <1> DEFINE p == Tail(q)
             g == Append(given, Head(q).n)
  <1>0. Head(q).n \in Nat /\ given \in Seq(Nat) /\ Len(given) \in Nat
    BY HeadFrame DEF TextsOK
  <1>1. /\ q[1] = Head(q) /\ 1 \in DOMAIN q /\ DOMAIN q \subseteq Nat /\ DOMAIN p \subseteq Nat
        /\ \A i \in DOMAIN p : i + 1 \in DOMAIN q /\ p[i] = q[i + 1]
        /\ \A i \in DOMAIN q : i # 1 => i - 1 \in DOMAIN p /\ p[i - 1] = q[i]
    BY TailIndex
  <1>2. \A i \in DOMAIN q : q[i].n \in Nat /\ i \in Nat \ {0}
    <2>1. \A i \in DOMAIN q : q[i] \in Frame /\ i \in 1..Len(q)
      OBVIOUS
    <2> QED
      BY <2>1 DEF Frame
  <1>3. Has(p, "complete") => Has(q, "complete")
    BY HasTail
  <1> DEFINE m == Len(given) + 1
  <1>4. Head(q).n = m
    <2>1. /\ Len(given) < Head(q).n /\ Head(q).n <= k /\ (b => Head(q).n < k)
      BY <1>1 DEF TextsOK
    <2>2. m \in 1..k /\ Len(given) < m /\ (b => m < k)
      BY <1>0, <2>1
    <2>3. PICK i \in DOMAIN q : q[i].type = "out" /\ q[i].n = m
      BY <2>2 DEF TextsOK
    <2>4. i = 1 \/ 1 < i
      BY <1>2
    <2>5. CASE i = 1
      BY <1>1, <2>3, <2>5
    <2>6. CASE 1 < i
      <3>1. Head(q).n < m
        BY <1>1, <2>3, <2>6 DEF TextsOK
      <3> QED
        BY <1>0, <2>1, <3>1
    <2> QED
      BY <2>4, <2>5, <2>6
  <1>5. /\ g \in Seq(Nat) /\ Len(g) = m /\ m <= k /\ (b => m < k)
        /\ \A i \in 1..m : g[i] = i
    <2>1. m <= k /\ (b => m < k)
      BY <1>1, <1>4 DEF TextsOK
    <2>2. g = Append(given, m)
      BY <1>4
    <2>3. \A i \in 1..Len(given) : given[i] = i
      BY DEF TextsOK
    <2> QED
      BY <1>0, <2>1, <2>2, <2>3
  <1> HIDE DEF p, g
  <1>6. \A i \in DOMAIN p : p[i].type = "out" => m < p[i].n /\ p[i].n <= k /\ (b => p[i].n < k)
    <2> SUFFICES ASSUME NEW i \in DOMAIN p, p[i].type = "out"
                 PROVE  m < p[i].n /\ p[i].n <= k /\ (b => p[i].n < k)
      OBVIOUS
    <2>1. i + 1 \in DOMAIN q /\ p[i] = q[i + 1] /\ 1 < i + 1
      BY <1>1, <1>2
    <2> QED
      BY <1>1, <1>4, <2>1 DEF TextsOK
  <1>7. ASSUME NEW i \in DOMAIN p, NEW j \in DOMAIN p
        PROVE  /\ p[i].type = "out" /\ p[j].type = "out" /\ i < j => p[i].n < p[j].n
               /\ p[i].type = "complete" /\ p[j].type = "out" => j < i
    <2>1. /\ i + 1 \in DOMAIN q /\ j + 1 \in DOMAIN q
          /\ p[i] = q[i + 1] /\ p[j] = q[j + 1]
          /\ (i < j <=> i + 1 < j + 1) /\ (j < i <=> j + 1 < i + 1)
      BY <1>1
    <2> QED
      BY <2>1 DEF TextsOK
  <1>8. ASSUME NEW n \in 1..k, m < n, b => n < k
        PROVE  \E i \in DOMAIN p : p[i].type = "out" /\ p[i].n = n
    <2>1. PICK i \in DOMAIN q : q[i].type = "out" /\ q[i].n = n
      BY <1>0, <1>8 DEF TextsOK
    <2>2. i # 1
      BY <1>0, <1>1, <1>4, <1>8, <2>1
    <2> QED
      BY <1>1, <2>1, <2>2
  <1>9. b => ~Has(p, "complete")
    BY <1>3 DEF TextsOK
  <1>10. TextsOK(p, g, k, b)
    BY <1>5, <1>6, <1>7, <1>8, <1>9 DEF TextsOK
  <1> QED
    BY <1>10 DEF p, g

(* When the complete frame is next, every printed text has been given.     *)
LEMMA TextsAll ==
    ASSUME NEW q \in Seq(Frame), q # <<>>, NEW given, NEW k \in Nat, NEW b \in BOOLEAN,
           Head(q).type = "complete", TextsOK(q, given, k, b)
    PROVE  given = [i \in 1..k |-> i]
  <1>1. 1 \in DOMAIN q /\ q[1].type = "complete" /\ \A i \in DOMAIN q : i \in Nat \ {0}
    OBVIOUS
  <1>2. ~b /\ \A i \in DOMAIN q : q[i].type # "out"
    <2>1. Has(q, "complete")
      BY <1>1 DEF Has
    <2>2. ASSUME NEW i \in DOMAIN q, q[i].type = "out" PROVE i < 1
      BY <1>1, <2>2 DEF TextsOK
    <2> QED
      BY <1>1, <2>1, <2>2 DEF TextsOK
  <1>3. given \in Seq(Nat) /\ Len(given) <= k /\ \A i \in 1..Len(given) : given[i] = i
    BY DEF TextsOK
  <1>4. \A n \in 1..k : ~(Len(given) < n)
    BY <1>2 DEF TextsOK
  <1>5. Len(given) = k
    <2>1. Len(given) \in Nat
      BY <1>3
    <2>2. CASE k = 0
      BY <1>3, <2>1, <2>2
    <2>3. CASE k # 0
      <3>1. k \in 1..k
        BY <2>3
      <3> QED
        BY <1>3, <1>4, <2>1, <3>1
    <2> QED
      BY <2>2, <2>3
  <1> QED
    BY <1>3, <1>5

(* The same of the weaker invariant.                                       *)
LEMMA FrameNumbers ==
    ASSUME NEW q \in Seq(Frame)
    PROVE  \A i \in DOMAIN q : q[i].n \in Nat /\ i \in Nat
  <1>1. \A i \in DOMAIN q : q[i] \in Frame /\ i \in Nat
    OBVIOUS
  <1> QED
    BY <1>1 DEF Frame

LEMMA UpKept ==
    ASSUME NEW q \in Seq(Frame), NEW given, NEW m, NEW f \in Frame, f.type # "out",
           TextsUp(q, given, m)
    PROVE  TextsUp(Append(q, f), given, m)
  <1> DEFINE p == Append(q, f)
  <1>1. /\ DOMAIN p = DOMAIN q \union {Len(q) + 1}
        /\ \A i \in DOMAIN q : p[i] = q[i]
        /\ p[Len(q) + 1] = f
    BY AppendFacts
  <1> HIDE DEF p
  <1>2. \A i \in DOMAIN p : p[i].type = "out" => i \in DOMAIN q /\ p[i] = q[i]
    BY <1>1
  <1>3. TextsUp(p, given, m)
    BY <1>2 DEF TextsUp
  <1> QED
    BY <1>3 DEF p

LEMMA UpMore ==
    ASSUME NEW q \in Seq(Frame), NEW given, NEW m \in Nat, TextsUp(q, given, m)
    PROVE  TextsUp(q, given, m + 1)
  <1>1. \A n \in Nat : n < m => n < m + 1
    OBVIOUS
  <1>2. /\ \A i \in DOMAIN q : q[i].type = "out" => 0 < q[i].n /\ q[i].n < m + 1
        /\ \A i \in DOMAIN given : 0 < given[i] /\ given[i] < m + 1
        /\ m + 1 \in Nat \ {0}
    <2>1. \A i \in DOMAIN given : given[i] \in Nat
      BY DEF TextsUp
    <2> QED
      BY <1>1, <2>1, FrameNumbers DEF TextsUp
  <1> QED
    BY <1>2 DEF TextsUp

LEMMA UpPiped ==
    ASSUME NEW q \in Seq(Frame), NEW given, NEW m \in Nat, NEW g \in BOOLEAN,
           TextsUp(q, given, m)
    PROVE  TextsUp(Put(q, g, F("out", m)), given, m + 1)
  <1>1. CASE g
    BY <1>1, FrameTyped, UpKept, UpMore, AppendFacts DEF Put, FrameTypes
  <1>2. CASE ~g
    <2> DEFINE p == Append(q, F("out", m))
    <2>0. F("out", m) \in Frame /\ F("out", m).type = "out" /\ F("out", m).n = m
      BY FrameTyped DEF FrameTypes
    <2>1. /\ DOMAIN p = DOMAIN q \union {Len(q) + 1} /\ DOMAIN q = 1..Len(q) /\ Len(q) \in Nat
          /\ \A i \in DOMAIN q : p[i] = q[i]
          /\ p[Len(q) + 1].type = "out" /\ p[Len(q) + 1].n = m
      BY <2>0, AppendFacts
    <2> HIDE DEF p
    <2>2. \A i \in DOMAIN p : (i = Len(q) + 1 /\ p[i].n = m) \/ (i \in DOMAIN q /\ p[i] = q[i])
      BY <2>1
    <2>3. TextsUp(q, given, m + 1) /\ m \in Nat \ {0}
      BY UpMore DEF TextsUp
    <2>4. \A i \in DOMAIN p : p[i].type = "out" => 0 < p[i].n /\ p[i].n < m + 1
      BY <2>2, <2>3 DEF TextsUp
    <2>5. ASSUME NEW i \in DOMAIN p, NEW j \in DOMAIN p,
                 p[i].type = "out", p[j].type = "out", i < j
          PROVE  p[i].n < p[j].n
      <3>1. i \in DOMAIN q /\ p[i] = q[i]
        BY <2>1, <2>2, <2>5
      <3>2. CASE j \in DOMAIN q /\ p[j] = q[j]
        BY <2>5, <3>1, <3>2 DEF TextsUp
      <3>3. CASE j = Len(q) + 1 /\ p[j].n = m
        BY <2>5, <3>1, <3>3 DEF TextsUp
      <3> QED
        BY <2>2, <3>2, <3>3
    <2>6. ASSUME NEW i \in DOMAIN given, NEW j \in DOMAIN p, p[j].type = "out"
          PROVE  given[i] < p[j].n
      BY <2>2, <2>6 DEF TextsUp
    <2>7. TextsUp(p, given, m + 1)
      BY <2>3, <2>4, <2>5, <2>6 DEF TextsUp
    <2> QED
      BY <1>2, <2>7 DEF p, Put
  <1> QED
    BY <1>1, <1>2

LEMMA UpPut ==
    ASSUME NEW q \in Seq(Frame), NEW given, NEW m, NEW g \in BOOLEAN,
           NEW t \in FrameTypes \ {"out"}, NEW n \in Nat, TextsUp(q, given, m)
    PROVE  TextsUp(Put(q, g, F(t, n)), given, m)
  BY FrameTyped, UpKept DEF Put, FrameTypes

LEMMA UpTail ==
    ASSUME NEW q \in Seq(Frame), q # <<>>, NEW given, NEW m, TextsUp(q, given, m)
    PROVE  /\ TextsUp(Tail(q), given, m)
           /\ Head(q).type = "out" => TextsUp(Tail(q), Append(given, Head(q).n), m)
  <1> DEFINE p == Tail(q)
             g == Append(given, Head(q).n)
  <1>1. /\ q[1] = Head(q) /\ 1 \in DOMAIN q /\ DOMAIN q \subseteq Nat /\ DOMAIN p \subseteq Nat
        /\ \A i \in DOMAIN p : i + 1 \in DOMAIN q /\ p[i] = q[i + 1] /\ 1 < i + 1
    <2>1. \A i \in DOMAIN p : 1 < i + 1
      OBVIOUS
    <2> QED
      BY <2>1, TailIndex
  <1>2. Head(q).n \in Nat /\ given \in Seq(Nat)
    BY HeadFrame DEF TextsUp
  <1>3. /\ g \in Seq(Nat) /\ DOMAIN g = DOMAIN given \union {Len(given) + 1}
        /\ \A i \in DOMAIN given : g[i] = given[i] /\ i < Len(given) + 1
        /\ g[Len(given) + 1] = Head(q).n
        /\ Len(given) \in Nat
    BY <1>2
  <1> HIDE DEF p, g
  <1>4. /\ \A i \in DOMAIN p : p[i].type = "out" => 0 < p[i].n /\ p[i].n < m
        /\ \A i, j \in DOMAIN p :
              p[i].type = "out" /\ p[j].type = "out" /\ i < j => p[i].n < p[j].n
    <2>1. \A i, j \in DOMAIN p : i < j => i + 1 < j + 1
      BY <1>1
    <2> QED
      BY <1>1, <2>1 DEF TextsUp
  <1>5. TextsUp(p, given, m)
    BY <1>1, <1>4 DEF TextsUp
  <1>6. ASSUME Head(q).type = "out" PROVE TextsUp(p, g, m)
    <2>1. \A i \in DOMAIN g : i \in DOMAIN given \/ (i = Len(given) + 1 /\ g[i] = Head(q).n)
      BY <1>3
    <2>2. \A i \in DOMAIN g : 0 < g[i] /\ g[i] < m
      BY <1>1, <1>3, <1>6, <2>1 DEF TextsUp
    <2>3. \A i, j \in DOMAIN g : i < j => g[i] < g[j]
      <3> SUFFICES ASSUME NEW i \in DOMAIN g, NEW j \in DOMAIN g, i < j PROVE g[i] < g[j]
        OBVIOUS
      <3>1. i \in DOMAIN given
        <4>1. DOMAIN given = 1..Len(given)
          BY <1>2
        <4> QED
          BY <1>3, <2>1, <4>1
      <3> QED
        BY <1>1, <1>3, <1>6, <2>1, <3>1 DEF TextsUp
    <2>4. \A i \in DOMAIN g, j \in DOMAIN p : p[j].type = "out" => g[i] < p[j].n
      BY <1>1, <1>3, <1>6, <2>1 DEF TextsUp
    <2> QED
      BY <1>3, <1>4, <2>2, <2>3, <2>4 DEF TextsUp
  <1> QED
    BY <1>5, <1>6 DEF p, g

(* Stray output is never taken back.                                       *)
LEMMA NoiseGrows == TypeOK /\ [Next]_vars => noise' \in {noise, noise + 1}
  BY DEF Next, Python, Host, HandleLine, vars, pyVars, outVars, PyBoot, PyCall, PyCallUnreadable,
     PyCallUnsent, NewCall, PyHandleResponse, PyReaderFails, PyPrintLine, PyPrintPart, PyEndLine,
     PyNoise, PyStderr, PyCloseStdout, PyReturn, PyReturnUnreadable, PyRaise, PyLeave, PyDie,
     PyExit, PySignalled, Dies, PyResume, PyExpire, PyCancel, HandleToolCall, HandleStdout,
     HandleComplete, HandleError, HandleBadLine, HandleClose, RunMicrotask, ToolReturns,
     StderrData, HandleExit, HandleSpawnError, TimerFires, Abort, Escalate

LEMMA StepUp == TypeOK /\ TextsUp(toHost, stdout, Upcoming) /\ [Next]_vars
                    => TextsUp(toHost, stdout, Upcoming)'
  <1> SUFFICES ASSUME TypeOK, TextsUp(toHost, stdout, Upcoming), [Next]_vars
               PROVE  TextsUp(toHost', stdout', Upcoming')
    BY DEF TextsUp
  <1>t. /\ toHost \in Seq(Frame) /\ printed \in Nat /\ buffered \in BOOLEAN /\ stray \in BOOLEAN
        /\ callId \in Nat /\ callId + 1 \in Nat /\ printed + 1 \in Nat
        /\ Upcoming \in Nat /\ (stray /\ ~buffered) \in BOOLEAN
    BY BoundsAssumption DEF BoundsAssumption, TypeOK, PyTypeOK, PipeTypeOK, Upcoming
  <1>1. ASSUME UNCHANGED <<toHost, stdout, printed, buffered>>
        PROVE  TextsUp(toHost', stdout', Upcoming')
    BY <1>1 DEF Upcoming
  <1>2. ASSUME NEW t \in {"call", "noise", "error"}, NEW n \in Nat, NEW g \in BOOLEAN,
               toHost' = Put(toHost, g, F(t, n)), UNCHANGED <<stdout, printed, buffered>>
        PROVE  TextsUp(toHost', stdout', Upcoming')
    BY <1>t, <1>2, UpPut DEF Upcoming, FrameTypes
  <1>3. ASSUME toHost' \in {Rest, Append(toHost, F("noise", 0))},
               UNCHANGED <<stdout, printed, buffered>>
        PROVE  TextsUp(toHost', stdout', Upcoming')
    <2>1. Append(toHost, F("noise", 0)) = Put(toHost, FALSE, F("noise", 0))
      BY DEF Put
    <2> QED
      BY <1>1, <1>2, <1>3, <2>1 DEF Rest
  <1>4. CASE PyCall \/ PyCallUnreadable \/ PyCallUnsent
    <2>1. callId' = callId + 1 /\ UNCHANGED <<stdout, printed, buffered>>
      BY <1>4 DEF PyCall, PyCallUnreadable, PyCallUnsent, NewCall, hostVars, toolVars
    <2> QED
      BY <1>t, <1>1, <1>2, <1>3, <1>4, <2>1 DEF PyCall, PyCallUnreadable, PyCallUnsent
  <1>5. CASE PyPrintLine \/ PyEndLine
    BY <1>t, <1>5, UpPiped DEF PyPrintLine, PyEndLine, hostVars, toolVars, Upcoming
  <1>6. CASE PyPrintPart
    BY <1>t, <1>6 DEF PyPrintPart, outVars, hostVars, toolVars, Upcoming
  <1>7. CASE PyNoise \/ PyCloseStdout \/ PyDie \/ PyExit
             \/ \E x \in {"TERM", "KILL"} : PySignalled(x)
    <2>1. UNCHANGED <<stdout, printed, buffered>>
      BY <1>7 DEF PyNoise, PyCloseStdout, PyDie, PyExit, PySignalled, Dies, hostVars, toolVars
    <2> QED
      BY <1>1, <1>3, <1>7, <2>1 DEF PyNoise, PyCloseStdout, PyDie, PyExit, PySignalled
  <1>8. CASE PyReturn("complete") \/ PyReturn("error") \/ PyReturnUnreadable
    <2>1. /\ Flushed \in Seq(Frame)
          /\ TextsUp(Flushed, stdout, printed + 1)
      <3>1. CASE buffered
        BY <1>t, <3>1, UpPiped, FrameAppended DEF Flushed, Put, Upcoming, FrameTypes
      <3>2. CASE ~buffered
        BY <1>t, <3>2 DEF Flushed, Upcoming
      <3> QED
        BY <3>1, <3>2
    <2>2. Append(Flushed, F("noise", 0)) = Put(Flushed, FALSE, F("noise", 0))
      BY DEF Put
    <2>3. TextsUp(toHost', stdout, printed + 1)
      <3>1. \A t \in {"complete", "error", "noise"}, g \in BOOLEAN :
                TextsUp(Put(Flushed, g, F(t, 0)), stdout, printed + 1)
        BY <2>1, UpPut DEF FrameTypes
      <3> QED
        BY <1>t, <1>8, <2>2, <3>1 DEF PyReturn, PyReturnUnreadable
    <2> QED
      BY <1>8, <2>3 DEF PyReturn, PyReturnUnreadable, Over, hostVars, toolVars, Upcoming
  <1>9. CASE PyRaise
    BY <1>t, <1>2, <1>9 DEF PyRaise, Over, hostVars, toolVars
  <1>10. CASE HandleLine
    <2>1. /\ toHost # <<>> /\ toHost' = Tail(toHost) /\ UNCHANGED <<printed, buffered>>
          /\ \/ stdout' = stdout
             \/ Head(toHost).type = "out" /\ stdout' = Append(stdout, Head(toHost).n)
      BY <1>10 DEF HandleLine, HandleToolCall, HandleStdout, HandleComplete, HandleError,
         HandleBadLine, Line, pyVars, toolVars
    <2> QED
      BY <1>t, <2>1, UpTail DEF Upcoming
  <1>11. CASE PyBoot \/ PyHandleResponse \/ PyReaderFails \/ PyStderr \/ PyLeave
              \/ \E c \in Calls : PyResume(c) \/ PyExpire(c) \/ PyCancel(c)
    BY <1>1, <1>11 DEF PyBoot, PyHandleResponse, PyReaderFails, PyStderr, PyLeave, Over,
       PyResume, PyExpire, PyCancel, hostVars, toolVars
  <1>12. CASE HandleClose \/ RunMicrotask \/ StderrData \/ HandleExit \/ HandleSpawnError
              \/ TimerFires \/ Abort \/ Escalate \/ UNCHANGED vars
              \/ \E c \in Calls, o \in ToolOutcomes : ToolReturns(c, o)
    BY <1>1, <1>12 DEF HandleClose, RunMicrotask, StderrData, HandleExit, HandleSpawnError,
       TimerFires, Abort, Escalate, ToolReturns, vars, pyVars, toolVars
  <1> QED
    BY <1>4, <1>5, <1>6, <1>7, <1>8, <1>9, <1>10, <1>11, <1>12 DEF Next, Python, Host

LEMMA StepTexts == TypeOK /\ TerminalOK /\ NoiseOK /\ Texts /\ [Next]_vars => Texts'
  <1> SUFFICES ASSUME TypeOK, TerminalOK, NoiseOK, Texts, [Next]_vars, noise' = 0
               PROVE  TextsOK(toHost', stdout', printed', buffered')
    BY StepUp DEF Texts, TextsOK, Has
  <1>t. /\ toHost \in Seq(Frame) /\ printed \in Nat /\ buffered \in BOOLEAN
        /\ callId \in Nat /\ callId + 1 \in Nat /\ printed + 1 \in Nat /\ noise \in Nat
    BY BoundsAssumption DEF BoundsAssumption, TypeOK, PyTypeOK, PipeTypeOK
  <1>n. noise = 0 /\ TextsOK(toHost, stdout, printed, buffered)
    BY <1>t, NoiseGrows DEF Texts
  <1>s. stray = FALSE
    BY <1>n DEF NoiseOK, TypeOK, PyTypeOK
  <1>p. \A q, f : Put(q, FALSE, f) = Append(q, f)
    BY DEF Put
  <1>u. prog = "running" => ~Has(toHost, "complete")
    BY DEF TerminalOK
  <1>1. ASSUME UNCHANGED <<toHost, stdout, printed, buffered>>
        PROVE  TextsOK(toHost', stdout', printed', buffered')
    BY <1>1, <1>n
  <1>2. ASSUME NEW t \in {"call", "error"}, NEW n \in Nat,
               toHost' = Append(toHost, F(t, n)), UNCHANGED <<stdout, printed, buffered>>
        PROVE  TextsOK(toHost', stdout', printed', buffered')
    <2>1. F(t, n) \in Frame /\ F(t, n).type # "out" /\ F(t, n).type # "complete"
      BY FrameTyped DEF FrameTypes
    <2> QED
      BY <1>t, <1>n, <1>2, <2>1, TextsKept
  <1>3. CASE PyCall
    <2>1. toHost' = Append(toHost, F("call", callId + 1))
      BY <1>3, <1>p, <1>s DEF PyCall, NewCall
    <2>2. UNCHANGED <<stdout, printed, buffered>>
      BY <1>3 DEF PyCall, NewCall, hostVars, toolVars
    <2> QED
      BY <1>t, <1>2, <2>1, <2>2
  <1>4. CASE PyPrintLine \/ PyEndLine
    <2>1. toHost' = Append(toHost, F("out", printed'))
      BY <1>4, <1>p, <1>s DEF PyPrintLine, PyEndLine
    <2> QED
      BY <1>t, <1>n, <1>u, <1>4, <2>1, TextPiped DEF PyPrintLine, PyEndLine, CanPrint, hostVars,
         toolVars
  <1>5. CASE PyPrintPart
    BY <1>t, <1>n, <1>u, <1>5, TextBuffered DEF PyPrintPart, CanPrint, hostVars, toolVars
  <1>6. CASE PyNoise \/ PyCallUnreadable \/ PyReturnUnreadable
    BY <1>n, <1>6 DEF PyNoise, PyCallUnreadable, PyReturnUnreadable
  <1>7. CASE PyRaise
    <2>1. toHost' = Append(toHost, F("error", 0)) /\ UNCHANGED <<stdout, printed, buffered>>
      BY <1>7, <1>p, <1>s DEF PyRaise, Over, hostVars, toolVars
    <2> QED
      BY <1>2, <2>1
  <1>8. ASSUME NEW t \in {"complete", "error"}, PyReturn(t)
        PROVE  TextsOK(toHost', stdout', printed', buffered')
    <2>0. prog = "running"
      BY <1>8 DEF PyReturn, Over
    <2>1. TextsOK(Flushed, stdout, printed, FALSE) /\ Flushed \in Seq(Frame)
      <3>1. CASE buffered
        <4>1. Flushed = Append(toHost, F("out", printed))
          BY <1>p, <1>s, <3>1 DEF Flushed
        <4> QED
          BY <1>t, <1>n, <1>u, <2>0, <3>1, <4>1, TextPiped, FrameAppended DEF FrameTypes
      <3>2. CASE ~buffered
        BY <1>t, <1>n, <3>2 DEF Flushed
      <3> QED
        BY <3>1, <3>2
    <2>2. F(t, 0) \in Frame /\ F(t, 0).type # "out"
      BY FrameTyped DEF FrameTypes
    <2>3. TextsOK(Append(Flushed, F(t, 0)), stdout, printed, FALSE)
      BY <1>t, <2>1, <2>2, TextsKept
    <2>4. toHost' = Append(Flushed, F(t, 0))
      <3>1. (stray /\ ~buffered) = FALSE
        BY <1>s
      <3> QED
        BY <1>8, <1>p, <3>1 DEF PyReturn
    <2> QED
      BY <1>8, <2>3, <2>4 DEF PyReturn, Over, hostVars, toolVars
  <1>9. CASE PyCloseStdout \/ PyDie \/ PyExit \/ PyCallUnsent \/ PyLeave
             \/ \E x \in {"TERM", "KILL"} : PySignalled(x)
    <2>1. UNCHANGED <<toHost, stdout, printed, buffered>>
      BY <1>9, <1>s, <1>n DEF PyCloseStdout, PyDie, PyExit, PyCallUnsent, NewCall, PyLeave, Over,
         PySignalled, Dies, Rest, hostVars, toolVars
    <2> QED
      BY <1>1, <2>1
  <1>10. CASE HandleToolCall \/ HandleComplete \/ HandleError \/ HandleBadLine
    <2>1. /\ toHost # <<>> /\ Head(toHost).type # "out" /\ toHost' = Tail(toHost)
          /\ UNCHANGED <<stdout, printed, buffered>>
      BY <1>10 DEF HandleToolCall, HandleComplete, HandleError, HandleBadLine, Line,
         pyVars, toolVars
    <2> QED
      BY <1>t, <1>n, <2>1, TextsTail
  <1>11. CASE HandleStdout
    BY <1>t, <1>n, <1>11, TextTaken DEF HandleStdout, Line, pyVars
  <1>12. CASE PyBoot \/ PyHandleResponse \/ PyReaderFails \/ PyStderr
              \/ \E c \in Calls : PyResume(c) \/ PyExpire(c) \/ PyCancel(c)
    BY <1>1, <1>12 DEF PyBoot, PyHandleResponse, PyReaderFails, PyStderr,
       PyResume, PyExpire, PyCancel, hostVars, toolVars
  <1>14. CASE HandleClose \/ RunMicrotask \/ StderrData \/ HandleExit \/ HandleSpawnError
              \/ TimerFires \/ Abort \/ Escalate \/ UNCHANGED vars
              \/ \E c \in Calls, o \in ToolOutcomes : ToolReturns(c, o)
    BY <1>1, <1>14 DEF HandleClose, RunMicrotask, StderrData, HandleExit, HandleSpawnError,
       TimerFires, Abort, Escalate, ToolReturns, vars, pyVars, toolVars
  <1> QED
    BY <1>3, <1>4, <1>5, <1>6, <1>7, <1>8, <1>9, <1>10, <1>11, <1>12, <1>14
    DEF Next, Python, Host, HandleLine

(* What the program's steps may do to the pipe and to its own end.         *)
LEMMA EndsGrow ==
    ASSUME EndsOK, noise \in Nat, noise' \in {noise, noise + 1},
           UNCHANGED <<completion, micro, closed, timer, result, stderrSeen>>,
           stderr => stderr', hungUp => hungUp', prog = "dead" => prog' = "dead",
           toHost' = toHost \/ (prog # "dead" /\ ~hungUp),
           prog' = "unspawned" => prog = "unspawned" /\ noise' = noise,
           prog' \in {"unspawned", "starting", "running"} =>
               prog \in {"unspawned", "starting", "running"} /\ terminal' = terminal,
           terminal' = terminal \/ (terminal = "none" /\ (noise' = 0 => Has(toHost', terminal'))),
           \A t : Has(toHost, t) => Has(toHost', t),
           \A t \in {"complete", "error"} : Has(toHost', t) => Has(toHost, t) \/ terminal' = t,
           stray' \/ Has(toHost', "noise")
               => stray \/ Has(toHost, "noise") \/ noise' = noise + 1,
           stray \/ noise' = noise + 1 => stray' \/ Has(toHost', "noise"),
           stray' => ~hungUp' /\ prog' \in {"running", "cleaning"}
    PROVE  EndsOK'
  <1>0. (completion = "resolved" => terminal = "complete") /\ completion' = completion
    BY DEF EndsOK, TerminalOK
  <1>1. TerminalOK'
    <2>1. \A t \in {"complete", "error"} : Has(toHost', t) => terminal' = t
      BY DEF EndsOK, TerminalOK
    <2>2. completion' = "pending" /\ terminal' # "none" /\ noise' = 0 => Has(toHost', terminal')
      BY DEF EndsOK, TerminalOK
    <2> QED
      BY <1>0, <2>1, <2>2 DEF EndsOK, TerminalOK
  <1>2. NoiseOK'
    <2>1. Queued("protocol")' <=> Queued("protocol")
      BY DEF Queued
    <2>2. noise > 0 => noise' > 0
      OBVIOUS
    <2>3. noise' = noise + 1 => noise' > 0
      OBVIOUS
    <2>4. noise' > 0 => noise > 0 \/ noise' = noise + 1
      OBVIOUS
    <2> QED
      BY <2>1, <2>2, <2>3, <2>4 DEF EndsOK, NoiseOK
  <1>3. CloseOK'
    BY DEF EndsOK, CloseOK
  <1>4. OutcomeOK'
    BY DEF EndsOK, OutcomeOK
  <1> QED
    BY <1>1, <1>2, <1>3, <1>4 DEF EndsOK

(* What Put does to the frames of a queue.                                 *)
LEMMA HasPut ==
    ASSUME NEW q \in Seq(Frame), NEW t \in FrameTypes, NEW n \in Nat, NEW g \in BOOLEAN
    PROVE  /\ Put(q, g, F(t, n)) \in Seq(Frame)
           /\ \A u : Has(Put(q, g, F(t, n)), u) <=> Has(q, u) \/ u = (IF g THEN "noise" ELSE t)
           /\ Append(q, F("noise", 0)) \in Seq(Frame)
           /\ \A u : Has(Append(q, F("noise", 0)), u) <=> Has(q, u) \/ u = "noise"
  <1>1. F(t, n) \in Frame /\ F("noise", 0) \in Frame /\ F(t, n).type = t /\ F("noise", 0).type = "noise"
    BY FrameTyped DEF FrameTypes
  <1>2. \A f \in Frame : Append(q, f) \in Seq(Frame)
                         /\ \A u : Has(Append(q, f), u) <=> Has(q, u) \/ f.type = u
    BY HasAppend
  <1> QED
    BY <1>1, <1>2 DEF Put

LEMMA StepPythonEnds == TypeOK /\ EndsOK /\ Python => EndsOK'
  <1> SUFFICES ASSUME TypeOK, EndsOK, Python PROVE EndsOK'
    OBVIOUS
  <1>t. /\ toHost \in Seq(Frame) /\ printed \in Nat /\ printed + 1 \in Nat /\ noise \in Nat
        /\ stray \in BOOLEAN /\ buffered \in BOOLEAN /\ (stray /\ ~buffered) \in BOOLEAN
        /\ callId + 1 \in Nat
        /\ {"call", "out", "complete", "error", "noise"} = FrameTypes
    BY BoundsAssumption DEF BoundsAssumption, TypeOK, PyTypeOK, PipeTypeOK, FrameTypes
  <1>h. UNCHANGED <<completion, micro, closed, timer, result, stderrSeen>>
    BY PythonOnly DEF hostVars, waitVars, endVars
  <1>s. (stray => ~hungUp /\ prog \in {"running", "cleaning"})
        /\ (prog \in {"unspawned", "starting", "running"} => terminal = "none")
    BY DEF EndsOK, NoiseOK, TerminalOK
  <1>a. ASSUME NEW t \in FrameTypes, NEW n \in Nat, NEW g \in BOOLEAN
        PROVE  \A u : Has(Put(toHost, g, F(t, n)), u)
                      <=> Has(toHost, u) \/ u = (IF g THEN "noise" ELSE t)
    BY <1>t, HasPut
  <1>b. \A u : Has(Append(toHost, F("noise", 0)), u) <=> Has(toHost, u) \/ u = "noise"
    BY <1>t, HasPut
  <1>c. \A u : Has(Rest, u) <=> Has(toHost, u) \/ (stray /\ u = "noise")
    BY <1>b DEF Rest
  <1>d. ASSUME UNCHANGED <<terminal, noise, toHost, stray, hungUp>>, stderr => stderr',
               prog' = prog \/ (prog = "starting" /\ prog' = "running")
        PROVE  EndsOK'
    BY <1>t, <1>h, <1>s, <1>d, EndsGrow
  <1>1. CASE PyBoot \/ PyHandleResponse \/ PyReaderFails \/ PyPrintPart \/ PyStderr \/ PyCallUnsent
             \/ \E c \in Calls : PyResume(c) \/ PyExpire(c) \/ PyCancel(c)
    BY <1>1, <1>d DEF PyBoot, PyHandleResponse, PyReaderFails, PyPrintPart, PyStderr,
       PyCallUnsent, NewCall, PyResume, PyExpire, PyCancel, outVars
  <1>2. CASE PyCall \/ PyPrintLine \/ PyEndLine
    <2>1. /\ UNCHANGED <<terminal, noise, hungUp, stderr, prog>> /\ stray' = FALSE
          /\ prog \in {"running", "cleaning"} /\ ~hungUp
      BY <1>2 DEF PyCall, NewCall, PyPrintLine, PyEndLine, CanPrint
    <2>2. \E t \in {"call", "out"}, n \in Nat : toHost' = Put(toHost, stray, F(t, n))
      <3>1. callId' = callId + 1 \/ ~PyCall
        BY DEF PyCall, NewCall
      <3> QED
        BY <1>2, <1>t, <3>1 DEF PyCall, PyPrintLine, PyEndLine
    <2>r. PICK t \in {"call", "out"}, n \in Nat : toHost' = Put(toHost, stray, F(t, n))
      BY <2>2
    <2>q. \A u : Has(toHost', u) <=> Has(toHost, u) \/ u = (IF stray THEN "noise" ELSE t)
      BY <1>t, <1>a, <2>r
    <2>3. \A u : u \notin {"call", "out"} =>
              (Has(toHost', u) <=> Has(toHost, u) \/ (stray /\ u = "noise"))
      BY <2>q
    <2>4. \A u : Has(toHost, u) => Has(toHost', u)
      BY <2>q
    <2> QED
      BY <1>t, <1>h, <2>1, <2>3, <2>4, EndsGrow
  <1>3. CASE PyCallUnreadable
    <2>1. /\ UNCHANGED <<terminal, hungUp, stderr, prog>> /\ stray' = FALSE
          /\ prog \in {"running", "cleaning"} /\ ~hungUp /\ noise' = noise + 1
          /\ toHost' = Append(toHost, F("noise", 0))
      BY <1>3 DEF PyCallUnreadable, NewCall
    <2> QED
      BY <1>t, <1>h, <1>b, <2>1, EndsGrow
  <1>4. CASE PyNoise
    <2>1. /\ UNCHANGED <<terminal, hungUp, stderr, prog>>
          /\ prog \in {"running", "cleaning"} /\ ~hungUp /\ noise' = noise + 1
          /\ \/ toHost' = Append(toHost, F("noise", 0)) /\ stray' = FALSE
             \/ toHost' = toHost /\ stray' = TRUE
      BY <1>4 DEF PyNoise
    <2> QED
      BY <1>t, <1>h, <1>b, <2>1, EndsGrow
  <1>5. CASE PyCloseStdout
    <2>1. /\ UNCHANGED <<terminal, stderr, prog, noise>>
          /\ prog \in {"running", "cleaning"} /\ ~hungUp /\ hungUp' /\ stray' = FALSE
          /\ toHost' = Rest
      BY <1>5 DEF PyCloseStdout
    <2> QED
      BY <1>t, <1>h, <1>c, <2>1, EndsGrow
  <1>6. CASE PyDie \/ PyExit \/ \E x \in {"TERM", "KILL"} : PySignalled(x)
    <2>1. /\ UNCHANGED <<terminal, stderr, hungUp>> /\ stray' = FALSE
          /\ prog \notin {"unspawned", "dead"} /\ prog' = "dead"
      BY <1>6 DEF PyDie, PyExit, PySignalled, Dies, Alive
    <2>2. CASE toHost' = Rest /\ noise' = noise
      <3>1. hungUp => toHost' = toHost
        BY <1>s, <2>2 DEF Rest
      <3> QED
        BY <1>t, <1>h, <1>c, <2>1, <2>2, <3>1, EndsGrow
    <2>3. CASE toHost' = Append(toHost, F("noise", 0)) /\ noise' = noise + 1 /\ ~hungUp
      BY <1>t, <1>h, <1>b, <2>1, <2>3, EndsGrow
    <2> QED
      BY <1>6, <2>2, <2>3 DEF PyDie, PyExit, PySignalled
  <1>7. CASE PyReturn("complete") \/ PyReturn("error") \/ PyReturnUnreadable
    <2>1. /\ Flushed \in Seq(Frame)
          /\ \A u : Has(toHost, u) => Has(Flushed, u)
          /\ \A u : u \notin {"out", "noise"} /\ Has(Flushed, u) => Has(toHost, u)
          /\ Has(Flushed, "noise") => Has(toHost, "noise") \/ stray
          /\ stray /\ buffered => Has(Flushed, "noise")
      <3>1. CASE buffered
        BY <1>t, <1>a, <3>1, HasPut DEF Flushed
      <3>2. CASE ~buffered
        BY <1>t, <3>2 DEF Flushed
      <3> QED
        BY <3>1, <3>2, <1>t
    <2>2. /\ prog = "running" /\ prog' = "cleaning" /\ terminal = "none"
          /\ UNCHANGED <<stderr, hungUp>> /\ ~hungUp /\ stray' = FALSE
          /\ terminal' \in {"complete", "error"}
      BY <1>7, <1>s DEF PyReturn, PyReturnUnreadable, Over
    <2>3. \A t \in FrameTypes, g \in BOOLEAN :
              /\ \A u : Has(Put(Flushed, g, F(t, 0)), u)
                        <=> Has(Flushed, u) \/ u = (IF g THEN "noise" ELSE t)
              /\ \A u : Has(Append(Flushed, F("noise", 0)), u) <=> Has(Flushed, u) \/ u = "noise"
      BY <2>1, HasPut
    <2>4. CASE PyReturn("complete") \/ PyReturn("error")
      <3>1. noise' = noise /\ toHost' = Put(Flushed, stray /\ ~buffered, F(terminal', 0))
        BY <2>4 DEF PyReturn
      <3>2. \A u : Has(toHost', u) <=> \/ Has(Flushed, u)
                                       \/ u = (IF stray /\ ~buffered THEN "noise" ELSE terminal')
        BY <1>t, <2>2, <2>3, <3>1
      <3>3. noise = 0 => ~stray
        BY DEF EndsOK, NoiseOK
      <3> HIDE DEF Flushed
      <3>4. \A u : Has(toHost, u) => Has(toHost', u)
        BY <2>1, <3>2
      <3>5. noise' = 0 => Has(toHost', terminal')
        BY <3>1, <3>2, <3>3
      <3>6. \A t \in {"complete", "error"} : Has(toHost', t) => Has(toHost, t) \/ terminal' = t
        BY <2>1, <3>2
      <3>7. /\ Has(toHost', "noise") => stray \/ Has(toHost, "noise")
            /\ stray => Has(toHost', "noise")
        BY <2>1, <2>2, <3>2
      <3> QED
        BY <1>t, <1>h, <2>2, <3>1, <3>4, <3>5, <3>6, <3>7, EndsGrow
    <2>5. CASE PyReturnUnreadable
      <3>1. noise' = noise + 1 /\ toHost' = Append(Flushed, F("noise", 0))
        BY <2>5 DEF PyReturnUnreadable
      <3>2. \A u : Has(toHost', u) <=> Has(Flushed, u) \/ u = "noise"
        BY <1>t, <2>3, <3>1
      <3>3. \A u : Has(toHost, u) => Has(toHost', u)
        BY <2>1, <3>2
      <3>4. \A t \in {"complete", "error"} : Has(toHost', t) => Has(toHost, t)
        BY <2>1, <3>2
      <3>5. noise' # 0
        BY <1>t, <3>1
      <3> QED
        BY <1>t, <1>h, <2>2, <3>1, <3>2, <3>3, <3>4, <3>5, EndsGrow
    <2> QED
      BY <1>7, <2>4, <2>5
  <1>8. CASE PyRaise
    <2>1. /\ prog = "running" /\ prog' = "cleaning" /\ terminal = "none" /\ terminal' = "error"
          /\ UNCHANGED <<stderr, hungUp, noise>> /\ ~hungUp /\ stray' = FALSE
          /\ toHost' = Put(toHost, stray, F("error", 0))
      BY <1>8, <1>s DEF PyRaise, Over
    <2>2. \A u : Has(toHost', u) <=> Has(toHost, u) \/ u = (IF stray THEN "noise" ELSE "error")
      BY <1>t, <1>a, <2>1
    <2>3. noise = 0 => ~stray
      BY DEF EndsOK, NoiseOK
    <2>4. noise' = 0 => Has(toHost', terminal')
      BY <2>1, <2>2, <2>3
    <2> QED
      BY <1>t, <1>h, <2>1, <2>2, <2>4, EndsGrow
  <1>9. CASE PyLeave
    <2>1. /\ prog = "running" /\ prog' = "cleaning" /\ hungUp
          /\ UNCHANGED <<terminal, stderr, hungUp, noise, stray, toHost>>
      BY <1>9 DEF PyLeave, Over
    <2> QED
      BY <1>t, <1>h, <1>s, <2>1, EndsGrow
  <1> QED
    BY <1>1, <1>2, <1>3, <1>4, <1>5, <1>6, <1>7, <1>8, <1>9 DEF Python

(* The host's: most do one thing to the pipe, the microtasks and the       *)
(* outcome.                                                                *)
ownVars == <<prog, terminal, noise, stray, hungUp, stderr>>

LEMMA TerminalKept ==
    ASSUME TerminalOK, UNCHANGED <<terminal, noise>>,
           Has(toHost', "complete") => Has(toHost, "complete"),
           Has(toHost', "error") => Has(toHost, "error"),
           completion' = "pending" =>
               completion = "pending" /\ (Has(toHost, terminal) => Has(toHost', terminal)),
           completion' = "resolved" => completion = "resolved",
           prog' = prog \/ prog' = "dead"
    PROVE  TerminalOK'
  BY DEF TerminalOK

LEMMA NoiseKept ==
    ASSUME NoiseOK, UNCHANGED <<noise, stray, hungUp, micro>>,
           Has(toHost', "noise") <=> Has(toHost, "noise"),
           completion' = "pending" => completion = "pending",
           prog' = prog \/ (prog' = "dead" /\ prog = "unspawned")
    PROVE  NoiseOK'
  BY DEF NoiseOK, Queued

LEMMA CloseKept ==
    ASSUME CloseOK, UNCHANGED <<micro, closed, hungUp, toHost>>,
           prog = "dead" => prog' = "dead"
    PROVE  CloseOK'
  BY DEF CloseOK

LEMMA SettleKeeps ==
    ASSUME NEW o \in Completions, o # "pending", Settle(o), OutcomeOK, TypeOK
    PROVE  /\ completion' # "pending" /\ timer' # "armed"
           /\ completion' = IF completion = "pending" THEN o ELSE completion
  BY DEF Settle, OutcomeOK, TypeOK, WaitTypeOK

(* The execution settles or does not, with nothing taken from the pipe.    *)
LEMMA EndsSettled ==
    ASSUME EndsOK, TypeOK,
           UNCHANGED <<terminal, noise, stray, hungUp, toHost, stderr, result, micro, closed>>,
           stderrSeen' => stderr,
           prog' = prog \/ (prog' = "dead" /\ prog = "unspawned"),
           \/ \E o \in Completions \ {"pending", "resolved"} : Settle(o)
           \/ completion' = completion /\ (completion # "pending" => timer' # "armed")
    PROVE  EndsOK'
  <1>1. /\ \/ completion' = completion
           \/ completion = "pending" /\ completion' \notin {"pending", "resolved"}
        /\ completion' # "pending" => timer' # "armed"
        /\ completion' = "resolved" => completion = "resolved"
        /\ completion' = "pending" => completion = "pending"
    BY SettleKeeps DEF EndsOK, OutcomeOK
  <1>2. TerminalOK'
    BY <1>1, TerminalKept DEF EndsOK
  <1>3. NoiseOK'
    BY <1>1, NoiseKept DEF EndsOK
  <1>4. CloseOK'
    BY CloseKept DEF EndsOK
  <1>5. OutcomeOK'
    BY <1>1 DEF EndsOK, OutcomeOK
  <1> QED
    BY <1>2, <1>3, <1>4, <1>5 DEF EndsOK

LEMMA StepEnds == TypeOK /\ EndsOK /\ [Next]_vars => EndsOK'
  <1> SUFFICES ASSUME TypeOK, EndsOK, [Next]_vars PROVE EndsOK'
    OBVIOUS
  <1>t. /\ toHost \in Seq(Frame) /\ micro \in Seq({"protocol", "close"})
        /\ terminal \in {"none", "complete", "error"} /\ noise \in Nat
    BY BoundsAssumption DEF BoundsAssumption, TypeOK, PyTypeOK, PipeTypeOK, WaitTypeOK
  <1>u. (stderrSeen => stderr) /\ (completion # "pending" => timer # "armed")
    BY DEF EndsOK, OutcomeOK
  <1>1. CASE Python
    BY <1>1, StepPythonEnds
  <1>3. CASE StderrData \/ HandleExit \/ Escalate \/ UNCHANGED vars
             \/ \E c \in Calls, o \in ToolOutcomes : ToolReturns(c, o)
    BY <1>3, <1>u, EndsSettled DEF StderrData, HandleExit, Escalate, ToolReturns, vars, pyVars,
       waitVars, endVars
  <1>9. CASE HandleSpawnError \/ Abort
    BY <1>9, <1>u, EndsSettled DEF HandleSpawnError, Abort, outVars, pyVars, endVars, Completions
  <1>10. CASE TimerFires
    BY <1>10, <1>u, EndsSettled DEF TimerFires, pyVars, endVars
  <1>11. CASE HandleClose
    <2>1. /\ prog = "dead" \/ hungUp
          /\ toHost = <<>> /\ ~closed /\ closed'
          /\ UNCHANGED ownVars
          /\ UNCHANGED <<toHost, completion, timer, result, stderrSeen>>
          /\ micro' \in {micro, Append(micro, "close")}
      BY <1>11 DEF HandleClose, pyVars, waitVars, ownVars
    <2>2. /\ DOMAIN Append(micro, "close") = DOMAIN micro \union {Len(micro) + 1}
          /\ \A i \in DOMAIN micro : Append(micro, "close")[i] = micro[i]
          /\ Append(micro, "close")[Len(micro) + 1] = "close"
          /\ Len(Append(micro, "close")) = Len(micro) + 1
      BY <1>t
    <2>3. TerminalOK'
      BY <2>1, TerminalKept DEF EndsOK, ownVars
    <2>4. NoiseOK'
      <3>1. Queued("protocol")' <=> Queued("protocol")
        BY <2>1, <2>2 DEF Queued
      <3> QED
        BY <2>1, <3>1 DEF EndsOK, NoiseOK, ownVars
    <2>5. CloseOK'
      BY <2>1, <2>2 DEF EndsOK, CloseOK, ownVars
    <2>6. OutcomeOK'
      BY <2>1 DEF EndsOK, OutcomeOK, ownVars
    <2> QED
      BY <2>3, <2>4, <2>5, <2>6 DEF EndsOK
  <1>12. CASE RunMicrotask
    <2> DEFINE o == IF Head(micro) = "close" THEN UnexpectedClose ELSE Head(micro)
    <2>1. /\ micro # <<>> /\ micro' = Tail(micro)
          /\ UNCHANGED ownVars /\ UNCHANGED <<toHost, closed, result, stderrSeen>>
          /\ Settle(o)
      BY <1>12 DEF RunMicrotask, pyVars, endVars, ownVars
    <2>2. o \in Completions \ {"pending", "resolved"}
      BY <1>t, <2>1 DEF UnexpectedClose, Completions
    <2>3. /\ completion' # "pending" /\ timer' # "armed"
          /\ completion' = "resolved" <=> completion = "resolved"
      BY <2>1, <2>2, SettleKeeps DEF EndsOK
    <2>4. /\ \A i \in DOMAIN micro' : i + 1 \in DOMAIN micro /\ micro'[i] = micro[i + 1]
          /\ Len(micro') = Len(micro) - 1 /\ DOMAIN micro' \subseteq Nat /\ Len(micro) \in Nat
      BY <1>t, <2>1
    <2>5. TerminalOK'
      BY <2>1, <2>3, TerminalKept DEF EndsOK, ownVars
    <2>6. NoiseOK'
      BY <2>1, <2>3, <2>4 DEF EndsOK, NoiseOK, Queued, ownVars
    <2>7. CloseOK'
      <3>1. ASSUME NEW i \in DOMAIN micro', micro'[i] = "close"
            PROVE  closed' /\ i = Len(micro')
        <4>1. closed /\ i + 1 = Len(micro)
          BY <2>4, <3>1 DEF EndsOK, CloseOK
        <4> QED
          BY <2>1, <2>4, <4>1
      <3> QED
        BY <2>1, <3>1 DEF EndsOK, CloseOK, ownVars
    <2>8. OutcomeOK'
      BY <2>1, <2>3 DEF EndsOK, OutcomeOK, ownVars
    <2> QED
      BY <2>5, <2>6, <2>7, <2>8 DEF EndsOK
  <1>13. CASE HandleLine
    <2>1. /\ toHost # <<>> /\ toHost' = Tail(toHost)
          /\ UNCHANGED ownVars /\ UNCHANGED <<closed, stderrSeen>>
      BY <1>13 DEF HandleLine, HandleToolCall, HandleStdout, HandleComplete, HandleError,
         HandleBadLine, Line, pyVars, endVars, ownVars
    <2>2. \A u : Has(toHost, u) <=> Has(toHost', u) \/ Head(toHost).type = u
      BY <1>t, <2>1, HasTail
    <2>3. ~closed
      BY <2>1 DEF EndsOK, CloseOK
    <2>4. CASE HandleToolCall \/ HandleStdout
      <3>1. /\ Head(toHost).type \in {"call", "out"}
            /\ UNCHANGED <<completion, micro, timer, result>>
        BY <2>4 DEF HandleToolCall, HandleStdout, Line, waitVars
      <3>2. TerminalOK'
        BY <1>t, <2>1, <2>2, <3>1, TerminalKept DEF EndsOK, ownVars
      <3>3. NoiseOK'
        BY <2>1, <2>2, <3>1, NoiseKept DEF EndsOK, ownVars
      <3>4. CloseOK'
        BY <2>1, <2>3, <3>1 DEF EndsOK, CloseOK
      <3>5. OutcomeOK'
        BY <2>1, <3>1 DEF EndsOK, OutcomeOK, ownVars
      <3> QED
        BY <3>2, <3>3, <3>4, <3>5 DEF EndsOK
    <2>5. CASE HandleComplete \/ HandleError
      <3>1. /\ Head(toHost).type \in {"complete", "error"} /\ UNCHANGED micro
            /\ \E o \in {"resolved", "python"} : Settle(o)
            /\ result' = result \/ completion' = "resolved"
            /\ completion' = "resolved" =>
                  completion = "resolved" \/ Head(toHost).type = "complete"
        BY <2>5 DEF HandleComplete, HandleError, Line, Settle
      <3>2. /\ completion' # "pending" /\ timer' # "armed"
            /\ completion' = completion \/ completion = "pending"
        BY <3>1, SettleKeeps DEF EndsOK, Completions, Settle
      <3>3. TerminalOK'
        BY <2>1, <2>2, <3>1, <3>2 DEF EndsOK, TerminalOK, ownVars
      <3>4. NoiseOK'
        BY <2>1, <2>2, <3>1, <3>2, NoiseKept DEF EndsOK, ownVars
      <3>5. CloseOK'
        BY <2>1, <2>3, <3>1 DEF EndsOK, CloseOK
      <3>6. OutcomeOK'
        BY <2>1, <3>1, <3>2 DEF EndsOK, OutcomeOK, ownVars
      <3> QED
        BY <3>3, <3>4, <3>5, <3>6 DEF EndsOK
    <2>6. CASE HandleBadLine
      <3>1. /\ Head(toHost).type = "noise" /\ micro' = Append(micro, "protocol")
            /\ UNCHANGED <<completion, timer, result>>
        BY <2>6 DEF HandleBadLine, Line, waitVars
      <3>2. /\ DOMAIN micro' = DOMAIN micro \union {Len(micro) + 1}
            /\ \A i \in DOMAIN micro : micro'[i] = micro[i]
            /\ micro'[Len(micro) + 1] = "protocol"
        BY <1>t, <3>1
      <3>3. Queued("protocol")'
        BY <3>2 DEF Queued
      <3>4. TerminalOK'
        BY <1>t, <2>1, <2>2, <3>1, TerminalKept DEF EndsOK, ownVars
      <3>5. NoiseOK'
        BY <2>1, <2>2, <3>1, <3>3 DEF EndsOK, NoiseOK, ownVars
      <3>6. CloseOK'
        BY <2>1, <2>3, <3>2 DEF EndsOK, CloseOK
      <3>7. OutcomeOK'
        BY <2>1, <3>1 DEF EndsOK, OutcomeOK, ownVars
      <3> QED
        BY <3>4, <3>5, <3>6, <3>7 DEF EndsOK
    <2> QED
      BY <1>13, <2>4, <2>5, <2>6 DEF HandleLine
  <1> QED
    BY <1>1, <1>3, <1>9, <1>10, <1>11, <1>12, <1>13 DEF Next, Host

LEMMA OutcomeInvariant == Spec => []OutcomeInv
  <1>1. Init => OutcomeInv
    <2> SUFFICES ASSUME Init PROVE OutcomeInv
      OBVIOUS
    <2>1. Texts
      BY DEF Init, Texts, TextsOK, TextsUp, Upcoming, Has
    <2>2. EndsOK
      BY DEF Init, EndsOK, TerminalOK, NoiseOK, CloseOK, OutcomeOK, Has, Queued
    <2> QED
      BY <2>1, <2>2, InitType DEF OutcomeInv
  <1>2. OutcomeInv /\ [Next]_vars => OutcomeInv'
    BY StepType, StepTexts, StepEnds DEF OutcomeInv, EndsOK
  <1> QED
    BY <1>1, <1>2, PTL DEF Spec

-----------------------------------------------------------------------------
(* The refinement: a step of the bridge is a step of Execution or none.    *)

LEMMA InitMaps == Init => Abstract!Init
  BY DEF Init, Abstract!Init, Life, Wrote, Outcome, Given

LEMMA Stutters ==
    ASSUME UNCHANGED <<printed, noise, stderr, completion, timer, result>>, Life' = Life
    PROVE  UNCHANGED Abstract!vars
  BY DEF Abstract!vars, Wrote, Outcome, Given

(* What a resolved outcome may carry.                                      *)
Tells(texts) == texts = Wrote \/ (noise > 0 /\ Abstract!Excerpt(texts, Wrote))

LEMMA SettleMaps ==
    ASSUME TypeOK, OutcomeOK, NEW o \in Completions, o # "pending", Settle(o),
           UNCHANGED <<printed, noise, stderr>>, Life' = Life,
           completion = "pending" /\ timer # "fired" => Abstract!Justified(o),
           result' = result \/ (completion = "pending" /\ o = "resolved"),
           completion = "pending" /\ o = "resolved" => Tells(result'.output)
    PROVE  Abstract!Settle(o) \/ UNCHANGED Abstract!vars
  <1>1. Wrote' = Wrote
    BY DEF Wrote
  <1>2. CASE timer = "fired" \/ completion # "pending"
    <2>1. Outcome' = Outcome /\ Given' = Given
      BY <1>2 DEF Settle, Outcome, Given, OutcomeOK
    <2> QED
      BY <1>1, <2>1 DEF Abstract!vars
  <1>3. CASE timer # "fired" /\ completion = "pending"
    <2>1. /\ Outcome = "pending" /\ Outcome' = o
          /\ Given' = IF o = "resolved" THEN result'.output ELSE Given
      BY <1>3 DEF Settle, Outcome, Given
    <2>4. o = "resolved" => Tells(Given')
      BY <1>3, <2>1
    <2>2. Abstract!Justified(o)
      BY <1>3
    <2> QED
      BY <1>1, <2>1, <2>2, <2>4 DEF Abstract!Settle, Tells
  <1> QED
    BY <1>2, <1>3

LEMMA StepMaps == OutcomeInv /\ [Next]_vars => [Abstract!Next]_(Abstract!vars)
  <1> SUFFICES ASSUME OutcomeInv, [Next]_vars
               PROVE  Abstract!Next \/ UNCHANGED Abstract!vars
    OBVIOUS
  <1> USE DEF OutcomeInv, EndsOK
  <1>t. /\ printed \in Nat /\ noise \in Nat /\ toHost \in Seq(Frame)
        /\ micro \in Seq({"protocol", "close"})
        /\ terminal \in {"none", "complete", "error"}
        /\ prog \in {"unspawned", "starting", "running", "cleaning", "dead"}
    BY BoundsAssumption DEF BoundsAssumption, TypeOK, PyTypeOK, PipeTypeOK, WaitTypeOK
  <1>u. prog = "running" => terminal = "none"
    BY DEF TerminalOK
  <1>h. Python => UNCHANGED <<completion, timer, result>>
    BY PythonOnly DEF hostVars, waitVars
  <1>1. CASE PyBoot \/ PyCall \/ PyCallUnsent \/ PyHandleResponse \/ PyReaderFails \/ PyEndLine
             \/ PyLeave \/ \E c \in Calls : PyResume(c) \/ PyExpire(c) \/ PyCancel(c)
    <2>1. /\ UNCHANGED <<printed, noise, stderr, completion, timer, result, terminal, hungUp>>
          /\ \/ prog' = prog
             \/ prog = "starting" /\ prog' = "running"
             \/ prog = "running" /\ prog' = "cleaning"
      BY <1>1, <1>h DEF Python, PyBoot, PyCall, PyCallUnsent, NewCall, PyHandleResponse,
         PyReaderFails, PyEndLine, PyLeave, Over, PyResume, PyExpire, PyCancel, outVars
    <2> QED
      BY <2>1, Stutters DEF Life
  <1>2. CASE HandleToolCall \/ HandleStdout \/ HandleBadLine \/ HandleClose \/ StderrData
             \/ HandleExit \/ Escalate \/ UNCHANGED vars
             \/ \E c \in Calls, o \in ToolOutcomes : ToolReturns(c, o)
    <2>1. UNCHANGED <<printed, noise, stderr, completion, timer, result, terminal, prog, hungUp>>
      BY <1>2 DEF HandleToolCall, HandleStdout, HandleBadLine, HandleClose, StderrData,
         HandleExit, Escalate, ToolReturns, vars, pyVars, waitVars
    <2> QED
      BY <2>1, Stutters DEF Life
  <1>3. CASE PyPrintLine \/ PyPrintPart
    <2>1. /\ UNCHANGED <<noise, stderr, completion, timer, result, terminal, prog, hungUp>>
          /\ printed' = printed + 1 /\ Life = "live"
      BY <1>3, <1>u, <1>h DEF Python, PyPrintLine, PyPrintPart, CanPrint, outVars, Life
    <2>2. Wrote' = Append(Wrote, Len(Wrote) + 1)
      BY <1>t, <2>1 DEF Wrote
    <2>3. Abstract!Write
      BY <2>1, <2>2 DEF Abstract!Write, Life, Outcome, Given
    <2> QED
      BY <2>3 DEF Abstract!Next
  <1>4. CASE PyNoise \/ PyCallUnreadable
    <2>1. /\ UNCHANGED <<printed, stderr, completion, timer, result, terminal, prog, hungUp>>
          /\ noise' > 0
      BY <1>4, <1>t, <1>h DEF Python, PyNoise, PyCallUnreadable, NewCall
    <2>2. Abstract!Mutter
      BY <2>1 DEF Abstract!Mutter, Life, Wrote, Outcome, Given
    <2> QED
      BY <2>2 DEF Abstract!Next
  <1>5. CASE PyStderr
    <2>1. /\ UNCHANGED <<printed, noise, completion, timer, result, terminal, prog, hungUp>>
          /\ stderr' = TRUE
      BY <1>5, <1>h DEF Python, PyStderr
    <2>2. Abstract!Complain
      BY <2>1 DEF Abstract!Complain, Life, Wrote, Outcome, Given
    <2> QED
      BY <2>2 DEF Abstract!Next
  <1>6. CASE PyReturn("complete") \/ PyReturn("error") \/ PyReturnUnreadable \/ PyRaise
    <2> DEFINE e == IF terminal' = "complete" THEN "ok" ELSE "failed"
    <2>1. /\ UNCHANGED <<printed, stderr, completion, timer, result>>
          /\ Life = "live" /\ Life' = e
          /\ noise' = noise \/ (noise' > 0 /\ e = "ok")
      BY <1>6, <1>t, <1>u, <1>h DEF Python, PyReturn, PyReturnUnreadable, PyRaise, Over, Life
    <2>2. (noise' > 0) \in {noise > 0, noise > 0 \/ e # "failed"}
      <3>1. CASE noise' = noise
        BY <3>1
      <3>2. CASE (noise' > 0) = TRUE /\ e # "failed"
        BY <3>2, Zenon
      <3> QED
        BY <2>1, <3>1, <3>2
    <2>3. Abstract!End(e)
      BY <2>1, <2>2 DEF Abstract!End, Wrote, Outcome, Given
    <2> QED
      BY <2>3 DEF Abstract!Next, Abstract!Endings
  <1>7. CASE PyDie \/ PyExit \/ PyCloseStdout \/ \E x \in {"TERM", "KILL"} : PySignalled(x)
    <2>1. /\ UNCHANGED <<printed, stderr, completion, timer, result, terminal>>
          /\ prog' = "dead" \/ hungUp'
          /\ hungUp => hungUp' = hungUp
          /\ prog \notin {"unspawned", "dead"}
      BY <1>7, <1>h DEF Python, PyDie, PyExit, PyCloseStdout, PySignalled, Dies, Alive
    <2>r. noise' \in {noise, noise + 1}
      BY <1>7 DEF PyDie, PyExit, PyCloseStdout, PySignalled
    <2>2. (noise' > 0) = (noise > 0) \/ (noise' > 0) = TRUE
      BY <1>t, <2>r
    <2>3. CASE terminal = "none" /\ ~hungUp
      <3>1. Life = "live" /\ Life' = "gone"
        BY <2>1, <2>3 DEF Life
      <3>2. (noise' > 0) \in {noise > 0, noise > 0 \/ "gone" # "failed"}
        BY <2>2, Zenon
      <3>3. Abstract!End("gone")
        BY <2>1, <3>1, <3>2 DEF Abstract!End, Wrote, Outcome, Given
      <3> QED
        BY <3>3 DEF Abstract!Next, Abstract!Endings
    <2>4. CASE terminal # "none" \/ hungUp
      <3>1. Life' = Life
        BY <1>t, <2>1, <2>4 DEF Life
      <3>2. CASE noise' = noise
        BY <2>1, <3>1, <3>2, Stutters
      <3>3. CASE noise' = noise + 1
        <4>1. Abstract!Mutter
          BY <1>t, <2>1, <3>1, <3>3 DEF Abstract!Mutter, Wrote, Outcome, Given
        <4> QED
          BY <4>1 DEF Abstract!Next
      <3> QED
        BY <2>r, <3>2, <3>3
    <2> QED
      BY <2>3, <2>4
  <1>8. ASSUME NEW o \in Completions \ {"pending"}, Settle(o),
               UNCHANGED <<printed, noise, stderr, terminal>>, Life' = Life,
               completion = "pending" /\ timer # "fired" => Abstract!Justified(o),
               result' = result \/ (completion = "pending" /\ o = "resolved"),
               completion = "pending" /\ o = "resolved" => Tells(result'.output)
        PROVE  Abstract!Next \/ UNCHANGED Abstract!vars
    <2>1. Abstract!Settle(o) \/ UNCHANGED Abstract!vars
      BY <1>8, SettleMaps
    <2> QED
      BY <2>1 DEF Abstract!Next, Abstract!Outcomes, Completions
  <1>9. CASE HandleComplete
    <2>1. /\ toHost # <<>> /\ Head(toHost).type = "complete" /\ Settle("resolved")
          /\ UNCHANGED <<printed, noise, stderr, terminal, prog, hungUp>>
          /\ result' = IF completion = "pending" THEN [output |-> stdout, counts |-> counts]
                       ELSE result
      BY <1>9 DEF HandleComplete, Line, pyVars
    <2>2. Tells(stdout)
      <3>1. CASE noise = 0
        BY <1>t, <2>1, <3>1, TextsAll DEF Texts, Tells, Wrote, TypeOK, PyTypeOK
      <3>2. CASE noise > 0
        <4>1. /\ stdout \in Seq(Nat)
              /\ \A i \in DOMAIN stdout : 0 < stdout[i] /\ stdout[i] < Upcoming
              /\ \A i, j \in DOMAIN stdout : i < j => stdout[i] < stdout[j]
          BY DEF Texts, TextsUp
        <4>2. Upcoming <= printed + 1 /\ Upcoming \in Nat
          BY <1>t DEF Upcoming
        <4>3. \A i \in DOMAIN stdout : stdout[i] \in 1..printed
          BY <1>t, <4>1, <4>2
        <4>4. stdout \in Seq(1..printed) /\ Len(Wrote) = printed
          BY <1>t, <4>1, <4>3 DEF Wrote
        <4>5. Abstract!Excerpt(stdout, Wrote)
          BY <4>1, <4>4 DEF Abstract!Excerpt
        <4> QED
          BY <3>2, <4>5 DEF Tells
      <3> QED
        BY <1>t, <3>1, <3>2
    <2>3. Life = "ok"
      <3>1. Has(toHost, "complete")
        BY <1>t, <2>1, HasTail
      <3> QED
        BY <3>1 DEF TerminalOK, Life
    <2> QED
      BY <1>8, <2>1, <2>2, <2>3 DEF Completions, Abstract!Justified, Life
  <1>10. CASE HandleError
    <2>1. /\ toHost # <<>> /\ Head(toHost).type = "error" /\ Settle("python")
          /\ UNCHANGED <<printed, noise, stderr, terminal, prog, hungUp, result>>
      BY <1>10 DEF HandleError, Line, pyVars
    <2>2. Life = "failed"
      <3>1. Has(toHost, "error")
        BY <1>t, <2>1, HasTail
      <3> QED
        BY <3>1 DEF TerminalOK, Life
    <2> QED
      BY <1>8, <2>1, <2>2 DEF Completions, Abstract!Justified, Life
  <1>11. CASE RunMicrotask
    <2>1. /\ micro # <<>> /\ UNCHANGED <<printed, noise, stderr, terminal, prog, hungUp, result>>
          /\ Settle(IF Head(micro) = "close" THEN UnexpectedClose ELSE Head(micro))
          /\ 1 \in DOMAIN micro /\ Head(micro) = micro[1] /\ micro[1] \in {"protocol", "close"}
      BY <1>t, <1>11 DEF RunMicrotask, pyVars
    <2>2. CASE micro[1] = "protocol"
      <3>1. Queued("protocol") /\ noise > 0
        BY <2>1, <2>2 DEF Queued, NoiseOK
      <3> QED
        BY <1>8, <2>1, <2>2, <3>1 DEF Completions, Abstract!Justified, Life
    <2>3. CASE micro[1] = "close"
      <3>1. (prog = "dead" \/ hungUp) /\ toHost = <<>> /\ Len(micro) = 1
        BY <2>1, <2>3 DEF CloseOK
      <3>2. \A u : ~Has(toHost, u)
        BY <3>1 DEF Has
      <3>3. ~Queued("protocol")
        BY <1>t, <2>3, <3>1 DEF Queued
      <3>0. completion = "pending" => noise = 0
        BY <1>t, <3>1, <3>2, <3>3 DEF NoiseOK
      <3>4. completion = "pending" => Life = "gone" /\ ~(noise > 0)
        BY <1>t, <3>0, <3>1, <3>2 DEF TerminalOK, Life
      <3>5. stderrSeen => stderr
        BY DEF OutcomeOK
      <3>6. CASE stderrSeen
        BY <1>8, <2>1, <2>3, <3>4, <3>5, <3>6 DEF Completions, Abstract!Justified, Life,
           UnexpectedClose
      <3>7. CASE ~stderrSeen
        BY <1>8, <2>1, <2>3, <3>4, <3>7 DEF Completions, Abstract!Justified, Life,
           UnexpectedClose
      <3> QED
        BY <3>6, <3>7
    <2> QED
      BY <2>1, <2>2, <2>3
  <1>12. CASE HandleSpawnError
    <2>1. /\ UNCHANGED <<printed, noise, stderr, terminal, result>>
          /\ prog = "unspawned" /\ prog' = "dead" /\ Settle("transport")
      BY <1>12 DEF HandleSpawnError, outVars
    <2>2. terminal = "none" /\ noise = 0
      BY <2>1 DEF TerminalOK, NoiseOK
    <2>3. Life = "gone" /\ Life' = "gone" /\ ~(noise > 0)
      BY <2>1, <2>2 DEF Life
    <2> QED
      BY <1>8, <2>1, <2>3 DEF Completions, Abstract!Justified
  <1>13. CASE Abort
    <2>1. /\ UNCHANGED <<printed, noise, stderr, terminal, prog, hungUp, result>> /\ Settle("abort")
      BY <1>13 DEF Abort, pyVars
    <2> QED
      BY <1>8, <2>1 DEF Completions, Abstract!Justified, Life
  <1>14. CASE TimerFires
    <2>1. /\ UNCHANGED <<printed, noise, stderr, terminal, prog, hungUp, completion, result>>
          /\ timer = "armed" /\ timer' = "fired"
      BY <1>14 DEF TimerFires, pyVars
    <2>2. completion = "pending" /\ result.output = <<>>
      BY <2>1 DEF OutcomeOK
    <2>3. Abstract!Settle("timeout")
      BY <2>1, <2>2 DEF Abstract!Settle, Abstract!Justified, Life, Wrote, Outcome, Given
    <2> QED
      BY <2>3 DEF Abstract!Next, Abstract!Outcomes
  <1> QED
    BY <1>1, <1>2, <1>3, <1>4, <1>5, <1>6, <1>7, <1>9, <1>10, <1>11, <1>12, <1>13, <1>14
    DEF Next, Python, Host, HandleLine

(* The bridge implements Execution, for every bound: one outcome, never    *)
(* changed, that tells the truth about the program; a resolved one carries *)
(* every text printed, in order, or some of them if stray output swallowed *)
(* lines (CodeExecutor.execute, RpcProtocol).                              *)
THEOREM ImplementsExecutionHolds == Spec => ImplementsExecution
  <1> QED
    BY InitMaps, StepMaps, OutcomeInvariant, PTL DEF Spec, ImplementsExecution, Abstract!Spec

-----------------------------------------------------------------------------
(* The report.  The inductive invariant says what the three counters       *)
(* count; the report is the counters at the complete frame, and the        *)
(* program that wrote that frame takes no answer any more.                 *)

(* Of r, the run of each call, the calls whose run is in K.                *)
RunsIn(r, K) == {c \in Calls : r[c] \in K}

CountsOK ==
    /\ Cardinality(RunsIn(run, {"running"} \union ToolOutcomes)) = counts.calls
    /\ Cardinality(RunsIn(run, ToolOutcomes \ {"error"})) = counts.results
    /\ Cardinality(RunsIn(run, {"error", "unserialisable"})) = counts.errors

ReportInv == CountsOK /\ ReportCoversAnswers

LEMMA CallsFinite == ASSUME NEW S \in SUBSET Calls PROVE IsFiniteSet(S) /\ Cardinality(S) \in Nat
  <1>1. IsFiniteSet(Calls)
    BY BoundsAssumption, FS_Interval DEF BoundsAssumption, Calls
  <1>2. IsFiniteSet(S)
    BY <1>1, FS_Subset
  <1> QED
    BY <1>2, FS_CardinalityType

(* A run that enters K is counted once more, one that was in K and stays,  *)
(* or was not and does not enter, changes nothing.                         *)
LEMMA RunsCounted ==
    ASSUME NEW r \in [Calls -> {"none", "running"} \union ToolOutcomes],
           NEW c \in Calls, NEW v, NEW K, r[c] \in K => v \in K
    PROVE  Cardinality(RunsIn([r EXCEPT ![c] = v], K)) =
               IF r[c] \notin K /\ v \in K THEN Cardinality(RunsIn(r, K)) + 1
               ELSE Cardinality(RunsIn(r, K))
  <1> DEFINE q == [r EXCEPT ![c] = v]
  <1>1. q[c] = v /\ \A d \in Calls : d # c => q[d] = r[d]
    OBVIOUS
  <1>2. CASE v \in K
    <2>1. RunsIn(q, K) = RunsIn(r, K) \union {c}
      BY <1>1, <1>2 DEF RunsIn
    <2>2. IsFiniteSet(RunsIn(r, K)) /\ (c \in RunsIn(r, K) <=> r[c] \in K)
      BY CallsFinite DEF RunsIn
    <2> QED
      BY <1>2, <2>1, <2>2, FS_AddElement
  <1>3. CASE v \notin K
    BY <1>1, <1>3 DEF RunsIn
  <1> QED
    BY <1>2, <1>3

(* What the program has been given is counted.                             *)
LEMMA Covered ==
    ASSUME CallInv, CountsOK
    PROVE  /\ Cardinality({c \in Calls : got[c].kind = "value"}) <= counts.results
           /\ Cardinality({c \in Calls : got[c].kind = "error"}) <= counts.errors
           /\ Cardinality({c \in Calls : got[c].kind \in {"value", "error"}}) <= counts.calls
  <1>1. /\ {c \in Calls : got[c].kind = "value"}
               \subseteq RunsIn(run, ToolOutcomes \ {"error"})
        /\ {c \in Calls : got[c].kind = "error"}
               \subseteq RunsIn(run, {"error", "unserialisable"})
        /\ {c \in Calls : got[c].kind \in {"value", "error"}}
               \subseteq RunsIn(run, {"running"} \union ToolOutcomes)
    BY DEF CallInv, CallRest, GotTrue, Ran, RunsIn, ToolOutcomes, AnswerKinds
  <1>2. \A K : IsFiniteSet(RunsIn(run, K))
    BY CallsFinite DEF RunsIn
  <1> QED
    BY <1>1, <1>2, FS_Subset DEF CountsOK

LEMMA StepCounts == CallInv /\ CountsOK /\ [Next]_vars => CountsOK'
  <1> SUFFICES ASSUME CallInv, CountsOK, [Next]_vars PROVE CountsOK'
    OBVIOUS
  <1>t. /\ run \in [Calls -> {"none", "running"} \union ToolOutcomes]
        /\ counts \in Counts
    BY DEF CallInv, TypeOK, ToolTypeOK
  <1>1. CASE HandleToolCall
    <2> DEFINE n == Head(toHost).n
    <2>1. /\ toHost # <<>> /\ Head(toHost).type = "call"
          /\ run' = [run EXCEPT ![n] = "running"]
          /\ counts' = [counts EXCEPT !.calls = @ + 1]
      BY <1>1 DEF HandleToolCall, Line
    <2>2. 1 \in DOMAIN toHost /\ toHost[1] = Head(toHost)
      BY <2>1 DEF CallInv, TypeOK, PipeTypeOK
    <2>3. n \in 1..callId /\ run[n] = "none"
      BY <2>1, <2>2 DEF CallInv, CallRest, FramesOK
    <2>4. n \in Calls
      BY <2>3, BoundsAssumption DEF BoundsAssumption, CallInv, TypeOK, PyTypeOK, Calls
    <2>5. /\ "running" \notin ToolOutcomes \ {"error"} /\ "none" \notin ToolOutcomes
          /\ "running" \notin {"error", "unserialisable"}
      BY DEF ToolOutcomes, AnswerKinds
    <2>c. \A K : (run[n] \in K => "running" \in K) =>
              Cardinality(RunsIn(run', K)) =
                  IF run[n] \notin K /\ "running" \in K THEN Cardinality(RunsIn(run, K)) + 1
                  ELSE Cardinality(RunsIn(run, K))
      BY <1>t, <2>1, <2>4, RunsCounted
    <2>6. Cardinality(RunsIn(run', {"running"} \union ToolOutcomes)) = counts.calls + 1
      BY <2>3, <2>5, <2>c DEF CountsOK
    <2>7. Cardinality(RunsIn(run', ToolOutcomes \ {"error"})) = counts.results
      BY <2>3, <2>5, <2>c DEF CountsOK
    <2>8. Cardinality(RunsIn(run', {"error", "unserialisable"})) = counts.errors
      BY <2>3, <2>5, <2>c DEF CountsOK
    <2> QED
      BY <1>t, <2>1, <2>6, <2>7, <2>8 DEF CountsOK, Counts
  <1>2. ASSUME NEW c \in Calls, NEW o \in ToolOutcomes, ToolReturns(c, o)
        PROVE  CountsOK'
    <2>1. /\ run[c] = "running" /\ run' = [run EXCEPT ![c] = o] /\ counts' = Counted(o)
      BY <1>2 DEF ToolReturns
    <2>2. /\ "running" \notin ToolOutcomes /\ "running" \notin {"error", "unserialisable"}
          /\ o \in {"value", "error", "huge", "unserialisable"}
      BY DEF ToolOutcomes, AnswerKinds
    <2>c. \A K : (run[c] \in K => o \in K) =>
              Cardinality(RunsIn(run', K)) =
                  IF run[c] \notin K /\ o \in K THEN Cardinality(RunsIn(run, K)) + 1
                  ELSE Cardinality(RunsIn(run, K))
      BY <1>t, <2>1, RunsCounted
    <2>3. Cardinality(RunsIn(run', {"running"} \union ToolOutcomes)) = counts.calls
      BY <2>1, <2>2, <2>c DEF CountsOK
    <2>4. Cardinality(RunsIn(run', ToolOutcomes \ {"error"})) =
              IF o = "error" THEN counts.results ELSE counts.results + 1
      BY <2>1, <2>2, <2>c DEF CountsOK
    <2>5. Cardinality(RunsIn(run', {"error", "unserialisable"})) =
              IF o \in {"value", "huge"} THEN counts.errors ELSE counts.errors + 1
      BY <2>1, <2>2, <2>c DEF CountsOK
    <2> QED
      BY <1>t, <2>1, <2>3, <2>4, <2>5 DEF CountsOK, Counts, Counted
  <1>3. ASSUME UNCHANGED <<run, counts>> PROVE CountsOK'
    BY <1>3 DEF CountsOK
  <1>4. CASE Python
    BY <1>3, <1>4, PythonOnly DEF hostVars, toolVars
  <1>5. CASE HandleStdout \/ HandleComplete \/ HandleError \/ HandleBadLine \/ HandleClose
             \/ RunMicrotask \/ StderrData \/ HandleExit \/ HandleSpawnError \/ TimerFires
             \/ Abort \/ Escalate \/ UNCHANGED vars
    BY <1>3, <1>5 DEF HandleStdout, HandleComplete, HandleError, HandleBadLine, HandleClose,
       RunMicrotask, StderrData, HandleExit, HandleSpawnError, TimerFires, Abort, Escalate,
       vars, toolVars
  <1> QED
    BY <1>1, <1>2, <1>4, <1>5 DEF Next, Host, HandleLine

(* Once the report is made the program takes no answer and the report      *)
(* stays as it is.                                                         *)
LEMMA StepReport ==
    CallInv /\ OutcomeInv /\ ReportInv /\ [Next]_vars => ReportCoversAnswers'
  <1> SUFFICES ASSUME CallInv, OutcomeInv, ReportInv, [Next]_vars, completion' = "resolved"
               PROVE  ReportCoversAnswers'
    BY DEF ReportCoversAnswers
  <1>0. completion = "resolved" => prog \notin {"unspawned", "starting", "running"}
    BY DEF OutcomeInv, EndsOK, TerminalOK
  <1>1. ASSUME completion = "resolved", UNCHANGED <<result, got>> PROVE ReportCoversAnswers'
    BY <1>1 DEF ReportInv, ReportCoversAnswers
  <1>2. CASE HandleComplete
    <2>1. CASE completion = "pending"
      <3>1. got' = got /\ result'.counts = counts
        BY <1>2, <2>1 DEF HandleComplete, pyVars
      <3> QED
        BY <3>1, Covered DEF ReportInv, ReportCoversAnswers
    <2>2. CASE completion # "pending"
      BY <1>1, <1>2, <2>2 DEF HandleComplete, Settle, pyVars
    <2> QED
      BY <2>1, <2>2
  <1>3. ASSUME NEW o \in Completions, o # "resolved", Settle(o), UNCHANGED <<result, got>>
        PROVE  ReportCoversAnswers'
    BY <1>1, <1>3 DEF Settle
  <1>4. CASE HandleError \/ HandleSpawnError \/ Abort
    BY <1>3, <1>4 DEF HandleError, HandleSpawnError, Abort, Completions, pyVars
  <1>5. CASE RunMicrotask
    <2>1. Head(micro) \in {"protocol", "close"}
      BY <1>5 DEF RunMicrotask, CallInv, TypeOK, WaitTypeOK
    <2> QED
      BY <1>3, <1>5, <2>1 DEF RunMicrotask, UnexpectedClose, Completions, pyVars
  <1>6. CASE Python
    <2>1. completion = "resolved" /\ result' = result
      BY <1>6, PythonOnly DEF hostVars, waitVars
    <2>2. got' = got
      BY <1>0, <1>6, <2>1 DEF Python, PyBoot, PyCall, PyCallUnreadable, PyCallUnsent, NewCall,
         PyHandleResponse, PyReaderFails, PyPrintLine, PyPrintPart, PyEndLine, PyNoise, PyStderr,
         PyCloseStdout, PyReturn, PyReturnUnreadable, PyRaise, PyLeave, Over, PyDie, PyExit,
         PyResume, PyExpire, PyCancel, PySignalled, Dies
    <2> QED
      BY <1>1, <2>1, <2>2
  <1>7. CASE HandleToolCall \/ HandleStdout \/ HandleBadLine \/ HandleClose \/ StderrData
             \/ HandleExit \/ TimerFires \/ Escalate \/ UNCHANGED vars
             \/ \E c \in Calls, o \in ToolOutcomes : ToolReturns(c, o)
    BY <1>1, <1>7 DEF HandleToolCall, HandleStdout, HandleBadLine, HandleClose, StderrData,
       HandleExit, TimerFires, Escalate, ToolReturns, vars, pyVars, waitVars
  <1> QED
    BY <1>2, <1>4, <1>5, <1>6, <1>7 DEF Next, Host, HandleLine

(* A resolved execution's details count at least the calls whose answers   *)
(* the program has used (buildExecutionDetails, handleToolCall), for every *)
(* bound on the calls.                                                     *)
THEOREM ReportCoversAnswersHolds == Spec => []ReportCoversAnswers
  <1>1. Init => ReportInv
    <2> SUFFICES ASSUME Init PROVE ReportInv
      OBVIOUS
    <2>1. \A K : "none" \notin K => RunsIn(run, K) = {}
      BY DEF Init, RunsIn
    <2>2. "none" \notin ToolOutcomes
      BY DEF ToolOutcomes, AnswerKinds
    <2> QED
      BY <2>1, <2>2, FS_EmptySet DEF Init, ReportInv, CountsOK, ReportCoversAnswers
  <1>2. CallInv /\ OutcomeInv /\ ReportInv /\ [Next]_vars => ReportInv'
    BY StepCounts, StepReport DEF ReportInv
  <1>3. ReportInv => ReportCoversAnswers
    BY DEF ReportInv
  <1> QED
    BY <1>1, <1>2, <1>3, CallInvariant, OutcomeInvariant, PTL DEF Spec

(* What the caller may conclude from an outcome, at any time after it: a   *)
(* resolved execution ran to its end and carries every text it printed, or *)
(* some of them in order if stray output swallowed lines; no other outcome *)
(* carries any, a Python error comes from the program's own frame or its   *)
(* stderr, and so on.                                                      *)
Truthful ==
    /\ Outcome = "resolved"  => Life = "ok" /\ Tells(Given)
    /\ Outcome # "resolved"  => Given = <<>>
    /\ Outcome = "python"    => Life = "failed" \/ (Life = "gone" /\ stderr)
    /\ Outcome = "transport" => Life = "gone"
    /\ Outcome = "protocol"  => noise > 0

LEMMA TruthKept == Truthful /\ [Abstract!Next]_(Abstract!vars) => Truthful'
  <1> SUFFICES ASSUME Truthful, [Abstract!Next]_(Abstract!vars) PROVE Truthful'
    OBVIOUS
  <1> USE DEF Truthful
  <1>0. ASSUME UNCHANGED <<Wrote, Given>>, noise > 0 => noise' > 0, Tells(Given)
        PROVE  Tells(Given)'
    BY <1>0 DEF Tells, Abstract!Excerpt
  <1>1. CASE Abstract!Write
    BY <1>1 DEF Abstract!Write
  <1>2. CASE Abstract!Mutter
    BY <1>0, <1>2 DEF Abstract!Mutter
  <1>3. CASE Abstract!Complain
    BY <1>0, <1>3 DEF Abstract!Complain
  <1>4. ASSUME NEW e, Abstract!End(e) PROVE Truthful'
    <2>1. noise > 0 => noise' > 0
      BY <1>4 DEF Abstract!End
    <2> QED
      BY <1>0, <1>4, <2>1 DEF Abstract!End
  <1>5. ASSUME NEW o \in Abstract!Outcomes \ {"pending"}, Abstract!Settle(o) PROVE Truthful'
    <2>1. o = "resolved" => Tells(Given)'
      <3>1. ASSUME o = "resolved"
            PROVE  /\ Wrote' = Wrote /\ (noise' > 0) = (noise > 0)
                   /\ Given' = Wrote \/ (noise > 0 /\ Abstract!Excerpt(Given', Wrote))
        BY <1>5, <3>1 DEF Abstract!Settle
      <3> QED
        BY <3>1 DEF Tells, Abstract!Excerpt
    <2> QED
      BY <1>5, <2>1 DEF Abstract!Settle, Abstract!Justified, Abstract!Outcomes
  <1>6. CASE UNCHANGED Abstract!vars
    BY <1>0, <1>6 DEF Abstract!vars
  <1> QED
    BY <1>1, <1>2, <1>3, <1>4, <1>5, <1>6 DEF Abstract!Next

(* An outcome remains true of the program (execute, RpcProtocol's handlers *)
(* of complete and error frames, bad lines and the close event).           *)
THEOREM TruthfulHolds == Spec => []Truthful
  <1>1. Abstract!Init => Truthful
    BY DEF Abstract!Init, Truthful
  <1> QED
    BY <1>1, TruthKept, ImplementsExecutionHolds, PTL DEF ImplementsExecution, Abstract!Spec

(* An outcome never changes, nor does what it carries, whichever of frame, *)
(* close, timeout and abort comes later (resolveOnce, rejectOnce, and the  *)
(* race of waitForCompletion).                                             *)
THEOREM OutcomeStays ==
    Spec => [][Outcome # "pending" => Outcome' = Outcome /\ Given' = Given]_vars
  <1>1. [Abstract!Next]_(Abstract!vars)
        => (Outcome # "pending" => Outcome' = Outcome /\ Given' = Given)
    BY DEF Abstract!Next, Abstract!vars, Abstract!Write, Abstract!Mutter, Abstract!Complain,
       Abstract!End, Abstract!Settle
  <1>2. OutcomeInv /\ [Next]_vars
        => [Outcome # "pending" => Outcome' = Outcome /\ Given' = Given]_vars
    BY <1>1, StepMaps
  <1> QED
    BY <1>2, OutcomeInvariant, PTL DEF Spec

-----------------------------------------------------------------------------
(* What keeps an execution from getting stuck: the part of Settles and     *)
(* StopKills that is a matter of states.                                   *)

(* An execution without an outcome has its timeout armed; one whose        *)
(* program is dead has a line, a microtask or the close event to handle;   *)
(* a stopped program that lives is about to get SIGKILL or has got it.     *)
NothingStuck ==
    /\ Outcome = "pending" => timer = "armed"
    /\ completion = "pending" /\ prog = "dead" => toHost # <<>> \/ micro # <<>> \/ ~closed
    /\ (timer = "fired" \/ aborted) /\ prog # "dead"
           => killTimer = "armed" \/ "KILL" \in signals

StuckInv ==
    /\ completion = "pending" => timer # "cleared"
    /\ completion = "pending" /\ closed => micro # <<>>
    /\ timer = "fired" \/ aborted => killTimer = "armed" \/ "KILL" \in signals \/ exitSeen

LEMMA StepStuck == TypeOK /\ StuckInv /\ [Next]_vars => StuckInv'
  <1> SUFFICES ASSUME TypeOK, StuckInv, [Next]_vars PROVE StuckInv'
    OBVIOUS
  <1>0. micro \in Seq({"protocol", "close"})
    BY DEF TypeOK, WaitTypeOK
  <1>1. ASSUME UNCHANGED <<completion, timer, closed, aborted, killTimer, signals>>,
               micro # <<>> => micro' # <<>>, exitSeen => exitSeen'
        PROVE  StuckInv'
    BY <1>1 DEF StuckInv
  <1>2. CASE Python
    BY <1>1, <1>2, PythonOnly DEF hostVars, waitVars, endVars, stopVars
  <1>3. CASE HandleToolCall \/ HandleStdout \/ HandleBadLine \/ StderrData \/ HandleExit
             \/ UNCHANGED vars \/ \E c \in Calls, o \in ToolOutcomes : ToolReturns(c, o)
    BY <1>0, <1>1, <1>3 DEF HandleToolCall, HandleStdout, HandleBadLine, StderrData, HandleExit,
       ToolReturns, vars, waitVars, endVars, stopVars
  <1>4. ASSUME NEW o \in Completions \ {"pending"}, Settle(o),
               UNCHANGED <<aborted, killTimer, signals>>, exitSeen => exitSeen'
        PROVE  StuckInv'
    BY <1>4 DEF StuckInv, Settle
  <1>5. CASE HandleComplete \/ HandleError \/ HandleSpawnError
    BY <1>4, <1>5 DEF HandleComplete, HandleError, HandleSpawnError, Completions, endVars,
       stopVars
  <1>6. CASE RunMicrotask
    <2>1. Head(micro) \in {"protocol", "close"}
      BY <1>0, <1>6 DEF RunMicrotask
    <2> QED
      BY <1>4, <1>6, <2>1 DEF RunMicrotask, UnexpectedClose, Completions, endVars, stopVars
  <1>7. CASE HandleClose
    BY <1>0, <1>7 DEF HandleClose, StuckInv, waitVars, stopVars
  <1>8. CASE TimerFires \/ Abort
    BY <1>8 DEF TimerFires, Abort, TerminateProcess, Settle, StuckInv, endVars
  <1>9. CASE Escalate
    BY <1>9 DEF Escalate, StuckInv, waitVars, endVars
  <1> QED
    BY <1>2, <1>3, <1>5, <1>6, <1>7, <1>8, <1>9 DEF Next, Host, HandleLine

(* No execution is ever left with nothing to wake it, nor a stopped        *)
(* program with nothing to kill it, for every bound.                       *)
THEOREM NothingStuckHolds == Spec => []NothingStuck
  <1>1. Init => StuckInv
    BY DEF Init, StuckInv
  <1>2. CallInv /\ StuckInv => NothingStuck
    BY DEF CallInv, CallRest, ExitDead, TypeOK, WaitTypeOK, StuckInv, NothingStuck, Outcome
  <1> QED
    BY <1>1, <1>2, StepStuck, TypeCorrect, CallInvariant, PTL DEF Spec

-----------------------------------------------------------------------------
(* Who is still running when the execution has settled.                    *)
OverInv ==
    /\ completion \in {"python", "transport"} => terminal = "error" \/ prog = "dead" \/ hungUp
    /\ completion = "abort" \/ timer = "fired" => "TERM" \in signals

LEMMA StepOver == OutcomeInv /\ OverInv /\ [Next]_vars => OverInv'
  <1> SUFFICES ASSUME OutcomeInv, OverInv, [Next]_vars PROVE OverInv'
    OBVIOUS
  <1> USE DEF OverInv
  <1>1. CASE Python
    <2>1. UNCHANGED <<completion, timer, signals>>
      BY <1>1, PythonOnly DEF hostVars, waitVars, stopVars
    <2>2. prog = "running" => terminal = "none"
      BY DEF OutcomeInv, EndsOK, TerminalOK
    <2>3. /\ terminal = "error" => terminal' = "error"
          /\ prog = "dead" => prog' = "dead"
          /\ hungUp => hungUp'
      BY <1>1, <2>2 DEF Python, PyBoot, PyCall, PyCallUnreadable, PyCallUnsent, NewCall,
         PyHandleResponse, PyReaderFails, PyPrintLine, PyPrintPart, PyEndLine, CanPrint, PyNoise,
         PyStderr, PyCloseStdout, PyReturn, PyReturnUnreadable, PyRaise, PyLeave, Over, PyDie,
         PyExit, PyResume, PyExpire, PyCancel, PySignalled, Dies, Alive, outVars
    <2> QED
      BY <2>1, <2>3
  <1>2. ASSUME NEW o, Settle(o), UNCHANGED <<terminal, hungUp>>, prog = "dead" => prog' = "dead",
               "TERM" \in signals => "TERM" \in signals',
               completion = "pending" /\ o \in {"python", "transport"}
                   => terminal' = "error" \/ prog' = "dead" \/ hungUp',
               o = "abort" => "TERM" \in signals'
        PROVE  OverInv'
    BY <1>2 DEF Settle
  <1>3. CASE HandleComplete \/ HandleError
    <2>1. HandleError => terminal = "error"
      <3>1. HandleError => Has(toHost, "error")
        BY TailIndex DEF HandleError, Line, Has, OutcomeInv, TypeOK, PipeTypeOK
      <3> QED
        BY <3>1 DEF OutcomeInv, EndsOK, TerminalOK
    <2> QED
      BY <1>2, <1>3, <2>1 DEF HandleComplete, HandleError, pyVars, stopVars
  <1>4. CASE RunMicrotask
    <2>1. /\ micro # <<>> /\ UNCHANGED <<terminal, hungUp, prog, signals>>
          /\ Settle(IF Head(micro) = "close" THEN UnexpectedClose ELSE Head(micro))
          /\ 1 \in DOMAIN micro /\ Head(micro) = micro[1] /\ micro[1] \in {"protocol", "close"}
      BY <1>4 DEF RunMicrotask, pyVars, stopVars, OutcomeInv, TypeOK, WaitTypeOK
    <2>2. micro[1] = "close" => prog = "dead" \/ hungUp
      BY <2>1 DEF OutcomeInv, EndsOK, CloseOK
    <2> QED
      BY <1>2, <2>1, <2>2 DEF UnexpectedClose
  <1>5. CASE HandleSpawnError
    BY <1>2, <1>5 DEF HandleSpawnError, outVars, stopVars
  <1>6. CASE Abort
    BY <1>2, <1>6 DEF Abort, TerminateProcess, pyVars
  <1>7. CASE TimerFires
    BY <1>7 DEF TimerFires, TerminateProcess, pyVars
  <1>8. CASE HandleToolCall \/ HandleStdout \/ HandleBadLine \/ HandleClose \/ StderrData
             \/ HandleExit \/ Escalate \/ UNCHANGED vars
             \/ \E c \in Calls, o \in ToolOutcomes : ToolReturns(c, o)
    BY <1>8 DEF HandleToolCall, HandleStdout, HandleBadLine, HandleClose, StderrData, HandleExit,
       Escalate, ToolReturns, vars, pyVars, waitVars, stopVars
  <1> QED
    BY <1>1, <1>3, <1>4, <1>5, <1>6, <1>7, <1>8 DEF Next, Host, HandleLine

(* A program whose execution has settled is past user_main, unless a bad   *)
(* line settled it, it closed its stdout or it is being terminated, for    *)
(* every bound (waitForCompletion, rejectOnce, terminateProcess).          *)
THEOREM OverWhenSettledHolds == Spec => []OverWhenSettled
  <1>1. Init => OverInv
    BY DEF Init, OverInv
  <1>2. OutcomeInv /\ OverInv => OverWhenSettled
    BY DEF OutcomeInv, EndsOK, TerminalOK, TypeOK, WaitTypeOK, Completions, OverInv, Outcome,
       OverWhenSettled
  <1> QED
    BY <1>1, <1>2, StepOver, OutcomeInvariant, PTL DEF Spec
=============================================================================
