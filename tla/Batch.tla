------------------------------- MODULE Batch -------------------------------
(***************************************************************************)
(* One use of a helper that makes several tool calls                       *)
(* (src/python-runtime/runtime.py): batch_tool in its two modes,           *)
(* read_many, reduce_tool and gather_limit, which run their calls as tasks *)
(* behind a semaphore, and first_success, which makes them one by one.     *)
(* Uses that overlap share nothing, so one is modelled; the calls          *)
(* themselves are those of RpcBridge: each comes to a value or an error,   *)
(* the timeout among them.                                                 *)
(*                                                                         *)
(* asyncio is modelled as of Python 3.12: the tasks get the semaphore in   *)
(* their order, gather ends with the first exception and leaves its other  *)
(* tasks alone, and cancelling a pending gather cancels its tasks.         *)
(***************************************************************************)
EXTENDS Naturals, FiniteSets

CONSTANTS
    MaxCalls,   \* bound on the calls of the use
    MaxLimit    \* bound on the limit on concurrent ones

ASSUME BatchAssumption == MaxCalls \in Nat /\ MaxLimit \in Nat \ {0}

VARIABLES
    kind,      \* which helper it is
    size,      \* how many calls it makes
    limit,     \* max_concurrency
    slots,     \* what the semaphore has left
    task,      \* the life of each call's task
    reply,     \* what each call came to, "none" yet
    outer,     \* the future of gather
    helper,    \* the coroutine of the helper
    program    \* "running", or "ended" with all its tasks

vars == <<kind, size, limit, slots, task, reply, outer, helper, program>>

Calls == 1..MaxCalls

(* gather_limit and batch_tool with on_error="raise"; batch_tool with      *)
(* "collect"; read_many; reduce_tool; first_success.                       *)
Kinds   == {"raise", "collect", "many", "reduce", "first"}
(* A payload is a value that says that the tool failed.                    *)
Replies == {"value", "payload", "error"}

TaskStates == {"unborn", "waiting", "calling", "answered", "done", "cancelled"}
Unfinished == {"waiting", "calling", "answered"}
Underway   == {i \in Calls : task[i] \in {"calling", "answered"}}

(* What the argument checks let through: the others may be empty.          *)
Sizes(k) == IF k = "first" THEN 1..MaxCalls ELSE 0..MaxCalls
Limits   == 1..MaxLimit

Init ==
    /\ kind \in Kinds
    /\ size \in Sizes(kind)
    /\ limit \in Limits
    /\ slots = limit
    /\ task = [i \in Calls |->
                  IF i > size THEN "unborn"
                  ELSE IF kind # "first" THEN "waiting"
                  ELSE IF i = 1 THEN "calling" ELSE "unborn"]
    /\ reply = [i \in Calls |-> "none"]
    /\ outer = IF size = 0 THEN "result" ELSE "pending"
    /\ helper = "running"
    /\ program = "running"

-----------------------------------------------------------------------------
\* Mutant: every task has a semaphore of its own.
AcquireOwn(i) ==
    /\ task[i] = "waiting"
    /\ task' = [task EXCEPT ![i] = "calling"]
    /\ UNCHANGED <<kind, size, limit, slots, reply, outer, helper, program>>

(* A task of gather_limit passes the semaphore and makes its call.         *)
Acquire(i) ==
    /\ task[i] = "waiting"
    /\ \A j \in Calls : j < i => task[j] # "waiting"
    /\ slots > 0
    /\ slots' = slots - 1
    /\ task' = [task EXCEPT ![i] = "calling"]
    /\ UNCHANGED <<kind, size, limit, reply, outer, helper, program>>

(* The future of a call is resolved: by its answer, its 300 s timeout or   *)
(* the end of the reader.                                                  *)
Answer(i, r) ==
    /\ task[i] = "calling"
    /\ task' = [task EXCEPT ![i] = "answered"]
    /\ reply' = [reply EXCEPT ![i] = r]
    /\ UNCHANGED <<kind, size, limit, slots, outer, helper, program>>

(* The task raises: the others catch what their call raises.               *)
Raises(i) == kind \in {"raise", "reduce"} /\ reply[i] = "error"

\* Mutant: a failed call ends the task before it gives its slot back.
ResumeKeepingSlot(i) ==
    /\ kind # "first" /\ task[i] = "answered"
    /\ task' = [task EXCEPT ![i] = "done"]
    /\ slots' = IF reply[i] = "error" THEN slots ELSE slots + 1
    /\ outer' = IF outer # "pending" THEN outer
                ELSE IF Raises(i) THEN "raised"
                ELSE IF \A j \in Calls : task'[j] \in {"done", "unborn"} THEN "result"
                ELSE "pending"
    /\ UNCHANGED <<kind, size, limit, reply, helper, program>>

\* Mutant: gather collects exceptions like results.
ResumeReturningErrors(i) ==
    /\ kind # "first" /\ task[i] = "answered"
    /\ task' = [task EXCEPT ![i] = "done"]
    /\ slots' = slots + 1
    /\ outer' = IF \A j \in Calls : task'[j] \in {"done", "unborn"}
                THEN "result" ELSE outer
    /\ UNCHANGED <<kind, size, limit, reply, helper, program>>

\* Mutant: the first exception is raised when all calls are done.
ResumeWaitingForAll(i) ==
    /\ kind # "first" /\ task[i] = "answered"
    /\ task' = [task EXCEPT ![i] = "done"]
    /\ slots' = slots + 1
    /\ outer' = IF \E j \in Calls : task'[j] \in Unfinished THEN outer
                ELSE IF \E j \in Calls : Raises(j) THEN "raised" ELSE "result"
    /\ UNCHANGED <<kind, size, limit, reply, helper, program>>

(* A task of gather_limit goes on and ends; gather takes the first         *)
(* exception, or all results.                                              *)
Resume(i) ==
    /\ kind # "first" /\ task[i] = "answered"
    /\ task' = [task EXCEPT ![i] = "done"]
    /\ slots' = slots + 1
    /\ outer' = IF outer # "pending" THEN outer
                ELSE IF Raises(i) THEN "raised"
                ELSE IF \A j \in Calls : task'[j] \in {"done", "unborn"} THEN "result"
                ELSE "pending"
    /\ UNCHANGED <<kind, size, limit, reply, helper, program>>

(* What is done with the results may raise: the conversion of a value of   *)
(* grep or read that has not the form it looks for, or the reducer of      *)
(* reduce_tool.  "collect" converts inside its tasks, which catch it.      *)
ConversionRaises ==
    /\ outer = "result"
    /\ kind \in {"raise", "reduce", "many"}
    /\ \E i \in 1..size : reply[i] \in {"value", "payload"}

(* The helper gets the outcome of gather.                                  *)
HelperEnds ==
    /\ kind # "first" /\ helper = "running"
    /\ \/ outer = "result" /\ helper' = "returned"
       \/ ConversionRaises /\ helper' = "raised"
       \/ outer = "raised" /\ helper' = "raised"
    /\ UNCHANGED <<kind, size, limit, slots, task, reply, outer, program>>

\* Mutant: after a failure the other candidates are called at once.
TryAllNext(i) ==
    /\ kind = "first" /\ helper = "running"
    /\ task[i] = "answered"
    /\ \/ /\ reply[i] # "error"
          /\ helper' = "returned"
          /\ task' = [task EXCEPT ![i] = "done"]
       \/ /\ reply[i] = "error" /\ i < size
          /\ task' = [j \in Calls |-> IF j = i THEN "done"
                                      ELSE IF j \in i + 1..size THEN "calling"
                                      ELSE task[j]]
          /\ UNCHANGED helper
       \/ /\ reply[i] = "error" /\ i = size
          /\ helper' = "raised"
          /\ task' = [task EXCEPT ![i] = "done"]
    /\ UNCHANGED <<kind, size, limit, slots, reply, outer, program>>

(* first_success: a value ends it, a payload too; after an error the next  *)
(* candidate is called.                                                    *)
TryNext(i) ==
    /\ kind = "first" /\ helper = "running"
    /\ task[i] = "answered"
    /\ \/ /\ reply[i] # "error"
          /\ helper' = "returned"
          /\ task' = [task EXCEPT ![i] = "done"]
       \/ /\ reply[i] = "error" /\ i < size
          /\ task' = [task EXCEPT ![i] = "done", ![i + 1] = "calling"]
          /\ UNCHANGED helper
       \/ /\ reply[i] = "error" /\ i = size
          /\ helper' = "raised"
          /\ task' = [task EXCEPT ![i] = "done"]
    /\ UNCHANGED <<kind, size, limit, slots, reply, outer, program>>

Cancelled == [i \in Calls |-> IF task[i] \in Unfinished THEN "cancelled" ELSE task[i]]

(* The program cancels the helper, by a timeout of its own for example.    *)
(* CancelledError is no Exception: no helper catches it.  When gather has  *)
(* an outcome already, its other tasks run on.                             *)
Cancel ==
    /\ program = "running"
    /\ helper = "running"
    /\ helper' = "cancelled"
    /\ task' = IF outer = "pending" THEN Cancelled ELSE task
    /\ UNCHANGED <<kind, size, limit, slots, reply, outer, program>>

(* user_main ends, and asyncio.run cancels the tasks that are left.        *)
End ==
    /\ program = "running"
    /\ program' = "ended"
    /\ task' = Cancelled
    /\ helper' = IF helper = "running" THEN "cancelled" ELSE helper
    /\ UNCHANGED <<kind, size, limit, slots, reply, outer>>

Next ==
    \/ \E i \in Calls :
          \/ Acquire(i) \/ Resume(i) \/ TryNext(i)
          \/ \E r \in Replies : Answer(i, r)
    \/ HelperEnds \/ Cancel \/ End

Spec == Init /\ [][Next]_vars

(* The event loop of the program runs what is ready; that calls are        *)
(* answered is not part of it.                                             *)
Fairness ==
    /\ WF_vars(HelperEnds)
    /\ \A i \in Calls : WF_vars(Acquire(i)) /\ WF_vars(Resume(i)) /\ WF_vars(TryNext(i))

FairSpec == Spec /\ Fairness

-----------------------------------------------------------------------------
(* Properties.                                                             *)

TypeOK ==
    /\ kind \in Kinds
    /\ size \in 0..MaxCalls
    /\ limit \in 1..MaxLimit
    /\ slots \in 0..limit
    /\ task \in [Calls -> TaskStates]
    /\ reply \in [Calls -> Replies \union {"none"}]
    /\ outer \in {"pending", "result", "raised"}
    /\ helper \in {"running", "returned", "raised", "cancelled"}
    /\ program \in {"running", "ended"}

(* No more calls are under way than max_concurrency, whatever fails or is  *)
(* cancelled, and one at a time in first_success (gather_limit).           *)
Bounded == Cardinality(Underway) <= (IF kind = "first" THEN 1 ELSE limit)

(* The outcome of a helper tells what its calls came to: no failed call    *)
(* hides behind a result, none is left out of it.  An exception is that of *)
(* a failed call, or all calls have ended, each as the helper lets it, and *)
(* there was a value whose conversion or reduction failed.  first_success  *)
(* has tried all candidates before the one it returns, and all of them     *)
(* before it gives up.                                                     *)
OutcomeTrue ==
    /\ helper = "returned" /\ kind # "first" =>
          \A i \in 1..size :
              /\ reply[i] # "none"
              /\ kind \in {"raise", "reduce"} => reply[i] # "error"
    /\ helper = "raised" =>
          \/ /\ kind \in {"raise", "reduce", "many"}
             /\ \A i \in 1..size : reply[i] # "none"
             /\ kind # "many" => \A i \in 1..size : reply[i] # "error"
             /\ \E i \in 1..size : reply[i] \in {"value", "payload"}
          \/ kind = "first" /\ \A i \in 1..size : reply[i] = "error"
          \/ kind \in {"raise", "reduce"} /\ \E i \in 1..size : reply[i] = "error"
    /\ helper = "returned" /\ kind = "first" =>
          \E i \in 1..size : /\ reply[i] \in {"value", "payload"}
                             /\ \A j \in 1..size : j < i => reply[j] = "error"
                             /\ \A j \in 1..size : j > i => reply[j] = "none"

(* A helper that has ended, or was cancelled, leaves no call under way and *)
(* none to come, unless one of its calls failed and it is one of those     *)
(* that raise at once: then the others run on.                             *)
OnlyFailureLeaves ==
    helper # "running" /\ (\E i \in Calls : task[i] \in Unfinished)
        => kind \in {"raise", "reduce"} /\ \E i \in Calls : reply[i] = "error"

(* "batch_tool fails fast": the first failure ends it, though no other     *)
(* call may ever be answered.                                              *)
FailsFast ==
    (\E i \in Calls : task[i] = "answered" /\ Raises(i)) ~> (helper # "running")

(* If calls are always answered, as the timeout of RpcClient sees to, the  *)
(* helper ends.                                                            *)
Settles ==
    (\A i \in Calls : task[i] = "calling" ~> task[i] # "calling")
        => <>(helper # "running")
=============================================================================
