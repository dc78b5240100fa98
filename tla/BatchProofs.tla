---------------------------- MODULE BatchProofs ----------------------------
(* What holds of the batch helpers for any number of calls and any limit.  *)
EXTENDS Batch, FiniteSetTheorems, WellFoundedInduction, TLAPS

(* The inductive invariant.  What the semaphore has left and the calls     *)
(* under way do not exceed the limit; the future of gather knows of each   *)
(* task that ended and the helper follows the future; first_success has    *)
(* come to candidate k, all before it failed and none after it was tried.  *)
Shape ==
    /\ kind \in Kinds
    /\ size \in 0..MaxCalls
    /\ limit \in 1..MaxLimit
    /\ slots \in Nat
    /\ task \in [Calls -> TaskStates]
    /\ reply \in [Calls -> Replies \union {"none"}]
    /\ outer \in {"pending", "result", "raised"}
    /\ helper \in {"running", "returned", "raised", "cancelled"}
    /\ program \in {"running", "ended"}

RepliesKept ==
    \A i \in Calls :
        /\ task[i] \in {"unborn", "waiting", "calling"} => reply[i] = "none"
        /\ task[i] \in {"answered", "done"} => reply[i] # "none"

SlotsCounted ==
    IF kind = "first" THEN slots = limit ELSE slots + Cardinality(Underway) <= limit

FutureTold ==
    kind # "first" =>
        /\ \A i \in Calls : (i <= size) = (task[i] # "unborn")
        /\ outer = "pending" => \A i \in Calls : task[i] = "done" => ~ Raises(i)
        /\ outer = "result" => \A i \in Calls : i <= size => task[i] = "done" /\ ~ Raises(i)
        /\ outer = "raised" => \E i \in Calls : i <= size /\ Raises(i)

HelperFollows ==
    kind # "first" =>
        /\ helper = "returned" => outer = "result"
        /\ helper = "raised" => outer = "raised" \/ ConversionRaises
        /\ helper = "cancelled" /\ outer = "pending" => \A i \in Calls : task[i] \notin Unfinished

OneByOne ==
    kind = "first" =>
        \E k \in 1..size :
            /\ \A i \in Calls : i < k => task[i] = "done" /\ reply[i] = "error"
            /\ \A i \in Calls : i > k => task[i] = "unborn" /\ reply[i] = "none"
            /\ helper = "running" => task[k] \in {"calling", "answered"}
            /\ helper # "running" => task[k] \notin Unfinished
            /\ helper = "returned" => reply[k] \in {"value", "payload"}
            /\ helper = "raised" => k = size /\ reply[k] = "error"

BatchInv ==
    /\ Shape /\ RepliesKept /\ SlotsCounted
    /\ FutureTold /\ HelperFollows /\ OneByOne
    /\ kind = "first" => outer = "pending"

-----------------------------------------------------------------------------
(* Counting the calls under way.                                           *)
LEMMA UnderwayFinite ==
    ASSUME NEW T \in SUBSET Calls
    PROVE  IsFiniteSet(T) /\ Cardinality(T) \in Nat
<1>1. IsFiniteSet(Calls)
  BY BatchAssumption, FS_Interval DEF BatchAssumption, Calls
<1>2. IsFiniteSet(T)
  BY <1>1, FS_Subset
<1>3. QED BY <1>2, FS_CardinalityType

LEMMA CallNumbers ==
    ASSUME BatchInv
    PROVE  \A i \in 1..size : i \in Calls /\ i <= size
  BY BatchAssumption DEF BatchAssumption, BatchInv, Shape, Calls

LEMMA InitInv == Init => BatchInv
<1> SUFFICES ASSUME Init PROVE BatchInv
  OBVIOUS
<1> USE BatchAssumption DEF BatchAssumption, Init, Sizes, Limits
<1>1. Shape
  BY DEF Shape, Calls, TaskStates, Replies
<1>2. RepliesKept
  BY DEF RepliesKept
<1>3. SlotsCounted
  <2>1. kind # "first" => Underway = {}
    BY DEF Underway
  <2>2. QED BY <2>1, FS_EmptySet DEF SlotsCounted
<1>4. FutureTold /\ HelperFollows
  BY DEF FutureTold, HelperFollows, Raises, Calls
<1>5. OneByOne
  <2>1. kind = "first" => 1 \in 1..size
    OBVIOUS
  <2>2. QED BY <2>1 DEF OneByOne, Calls
<1>6. kind = "first" => outer = "pending"
  OBVIOUS
<1>7. QED BY <1>1, <1>2, <1>3, <1>4, <1>5, <1>6 DEF BatchInv

(* One lemma for each action.                                              *)
LEMMA AcquireInv ==
    ASSUME BatchInv, NEW i \in Calls, Acquire(i)
    PROVE  BatchInv'
<1>0. kind # "first"
  <2> SUFFICES ASSUME kind = "first" PROVE FALSE
    OBVIOUS
  <2>1. PICK k \in 1..size : task[k] # "waiting" /\
            \A j \in Calls : j < k \/ j > k => task[j] # "waiting"
    BY DEF BatchInv, OneByOne, Unfinished
  <2>2. i \in Nat /\ k \in Nat
    BY DEF Calls
  <2>3. QED BY <2>1, <2>2 DEF Acquire
<1> USE DEF BatchInv, Shape, Acquire
<1>1. Shape'
  BY DEF TaskStates
<1>2. RepliesKept'
  BY DEF RepliesKept
<1>3. SlotsCounted'
  <2>1. Underway' = Underway \union {i} /\ i \notin Underway
    BY DEF Underway
  <2>2. IsFiniteSet(Underway) /\ Cardinality(Underway) \in Nat
    BY UnderwayFinite DEF Underway
  <2>3. Cardinality(Underway') = Cardinality(Underway) + 1
    BY <2>1, <2>2, FS_AddElement
  <2>4. QED BY <1>0, <2>2, <2>3 DEF SlotsCounted
<1>4. FutureTold'
  BY <1>0 DEF FutureTold, Raises
<1>5. HelperFollows'
  BY <1>0 DEF HelperFollows, Unfinished, ConversionRaises
<1>6. QED BY <1>0, <1>1, <1>2, <1>3, <1>4, <1>5 DEF OneByOne

LEMMA AnswerInv ==
    ASSUME BatchInv, NEW i \in Calls, NEW r \in Replies, Answer(i, r)
    PROVE  BatchInv'
<1> USE DEF BatchInv, Shape, Answer
<1>1. Shape'
  BY DEF TaskStates
<1>2. RepliesKept'
  BY DEF RepliesKept, Replies
<1>3. SlotsCounted'
  <2>1. Underway' = Underway
    BY DEF Underway
  <2>2. QED BY <2>1 DEF SlotsCounted
<1>4. FutureTold'
  BY DEF FutureTold, RepliesKept, Raises
<1>5. HelperFollows'
  <2>1. outer = "result" /\ kind # "first" => \A j \in 1..size : j # i
    BY CallNumbers DEF FutureTold
  <2>2. outer = "result" /\ kind # "first" => \A j \in 1..size : reply'[j] = reply[j]
    BY <2>1, CallNumbers DEF RepliesKept
  <2>3. ConversionRaises /\ kind # "first" => ConversionRaises'
    BY <2>2 DEF ConversionRaises
  <2>4. QED BY <2>3 DEF HelperFollows, Unfinished
<1>6. OneByOne'
  BY DEF OneByOne, Unfinished, Calls
<1>7. QED BY <1>1, <1>2, <1>3, <1>4, <1>5, <1>6

LEMMA ResumeInv ==
    ASSUME BatchInv, NEW i \in Calls, Resume(i)
    PROVE  BatchInv'
<1> USE DEF BatchInv, Shape, Resume
<1>0. kind # "first" /\ i <= size
  BY DEF FutureTold
<1>1. Shape'
  BY DEF TaskStates
<1>2. RepliesKept'
  BY DEF RepliesKept
<1>3. SlotsCounted'
  <2>1. Underway' = Underway \ {i} /\ i \in Underway
    BY DEF Underway
  <2>2. IsFiniteSet(Underway) /\ Cardinality(Underway) \in Nat
    BY UnderwayFinite DEF Underway
  <2>3. Cardinality(Underway') = Cardinality(Underway) - 1
    BY <2>1, <2>2, FS_RemoveElement
  <2>4. QED BY <1>0, <2>2, <2>3 DEF SlotsCounted
<1>4. \A j \in Calls : Raises(j)' = Raises(j)
  BY <1>0 DEF Raises
<1>5. FutureTold'
  <2>1. \A j \in Calls : (j <= size) = (task'[j] # "unborn")
    BY <1>0 DEF FutureTold
  <2>2. CASE outer # "pending"
    BY <1>0, <1>4, <2>1, <2>2 DEF FutureTold
  <2>3. CASE outer = "pending" /\ Raises(i)
    BY <1>0, <1>4, <2>1, <2>3
    DEF FutureTold
  <2>4. CASE outer = "pending" /\ ~ Raises(i)
    BY <1>0, <1>4, <2>1, <2>4
    DEF FutureTold
  <2>5. QED BY <2>2, <2>3, <2>4
<1>6. HelperFollows'
  BY <1>0 DEF HelperFollows, Unfinished, ConversionRaises
<1>7. QED BY <1>0, <1>1, <1>2, <1>3, <1>5, <1>6 DEF OneByOne

LEMMA HelperEndsInv ==
    ASSUME BatchInv, HelperEnds
    PROVE  BatchInv'
<1> USE DEF BatchInv, Shape, HelperEnds, ConversionRaises
<1>1. Shape' /\ RepliesKept' /\ FutureTold' /\ HelperFollows' /\ OneByOne'
  BY DEF RepliesKept, FutureTold, HelperFollows, OneByOne, Raises
<1>2. SlotsCounted'
  <2>1. Underway' = Underway
    BY DEF Underway
  <2>2. QED BY <2>1 DEF SlotsCounted
<1>3. QED BY <1>1, <1>2

LEMMA TryNextInv ==
    ASSUME BatchInv, NEW i \in Calls, TryNext(i)
    PROVE  BatchInv'
<1> USE DEF BatchInv, Shape
<1>0. kind = "first" /\ task[i] = "answered" /\ helper = "running"
  BY DEF TryNext
<1>1. PICK k \in 1..size :
        /\ \A j \in Calls : j < k => task[j] = "done" /\ reply[j] = "error"
        /\ \A j \in Calls : j > k => task[j] = "unborn" /\ reply[j] = "none"
  BY <1>0 DEF OneByOne
<1>2. i = k
  BY <1>0, <1>1 DEF Calls
<1>3. Shape'
  BY <1>0, <1>2 DEF TryNext, TaskStates, Calls
<1>4. RepliesKept'
  <2>1. i < size => i + 1 \in Calls /\ reply[i + 1] = "none" /\ i + 1 # i
    BY <1>1, <1>2, CallNumbers DEF Calls
  <2>2. QED BY <1>0, <2>1 DEF TryNext, RepliesKept
<1>5. OneByOne'
  <2>1. CASE reply[i] # "error" /\ helper' = "returned"
             /\ task' = [task EXCEPT ![i] = "done"]
    <3>1. reply[k] \in {"value", "payload"}
      BY <1>0, <1>2, <2>1 DEF RepliesKept, Replies
    <3>2. QED BY <1>0, <1>1, <1>2, <2>1, <3>1 DEF TryNext, OneByOne, Unfinished, Calls
  <2>2. CASE reply[i] = "error" /\ i < size /\ helper' = helper
             /\ task' = [task EXCEPT ![i] = "done", ![i + 1] = "calling"]
    <3>1. k + 1 \in 1..size /\ i + 1 \in Calls
      BY <1>2, <2>2, CallNumbers
    <3>2. \A j \in Calls : j < k + 1 => task'[j] = "done" /\ reply'[j] = "error"
      BY <1>1, <1>2, <2>2 DEF TryNext, Calls
    <3>3. \A j \in Calls : j > k + 1 => task'[j] = "unborn" /\ reply'[j] = "none"
      BY <1>1, <1>2, <2>2 DEF TryNext, Calls
    <3>4. task'[k + 1] = "calling"
      BY <1>2, <2>2, <3>1
    <3>5. QED BY <1>0, <2>2, <3>1, <3>2, <3>3, <3>4 DEF TryNext, OneByOne
  <2>3. CASE reply[i] = "error" /\ i = size /\ helper' = "raised"
             /\ task' = [task EXCEPT ![i] = "done"]
    BY <1>0, <1>1, <1>2, <2>3 DEF TryNext, OneByOne, Unfinished, Calls
  <2>4. QED BY <2>1, <2>2, <2>3 DEF TryNext
<1>6. SlotsCounted' /\ FutureTold' /\ HelperFollows'
  BY <1>0 DEF TryNext, SlotsCounted, FutureTold, HelperFollows
<1>7. QED BY <1>0, <1>3, <1>4, <1>5, <1>6 DEF TryNext

(* Cancelling leaves nothing unfinished, and nothing new under way.        *)
LEMMA CancelledFacts ==
    ASSUME BatchInv
    PROVE  /\ Cancelled \in [Calls -> TaskStates]
           /\ \A i \in Calls :
                 /\ Cancelled[i] \notin Unfinished
                 /\ task[i] \notin Unfinished => Cancelled[i] = task[i]
                 /\ Cancelled[i] = "cancelled" \/ Cancelled[i] = task[i]
                 /\ Cancelled[i] = "unborn" <=> task[i] = "unborn"
  BY DEF BatchInv, Shape, Cancelled, Unfinished, TaskStates

LEMMA CancelInv ==
    ASSUME BatchInv,
           helper' = "cancelled" \/ (helper' = helper /\ helper # "running"),
           helper' = helper \/ helper = "running",
           task' = Cancelled \/ (task' = task /\ outer # "pending"),
           program' \in {"running", "ended"},
           UNCHANGED <<kind, size, limit, slots, reply, outer>>
    PROVE  BatchInv'
<1> USE DEF BatchInv, Shape
<1>1. Shape'
  BY CancelledFacts
<1>2. RepliesKept'
  BY CancelledFacts DEF RepliesKept, Unfinished
<1>3. SlotsCounted'
  <2>1. Underway' \subseteq Underway /\ Underway \in SUBSET Calls
    BY CancelledFacts DEF Underway, Unfinished
  <2>2. /\ Cardinality(Underway) \in Nat /\ Cardinality(Underway') \in Nat
        /\ Cardinality(Underway') <= Cardinality(Underway)
    BY <2>1, UnderwayFinite, FS_Subset
  <2>3. QED BY <2>2 DEF SlotsCounted
<1>4. FutureTold'
  BY CancelledFacts DEF FutureTold, Raises, Unfinished
<1>5. HelperFollows'
  BY CancelledFacts DEF HelperFollows, Unfinished, ConversionRaises
<1>6. OneByOne'
  <2> SUFFICES ASSUME kind = "first" PROVE OneByOne'
    BY DEF OneByOne
  <2>1. task' = Cancelled /\ helper' # "running"
    OBVIOUS
  <2>2. PICK k \in 1..size :
            /\ \A i \in Calls : i < k => task[i] = "done" /\ reply[i] = "error"
            /\ \A i \in Calls : i > k => task[i] = "unborn" /\ reply[i] = "none"
            /\ helper = "returned" => reply[k] \in {"value", "payload"}
            /\ helper = "raised" => k = size /\ reply[k] = "error"
    BY DEF OneByOne
  <2>3. k \in Calls
    BY CallNumbers
  <2>4. QED BY <2>1, <2>2, <2>3, CancelledFacts DEF OneByOne, Unfinished
<1>7. QED BY <1>1, <1>2, <1>3, <1>4, <1>5, <1>6

LEMMA StepInv == BatchInv /\ [Next]_vars => BatchInv'
<1> SUFFICES ASSUME BatchInv, [Next]_vars PROVE BatchInv'
  OBVIOUS
<1>1. CASE Cancel
  BY <1>1, CancelInv DEF Cancel, BatchInv, Shape
<1>2. CASE End
  BY <1>2, CancelInv DEF End
<1>3. CASE UNCHANGED vars
  BY <1>3 DEF vars, BatchInv, Shape, RepliesKept, SlotsCounted, FutureTold,
              HelperFollows, OneByOne, Raises, Underway, ConversionRaises
<1>4. QED
  BY <1>1, <1>2, <1>3, AcquireInv, AnswerInv, ResumeInv, HelperEndsInv, TryNextInv
     DEF Next

(* The inductive invariant holds throughout a use of a helper.             *)
THEOREM BatchInvariant == Spec => []BatchInv
<1>1. QED BY InitInv, StepInv, PTL DEF Spec

-----------------------------------------------------------------------------
(* What follows from it.                                                   *)
LEMMA InvType == BatchInv => TypeOK
<1> SUFFICES ASSUME BatchInv PROVE TypeOK
  OBVIOUS
<1>1. Cardinality(Underway) \in Nat
  BY UnderwayFinite DEF Underway
<1>2. QED BY <1>1 DEF BatchInv, Shape, SlotsCounted, TypeOK

(* Every variable keeps its type; the semaphore never has more slots than  *)
(* it started with (gather_limit).                                         *)
THEOREM TypeCorrect == Spec => []TypeOK
<1>1. QED BY BatchInvariant, InvType, PTL

(* The limit holds for any number of calls (gather_limit).                 *)
THEOREM BoundedHolds == Spec => []Bounded
<1>1. BatchInv => Bounded
  <2> SUFFICES ASSUME BatchInv PROVE Bounded
    OBVIOUS
  <2>1. Cardinality(Underway) \in Nat
    BY UnderwayFinite DEF Underway
  <2>2. CASE kind # "first"
    BY <2>1, <2>2 DEF BatchInv, Shape, SlotsCounted, Bounded
  <2>3. CASE kind = "first"
    <3>1. PICK k \in 1..size : Underway \subseteq {k}
      BY <2>3 DEF BatchInv, Shape, OneByOne, Underway, Calls
    <3>2. IsFiniteSet({k}) /\ Cardinality({k}) = 1
      BY FS_Singleton
    <3>3. Cardinality(Underway) <= 1
      BY <3>1, <3>2, FS_Subset
    <3>4. QED BY <2>3, <3>3 DEF Bounded
  <2>4. QED BY <2>2, <2>3
<1>2. QED BY <1>1, BatchInvariant, PTL

(* A helper tells the truth about its calls (batch_tool, read_many,        *)
(* reduce_tool, first_success).                                            *)
THEOREM OutcomeTrueHolds == Spec => []OutcomeTrue
<1>1. BatchInv => OutcomeTrue
  <2> SUFFICES ASSUME BatchInv PROVE OutcomeTrue
    OBVIOUS
  <2> USE DEF BatchInv, Shape
  <2>1. CASE kind # "first"
    <3>1. \A i \in 1..size : i \in Calls /\ i <= size
      BY CallNumbers
    <3>2. \A i \in Calls : i <= size => i \in 1..size
      BY DEF Calls
    <3>3. helper = "returned" =>
            \A i \in 1..size : reply[i] # "none" /\ ~ Raises(i)
      BY <2>1, <3>1 DEF FutureTold, HelperFollows, RepliesKept
    <3>4. helper = "raised" /\ outer = "raised" =>
            kind \in {"raise", "reduce"} /\ \E i \in 1..size : reply[i] = "error"
      BY <2>1, <3>2 DEF FutureTold, Raises
    <3>5. helper = "raised" /\ outer = "result" =>
            /\ kind \in {"raise", "reduce", "many"}
            /\ \A i \in 1..size : reply[i] # "none"
            /\ kind # "many" => \A i \in 1..size : reply[i] # "error"
            /\ \E i \in 1..size : reply[i] \in {"value", "payload"}
      BY <2>1, <3>1
         DEF FutureTold, HelperFollows, RepliesKept, Raises, Replies, ConversionRaises
    <3>6. helper = "raised" => outer \in {"raised", "result"}
      BY <2>1 DEF HelperFollows, ConversionRaises
    <3>7. QED BY <2>1, <3>3, <3>4, <3>5, <3>6 DEF OutcomeTrue, Raises
  <2>2. CASE kind = "first"
    <3>1. PICK k \in 1..size :
            /\ \A i \in Calls : i < k => reply[i] = "error"
            /\ \A i \in Calls : i > k => reply[i] = "none"
            /\ helper = "returned" => reply[k] \in {"value", "payload"}
            /\ helper = "raised" => k = size /\ reply[k] = "error"
      BY <2>2 DEF OneByOne
    <3>2. \A i \in 1..size : i \in Calls
      BY CallNumbers
    <3>3. helper = "raised" => \A i \in 1..size : reply[i] = "error"
      BY <3>1, <3>2
    <3>4. QED BY <2>2, <3>1, <3>2, <3>3 DEF OutcomeTrue
  <2>3. QED BY <2>1, <2>2
<1>2. QED BY <1>1, BatchInvariant, PTL

(* Only the failure of a call leaves others behind (gather_limit).         *)
THEOREM OnlyFailureLeavesHolds == Spec => []OnlyFailureLeaves
<1>1. BatchInv => OnlyFailureLeaves
  <2> SUFFICES ASSUME BatchInv, helper # "running",
                      NEW i \in Calls, task[i] \in Unfinished
               PROVE  kind \in {"raise", "reduce"} /\ \E j \in Calls : reply[j] = "error"
    BY DEF OnlyFailureLeaves
  <2> USE DEF BatchInv, Shape
  <2>1. kind # "first"
    BY DEF OneByOne, Unfinished, Calls
  <2>2. outer # "pending"
    BY <2>1 DEF HelperFollows, ConversionRaises
  <2>3. outer # "result"
    BY <2>1 DEF FutureTold, Unfinished
  <2>4. QED BY <2>1, <2>2, <2>3 DEF FutureTold, Raises
<1>2. QED BY <1>1, BatchInvariant, PTL

-----------------------------------------------------------------------------
(* What keeps a helper going: the part of FailsFast and Settles that is a  *)
(* matter of states.  While the helper runs nothing has been cancelled, so *)
(* each slot is in the semaphore or with a call under way, and gather      *)
(* waits for a task that has not ended.                                    *)

Counted ==
    helper = "running" /\ kind # "first" =>
        /\ slots + Cardinality(Underway) = limit
        /\ \A i \in Calls : task[i] # "cancelled"
        /\ outer = "pending" => \E i \in Calls : task[i] \in Unfinished

(* A running helper has the outcome of gather to take, or a call under     *)
(* way, or a task that is first in line for a slot that is free: no        *)
(* failure loses a slot, and no helper waits for calls it never makes.     *)
NeverStarved ==
    helper = "running" =>
        \/ kind # "first" /\ outer # "pending"
        \/ Underway # {}
        \/ \E i \in Calls : /\ task[i] = "waiting" /\ slots > 0
                            /\ \A j \in Calls : j < i => task[j] # "waiting"

LEMMA FirstCall == ASSUME NEW T \in SUBSET Calls, T # {}
                   PROVE  \E i \in T : \A j \in T : ~(j < i)
<1>1. T \subseteq Nat
  BY DEF Calls
<1>2. PICK i \in T : \A j \in T : ~(<<j, i>> \in OpToRel(<, Nat))
  BY <1>1, NatLessThanWellFounded, WFMin
<1>3. \A j \in T : ~(j < i)
  BY <1>1, <1>2 DEF OpToRel
<1>4. QED BY <1>3

LEMMA StepCounted == BatchInv /\ Counted /\ [Next]_vars => Counted'
<1> SUFFICES ASSUME BatchInv, Counted, [Next]_vars, helper' = "running", kind' # "first"
             PROVE  Counted'
  BY DEF Counted
<1> USE DEF BatchInv, Shape
<1>0. IsFiniteSet(Underway) /\ Cardinality(Underway) \in Nat
  BY UnderwayFinite DEF Underway
<1>1. ASSUME NEW i \in Calls, Acquire(i) PROVE Counted'
  <2>1. Underway' = Underway \union {i} /\ i \notin Underway
    BY <1>1 DEF Acquire, Underway
  <2>2. Cardinality(Underway') = Cardinality(Underway) + 1
    BY <1>0, <2>1, FS_AddElement
  <2>3. task'[i] \in Unfinished /\ \A j \in Calls : j # i => task'[j] = task[j]
    BY <1>1 DEF Acquire, Unfinished
  <2>4. QED BY <1>0, <1>1, <2>2, <2>3 DEF Acquire, Counted, Unfinished
<1>2. ASSUME NEW i \in Calls, NEW r \in Replies, Answer(i, r) PROVE Counted'
  <2>1. Underway' = Underway
    BY <1>2 DEF Answer, Underway
  <2>2. task'[i] \in Unfinished /\ \A j \in Calls : j # i => task'[j] = task[j]
    BY <1>2 DEF Answer, Unfinished
  <2>3. QED BY <1>2, <2>1, <2>2 DEF Answer, Counted, Unfinished
<1>3. ASSUME NEW i \in Calls, Resume(i) PROVE Counted'
  <2>1. Underway' = Underway \ {i} /\ i \in Underway
    BY <1>3 DEF Resume, Underway
  <2>2. Cardinality(Underway') = Cardinality(Underway) - 1
    BY <1>0, <2>1, FS_RemoveElement
  <2>3. task'[i] = "done" /\ \A j \in Calls : j # i => task'[j] = task[j]
    BY <1>3 DEF Resume
  <2>4. \A j \in Calls : task'[j] \in TaskStates \ {"cancelled"}
    BY <1>3, <2>3 DEF Resume, Counted, TaskStates
  <2>5. outer' = "pending" => \E j \in Calls : task'[j] \in Unfinished
    BY <1>3, <2>4 DEF Resume, TaskStates, Unfinished
  <2>6. QED BY <1>0, <1>3, <2>2, <2>4, <2>5 DEF Resume, Counted
<1>4. CASE HelperEnds \/ Cancel \/ End \/ \E i \in Calls : TryNext(i)
  BY <1>4 DEF HelperEnds, Cancel, End, TryNext
<1>5. CASE UNCHANGED vars
  BY <1>5 DEF vars, Counted, Underway
<1>6. QED BY <1>1, <1>2, <1>3, <1>4, <1>5 DEF Next

(* A running helper is never starved, for any number of calls and any      *)
(* limit (gather_limit, first_success).                                    *)
THEOREM NeverStarvedHolds == Spec => []NeverStarved
<1>1. Init => Counted
  <2> SUFFICES ASSUME Init, kind # "first" PROVE Counted
    BY DEF Counted
  <2>1. Underway = {} /\ slots = limit /\ limit \in Nat
    BY BatchAssumption DEF Init, Underway, BatchAssumption, Limits
  <2>2. Cardinality(Underway) = 0
    BY <2>1, FS_EmptySet
  <2>3. outer = "pending" => 1 \in Calls /\ task[1] = "waiting"
    BY BatchAssumption DEF Init, BatchAssumption, Sizes, Calls
  <2>4. \A i \in Calls : task[i] # "cancelled"
    BY DEF Init
  <2>5. QED BY <2>1, <2>2, <2>3, <2>4 DEF Counted, Unfinished
<1>2. BatchInv /\ Counted => NeverStarved
  <2> SUFFICES ASSUME BatchInv, Counted, helper = "running", Underway = {},
                      kind = "first" \/ outer = "pending"
               PROVE  \E i \in Calls : /\ task[i] = "waiting" /\ slots > 0
                                      /\ \A j \in Calls : j < i => task[j] # "waiting"
    BY DEF NeverStarved
  <2>1. kind # "first"
    BY CallNumbers DEF BatchInv, OneByOne, Underway
  <2>2. slots > 0
    BY <2>1, FS_EmptySet DEF Counted, BatchInv, Shape
  <2>3. {i \in Calls : task[i] = "waiting"} # {}
    BY <2>1 DEF Counted, Underway, Unfinished
  <2>4. PICK i \in {i \in Calls : task[i] = "waiting"} :
            \A j \in {j \in Calls : task[j] = "waiting"} : ~(j < i)
    BY <2>3, FirstCall
  <2>5. QED BY <2>2, <2>4
<1>3. QED BY <1>1, <1>2, StepCounted, BatchInvariant, PTL DEF Spec
=============================================================================
