------------------------ MODULE OutputBudgetProofs -------------------------
(* What holds of the output budgets for any values, settings and limits.   *)
EXTENDS OutputBudget, TLAPS

(* The lengths are numbers of the kind they should be.                     *)
LEMMA ValueType ==
    ASSUME value \in Values
    PROVE  /\ value \in Value
           /\ value.n \in Nat /\ value.quotes \in Nat /\ value.wide \in Nat
           /\ value.sort \in {"str", "list"}
<1>1. Values \subseteq Value
  BY BudgetAssumption DEF BudgetAssumption
<1>2. value \in Value
  BY <1>1
<1>3. value.sort = "list" => value.n > 0
  BY BudgetAssumption DEF BudgetAssumption
<1>4. QED BY <1>2, <1>3 DEF Value

LEMMA DigitsRange == ASSUME NEW n \in Int PROVE Digits(n) \in 1..6
  BY DEF Digits

LEMMA DigitsMonotone ==
    ASSUME NEW a \in Int, NEW b \in Int, a <= b PROVE Digits(a) <= Digits(b)
  BY DEF Digits

(* Numbers that differ by one differ by one digit at most.                 *)
LEMMA DigitsStep ==
    ASSUME NEW a \in Int, NEW b \in Int, a - b \in -1..1
    PROVE  Digits(a) - Digits(b) \in -1..1
  BY DEF Digits

(* So does a setting from the first budget, since a notice is short.       *)
LEMMA DigitsFirst ==
    ASSUME NEW a \in Int, NEW b \in Int, 0 < b, b <= a, a <= b + 64
    PROVE  Digits(a) - Digits(b) \in 0..1
  BY DEF Digits

LEMMA Sizes ==
    ASSUME TypeOK
    PROVE  /\ MeasuredValue \in Nat /\ Omitted \in Nat /\ KindLength \in 3..4
           /\ PreviewChars \in Nat /\ InPlace \in Nat
           /\ \A n \in Nat : Frame(n) \in Nat
           /\ Measured \in Nat
           /\ \A n \in Int : Notice(n) \in 54..64
<1>1. value.n \in Nat /\ value.quotes \in Nat
  BY ValueType DEF TypeOK
<1>2. preview.n \in Nat /\ preview.doubled \in Nat /\ limit \in Nat
  BY DEF TypeOK
<1>3. MeasuredValue \in Nat /\ Omitted \in Nat /\ KindLength \in 3..4
  BY <1>1 DEF MeasuredValue, Omitted, KindLength, Smaller, DefaultMaxItems
<1>4. PreviewChars \in Nat /\ InPlace \in Nat
  BY <1>2 DEF PreviewChars, InPlace
<1>5. \A n \in Nat : Frame(n) \in Nat
  <2> SUFFICES ASSUME NEW n \in Nat PROVE Frame(n) \in Nat
    OBVIOUS
  <2>1. /\ Digits(limit) \in Nat /\ Digits(MeasuredValue) \in Nat
        /\ Digits(n) \in Nat /\ Digits(Omitted) \in Nat
    BY <1>2, <1>3, DigitsRange
  <2>2. QED BY <1>3, <2>1 DEF Frame
<1>6. Measured \in Nat
  <2>1. preview.form \in {"plain", "value", "text", "minimal", "bare"}
    BY DEF TypeOK
  <2>2. CASE preview.form = "plain"
    BY <1>1, <1>3, <2>2 DEF Measured
  <2>3. CASE preview.form = "value"
    BY <1>4, <1>5, <2>3 DEF Measured
  <2>4. CASE preview.form = "text"
    BY <1>2, <1>5, <2>4 DEF Measured
  <2>5. CASE preview.form \in {"minimal", "bare"}
    BY <1>3, <2>5 DEF Measured
  <2>6. QED BY <2>1, <2>2, <2>3, <2>4, <2>5
<1>7. \A n \in Int : Notice(n) \in 54..64
  BY DigitsRange DEF Notice, TypeOK
<1>8. QED BY <1>3, <1>4, <1>5, <1>6, <1>7

-----------------------------------------------------------------------------
(* Type correctness.                                                       *)
LEMMA InitType == Init => TypeOK
<1> SUFFICES ASSUME Init PROVE TypeOK
  OBVIOUS
<1>1. session \in Nat \ {0}
  BY BudgetAssumption DEF Init, SessionMax, BudgetAssumption
<1>2. value.wide \in Nat
  BY ValueType DEF Init
<1>3. preview \in [form : {"plain", "value", "text", "minimal", "bare"},
                   n : Nat, doubled : Nat, wide : Nat]
  BY <1>2 DEF Init
<1>4. result \in [cut : {"none", "hard", "notice", "torn"}, length : Nat,
                  shown : Nat, kept : Nat]
  BY DEF Init, NoResult
<1>5. 0 \in Nat /\ 0 \in Int /\ 0 \in 0..MaxAttempts
  BY DEF MaxAttempts
<1>6. QED BY <1>1, <1>3, <1>4, <1>5, Zenon DEF Init, TypeOK, Phases

LEMMA StepType == TypeOK /\ [Next]_vars => TypeOK'
<1> SUFFICES ASSUME TypeOK, [Next]_vars PROVE TypeOK'
  OBVIOUS
<1> USE DEF TypeOK, Phases
<1>0. value.n \in Nat /\ value.quotes \in Nat /\ value.wide \in Nat
  BY ValueType
<1>1. ASSUME NEW asked \in Asked, FitOutput(asked) PROVE TypeOK'
  <2>1. asked # Default => asked \in Nat
    BY <1>1, BudgetAssumption DEF FitOutput, BudgetAssumption
  <2>2. limit' \in Nat
    BY <1>1, <2>1 DEF FitOutput, Smaller
  <2>4. truncated' \in BOOLEAN
    BY <1>1, Zenon DEF FitOutput
  <2>3. preview' \in [form : {"plain", "value", "text", "minimal", "bare"},
                      n : Nat, doubled : Nat, wide : Nat]
    <3>1. ASSUME NEW max \in Nat, FitString(max)
          PROVE  preview' \in [form : {"plain", "value", "text", "minimal", "bare"},
                               n : Nat, doubled : Nat, wide : Nat]
      <4>1. Bigger(1, max - 3) \in Nat
        BY DEF Bigger
      <4>2. CASE value.n <= max
        <5>1. preview' = [form |-> "value", n |-> value.n, doubled |-> value.quotes,
                          wide |-> value.wide]
          BY <3>1, <4>2, Zenon DEF FitString
        <5>2. QED BY <1>0, <5>1
      <4>3. CASE ~(value.n <= max)
        <5>1. PICK q \in 0..Smaller(value.quotes, Bigger(1, max - 3)),
                   w \in 0..Smaller(value.wide, Bigger(1, max - 3)) :
                 preview' = [form |-> "value", n |-> Bigger(1, max - 3) + 3,
                             doubled |-> q, wide |-> w]
          BY <3>1, <4>3 DEF FitString
        <5>2. q \in Nat /\ w \in Nat
          BY <1>0, <4>1 DEF Smaller
        <5>3. QED BY <4>1, <5>1, <5>2
      <4>4. QED BY <4>2, <4>3
    <3>2. CASE FitList
      BY <1>0, <3>2 DEF FitList, Smaller, DefaultMaxItems
    <3>3. FitString(limit') \/ FitList
      BY <1>1 DEF FitOutput
    <3>4. QED BY <2>2, <3>1, <3>2, <3>3
  <2>5. QED BY <1>1, <2>2, <2>3, <2>4 DEF FitOutput, cut
<1>2. ASSUME NEW asked \in Asked, FitRefused(asked) PROVE TypeOK'
  BY <1>2 DEF FitRefused, fit, cut
<1>3. CASE FitsAsItIs
  BY <1>3 DEF FitsAsItIs, fit, cut
<1>4. CASE AsText
  <2>1. preview' \in [form : {"plain", "value", "text", "minimal", "bare"},
                      n : Nat, doubled : Nat, wide : Nat]
    BY <1>4, Sizes DEF AsText
  <2>2. QED BY <1>4, <2>1 DEF AsText, cut
<1>5. CASE Shrink
  <2>1. preview' \in [form : {"plain", "value", "text", "minimal", "bare"},
                      n : Nat, doubled : Nat, wide : Nat]
    BY <1>5, Sizes DEF Shrink, Bigger, Smaller
  <2>2. QED BY <1>5, <2>1 DEF Shrink, cut
<1>6. CASE Shrunk
  BY <1>6 DEF Shrunk, cut
<1>7. CASE Return
  BY <1>7 DEF Return, fit, cut
<1>8. ASSUME NEW printed \in Printed, Complete(printed) PROVE TypeOK'
  <2>1. printed \in Nat
    BY BudgetAssumption DEF BudgetAssumption
  <2>2. output' \in Nat
    BY <1>8, <2>1, Sizes DEF Complete, Smaller
  <2>3. QED BY <1>8, <2>2 DEF Complete, fit, cut
<1>9. CASE Whole
  BY <1>9 DEF Whole, Deliver, fit, cut
<1>10. CASE FirstNotice
  BY <1>10, Sizes DEF FirstNotice, Deliver, HardCut, fit
<1>11. CASE Attempt
  <2>1. budget' \in Int /\ shown' \in Nat /\ attempts' \in 0..MaxAttempts
    BY <1>11, Sizes DEF Attempt, Bigger, MaxAttempts
  <2>2. CASE budget' = budget
    BY <1>11, <2>1, <2>2 DEF Attempt, fit
  <2>3. CASE budget' # budget /\ budget' <= 0
    <3>1. result' = HardCut /\ phase' = "done"
      BY <1>11, <2>1, <2>3 DEF Attempt, Deliver
    <3>2. QED BY <1>11, <2>1, <3>1 DEF Attempt, HardCut, fit
  <2>4. CASE budget' # budget /\ budget' > 0
    BY <1>11, <2>1, <2>4 DEF Attempt, fit
  <2>5. QED BY <2>1, <2>2, <2>3, <2>4
<1>12. CASE Bound
  BY <1>12, Sizes DEF Bound, Deliver, Bigger, Smaller, fit, cut
<1>13. CASE UNCHANGED vars
  BY <1>13 DEF vars, fit, cut
<1>14. QED
  BY <1>1, <1>2, <1>3, <1>4, <1>5, <1>6, <1>7, <1>8, <1>9, <1>10, <1>11, <1>12, <1>13
     DEF Next

(* Every variable keeps its type, for any values, settings and limits      *)
(* (OutputBudget).                                                         *)
THEOREM TypeCorrect == Spec => []TypeOK
<1>1. QED BY InitType, StepType, PTL DEF Spec

-----------------------------------------------------------------------------
(* The inductive invariant: where the value has come to in fit_output, and *)
(* what the host knows of its length and of the notice.                    *)
Beyond == {"returned", "host", "cutting", "noticed", "done"}

FitInv ==
    /\ limit <= session
    /\ phase \in {"program", "measure"} => shrinks = 0
    /\ phase = "program" => preview.form = "plain"
    /\ phase = "measure" => preview.form = "value"
    /\ phase = "shrinking" => preview.form = "text"
    /\ OneShrink
    /\ phase \in Beyond /\ Fitted =>
          \/ Measured <= limit
          \/ preview.form = "bare" /\ limit < 89 + KindLength

NoticeInv ==
    /\ phase \in {"cutting", "noticed"} =>
          output > session /\ budget > 0 /\ budget = session - Notice(shown)
    /\ phase = "cutting" /\ attempts = 0 => shown = session
    /\ phase = "noticed" \/ (phase = "cutting" /\ attempts > 0)
          => shown - budget \in -1..1
    /\ phase \notin {"cutting", "noticed", "done"} => attempts = 0
    /\ ResultBounded
    /\ NoticeTrue
    /\ phase = "done" /\ result.cut # "none" => output > session

BudgetInv == TypeOK /\ FitInv /\ NoticeInv

LEMMA Implies == BudgetInv => WithinBudget
<1> SUFFICES ASSUME BudgetInv PROVE WithinBudget
  OBVIOUS
<1>1. FitKeepsLimit
  BY DEF BudgetInv, FitInv, Beyond, FitKeepsLimit
<1>2. FittedArrives
  BY Sizes DEF BudgetInv, FitInv, NoticeInv, FittedArrives, TypeOK
<1>3. QED
  BY <1>1, <1>2 DEF BudgetInv, FitInv, NoticeInv, WithinBudget

(* What is built of a result and what its lengths are do not change on the *)
(* host.                                                                   *)
LEMMA SameSize ==
    ASSUME UNCHANGED <<value, limit, preview, truncated>>
    PROVE  /\ Measured' = Measured /\ KindLength' = KindLength /\ Fitted' = Fitted
  BY DEF Measured, KindLength, Fitted, Frame, PreviewChars, InPlace, MeasuredValue,
         Omitted, Digits, Smaller, DefaultMaxItems

LEMMA SameNotice ==
    ASSUME UNCHANGED output
    PROVE  \A n : Notice(n)' = Notice(n)
  BY DEF Notice, Digits

LEMMA FitOnHost ==
    ASSUME FitInv, UNCHANGED <<session, value, fit>>, phase \in Beyond, phase' \in Beyond
    PROVE  FitInv'
  BY SameSize DEF FitInv, fit, Beyond, OneShrink

LEMMA NoticeBefore ==
    ASSUME NoticeInv, attempts' = attempts, phase \notin {"cutting", "noticed", "done"},
           phase' \notin {"cutting", "noticed", "done"}
    PROVE  NoticeInv'
  BY DEF NoticeInv, ResultBounded, NoticeTrue

(* One round takes off what is too much: the three dots are made up for,   *)
(* each character left out was written as one or two, and the number of    *)
(* characters of the preview gets no longer.                               *)
LEMMA ShrinkEnough ==
    ASSUME TypeOK, preview.form = "text", Shrink
    PROVE  /\ preview'.form = "text"
           /\ Measured' <= limit \/ preview'.n <= 4
<1> DEFINE shrinkBy == Bigger(Measured - limit + 3, 8)
           next     == Bigger(1, preview.n - shrinkBy)
<1>1. /\ preview.n \in Nat /\ preview.doubled \in Nat
      /\ Measured \in Nat /\ limit \in Nat
  BY Sizes DEF TypeOK
<1>2. PICK d \in Bigger(0, preview.doubled - (preview.n - next))..Smaller(preview.doubled, next),
           w \in Bigger(0, preview.wide - (preview.n - next))..Smaller(preview.wide, next) :
        preview' = [form |-> "text", n |-> next + 3, doubled |-> d, wide |-> w]
  BY DEF Shrink
<1>3. shrinkBy \in Int /\ shrinkBy >= Measured - limit + 3 /\ shrinkBy >= 8
  BY <1>1 DEF Bigger
<1>4. next \in Nat /\ (next = 1 \/ next = preview.n - shrinkBy)
  BY <1>1, <1>3 DEF Bigger
<1>5. d \in Int /\ d <= preview.doubled
  BY <1>1, <1>2, <1>4 DEF Smaller, Bigger
<1>6. CASE next = 1
  BY <1>2, <1>6
<1>7. CASE next = preview.n - shrinkBy
  <2> HIDE DEF shrinkBy, next
  <2>1. preview'.n = next + 3 /\ preview'.doubled = d /\ preview'.form = "text"
    BY <1>2
  <2>2. preview'.n \in Nat /\ preview'.n <= preview.n - (Measured - limit)
                          /\ preview'.n <= preview.n
    BY <1>1, <1>3, <1>4, <1>7, <2>1
  <2>3. Digits(preview'.n) <= Digits(preview.n)
    BY <1>1, <2>2, DigitsMonotone
  <2>4. UNCHANGED <<value, limit, truncated>>
    BY DEF Shrink
  <2>5. /\ MeasuredValue' = MeasuredValue /\ Omitted' = Omitted /\ KindLength' = KindLength
        /\ Digits(limit)' = Digits(limit)
        /\ Digits(MeasuredValue)' = Digits(MeasuredValue)
        /\ Digits(Omitted)' = Digits(Omitted)
    BY <2>4 DEF MeasuredValue, Omitted, KindLength, Digits, Smaller, DefaultMaxItems
  <2> DEFINE rest == 288 + KindLength + Digits(limit) + Digits(MeasuredValue)
                       + Digits(Omitted) + (IF truncated THEN 4 ELSE 5) + 29
  <2>6. rest \in Nat /\ Digits(preview.n) \in Nat /\ Digits(preview'.n) \in Nat
    <3>1. /\ Digits(limit) \in Nat /\ Digits(MeasuredValue) \in Nat
          /\ Digits(Omitted) \in Nat /\ Digits(preview.n) \in Nat
          /\ Digits(preview'.n) \in Nat
      BY <1>1, <2>2, Sizes, DigitsRange
    <3>2. QED BY <3>1, Sizes
  <2>7. Measured = rest + Digits(preview.n) + preview.n + preview.doubled
    <3>1. Measured = Frame(preview.n) + 29 + preview.n + preview.doubled
      BY DEF Measured
    <3>2. /\ Digits(limit) \in Nat /\ Digits(MeasuredValue) \in Nat
          /\ Digits(Omitted) \in Nat /\ Digits(preview.n) \in Nat
      BY <1>1, Sizes, DigitsRange
    <3>3. QED BY <1>1, <3>1, <3>2, Sizes DEF Frame
  <2>8. Measured' = rest + Digits(preview'.n) + preview'.n + preview'.doubled
    <3>1. Measured' = Frame(preview.n)' + 29 + preview'.n + preview'.doubled
      BY <2>1 DEF Measured
    <3>2. Frame(preview.n)' = 288 + KindLength + Digits(limit) + Digits(MeasuredValue)
                                + Digits(preview'.n) + Digits(Omitted)
                                + (IF truncated THEN 4 ELSE 5)
      BY <2>4, <2>5 DEF Frame
    <3>3. /\ Digits(limit) \in Nat /\ Digits(MeasuredValue) \in Nat
          /\ Digits(Omitted) \in Nat /\ Digits(preview'.n) \in Nat
      BY <1>1, <2>2, Sizes, DigitsRange
    <3>4. QED BY <1>5, <2>1, <2>2, <3>1, <3>2, <3>3, Sizes
  <2> HIDE DEF rest
  <2>9. Measured' <= Measured - (Measured - limit)
    BY <1>1, <1>5, <2>1, <2>2, <2>3, <2>6, <2>7, <2>8
  <2>10. QED BY <1>1, <2>1, <2>9
<1>8. QED BY <1>4, <1>6, <1>7

LEMMA InitBudget == Init => FitInv /\ NoticeInv
<1> SUFFICES ASSUME Init PROVE FitInv /\ NoticeInv
  OBVIOUS
<1>1. TypeOK
  BY InitType
<1>2. QED
  BY <1>1 DEF Init, FitInv, NoticeInv, OneShrink, ResultBounded, NoticeTrue, Beyond, TypeOK

LEMMA StepFit == TypeOK /\ FitInv /\ [Next]_vars => FitInv'
<1> SUFFICES ASSUME TypeOK, FitInv, [Next]_vars PROVE FitInv'
  OBVIOUS
<1> USE DEF Beyond
<1>0. session \in Nat /\ limit \in Nat /\ shrinks \in Nat /\ Measured \in Nat
  BY Sizes DEF TypeOK
<1>1. ASSUME NEW asked \in Asked, FitOutput(asked) PROVE FitInv'
  <2>1. asked # Default => asked \in Nat
    BY <1>1, BudgetAssumption DEF FitOutput, BudgetAssumption
  <2>2. limit' <= session' /\ phase' = "measure" /\ shrinks' = 0
    BY <1>0, <1>1, <2>1 DEF FitOutput, FitInv, Smaller
  <2>3. preview'.form = "value"
    BY <1>1 DEF FitOutput, FitString, FitList
  <2>4. QED BY <2>2, <2>3 DEF FitInv, OneShrink
<1>2. ASSUME NEW asked \in Asked, FitRefused(asked) PROVE FitInv'
  BY <1>2 DEF FitRefused, FitInv, fit, OneShrink
<1>3. CASE FitsAsItIs
  <2>1. Measured' = Measured
    BY <1>3, SameSize DEF FitsAsItIs, fit
  <2>2. QED BY <1>3, <2>1 DEF FitsAsItIs, FitInv, fit, OneShrink
<1>4. CASE AsText
  BY <1>0, <1>4 DEF AsText, FitInv, OneShrink
<1>5. CASE Shrink
  <2>1. preview'.form = "text" /\ (Measured' <= limit' \/ preview'.n <= 4)
    BY <1>5, ShrinkEnough DEF Shrink, FitInv
  <2>2. QED BY <1>5, <2>1 DEF Shrink, FitInv, OneShrink
<1>6. CASE Shrunk
  <2>1. KindLength' = KindLength /\ KindLength \in Nat
    BY <1>6, Sizes DEF Shrunk, KindLength
  <2>2. CASE Measured <= limit
    <3>1. Measured' = Measured
      BY <1>6, <2>2, SameSize DEF Shrunk
    <3>2. QED BY <1>6, <2>2, <3>1 DEF Shrunk, FitInv, OneShrink
  <2>3. CASE ~(Measured <= limit) /\ 89 + KindLength <= limit
    <3>1. preview'.form = "minimal"
      BY <1>6, <2>3 DEF Shrunk
    <3>2. Measured' = 89 + KindLength
      BY <2>1, <3>1 DEF Measured
    <3>3. QED BY <1>6, <2>1, <2>3, <3>1, <3>2 DEF Shrunk, FitInv, OneShrink
  <2>4. CASE ~(Measured <= limit) /\ ~(89 + KindLength <= limit)
    <3>1. preview'.form = "bare" /\ limit' < 89 + KindLength'
      BY <1>0, <1>6, <2>1, <2>4 DEF Shrunk
    <3>2. QED BY <1>6, <3>1 DEF Shrunk, FitInv, OneShrink
  <2>5. QED BY <2>2, <2>3, <2>4
<1>7. CASE Return
  <2>1. ~Fitted'
    BY <1>7 DEF Return, FitInv, Fitted, fit
  <2>2. QED BY <1>7, <2>1 DEF Return, FitInv, fit, OneShrink
<1>8. ASSUME NEW printed \in Printed, Complete(printed) PROVE FitInv'
  BY <1>8, FitOnHost DEF Complete
<1>9. CASE Whole
  BY <1>9, FitOnHost DEF Whole, Deliver
<1>10. CASE FirstNotice
  BY <1>10, FitOnHost DEF FirstNotice, Deliver
<1>11. CASE Attempt
  BY <1>11, FitOnHost DEF Attempt, Deliver
<1>12. CASE Bound
  BY <1>12, FitOnHost DEF Bound, Deliver
<1>13. CASE UNCHANGED vars
  BY <1>13, SameSize DEF vars, fit, FitInv, OneShrink
<1>14. QED
  BY <1>1, <1>2, <1>3, <1>4, <1>5, <1>6, <1>7, <1>8, <1>9, <1>10, <1>11, <1>12, <1>13
     DEF Next

LEMMA StepNotice == TypeOK /\ NoticeInv /\ [Next]_vars => NoticeInv'
<1> SUFFICES ASSUME TypeOK, NoticeInv, [Next]_vars PROVE NoticeInv'
  OBVIOUS
<1>0. /\ session \in Nat \ {0} /\ output \in Nat /\ shown \in Nat /\ budget \in Int
      /\ attempts \in 0..MaxAttempts
      /\ \A n \in Int : Notice(n) \in 54..64
  BY Sizes DEF TypeOK
<1>1. ASSUME NEW asked \in Asked, FitOutput(asked) \/ FitRefused(asked) PROVE NoticeInv'
  BY <1>1, NoticeBefore DEF FitOutput, FitRefused, cut
<1>2. CASE FitsAsItIs \/ AsText \/ Shrink \/ Shrunk \/ Return
  BY <1>2, NoticeBefore DEF FitsAsItIs, AsText, Shrink, Shrunk, Return, cut
<1>3. ASSUME NEW printed \in Printed, Complete(printed) PROVE NoticeInv'
  BY <1>3, NoticeBefore DEF Complete, cut
<1>4. CASE Whole
  BY <1>0, <1>4 DEF Whole, Deliver, NoticeInv, ResultBounded, NoticeTrue, cut
<1>5. CASE FirstNotice
  <2>0. attempts = 0 /\ attempts' = 0
    BY <1>5 DEF FirstNotice, NoticeInv
  <2>1. Notice(session) = Notice(shown)'
    BY <1>5, SameNotice DEF FirstNotice, Notice
  <2>2. CASE session - Notice(session) <= 0
    BY <1>0, <1>5, <2>0, <2>2
       DEF FirstNotice, Deliver, HardCut, NoticeInv, ResultBounded, NoticeTrue
  <2>3. CASE ~(session - Notice(session) <= 0)
    BY <1>0, <1>5, <2>0, <2>1, <2>3
       DEF FirstNotice, NoticeInv, ResultBounded, NoticeTrue
  <2>4. QED BY <2>2, <2>3
<1>6. CASE Attempt
  <2>1. /\ phase = "cutting" /\ output > session /\ budget > 0
        /\ budget = session - Notice(shown)
        /\ attempts = 0 => shown = session
        /\ attempts > 0 => shown - budget \in -1..1
    BY <1>6 DEF Attempt, NoticeInv
  <2>2. /\ shown' = budget /\ budget' = session - Notice(budget) /\ attempts' = attempts + 1
        /\ session' = session /\ output' = output
    BY <1>0, <1>6, <2>1 DEF Attempt, Bigger
  <2>3. Digits(shown) - Digits(budget) \in -1..1
    <3>1. CASE attempts = 0
      <4>1. 0 < budget /\ budget <= shown /\ shown <= budget + 64
        BY <1>0, <2>1, <3>1
      <4>2. QED BY <1>0, <4>1, DigitsFirst
    <3>2. CASE attempts > 0
      BY <1>0, <2>1, <3>2, DigitsStep
    <3>3. QED BY <1>0, <3>1, <3>2
  <2>4. shown' - budget' \in -1..1
    <3>1. /\ Digits(shown) \in Nat /\ Digits(budget) \in Nat /\ Digits(output) \in Nat
      BY <1>0, DigitsRange
    <3>2. QED BY <1>0, <2>1, <2>2, <2>3, <3>1 DEF Notice
  <2>5. Notice(shown)' = Notice(budget)
    BY <2>2, SameNotice DEF Notice
  <2>6. CASE budget' = budget
    <3>1. phase' = "noticed"
      BY <1>6, <2>2, <2>6 DEF Attempt
    <3>2. QED BY <1>0, <2>1, <2>2, <2>4, <2>5, <2>6, <3>1
              DEF NoticeInv, ResultBounded, NoticeTrue
  <2>7. CASE budget' # budget /\ budget' <= 0
    <3>1. phase' = "done" /\ result' = HardCut
      BY <1>6, <2>2, <2>7 DEF Attempt, Deliver
    <3>2. QED BY <1>0, <2>1, <2>2, <3>1 DEF HardCut, NoticeInv, ResultBounded, NoticeTrue
  <2>8. CASE budget' # budget /\ ~(budget' <= 0)
    <3>1. phase' = "cutting"
      BY <1>6, <2>1, <2>2, <2>8 DEF Attempt
    <3>2. QED BY <1>0, <2>1, <2>2, <2>4, <2>5, <2>8, <3>1
              DEF NoticeInv, ResultBounded, NoticeTrue
  <2>9. QED BY <2>6, <2>7, <2>8
<1>7. CASE Bound
  <2>1. /\ output > session /\ budget > 0 /\ budget = session - Notice(shown)
        /\ shown - budget \in -1..1
    BY <1>0, <1>7 DEF Bound, NoticeInv, MaxAttempts
  <2> DEFINE kept == Smaller(output, Bigger(0, budget))
  <2>2. kept = budget
    BY <1>0, <2>1 DEF Smaller, Bigger
  <2>3. budget + Notice(shown) = session
    BY <1>0, <2>1
  <2>4. /\ phase' = "done" /\ session' = session /\ output' = output
        /\ result' = [cut |-> "notice", length |-> session, shown |-> shown, kept |-> budget]
    BY <1>0, <1>7, <2>1, <2>2, <2>3 DEF Bound, Deliver, Smaller
  <2>5. QED BY <1>0, <2>1, <2>4 DEF NoticeInv, ResultBounded, NoticeTrue
<1>8. CASE UNCHANGED vars
  BY <1>8, SameNotice DEF vars, cut, NoticeInv, ResultBounded, NoticeTrue
<1>9. QED
  BY <1>1, <1>2, <1>3, <1>4, <1>5, <1>6, <1>7, <1>8 DEF Next

LEMMA BudgetHolds == Spec => []BudgetInv
<1>1. Init => BudgetInv
  BY InitType, InitBudget DEF BudgetInv
<1>2. BudgetInv /\ [Next]_vars => BudgetInv'
  BY StepType, StepFit, StepNotice DEF BudgetInv
<1>3. QED BY <1>1, <1>2, PTL DEF Spec

(* Whatever a program returns, fits and prints, under any setting: the     *)
(* model gets no more than the setting allows, with a notice that is whole *)
(* and wrong by one at most; fit_output keeps to its limit after at most   *)
(* one round; its result arrives uncut (OutputBudget).                     *)
THEOREM BudgetKept == Spec => []WithinBudget
<1>1. QED BY BudgetHolds, Implies, PTL
=============================================================================
