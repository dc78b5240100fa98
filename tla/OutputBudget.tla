---------------------------- MODULE OutputBudget ----------------------------
(***************************************************************************)
(* What a program returns on its way to the model: fit_output in the       *)
(* program (runtime.py), which turns a value into a report on it that is   *)
(* to fit a number of characters, and truncateOutput on the host           *)
(* (utils.ts), which cuts whatever is still too long and says so.  Only    *)
(* lengths are kept.  Python counts code points and JavaScript UTF-16 code *)
(* units: an astral character is one of the former and two of the latter.  *)
(*                                                                         *)
(* A value is a string or a list of one-digit numbers: one whose JSON text *)
(* escapes characters, and one whose text is indented.  fit_output is      *)
(* called with its default max_items and max_depth.                        *)
(***************************************************************************)
EXTENDS Integers

CONSTANTS Envs,     \* what PTC_MAX_OUTPUT_CHARS may hold; 0 stands for anything unusable
          Values,   \* the values a program may return
          Asked,    \* the max_chars it may pass, or Default for none
          Printed,  \* how many characters it may print before it returns
          Default

Value == [sort : {"str", "list"}, n : Nat, quotes : Nat, wide : Nat]

ASSUME BudgetAssumption ==
    /\ Envs \subseteq Nat
    /\ Asked \subseteq Int \cup {Default}
    /\ Default \notin Int
    /\ Printed \subseteq Nat
    /\ Values \subseteq Value
    /\ \A v \in Values :
          /\ v.quotes + v.wide <= v.n
          /\ v.sort = "list" => v.n > 0 /\ v.quotes = 0 /\ v.wide = 0

VARIABLES phase,     \* where the value is
          session,   \* settings.maxOutputChars, PTC_MAX_OUTPUT_CHARS in the program
          value,     \* what the program has
          limit,     \* limits["max_chars"] of the call of fit_output
          preview,   \* the result of fit_output as far as it is built
          truncated, \* its "truncated"
          shrinks,   \* rounds of the loop in _fit_result_to_char_budget
          output,    \* output.length on the host
          shown,     \* the number in the last notice
          budget,    \* payloadBudget
          attempts,  \* rounds of the loop in truncateOutput
          result     \* what the model gets

fit  == <<limit, preview, truncated, shrinks>>
cut  == <<shown, budget, attempts>>
vars == <<phase, session, value, fit, output, cut, result>>

-----------------------------------------------------------------------------
(***************************************************************************)
(* Lengths.                                                                *)
(***************************************************************************)
Bigger(a, b)  == IF a > b THEN a ELSE b
Smaller(a, b) == IF a < b THEN a ELSE b

\* How many digits a number has; no length here has more than six.
Digits(n) == IF n < 10 THEN 1
             ELSE IF n < 100 THEN 2
             ELSE IF n < 1000 THEN 3
             ELSE IF n < 10 * 1000 THEN 4
             ELSE IF n < 100 * 1000 THEN 5 ELSE 6

\* Mutant: a setting of 0 is taken as it is.
SessionMaxUnchecked(env) == env

\* parsePositiveIntEnv(process.env.PTC_MAX_OUTPUT_CHARS, DEFAULT_MAX_OUTPUT_SIZE)
SessionMax(env) == IF env > 0 THEN env ELSE 100 * 1000

\* Indented JSON: a quote in a string takes two characters, a list one line for
\* each number and two for its brackets.
MeasuredValue == IF value.sort = "str" THEN value.n + value.quotes + 2
                 ELSE 5 * value.n + 2

DefaultMaxItems == 10

Omitted == IF value.sort = "list" THEN value.n - Smaller(value.n, DefaultMaxItems) ELSE 0

KindLength == IF value.sort = "str" THEN 3 ELSE 4

\* The result of fit_output without its preview: 288 characters with the defaults
\* for items and depth, the name of the kind and the numbers that vary.
Frame(previewChars) ==
    288 + KindLength + Digits(limit) + Digits(MeasuredValue) + Digits(previewChars)
        + Digits(Omitted) + (IF truncated THEN 4 ELSE 5)

\* The preview as it was before it became a text: alone, and indented as a field.
PreviewChars == IF value.sort = "str" THEN preview.n + preview.doubled + 2
                ELSE 5 * preview.n + 2
InPlace      == IF value.sort = "str" THEN PreviewChars ELSE 7 * preview.n + 4

\* _measure_json_chars(result), and the length of _stringify_output(result).
Measured ==
    CASE preview.form = "plain"   -> IF value.sort = "str" THEN value.n ELSE MeasuredValue
      [] preview.form = "value"   -> Frame(PreviewChars) + InPlace
      [] preview.form = "text"    -> Frame(preview.n) + 29 + preview.n + preview.doubled
      [] preview.form = "minimal" -> 89 + KindLength
      [] preview.form = "bare"    -> 47

\* The notice of truncateOutput for a number of characters.
Notice(chars) == 52 + Digits(chars) + Digits(output)

-----------------------------------------------------------------------------
NoResult == [cut |-> "none", length |-> 0, shown |-> 0, kept |-> 0]

\* preview.n counts characters or items; doubled those that take two characters
\* when the preview is written out; wide the astral ones.
Init ==
    /\ phase = "program"
    /\ \E env \in Envs : session = SessionMax(env)
    /\ value \in Values
    /\ limit = 0
    /\ preview = [form |-> "plain", n |-> 0, doubled |-> 0, wide |-> value.wide]
    /\ truncated = FALSE
    /\ shrinks = 0
    /\ output = 0
    /\ shown = 0 /\ budget = 0 /\ attempts = 0
    /\ result = NoResult

(***************************************************************************)
(* fit_output.  Of a string that is cut, any of its quotes and astral      *)
(* characters may be in the part that is kept.                             *)
(***************************************************************************)
FitString(max) ==
    IF value.n <= max
    THEN preview' = [form |-> "value", n |-> value.n, doubled |-> value.quotes,
                     wide |-> value.wide]
    ELSE LET kept == Bigger(1, max - 3)
         IN \E q \in 0..Smaller(value.quotes, kept), w \in 0..Smaller(value.wide, kept) :
               /\ q + w <= kept
               /\ value.quotes - q + value.wide - w <= value.n - kept
               /\ preview' = [form |-> "value", n |-> kept + 3, doubled |-> q, wide |-> w]

FitList ==
    preview' = [form |-> "value", n |-> Smaller(value.n, DefaultMaxItems),
                doubled |-> 0, wide |-> 0]

FitOutput(asked) ==
    /\ phase = "program"
    /\ asked # Default => asked >= 1
    /\ LET max == IF asked = Default THEN session ELSE Smaller(asked, session)
       IN /\ limit' = max
          /\ IF value.sort = "str" THEN FitString(max) ELSE FitList
          \* a string that is cut measures more than max, and so does its preview then
          /\ truncated' = (Omitted > 0 \/ MeasuredValue > max)
    /\ phase' = "measure"
    /\ UNCHANGED <<session, value, shrinks, output, cut, result>>

\* _normalize_positive_int raises, and the program with it.
FitRefused(asked) ==
    /\ phase = "program"
    /\ asked # Default /\ asked < 1
    /\ phase' = "raised"
    /\ UNCHANGED <<session, value, fit, output, cut, result>>

FitsAsItIs ==
    /\ phase = "measure"
    /\ Measured <= limit
    /\ phase' = "returned"
    /\ UNCHANGED <<session, value, fit, output, cut, result>>

\* The preview becomes its json.dumps(preview, separators=(",", ":")), in which
\* the quotes of a string are escaped, and which is escaped in its turn as a field.
AsText ==
    /\ phase = "measure"
    /\ Measured > limit
    /\ preview' = IF value.sort = "str"
                  THEN [form |-> "text", n |-> PreviewChars,
                        doubled |-> 2 * preview.doubled + 2, wide |-> preview.wide]
                  ELSE [form |-> "text", n |-> 2 * preview.n + 1, doubled |-> 0, wide |-> 0]
    /\ truncated' = TRUE
    /\ phase' = "shrinking"
    /\ UNCHANGED <<session, value, limit, shrinks, output, cut, result>>

\* Mutant: the three dots are not taken off the preview with what is too much.
ShrinkWithoutDots ==
    /\ phase = "shrinking"
    /\ Measured > limit
    /\ preview.n > 4
    /\ preview' = [preview EXCEPT !.n = Bigger(1, @ - Bigger(Measured - limit, 4)) + 3]
    /\ shrinks' = shrinks + 1
    /\ UNCHANGED <<phase, session, value, limit, truncated, output, cut, result>>

\* One round of the loop.  Any of the doubled and astral characters may be in the
\* part that is cut off.
Shrink ==
    /\ phase = "shrinking"
    /\ Measured > limit
    /\ preview.n > 4
    /\ LET shrinkBy == Bigger(Measured - limit + 3, 8)
           next     == Bigger(1, preview.n - shrinkBy)
           dropped  == preview.n - next
       IN \E d \in Bigger(0, preview.doubled - dropped)..Smaller(preview.doubled, next),
             w \in Bigger(0, preview.wide - dropped)..Smaller(preview.wide, next) :
             preview' = [form |-> "text", n |-> next + 3, doubled |-> d, wide |-> w]
    /\ shrinks' = shrinks + 1
    /\ UNCHANGED <<phase, session, value, limit, truncated, output, cut, result>>

Shrunk ==
    /\ phase = "shrinking"
    /\ Measured <= limit \/ preview.n <= 4
    /\ preview' = IF Measured <= limit THEN preview
                  ELSE [form |-> IF 89 + KindLength <= limit THEN "minimal" ELSE "bare",
                        n |-> 0, doubled |-> 0, wide |-> 0]
    /\ phase' = "returned"
    /\ UNCHANGED <<session, value, limit, truncated, shrinks, output, cut, result>>

\* A program may return its value as it is.
Return ==
    /\ phase = "program"
    /\ phase' = "returned"
    /\ UNCHANGED <<session, value, fit, output, cut, result>>

\* _runtime_main's complete frame, and what handleLine makes of it: what was
\* printed comes first and the whole is trimmed.
Complete(printed) ==
    /\ phase = "returned"
    /\ \E trimmed \in 0..Smaller(printed, 1) :
          output' = printed - trimmed + Measured + preview.wide
    /\ phase' = "host"
    /\ UNCHANGED <<session, value, fit, cut, result>>

(***************************************************************************)
(* truncateOutput.                                                         *)
(***************************************************************************)
Deliver(r) == result' = r /\ phase' = "done"

HardCut == [cut |-> "hard", length |-> session, shown |-> 0, kept |-> session]

Whole ==
    /\ phase = "host"
    /\ output <= session
    /\ Deliver([cut |-> "none", length |-> output, shown |-> 0, kept |-> output])
    /\ UNCHANGED <<session, value, fit, output, cut>>

FirstNotice ==
    /\ phase = "host"
    /\ output > session
    /\ shown' = session
    /\ budget' = session - Notice(session)
    /\ IF session - Notice(session) <= 0
       THEN Deliver(HardCut)
       ELSE phase' = "cutting" /\ result' = result
    /\ UNCHANGED <<session, value, fit, output, attempts>>

MaxAttempts == 4

Attempt ==
    /\ phase = "cutting"
    /\ attempts < MaxAttempts
    /\ shown' = Bigger(0, budget)
    /\ attempts' = attempts + 1
    /\ LET next == session - Notice(Bigger(0, budget))
       IN /\ budget' = next
          /\ IF next = budget THEN phase' = "noticed" /\ result' = result
             ELSE IF next <= 0 THEN Deliver(HardCut)
             ELSE UNCHANGED <<phase, result>>
    /\ UNCHANGED <<session, value, fit, output>>

Bound ==
    /\ phase = "noticed" \/ (phase = "cutting" /\ attempts = MaxAttempts)
    /\ LET kept   == Smaller(output, Bigger(0, budget))
           length == kept + Notice(shown)
       IN Deliver([cut |-> IF length <= session THEN "notice" ELSE "torn",
                   length |-> Smaller(length, session), shown |-> shown, kept |-> kept])
    /\ UNCHANGED <<session, value, fit, output, cut>>

Next ==
    \/ \E asked \in Asked : FitOutput(asked) \/ FitRefused(asked)
    \/ FitsAsItIs \/ AsText \/ Shrink \/ Shrunk
    \/ Return
    \/ \E printed \in Printed : Complete(printed)
    \/ Whole \/ FirstNotice \/ Attempt \/ Bound

Spec == Init /\ [][Next]_vars

-----------------------------------------------------------------------------
(***************************************************************************)
(* Properties.                                                             *)
(***************************************************************************)
Phases == {"program", "raised", "measure", "shrinking", "returned", "host",
           "cutting", "noticed", "done"}

\* The types of the variables.
TypeOK ==
    /\ phase \in Phases
    /\ session \in Nat \ {0}
    /\ value \in Values
    /\ limit \in Nat
    /\ preview \in [form : {"plain", "value", "text", "minimal", "bare"},
                    n : Nat, doubled : Nat, wide : Nat]
    /\ truncated \in BOOLEAN
    /\ shrinks \in Nat
    /\ output \in Nat
    /\ shown \in Nat
    /\ budget \in Int
    /\ attempts \in 0..MaxAttempts
    /\ result \in [cut : {"none", "hard", "notice", "torn"}, length : Nat,
                   shown : Nat, kept : Nat]

Fitted == preview.form # "plain"

\* What the model gets is no longer than the setting, and a notice, which is never
\* cut itself, fills it exactly.
ResultBounded ==
    phase = "done" =>
        /\ result.length <= session
        /\ result.cut # "torn"
        /\ result.cut = "notice" => result.length = session

\* The notice changes its own length: the loop may end, as around 1000, without
\* settling, and the number in the notice is then wrong, but by one at most.
NoticeTrue ==
    phase = "done" /\ result.cut = "notice" =>
        /\ result.kept > 0
        /\ result.shown - result.kept \in -1..1

\* fit_output keeps to the limit unless not even the kind and a preview of three
\* dots fit.
FitKeepsLimit ==
    phase = "returned" /\ Fitted =>
        \/ Measured <= limit
        \/ preview.form = "bare" /\ limit < 89 + KindLength

\* The loop of fit_output makes one round at most: what is cut off makes up for the
\* dots and for everything that is too much, however much of it was escaped.
OneShrink ==
    phase = "shrinking" /\ shrinks > 0 => Measured <= limit \/ preview.n <= 4

\* A result of fit_output that keeps to its limit reaches the model uncut, unless
\* the program printed, or a character in it counts twice on the host.
FittedArrives ==
    phase = "done" /\ Fitted /\ Measured <= limit /\ preview.wide = 0
                   /\ output = Measured
        => result.cut = "none"

\* Output budgets hold from the program to the model (utils.ts:123, runtime.py:807).
WithinBudget == ResultBounded /\ NoticeTrue /\ FitKeepsLimit /\ OneShrink /\ FittedArrives
=============================================================================
