----------------------------- MODULE Execution -----------------------------
(***************************************************************************)
(* What one code_execution promises its caller, with no process, pipe or   *)
(* frame in it.  A Python program prints texts, may put a stray line on    *)
(* its protocol channel, may complain on stderr, and ends in one of three  *)
(* ways.  The caller sees exactly one outcome, and the outcome tells the   *)
(* truth about the program.  RpcBridge implements this module.             *)
(***************************************************************************)
EXTENDS Naturals, Sequences

VARIABLES
    program,   \* "live", "ok", "failed" (it said or tried to say so), "gone"
    wrote,     \* the texts the program has printed, in order
    noisy,     \* something that is no protocol frame went to its stdout
    told,      \* stderr looks like a Python failure
    outcome,   \* what the promise of CodeExecutor.execute settled to
    output     \* the printed texts a resolved outcome carries

vars == <<program, wrote, noisy, told, outcome, output>>

Endings  == {"ok", "failed", "gone"}
Outcomes == {"pending", "resolved", "python", "protocol", "transport",
             "abort", "timeout"}

Init == /\ program \in {"live", "gone"}
        /\ wrote = <<>>
        /\ noisy = FALSE
        /\ told = FALSE
        /\ outcome = "pending"
        /\ output = <<>>

Write == /\ program = "live"
         /\ wrote' = Append(wrote, Len(wrote) + 1)
         /\ UNCHANGED <<program, noisy, told, outcome, output>>

Mutter == /\ noisy' = TRUE
          /\ UNCHANGED <<program, wrote, told, outcome, output>>

Complain == /\ told' = TRUE
            /\ UNCHANGED <<program, wrote, noisy, outcome, output>>

(* The last frame may be torn by a death, or be one the caller's side      *)
(* refuses.  A program is gone when it ends without a word: it died or     *)
(* closed its channel.                                                     *)
End(e) == /\ program = "live"
          /\ program' = e
          /\ noisy' \in {noisy, noisy \/ e # "failed"}
          /\ UNCHANGED <<wrote, told, outcome, output>>

(* The facts about the program that justify each outcome.                  *)
Justified(o) ==
    CASE o = "resolved"  -> program = "ok"
      [] o = "python"    -> \/ program = "failed"
                            \/ program = "gone" /\ told /\ ~noisy
      [] o = "transport" -> program = "gone" /\ ~noisy
      [] o = "protocol"  -> noisy
      [] OTHER           -> TRUE

(* Of texts, some of them, in the order they were written.                 *)
Excerpt(s, texts) ==
    /\ s \in Seq(1..Len(texts))
    /\ \A i, j \in DOMAIN s : i < j => s[i] < s[j]

(* A resolved outcome carries every text, unless a noisy channel swallowed *)
(* some.                                                                   *)
Settle(o) == /\ outcome = "pending"
             /\ Justified(o)
             /\ outcome' = o
             /\ IF o # "resolved" THEN output' = output
                ELSE output' = wrote \/ (noisy /\ Excerpt(output', wrote))
             /\ UNCHANGED <<program, wrote, noisy, told>>

Next == \/ Write \/ Mutter \/ Complain
        \/ \E e \in Endings : End(e)
        \/ \E o \in Outcomes \ {"pending"} : Settle(o)

Spec == Init /\ [][Next]_vars
=============================================================================
