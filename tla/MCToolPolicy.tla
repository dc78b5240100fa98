---------------------------- MODULE MCToolPolicy ----------------------------
(* Model checking of ToolPolicy with a builtin tool that reads, one that   *)
(* does not, and the tool of an extension; the metadata are those of the   *)
(* README and of tests, old and new style.                                 *)
EXTENDS ToolPolicy

MCNames   == {"read", "bash", "query"}
MCBuiltin == {"read", "bash"}

Plain == [enabled |-> "unset", callable |-> "unset", readOnly |-> "unset",
          policy |-> "unset", optIn |-> FALSE, callers |-> {}, python |-> None]

(* The first calls itself mutating in the old style and read-only in the   *)
(* new one, the second is callable, though not enabled in the old style,   *)
(* but not by programs, the third opts in and takes the name of another.   *)
MCMetadata ==
    { [Plain EXCEPT !.enabled = "yes", !.readOnly = "no", !.policy = "read-only"],
      [Plain EXCEPT !.enabled = "no", !.callable = "yes", !.policy = "read-only",
                    !.callers = {"direct"}],
      [Plain EXCEPT !.callable = "yes", !.policy = "mutating", !.optIn = TRUE,
                    !.callers = {"code_execution"}, !.python = "read"] }

Open == [mutations |-> TRUE, bash |-> TRUE, allow |-> {}, blocked |-> {}, trusted |-> {}]

MCSettings ==
    { Open,
      [Open EXCEPT !.mutations = FALSE, !.trusted = {"query"}],
      [Open EXCEPT !.bash = FALSE, !.allow = MCNames, !.blocked = {"read"}] }
=============================================================================
