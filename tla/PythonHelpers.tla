--------------------------- MODULE PythonHelpers ---------------------------
(***************************************************************************)
(* A call from a Python program to a tool, from the schema the program     *)
(* reads with ptc.help to the value it gets back.  The tools are those of  *)
(* the execution (CodeExecutor.execute, createCallableToolRuntime); each   *)
(* becomes a generated Python function (tool-wrapper.ts), five of which    *)
(* runtime.py wraps once more.  On the host runTool looks the tool up,     *)
(* checks the parameters and executes it, and normalizeToolResult shapes   *)
(* the result.  The registry goes on changing all the while.               *)
(*                                                                         *)
(* Values are left out: an argument is the name of the parameter that the  *)
(* program means it for, or Null.  Which tools the registry holds at a     *)
(* time is the business of ToolPolicy.                                     *)
(***************************************************************************)
EXTENDS Integers, Sequences, FiniteSets

CONSTANTS Words,       \* the names of tools and parameters
          Registries,  \* the sets of callable tools there may be
          Null,        \* None in Python, null in JSON
          Rebound,     \* names the text of the program binds after the helpers
          LookedUp     \* names it looks up then, in its module and the builtins

\* A tool: pythonName or "", the names of its parameters as they are declared, those
\* that are required, those that may be null, and whether it sends a ptcValue.
Definition == [name : Words, py : Words, params : Seq(Words),
               req : SUBSET Words, nul : SUBSET Words, structured : BOOLEAN]

Params(d) == {d.params[i] : i \in DOMAIN d.params}

\* Rebound has asyncio (code-executor.ts:53) and what runtime.py imports from typing;
\* its own functions, _generated_grep and the like, are left out.  LookedUp has json,
\* sys and isinstance (rpc.py), globals, dict and list (runtime.py) and many more.
ASSUME HelpersAssumption ==
    /\ {"", "path", "pattern"} \subseteq Words
    /\ Null \notin Words
    /\ \A defs \in Registries :
          /\ IsFiniteSet(defs) /\ defs \subseteq Definition
          /\ \A d, e \in defs : d.name = e.name => d = e
          /\ \A d \in defs :
                /\ d.req \subseteq Params(d) /\ d.nul \subseteq Params(d)
                /\ \A i, j \in DOMAIN d.params : d.params[i] = d.params[j] => i = j

VARIABLES registry,  \* the callable tools now
          phase,     \* where the execution or its call is
          tools,     \* callableTools of the execution, _PTC_CALLABLE_TOOL_METADATA
          asked,     \* what ptc.help returned, as <<definition>>
          given,     \* the arguments of the call
          frame,     \* the tool_call frame
          served,    \* the tool that runTool executed, as <<definition>>
          kind       \* of the value that came back

vars == <<registry, phase, tools, asked, given, frame, served, kind>>

NoArguments == [first |-> 0, named |-> {}, none |-> {}]
NoFrame     == [tool |-> "", params |-> {}]

Init ==
    /\ registry \in Registries
    /\ phase = "idle"
    /\ tools = <<>>
    /\ asked = <<>> /\ given = NoArguments /\ frame = NoFrame
    /\ served = <<>> /\ kind = "none"

-----------------------------------------------------------------------------
(***************************************************************************)
(* Helpers and their names.                                                *)
(***************************************************************************)
Helper(d) == IF d.py # "" THEN d.py ELSE d.name

Reserved == {"ptc", "_rpc_call", "_ptc_drop_none", "read", "find", "glob", "grep",
             "sg", "ls", "bash", "edit", "write"}

\* Mutant: only reserved names are looked at.
ReservedKept(defs) ==
    \A d \in defs : Helper(d) \in Reserved => Helper(d) = d.name

NamesValid(defs) ==
    /\ \A d, e \in defs : Helper(d) = Helper(e) => d = e
    /\ \A d \in defs : Helper(d) \in Reserved => Helper(d) = d.name

\* The function that is generated for read ignores its pythonName and its schema.
ReadParams  == {"path", "offset", "limit", "symbol", "map"}
Defined(d)  == IF d.name = "read" THEN "read" ELSE Helper(d)
Formals(d)  == IF d.name = "read" THEN ReadParams ELSE Params(d)

\* Parameters without a default; all others are keyword-only.
Mandatory(d) == IF d.name = "read" THEN {"path"} ELSE d.req \ d.nul

\* The place of a parameter among some of a tool's.
Before(d, p, q) == \E i, j \in DOMAIN d.params : d.params[i] = p /\ d.params[j] = q /\ i <= j
Place(d, some, p) == Cardinality({q \in some : Before(d, q, p)})

\* What runtime.py wraps takes one positional argument, whatever the schema says.
Rewrapped   == {"grep", "read", "find", "glob", "ls"}
FirstOf(h)  == IF h \in {"read", "ls"} THEN "path" ELSE "pattern"

\* The parameter, if any, that takes the i-th positional argument, and the one the
\* program means: the i-th of "required" in the schema, which keeps their order.
Takes(d, i) == IF Defined(d) \in Rewrapped
               THEN {p \in {FirstOf(Defined(d))} : i = 1}
               ELSE {p \in Mandatory(d) : Place(d, Mandatory(d), p) = i}
Meant(d, i) == {q \in d.req : Place(d, d.req, q) = i}

First(d, n) == UNION {Meant(d, i) : i \in 1..n}

-----------------------------------------------------------------------------
(***************************************************************************)
(* The registry and the start of an execution.                             *)
(***************************************************************************)
Change ==
    /\ registry' \in Registries
    /\ UNCHANGED <<phase, tools, asked, given, frame, served, kind>>

Begin ==
    /\ phase = "idle"
    /\ NamesValid(registry)
    /\ \E list \in [1..Cardinality(registry) -> registry] :
          /\ {list[i] : i \in DOMAIN list} = registry
          /\ tools' = list
    /\ phase' = "program"
    /\ UNCHANGED <<registry, asked, given, frame, served, kind>>

\* validatePythonHelperNames throws, and no execution starts.
BeginFails ==
    /\ phase = "idle"
    /\ ~NamesValid(registry)
    /\ phase' = "refused"
    /\ UNCHANGED <<registry, tools, asked, given, frame, served, kind>>

End ==
    /\ phase # "idle"
    /\ phase' = "idle"
    /\ tools' = <<>>
    /\ asked' = <<>> /\ given' = NoArguments /\ frame' = NoFrame
    /\ served' = <<>> /\ kind' = "none"
    /\ UNCHANGED registry

Tools == {tools[i] : i \in DOMAIN tools}

(***************************************************************************)
(* In the program.                                                         *)
(***************************************************************************)

\* _callable_tool_lookup knows an entry by both names, and the later entry wins.
Keys(d) == {d.name, Helper(d)}

Help(key) ==
    /\ phase \in {"program", "raised", "rejected", "returned", "lost"}
    /\ \E i \in DOMAIN tools :
          /\ key \in Keys(tools[i])
          /\ \A j \in DOMAIN tools : key \in Keys(tools[j]) => j <= i
          /\ asked' = <<tools[i]>>
    /\ phase' = "asked"
    /\ given' = NoArguments /\ frame' = NoFrame /\ served' = <<>> /\ kind' = "none"
    /\ UNCHANGED <<registry, tools>>

\* Arguments as the schema of d has them: the first required ones by position, the
\* rest by name, and None where d allows it or, with a helper, for what is optional.
Follows(d, args, mayBeNone) ==
    /\ \A i \in 1..args.first : Meant(d, i) # {}
    /\ args.named \cup args.none \subseteq Params(d) \ First(d, args.first)
    /\ args.named \cap args.none = {}
    /\ args.none \subseteq mayBeNone
    /\ d.req \subseteq First(d, args.first) \cup args.named \cup args.none

Arguments(d) == [first : 0..Len(d.params), named : SUBSET Params(d), none : SUBSET Params(d)]

\* What the parameters of d get: a set of pairs of a parameter and a value.
Positional(d, args) ==
    UNION {Takes(d, i) \X Meant(asked[1], i) : i \in 1..args.first}
Bound(d, args) ==
    Positional(d, args) \cup {<<p, p>> : p \in args.named} \cup {<<p, Null>> : p \in args.none}

\* Python raises a TypeError.
Mismatch(d, args) ==
    LET byPosition == UNION {Takes(d, i) : i \in 1..args.first}
        byName     == args.named \cup args.none
    IN \/ \E i \in 1..args.first : Takes(d, i) = {}
       \/ byPosition \cap byName # {}
       \/ ~(byPosition \cup byName \subseteq Formals(d))
       \/ ~(Mandatory(d) \subseteq byPosition \cup byName)

\* _ptc_drop_none
DropNone(pairs) == {pair \in pairs : pair[2] # Null}

\* The program calls the helper that the metadata names.
CallHelper(args) ==
    /\ phase = "asked"
    /\ Helper(asked[1]) \notin Rebound
    /\ Follows(asked[1], args, (Params(asked[1]) \ asked[1].req) \cup asked[1].nul)
    /\ given' = args
    /\ \E d \in Tools :
          /\ Defined(d) = Helper(asked[1])
          /\ IF Mismatch(d, args)
             THEN phase' = "raised" /\ frame' = frame
             ELSE /\ phase' = "called"
                  /\ frame' = [tool |-> d.name, params |-> DropNone(Bound(d, args))]
    /\ UNCHANGED <<registry, tools, asked, served, kind>>

\* There is no function of that name, or it is now the name of something else.
HelperMissing ==
    /\ phase = "asked"
    /\ \/ Helper(asked[1]) \in Rebound
       \/ \A d \in Tools : Defined(d) # Helper(asked[1])
    /\ phase' = "raised"
    /\ UNCHANGED <<registry, tools, asked, given, frame, served, kind>>

\* ptc.batch_tool, first_success and reduce_tool take the tool's name and a
\* dictionary, which goes to the host as it is.
CallByName(args) ==
    /\ phase = "asked"
    /\ args.first = 0
    /\ Follows(asked[1], args, asked[1].nul)
    /\ given' = args
    /\ frame' = [tool |-> asked[1].name, params |-> Bound(asked[1], args)]
    /\ phase' = "called"
    /\ UNCHANGED <<registry, tools, asked, served, kind>>

(***************************************************************************)
(* On the host.                                                            *)
(***************************************************************************)

\* Value.Check on an object with required properties; further ones may be there.
Conforms(d, params) ==
    /\ d.req \subseteq {pair[1] : pair \in params}
    /\ \A pair \in params : pair[1] \in Params(d) /\ pair[2] = Null => pair[1] \in d.nul

\* Mutant: runTool looks the tool up in the registry as it is.
ServeCurrent ==
    /\ phase = "called"
    /\ \E d \in registry :
          /\ d.name = frame.tool
          /\ IF Conforms(d, frame.params)
             THEN phase' = "served" /\ served' = <<d>>
             ELSE phase' = "rejected" /\ UNCHANGED served
    /\ UNCHANGED <<registry, tools, asked, given, frame, kind>>

Serve ==
    /\ phase = "called"
    /\ \E d \in Tools :
          /\ d.name = frame.tool
          /\ IF Conforms(d, frame.params)
             THEN phase' = "served" /\ served' = <<d>>
             ELSE phase' = "rejected" /\ UNCHANGED served
    /\ UNCHANGED <<registry, tools, asked, given, frame, kind>>

Kinds == {"text", "list", "record", "any"}

\* getPythonReturnType: what the helper is declared to return.
Declared(name) ==
    CASE name = "read"                           -> {"text", "record"}
      [] name \in {"find", "glob", "ls"}         -> {"list"}
      [] name = "grep"                           -> {"list", "record"}
      [] name \in {"sg", "bash", "edit", "write"} -> {"record"}
      [] OTHER                                   -> Kinds

\* normalizeToolResult, for a result that is text only.
Adapted(name) ==
    CASE name \in {"find", "glob", "ls", "grep"} -> "list"
      [] name \in {"bash", "edit", "write"}      -> "record"
      [] OTHER                                   -> "text"

\* A tool that sends a ptcValue is taken to send one of the declared kind.
Answer ==
    /\ phase = "served"
    /\ phase' = "returned"
    /\ kind' \in IF served[1].structured THEN Declared(frame.tool)
                 ELSE {Adapted(frame.tool)}
    /\ UNCHANGED <<registry, tools, asked, given, frame, served>>

\* A helper replaces what rpc.py or runtime.py means by its name.  Which name breaks
\* what is left open: the start of the program (list), a call before it is sent or the
\* way of its answer (json), or none of these.
Shadowed == \E d \in Tools : Defined(d) \in LookedUp

Break ==
    /\ Shadowed
    /\ \/ phase = "program" /\ phase' = "died"
       \/ phase = "asked" /\ phase' = "raised"
       \/ phase = "served" /\ phase' = "lost"
    /\ UNCHANGED <<registry, tools, asked, given, frame, served, kind>>

Next ==
    \/ Change \/ Begin \/ BeginFails \/ End
    \/ \E d \in Tools : \E key \in Keys(d) : Help(key)
    \/ \E d \in {asked[i] : i \in DOMAIN asked} : \E args \in Arguments(d) :
          CallHelper(args) \/ CallByName(args)
    \/ HelperMissing
    \/ Serve \/ Answer \/ Break

Spec == Init /\ [][Next]_vars

-----------------------------------------------------------------------------
(***************************************************************************)
(* Properties.                                                             *)
(***************************************************************************)
Phases == {"idle", "refused", "program", "asked", "called", "raised", "rejected",
           "served", "returned", "lost", "died"}

\* The types of the variables; no two tools of an execution share a helper.
TypeOK ==
    /\ registry \in Registries
    /\ phase \in Phases
    /\ tools \in Seq(Definition)
    /\ \A d, e \in Tools : Helper(d) = Helper(e) \/ d.name = e.name => d = e
    /\ asked = <<>> \/ \E d \in Tools : asked = <<d>>
    /\ given \in [first : Nat, named : SUBSET Words, none : SUBSET Words]
    /\ frame.tool \in Words
    /\ frame.params \subseteq Words \X (Words \cup {Null})
    /\ served = <<>> \/ served[1] \in Definition
    /\ kind \in Kinds \cup {"none"}

\* What was executed is what the program read about, with the arguments it meant and
\* no others, however the registry changed: a call that binds or validates otherwise
\* than its schema says never gets as far.
AsMeant ==
    served # <<>> =>
        /\ served = asked
        /\ DropNone(frame.params) =
              {<<p, p>> : p \in First(asked[1], given.first) \cup given.named}
        /\ \A pair \in frame.params : pair[2] = Null => pair[1] \in asked[1].nul

\* Where the schema and the function differ: read has a function of its own, the
\* functions of runtime.py have a first parameter of their own, and a parameter that
\* is required but may be null becomes optional, and is dropped when it is None.
RenamedRead(d) == d.name = "read" /\ Helper(d) # "read"
OtherRead(d)   == d.name = "read" /\ ~(d.req = {"path"} /\ Params(d) \subseteq ReadParams)
OtherFirst(d)  == Defined(d) \in Rewrapped /\ ~(d.req \subseteq {FirstOf(Defined(d))})
NullRequired(d, args) == /\ d.req \cap d.nul # {}
                         /\ args.first > 0 \/ args.none \cap d.req # {}

Misfits ==
    \/ RenamedRead(asked[1]) \/ OtherRead(asked[1])
    \/ OtherFirst(asked[1]) /\ given.first > 0
    \/ NullRequired(asked[1], given)

\* A call that follows the schema is rejected by the host for these reasons only, and
\* fails in the program for these, because its helper has a name that the program binds
\* again, or because some helper has a name that the program looks up.
RefusedForAReason ==
    /\ phase = "raised" => Misfits \/ Helper(asked[1]) \in Rebound \/ Shadowed
    /\ phase = "rejected" => Misfits

\* A value is of the kind that its helper declares, unless sg sends text only.
AnsweredAsDeclared ==
    phase = "returned" =>
        \/ kind \in Declared(asked[1].name)
        \/ asked[1].name = "sg" /\ ~asked[1].structured

\* A call that follows what ptc.help says arrives as it was meant, or fails for one of
\* the reasons above, and its value is what was declared (code-executor.ts:62).
CallArrives == AsMeant /\ RefusedForAReason /\ AnsweredAsDeclared
=============================================================================
