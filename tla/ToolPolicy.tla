----------------------------- MODULE ToolPolicy -----------------------------
(***************************************************************************)
(* Which tools a Python program may call and what runs when it does        *)
(* (src/tool-registry.ts), while tools come and go: the custom tools of    *)
(* CustomToolManager, the tools of other extensions, which may override    *)
(* builtin ones and may send their executors over the bridge, Pi's list    *)
(* of active tools, and its narrowing by automatic routing                 *)
(* (src/index.ts).                                                         *)
(*                                                                         *)
(* buildToolMap and getCallableTools are functions of that state and of    *)
(* the settings of the session.  Left out are schemas and descriptions,    *)
(* and glob, an alias that Pi does not list and nobody overrides.          *)
(***************************************************************************)
EXTENDS Naturals, FiniteSets

CONSTANTS
    Names,       \* the names of tools, code_execution not among them
    Builtin,     \* those createBuiltinTools makes
    ReadOnly,    \* those BUILTIN_TOOL_CONTRACTS calls read-only
    Bash,        \* the one PTC_ALLOW_BASH is about
    Metadata,    \* the ptc that tools come with
    Bare,        \* a tool that comes without
    None,        \* no such tool
    Settings,    \* the settings a session may have
    MaxChanges   \* bound on the tools that come and go

YesNo  == {"yes", "no", "unset"}
(* PtcToolOptions; python is pythonName, None when it is not set.          *)
Ptc    == [enabled : YesNo, callable : YesNo, readOnly : YesNo,
           policy : {"read-only", "mutating", "unset"}, optIn : BOOLEAN,
           callers : SUBSET {"direct", "code_execution"}, python : Names \union {None}]

(* An allow of {} is no list: parseListEnv makes an empty one undefined.   *)
PtcSettings == [mutations : BOOLEAN, bash : BOOLEAN, allow : SUBSET Names,
                blocked : SUBSET Names, trusted : SUBSET Names]

ASSUME PolicyAssumption ==
    /\ Builtin \subseteq Names /\ ReadOnly \subseteq Names /\ Bash \in Names
    /\ Metadata \subseteq Ptc
    /\ Bare \notin Ptc /\ None \notin Ptc /\ None # Bare /\ None \notin Names
    /\ Settings \subseteq PtcSettings
    /\ MaxChanges \in Nat

VARIABLES
    settings,    \* of the session
    shows,       \* what Pi's list of tools shows of a tool, "ptc" and "execute"
    custom,      \* customTools, by their metadata
    owned,       \* extensionOwnedToolNames
    sent,        \* extensionExecutors, by theirs
    other,       \* the tools other extensions have registered, by theirs
    pi,          \* whose tool Pi has under a name
    active,      \* Pi's active tools
    saved,       \* activeToolsBeforeRouting, {} when null, else {the list}
    changes      \* how many tools came or went

vars == <<settings, shows, custom, owned, sent, other, pi, active, saved, changes>>

Owners == {"none", "builtin", "manager", "other"}

Init ==
    /\ settings \in Settings
    /\ shows \in SUBSET {"ptc", "execute"}
    /\ custom = [n \in Names |-> None]
    /\ owned = {}
    /\ sent = [n \in Names |-> None]
    /\ other = [n \in Names |-> None]
    /\ pi = [n \in Names |-> IF n \in Builtin THEN "builtin" ELSE "none"]
    /\ active = Builtin
    /\ saved = {}
    /\ changes = 0

-----------------------------------------------------------------------------
(* Reading metadata.                                                       *)

(* normalizePtcToolOptions                                                 *)
Callable(o) == IF o.callable # "unset" THEN o.callable = "yes" ELSE o.enabled = "yes"
Policy(o)   == IF o.policy # "unset" THEN o.policy
               ELSE IF o.readOnly = "yes" THEN "read-only" ELSE "mutating"

Say(b) == IF b THEN "yes" ELSE "no"

(* normalizeStoredPtc                                                      *)
Stored(o) ==
    IF o = Bare THEN Bare
    ELSE [o EXCEPT !.enabled  = IF @ = "unset" THEN Say(Callable(o)) ELSE @,
                   !.callable = Say(Callable(o)),
                   !.readOnly = IF @ = "unset" THEN Say(Policy(o) = "read-only") ELSE @,
                   !.policy   = Policy(o)]

(* classifyTool                                                            *)
IsReadOnly(n, o) == IF o = Bare THEN n \in ReadOnly ELSE Stored(o).readOnly = "yes"

Tool(n, builtin, o, run) ==
    [builtin |-> builtin, ptc |-> Stored(o), readOnly |-> IsReadOnly(n, o), run |-> run]

(* getConfiguredCallers                                                    *)
Callers(t) ==
    IF t.ptc # Bare /\ t.ptc.callers # {} THEN t.ptc.callers
    ELSE IF t.builtin \/ (t.ptc # Bare /\ t.ptc.enabled = "yes")
         THEN {"direct", "code_execution"} ELSE {"direct"}

HelperName(n, t) == IF t.ptc = Bare \/ t.ptc.python = None THEN n ELSE t.ptc.python

-----------------------------------------------------------------------------
(* buildToolMap, given the active tools.                                   *)

(* A builtin, then the executor another extension sent, then a custom tool.*)
Known(n) == n \in Builtin \/ sent[n] # None \/ custom[n] # None
Base(n) ==
    IF custom[n] # None THEN Tool(n, FALSE, custom[n], "manager")
    ELSE IF sent[n] # None THEN Tool(n, n \in Builtin, sent[n], "sent")
    ELSE Tool(n, TRUE, Bare, "builtin")

\* Mutant: a removed tool is not told from one of another extension.
ListsAny(n) == pi[n] # "none"

(* Pi has no way to unregister a tool: removed ones are skipped.           *)
Lists(n) == pi[n] # "none" /\ ~(n \in owned /\ custom[n] = None)

(* The metadata of the tool Pi has under a name, shown or not; of a        *)
(* removed tool they do not matter.                                        *)
PiDefinition(n) ==
    IF pi[n] = "manager" /\ custom[n] # None THEN custom[n]
    ELSE IF pi[n] = "other" THEN other[n] ELSE Bare

PiPtc(n) == IF "ptc" \in shows THEN PiDefinition(n) ELSE Bare

(* Its execute, which is used while the tool is active.                    *)
PiRuns(n, act) == "execute" \in shows /\ n \in act

Listed(n) == Known(n) \/ Lists(n)

(* The entry of a listed tool.  Pi's metadata, when shown, go before those *)
(* known, and its execute before the known one, each for itself.           *)
ToolMap(n, act) ==
    LET run == IF PiRuns(n, act) THEN pi[n] ELSE IF Known(n) THEN Base(n).run ELSE "unavailable"
    IN IF ~Lists(n) \/ (Known(n) /\ Base(n).builtin /\ n \notin act) THEN Base(n)
       ELSE IF ~Known(n) THEN Tool(n, FALSE, PiPtc(n), run)
       ELSE Tool(n, Base(n).builtin, IF PiPtc(n) = Bare THEN Base(n).ptc ELSE PiPtc(n), run)

-----------------------------------------------------------------------------
(* getCallableTools                                                        *)

Trusted(n, t) ==
    /\ ~t.builtin /\ t.ptc # Bare
    /\ Callable(t.ptc) /\ Policy(t.ptc) = "read-only"
    /\ n \in settings.trusted

\* Mutant: a builtin tool is taken to be harmless when it is overridden.
AdmitsBuiltin(n, t) ==
    /\ n \notin settings.blocked
    /\ settings.allow # {} => n \in settings.allow
    /\ n = Bash => settings.bash
    /\ t.ptc # Bare /\ t.ptc.optIn => n \in settings.allow
    /\ settings.mutations \/ t.builtin \/ Trusted(n, t)
    /\ "code_execution" \in Callers(t)
    /\ t.builtin \/ (t.ptc # Bare /\ Callable(t.ptc))

\* Mutant: the allow list does not opt in.
AdmitsNoOptIn(n, t) ==
    /\ n \notin settings.blocked
    /\ settings.allow # {} => n \in settings.allow
    /\ n = Bash => settings.bash
    /\ t.ptc # Bare => ~t.ptc.optIn
    /\ settings.mutations \/ (t.builtin /\ t.readOnly) \/ Trusted(n, t)
    /\ "code_execution" \in Callers(t)
    /\ t.builtin \/ (t.ptc # Bare /\ Callable(t.ptc))

\* Mutant: the callers are not looked at.
AdmitsAnyCaller(n, t) ==
    /\ n \notin settings.blocked
    /\ settings.allow # {} => n \in settings.allow
    /\ n = Bash => settings.bash
    /\ t.ptc # Bare /\ t.ptc.optIn => n \in settings.allow
    /\ settings.mutations \/ (t.builtin /\ t.readOnly) \/ Trusted(n, t)
    /\ t.builtin \/ (t.ptc # Bare /\ Callable(t.ptc))

Admits(n, t) ==
    /\ n \notin settings.blocked
    /\ settings.allow # {} => n \in settings.allow
    /\ n = Bash => settings.bash
    /\ t.ptc # Bare /\ t.ptc.optIn => n \in settings.allow
    /\ settings.mutations \/ (t.builtin /\ t.readOnly) \/ Trusted(n, t)
    /\ "code_execution" \in Callers(t)
    /\ t.builtin \/ (t.ptc # Bare /\ Callable(t.ptc))

CanCall(n, act) == Listed(n) /\ Admits(n, ToolMap(n, act))

(* validatePythonHelperNames accepts the tools; else getCallableTools      *)
(* throws.                                                                 *)
HelpersValid(act) ==
    LET called == {n \in Names : CanCall(n, act)}
        helper(n) == HelperName(n, ToolMap(n, act))
    IN /\ \A m, n \in called : m # n => helper(m) # helper(n)
       /\ \A n \in called : helper(n) \in Builtin \union ReadOnly => helper(n) = n

(* reportAllowlistGaps: why a tool of the allow list cannot be called.     *)
GapReason(n, act) ==
    LET t == ToolMap(n, act)
    IN IF n \in settings.blocked THEN "blocked"
       ELSE IF ~Listed(n) THEN "not present"
       ELSE IF n = Bash /\ ~settings.bash THEN "bash is disabled"
       ELSE IF ~t.builtin /\ ~(t.ptc # Bare /\ Callable(t.ptc)) THEN "missing metadata"
       ELSE IF "code_execution" \notin Callers(t) THEN "callers"
       ELSE IF ~settings.mutations /\ ~t.readOnly THEN "mutating"
       ELSE IF ~settings.mutations /\ ~t.builtin /\ ~Trusted(n, t) THEN "not trusted"
       ELSE "policy"

(* getAutoRoutableToolNames                                                *)
Routable(act) == {n \in Names : CanCall(n, act) /\ "direct" \in Callers(ToolMap(n, act))}

-----------------------------------------------------------------------------
(* Tools come and go.                                                      *)

Change == changes < MaxChanges /\ changes' = changes + 1

(* registerLoadedTool: upsertTool, and setToolActive unless the callers    *)
(* leave out direct calls.                                                 *)
UpsertTool(n, o) ==
    /\ Change
    /\ custom' = [custom EXCEPT ![n] = o]
    /\ owned' = owned \union {n}
    /\ pi' = [pi EXCEPT ![n] = "manager"]
    /\ active' = IF o # Bare /\ o.callers # {} /\ "direct" \notin o.callers
                 THEN active ELSE active \union {n}
    /\ UNCHANGED <<settings, shows, sent, other, saved>>

(* deactivateTool, which calls removeTool.                                 *)
RemoveTool(n) ==
    /\ Change
    /\ custom[n] # None
    /\ custom' = [custom EXCEPT ![n] = None]
    /\ owned' = owned \union {n}
    /\ active' = active \ {n}
    /\ UNCHANGED <<settings, shows, sent, other, pi, saved>>

(* Another extension registers a tool, anew or over any other: Pi has the  *)
(* one that came last.                                                     *)
Register(n, o) ==
    /\ Change
    /\ other' = [other EXCEPT ![n] = o]
    /\ pi' = [pi EXCEPT ![n] = "other"]
    /\ active' = active \union {n}
    /\ UNCHANGED <<settings, shows, custom, owned, sent, saved>>

(* ingestExtensionExecutors gets an executor, with metadata of its own, of *)
(* a tool that need not be registered, or no longer as it was sent.        *)
IngestExtensionExecutors(n, o) ==
    /\ Change
    /\ sent' = [sent EXCEPT ![n] = o]
    /\ UNCHANGED <<settings, shows, custom, owned, other, pi, active, saved>>

(* The user turns a tool on or off.                                        *)
Toggle(n) ==
    /\ Change
    /\ pi[n] # "none"
    /\ active' = IF n \in active THEN active \ {n} ELSE active \union {n}
    /\ UNCHANGED <<settings, shows, custom, owned, sent, other, pi, saved>>

\* Mutant: routing activates the alias glob, which Pi does not know.
RouteWithAlias ==
    /\ saved = {} /\ HelpersValid(active)
    /\ saved' = {active}
    /\ active' = (active \ Routable(active)) \union {"glob"}
    /\ UNCHANGED <<settings, shows, custom, owned, sent, other, pi, changes>>

\* Mutant: routing hides what may be called directly, not what is callable.
RouteAll ==
    /\ saved = {} /\ HelpersValid(active)
    /\ saved' = {active}
    /\ active' = {n \in active : Listed(n) => "direct" \notin Callers(ToolMap(n, active))}
    /\ UNCHANGED <<settings, shows, custom, owned, sent, other, pi, changes>>

(* applyAutoRouting at the start of a run.  It also activates              *)
(* code_execution, which need not be active, and then saves the list even  *)
(* if it hides nothing.                                                    *)
Route ==
    /\ saved = {} /\ HelpersValid(active)
    /\ saved' = {active}
    /\ active' = active \ Routable(active)
    /\ UNCHANGED <<settings, shows, custom, owned, sent, other, pi, changes>>

(* restoreActiveToolsAfterRouting at its end.                              *)
Restore ==
    /\ active' \in saved
    /\ saved' = {}
    /\ UNCHANGED <<settings, shows, custom, owned, sent, other, pi, changes>>

Next ==
    \/ \E n \in Names :
          \/ \E o \in Metadata \union {Bare} :
                UpsertTool(n, o) \/ Register(n, o) \/ IngestExtensionExecutors(n, o)
          \/ RemoveTool(n) \/ Toggle(n)
    \/ Route \/ Restore

Spec == Init /\ [][Next]_vars

-----------------------------------------------------------------------------
(* Properties.                                                             *)

TypeOK ==
    /\ settings \in Settings
    /\ shows \subseteq {"ptc", "execute"}
    /\ custom \in [Names -> Metadata \union {Bare, None}]
    /\ owned \subseteq Names
    /\ sent \in [Names -> Metadata \union {Bare, None}]
    /\ other \in [Names -> Metadata \union {Bare, None}]
    /\ pi \in [Names -> Owners]
    /\ active \subseteq Names
    /\ saved \in {{}} \union {{l} : l \in SUBSET Names}
    /\ changes \in 0..MaxChanges

(* The metadata that came with the code that runs.                         *)
Running(n) ==
    LET run == ToolMap(n, active).run
    IN IF run = "manager" THEN custom[n]
       ELSE IF run = "other" THEN other[n]
       ELSE IF run = "sent" THEN sent[n] ELSE Bare

(* Those of the tool buildToolMap knows before it looks at Pi's list.      *)
KnownDefinition(n) ==
    IF custom[n] # None THEN custom[n] ELSE IF sent[n] # None THEN sent[n] ELSE Bare

(* What buildToolMap takes from Pi's entry: metadata, execute or both.     *)
Taken(n) ==
    (IF PiPtc(n) # Bare THEN {"ptc"} ELSE {}) \union
    (IF PiRuns(n, active) THEN {"execute"} ELSE {})

(* One definition's metadata go with another's code: buildToolMap takes    *)
(* the metadata (line 359) or the execute (line 368) of Pi's tool without  *)
(* the other, over a known tool that is not the same.                      *)
Mixed(n) ==
    /\ Known(n) /\ Lists(n)
    /\ n \in active \/ ~Base(n).builtin
    /\ Taken(n) \in {{"ptc"}, {"execute"}}
    /\ PiDefinition(n) # KnownDefinition(n)

CanRun(n) == CanCall(n, active) /\ ToolMap(n, active).run # "unavailable"

(* "leaves mutating tools unavailable unless both metadata and runtime     *)
(* policy allow them" (README.md:248): without PTC_ALLOW_MUTATIONS what is *)
(* not builtin is on the list of trusted tools, and the code that runs     *)
(* came with metadata that call it read-only.  The second is not so for a  *)
(* mixed tool, which is judged by the metadata of one definition and runs  *)
(* the code of the other.                                                  *)
MutatingNeedsPermission ==
    ~settings.mutations =>
        \A n \in Names : CanRun(n) =>
            /\ n \notin Builtin => n \in settings.trusted
            /\ Mixed(n) \/ IsReadOnly(n, Running(n))
                 \/ (Running(n) # Bare /\ Policy(Running(n)) = "read-only")

(* "not callable from Python by default": a tool that is no override of a  *)
(* builtin one runs only if a definition of that name opted in, and but    *)
(* for a mixed one that is the definition whose code runs, and it has      *)
(* code_execution among the callers it names, if it names any.             *)
OptInRespected ==
    \A n \in Names : CanRun(n) =>
        /\ n \notin Builtin =>
              \E o \in {custom[n], sent[n], other[n]} \ {Bare, None} : Callable(o)
        /\ ~Mixed(n) =>
              /\ Running(n) # Bare /\ Running(n).callers # {} =>
                    "code_execution" \in Running(n).callers
              /\ n \notin Builtin => Running(n) # Bare /\ Callable(Running(n))

(* A custom tool that was removed is never run, though Pi still lists it,  *)
(* restores it after a routed run or is told to activate it (removeTool).  *)
RemovedStaysAway ==
    \A n \in Names : custom[n] = None /\ Listed(n) => ToolMap(n, active).run # "manager"

(* The report on the allow list repeats the policy in words: it has a      *)
(* reason for each tool that cannot be called (reportAllowlistGaps).       *)
GapsExplained ==
    \A n \in settings.allow : CanCall(n, active) \/ GapReason(n, active) # "policy"

(* "active overridden read / grep / edit executors should be the same      *)
(* implementations users see in chat" (README.md:168): those active when   *)
(* the run began, with a Pi that shows execute and a name that was not     *)
(* taken over from a removed custom tool.                                  *)
AsInChatWhenRouted ==
    "execute" \in shows =>
        \A l \in saved : \A n \in l \intersect Builtin :
            /\ pi[n] = "other" /\ CanCall(n, active)
            /\ ~(n \in owned /\ custom[n] = None)
            => \/ ToolMap(n, active).run = "other"
               \/ ToolMap(n, active).run = "sent" /\ sent[n] = other[n]

(* A tool another extension has in Pi's list whose executor did not come   *)
(* over the bridge as it is registered: only Pi's list has its code.       *)
OnlyInPi(n) == pi[n] = "other" /\ custom[n] = None /\ sent[n] # other[n]

(* Routing takes no tool away from the model but those a program can then  *)
(* still run, short of other extensions' tools that only Pi's list has     *)
(* (applyAutoRouting; buildToolMap ignores Pi's code of a hidden tool).    *)
RoutingLosesNothing ==
    [][saved = {} /\ saved' # {} =>
         \A n \in active \ active' : ~OnlyInPi(n) => CanRun(n)']_vars
=============================================================================
