-------------------------- MODULE ToolPolicyProofs --------------------------
(* What holds of the policy for any names, metadata and settings, and any  *)
(* sequence of tools that come and go.                                     *)
EXTENDS ToolPolicy, TLAPS

(* Type correctness, which the other proofs use.                           *)
LEMMA InitType == Init => TypeOK
  BY PolicyAssumption DEF PolicyAssumption, Init, TypeOK, Owners

LEMMA StepType == TypeOK /\ [Next]_vars => TypeOK'
<1> SUFFICES ASSUME TypeOK, [Next]_vars PROVE TypeOK'
  OBVIOUS
<1> USE PolicyAssumption DEF PolicyAssumption, TypeOK, Owners, Change
<1>1. ASSUME NEW n \in Names, NEW o \in Metadata \union {Bare}, UpsertTool(n, o)
      PROVE  TypeOK'
  BY <1>1 DEF UpsertTool
<1>2. ASSUME NEW n \in Names, NEW o \in Metadata \union {Bare}, Register(n, o)
      PROVE  TypeOK'
  BY <1>2 DEF Register
<1>3. ASSUME NEW n \in Names, RemoveTool(n) PROVE TypeOK'
  BY <1>3 DEF RemoveTool
<1>4. ASSUME NEW n \in Names, NEW o \in Metadata \union {Bare}, IngestExtensionExecutors(n, o)
      PROVE  TypeOK'
  BY <1>4 DEF IngestExtensionExecutors
<1>5. ASSUME NEW n \in Names, Toggle(n) PROVE TypeOK'
  BY <1>5 DEF Toggle
<1>6. CASE Route
  <2>1. saved' \in {{l} : l \in SUBSET Names}
    BY <1>6 DEF Route
  <2>2. QED BY <1>6, <2>1 DEF Route
<1>7. CASE Restore
  <2>1. active' \subseteq Names
    BY <1>7 DEF Restore
  <2>2. QED BY <1>7, <2>1 DEF Restore
<1>8. CASE UNCHANGED vars
  BY <1>8 DEF vars
<1>9. QED
  BY <1>1, <1>2, <1>3, <1>4, <1>5, <1>6, <1>7, <1>8 DEF Next

(* Every variable keeps its type, whatever tools come and go (ToolRegistry). *)
THEOREM TypeCorrect == Spec => []TypeOK
<1>1. QED BY InitType, StepType, PTL DEF Spec

-----------------------------------------------------------------------------
(* What Pi's list and the registry know of each other: the manager's names *)
(* are owned, what Pi has of others was registered, and a custom tool is   *)
(* in Pi's list unless another extension has registered over it.           *)
Layers ==
    \A n \in Names :
        /\ custom[n] # None => n \in owned /\ pi[n] \in {"manager", "other"}
        /\ pi[n] = "manager" => n \in owned
        /\ pi[n] = "other" => other[n] # None
        /\ pi[n] = "builtin" => n \in Builtin

LayersInv == TypeOK /\ Layers

LEMMA InitLayers == Init => Layers
  BY PolicyAssumption DEF PolicyAssumption, Init, Layers

LEMMA StepLayers == LayersInv /\ [Next]_vars => Layers'
<1> SUFFICES ASSUME LayersInv, [Next]_vars PROVE Layers'
  OBVIOUS
<1> USE PolicyAssumption DEF PolicyAssumption, LayersInv, TypeOK, Layers
<1>1. ASSUME NEW n \in Names, NEW o \in Metadata \union {Bare}, UpsertTool(n, o)
      PROVE  Layers'
  BY <1>1 DEF UpsertTool
<1>2. ASSUME NEW n \in Names, NEW o \in Metadata \union {Bare}, Register(n, o)
      PROVE  Layers'
  BY <1>2 DEF Register
<1>3. ASSUME NEW n \in Names, RemoveTool(n) PROVE Layers'
  BY <1>3 DEF RemoveTool
<1>4. ASSUME NEW n \in Names, NEW o \in Metadata \union {Bare}, IngestExtensionExecutors(n, o)
      PROVE  Layers'
  BY <1>4 DEF IngestExtensionExecutors
<1>5. ASSUME NEW n \in Names, Toggle(n) PROVE Layers'
  BY <1>5 DEF Toggle
<1>6. CASE Route \/ Restore \/ UNCHANGED vars
  BY <1>6 DEF Route, Restore, vars
<1>7. QED BY <1>1, <1>2, <1>3, <1>4, <1>5, <1>6 DEF Next

LEMMA LayersInvariant == Spec => []LayersInv
<1>1. Init => LayersInv
  BY InitType, InitLayers DEF LayersInv
<1>2. LayersInv /\ [Next]_vars => LayersInv'
  BY StepType, StepLayers DEF LayersInv
<1>3. QED BY <1>1, <1>2, PTL DEF Spec

-----------------------------------------------------------------------------
(* What normalizing keeps, and that doing it twice changes nothing.        *)
LEMMA StoredKeeps ==
    ASSUME NEW o \in Ptc
    PROVE  /\ Stored(o) \in Ptc
           /\ Callable(Stored(o)) = Callable(o)
           /\ Policy(Stored(o)) = Policy(o)
           /\ Stored(o).callers = o.callers
           /\ Stored(o).readOnly = "yes" =>
                 o.readOnly = "yes" \/ Policy(o) = "read-only"
           /\ Stored(Stored(o)) = Stored(o)
<1>1. o # Bare
  BY PolicyAssumption DEF PolicyAssumption
<1>2. Stored(o) = [enabled  |-> IF o.enabled = "unset" THEN Say(Callable(o)) ELSE o.enabled,
                   callable |-> Say(Callable(o)),
                   readOnly |-> IF o.readOnly = "unset"
                                THEN Say(Policy(o) = "read-only") ELSE o.readOnly,
                   policy   |-> Policy(o), optIn |-> o.optIn,
                   callers  |-> o.callers, python |-> o.python]
  BY <1>1 DEF Stored, Ptc
<1>3. Stored(o) \in Ptc
  BY <1>2 DEF Ptc, YesNo, Say, Policy
<1>4. Callable(Stored(o)) = Callable(o) /\ Policy(Stored(o)) = Policy(o)
  BY <1>2 DEF Ptc, YesNo, Say, Callable, Policy
<1>5. Stored(o).readOnly = "yes" => o.readOnly = "yes" \/ Policy(o) = "read-only"
  BY <1>2 DEF Say
<1>6. Stored(Stored(o)) = Stored(o)
  <2>1. Stored(o) # Bare
    BY <1>3, PolicyAssumption DEF PolicyAssumption
  <2>2. /\ Stored(o).enabled # "unset" /\ Stored(o).readOnly # "unset"
        /\ Stored(o).callable = Say(Callable(o)) /\ Stored(o).policy = Policy(o)
    BY <1>2 DEF Say
  <2>3. QED BY <1>2, <1>4, <2>1, <2>2 DEF Stored
<1>7. QED BY <1>2, <1>3, <1>4, <1>5, <1>6

(* The entry of the tool map, layer by layer.                              *)
LEMMA EntryOf ==
    ASSUME LayersInv, NEW n \in Names, Listed(n), NEW a
    PROVE  LET t == ToolMap(n, a)
           IN  \/ /\ Known(n) /\ t = Base(n)
                  /\ ~Lists(n) \/ (Base(n).builtin /\ n \notin a)
               \/ /\ ~Known(n) /\ Lists(n) /\ pi[n] = "other"
                  /\ t = Tool(n, FALSE, PiPtc(n),
                              IF PiRuns(n, a) THEN "other" ELSE "unavailable")
               \/ /\ Known(n) /\ Lists(n) /\ (~Base(n).builtin \/ n \in a)
                  /\ t = Tool(n, Base(n).builtin,
                              IF PiPtc(n) = Bare THEN Base(n).ptc ELSE PiPtc(n),
                              IF PiRuns(n, a) THEN pi[n] ELSE Base(n).run)
<1> USE PolicyAssumption DEF PolicyAssumption, LayersInv, TypeOK, Layers, Owners
<1>1. CASE ~Known(n)
  <2>1. Lists(n) /\ pi[n] = "other"
    BY <1>1 DEF Listed, Lists, Known
  <2>2. QED BY <1>1, <2>1 DEF ToolMap
<1>2. CASE Known(n)
  BY <1>2 DEF ToolMap
<1>3. QED BY <1>1, <1>2

(* What is known of a tool before Pi's list is looked at.                  *)
LEMMA BaseOf ==
    ASSUME LayersInv, NEW n \in Names, Known(n)
    PROVE  /\ KnownDefinition(n) \in Metadata \union {Bare}
           /\ Base(n) = Tool(n, Base(n).builtin, KnownDefinition(n), Base(n).run)
           /\ Base(n).ptc = Stored(KnownDefinition(n))
           /\ Base(n).builtin \in BOOLEAN /\ (Base(n).builtin => n \in Builtin)
           /\ \/ Base(n).run = "manager" /\ custom[n] # None
              \/ Base(n).run = "sent" /\ sent[n] # None /\ custom[n] = None
              \/ /\ Base(n).run = "builtin" /\ sent[n] = None /\ custom[n] = None
                 /\ Base(n).builtin
<1> USE PolicyAssumption DEF PolicyAssumption, LayersInv, TypeOK
<1>1. CASE custom[n] # None
  BY <1>1 DEF Base, Tool, KnownDefinition
<1>2. CASE custom[n] = None /\ sent[n] # None
  <2>1. Base(n) = Tool(n, n \in Builtin, sent[n], "sent")
    BY <1>2 DEF Base
  <2>2. Base(n).builtin = (n \in Builtin) /\ Base(n).run = "sent" /\ Base(n).ptc = Stored(sent[n])
    BY <2>1 DEF Tool
  <2>3. Base(n) = Tool(n, Base(n).builtin, sent[n], Base(n).run)
    BY <2>1, <2>2, Zenon
  <2>4. KnownDefinition(n) = sent[n] /\ sent[n] \in Metadata \union {Bare}
    BY <1>2 DEF KnownDefinition
  <2>5. Base(n).builtin \in BOOLEAN /\ (Base(n).builtin => n \in Builtin)
    <3>1. (n \in Builtin) \in BOOLEAN
      OBVIOUS
    <3>2. Base(n).builtin = (n \in Builtin)
      BY <2>2
    <3>3. Base(n).builtin \in BOOLEAN
      BY <3>1, <3>2, Zenon
    <3>4. Base(n).builtin => n \in Builtin
      BY <3>2
    <3>5. QED BY <3>3, <3>4
  <2>6. QED BY <1>2, <2>2, <2>3, <2>4, <2>5
<1>3. CASE custom[n] = None /\ sent[n] = None
  BY <1>3 DEF Base, Tool, KnownDefinition, Known
<1>4. QED BY <1>1, <1>2, <1>3

(* What a tool runs Pi has, or is what is known, whoever judges it.        *)
LEMMA RunOf ==
    ASSUME LayersInv, NEW n \in Names, Listed(n)
    PROVE  LET run == ToolMap(n, active).run
           IN  /\ Known(n) /\ run = Base(n).run => Running(n) = KnownDefinition(n)
               /\ Lists(n) /\ run = pi[n] => Running(n) = PiDefinition(n)
               /\ run = "manager" => custom[n] # None
<1> USE PolicyAssumption DEF PolicyAssumption, LayersInv, TypeOK, Layers, Owners
<1> DEFINE run == ToolMap(n, active).run
<1>1. Known(n) /\ run = Base(n).run => Running(n) = KnownDefinition(n)
  BY BaseOf DEF Running, KnownDefinition
<1>2. Lists(n) /\ run = pi[n] => Running(n) = PiDefinition(n)
  BY DEF Lists, Running, PiDefinition
<1>3. Lists(n) /\ pi[n] = "manager" => custom[n] # None
  BY DEF Lists
<1>4. Known(n) => (Base(n).run = "manager" => custom[n] # None)
  BY BaseOf
<1>5. run = "manager" => custom[n] # None
  <2>1. \A b, o, r : Tool(n, b, o, r).run = r
    BY DEF Tool
  <2>2. \/ Known(n) /\ run = Base(n).run
        \/ Lists(n) /\ run = pi[n]
        \/ run \in {"other", "unavailable"}
    <3>1. CASE Known(n) /\ run = Base(n).run
      BY <3>1
    <3>2. CASE /\ Lists(n) /\ pi[n] = "other"
               /\ ToolMap(n, active) = Tool(n, FALSE, PiPtc(n),
                     IF PiRuns(n, active) THEN "other" ELSE "unavailable")
      <4>1. run = IF PiRuns(n, active) THEN "other" ELSE "unavailable"
        BY <3>2 DEF Tool
      <4>2. QED BY <4>1
    <3>3. CASE /\ Known(n) /\ Lists(n)
               /\ ToolMap(n, active) = Tool(n, Base(n).builtin,
                     IF PiPtc(n) = Bare THEN Base(n).ptc ELSE PiPtc(n),
                     IF PiRuns(n, active) THEN pi[n] ELSE Base(n).run)
      BY <2>1, <3>3
    <3>4. QED BY <3>1, <3>2, <3>3, EntryOf
  <2>3. QED BY <1>3, <1>4, <2>2
<1>6. QED BY <1>1, <1>2, <1>5

(* The policy judges a tool by the metadata of one of its definitions.     *)
LEMMA JudgedBy ==
    ASSUME LayersInv, NEW n \in Names, Listed(n)
    PROVE  LET t == ToolMap(n, active)
           IN  /\ t.builtin => n \in Builtin
               /\ t.ptc # Bare =>
                     \E d \in {custom[n], sent[n], other[n]} \ {Bare, None} :
                         d \in Ptc /\ t.ptc = Stored(d)
<1> USE PolicyAssumption DEF PolicyAssumption, LayersInv, TypeOK, Layers
<1> DEFINE t == ToolMap(n, active)
           Defined == {custom[n], sent[n], other[n]} \ {Bare, None}
<1>1. Known(n) => /\ KnownDefinition(n) \in Defined \union {Bare}
                  /\ KnownDefinition(n) # Bare => KnownDefinition(n) \in Ptc
  BY BaseOf DEF KnownDefinition
<1>2. PiPtc(n) \in Defined \union {Bare} /\ (PiPtc(n) # Bare => PiPtc(n) \in Ptc)
  BY DEF PiPtc, PiDefinition
<1>3. \A d \in Ptc : Stored(Stored(d)) = Stored(d)
  BY StoredKeeps
<1>4. Stored(Bare) = Bare
  BY DEF Stored
<1>5. CASE Known(n) /\ t = Base(n)
  BY <1>1, <1>4, <1>5, BaseOf
<1>6. CASE ~Known(n) /\ t = Tool(n, FALSE, PiPtc(n),
                                 IF PiRuns(n, active) THEN "other" ELSE "unavailable")
  BY <1>2, <1>4, <1>6 DEF Tool
<1>7. CASE Known(n) /\ t = Tool(n, Base(n).builtin,
                                IF PiPtc(n) = Bare THEN Base(n).ptc ELSE PiPtc(n),
                                IF PiRuns(n, active) THEN pi[n] ELSE Base(n).run)
  <2>1. /\ t.builtin = Base(n).builtin
        /\ t.ptc = Stored(IF PiPtc(n) = Bare THEN Base(n).ptc ELSE PiPtc(n))
    BY <1>7 DEF Tool
  <2>2. CASE PiPtc(n) = Bare
    BY <1>1, <1>3, <1>4, <1>7, <2>1, <2>2, BaseOf
  <2>3. CASE PiPtc(n) # Bare
    BY <1>2, <1>7, <2>1, <2>3, BaseOf
  <2>4. QED BY <2>2, <2>3
<1>8. QED BY <1>5, <1>6, <1>7, EntryOf

(* Unless it is mixed, it judges what runs by the metadata of that.        *)
LEMMA JudgedByOwn ==
    ASSUME LayersInv, NEW n \in Names, CanRun(n), ~Mixed(n)
    PROVE  LET t == ToolMap(n, active)
           IN  /\ Running(n) \in Metadata \union {Bare}
               /\ t.ptc = Stored(Running(n))
               /\ t.readOnly = IsReadOnly(n, Running(n))
<1> USE PolicyAssumption DEF PolicyAssumption, LayersInv, TypeOK, Layers
<1> DEFINE t == ToolMap(n, active)
           k == KnownDefinition(n)
           p == PiDefinition(n)
<1>1. Listed(n) /\ t.run # "unavailable" /\ (t.builtin \/ t.ptc # Bare)
  BY DEF CanRun, CanCall, Admits
<1>2. \A b, d, r : /\ Tool(n, b, d, r).ptc = Stored(d) /\ Tool(n, b, d, r).run = r
                   /\ Tool(n, b, d, r).readOnly = IsReadOnly(n, d)
                   /\ Tool(n, b, d, r).builtin = b
  BY DEF Tool
<1>3. \A d \in Metadata \union {Bare} :
          Stored(Stored(d)) = Stored(d) /\ IsReadOnly(n, Stored(d)) = IsReadOnly(n, d)
  <2>1. \A d \in Metadata : Stored(Stored(d)) = Stored(d) /\ Stored(d) # Bare /\ d # Bare
    BY StoredKeeps
  <2>2. Stored(Bare) = Bare
    BY DEF Stored
  <2>3. QED BY <2>1, <2>2 DEF IsReadOnly
<1>4. p \in Metadata \union {Bare}
  BY DEF PiDefinition
<1>5. CASE Known(n) /\ t = Base(n)
  BY <1>2, <1>5, <1>1, BaseOf, RunOf
<1>6. CASE ~Known(n) /\ Lists(n) /\ pi[n] = "other"
             /\ t = Tool(n, FALSE, PiPtc(n),
                         IF PiRuns(n, active) THEN "other" ELSE "unavailable")
  <2>1. Stored(Bare) = Bare
    BY DEF Stored
  <2>2. /\ t.builtin = FALSE /\ t.ptc = Stored(PiPtc(n))
        /\ t.readOnly = IsReadOnly(n, PiPtc(n))
        /\ t.run = IF PiRuns(n, active) THEN "other" ELSE "unavailable"
    BY <1>6 DEF Tool
  <2>3. PiPtc(n) = p
    BY <1>1, <2>1, <2>2 DEF PiPtc
  <2>4. Running(n) = p
    BY <1>1, <1>6, <2>2, RunOf
  <2>5. QED BY <1>4, <2>2, <2>3, <2>4
<1>7. CASE /\ Known(n) /\ Lists(n) /\ (~Base(n).builtin \/ n \in active)
           /\ t = Tool(n, Base(n).builtin, IF PiPtc(n) = Bare THEN Base(n).ptc ELSE PiPtc(n),
                       IF PiRuns(n, active) THEN pi[n] ELSE Base(n).run)
  <2>1. k \in Metadata \union {Bare} /\ Base(n).ptc = Stored(k)
    BY <1>7, BaseOf
  <2>2. \/ p = k
        \/ PiPtc(n) = Bare /\ ~PiRuns(n, active)
        \/ PiPtc(n) # Bare /\ PiRuns(n, active)
    BY <1>7 DEF Mixed, Taken
  <2>3. /\ PiRuns(n, active) => Running(n) = p
        /\ ~PiRuns(n, active) => Running(n) = k
    BY <1>1, <1>2, <1>7, RunOf
  <2>4. PiPtc(n) # Bare => PiPtc(n) = p
    BY DEF PiPtc
  <2>5. /\ PiPtc(n) = Bare => t.ptc = Stored(k) /\ t.readOnly = IsReadOnly(n, k)
        /\ PiPtc(n) # Bare => t.ptc = Stored(p) /\ t.readOnly = IsReadOnly(n, p)
    BY <1>2, <1>3, <1>7, <2>1, <2>4
  <2>6. QED BY <1>4, <2>1, <2>2, <2>3, <2>5
<1>8. QED BY <1>1, <1>5, <1>6, <1>7, EntryOf

-----------------------------------------------------------------------------
(* The properties.                                                         *)

(* Removed custom tools stay away, however they are listed, restored or    *)
(* activated (removeTool).                                                 *)
THEOREM RemovedStaysAwayHolds == Spec => []RemovedStaysAway
<1>1. LayersInv => RemovedStaysAway
  BY RunOf DEF RemovedStaysAway
<1>2. QED BY <1>1, LayersInvariant, PTL

(* Without PTC_ALLOW_MUTATIONS only trusted and builtin tools run, and     *)
(* none, unless it is mixed, whose own metadata call it mutating, for any  *)
(* layers and settings (getCallableTools).                                 *)
THEOREM MutatingNeedsPermissionHolds == Spec => []MutatingNeedsPermission
<1>1. LayersInv => MutatingNeedsPermission
  <2> SUFFICES ASSUME LayersInv, ~settings.mutations, NEW n \in Names, CanRun(n)
               PROVE  /\ n \notin Builtin => n \in settings.trusted
                      /\ Mixed(n) \/ IsReadOnly(n, Running(n))
                           \/ (Running(n) # Bare /\ Policy(Running(n)) = "read-only")
    BY DEF MutatingNeedsPermission
  <2> DEFINE t == ToolMap(n, active)
  <2>1. Listed(n) /\ ((t.builtin /\ t.readOnly) \/ Trusted(n, t))
    BY DEF CanRun, CanCall, Admits
  <2>2. n \notin Builtin => n \in settings.trusted
    BY <2>1, JudgedBy DEF Trusted
  <2>3. ASSUME ~Mixed(n), ~IsReadOnly(n, Running(n))
        PROVE  Running(n) # Bare /\ Policy(Running(n)) = "read-only"
    <3>1. /\ Running(n) \in Metadata \union {Bare} /\ t.ptc = Stored(Running(n))
          /\ t.readOnly = IsReadOnly(n, Running(n))
      BY <2>3, JudgedByOwn
    <3>2. t.ptc # Bare /\ Policy(t.ptc) = "read-only"
      BY <2>1, <2>3, <3>1 DEF Trusted
    <3>3. Running(n) # Bare /\ Running(n) \in Ptc
      BY <3>1, <3>2, PolicyAssumption DEF Stored, PolicyAssumption
    <3>4. QED BY <3>1, <3>2, <3>3, StoredKeeps
  <2>4. QED BY <2>2, <2>3
<1>2. QED BY <1>1, LayersInvariant, PTL

(* What runs opted in, under one of its definitions, and, unless it is     *)
(* mixed, under its own, which lets code_execution call it, for any layers *)
(* and settings (getCallableTools, getConfiguredCallers).                  *)
THEOREM OptInRespectedHolds == Spec => []OptInRespected
<1>1. LayersInv => OptInRespected
  <2> DEFINE Defined(n) == {custom[n], sent[n], other[n]} \ {Bare, None}
             Own(n) == /\ Running(n) # Bare /\ Running(n).callers # {} =>
                              "code_execution" \in Running(n).callers
                       /\ n \notin Builtin => Running(n) # Bare /\ Callable(Running(n))
  <2> SUFFICES ASSUME LayersInv, NEW n \in Names, CanRun(n)
               PROVE  /\ n \notin Builtin => \E o \in Defined(n) : Callable(o)
                      /\ ~Mixed(n) => Own(n)
    BY DEF OptInRespected
  <2> DEFINE t == ToolMap(n, active)
  <2>1. /\ Listed(n) /\ "code_execution" \in Callers(t)
        /\ t.builtin \/ (t.ptc # Bare /\ Callable(t.ptc))
    BY DEF CanRun, CanCall, Admits
  <2>2. t.builtin => n \in Builtin
    BY <2>1, JudgedBy
  <2>3. ASSUME n \notin Builtin PROVE \E o \in Defined(n) : Callable(o)
    <3>1. PICK d \in Defined(n) : d \in Ptc /\ t.ptc = Stored(d)
      BY <2>1, <2>2, <2>3, JudgedBy
    <3>2. Callable(d)
      BY <2>1, <2>2, <2>3, <3>1, StoredKeeps
    <3>3. QED BY <3>1, <3>2
  <2>4. ASSUME ~Mixed(n) PROVE Own(n)
    <3>1. Running(n) \in Metadata \union {Bare} /\ t.ptc = Stored(Running(n))
      BY <2>4, JudgedByOwn
    <3>2. CASE Running(n) = Bare
      BY <2>1, <2>2, <3>1, <3>2 DEF Stored
    <3>3. CASE Running(n) # Bare
      <4>1. /\ Running(n) \in Ptc /\ t.ptc # Bare
            /\ t.ptc.callers = Running(n).callers
            /\ Callable(t.ptc) = Callable(Running(n))
        BY <3>1, <3>3, StoredKeeps, PolicyAssumption DEF PolicyAssumption
      <4>2. QED BY <2>1, <2>2, <3>3, <4>1 DEF Callers
    <3>4. QED BY <3>2, <3>3
  <2>5. QED BY <2>3, <2>4
<1>2. QED BY <1>1, LayersInvariant, PTL

(* Whatever is on the allow list, the report has the reason why it cannot  *)
(* be called (reportAllowlistGaps).                                        *)
THEOREM GapsExplainedHolds == Spec => []GapsExplained
<1>1. GapsExplained
  <2> SUFFICES ASSUME NEW n \in settings.allow, GapReason(n, active) = "policy"
               PROVE  CanCall(n, active)
    BY DEF GapsExplained
  <2>1. Listed(n) /\ n \notin settings.blocked
    BY DEF GapReason
  <2>2. Admits(n, ToolMap(n, active))
    BY <2>1 DEF GapReason, Admits, Trusted
  <2>3. QED BY <2>1, <2>2 DEF CanCall
<1>2. QED BY <1>1, PTL

-----------------------------------------------------------------------------
(* Unless only Pi's list has its code, what the policy looks at does not   *)
(* depend on whether a tool is active, and there is code to run.           *)
LEMMA SameWhenHidden ==
    ASSUME LayersInv, NEW n \in Names, Listed(n), ~OnlyInPi(n), NEW a, NEW b, n \notin b
    PROVE  LET s == ToolMap(n, a)  t == ToolMap(n, b)
           IN  /\ s.builtin = t.builtin /\ s.ptc = t.ptc /\ s.readOnly = t.readOnly
               /\ t.run # "unavailable"
<1> USE PolicyAssumption DEF PolicyAssumption, LayersInv, TypeOK, Layers, Owners
<1> DEFINE s == ToolMap(n, a)
           t == ToolMap(n, b)
           k == KnownDefinition(n)
           ptc == IF PiPtc(n) = Bare THEN Base(n).ptc ELSE PiPtc(n)
<1>1. \A x, d, r : /\ Tool(n, x, d, r).ptc = Stored(d) /\ Tool(n, x, d, r).run = r
                   /\ Tool(n, x, d, r).readOnly = IsReadOnly(n, d)
                   /\ Tool(n, x, d, r).builtin = x
  BY DEF Tool
<1>2. Known(n)
  BY EntryOf DEF OnlyInPi, Known
<1>3. /\ k \in Metadata \union {Bare}
      /\ Base(n).ptc = Stored(k) /\ Base(n).readOnly = IsReadOnly(n, k)
      /\ Base(n).run \in {"manager", "sent", "builtin"}
  BY <1>1, <1>2, BaseOf
<1>4. \A d \in Metadata \union {Bare} :
          Stored(Stored(d)) = Stored(d) /\ IsReadOnly(n, Stored(d)) = IsReadOnly(n, d)
  <2>1. \A d \in Metadata : Stored(Stored(d)) = Stored(d) /\ Stored(d) # Bare /\ d # Bare
    BY StoredKeeps
  <2>2. Stored(Bare) = Bare
    BY DEF Stored
  <2>3. QED BY <2>1, <2>2 DEF IsReadOnly
<1>5. CASE ~Lists(n)
  BY <1>2, <1>3, <1>5, EntryOf
<1>6. CASE Lists(n) /\ Base(n).builtin
  <2>1. t = Base(n)
    BY <1>2, <1>6, EntryOf
  <2>2. PiPtc(n) \in {Bare, k}
    <3>1. custom[n] = None
      BY <1>6 DEF Base, Tool
    <3>2. pi[n] # "manager"
      BY <1>6, <3>1 DEF Lists
    <3>3. pi[n] = "other" => k = other[n]
      BY <3>1 DEF OnlyInPi, KnownDefinition
    <3>4. QED BY <3>2, <3>3 DEF PiPtc, PiDefinition
  <2>3. s = Base(n) \/ s = Tool(n, TRUE, ptc, IF PiRuns(n, a) THEN pi[n] ELSE Base(n).run)
    <3>1. Base(n).builtin = TRUE
      BY <1>2, <1>6, BaseOf
    <3>2. QED BY <1>2, <3>1, EntryOf
  <2>4. Stored(ptc) = Base(n).ptc /\ IsReadOnly(n, ptc) = Base(n).readOnly
    BY <1>3, <1>4, <2>2
  <2>5. Base(n).builtin = TRUE
    BY <1>2, <1>6, BaseOf
  <2>6. s.builtin = TRUE /\ s.ptc = Base(n).ptc /\ s.readOnly = Base(n).readOnly
    <3>1. CASE s = Base(n)
      BY <2>5, <3>1
    <3>2. CASE s = Tool(n, TRUE, ptc, IF PiRuns(n, a) THEN pi[n] ELSE Base(n).run)
      BY <2>4, <3>2 DEF Tool
    <3>3. QED BY <2>3, <3>1, <3>2
  <2>7. QED BY <1>3, <2>1, <2>5, <2>6
<1>7. CASE Lists(n) /\ ~Base(n).builtin
  <2>1. /\ s = Tool(n, Base(n).builtin, ptc, IF PiRuns(n, a) THEN pi[n] ELSE Base(n).run)
        /\ t = Tool(n, Base(n).builtin, ptc, IF PiRuns(n, b) THEN pi[n] ELSE Base(n).run)
    BY <1>2, <1>7, EntryOf
  <2>2. QED BY <1>1, <1>3, <2>1
<1>8. QED BY <1>5, <1>6, <1>7

(* Routing hides from the model only what its program can still run, so no *)
(* tool is lost to both but those of other extensions that only Pi's list  *)
(* has (applyAutoRouting).                                                 *)
THEOREM RoutingLosesNothingHolds == Spec => RoutingLosesNothing
<1> DEFINE Kept == \A n \in active \ active' : ~OnlyInPi(n) => CanRun(n)'
<1>1. LayersInv /\ [Next]_vars => (saved = {} /\ saved' # {} => Kept)
  <2> SUFFICES ASSUME LayersInv, [Next]_vars, saved = {}, saved' # {},
                      NEW n \in active \ active', ~OnlyInPi(n)
               PROVE  CanRun(n)'
    OBVIOUS
  <2>1. Route
    BY DEF Next, UpsertTool, RemoveTool, Register, IngestExtensionExecutors, Toggle,
           Restore, vars
  <2>2. CanCall(n, active) /\ n \in Names
    BY <2>1 DEF Route, Routable
  <2>3. CanCall(n, active') /\ ToolMap(n, active').run # "unavailable"
    BY <2>2, SameWhenHidden DEF CanCall, Admits, Trusted, Callers
  <2>4. /\ CanCall(n, active)' <=> CanCall(n, active')
        /\ ToolMap(n, active)' = ToolMap(n, active')
    <3> USE <2>1 DEF Route
    <3>1. /\ Known(n)' <=> Known(n)
          /\ Lists(n)' <=> Lists(n)
          /\ PiPtc(n)' = PiPtc(n)
      BY DEF Known, Lists, PiPtc, PiDefinition
    <3>2. Base(n)' = Base(n)
      BY DEF Base
    <3>3. ToolMap(n, active)' = ToolMap(n, active')
      BY <3>1, <3>2 DEF ToolMap, PiRuns
    <3>4. QED BY <3>1, <3>3 DEF CanCall, Listed, Admits, Trusted
  <2>5. QED BY <2>3, <2>4 DEF CanRun
<1>2. QED BY <1>1, LayersInvariant, PTL DEF Spec, RoutingLosesNothing
=============================================================================
