-------------------------- MODULE HotReloadProofs --------------------------
(* Proofs about HotReload, for any files, tools, names and bounds.         *)
EXTENDS HotReload, TLAPS

-----------------------------------------------------------------------------
(* Typing.                                                                 *)

(* Where a load ends, what it makes of the registry, the active tools and  *)
(* the map of files has its type.                                          *)
LEMMA KeepType ==
    ASSUME TypeOK, NEW l \in loads, l.content \in Tools, Keep(l) \/ Undo(l)
    PROVE  /\ registry' \subseteq Entry
           /\ active' \subseteq Names
           /\ fileToTool' \in [Files -> Names \union {""}]
<1>1. /\ l.file \in Files /\ l.stamp \in Nat
      /\ NameOf[l.content] \in Names
  BY ToolAssumption DEF ToolAssumption, TypeOK, Load
<1>2. Upserted(l) \subseteq Entry
  <2>1. [name |-> NameOf[l.content], file |-> l.file, stamp |-> l.stamp,
         tool |-> l.content] \in Entry
    BY <1>1 DEF Entry
  <2>2. Without(fileToTool[l.file]) \subseteq registry
    BY DEF Without
  <2>3. QED BY <2>1, <2>2 DEF TypeOK, Upserted
<1>3. Activated(l) \subseteq Names
  BY <1>1 DEF TypeOK, Activated
<1>4. CASE Keep(l)
  BY <1>1, <1>2, <1>3, <1>4 DEF Keep, TypeOK
<1>5. CASE Undo(l)
  BY <1>1, <1>2, <1>3, <1>5 DEF Undo, TypeOK
<1>6. QED BY <1>4, <1>5

LEMMA RemoveType ==
    ASSUME TypeOK, NEW f \in Files, RemoveFileTool(f)
    PROVE  /\ registry' \subseteq Entry
           /\ active' \subseteq Names
           /\ fileToTool' \in [Files -> Names \union {""}]
BY DEF RemoveFileTool, Without, TypeOK

LEMMA StampType == ASSUME TypeOK, NEW f \in Files PROVE Stamp(f) \in Nat
BY DEF TypeOK, Stamp

LEMMA NewLoadType ==
    ASSUME NEW f \in Files, NEW by \in Starters PROVE NewLoad(f, by) \in Load
BY DEF NewLoad, Load, Contents

LEMMA InitType == Init => TypeOK
<1> SUFFICES ASSUME Init PROVE TypeOK
  OBVIOUS
<1>1. disk \in [Files -> [stamp : Nat, content : Contents]]
  <2>1. disk \in [Files -> [stamp : {1}, content : Contents]]
    BY DEF Init
  <2>2. ASSUME NEW f \in Files PROVE disk[f] \in [stamp : Nat, content : Contents]
    <3>1. disk[f] \in [stamp : {1}, content : Contents]
      BY <2>1
    <3>2. QED BY <3>1
  <2>3. QED BY <2>1, <2>2
<1>2. QED BY <1>1 DEF Init, TypeOK

LEMMA StepType == TypeOK /\ [Next]_vars => TypeOK'
<1> SUFFICES ASSUME TypeOK, [Next]_vars PROVE TypeOK'
  OBVIOUS
<1>1. ASSUME NEW f \in Files, WriteFile(f) PROVE TypeOK'
  <2>1. PICK c \in Holds[f] \union {"bad", "absent"} :
            disk' = [disk EXCEPT ![f] = [stamp |-> @.stamp + 1, content |-> c]]
    BY <1>1 DEF WriteFile
  <2>2. c \in Contents
    BY ToolAssumption DEF ToolAssumption, Contents
  <2>3. disk' \in [Files -> [stamp : Nat, content : Contents]]
    <3>1. disk[f].stamp + 1 \in Nat
      <4>1. disk[f] \in [stamp : Nat, content : Contents]
        BY DEF TypeOK
      <4>2. disk[f].stamp \in Nat
        BY <4>1
      <4>3. QED BY <4>2
    <3>2. [stamp |-> disk[f].stamp + 1, content |-> c] \in [stamp : Nat, content : Contents]
      BY <2>2, <3>1
    <3>3. QED BY <2>1, <3>2 DEF TypeOK
  <2>4. QED BY <1>1, <2>3 DEF WriteFile, TypeOK, mapVars
<1>2. ASSUME NEW f \in Files, StartLoad(f) PROVE TypeOK'
  <2>1. loads' \subseteq Load
    BY <1>2, NewLoadType DEF StartLoad, Starters
  <2>2. QED BY <1>2, <2>1 DEF StartLoad, TypeOK, mapVars, seeVars
<1>3. ASSUME NEW f \in Files, WatchEvent(f) PROVE TypeOK'
  BY <1>3 DEF WatchEvent, TypeOK, mapVars
<1>4. ASSUME NEW f \in Files, Debounced(f) PROVE TypeOK'
  <2>1. loads' \subseteq Load
    BY <1>4, NewLoadType DEF Debounced, Starters, TypeOK
  <2>2. QED BY <1>4, <2>1 DEF Debounced, TypeOK, mapVars
<1>5. ASSUME NEW l \in loads, ReadFile(l) PROVE TypeOK'
  <2>1. [l EXCEPT !.read = TRUE, !.stamp = disk[l.file].stamp,
                  !.content = disk[l.file].content] \in Load
    BY DEF TypeOK, Load
  <2>2. loads' \subseteq Load
    BY <1>5, <2>1 DEF ReadFile, TypeOK
  <2>3. QED BY <1>5, <2>2 DEF ReadFile, TypeOK, mapVars, seeVars
<1>6. ASSUME NEW l \in loads, FinishStart(l) PROVE TypeOK'
  <2>1. l.file \in Files BY DEF TypeOK, Load
  <2>2. signatures' \in [Files -> Nat]
    BY <1>6, <2>1, StampType DEF FinishStart, TypeOK
  <2>3. CASE l.content \in Tools
    BY <1>6, <2>1, <2>2, <2>3, KeepType DEF FinishStart, TypeOK
  <2>4. CASE l.content \notin Tools
    BY <1>6, <2>2, <2>4 DEF FinishStart, TypeOK, mapVars
  <2>5. QED BY <2>3, <2>4
<1>7. ASSUME NEW l \in loads, FinishReload(l) PROVE TypeOK'
  <2>1. l.file \in Files BY DEF TypeOK, Load
  <2>2. signatures' \in [Files -> Nat]
    BY <1>7, <2>1, StampType DEF FinishReload, TypeOK
  <2>3. turnedAway' \in [Files -> {"", "start", "reload"}]
    BY <1>7, <2>1 DEF FinishReload, TypeOK
  <2>4. /\ registry' \subseteq Entry /\ active' \subseteq Names
        /\ fileToTool' \in [Files -> Names \union {""}]
    BY <1>7, <2>1, KeepType, RemoveType DEF FinishReload
  <2>5. QED BY <1>7, <2>2, <2>3, <2>4 DEF FinishReload, TypeOK
<1>8. CASE Start
  BY <1>8 DEF Start, TypeOK, mapVars, seeVars
<1>9. CASE Watch
  BY <1>9 DEF Watch, TypeOK, mapVars, seeVars
<1>10. CASE Poll
  <2>1. signatures' \in [Files -> Nat]
    BY <1>10, StampType DEF Poll
  <2>2. loads' \subseteq Load
    BY <1>10, NewLoadType DEF Poll, TypeOK, Changed, Starters
  <2>3. QED BY <1>10, <2>1, <2>2 DEF Poll, TypeOK, mapVars
<1>11. CASE Close
  BY <1>11 DEF Close, TypeOK, mapVars
<1>12. CASE UNCHANGED vars
  BY <1>12 DEF vars, mapVars, seeVars, TypeOK
<1>13. QED
  BY <1>1, <1>2, <1>3, <1>4, <1>5, <1>6, <1>7, <1>8, <1>9, <1>10, <1>11, <1>12 DEF Next

(* Every variable keeps its type, for any files and tools.                 *)
THEOREM TypeCorrect == Spec => []TypeOK
<1>1. Init => TypeOK BY InitType
<1>2. TypeOK /\ [Next]_vars => TypeOK' BY StepType
<1>3. QED BY <1>1, <1>2, PTL DEF Spec

-----------------------------------------------------------------------------
(* NoOrphanTool is inductive: only the end of a load changes it.           *)

(* What stays in the registry beside the tool of a load comes from other   *)
(* files.                                                                  *)
LEMMA UpsertedFrom ==
    ASSUME TypeOK, NoOrphanTool, NEW l \in loads, l.content \in Tools,
           NEW e \in Upserted(l)
    PROVE  \/ e = [name |-> NameOf[l.content], file |-> l.file, stamp |-> l.stamp,
                   tool |-> l.content]
           \/ /\ e.name # NameOf[l.content] /\ e.file # l.file
              /\ e \in registry
<1> DEFINE n == NameOf[l.content]
           new == [name |-> n, file |-> l.file, stamp |-> l.stamp, tool |-> l.content]
<1>1. CASE e = new
  BY <1>1
<1>2. CASE e \in registry /\ e.name # n /\ (Renamed(l) => e.name # fileToTool[l.file])
  <2>1. e.name \in Names /\ fileToTool[e.file] = e.name
    BY <1>2 DEF TypeOK, Entry, NoOrphanTool
  <2>2. QED BY <1>2, <2>1, DistinctAssumption DEF Renamed, DistinctAssumption
<1>3. QED BY <1>1, <1>2 DEF Upserted, Without

LEMMA KeepOwned ==
    ASSUME TypeOK, NoOrphanTool, NEW l \in loads, l.content \in Tools,
           Keep(l) \/ Undo(l)
    PROVE  NoOrphanTool'
<1> DEFINE n == NameOf[l.content]
           new == [name |-> n, file |-> l.file, stamp |-> l.stamp, tool |-> l.content]
<1>1. l.file \in Files /\ n \in Names
  BY ToolAssumption DEF ToolAssumption, TypeOK, Load
<1>2. ASSUME NEW e \in registry
      PROVE  e.name \in Names /\ e.file \in Files /\ fileToTool[e.file] = e.name
  BY DEF TypeOK, Entry, NoOrphanTool
<1>3. ASSUME NEW e \in Upserted(l)
      PROVE  \/ e = new
             \/ e.name # n /\ e.file # l.file /\ e \in registry
  BY <1>3, UpsertedFrom
<1>4. ASSUME NEW m \in Activated(l)
      PROVE  \E e \in Upserted(l) : e.name = m
  <2>1. new \in Upserted(l)
    BY DEF Upserted
  <2>2. CASE m = n
    BY <2>1, <2>2
  <2>3. CASE m # n
    <3>1. m \in active /\ (Renamed(l) => m # fileToTool[l.file])
      BY <2>3 DEF Activated
    <3>2. PICK e \in registry : e.name = m
      BY <3>1 DEF NoOrphanTool, Named
    <3>3. e \in Upserted(l)
      BY <2>3, <3>1, <3>2 DEF Upserted, Without
    <3>4. QED BY <3>2, <3>3
  <2>4. QED BY <2>2, <2>3
<1>5. CASE Keep(l)
  <2>1. ASSUME NEW e \in registry' PROVE fileToTool'[e.file] = e.name
    <3>1. e \in Upserted(l) /\ fileToTool \in [Files -> Names \union {""}]
      BY <1>5 DEF Keep, TypeOK
    <3>2. CASE e = new
      BY <1>1, <1>5, <3>1, <3>2 DEF Keep
    <3>3. CASE e \in registry /\ e.file # l.file
      BY <1>1, <1>2, <1>5, <3>1, <3>3 DEF Keep
    <3>4. QED BY <1>3, <3>1, <3>2, <3>3
  <2>2. ASSUME NEW m \in active' PROVE \E e \in registry' : e.name = m
    BY <1>4, <1>5 DEF Keep
  <2>3. QED BY <2>1, <2>2 DEF NoOrphanTool, Named
<1>6. CASE Undo(l)
  <2>1. ASSUME NEW e \in registry' PROVE fileToTool'[e.file] = e.name
    <3>1. e \in Upserted(l) /\ fileToTool \in [Files -> Names \union {""}]
      BY <1>6 DEF Undo, TypeOK
    <3>2. CASE e = new
      BY <1>1, <1>6, <3>1, <3>2 DEF Undo
    <3>3. CASE e \in registry /\ e.file # l.file
      BY <1>1, <1>2, <1>6, <3>1, <3>3 DEF Undo
    <3>4. QED BY <1>3, <3>1, <3>2, <3>3
  <2>2. ASSUME NEW m \in active' PROVE \E e \in registry' : e.name = m
    BY <1>4, <1>6 DEF Undo
  <2>3. QED BY <2>1, <2>2 DEF NoOrphanTool, Named
<1>7. QED BY <1>5, <1>6

LEMMA RemoveOwned ==
    ASSUME TypeOK, NoOrphanTool, NEW f \in Files, RemoveFileTool(f)
    PROVE  NoOrphanTool'
<1>1. ASSUME NEW e \in registry' PROVE fileToTool'[e.file] = e.name
  BY DEF RemoveFileTool, Without, NoOrphanTool, TypeOK, Entry
<1>2. ASSUME NEW m \in active' PROVE \E e \in registry' : e.name = m
  BY DEF RemoveFileTool, Without, NoOrphanTool, Named
<1>3. QED BY <1>1, <1>2 DEF NoOrphanTool, Named

LEMMA StepOwned == TypeOK /\ NoOrphanTool /\ [Next]_vars => NoOrphanTool'
<1> SUFFICES ASSUME TypeOK, NoOrphanTool, [Next]_vars PROVE NoOrphanTool'
  OBVIOUS
<1>1. ASSUME NEW l \in loads, FinishStart(l) PROVE NoOrphanTool'
  BY <1>1, KeepOwned DEF FinishStart, mapVars, NoOrphanTool, Named
<1>2. ASSUME NEW l \in loads, FinishReload(l) PROVE NoOrphanTool'
  <2>1. l.file \in Files BY DEF TypeOK, Load
  <2>2. QED BY <1>2, <2>1, KeepOwned, RemoveOwned DEF FinishReload
<1>3. CASE UNCHANGED mapVars
  BY <1>3 DEF mapVars, NoOrphanTool, Named
<1>4. QED
  BY <1>1, <1>2, <1>3 DEF Next, WriteFile, StartLoad, WatchEvent, Debounced, ReadFile,
     Start, Watch, Poll, Close, vars

(* No tool outlives the claim of the file it was read from, for any files, *)
(* shared names included, and any overlap of loads.                        *)
THEOREM NoOrphanToolHolds == Spec => []NoOrphanTool
<1>1. Init => NoOrphanTool
  BY DEF Init, NoOrphanTool
<1>2. TypeOK /\ NoOrphanTool /\ [Next]_vars => NoOrphanTool' BY StepOwned
<1>3. QED BY <1>1, <1>2, TypeCorrect, PTL DEF Spec

-----------------------------------------------------------------------------
(* Clashes of helper names.                                                *)

(* The inductive invariant: of two registered tools that clash, one is the *)
(* tool of a file that start() turned away and no reload has touched.      *)
ClashAdmitted ==
    \A e1, e2 \in registry :
        e1.name # e2.name /\ HelperOf[e1.tool] = HelperOf[e2.tool] =>
            turnedAway[e1.file] = "start" \/ turnedAway[e2.file] = "start"

LEMMA StepClash ==
    TypeOK /\ NoOrphanTool /\ ClashAdmitted /\ [Next]_vars => ClashAdmitted'
<1> SUFFICES ASSUME TypeOK, NoOrphanTool, ClashAdmitted, [Next]_vars
             PROVE  ClashAdmitted'
  OBVIOUS
<1>1. ASSUME NEW l \in loads, FinishStart(l) PROVE ClashAdmitted'
  <2>1. l.file \in Files /\ turnedAway \in [Files -> {"", "start", "reload"}]
    BY DEF TypeOK, Load
  <2>2. CASE l.content \in Tools /\ Clash(Upserted(l))
    <3>1. turnedAway' = [turnedAway EXCEPT ![l.file] = "start"]
      BY <1>1, <2>2 DEF FinishStart
    <3>2. ASSUME NEW e \in registry'
          PROVE  \/ turnedAway'[e.file] = "start"
                 \/ e \in registry /\ turnedAway'[e.file] = turnedAway[e.file]
      <4>1. e \in Upserted(l)
        BY <1>1, <2>2 DEF FinishStart, Keep
      <4>2. CASE e.file = l.file
        BY <2>1, <3>1, <4>2
      <4>3. CASE e.file # l.file
        <5>1. e \in registry
          BY <2>2, <4>1, <4>3, UpsertedFrom
        <5>2. e.file \in Files
          BY <5>1 DEF TypeOK, Entry
        <5>3. QED BY <2>1, <3>1, <4>3, <5>1, <5>2
      <4>4. QED BY <4>2, <4>3
    <3>3. QED BY <3>2 DEF ClashAdmitted
  <2>3. CASE l.content \in Tools /\ ~Clash(Upserted(l))
    BY <1>1, <2>3 DEF FinishStart, Keep, Clash, ClashAdmitted
  <2>4. CASE l.content \notin Tools
    BY <1>1, <2>4 DEF FinishStart, mapVars, ClashAdmitted
  <2>5. QED BY <2>2, <2>3, <2>4
<1>2. ASSUME NEW l \in loads, FinishReload(l) PROVE ClashAdmitted'
  <2>1. /\ l.file \in Files
        /\ turnedAway \in [Files -> {"", "start", "reload"}]
        /\ fileToTool \in [Files -> Names \union {""}]
    BY DEF TypeOK, Load
  <2>2. CASE l.content \in Tools /\ ~Clash(Upserted(l))
    BY <1>2, <2>2 DEF FinishReload, Keep, Clash, ClashAdmitted
  <2>3. CASE l.content \in Tools /\ Clash(Upserted(l))
    <3>1. /\ registry' = {e \in Upserted(l) : e.name # NameOf[l.content]}
          /\ turnedAway' = [turnedAway EXCEPT ![l.file] = "reload"]
      BY <1>2, <2>3 DEF FinishReload, Undo
    <3>2. ASSUME NEW e \in registry'
          PROVE  e \in registry /\ turnedAway'[e.file] = turnedAway[e.file]
      <4>1. e \in registry /\ e.file # l.file
        BY <2>3, <3>1, UpsertedFrom
      <4>2. e.file \in Files
        BY <4>1 DEF TypeOK, Entry
      <4>3. QED BY <2>1, <3>1, <4>1, <4>2
    <3>3. QED BY <3>2 DEF ClashAdmitted
  <2>4. CASE l.content \notin Tools
    <3>1. /\ registry' = Without(fileToTool[l.file])
          /\ turnedAway' = [turnedAway EXCEPT ![l.file] = ""]
      BY <1>2, <2>4 DEF FinishReload, RemoveFileTool
    <3>2. ASSUME NEW e \in registry'
          PROVE  e \in registry /\ turnedAway'[e.file] = turnedAway[e.file]
      <4>1. e \in registry /\ e.file # l.file
        BY <3>1 DEF Without, NoOrphanTool
      <4>2. e.file \in Files
        BY <4>1 DEF TypeOK, Entry
      <4>3. QED BY <2>1, <3>1, <4>1, <4>2
    <3>3. QED BY <3>2 DEF ClashAdmitted
  <2>5. QED BY <2>2, <2>3, <2>4
<1>3. CASE UNCHANGED mapVars
  BY <1>3 DEF mapVars, ClashAdmitted
<1>4. QED
  BY <1>1, <1>2, <1>3 DEF Next, WriteFile, StartLoad, WatchEvent, Debounced, ReadFile,
     Start, Watch, Poll, Close, vars

(* Registered tools clash only when start() kept one that clashed; the     *)
(* reloads of any files never bring a clash about.                         *)
THEOREM ClashOnlyFromStartHolds == Spec => []ClashOnlyFromStart
<1>1. Init => ClashAdmitted
  BY DEF Init, ClashAdmitted
<1>2. TypeOK /\ NoOrphanTool /\ ClashAdmitted /\ [Next]_vars => ClashAdmitted'
  BY StepClash
<1>3. TypeOK /\ ClashAdmitted => ClashOnlyFromStart
  BY DEF TypeOK, Entry, ClashAdmitted, ClashOnlyFromStart, Clash
<1>4. QED BY <1>1, <1>2, <1>3, TypeCorrect, NoOrphanToolHolds, PTL DEF Spec

-----------------------------------------------------------------------------
(* The inductive invariant behind InStep and ClosedIsQuiet, when a         *)
(* callback and its loads end before the next callback starts.             *)

(* What a file holds, what was read from it and what is registered from it *)
(* are among the tools it may hold.                                        *)
Sources ==
    /\ \A f \in Files :
          /\ disk[f].content \in Holds[f] \union {"bad", "absent"}
          /\ fileToTool[f] # "" => \E t \in Holds[f] : fileToTool[f] = NameOf[t]
    /\ \A l \in loads : l.content \in Holds[l.file] \union {"bad", "absent"}

(* start() loads one file after the other, each once, before any callback. *)
StartLoads ==
    /\ phase # "running" => events = {} /\ timers = {}
    /\ phase = "new" => loads = {} /\ \A f \in Files : fileToTool[f] = ""
    /\ \A l \in loads : l.by = "start" <=> phase = "starting"
    /\ phase = "starting" =>
          /\ \A l, m \in loads : l = m
          /\ \A f \in queue : fileToTool[f] = ""
          /\ \A l \in loads : l.file \notin queue /\ fileToTool[l.file] = ""

NothingLeft == phase = "closed" => loads = {}

(* A load has what the file holds, unless the file was written since.      *)
Fresh ==
    \A l \in loads : l.read =>
        /\ l.stamp <= disk[l.file].stamp
        /\ IF l.stamp = disk[l.file].stamp THEN l.content = disk[l.file].content
           ELSE l.file \in events \union missed

(* What will bring the registered tool of f up to date.                    *)
Outstanding(f) ==
    \/ phase \in {"new", "closed"}
    \/ phase = "starting" /\ f \in queue
    \/ phase = "running" /\ signatures[f] # Stamp(f)
    \/ f \in events \union timers \union missed
    \/ \E l \in loads : l.file = f /\ (l.read => l.stamp = disk[f].stamp)

Owed == \A f \in Files : Unshared(f) => Agree(f) \/ Outstanding(f)

ReloadInv ==
    TypeOK /\ Sources /\ StartLoads
        /\ (imports = "inline" => NothingLeft /\ Fresh /\ Owed)

(* A load of one file leaves the tool of another, unless they share names. *)
LEMMA OtherToolStays ==
    ASSUME TypeOK, Sources, NEW l \in loads, NEW f \in Files, f # l.file, Unshared(f),
           NEW t \in Holds[f], NEW e \in registry, e.name = NameOf[t]
    PROVE  /\ l.content \in Tools => e \in Upserted(l) /\ e.name # NameOf[l.content]
           /\ e \in Without(fileToTool[l.file])
<1>1. l.file \in Files /\ l.content \in Holds[l.file] \union {"bad", "absent"}
  BY DEF TypeOK, Load, Sources
<1>2. e.name \in Names
  BY DEF TypeOK, Entry
<1>3. ASSUME NEW u \in Holds[l.file] PROVE e.name # NameOf[u]
  BY <1>1 DEF Unshared
<1>4. e.name # fileToTool[l.file]
  BY <1>1, <1>2, <1>3, DistinctAssumption DEF Sources, DistinctAssumption
<1>5. l.content \in Tools => e.name # NameOf[l.content]
  BY <1>1, <1>3, DistinctAssumption DEF DistinctAssumption
<1>6. QED BY <1>4, <1>5 DEF Upserted, Without

LEMMA OtherAgrees ==
    ASSUME TypeOK, Sources, NEW l \in loads, FinishStart(l) \/ FinishReload(l),
           NEW f \in Files, f # l.file, Unshared(f), Agree(f)
    PROVE  Agree(f)'
<1>1. /\ l.file \in Files
      /\ fileToTool \in [Files -> Names \union {""}]
      /\ turnedAway \in [Files -> {"", "start", "reload"}]
  BY DEF TypeOK, Load
<1>2. disk' = disk
  BY DEF FinishStart, FinishReload
<1>3. fileToTool'[f] = fileToTool[f] /\ turnedAway'[f] = turnedAway[f]
  BY <1>1 DEF FinishStart, FinishReload, Keep, Undo, RemoveFileTool, mapVars
<1>4. ASSUME NEW e \in registry, disk[f].content \in Tools,
             e.name = NameOf[disk[f].content]
      PROVE  e \in registry'
  <2>1. disk[f].content \in Holds[f]
    BY <1>4, DistinctAssumption DEF Sources, DistinctAssumption
  <2>2. /\ l.content \in Tools => e \in Upserted(l) /\ e.name # NameOf[l.content]
        /\ e \in Without(fileToTool[l.file])
    BY <1>4, <2>1, OtherToolStays
  <2>3. QED
    BY <2>2 DEF FinishStart, FinishReload, Keep, Undo, RemoveFileTool, mapVars
<1>5. QED BY <1>2, <1>3, <1>4 DEF Agree

(* A load that read what the file still holds brings its tool up to date.  *)
LEMMA OwnAgrees ==
    ASSUME TypeOK, Sources, StartLoads, Fresh,
           NEW l \in loads, FinishStart(l) \/ FinishReload(l),
           l.stamp = disk[l.file].stamp
    PROVE  Agree(l.file)'
<1>1. /\ l.file \in Files
      /\ fileToTool \in [Files -> Names \union {""}]
      /\ turnedAway \in [Files -> {"", "start", "reload"}]
  BY DEF TypeOK, Load
<1>2. disk' = disk /\ l.content = disk[l.file].content
  BY DEF FinishStart, FinishReload, Fresh
<1>3. CASE l.content \in Tools /\ Keep(l)
  <2>1. [name |-> NameOf[l.content], file |-> l.file, stamp |-> l.stamp,
         tool |-> l.content] \in registry'
    BY <1>3 DEF Keep, Upserted
  <2>2. QED BY <1>2, <1>3, <2>1 DEF Agree
<1>4. CASE FinishReload(l) /\ l.content \in Tools /\ Undo(l)
                           /\ turnedAway' = [turnedAway EXCEPT ![l.file] = "reload"]
  BY <1>1, <1>2, <1>4 DEF Undo, Agree
<1>5. CASE FinishReload(l) /\ l.content \notin Tools
  BY <1>1, <1>2, <1>5 DEF FinishReload, RemoveFileTool, Agree
<1>6. CASE FinishStart(l) /\ l.content \notin Tools
  <2>1. fileToTool[l.file] = ""
    BY <1>6 DEF FinishStart, StartLoads
  <2>2. QED BY <1>2, <1>6, <2>1 DEF FinishStart, mapVars, Agree
<1>7. QED BY <1>3, <1>4, <1>5, <1>6 DEF FinishStart, FinishReload

-----------------------------------------------------------------------------
(* The parts of ReloadInv, one by one.                                     *)

LEMMA StepSources == TypeOK /\ Sources /\ [Next]_vars => Sources'
<1> SUFFICES ASSUME TypeOK, Sources, [Next]_vars PROVE Sources'
  OBVIOUS
<1>1. ASSUME NEW f \in Files, WriteFile(f) PROVE Sources'
  <2>1. PICK c \in Holds[f] \union {"bad", "absent"} :
            disk' = [disk EXCEPT ![f] = [stamp |-> @.stamp + 1, content |-> c]]
    BY <1>1 DEF WriteFile
  <2>2. \A g \in Files : disk'[g].content \in Holds[g] \union {"bad", "absent"}
    BY <2>1 DEF TypeOK, Sources
  <2>3. QED BY <1>1, <2>2 DEF WriteFile, mapVars, Sources
<1>2. ASSUME NEW f, NEW by PROVE NewLoad(f, by).content = "absent"
  BY DEF NewLoad
<1>3. ASSUME NEW f \in Files, StartLoad(f) \/ Debounced(f) PROVE Sources'
  <2>1. ASSUME NEW m \in loads'
        PROVE  m.content \in Holds[m.file] \union {"bad", "absent"}
    <3>1. m \in loads \/ m.content = "absent"
      BY <1>2, <1>3 DEF StartLoad, Debounced
    <3>2. QED BY <3>1 DEF Sources
  <2>2. QED BY <1>3, <2>1 DEF StartLoad, Debounced, mapVars, seeVars, Sources
<1>4. CASE Poll
  <2>1. ASSUME NEW m \in loads'
        PROVE  m.content \in Holds[m.file] \union {"bad", "absent"}
    <3>1. CASE m \in loads
      BY <3>1 DEF Sources
    <3>2. CASE \E f \in Changed : m = NewLoad(f, "poll")
      BY <1>2, <3>2
    <3>3. QED BY <1>4, <2>1, <3>1, <3>2 DEF Poll
  <2>2. QED BY <1>4, <2>1 DEF Poll, mapVars, Sources
<1>5. ASSUME NEW l \in loads, ReadFile(l) PROVE Sources'
  <2> DEFINE r == [l EXCEPT !.read = TRUE, !.stamp = disk[l.file].stamp,
                            !.content = disk[l.file].content]
  <2>1. r.file = l.file /\ r.content = disk[l.file].content /\ l.file \in Files
    BY DEF TypeOK, Load
  <2>2. \A m \in loads' : m = r \/ m \in loads
    BY <1>5 DEF ReadFile
  <2>3. QED BY <1>5, <2>1, <2>2 DEF ReadFile, mapVars, seeVars, Sources
<1>6. ASSUME NEW l \in loads, FinishStart(l) \/ FinishReload(l) PROVE Sources'
  <2>1. /\ l.file \in Files /\ fileToTool \in [Files -> Names \union {""}]
        /\ l.content \in Holds[l.file] \union {"bad", "absent"}
    BY DEF TypeOK, Load, Sources
  <2>2. /\ disk' = disk /\ loads' \subseteq loads
    BY <1>6 DEF FinishStart, FinishReload
  <2>3. l.content \in Tools => l.content \in Holds[l.file]
    BY <2>1, DistinctAssumption DEF DistinctAssumption
  <2>4. ASSUME NEW f \in Files, fileToTool'[f] # ""
        PROVE  \E t \in Holds[f] : fileToTool'[f] = NameOf[t]
    <3>1. CASE fileToTool'[f] = fileToTool[f]
      BY <2>4, <3>1 DEF Sources
    <3>2. CASE f = l.file /\ l.content \in Tools /\ fileToTool'[f] = NameOf[l.content]
      BY <2>3, <3>2
    <3>3. QED
      BY <1>6, <2>1, <2>4, <3>1, <3>2
      DEF FinishStart, FinishReload, Keep, Undo, RemoveFileTool, mapVars
  <2>5. QED BY <2>2, <2>4 DEF Sources
<1>7. CASE UNCHANGED <<disk, fileToTool, loads>>
  BY <1>7 DEF Sources
<1>8. QED
  BY <1>1, <1>3, <1>4, <1>5, <1>6, <1>7 DEF Next, WatchEvent, Start, Watch, Close, vars,
     mapVars, seeVars

LEMMA StepStartLoads == TypeOK /\ StartLoads /\ [Next]_vars => StartLoads'
<1> SUFFICES ASSUME TypeOK, StartLoads, [Next]_vars PROVE StartLoads'
  OBVIOUS
<1>1. ASSUME NEW f \in Files, WriteFile(f) PROVE StartLoads'
  BY <1>1 DEF WriteFile, mapVars, StartLoads
<1>2. ASSUME NEW f \in Files, StartLoad(f) PROVE StartLoads'
  <2>1. loads' = {NewLoad(f, "start")} /\ queue' = queue \ {f} /\ fileToTool[f] = ""
    BY <1>2 DEF StartLoad, StartLoads
  <2>2. NewLoad(f, "start").file = f /\ NewLoad(f, "start").by = "start"
    BY DEF NewLoad
  <2>3. QED BY <1>2, <2>1, <2>2 DEF StartLoad, mapVars, seeVars, StartLoads
<1>3. ASSUME NEW f \in Files, WatchEvent(f) PROVE StartLoads'
  BY <1>3 DEF WatchEvent, mapVars, StartLoads
<1>4. ASSUME NEW f \in Files, Debounced(f) PROVE StartLoads'
  <2>1. phase = "running" /\ NewLoad(f, "watch").by # "start"
    BY <1>4 DEF Debounced, NewLoad, StartLoads
  <2>2. QED BY <1>4, <2>1 DEF Debounced, mapVars, StartLoads
<1>5. CASE Poll
  <2>1. ASSUME NEW m \in loads' PROVE m.by # "start"
    <3>1. CASE m \in loads
      BY <1>5, <3>1 DEF Poll, StartLoads
    <3>2. CASE \E f \in Changed : m = NewLoad(f, "poll")
      BY <3>2 DEF NewLoad
    <3>3. QED BY <1>5, <2>1, <3>1, <3>2 DEF Poll
  <2>2. QED BY <1>5, <2>1 DEF Poll, mapVars, StartLoads
<1>6. ASSUME NEW l \in loads, ReadFile(l) PROVE StartLoads'
  <2> DEFINE r == [l EXCEPT !.read = TRUE, !.stamp = disk[l.file].stamp,
                            !.content = disk[l.file].content]
  <2>1. r.file = l.file /\ r.by = l.by
    BY DEF TypeOK, Load
  <2>2. \A m \in loads' : m = r \/ (m \in loads /\ m # l)
    BY <1>6 DEF ReadFile
  <2>3. /\ phase' = phase /\ queue' = queue /\ fileToTool' = fileToTool
        /\ events' = events /\ timers' = timers /\ loads # {}
    BY <1>6 DEF ReadFile, mapVars, seeVars
  <2> HIDE DEF r
  <2>4. \A m \in loads' : m.by = "start" <=> phase' = "starting"
    BY <2>1, <2>2, <2>3 DEF StartLoads
  <2>5. ASSUME phase' = "starting"
        PROVE  /\ \A m, n \in loads' : m = n
               /\ \A m \in loads' : m.file \notin queue' /\ fileToTool'[m.file] = ""
    <3>1. \A m \in loads' : m = r
      BY <2>2, <2>3, <2>5 DEF StartLoads
    <3>2. QED BY <2>1, <2>3, <2>5, <3>1 DEF StartLoads
  <2>6. QED BY <2>3, <2>4, <2>5 DEF StartLoads
<1>7. ASSUME NEW l \in loads, FinishStart(l) \/ FinishReload(l) PROVE StartLoads'
  <2>1. /\ phase' = phase /\ queue' = queue /\ events' = events /\ timers' = timers
        /\ loads' = loads \ {l}
    BY <1>7 DEF FinishStart, FinishReload
  <2>2. ASSUME NEW f \in Files, f # l.file PROVE fileToTool'[f] = fileToTool[f]
    BY <1>7, <2>2 DEF FinishStart, FinishReload, Keep, Undo, RemoveFileTool, mapVars, TypeOK
  <2>3. QED BY <2>1, <2>2 DEF StartLoads, TypeOK
<1>8. CASE Start \/ Watch \/ Close \/ UNCHANGED vars
  BY <1>8 DEF Start, Watch, Close, vars, mapVars, seeVars, StartLoads
<1>9. QED
  BY <1>1, <1>2, <1>3, <1>4, <1>5, <1>6, <1>7, <1>8 DEF Next

(* No load outlives close(): it is a callback, and those do not overlap.   *)
LEMMA StepNothingLeft ==
    TypeOK /\ StartLoads /\ imports = "inline" /\ NothingLeft /\ [Next]_vars => NothingLeft'
<1> SUFFICES ASSUME TypeOK, StartLoads, imports = "inline", NothingLeft, [Next]_vars
             PROVE  NothingLeft'
  OBVIOUS
<1>1. ASSUME NEW f \in Files, StartLoad(f) \/ Debounced(f) PROVE NothingLeft'
  BY <1>1 DEF StartLoad, Debounced, StartLoads, NothingLeft
<1>2. ASSUME NEW l \in loads, ReadFile(l) PROVE NothingLeft'
  BY <1>2 DEF ReadFile, NothingLeft
<1>3. ASSUME NEW l \in loads, FinishStart(l) \/ FinishReload(l) PROVE NothingLeft'
  BY <1>3 DEF FinishStart, FinishReload, NothingLeft
<1>4. CASE Poll \/ Close
  BY <1>4 DEF Poll, Close, Idle, NothingLeft
<1>5. QED
  BY <1>1, <1>2, <1>3, <1>4 DEF Next, WriteFile, WatchEvent, Start, Watch, vars, NothingLeft

LEMMA StepFresh ==
    TypeOK /\ Fresh /\ imports = "inline" /\ [Next]_vars => Fresh'
<1> SUFFICES ASSUME TypeOK, Fresh, imports = "inline", [Next]_vars PROVE Fresh'
  OBVIOUS
<1>1. ASSUME NEW f \in Files, WriteFile(f) PROVE Fresh'
  <2>1. PICK c : disk' = [disk EXCEPT ![f] = [stamp |-> @.stamp + 1, content |-> c]]
    BY <1>1 DEF WriteFile
  <2>2. /\ loads' = loads
        /\ events \union missed \subseteq events' \union missed'
        /\ f \in events' \union missed'
    BY <1>1 DEF WriteFile
  <2>3. ASSUME NEW l \in loads, l.read, l.file = f
        PROVE  l.stamp <= disk'[f].stamp /\ l.stamp # disk'[f].stamp
    <3>1. l.stamp \in Nat /\ disk[f].stamp \in Nat /\ l.stamp <= disk[f].stamp
      BY <2>3 DEF TypeOK, Load, Fresh
    <3>2. disk'[f].stamp = disk[f].stamp + 1
      BY <2>1 DEF TypeOK
    <3>3. QED BY <3>1, <3>2
  <2>4. ASSUME NEW l \in loads, l.file # f PROVE disk'[l.file] = disk[l.file]
    BY <2>1, <2>4 DEF TypeOK, Load
  <2>5. QED BY <2>2, <2>3, <2>4 DEF Fresh
<1>2. ASSUME NEW f, NEW by PROVE ~NewLoad(f, by).read
  BY DEF NewLoad
<1>3. ASSUME NEW f \in Files, StartLoad(f) \/ Debounced(f) PROVE Fresh'
  <2>1. ASSUME NEW m \in loads', m.read PROVE m \in loads
    BY <1>2, <1>3, <2>1 DEF StartLoad, Debounced
  <2>2. disk' = disk /\ events' = events /\ missed' = missed
    BY <1>3 DEF StartLoad, Debounced, seeVars
  <2>3. QED BY <2>1, <2>2 DEF Fresh
<1>4. CASE Poll
  <2>1. ASSUME NEW m \in loads', m.read PROVE m \in loads
    <3>1. m \in loads \/ \E f \in Changed : m = NewLoad(f, "poll")
      BY <1>4 DEF Poll
    <3>2. QED BY <1>2, <2>1, <3>1
  <2>2. disk' = disk /\ events' = events /\ missed' = missed
    BY <1>4 DEF Poll
  <2>3. QED BY <2>1, <2>2 DEF Fresh
<1>5. ASSUME NEW l \in loads, ReadFile(l) PROVE Fresh'
  <2> DEFINE r == [l EXCEPT !.read = TRUE, !.stamp = disk[l.file].stamp,
                            !.content = disk[l.file].content]
  <2>1. /\ r.file = l.file /\ r.stamp = disk[l.file].stamp
        /\ r.content = disk[l.file].content /\ r.stamp \in Nat
    BY DEF TypeOK, Load
  <2>2. /\ \A m \in loads' : m = r \/ (m \in loads /\ m # l)
        /\ disk' = disk /\ events' = events /\ missed' = missed
    BY <1>5 DEF ReadFile, seeVars
  <2> HIDE DEF r
  <2>3. QED BY <2>1, <2>2 DEF Fresh
<1>6. ASSUME NEW f \in Files, WatchEvent(f) PROVE Fresh'
  BY <1>6 DEF WatchEvent, Idle, Fresh
<1>7. ASSUME NEW l \in loads, FinishStart(l) \/ FinishReload(l) PROVE Fresh'
  BY <1>7 DEF FinishStart, FinishReload, Fresh
<1>8. CASE Close
  BY <1>8 DEF Close, Idle, Fresh
<1>9. CASE Start \/ Watch \/ UNCHANGED vars
  BY <1>9 DEF Start, Watch, vars, seeVars, Fresh
<1>10. QED
  BY <1>1, <1>3, <1>4, <1>5, <1>6, <1>7, <1>8, <1>9 DEF Next

(* Until a file's tool agrees with it, something is on its way: a write    *)
(* raises an event or is missed, an event becomes a timer, a timer and the *)
(* poll start a load, and a load that read what is still there registers   *)
(* it.                                                                     *)
LEMMA StepOwed ==
    /\ TypeOK /\ Sources /\ StartLoads /\ imports = "inline"
    /\ Fresh /\ Owed /\ [Next]_vars
    => Owed'
<1> SUFFICES ASSUME TypeOK, Sources, StartLoads, imports = "inline",
                    Fresh, Owed, [Next]_vars,
                    NEW f \in Files, Unshared(f)
             PROVE  Agree(f)' \/ Outstanding(f)'
  BY DEF Owed, Unshared
<1>1. Agree(f) \/ Outstanding(f)
  BY DEF Owed
<1>2. ASSUME NEW g \in Files, WriteFile(g) PROVE Agree(f)' \/ Outstanding(f)'
  <2>1. CASE g = f
    BY <1>2, <2>1 DEF WriteFile, Outstanding
  <2>2. CASE g # f
    <3>1. disk'[f] = disk[f]
      BY <1>2, <2>2 DEF WriteFile, TypeOK
    <3>2. Agree(f)' <=> Agree(f)
      BY <1>2, <3>1 DEF WriteFile, mapVars, Agree
    <3>3. Outstanding(f) => Outstanding(f)'
      BY <1>2, <2>2, <3>1 DEF WriteFile, Outstanding, Stamp, Exists
    <3>4. QED BY <1>1, <3>2, <3>3
  <2>3. QED BY <2>1, <2>2
<1>3. ASSUME UNCHANGED <<disk, mapVars>> PROVE Agree(f)' <=> Agree(f)
  BY <1>3 DEF mapVars, Agree
<1>4. ASSUME NEW g \in Files, StartLoad(g) PROVE Agree(f)' \/ Outstanding(f)'
  <2>1. /\ NewLoad(g, "start").file = g /\ ~NewLoad(g, "start").read
        /\ loads' = {NewLoad(g, "start")} /\ queue' = queue \ {g} /\ loads = {}
    BY <1>4 DEF StartLoad, NewLoad
  <2>2. Outstanding(f) => Outstanding(f)'
    BY <1>4, <2>1 DEF StartLoad, seeVars, Outstanding
  <2>3. QED BY <1>1, <1>3, <1>4, <2>2 DEF StartLoad
<1>5. ASSUME NEW g \in Files, WatchEvent(g) PROVE Agree(f)' \/ Outstanding(f)'
  <2>1. Outstanding(f) => Outstanding(f)'
    BY <1>5 DEF WatchEvent, Outstanding, Stamp, Exists
  <2>2. QED BY <1>1, <1>3, <1>5, <2>1 DEF WatchEvent
<1>6. ASSUME NEW g \in Files, Debounced(g) PROVE Agree(f)' \/ Outstanding(f)'
  <2>1. /\ NewLoad(g, "watch").file = g /\ ~NewLoad(g, "watch").read
        /\ loads' = loads \union {NewLoad(g, "watch")} /\ timers' = timers \ {g}
    BY <1>6 DEF Debounced, NewLoad
  <2>2. Outstanding(f) => Outstanding(f)'
    BY <1>6, <2>1 DEF Debounced, Outstanding, Stamp, Exists
  <2>3. QED BY <1>1, <1>3, <1>6, <2>2 DEF Debounced
<1>7. CASE Poll
  <2>1. /\ NewLoad(f, "poll").file = f /\ ~NewLoad(f, "poll").read
        /\ loads' = loads \union {NewLoad(g, "poll") : g \in Changed}
    BY <1>7 DEF Poll, NewLoad
  <2>2. CASE signatures[f] # Stamp(f)
    <3>1. NewLoad(f, "poll") \in loads'
      BY <2>1, <2>2 DEF Changed
    <3>2. QED BY <2>1, <3>1 DEF Outstanding
  <2>3. CASE signatures[f] = Stamp(f)
    <3>1. Outstanding(f) => Outstanding(f)'
      BY <1>7, <2>1, <2>3 DEF Poll, Outstanding
    <3>2. QED BY <1>1, <1>3, <1>7, <3>1 DEF Poll
  <2>4. QED BY <2>2, <2>3
<1>8. ASSUME NEW l \in loads, ReadFile(l) PROVE Agree(f)' \/ Outstanding(f)'
  <2> DEFINE r == [l EXCEPT !.read = TRUE, !.stamp = disk[l.file].stamp,
                            !.content = disk[l.file].content]
  <2>1. r.file = l.file /\ r.stamp = disk[l.file].stamp
    BY DEF TypeOK, Load
  <2>2. loads' = (loads \ {l}) \union {r}
    BY <1>8 DEF ReadFile
  <2> HIDE DEF r
  <2>3. Outstanding(f) => Outstanding(f)'
    BY <1>8, <2>1, <2>2 DEF ReadFile, seeVars, Outstanding, Stamp, Exists
  <2>4. QED BY <1>1, <1>3, <1>8, <2>3 DEF ReadFile
<1>9. ASSUME NEW l \in loads, FinishStart(l) \/ FinishReload(l)
      PROVE  Agree(f)' \/ Outstanding(f)'
  <2>1. /\ disk' = disk /\ phase' = phase /\ queue' = queue
        /\ events' = events /\ missed' = missed /\ timers' = timers
        /\ loads' = loads \ {l} /\ l.read /\ l.file \in Files
        /\ signatures' = [signatures EXCEPT ![l.file] = Stamp(l.file)]
    BY <1>9 DEF FinishStart, FinishReload, TypeOK, Load
  <2>2. CASE l.file = f /\ l.stamp = disk[f].stamp
    BY <1>9, <2>2, OwnAgrees
  <2>3. CASE l.file = f /\ l.stamp # disk[f].stamp
    BY <2>1, <2>3 DEF Fresh, Outstanding
  <2>4. CASE l.file # f
    <3>1. Agree(f) => Agree(f)'
      BY <1>9, <2>4, OtherAgrees
    <3>2. signatures'[f] = signatures[f]
      BY <2>1, <2>4 DEF TypeOK
    <3>3. Outstanding(f) => Outstanding(f)'
      BY <2>1, <2>4, <3>2 DEF Outstanding, Stamp, Exists
    <3>4. QED BY <1>1, <3>1, <3>3
  <2>5. QED BY <2>2, <2>3, <2>4
<1>10. CASE Start
  <2>1. CASE Exists(f)
    BY <1>10, <2>1 DEF Start, Outstanding
  <2>2. CASE ~Exists(f)
    <3>1. disk[f].content \notin Tools /\ fileToTool[f] = ""
      BY <1>10, <2>2, DistinctAssumption DEF Start, Exists, StartLoads, DistinctAssumption
    <3>2. QED BY <1>10, <3>1 DEF Start, mapVars, Agree
  <2>3. QED BY <2>1, <2>2
<1>11. CASE Watch
  <2>1. Outstanding(f) => Outstanding(f)'
    BY <1>11 DEF Watch, seeVars, Outstanding, Stamp, Exists
  <2>2. QED BY <1>1, <1>3, <1>11, <2>1 DEF Watch
<1>12. CASE Close
  BY <1>12 DEF Close, Outstanding
<1>13. CASE UNCHANGED vars
  <2>1. Outstanding(f) => Outstanding(f)'
    BY <1>13 DEF vars, seeVars, Outstanding, Stamp, Exists
  <2>2. QED BY <1>1, <1>3, <1>13, <2>1 DEF vars
<1>14. QED
  BY <1>2, <1>4, <1>5, <1>6, <1>7, <1>8, <1>9, <1>10, <1>11, <1>12, <1>13 DEF Next

LEMMA ReloadInvariant == Spec => []ReloadInv
<1>1. Init => ReloadInv
  <2> SUFFICES ASSUME Init PROVE ReloadInv
    OBVIOUS
  <2>1. Sources
    BY DEF Init, Sources
  <2>2. StartLoads /\ NothingLeft /\ Fresh /\ Owed
    BY DEF Init, StartLoads, NothingLeft, Fresh, Owed, Outstanding
  <2>3. QED BY <2>1, <2>2, InitType DEF ReloadInv
<1>2. ReloadInv /\ [Next]_vars => ReloadInv'
  <2> SUFFICES ASSUME ReloadInv, [Next]_vars PROVE ReloadInv'
    OBVIOUS
  <2>1. imports' = imports
    BY DEF ReloadInv, Next, WriteFile, StartLoad, WatchEvent, Debounced, ReadFile,
           FinishStart, FinishReload, Start, Watch, Poll, Close, vars
  <2>2. TypeOK' /\ Sources' /\ StartLoads'
    BY StepType, StepSources, StepStartLoads DEF ReloadInv
  <2>3. imports = "inline" => NothingLeft' /\ Fresh' /\ Owed'
    BY StepNothingLeft, StepFresh, StepOwed DEF ReloadInv
  <2>4. QED BY <2>1, <2>2, <2>3 DEF ReloadInv
<1>3. QED BY <1>1, <1>2, PTL DEF Spec

(* Whenever nothing the manager was told of a file is outstanding, its     *)
(* tool is the file's, for any files and tools and however writes fall     *)
(* between the steps of a load (reconcileFile).                            *)
THEOREM InStepHolds == Spec => []InStep
<1>1. ReloadInv => InStep
  BY DEF ReloadInv, Owed, InStep, Settled, Outstanding
<1>2. QED BY <1>1, ReloadInvariant, PTL

(* close() lets no timer, event or load change the registered tools any    *)
(* more (close clears the timers and the watcher).                         *)
THEOREM ClosedIsQuietHolds == Spec => ClosedIsQuiet
<1>1. ReloadInv /\ [Next]_vars =>
          (phase = "closed" /\ imports = "inline" => UNCHANGED mapVars)
  BY DEF ReloadInv, NothingLeft, Next, WriteFile, StartLoad, WatchEvent, Debounced,
         ReadFile, Start, Watch, Poll, Close, vars, mapVars
<1>2. QED BY <1>1, ReloadInvariant, PTL DEF Spec, ClosedIsQuiet
=============================================================================
