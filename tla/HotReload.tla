----------------------------- MODULE HotReload -----------------------------
(***************************************************************************)
(* CustomToolManager (src/custom-tool-manager.ts): the tool files of the   *)
(* tools directory, the watcher and the poll that notice their changes,    *)
(* the reloads those start, and the tools registered from them in the      *)
(* ToolRegistry and in Pi's list of active tools.                          *)
(*                                                                         *)
(* Other processes write the directory at any moment, also between two     *)
(* calls of one host callback.  A load is the await import(file) of        *)
(* loadCustomToolFile: in the CommonJS build it is a require() in a        *)
(* microtask, so a callback and its loads end before the next callback     *)
(* starts; under a loader that evaluates modules asynchronously other      *)
(* callbacks run meanwhile.  The modification time and size of a file are  *)
(* one stamp, new at every write.                                          *)
(***************************************************************************)
EXTENDS Naturals, FiniteSets

CONSTANTS
    Files,      \* the names of the tool files
    Tools,      \* the tool definitions a file may export
    Names,      \* the names of tools
    NameOf,     \* the name of each definition
    HelperOf,   \* the Python helper name of each definition
    Direct,     \* the definitions whose ptc.callers allow direct calls
    Holds,      \* the definitions each file may hold
    MaxWrites   \* bound on the writes of each file

ASSUME ToolAssumption ==
    /\ NameOf \in [Tools -> Names]
    /\ DOMAIN HelperOf = Tools
    /\ Direct \subseteq Tools
    /\ Holds \in [Files -> SUBSET Tools]
    /\ MaxWrites \in [Files -> Nat]

(* What is not a name of a tool, and not a definition.                     *)
ASSUME DistinctAssumption ==
    /\ "" \notin Names
    /\ "bad" \notin Tools
    /\ "absent" \notin Tools

VARIABLES
    disk,        \* each file: its stamp and what it holds
    imports,     \* how the runtime evaluates import(): "inline" or "suspends"
    phase,       \* the life of the manager
    queue,       \* the files start() has not loaded yet
    fileToTool,  \* the name registered from each file, "" when none
    registry,    \* the custom tools, each with the file and stamp it was read at
    active,      \* the names of custom tools in Pi's active tools
    signatures,  \* fileSignatures: the stamp last seen, 0 when none
    events,      \* watch events on their way
    missed,      \* files whose last write raised no watch event
    timers,      \* debounceTimers
    loads,       \* loads under way
    turnedAway   \* why the last load of a file was refused, "" when it was not

mapVars == <<fileToTool, registry, active, turnedAway>>
seeVars == <<signatures, events, missed, timers>>
vars    == <<disk, imports, phase, queue, mapVars, seeVars, loads>>

Contents == Tools \union {"bad", "absent"}
Entry    == [name : Names, file : Files, stamp : Nat, tool : Tools]

(* A load belongs to a file and to what started it: start(), the debounce  *)
(* timer or the poll.  One of each kind may be under way for a file.       *)
Starters == {"start", "watch", "poll"}
Load     == [file : Files, by : Starters, read : BOOLEAN, stamp : Nat,
             content : Contents]
NewLoad(f, by) ==
    [file |-> f, by |-> by, read |-> FALSE, stamp |-> 0, content |-> "absent"]

Exists(f) == disk[f].content # "absent"
Stamp(f)  == IF Exists(f) THEN disk[f].stamp ELSE 0

(* A host callback starts only when the one before it and its loads ended. *)
Idle == imports = "suspends" \/ loads = {}

Init ==
    /\ disk \in {d \in [Files -> [stamp : {1}, content : Contents]] :
                    \A f \in Files : d[f].content \in Holds[f] \union {"bad", "absent"}}
    /\ imports \in {"inline", "suspends"}
    /\ phase = "new"
    /\ queue = {}
    /\ fileToTool = [f \in Files |-> ""]
    /\ registry = {}
    /\ active = {}
    /\ signatures = [f \in Files |-> 0]
    /\ events = {}
    /\ missed = {}
    /\ timers = {}
    /\ loads = {}
    /\ turnedAway = [f \in Files |-> ""]

-----------------------------------------------------------------------------
(* The writers of the directory.                                           *)

(* A write, touch, creation or deletion; the watcher may not report it.    *)
(* What was written before start() is in Init.                             *)
WriteFile(f) ==
    /\ phase # "new"
    /\ disk[f].stamp <= MaxWrites[f]
    /\ \E c \in Holds[f] \union {"bad", "absent"} :
          /\ Exists(f) \/ c # "absent"
          /\ disk' = [disk EXCEPT ![f] = [stamp |-> @.stamp + 1, content |-> c]]
    /\ \/ /\ phase = "running"
          /\ events' = events \union {f}
          /\ missed' = missed \ {f}
       \/ /\ events' = events
          /\ missed' = missed \union {f}
    /\ UNCHANGED <<imports, phase, queue, mapVars, signatures, timers, loads>>

-----------------------------------------------------------------------------
(* Registering and removing tools.                                         *)

Named(n)   == {e \in registry : e.name = n}
Without(n) == {e \in registry : e.name # n}

(* validatePythonHelperNames, which onToolSetChanged reaches, throws.      *)
Clash(reg) == \E e1, e2 \in reg : e1.name # e2.name
                                  /\ HelperOf[e1.tool] = HelperOf[e2.tool]

\* Mutant: an invalid or deleted file keeps its tool.
RemoveFileToolKeeping(f) == UNCHANGED <<registry, active, fileToTool>>

(* removeFileTool: the name goes, whichever file registered it last.       *)
RemoveFileTool(f) ==
    LET n == fileToTool[f] IN
    /\ registry' = Without(n)
    /\ active' = active \ {n}
    /\ fileToTool' = [fileToTool EXCEPT ![f] = ""]

\* Mutant: a rename leaves the previous name registered.
UpsertedBesideOld(l) ==
    {e \in registry : e.name # NameOf[l.content]}
    \union {[name |-> NameOf[l.content], file |-> l.file, stamp |-> l.stamp,
             tool |-> l.content]}

\* Mutant: the file name is activated in place of the tool's.
ActivatedFile(l) == active \union {l.file}

(* registerLoadedTool up to onToolSetChanged: what the registry and the    *)
(* active tools become once the load l is registered.                      *)
Renamed(l) == fileToTool[l.file] \notin {"", NameOf[l.content]}
Upserted(l) ==
    {e \in (IF Renamed(l) THEN Without(fileToTool[l.file]) ELSE registry) :
        e.name # NameOf[l.content]}
    \union {[name |-> NameOf[l.content], file |-> l.file, stamp |-> l.stamp,
             tool |-> l.content]}
Activated(l) ==
    (IF Renamed(l) THEN active \ {fileToTool[l.file]} ELSE active)
    \union (IF l.content \in Direct THEN {NameOf[l.content]} ELSE {})

Keep(l) ==
    /\ registry' = Upserted(l)
    /\ active' = Activated(l)
    /\ fileToTool' = [fileToTool EXCEPT ![l.file] = NameOf[l.content]]

\* Mutant: the catch leaves the tool registered.
UndoNothing(l) == Keep(l)

(* The tool was registered, onToolSetChanged threw, and removeFileTool in  *)
(* the catch takes the new name out again.                                 *)
Undo(l) ==
    LET n == NameOf[l.content] IN
    /\ registry' = {e \in Upserted(l) : e.name # n}
    /\ active' = Activated(l) \ {n}
    /\ fileToTool' = [fileToTool EXCEPT ![l.file] = ""]

-----------------------------------------------------------------------------
(* start() and close().                                                    *)

(* start() lists the directory.                                            *)
Start ==
    /\ phase = "new"
    /\ phase' = "starting"
    /\ queue' = {f \in Files : Exists(f)}
    /\ UNCHANGED <<disk, imports, mapVars, seeVars, loads>>

(* The next file of the list.                                              *)
StartLoad(f) ==
    /\ phase = "starting" /\ loads = {}
    /\ f \in queue
    /\ queue' = queue \ {f}
    /\ loads' = {NewLoad(f, "start")}
    /\ UNCHANGED <<disk, imports, phase, mapVars, seeVars>>

\* Mutant: an invalid file ends start().
FinishStartUncaught(l) ==
    /\ l \in loads /\ l.read /\ l.by = "start"
    /\ l.content \in Tools
    /\ Keep(l)
    /\ turnedAway' = [turnedAway EXCEPT ![l.file] =
                         IF Clash(Upserted(l)) THEN "start" ELSE ""]
    /\ signatures' = [signatures EXCEPT ![l.file] = Stamp(l.file)]
    /\ loads' = loads \ {l}
    /\ UNCHANGED <<disk, imports, phase, queue, events, missed, timers>>

(* A file start() has read: an invalid one is skipped with a warning; so   *)
(* is one for which onToolSetChanged throws, but its tool stays.           *)
FinishStart(l) ==
    /\ l \in loads /\ l.read /\ l.by = "start"
    /\ IF l.content \in Tools
       THEN /\ Keep(l)
            /\ turnedAway' = [turnedAway EXCEPT ![l.file] =
                                 IF Clash(Upserted(l)) THEN "start" ELSE ""]
       ELSE UNCHANGED mapVars
    /\ signatures' = [signatures EXCEPT ![l.file] = Stamp(l.file)]
    /\ loads' = loads \ {l}
    /\ UNCHANGED <<disk, imports, phase, queue, events, missed, timers>>

(* startWatching and startPolling.                                         *)
Watch ==
    /\ phase = "starting" /\ queue = {} /\ loads = {}
    /\ phase' = "running"
    /\ UNCHANGED <<disk, imports, queue, mapVars, seeVars, loads>>

\* Mutant: the debounce timers survive close().
CloseKeepingTimers ==
    /\ phase = "running" /\ Idle
    /\ phase' = "closed"
    /\ signatures' = [f \in Files |-> 0]
    /\ UNCHANGED <<disk, imports, queue, mapVars, events, missed, timers, loads>>

(* session_shutdown.  Loads under way are not stopped; fileToTool stays.   *)
Close ==
    /\ phase = "running" /\ Idle
    /\ phase' = "closed"
    /\ timers' = {}
    /\ events' = {}
    /\ signatures' = [f \in Files |-> 0]
    /\ UNCHANGED <<disk, imports, queue, mapVars, missed, loads>>

-----------------------------------------------------------------------------
(* Noticing a change.                                                      *)

(* The watcher's callback: the file's timer starts afresh.                 *)
WatchEvent(f) ==
    /\ f \in events /\ Idle
    /\ events' = events \ {f}
    /\ timers' = timers \union {f}
    /\ UNCHANGED <<disk, imports, phase, queue, mapVars, signatures, missed, loads>>

InFlight(f, by) == \E l \in loads : l.file = f /\ l.by = by

(* 300 ms without another event.                                           *)
Debounced(f) ==
    /\ f \in timers /\ Idle
    /\ ~InFlight(f, "watch")
    /\ timers' = timers \ {f}
    /\ loads' = loads \union {NewLoad(f, "watch")}
    /\ UNCHANGED <<disk, imports, phase, queue, mapVars, signatures, events, missed>>

(* scanForMissedChanges: every file whose signature is not the one last    *)
(* seen gets the new signature and a reload.                               *)
Changed == {f \in Files : signatures[f] # Stamp(f)}

Poll ==
    /\ phase = "running" /\ Idle
    /\ Changed # {}
    /\ \A f \in Changed : ~InFlight(f, "poll")
    /\ signatures' = [f \in Files |-> Stamp(f)]
    /\ loads' = loads \union {NewLoad(f, "poll") : f \in Changed}
    /\ UNCHANGED <<disk, imports, phase, queue, mapVars, events, missed, timers>>

-----------------------------------------------------------------------------
(* A load: loadCustomToolFile, then the rest of reconcileFile.             *)

(* The runtime reads the file; a file that is gone reads as "absent",      *)
(* whether existsSync or the import finds out.                             *)
ReadFile(l) ==
    /\ l \in loads /\ ~l.read
    /\ loads' = (loads \ {l}) \union
                {[l EXCEPT !.read = TRUE, !.stamp = disk[l.file].stamp,
                           !.content = disk[l.file].content]}
    /\ UNCHANGED <<disk, imports, phase, queue, mapVars, seeVars>>

FinishReload(l) ==
    /\ l \in loads /\ l.read /\ l.by # "start"
    /\ \/ /\ l.content \in Tools /\ ~Clash(Upserted(l))
          /\ Keep(l)
          /\ turnedAway' = [turnedAway EXCEPT ![l.file] = ""]
       \/ /\ l.content \in Tools /\ Clash(Upserted(l))
          /\ Undo(l)
          /\ turnedAway' = [turnedAway EXCEPT ![l.file] = "reload"]
       \/ /\ l.content \notin Tools
          /\ RemoveFileTool(l.file)
          /\ turnedAway' = [turnedAway EXCEPT ![l.file] = ""]
    /\ signatures' = [signatures EXCEPT ![l.file] = Stamp(l.file)]
    /\ loads' = loads \ {l}
    /\ UNCHANGED <<disk, imports, phase, queue, events, missed, timers>>

Next ==
    \/ \E f \in Files : WriteFile(f) \/ StartLoad(f) \/ WatchEvent(f) \/ Debounced(f)
    \/ \E l \in loads : ReadFile(l) \/ FinishStart(l) \/ FinishReload(l)
    \/ Start \/ Watch \/ Poll \/ Close

Spec == Init /\ [][Next]_vars

(* The session starts, timers fire and loads end; nobody has to write a    *)
(* file or to close the session.                                           *)
Fairness ==
    /\ WF_vars(Start) /\ WF_vars(Watch) /\ WF_vars(Poll)
    /\ WF_vars(\E l \in loads : ReadFile(l) \/ FinishStart(l) \/ FinishReload(l))
    /\ \A f \in Files : /\ WF_vars(StartLoad(f))
                        /\ WF_vars(WatchEvent(f))
                        /\ WF_vars(Debounced(f))

FairSpec == Spec /\ Fairness

-----------------------------------------------------------------------------
TypeOK ==
    /\ disk \in [Files -> [stamp : Nat, content : Contents]]
    /\ imports \in {"inline", "suspends"}
    /\ phase \in {"new", "starting", "running", "closed"}
    /\ queue \subseteq Files
    /\ fileToTool \in [Files -> Names \union {""}]
    /\ registry \subseteq Entry
    /\ active \subseteq Names
    /\ signatures \in [Files -> Nat]
    /\ events \subseteq Files
    /\ missed \subseteq Files
    /\ timers \subseteq Files
    /\ loads \subseteq Load
    /\ turnedAway \in [Files -> {"", "start", "reload"}]

(* No tool outlives its file's claim to it: a registered custom tool is    *)
(* still the tool of the file it was read from, and no custom tool is      *)
(* active that is not registered, through renames, invalid files, deleted  *)
(* files, files that share a name and reloads that overlap                 *)
(* (registerLoadedTool and removeFileTool).                                *)
NoOrphanTool ==
    /\ \A e \in registry : fileToTool[e.file] = e.name
    /\ \A n \in active : Named(n) # {}

(* The registered tools have distinct Python helper names, which every     *)
(* execution needs, unless start() kept a tool for which onToolSetChanged  *)
(* threw: a reload takes such a tool out again.                            *)
ClashOnlyFromStart ==
    Clash(registry) => \E f \in Files : turnedAway[f] = "start"

(* What the manager registered from file f is what the file holds.         *)
Agree(f) ==
    IF disk[f].content \in Tools
    THEN \/ [name |-> NameOf[disk[f].content], file |-> f, stamp |-> disk[f].stamp,
             tool |-> disk[f].content] \in registry
         \/ turnedAway[f] = "reload" /\ fileToTool[f] = ""
    ELSE fileToTool[f] = ""

(* No other file may hold a tool of the name of one that f may hold.       *)
Unshared(f) == \A g \in Files \ {f} : \A t \in Holds[f], u \in Holds[g] :
                  NameOf[t] # NameOf[u]

(* Nothing the manager has seen or been told of file f is outstanding.     *)
Settled(f) ==
    /\ phase = "running"
    /\ f \notin events \union timers \union missed
    /\ \A l \in loads : l.file # f
    /\ signatures[f] = Stamp(f)

(* Once the manager has nothing outstanding for a file whose last change   *)
(* was reported to it, the registered tool is the file's, whatever was     *)
(* written while its loads were under way (reconcileFile, refresh of the   *)
(* signature in its finally).  Excepted are a write that raised no event,  *)
(* which that refresh may swallow, files that share tool names, and a tool *)
(* a reload has turned away because of its helper name.                    *)
InStep ==
    imports = "inline" =>
        \A f \in Files : Settled(f) /\ Unshared(f) => Agree(f)

(* After close() the registered and active tools never change again.       *)
ClosedIsQuiet ==
    [][phase = "closed" /\ imports = "inline" => UNCHANGED mapVars]_vars

(* When the writers are done and the last change of a file was reported,   *)
(* the manager ends up with the tool of the file and stays with it, with   *)
(* the exceptions of InStep (reconcileFile, the watcher and the poll).     *)
Converges ==
    \A f \in Files :
        imports = "inline" /\ Unshared(f)
            /\ <>[](phase # "closed" /\ f \notin missed) => <>[]Agree(f)

(* "Skipping invalid custom tool": a file that start() reports as skipped  *)
(* has no tool registered.                                                 *)
SkippedStaysOut ==
    \A e \in registry : turnedAway[e.file] # "start"
=============================================================================
