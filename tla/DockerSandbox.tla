--------------------------- MODULE DockerSandbox ---------------------------
(***************************************************************************)
(* The Docker sandbox of src/sandbox-manager.ts: one container, made when  *)
(* an execution needs it, used by all the executions of the session, and   *)
(* stopped when it was not used for EXECUTION_TIMEOUT or when the session  *)
(* shuts down.                                                             *)
(*                                                                         *)
(* Time passes in ticks, and the interval timer is punctual.  The calls of *)
(* docker are synchronous in the code, hence atomic here; each may fail.   *)
(* Pi starts no execution after session_shutdown.                          *)
(***************************************************************************)
EXTENDS Naturals

CONSTANTS
    Containers,    \* the containers docker may make: a bound on their number
    None,          \* no container: null
    Execs,         \* executions that may be under way at once
    Timeout,       \* EXECUTION_TIMEOUT, in ticks
    Interval       \* the period of the cleanup timer, in ticks

ASSUME SandboxAssumption ==
    /\ None \notin Containers
    /\ Timeout \in Nat
    /\ Interval \in Nat \ {0}

VARIABLES
    containers,    \* what docker has
    containerId,   \* the container in use, None when null
    idle,          \* ticks since lastUsed
    sinceCheck,    \* ticks since the cleanup timer fired last
    open,          \* the session has not shut down: the timer is set
    home,          \* the container each execution runs in
    age,           \* ticks since it was spawned
    leaked         \* the containers a docker stop failed for

vars == <<containers, containerId, idle, sinceCheck, open, home, age, leaked>>

States == {"none", "running", "died", "stopped"}

(* Counters stop where nothing distinguishes a greater value.              *)
IdleBound == Timeout + Interval + 1
AgeBound  == Timeout + 1

Upto(bound, n) == IF n < bound THEN n + 1 ELSE bound

Init ==
    /\ containers = [c \in Containers |-> "none"]
    /\ containerId = None
    /\ idle = 0
    /\ sinceCheck = 0
    /\ open = TRUE
    /\ home = [e \in Execs |-> None]
    /\ age = [e \in Execs |-> 0]
    /\ leaked = {}

-----------------------------------------------------------------------------
(* stopContainerNow: the id is forgotten first.  docker stop fails for a   *)
(* container that is gone, which the code cannot tell from other failures, *)
(* for it ignores what docker says (stdio: "ignore").                      *)

Stoppable == containerId # None => containers[containerId] = "running"

AfterStop ==
    [c \in Containers |-> IF c = containerId THEN "stopped" ELSE containers[c]]

StopSucceeds ==
    /\ Stoppable
    /\ containers' = AfterStop
    /\ containerId' = None
    /\ UNCHANGED leaked

\* Mutant: the id is forgotten when docker stop has succeeded.
StopFailsKeepingId ==
    /\ containerId # None
    /\ leaked' = leaked \union {containerId}
    /\ UNCHANGED <<containers, containerId>>

StopFails ==
    /\ containerId # None
    /\ leaked' = leaked \union {containerId}
    /\ containerId' = None
    /\ UNCHANGED containers

StopContainerNow == StopSucceeds \/ StopFails

-----------------------------------------------------------------------------
(* The execution e runs in c, and lastUsed is now.                         *)
ExecIn(e, c) ==
    /\ home' = [home EXCEPT ![e] = c]
    /\ age' = [age EXCEPT ![e] = 0]
    /\ idle' = 0

Usable == containerId # None /\ idle <= Timeout

\* Mutant: lastUsed is set when the container is made, not when it is used.
ReuseUnnoted(e) ==
    /\ open /\ home[e] = None
    /\ Usable
    /\ home' = [home EXCEPT ![e] = containerId]
    /\ age' = [age EXCEPT ![e] = 0]
    /\ UNCHANGED <<containers, containerId, idle, sinceCheck, open, leaked>>

(* spawn with the container there is: nothing looks whether it still runs. *)
SpawnReuse(e) ==
    /\ open /\ home[e] = None
    /\ Usable
    /\ ExecIn(e, containerId)
    /\ UNCHANGED <<containers, containerId, sinceCheck, open, leaked>>

\* Mutant: the expired container is not stopped before another is made.
MakeAnother(e, c) ==
    /\ open /\ home[e] = None
    /\ ~Usable
    /\ containers[c] = "none"
    /\ containers' = [containers EXCEPT ![c] = "running"]
    /\ containerId' = c
    /\ ExecIn(e, c)
    /\ UNCHANGED <<sinceCheck, open, leaked>>

(* spawn that stops the expired container, if there is one, and makes      *)
(* another.                                                                *)
SpawnNew(e, c) ==
    /\ open /\ home[e] = None
    /\ ~Usable
    /\ containers[c] = "none"
    /\ Stoppable
    /\ containers' = [AfterStop EXCEPT ![c] = "running"]
    /\ containerId' = c
    /\ ExecIn(e, c)
    /\ UNCHANGED <<sinceCheck, open, leaked>>

\* Mutant: the container is kept by its name before docker run succeeded.
SpawnFailsNamed(e) ==
    /\ open /\ home[e] = None
    /\ ~Usable
    /\ \E c \in Containers : containers[c] = "none" /\ containerId' = c
    /\ UNCHANGED <<containers, idle, sinceCheck, open, home, age, leaked>>

(* spawn that throws: docker stop failed, or docker run did after it.      *)
SpawnFails(e) ==
    /\ open /\ home[e] = None
    /\ ~Usable
    /\ StopContainerNow
    /\ UNCHANGED <<idle, sinceCheck, open, home, age>>

(* The execution ends: in time, or terminated by its own timeout, which    *)
(* PTC_EXECUTION_TIMEOUT_MS may set to more than Timeout.                  *)
ExecEnds(e) ==
    /\ home[e] # None
    /\ home' = [home EXCEPT ![e] = None]
    /\ UNCHANGED <<containers, containerId, idle, sinceCheck, open, age, leaked>>

(* A container is killed from outside, or by its memory limit.             *)
ContainerDies(c) ==
    /\ containers[c] = "running"
    /\ containers' = [containers EXCEPT ![c] = "died"]
    /\ UNCHANGED <<containerId, idle, sinceCheck, open, home, age, leaked>>

-----------------------------------------------------------------------------
Tick ==
    /\ open => sinceCheck < Interval
    /\ sinceCheck' = Upto(Interval, sinceCheck)
    /\ idle' = Upto(IdleBound, idle)
    /\ age' = [e \in Execs |-> Upto(AgeBound, age[e])]
    /\ UNCHANGED <<containers, containerId, open, home, leaked>>

(* The cleanup timer fires: cleanupExpired, whose exceptions are ignored.  *)
CleanupExpired ==
    /\ open
    /\ sinceCheck = Interval
    /\ sinceCheck' = 0
    /\ IF containerId # None /\ idle > Timeout
         THEN StopContainerNow
         ELSE UNCHANGED <<containers, containerId, leaked>>
    /\ UNCHANGED <<idle, open, home, age>>

(* cleanup, called by the handler of session_shutdown.                     *)
Cleanup ==
    /\ open
    /\ open' = FALSE
    /\ StopContainerNow
    /\ UNCHANGED <<idle, sinceCheck, home, age>>

Next ==
    \/ \E e \in Execs :
          \/ SpawnReuse(e)
          \/ \E c \in Containers : SpawnNew(e, c)
          \/ SpawnFails(e)
          \/ ExecEnds(e)
    \/ \E c \in Containers : ContainerDies(c)
    \/ Tick
    \/ CleanupExpired
    \/ Cleanup

Spec == Init /\ [][Next]_vars

-----------------------------------------------------------------------------
(* Properties.                                                             *)

(* Every variable keeps its type, and the container in use is one docker   *)
(* made.                                                                   *)
TypeOK ==
    /\ containers \in [Containers -> States]
    /\ containerId \in Containers \union {None}
    /\ containerId # None => containers[containerId] # "none"
    /\ idle \in 0..IdleBound
    /\ sinceCheck \in 0..Interval
    /\ open \in BOOLEAN
    /\ home \in [Execs -> Containers \union {None}]
    /\ age \in [Execs -> 0..AgeBound]
    /\ leaked \subseteq Containers

(* No container is stopped under an execution that was spawned within the  *)
(* last EXECUTION_TIMEOUT, whichever execution asked for the container and *)
(* however the timer and other executions interleave; only the shutdown of *)
(* the session does so.                                                    *)
KeepsInUse ==
    \A e \in Execs :
        open /\ home[e] # None /\ age[e] <= Timeout
            => containers[home[e]] # "stopped"

(* The session runs one container: any other that runs is one that docker  *)
(* stop failed for, and none but these is left when the session has shut   *)
(* down.                                                                   *)
OneContainer ==
    /\ \A c \in Containers :
          containers[c] = "running" => c = containerId \/ c \in leaked
    /\ ~open => containerId = None

(* A container that is not used is forgotten by the second tick of the     *)
(* timer after it expired, whether docker can stop it or not: one that     *)
(* died does not stand in the way of a new one for ever.                   *)
IdleForgotten ==
    open /\ containerId # None => idle <= Timeout + Interval
=============================================================================
