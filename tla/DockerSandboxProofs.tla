------------------------ MODULE DockerSandboxProofs ------------------------
(* What holds of the Docker sandbox for any number of executions and any   *)
(* timeouts.                                                               *)
EXTENDS DockerSandbox, TLAPS

(* The actions that change what docker has or which container is in use.   *)
LEMMA StopFacts ==
    ASSUME TypeOK, StopContainerNow
    PROVE  /\ containerId' = None
           /\ containers' \in [Containers -> States]
           /\ leaked \subseteq leaked' /\ leaked' \subseteq Containers
           /\ \A c \in Containers :
                 \/ containers'[c] = containers[c]
                    /\ (c = containerId => c \in leaked')
                 \/ c = containerId /\ containers'[c] = "stopped"
<1>1. CASE StopSucceeds
  BY <1>1 DEF TypeOK, StopSucceeds, AfterStop, States
<1>2. CASE StopFails
  BY <1>2 DEF TypeOK, StopFails, States
<1>3. QED BY <1>1, <1>2 DEF StopContainerNow

(* Type correctness, which the other proofs use.                           *)
LEMMA InitType == Init => TypeOK
  BY SandboxAssumption
     DEF SandboxAssumption, Init, TypeOK, States, IdleBound, AgeBound

LEMMA StepType == TypeOK /\ [Next]_vars => TypeOK'
<1> SUFFICES ASSUME TypeOK, [Next]_vars PROVE TypeOK'
  OBVIOUS
<1> USE SandboxAssumption DEF SandboxAssumption, TypeOK
<1>0. 0 \in 0..IdleBound /\ 0 \in 0..AgeBound /\ 0 \in 0..Interval
  BY DEF IdleBound, AgeBound
<1>1. ASSUME NEW e \in Execs, SpawnReuse(e) PROVE TypeOK'
  BY <1>0, <1>1 DEF SpawnReuse, Usable, ExecIn
<1>2. ASSUME NEW e \in Execs, NEW c \in Containers, SpawnNew(e, c) PROVE TypeOK'
  BY <1>0, <1>2 DEF SpawnNew, ExecIn, AfterStop, States
<1>3. ASSUME NEW e \in Execs, SpawnFails(e) PROVE TypeOK'
  BY <1>3, StopFacts DEF SpawnFails
<1>4. ASSUME NEW e \in Execs, ExecEnds(e) PROVE TypeOK'
  BY <1>4 DEF ExecEnds
<1>5. ASSUME NEW c \in Containers, ContainerDies(c) PROVE TypeOK'
  BY <1>5 DEF ContainerDies, States
<1>6. CASE Tick
  BY <1>6 DEF Tick, Upto, IdleBound, AgeBound
<1>7. CASE CleanupExpired
  BY <1>0, <1>7, StopFacts DEF CleanupExpired
<1>8. CASE Cleanup
  BY <1>8, StopFacts DEF Cleanup
<1>9. CASE UNCHANGED vars
  BY <1>9 DEF vars
<1>10. QED
  BY <1>1, <1>2, <1>3, <1>4, <1>5, <1>6, <1>7, <1>8, <1>9 DEF Next

(* Every variable keeps its type, for any timeouts, containers and         *)
(* executions (DockerSandbox).                                             *)
THEOREM TypeCorrect == Spec => []TypeOK
<1>1. QED BY InitType, StepType, PTL DEF Spec

-----------------------------------------------------------------------------
(* The inductive invariant.  lastUsed is no older than the youngest        *)
(* execution in the container (the timeouts compare it, not the            *)
(* executions); a container that was stopped is not in use, and the        *)
(* executions still in it are old; the timer has found the container       *)
(* fresh when it fired last.                                               *)
NotedUse ==
    \A e \in Execs :
        open /\ containerId # None /\ home[e] = containerId
            => idle <= age[e] \/ age[e] > Timeout
InUseNotStopped == containerId # None => containers[containerId] # "stopped"
FreshAtCheck ==
    open /\ containerId # None => idle <= Timeout + sinceCheck
SandboxInv ==
    /\ NotedUse
    /\ InUseNotStopped
    /\ FreshAtCheck
    /\ KeepsInUse
    /\ OneContainer

(* Stopping the container is harmless when it expired or the session       *)
(* ends.                                                                   *)
LEMMA StepStop ==
    ASSUME TypeOK, SandboxInv, StopContainerNow, UNCHANGED <<home, age>>,
           open' => open /\ (idle > Timeout \/ containerId = None)
    PROVE  SandboxInv'
<1>1. containerId' = None /\ NotedUse' /\ InUseNotStopped' /\ FreshAtCheck'
  BY StopFacts DEF NotedUse, InUseNotStopped, FreshAtCheck
<1>2. OneContainer'
  BY <1>1, StopFacts DEF OneContainer, SandboxInv
<1>3. ASSUME NEW e \in Execs, open', home[e] # None, age[e] <= Timeout
      PROVE  containers'[home[e]] # "stopped"
  <2>1. home[e] \in Containers /\ containers[home[e]] # "stopped"
    BY <1>3 DEF TypeOK, SandboxInv, KeepsInUse
  <2>2. age[e] \in Nat /\ idle \in Nat /\ Timeout \in Nat
    BY SandboxAssumption DEF SandboxAssumption, TypeOK, IdleBound, AgeBound
  <2>3. home[e] # containerId
    BY <1>3, <2>1, <2>2, SandboxAssumption DEF SandboxInv, NotedUse, SandboxAssumption
  <2>4. QED BY <2>1, <2>3, StopFacts
<1>4. KeepsInUse'
  BY <1>3 DEF KeepsInUse
<1>5. QED BY <1>1, <1>2, <1>4 DEF SandboxInv

(* Every step preserves the invariant; <1>1 is what the two ways to spawn  *)
(* an execution have in common.                                            *)
LEMMA StepSandbox == TypeOK /\ SandboxInv /\ [Next]_vars => SandboxInv'
<1> SUFFICES ASSUME TypeOK, SandboxInv, [Next]_vars PROVE SandboxInv'
  OBVIOUS
<1>0. /\ Timeout \in Nat /\ Interval \in Nat /\ None \notin Containers
      /\ idle \in Nat /\ sinceCheck \in 0..Interval
      /\ \A e \in Execs : age[e] \in 0..AgeBound
      /\ AgeBound = Timeout + 1
      /\ home \in [Execs -> Containers \union {None}]
      /\ containers \in [Containers -> States]
      /\ containerId \in Containers \union {None}
  BY SandboxAssumption DEF SandboxAssumption, TypeOK, IdleBound, AgeBound
<1>1. ASSUME NEW e \in Execs, NEW c \in Containers \union {None},
             containers'[c] # "stopped", c # None,
             \A d \in Containers : d # c => \/ containers'[d] = containers[d]
                                            \/ d = containerId /\ idle > Timeout,
             containers' \in [Containers -> States],
             ExecIn(e, c), containerId' = c, open' = open,
             UNCHANGED sinceCheck
      PROVE  NotedUse' /\ InUseNotStopped' /\ FreshAtCheck' /\ KeepsInUse'
  <2>1. /\ idle' = 0
        /\ age' = [age EXCEPT ![e] = 0]
        /\ home' = [home EXCEPT ![e] = c]
    BY <1>1 DEF ExecIn
  <2>2. \A f \in Execs : age'[f] \in Nat
    BY <1>0, <2>1
  <2>3. NotedUse' /\ InUseNotStopped' /\ FreshAtCheck'
    BY <1>0, <1>1, <2>1, <2>2 DEF NotedUse, InUseNotStopped, FreshAtCheck
  <2>4. ASSUME NEW f \in Execs, open, home'[f] # None, age'[f] <= Timeout
        PROVE  containers'[home'[f]] # "stopped"
    <3>1. CASE home'[f] = c
      BY <1>1, <3>1
    <3>2. CASE home'[f] # c
      <4>1. f # e /\ home'[f] = home[f] /\ age'[f] = age[f] /\ home[f] \in Containers
        BY <1>0, <2>1, <2>4, <3>2
      <4>2. containers[home[f]] # "stopped"
        BY <2>4, <4>1 DEF SandboxInv, KeepsInUse
      <4>3. ~(home[f] = containerId /\ idle > Timeout)
        BY <1>0, <2>4, <4>1 DEF SandboxInv, NotedUse
      <4>4. QED BY <1>1, <3>2, <4>1, <4>2, <4>3
    <3>3. QED BY <3>1, <3>2
  <2>5. KeepsInUse'
    BY <1>1, <2>4 DEF KeepsInUse
  <2>6. QED BY <2>3, <2>5
<1>2. ASSUME NEW e \in Execs, SpawnReuse(e) PROVE SandboxInv'
  <2>1. /\ containerId # None /\ containers[containerId] # "stopped"
        /\ ExecIn(e, containerId)
        /\ UNCHANGED <<containers, containerId, sinceCheck, open, leaked>>
    BY <1>2 DEF SpawnReuse, Usable, SandboxInv, InUseNotStopped
  <2>2. NotedUse' /\ InUseNotStopped' /\ FreshAtCheck' /\ KeepsInUse'
    BY <1>0, <1>1, <2>1
  <2>3. OneContainer'
    BY <2>1 DEF SandboxInv, OneContainer
  <2>4. QED BY <2>2, <2>3 DEF SandboxInv
<1>3. ASSUME NEW e \in Execs, NEW c \in Containers, SpawnNew(e, c) PROVE SandboxInv'
  <2>1. /\ containers' = [AfterStop EXCEPT ![c] = "running"]
        /\ containerId' = c /\ ExecIn(e, c) /\ open
        /\ containerId # None => idle > Timeout
        /\ UNCHANGED <<sinceCheck, open, leaked>>
    BY <1>0, <1>3 DEF SpawnNew, Usable
  <2>2. /\ containers' \in [Containers -> States]
        /\ containers'[c] = "running"
        /\ \A d \in Containers : d # c =>
              containers'[d] = IF d = containerId THEN "stopped" ELSE containers[d]
    BY <1>0, <2>1 DEF AfterStop, States
  <2>3. NotedUse' /\ InUseNotStopped' /\ FreshAtCheck' /\ KeepsInUse'
    BY <1>0, <1>1, <2>1, <2>2
  <2>4. OneContainer'
    BY <2>1, <2>2 DEF SandboxInv, OneContainer
  <2>5. QED BY <2>3, <2>4 DEF SandboxInv
<1>4. ASSUME NEW e \in Execs, SpawnFails(e) PROVE SandboxInv'
  <2>1. /\ StopContainerNow /\ UNCHANGED <<home, age, open>>
        /\ idle > Timeout \/ containerId = None
    BY <1>0, <1>4 DEF SpawnFails, Usable
  <2>2. QED BY <2>1, StepStop
<1>5. ASSUME NEW e \in Execs, ExecEnds(e) PROVE SandboxInv'
  <2>1. \A f \in Execs : home'[f] # None => home'[f] = home[f]
    BY <1>0, <1>5 DEF ExecEnds
  <2>2. UNCHANGED <<containers, containerId, idle, sinceCheck, open, age, leaked>>
    BY <1>5 DEF ExecEnds
  <2>3. QED
    BY <2>1, <2>2
       DEF SandboxInv, NotedUse, InUseNotStopped, FreshAtCheck, KeepsInUse, OneContainer
<1>6. ASSUME NEW c \in Containers, ContainerDies(c) PROVE SandboxInv'
  <2>1. /\ \A d \in Containers : \/ containers'[d] = containers[d]
                                 \/ containers'[d] = "died"
        /\ UNCHANGED <<containerId, idle, sinceCheck, open, home, age, leaked>>
    BY <1>0, <1>6 DEF ContainerDies
  <2>2. \A e \in Execs : home[e] # None => home[e] \in Containers
    BY <1>0
  <2>3. QED
    BY <1>0, <2>1, <2>2
       DEF SandboxInv, NotedUse, InUseNotStopped, FreshAtCheck, KeepsInUse, OneContainer
<1>7. CASE Tick
  <2>1. /\ open => sinceCheck < Interval
        /\ sinceCheck' = Upto(Interval, sinceCheck)
        /\ idle' = Upto(IdleBound, idle)
        /\ UNCHANGED <<containers, containerId, open, home, leaked>>
        /\ \A e \in Execs : age'[e] = Upto(AgeBound, age[e])
    BY <1>7 DEF Tick
  <2>2. idle' <= idle + 1 /\ idle' \in Nat
    BY <1>0, <2>1, SandboxAssumption DEF Upto, IdleBound
  <2>3. \A e \in Execs : \/ age'[e] = age[e] + 1
                         \/ age'[e] = AgeBound
    BY <2>1 DEF Upto
  <2>4. \A e \in Execs : age'[e] <= Timeout => age[e] <= Timeout
    BY <1>0, <2>3
  <2>5. NotedUse'
    BY <1>0, <2>1, <2>2, <2>3 DEF SandboxInv, NotedUse
  <2>6. open => sinceCheck' = sinceCheck + 1
    BY <1>0, <2>1 DEF Upto
  <2>7. FreshAtCheck'
    BY <1>0, <2>1, <2>2, <2>6 DEF SandboxInv, FreshAtCheck
  <2>8. InUseNotStopped' /\ KeepsInUse' /\ OneContainer'
    BY <2>1, <2>4 DEF SandboxInv, InUseNotStopped, KeepsInUse, OneContainer
  <2>9. QED BY <2>5, <2>7, <2>8 DEF SandboxInv
<1>8. CASE CleanupExpired
  <2>1. CASE containerId # None /\ idle > Timeout
    <3>1. /\ StopContainerNow /\ open /\ UNCHANGED <<home, age, open>>
      BY <1>8, <2>1 DEF CleanupExpired
    <3>2. QED BY <2>1, <3>1, StepStop
  <2>2. CASE ~(containerId # None /\ idle > Timeout)
    <3>1. /\ sinceCheck' = 0
          /\ UNCHANGED <<containers, containerId, idle, open, home, age, leaked>>
      BY <1>8, <2>2 DEF CleanupExpired
    <3>2. QED
      BY <1>0, <2>2, <3>1
         DEF SandboxInv, NotedUse, InUseNotStopped, FreshAtCheck, KeepsInUse, OneContainer
  <2>3. QED BY <2>1, <2>2
<1>9. CASE Cleanup
  <2>1. StopContainerNow /\ UNCHANGED <<home, age>> /\ ~open'
    BY <1>9 DEF Cleanup
  <2>2. QED BY <2>1, StepStop
<1>10. CASE UNCHANGED vars
  BY <1>10
     DEF vars, SandboxInv, NotedUse, InUseNotStopped, FreshAtCheck, KeepsInUse, OneContainer
<1>11. QED
  BY <1>2, <1>3, <1>4, <1>5, <1>6, <1>7, <1>8, <1>9, <1>10 DEF Next

(* The invariant holds of the sandbox (DockerSandbox).                     *)
THEOREM SandboxInvariant == Spec => [](TypeOK /\ SandboxInv)
<1>1. Init => SandboxInv
  BY SandboxAssumption
     DEF SandboxAssumption, Init, SandboxInv, NotedUse, InUseNotStopped,
         FreshAtCheck, KeepsInUse, OneContainer
<1>2. QED BY <1>1, InitType, StepType, StepSandbox, PTL DEF Spec

(* No container is stopped under an execution spawned within the last      *)
(* EXECUTION_TIMEOUT (ensureContainer, cleanupExpired).                    *)
THEOREM KeepsInUseHolds == Spec => []KeepsInUse
<1>1. QED BY SandboxInvariant, PTL DEF SandboxInv

(* One container runs, besides those docker stop failed for                *)
(* (stopContainerNow).                                                     *)
THEOREM OneContainerHolds == Spec => []OneContainer
<1>1. QED BY SandboxInvariant, PTL DEF SandboxInv

(* An unused container is forgotten within a period of the timer after it  *)
(* expired (cleanupExpired).                                               *)
THEOREM IdleForgottenHolds == Spec => []IdleForgotten
<1>1. TypeOK /\ SandboxInv => IdleForgotten
  BY SandboxAssumption
     DEF SandboxAssumption, TypeOK, SandboxInv, FreshAtCheck, IdleForgotten, IdleBound
<1>2. QED BY <1>1, SandboxInvariant, PTL
=============================================================================
