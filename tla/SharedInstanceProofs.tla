------------------------ MODULE SharedInstanceProofs ------------------------
(* Theorems about SharedInstance, for any number of Node processes, callers *)
(* and instances.                                                           *)
EXTENDS SharedInstance, TLAPS

LEMMA NoneIsNoInstance == None \notin Nodes \cup Instances
  BY SharedAssumption DEF Instances

LEMMA ServerAssign ==
  ASSUME NEW f \in [Instances -> [Slots -> {"dead", "starting", "listening"}]],
         NEW i \in Instances, NEW s \in Slots, NEW v \in {"dead", "starting", "listening"}
  PROVE  /\ [f EXCEPT ![i][s] = v] \in [Instances -> [Slots -> {"dead", "starting", "listening"}]]
         /\ \A j \in Instances, t \in Slots :
              [f EXCEPT ![i][s] = v][j][t] = IF j = i /\ t = s THEN v ELSE f[j][t]
  OBVIOUS

\* One process changes what it does, and a host remains one.
LEMMA ServerStepTypes ==
  ASSUME ServerTypes, NEW i \in Instances, NEW s \in Slots,
         NEW v \in {"dead", "starting", "listening"},
         host' \in [Instances -> BOOLEAN], \A j \in Instances : host[j] => host'[j],
         fatal' \in [Instances -> 0..MaxChunks],
         \A j \in Instances : j # i => fatal'[j] = fatal[j],
         v # "dead" \/ fatal'[i] > 0 => host'[i],
         proc' = [proc EXCEPT ![i][s] = v]
  PROVE  ServerTypes'
  BY ServerAssign DEF ServerTypes, Running

\* To spawn starts the child, and a child that was alive becomes a stray.
LEMMA SpawnTypes ==
  ASSUME ServerTypes, NEW i \in Instances, Spawn(i)
  PROVE  /\ proc' \in [Instances -> [Slots -> {"dead", "starting", "listening"}]]
         /\ \A j \in Instances : j # i => proc'[j] = proc[j]
         /\ proc[i][Child] = "dead" => \A t \in Strays : proc'[i][t] = proc[i][t]
<1> USE DEF Slots, Child, Strays
<1>1. proc \in [Instances -> [Slots -> {"dead", "starting", "listening"}]]
  BY DEF ServerTypes
<1>2. CASE proc[i][Child] = "dead"
  <2>1. proc' = [proc EXCEPT ![i][Child] = "starting"]
    BY <1>2 DEF Spawn, Running
  <2>2. \A t \in Strays : t \in Slots /\ t # Child
    BY SharedAssumption
  <2>3. Child \in Slots
    OBVIOUS
  <2>4. \A j \in Instances : j # i => proc'[j] = proc[j]
    BY <1>1, <2>1
  <2> HIDE DEF Slots, Child, Strays
  <2>5. proc' \in [Instances -> [Slots -> {"dead", "starting", "listening"}]]
    BY <1>1, <2>1, <2>3, ServerAssign
  <2>6. \A t \in Strays : proc'[i][t] = proc[i][t]
    BY <1>1, <2>1, <2>2, <2>3, ServerAssign
  <2> QED  BY <2>4, <2>5, <2>6
<1>3. CASE proc[i][Child] # "dead"
  <2>1. PICK s \in Strays :
          proc' = [proc EXCEPT ![i][s] = proc[i][Child], ![i][Child] = "starting"]
    BY <1>3 DEF Spawn, Running
  <2> DEFINE left == [proc EXCEPT ![i][s] = proc[i][Child]]
  <2>2. left \in [Instances -> [Slots -> {"dead", "starting", "listening"}]]
    BY <1>1, ServerAssign
  <2>3. proc' = [left EXCEPT ![i][Child] = "starting"]
    BY <2>1
  <2>4. proc' \in [Instances -> [Slots -> {"dead", "starting", "listening"}]]
    BY <2>2, <2>3, ServerAssign
  <2>5. \A j \in Instances : j # i => proc'[j] = proc[j]
    BY <1>1, <2>1
  <2> QED  BY <1>3, <2>4, <2>5
<1> QED  BY <1>1, <1>2, <1>3

LEMMA ServerTypesStep ==
  ASSUME TypeOK, [Next]_vars
  PROVE  ServerTypes'
<1> USE NoneIsNoInstance, SharedAssumption DEF callerVars, mapVars, initVars, linkVars, serverVars
<1>1. /\ ServerTypes /\ host \in [Instances -> BOOLEAN]
      /\ proc \in [Instances -> [Slots -> {"dead", "starting", "listening"}]]
      /\ fatal \in [Instances -> 0..MaxChunks]
      /\ Child \in Slots /\ Strays \subseteq Slots
      /\ entry \in [Nodes -> Instances \cup {None}]
  BY DEF TypeOK, ServerTypes, Slots
<1>2. ASSUME UNCHANGED <<proc, host, fatal>>  PROVE ServerTypes'
  BY <1>1, <1>2 DEF ServerTypes, Running
<1>3. ASSUME NEW k \in Callers, CallerStep(k) \/ Microtask(k)  PROVE ServerTypes'
  <2>1. ASSUME NEW i \in Instances, Close(i), UNCHANGED <<host, fatal>>  PROVE ServerTypes'
    <3>1. CASE host[i]
      BY <1>1, <2>1, <3>1, ServerStepTypes DEF Close, ServerTypes
    <3>2. CASE ~host[i]
      BY <1>2, <2>1, <3>2 DEF Close
    <3> QED  BY <3>1, <3>2
  <2>2. CASE Exit(k)
    <3>1. CASE UNCHANGED proc
      BY <1>2, <2>2, <3>1 DEF Exit
    <3>2. CASE proc' # proc
      <4>1. Cleanup(entry[NodeOf[k]]) /\ entry[NodeOf[k]] # None
        BY <2>2, <3>2 DEF Exit
      <4> QED  BY <1>1, <2>1, <2>2, <4>1 DEF Exit, Cleanup
    <3> QED  BY <3>1, <3>2
  <2>3. CASE ~Exit(k)
    BY <1>2, <1>3, <2>3 DEF CallerStep, Microtask, InitExisting, InitCreate, InitReturn, Delete
  <2> QED  BY <2>2, <2>3
<1>4. ASSUME NEW i \in Instances, InstanceEvent(i)  PROVE ServerTypes'
  <2>1. CASE ProbeClosed(i)
    <3>1. /\ Spawn(i) /\ host' = [host EXCEPT ![i] = TRUE] /\ fatal' = fatal
      BY <2>1 DEF ProbeClosed
    <3> QED  BY <1>1, <3>1, SpawnTypes DEF ServerTypes, Running
  <2>2. CASE Restart(i)
    <3>1. /\ host' = host /\ fatal[i] > 0 /\ fatal' = [fatal EXCEPT ![i] = @ - 1]
      BY <2>2 DEF Restart, ReadFatal
    <3>2. /\ host'[i] /\ fatal' \in [Instances -> 0..MaxChunks]
          /\ \A j \in Instances : j # i => fatal'[j] = fatal[j]
      BY <1>1, <3>1 DEF ServerTypes
    <3>3. CASE i \in shutting
      <4>1. Spawn(i)
        BY <2>2, <3>3 DEF Restart
      <4> QED  BY <1>1, <3>1, <3>2, <4>1, SpawnTypes DEF ServerTypes, Running
    <3>4. CASE i \notin shutting
      <4>1. proc' = [proc EXCEPT ![i][Child] = "starting"]
        BY <2>2, <3>4 DEF Restart
      <4> QED  BY <1>1, <3>1, <3>2, <4>1, ServerStepTypes
    <3> QED  BY <3>3, <3>4
  <2>3. CASE ~ProbeClosed(i) /\ ~Restart(i)
    BY <1>2, <1>4, <2>3 DEF InstanceEvent, Probe, SpawnThrows, Attempt, GiveUp, Timeout
  <2> QED  BY <2>1, <2>2, <2>3
<1>5. ASSUME NEW i \in Instances, NEW s \in Slots, ServerStep(i, s)  PROVE ServerTypes'
  <2>1. ASSUME NEW n \in Nat, Write(i, n)
        PROVE  /\ fatal' \in [Instances -> 0..MaxChunks]
               /\ \A j \in Instances : j # i => fatal'[j] = fatal[j]
    BY <1>1, <2>1 DEF Write
  <2>2. host' = host /\ proc[i][s] # "dead"
    BY <1>5 DEF ServerStep, ServerStarts, ServerCrashes, ServerLogs, Listening
  <2>3. host[i]
    BY <1>1, <2>2 DEF ServerTypes, Running
  <2>4. CASE ServerStarts(i, s)
    <3>1. CASE PortTaken
      <4>1. proc' = [proc EXCEPT ![i][s] = "dead"] /\ Write(i, 1)
        BY <2>4, <3>1 DEF ServerStarts
      <4> QED  BY <1>1, <2>1, <2>2, <2>3, <4>1, ServerStepTypes
    <3>2. CASE ~PortTaken
      <4>1. proc' = [proc EXCEPT ![i][s] = "listening"] /\ fatal' = fatal
        BY <2>4, <3>2 DEF ServerStarts
      <4> QED  BY <1>1, <2>2, <2>3, <4>1, ServerStepTypes
    <3> QED  BY <3>1, <3>2
  <2>5. CASE ServerCrashes(i, s)
    <3>1. PICK n \in 0..MaxChunks : Write(i, n)
      BY <2>5 DEF ServerCrashes
    <3>2. proc' = [proc EXCEPT ![i][s] = "dead"]
      BY <2>5 DEF ServerCrashes
    <3>3. n \in Nat
      BY <3>1
    <3>4. /\ fatal' \in [Instances -> 0..MaxChunks]
          /\ \A j \in Instances : j # i => fatal'[j] = fatal[j]
      BY <2>1, <3>1, <3>3
    <3> QED  BY <1>1, <2>2, <2>3, <3>2, <3>4, ServerStepTypes
  <2>6. CASE ServerLogs(i, s)
    <3>1. proc' = proc /\ Write(i, 1)
      BY <2>6 DEF ServerLogs
    <3> QED  BY <1>1, <2>1, <2>2, <2>3, <3>1 DEF ServerTypes, Running
  <2> QED  BY <1>5, <2>4, <2>5, <2>6 DEF ServerStep
<1>6. CASE UNCHANGED vars
  BY <1>2, <1>6 DEF vars
<1> QED  BY <1>3, <1>4, <1>5, <1>6 DEF Next

LEMMA TypeStep ==
  ASSUME TypeOK, PhaseInv, ServerTypes', [Next]_vars
  PROVE  TypeOK'
<1> USE NoneIsNoInstance, SharedAssumption DEF Child, Slots, Strays, Phases, callerVars,
        mapVars, initVars, linkVars, serverVars, TypeOK
<1>1. ASSUME NEW k \in Callers, CallerStep(k) \/ Microtask(k)  PROVE TypeOK'
  <2>1. CASE InitExisting(k)
    BY <2>1 DEF InitExisting, Join
  <2>2. CASE InitCreate(k)
    BY <2>2 DEF InitCreate, Goto
  <2>3. CASE Exit(k)
    <3> DEFINE n == NodeOf[k]
               left == [clients EXCEPT ![inst[k]] = @ \ {k}]
               last == left[inst[k]] = {} /\ entry[n] # None
    <3>1. CASE ~last
      BY <2>3, <3>1 DEF Exit
    <3>2. CASE last
      <4>1. entry[n] \in Instances /\ n \in Nodes
        BY <3>2
      <4>2. left \in [Instances -> SUBSET Callers]
        OBVIOUS
      <4>3. /\ Cleanup(entry[n]) /\ clients' = [left EXCEPT ![entry[n]] = {}]
            /\ deleting' = deleting \cup {k}
        BY <2>3, <3>2 DEF Exit
      <4> HIDE DEF left, last
      <4>4. QED  BY <2>3, <4>1, <4>2, <4>3 DEF Exit, Cleanup, Close
    <3> QED  BY <3>1, <3>2
  <2>4. CASE InitReturn(k)
    BY <2>4 DEF InitReturn, Join
  <2>5. CASE Delete(k)
    BY <2>5 DEF Delete
  <2> QED  BY <1>1, <2>1, <2>2, <2>3, <2>4, <2>5 DEF CallerStep, Microtask
<1>2. ASSUME NEW i \in Instances, InstanceEvent(i)  PROVE TypeOK'
  <2>1. CASE Probe(i)
    BY <2>1 DEF Probe, CreateClient, Goto
  <2>2. CASE ProbeClosed(i)
    BY <2>2 DEF ProbeClosed, CreateClient, Goto, Spawn
  <2>3. CASE SpawnThrows(i)
    BY <2>3 DEF SpawnThrows, Goto, PhaseInv
  <2>4. CASE Attempt(i)
    BY <2>4 DEF Attempt, Goto, Settle
  <2>5. CASE GiveUp(i)
    BY <2>5 DEF GiveUp, Goto
  <2>6. CASE Restart(i)
    BY <2>6 DEF Restart, ReadFatal, Spawn
  <2>7. CASE Timeout(i)
    BY <2>7 DEF Timeout, Settle
  <2> QED  BY <1>2, <2>1, <2>2, <2>3, <2>4, <2>5, <2>6, <2>7 DEF InstanceEvent
<1>3. ASSUME NEW i \in Instances, NEW s \in Slots, ServerStep(i, s)  PROVE TypeOK'
  <2>1. CASE ServerStarts(i, s)
    BY <2>1 DEF ServerStarts, Write
  <2>2. CASE ServerCrashes(i, s)
    BY <2>2 DEF ServerCrashes, Listening, Write
  <2>3. CASE ServerLogs(i, s)
    BY <2>3 DEF ServerLogs, Listening, Write
  <2> QED  BY <1>3, <2>1, <2>2, <2>3 DEF ServerStep
<1>4. CASE UNCHANGED vars
  BY <1>4 DEF vars
<1> QED  BY <1>1, <1>2, <1>3, <1>4 DEF Next

LEMMA PhaseStep ==
  ASSUME TypeOK, PhaseInv, [Next]_vars
  PROVE  PhaseInv'
<1> USE NoneIsNoInstance, SharedAssumption DEF Child, Slots, Strays, Phases, callerVars,
        mapVars, initVars, linkVars, serverVars, TypeOK, PhaseInv
<1>1. ASSUME NEW k \in Callers, CallerStep(k) \/ Microtask(k)  PROVE PhaseInv'
  <2>1. CASE InitExisting(k)
    BY <2>1 DEF InitExisting, Join
  <2>2. CASE InitCreate(k)
    BY <2>2 DEF InitCreate, Goto
  <2>3. CASE Exit(k)
    <3> DEFINE n == NodeOf[k]
               left == [clients EXCEPT ![inst[k]] = @ \ {k}]
               last == left[inst[k]] = {} /\ entry[n] # None
    <3>1. CASE ~last
      BY <2>3, <3>1 DEF Exit
    <3>2. CASE last
      <4>1. entry[n] \in Instances /\ n \in Nodes
        BY <3>2
      <4>2. left \in [Instances -> SUBSET Callers]
        OBVIOUS
      <4>3. /\ Cleanup(entry[n]) /\ clients' = [left EXCEPT ![entry[n]] = {}]
            /\ deleting' = deleting \cup {k}
        BY <2>3, <3>2 DEF Exit
      <4> HIDE DEF left, last
      <4>4. QED  BY <2>3, <4>1, <4>2, <4>3 DEF Exit, Cleanup, Close
    <3> QED  BY <3>1, <3>2
  <2>4. CASE InitReturn(k)
    BY <2>4 DEF InitReturn, Join
  <2>5. CASE Delete(k)
    BY <2>5 DEF Delete
  <2> QED  BY <1>1, <2>1, <2>2, <2>3, <2>4, <2>5 DEF CallerStep, Microtask
<1>2. ASSUME NEW i \in Instances, InstanceEvent(i)  PROVE PhaseInv'
  <2>1. CASE Probe(i)
    BY <2>1 DEF Probe, CreateClient, Goto
  <2>2. CASE ProbeClosed(i)
    BY <2>2 DEF ProbeClosed, CreateClient, Goto, Spawn
  <2>3. CASE SpawnThrows(i)
    BY <2>3 DEF SpawnThrows, Goto, PhaseInv
  <2>4. CASE Attempt(i)
    BY <2>4 DEF Attempt, Goto, Settle
  <2>5. CASE GiveUp(i)
    BY <2>5 DEF GiveUp, Goto
  <2>6. CASE Restart(i)
    BY <2>6 DEF Restart, ReadFatal, Spawn
  <2>7. CASE Timeout(i)
    BY <2>7 DEF Timeout, Settle
  <2> QED  BY <1>2, <2>1, <2>2, <2>3, <2>4, <2>5, <2>6, <2>7 DEF InstanceEvent
<1>3. ASSUME NEW i \in Instances, NEW s \in Slots, ServerStep(i, s)  PROVE PhaseInv'
  <2>1. CASE ServerStarts(i, s)
    BY <2>1 DEF ServerStarts, Write
  <2>2. CASE ServerCrashes(i, s)
    BY <2>2 DEF ServerCrashes, Listening, Write
  <2>3. CASE ServerLogs(i, s)
    BY <2>3 DEF ServerLogs, Listening, Write
  <2> QED  BY <1>3, <2>1, <2>2, <2>3 DEF ServerStep
<1>4. CASE UNCHANGED vars
  BY <1>4 DEF vars
<1> QED  BY <1>1, <1>2, <1>3, <1>4 DEF Next

\* Every variable keeps its type, and only a host has server processes.  That
\* a process ended by SpawnThrows is a Node process rests on PhaseInv.
THEOREM TypeCorrect == Spec => []TypeOK
<1>1. Init => TypeOK /\ PhaseInv
  BY SharedAssumption, NoneIsNoInstance DEF Init, TypeOK, ServerTypes, Phases, Running, PhaseInv
<1> QED  BY <1>1, ServerTypesStep, TypeStep, PhaseStep, PTL DEF Spec

LEMMA PhaseInvariant == Spec => []PhaseInv
<1>1. Init => PhaseInv
  BY DEF Init, PhaseInv
<1> QED  BY <1>1, TypeCorrect, PhaseStep, PTL DEF Spec

LEMMA ConnectedStep ==
  ASSUME TypeOK, ResolvedMeansConnected, [Next]_vars
  PROVE  ResolvedMeansConnected'
<1> USE NoneIsNoInstance, SharedAssumption DEF Child, Slots, Strays, Phases, callerVars,
        mapVars, initVars, linkVars, serverVars, TypeOK, ResolvedMeansConnected
<1>1. ASSUME NEW k \in Callers, CallerStep(k) \/ Microtask(k)  PROVE ResolvedMeansConnected'
  <2>1. CASE InitExisting(k)
    BY <2>1 DEF InitExisting, Join
  <2>2. CASE InitCreate(k)
    BY <2>2 DEF InitCreate, Goto
  <2>3. CASE Exit(k)
    <3> DEFINE n == NodeOf[k]
               left == [clients EXCEPT ![inst[k]] = @ \ {k}]
               last == left[inst[k]] = {} /\ entry[n] # None
    <3>1. CASE ~last
      BY <2>3, <3>1 DEF Exit
    <3>2. CASE last
      <4>1. entry[n] \in Instances /\ n \in Nodes
        BY <3>2
      <4>2. left \in [Instances -> SUBSET Callers]
        OBVIOUS
      <4>3. /\ Cleanup(entry[n]) /\ clients' = [left EXCEPT ![entry[n]] = {}]
            /\ deleting' = deleting \cup {k}
        BY <2>3, <3>2 DEF Exit
      <4> HIDE DEF left, last
      <4>4. QED  BY <2>3, <4>1, <4>2, <4>3 DEF Exit, Cleanup, Close
    <3> QED  BY <3>1, <3>2
  <2>4. CASE InitReturn(k)
    BY <2>4 DEF InitReturn, Join
  <2>5. CASE Delete(k)
    BY <2>5 DEF Delete
  <2> QED  BY <1>1, <2>1, <2>2, <2>3, <2>4, <2>5 DEF CallerStep, Microtask
<1>2. ASSUME NEW i \in Instances, InstanceEvent(i)  PROVE ResolvedMeansConnected'
  <2>1. CASE Probe(i)
    BY <2>1 DEF Probe, CreateClient, Goto
  <2>2. CASE ProbeClosed(i)
    BY <2>2 DEF ProbeClosed, CreateClient, Goto, Spawn
  <2>3. CASE SpawnThrows(i)
    BY <2>3 DEF SpawnThrows, Goto, PhaseInv
  <2>4. CASE Attempt(i)
    BY <2>4 DEF Attempt, Goto, Settle
  <2>5. CASE GiveUp(i)
    BY <2>5 DEF GiveUp, Goto
  <2>6. CASE Restart(i)
    BY <2>6 DEF Restart, ReadFatal, Spawn
  <2>7. CASE Timeout(i)
    BY <2>7 DEF Timeout, Settle
  <2> QED  BY <1>2, <2>1, <2>2, <2>3, <2>4, <2>5, <2>6, <2>7 DEF InstanceEvent
<1>3. ASSUME NEW i \in Instances, NEW s \in Slots, ServerStep(i, s)  PROVE ResolvedMeansConnected'
  <2>1. CASE ServerStarts(i, s)
    BY <2>1 DEF ServerStarts, Write
  <2>2. CASE ServerCrashes(i, s)
    BY <2>2 DEF ServerCrashes, Listening, Write
  <2>3. CASE ServerLogs(i, s)
    BY <2>3 DEF ServerLogs, Listening, Write
  <2> QED  BY <1>3, <2>1, <2>2, <2>3 DEF ServerStep
<1>4. CASE UNCHANGED vars
  BY <1>4 DEF vars
<1> QED  BY <1>1, <1>2, <1>3, <1>4 DEF Next

\* initialize resolves for an instance that has a WebSocket, and the instance
\* keeps one, living or dead, until it is cleaned up.
THEOREM ResolvedIsConnected == Spec => []ResolvedMeansConnected
<1>1. Init => ResolvedMeansConnected
  BY DEF Init, ResolvedMeansConnected
<1> QED  BY <1>1, ConnectedStep, TypeCorrect, PTL DEF Spec

\* No process comes to life where nothing is spawned.
LEMMA OthersSpawnNothing ==
  ASSUME TypeOK, [Next]_vars,
         \A i \in Instances : ~ProbeClosed(i) /\ ~Restart(i)
  PROVE  \A j \in Instances, t \in Slots :
           /\ proc'[j][t] # "dead" => proc[j][t] # "dead"
           /\ proc'[j][t] = "starting" => proc[j][t] = "starting"
<1> USE DEF callerVars, mapVars, initVars, linkVars, serverVars
<1>1. /\ proc \in [Instances -> [Slots -> {"dead", "starting", "listening"}]]
      /\ Child \in Slots
      /\ entry \in [Nodes -> Instances \cup {None}]
  BY DEF TypeOK, ServerTypes, Slots
<1>2. CASE proc' = proc
  BY <1>2
<1>3. ASSUME NEW i \in Instances, NEW s \in Slots, NEW v \in {"dead", "listening"},
             proc[i][s] # "dead" \/ v = "dead", proc' = [proc EXCEPT ![i][s] = v]
      PROVE  \A j \in Instances, t \in Slots :
               /\ proc'[j][t] # "dead" => proc[j][t] # "dead"
               /\ proc'[j][t] = "starting" => proc[j][t] = "starting"
  BY <1>1, <1>3, ServerAssign
<1>4. ASSUME NEW k \in Callers, CallerStep(k) \/ Microtask(k), proc' # proc
      PROVE  \E i \in Instances : proc' = [proc EXCEPT ![i][Child] = "dead"]
  <2>1. Exit(k)
    BY <1>4 DEF CallerStep, Microtask, InitExisting, InitCreate, InitReturn, Delete
  <2>2. Cleanup(entry[NodeOf[k]]) /\ entry[NodeOf[k]] # None
    BY <1>4, <2>1 DEF Exit
  <2>3. entry[NodeOf[k]] \in Instances
    BY <1>1, <2>2, SharedAssumption
  <2> QED  BY <1>4, <2>2, <2>3 DEF Cleanup, Close
<1>5. ASSUME NEW i \in Instances, InstanceEvent(i)  PROVE proc' = proc
  BY <1>5 DEF InstanceEvent, Probe, SpawnThrows, Attempt, GiveUp, Timeout
<1>6. ASSUME NEW i \in Instances, NEW s \in Slots, ServerStep(i, s), proc' # proc
      PROVE  /\ proc[i][s] # "dead"
             /\ \E v \in {"dead", "listening"} : proc' = [proc EXCEPT ![i][s] = v]
  BY <1>6 DEF ServerStep, ServerStarts, ServerCrashes, ServerLogs, Listening
<1>7. CASE UNCHANGED vars
  BY <1>2, <1>7 DEF vars
<1> QED  BY <1>1, <1>2, <1>3, <1>4, <1>5, <1>6, <1>7 DEF Next

\* The first restart of an instance, a cleanup, a host that starts, and
\* whatever the processes do themselves leave no living server without a
\* parent: that takes a fatal message after the first.
THEOREM OrphansAreOfLaterRestarts == Spec => OnlyLaterRestartsOrphan
<1> DEFINE Kept == \A i \in Instances, s \in Strays :
                     ~Running(i, s) /\ Running(i, s)' => i \in shutting /\ fatal[i] > 0
<1>1. ASSUME TypeOK, PhaseInv, Next  PROVE Kept
  <2> SUFFICES ASSUME NEW j \in Instances, NEW t \in Strays,
                      proc[j][t] = "dead", proc'[j][t] # "dead"
               PROVE  j \in shutting /\ fatal[j] > 0
    BY DEF Running
  <2>1. ServerTypes /\ t \in Slots /\ t # Child /\ Child \in Slots
    BY <1>1, SharedAssumption DEF TypeOK, Slots, Strays, Child
  <2>2. PICK i \in Instances : ProbeClosed(i) \/ Restart(i)
    BY <1>1, <2>1, OthersSpawnNothing
  <2>3. CASE ProbeClosed(i)
    <3>1. proc[i][Child] = "dead"
      BY <1>1, <2>1, <2>3 DEF PhaseInv, ProbeClosed, ServerTypes, Running
    <3> QED  BY <2>1, <2>3, <3>1, SpawnTypes DEF ProbeClosed
  <2>4. CASE Restart(i)
    <3>1. fatal[i] > 0
      BY <2>4 DEF Restart, ReadFatal
    <3>2. CASE i \in shutting
      <4>1. Spawn(i)
        BY <2>4, <3>2 DEF Restart
      <4> QED  BY <2>1, <3>1, <3>2, <4>1, SpawnTypes
    <3>3. CASE i \notin shutting
      <4>1. proc' = [proc EXCEPT ![i][Child] = "starting"]
        BY <2>4, <3>3 DEF Restart
      <4> QED  BY <2>1, <4>1, ServerAssign DEF ServerTypes
    <3> QED  BY <3>2, <3>3
  <2> QED  BY <2>2, <2>3, <2>4
<1>2. TypeOK /\ PhaseInv /\ [Next]_vars => [Kept]_vars
  BY <1>1
<1> QED  BY <1>2, PhaseInvariant, TypeCorrect, PTL DEF Spec, OnlyLaterRestartsOrphan

\* After cleanup only a message already on stderr starts a server again.
THEOREM CleanupIsFinal == Spec => NoSpawnAfterCleanup
<1> DEFINE Quiet == \A i \in cleaned :
                      proc[i][Child] # "starting" /\ proc'[i][Child] = "starting" => fatal[i] > 0
<1>1. ASSUME TypeOK, PhaseInv, Next  PROVE Quiet
  <2> SUFFICES ASSUME NEW j \in cleaned, proc[j][Child] # "starting", proc'[j][Child] = "starting"
               PROVE  fatal[j] > 0
    OBVIOUS
  <2>1. ServerTypes /\ Child \in Slots /\ j \in Instances
    BY <1>1 DEF TypeOK, Slots
  <2>2. PICK i \in Instances : ProbeClosed(i) \/ Restart(i)
    BY <1>1, <2>1, OthersSpawnNothing
  <2>3. CASE ProbeClosed(i)
    <3>1. i # j
      BY <1>1, <2>3 DEF PhaseInv, ProbeClosed
    <3> QED  BY <2>1, <2>3, <3>1, SpawnTypes DEF ProbeClosed
  <2>4. CASE Restart(i)
    <3>1. fatal[i] > 0
      BY <2>4 DEF Restart, ReadFatal
    <3>2. CASE i \in shutting
      <4>1. Spawn(i)
        BY <2>4, <3>2 DEF Restart
      <4> QED  BY <2>1, <3>1, <4>1, SpawnTypes
    <3>3. CASE i \notin shutting
      <4>1. proc' = [proc EXCEPT ![i][Child] = "starting"]
        BY <2>4, <3>3 DEF Restart
      <4> QED  BY <2>1, <3>1, <4>1, ServerAssign DEF ServerTypes
    <3> QED  BY <3>2, <3>3
  <2> QED  BY <2>2, <2>3, <2>4
<1>2. TypeOK /\ PhaseInv /\ [Next]_vars => [Quiet]_vars
  BY <1>1
<1> QED  BY <1>2, PhaseInvariant, TypeCorrect, PTL DEF Spec, NoSpawnAfterCleanup

=============================================================================
