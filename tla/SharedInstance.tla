--------------------------- MODULE SharedInstance ---------------------------
(***************************************************************************)
(* How TypeScript programs share one Go server on one port (src/index.ts). *)
(*                                                                         *)
(* Every member of Nodes is a Node process with its own InstanceManager,   *)
(* every member of Callers one call of initCycleTLS and the client it      *)
(* yields.  A SharedInstance looks whether the port is free, spawns the    *)
(* server if it is (it is the host then), and connects to whoever listens. *)
(* Spawning again replaces the child; the process replaced may live on, and *)
(* what any of them writes to stderr is read by the instance that spawned it.*)
(*                                                                         *)
(* One thread runs each Node process.  What follows an await runs before   *)
(* any timer or I/O event, but other code of the program may run first.    *)
(***************************************************************************)
EXTENDS Naturals

CONSTANTS Nodes, Callers, None,
          NodeOf,       \* the Node process of each caller
          MaxInstances, \* bound: instances created
          MaxExits,     \* bound: calls of exit by one client
          MaxStrays,    \* bound: living processes an instance has replaced
          MaxChunks,    \* bound: chunks on stderr waiting to be read
          MaxCrashes    \* bound: servers that die or log by themselves

ASSUME SharedAssumption ==
  /\ NodeOf \in [Callers -> Nodes]
  /\ MaxInstances \in Nat /\ MaxExits \in Nat /\ MaxCrashes \in Nat
  /\ MaxStrays \in Nat /\ MaxChunks \in Nat \ {0}
  /\ None \notin Nodes \cup (1..MaxInstances)

Instances == 1..MaxInstances

\* The server processes of an instance: its child, and those replaced.
Child == 0
Strays == 1..MaxStrays
Slots == {Child} \cup Strays

VARIABLES
  state,     \* of each caller: "new", "awaiting" initialize, "client", "rejected"
  inst,      \* the SharedInstance a caller was given
  exits,     \* calls of exit so far
  deleting,  \* callers whose removeSharedInstance has yet to delete the entry
  entry,     \* sharedInstances: the instance of the port in each Node process
  node,      \* the Node process of each instance
  phase,     \* where initialize is
  host,      \* isHost
  timer,     \* connectionTimeout is set
  failed,    \* failedInitialization
  shutting,  \* isShuttingDown
  promise,   \* the promise of initialize
  ws,        \* instances that have a WebSocket, be its other end alive or not
  clients,   \* the clients of an instance
  cleaned,   \* instances on which cleanup has run
  gone,      \* Node processes ended by an exception nobody caught
  proc,      \* what each server process of each instance does
  fatal,     \* chunks with a fatal message that wait on the stderr pipes
  crashes    \* servers that died or logged by themselves so far

callerVars == <<state, inst, exits>>
mapVars == <<deleting, entry, node>>
initVars == <<phase, host, timer, failed, promise>>
linkVars == <<ws, clients, cleaned>>
serverVars == <<gone, proc, fatal, shutting, crashes>>
vars == <<callerVars, mapVars, initVars, linkVars, serverVars>>

Phases == {"unused", "probing", "probed", "connecting", "open", "stopped"}

\* A server process of i that is alive; one that listens.
Running(i, s) == proc[i][s] # "dead"
Listening(i, s) == proc[i][s] = "listening"

\* Only a host has server processes and messages of theirs.
ServerTypes ==
  /\ proc \in [Instances -> [Slots -> {"dead", "starting", "listening"}]]
  /\ fatal \in [Instances -> 0..MaxChunks]
  /\ \A i \in Instances : (\E s \in Slots : Running(i, s)) \/ fatal[i] > 0 => host[i]

TypeOK ==
  /\ ServerTypes
  /\ state \in [Callers -> {"new", "awaiting", "client", "rejected"}]
  /\ inst \in [Callers -> Instances \cup {None}]
  /\ exits \in [Callers -> 0..MaxExits]
  /\ deleting \subseteq Callers
  /\ entry \in [Nodes -> Instances \cup {None}]
  /\ node \in [Instances -> Nodes \cup {None}]
  /\ phase \in [Instances -> Phases]
  /\ host \in [Instances -> BOOLEAN]
  /\ timer \subseteq Instances /\ failed \subseteq Instances
  /\ shutting \subseteq Instances /\ cleaned \subseteq Instances
  /\ gone \subseteq Nodes
  /\ promise \in [Instances -> {"pending", "resolved", "rejected"}]
  /\ ws \subseteq Instances
  /\ clients \in [Instances -> SUBSET Callers]
  /\ crashes \in 0..MaxCrashes
  /\ \A k \in Callers : state[k] # "new" => inst[k] # None

Init ==
  /\ state = [k \in Callers |-> "new"]
  /\ inst = [k \in Callers |-> None]
  /\ exits = [k \in Callers |-> 0]
  /\ deleting = {}
  /\ entry = [n \in Nodes |-> None]
  /\ node = [i \in Instances |-> None]
  /\ phase = [i \in Instances |-> "unused"]
  /\ host = [i \in Instances |-> FALSE]
  /\ timer = {} /\ failed = {} /\ shutting = {} /\ cleaned = {}
  /\ gone = {}
  /\ promise = [i \in Instances |-> "pending"]
  /\ ws = {}
  /\ clients = [i \in Instances |-> {}]
  /\ proc = [i \in Instances |-> [s \in Slots |-> "dead"]]
  /\ fatal = [i \in Instances |-> 0]
  /\ crashes = 0

Goto(i, p) == phase' = [phase EXCEPT ![i] = p]
Settle(i, how) == promise' = IF promise[i] = "pending"
                             THEN [promise EXCEPT ![i] = how] ELSE promise

\* Timers and I/O events of a Node process wait until its microtasks ran.
Event(n) == n \notin gone /\ \A k \in deleting : NodeOf[k] # n

\* Somebody listens on the port: a probe or a server.
Serving == \E i \in Instances, s \in Slots : Listening(i, s)
PortTaken == Serving \/ \E i \in Instances : phase[i] = "probed" /\ node[i] \notin gone

\* i spawns a process and knows it as its child.  A child that was alive
\* lives on.
Spawn(i) ==
  \/ ~Running(i, Child) /\ proc' = [proc EXCEPT ![i][Child] = "starting"]
  \/ /\ Running(i, Child)
     /\ \E s \in Strays :
          /\ ~Running(i, s) /\ \A t \in 1..(s - 1) : Running(i, t)
          /\ proc' = [proc EXCEPT ![i][s] = proc[i][Child], ![i][Child] = "starting"]

\* n chunks with a fatal message for i; the pipe joins what it cannot keep
\* apart.
Write(i, n) ==
  fatal' = [fatal EXCEPT ![i] = IF @ + n > MaxChunks THEN MaxChunks ELSE @ + n]

-----------------------------------------------------------------------------
(* initCycleTLS and getOrCreateSharedInstance.                             *)

Join(k, i) ==
  /\ state' = [state EXCEPT ![k] = "client"]
  /\ clients' = [clients EXCEPT ![i] = @ \cup {k}]

\* An instance is in the map, initialised or not, failed or not: no waiting.
InitExisting(k) ==
  LET i == entry[NodeOf[k]]
  IN  /\ state[k] = "new" /\ i # None /\ NodeOf[k] \notin gone
      /\ inst' = [inst EXCEPT ![k] = i]
      /\ Join(k, i)
      /\ UNCHANGED <<exits, mapVars, initVars, ws, cleaned, serverVars>>

\* None is: it enters the map before it is initialised.
InitCreate(k) ==
  /\ state[k] = "new" /\ entry[NodeOf[k]] = None /\ NodeOf[k] \notin gone
  /\ \E i \in Instances :
       /\ node[i] = None /\ \A j \in 1..(i - 1) : node[j] # None
       /\ node' = [node EXCEPT ![i] = NodeOf[k]]
       /\ entry' = [entry EXCEPT ![NodeOf[k]] = i]
       /\ inst' = [inst EXCEPT ![k] = i]
       /\ Goto(i, "probing")
  /\ state' = [state EXCEPT ![k] = "awaiting"]
  /\ UNCHANGED <<exits, deleting, host, timer, failed, promise, linkVars, serverVars>>

\* The await of the creator: a client, or "Failed to initialize CycleTLS".
\* A failed instance stays in the map.
InitReturn(k) ==
  /\ state[k] = "awaiting" /\ NodeOf[k] \notin gone
  /\ \/ promise[inst[k]] = "resolved" /\ Join(k, inst[k])
     \/ /\ promise[inst[k]] = "rejected"
        /\ state' = [state EXCEPT ![k] = "rejected"]
        /\ UNCHANGED clients
  /\ UNCHANGED <<inst, exits, mapVars, initVars, ws, cleaned, serverVars>>

-----------------------------------------------------------------------------
(* SharedInstance.initialize.                                              *)

\* The attempts to connect begin, and with them the time limit.
CreateClient(i) == Goto(i, "connecting") /\ timer' = timer \cup {i}

\* listen: the port is free and the probe is closed again, or it is taken
\* and the instance is not the host.
Probe(i) ==
  /\ phase[i] = "probing" /\ Event(node[i])
  /\ IF PortTaken THEN CreateClient(i) ELSE Goto(i, "probed") /\ UNCHANGED timer
  /\ UNCHANGED <<callerVars, mapVars, host, failed, promise, linkVars, serverVars>>

\* Mutant: an instance is the host only once it is connected.
ProbeClosedLateHost(i) ==
  /\ phase[i] = "probed" /\ Event(node[i])
  /\ Spawn(i) /\ CreateClient(i)
  /\ UNCHANGED <<callerVars, mapVars, host, failed, promise, linkVars, gone, fatal,
                 shutting, crashes>>

\* The probe is closed: spawnServer, isHost, createClient.
ProbeClosed(i) ==
  /\ phase[i] = "probed" /\ Event(node[i])
  /\ Spawn(i) /\ CreateClient(i)
  /\ host' = [host EXCEPT ![i] = TRUE]
  /\ UNCHANGED <<callerVars, mapVars, failed, promise, linkVars, gone, fatal,
                 shutting, crashes>>

\* "Executable not found": handleSpawn throws in the callback of the probe,
\* nobody catches it, and the Node process ends.
SpawnThrows(i) ==
  /\ phase[i] = "probed" /\ Event(node[i])
  /\ gone' = gone \cup {node[i]}
  /\ Goto(i, "stopped")
  /\ UNCHANGED <<callerVars, mapVars, host, timer, failed, promise, linkVars, proc,
                 fatal, shutting, crashes>>

\* Mutant: the promise is resolved by the first attempt, not by its success.
AttemptResolves(i) ==
  /\ phase[i] = "connecting" /\ promise[i] = "pending" /\ Event(node[i])
  /\ Settle(i, "resolved")
  /\ UNCHANGED <<callerVars, mapVars, phase, host, timer, failed, linkVars, serverVars>>

\* An attempt to connect succeeds ("open").  One that fails is followed by
\* another 100 ms later and changes nothing.
Attempt(i) ==
  /\ phase[i] = "connecting" /\ Event(node[i])
  /\ Serving
  /\ ws' = ws \cup {i}
  /\ Goto(i, "open")
  /\ timer' = timer \ {i}
  /\ Settle(i, "resolved")
  /\ UNCHANGED <<callerVars, mapVars, host, failed, clients, cleaned, serverVars>>

\* After the time limit the attempt under way is the last.
GiveUp(i) ==
  /\ phase[i] = "connecting" /\ i \in failed /\ Event(node[i])
  /\ Goto(i, "stopped")
  /\ UNCHANGED <<callerVars, mapVars, host, timer, failed, promise, linkVars, serverVars>>

\* Mutant: the time limit stops the attempts and nobody is told.
TimeoutSilent(i) ==
  /\ i \in timer /\ Event(node[i])
  /\ timer' = timer \ {i}
  /\ failed' = failed \cup {i}
  /\ UNCHANGED <<callerVars, mapVars, phase, host, promise, linkVars, serverVars>>

\* "Could not connect to the CycleTLS instance within ..."
Timeout(i) ==
  /\ i \in timer /\ Event(node[i])
  /\ timer' = timer \ {i}
  /\ failed' = failed \cup {i}
  /\ Settle(i, "rejected")
  /\ UNCHANGED <<callerVars, mapVars, phase, host, linkVars, serverVars>>

-----------------------------------------------------------------------------
(* The server process.                                                     *)

\* It listens, or dies with "address already in use".
ServerStarts(i, s) ==
  /\ proc[i][s] = "starting"
  /\ proc' = [proc EXCEPT ![i][s] = IF PortTaken THEN "dead" ELSE "listening"]
  /\ IF PortTaken THEN Write(i, 1) ELSE UNCHANGED fatal
  /\ UNCHANGED <<callerVars, mapVars, initVars, linkVars, gone, shutting, crashes>>

\* It dies of a panic, which it writes in several chunks, or is killed and
\* says nothing.
ServerCrashes(i, s) ==
  /\ Listening(i, s) /\ crashes < MaxCrashes
  /\ crashes' = crashes + 1
  /\ \E n \in 0..MaxChunks : Write(i, n)
  /\ proc' = [proc EXCEPT ![i][s] = "dead"]
  /\ UNCHANGED <<callerVars, mapVars, initVars, linkVars, gone, shutting>>

\* It logs a text that looks fatal (net/http logs the panic of a handler it
\* has recovered) and goes on.
ServerLogs(i, s) ==
  /\ Listening(i, s) /\ crashes < MaxCrashes
  /\ crashes' = crashes + 1
  /\ Write(i, 1)
  /\ UNCHANGED <<callerVars, mapVars, initVars, linkVars, gone, proc, shutting>>

\* Read a chunk with a fatal message.
ReadFatal(i) ==
  /\ fatal[i] > 0 /\ Event(node[i])
  /\ fatal' = [fatal EXCEPT ![i] = @ - 1]
  /\ shutting' = shutting \cup {i}

\* Mutants: the error path of cleanExit leaves without the respawn; cleanExit
\* does not kill.
RestartForgotten(i) ==
  /\ ReadFatal(i)
  /\ UNCHANGED <<callerVars, mapVars, initVars, linkVars, gone, proc, crashes>>
RestartWithoutKill(i) ==
  /\ ReadFatal(i)
  /\ Spawn(i)
  /\ UNCHANGED <<callerVars, mapVars, initVars, linkVars, gone, crashes>>

\* A fatal message on stderr, of whichever process of the instance: cleanExit,
\* which kills the child the first time only, and handleSpawn.  The listener
\* outlives cleanup, and the WebSocket is not connected again.
Restart(i) ==
  /\ ReadFatal(i)
  /\ IF i \in shutting
     THEN Spawn(i)
     ELSE proc' = [proc EXCEPT ![i][Child] = "starting"]
  /\ UNCHANGED <<callerVars, mapVars, initVars, linkVars, gone, crashes>>

-----------------------------------------------------------------------------
(* exit, removeClient, removeSharedInstance.                               *)

\* The child is killed and the WebSocket terminated.
Close(i) ==
  /\ proc' = IF host[i] THEN [proc EXCEPT ![i][Child] = "dead"] ELSE proc
  /\ ws' = ws \ {i}

\* Mutant: the listeners of the probe stay.
CleanupKeepsProbe(i) ==
  /\ cleaned' = cleaned \cup {i}
  /\ timer' = timer \ {i}
  /\ UNCHANGED phase
  /\ Close(i)

\* cleanup: the probe and its listeners go, the child is killed, the socket
\* terminated.  Attempts to connect go on.
Cleanup(i) ==
  /\ cleaned' = cleaned \cup {i}
  /\ timer' = timer \ {i}
  /\ phase' = IF phase[i] \in {"probing", "probed"}
              THEN [phase EXCEPT ![i] = "stopped"] ELSE phase
  /\ Close(i)

\* removeClient, and when no client is left on the instance of k,
\* removeSharedInstance(port): it cleans the instance now in the map up, and
\* will delete the entry, whichever it is, once that is awaited.
Exit(k) ==
  /\ state[k] = "client" /\ exits[k] < MaxExits /\ NodeOf[k] \notin gone
  /\ exits' = [exits EXCEPT ![k] = @ + 1]
  /\ LET n == NodeOf[k]
         left == [clients EXCEPT ![inst[k]] = @ \ {k}]
         last == left[inst[k]] = {} /\ entry[n] # None
     IN  IF last
         THEN /\ Cleanup(entry[n])
              /\ clients' = [left EXCEPT ![entry[n]] = {}]
              /\ deleting' = deleting \cup {k}
         ELSE /\ clients' = left
              /\ UNCHANGED <<deleting, phase, timer, ws, cleaned, proc>>
  /\ UNCHANGED <<state, inst, entry, node, host, failed, promise, gone, fatal,
                 shutting, crashes>>

Delete(k) ==
  /\ k \in deleting /\ NodeOf[k] \notin gone
  /\ deleting' = deleting \ {k}
  /\ entry' = [entry EXCEPT ![NodeOf[k]] = None]
  /\ UNCHANGED <<callerVars, node, initVars, linkVars, serverVars>>

-----------------------------------------------------------------------------
CallerStep(k) == InitExisting(k) \/ InitCreate(k) \/ Exit(k)

Microtask(k) == InitReturn(k) \/ Delete(k)

InstanceEvent(i) ==
  \/ Probe(i) \/ ProbeClosed(i) \/ SpawnThrows(i) \/ Attempt(i) \/ GiveUp(i)
  \/ Timeout(i) \/ Restart(i)

ServerStep(i, s) == ServerStarts(i, s) \/ ServerCrashes(i, s) \/ ServerLogs(i, s)

Next ==
  \/ \E k \in Callers : CallerStep(k) \/ Microtask(k)
  \/ \E i \in Instances : InstanceEvent(i)
  \/ \E i \in Instances, s \in Slots : ServerStep(i, s)

Spec == Init /\ [][Next]_vars

\* The event loops run, timers expire, a process that was started goes on.
Fairness ==
  /\ \A k \in Callers : WF_vars(InitReturn(k)) /\ WF_vars(Delete(k))
  /\ \A i \in Instances : /\ WF_vars(Probe(i) \/ ProbeClosed(i))
                          /\ WF_vars(Attempt(i))
                          /\ WF_vars(Restart(i)) /\ WF_vars(Timeout(i))
  /\ \A i \in Instances, s \in Slots : WF_vars(ServerStarts(i, s))

FairSpec == Spec /\ Fairness

-----------------------------------------------------------------------------
(* Properties.                                                             *)

\* The creator of i awaits initialize.
Awaited(i) == \E k \in Callers : state[k] = "awaiting" /\ inst[k] = i

\* initCycleTLS settles for whoever created the instance, however often the
\* server dies while it starts, unless another client's exit cleans the
\* instance up meanwhile, which clears the timer the promise depends on, or
\* the Node process ends.
InitSettles ==
  \A i \in Instances :
    Awaited(i) ~> ~Awaited(i) \/ i \in cleaned \/ node[i] \in gone

\* "Critical error - restart the process": after a fatal message somebody
\* listens on the port again, also when the restarted server loses the port
\* to that of another Node process or of its own, unless the instance is
\* cleaned up or its Node process ends.
FatalRestarts ==
  \A i \in Instances :
    fatal[i] > 0 ~> i \in cleaned \/ node[i] \in gone \/ Serving

\* cleanExit kills only once, and a panic is several chunks: a later message
\* leaves a living child behind without a parent.  Nothing else does: not the
\* first restart, not cleanup, whatever they meet.
OnlyLaterRestartsOrphan ==
  [][\A i \in Instances, s \in Strays :
       ~Running(i, s) /\ Running(i, s)' => i \in shutting /\ fatal[i] > 0]_vars

\* Whoever awaited initialize can send: its instance has a WebSocket (which
\* may lead to a server that died since) until it is cleaned up.
ResolvedMeansConnected ==
  \A i \in Instances : promise[i] = "resolved" => i \in ws \/ i \in cleaned

\* An instance cleaned up in the middle of its start-up spawns no server
\* later; only a fatal message still makes it restart one.
NoSpawnAfterCleanup ==
  [][\A i \in cleaned :
       proc[i][Child] # "starting" /\ proc'[i][Child] = "starting" => fatal[i] > 0]_vars

-----------------------------------------------------------------------------
(* Inductive strengthening, for the proofs.                                *)

\* Instances in the map were created there, cleanup ends the probe, and a
\* host is past it.
PhaseInv ==
  /\ \A i \in Instances : node[i] = None <=> phase[i] = "unused"
  /\ \A n \in Nodes : entry[n] # None => node[entry[n]] # None
  /\ \A i \in cleaned : phase[i] \in {"connecting", "open", "stopped"}
  /\ \A i \in Instances : host[i] => phase[i] \in {"connecting", "open", "stopped"}

=============================================================================
