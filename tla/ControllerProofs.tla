--------------------------- MODULE ControllerProofs ---------------------------
(* Proofs about Controller, for any calls of the shell and any ports: no   *)
(* runtime is left behind, and each supervisor is used as it may be.       *)
EXTENDS Controller, TLAPS

Words == {"idle", "start", "started", "stale", "build", "startFailed",
          "stop", "drain", "join", "stopped", "exit", "done"}
Alive(g) == serve[g] \in Serving \/ rest[g]

Typed ==
  /\ lock \in Seq(Callers \cup Generations)
  /\ slot \in Generations \cup {None} /\ generation \in Nat
  /\ serve \in [Generations -> Serving \cup {"none", "gone"}]
  /\ rest \in [Generations -> BOOLEAN]
  /\ phase \in [Generations -> {"open", "draining", "closed"}]
  /\ monitor \in [Generations -> {"none", "listening", "locking", "draining", "gone"}]
  /\ pc \in [Callers -> Words]
  /\ mine \in [Callers -> Generations \cup {None}]

(* A generation to come has neither task nor history; the one in the slot  *)
(* is not being drained; a drain returns when nothing is left.             *)
Phases ==
  /\ \A g \in Generations : g > generation => serve[g] = "none" /\ ~rest[g] /\ phase[g] = "open"
  /\ slot # None => phase[slot] = "open" /\ slot <= generation
  /\ \A g \in Generations : phase[g] = "closed" => ~Alive(g)

(* Who builds a gateway holds the lock, and the slot is empty.             *)
Building == \A c \in Callers : pc[c] \in {"stale", "build"} => Holds(lock, c) /\ slot = None

Owned == \A g \in Generations : Alive(g) => slot = g \/ DrainedBy(g)

EndedType == ended \subseteq Generations

IInv == Typed /\ Phases /\ Building /\ Owned

LEMMA GenerationsType == Generations \subseteq Nat \ {0} /\ None \notin Generations
<1>1. \A n : n \in 1..(1 + Cardinality(Setters)) => n \in Int /\ n >= 1
  OBVIOUS
<1> QED
  BY <1>1, GenerationsAssumption DEF None

LEMMA LiveMeans ==
  ASSUME NEW g \in Generations PROVE /\ Live(g) # {} <=> Alive(g)
                                     /\ Live(g) \subseteq Tasks
BY DEF Live, Alive, Tasks

LEMMA InitIInv == Init => IInv
<1> SUFFICES ASSUME Init PROVE IInv
  OBVIOUS
<1>1. Typed
  BY DEF Init, Typed, None, Words
<1>2. Phases /\ Building /\ Owned
  BY DEF Init, Phases, Building, Owned, Alive, Serving
<1> QED
  BY <1>1, <1>2 DEF IInv

(* What may happen to the lock in a step of a: it stays, a asks for it, or *)
(* a gives it back.                                                        *)
LockStep(a) ==
  \/ lock' = lock \/ lock' = Asks(lock, a)
  \/ Holds(lock, a) /\ lock' = Releases(lock, a)

LEMMA LockKept ==
  ASSUME Typed, NEW a \in Callers \cup Generations, LockStep(a)
  PROVE  /\ lock' \in Seq(Callers \cup Generations)
         /\ \A b \in Callers \cup Generations : b # a /\ Holds(lock, b) => Holds(lock', b)
<1>0. lock \in Seq(Callers \cup Generations)
  BY DEF Typed
<1>1. CASE lock' = lock
  BY <1>0, <1>1 DEF Holds
<1>2. CASE lock' = Asks(lock, a)
  <2>1. lock' = Append(lock, a)
    BY <1>2 DEF Asks
  <2>2. lock' \in Seq(Callers \cup Generations) /\ (lock # <<>> => Head(lock') = Head(lock) /\ lock' # <<>>)
    BY <1>0, <2>1
  <2> QED
    BY <2>2 DEF Holds
<1>3. CASE Holds(lock, a) /\ lock' = Releases(lock, a)
  <2>1. lock # <<>> /\ Head(lock) = a /\ lock' = Tail(lock)
    BY <1>3 DEF Holds, Releases
  <2>2. lock' \in Seq(Callers \cup Generations)
    BY <1>0, <2>1
  <2> QED
    BY <2>1, <2>2 DEF Holds
<1> QED
  BY <1>1, <1>2, <1>3 DEF LockStep

LEMMA NotBoth ==
  ASSUME NEW c \in Callers, NEW g \in Generations PROVE c # g
BY CallersAssumption DEF Callers

-----------------------------------------------------------------------------
tasks == <<slot, generation, serve, rest, phase, monitor>>

(* A caller moves on and the runtimes are left alone.                      *)
Moves(c) ==
  /\ LockStep(c) /\ UNCHANGED tasks
  /\ \E to \in Words \ {"stale", "drain"} :
       /\ pc' = [pc EXCEPT ![c] = to]
       /\ to = "build" => Holds(lock, c) /\ slot = None /\ lock' = lock
  /\ pc[c] \in {"stale", "drain"} => phase[mine[c]] = "closed"
  /\ mine' = mine \/ \E g \in Generations \cup {None} : mine' = [mine EXCEPT ![c] = g]

LEMMA MovesKeep ==
  ASSUME IInv, NEW c \in Callers, Moves(c)
  PROVE  IInv'
<1> USE DEF IInv
<1>0. UNCHANGED <<slot, generation, serve, rest, phase, monitor>>
  BY DEF Moves, tasks
<1>1. PICK to \in Words \ {"stale", "drain"} :
        /\ pc' = [pc EXCEPT ![c] = to]
        /\ to = "build" => Holds(lock, c) /\ slot = None /\ lock' = lock
  BY DEF Moves
<1>2. /\ \A d \in Callers \ {c} : pc'[d] = pc[d] /\ mine'[d] = mine[d]
      /\ pc'[c] = to /\ pc' \in [Callers -> Words] /\ mine' \in [Callers -> Generations \cup {None}]
  BY <1>1 DEF Moves, Typed
<1>3. Typed'
  BY <1>0, <1>2, LockKept DEF Typed, Moves
<1>4. Phases'
  BY <1>0 DEF Phases, Alive
<1>5. Building'
  <2> SUFFICES ASSUME NEW d \in Callers, pc'[d] \in {"stale", "build"}
               PROVE  Holds(lock', d) /\ slot' = None
    BY DEF Building, Holds
  <2>1. CASE d = c
    BY <1>0, <1>1, <1>2, <2>1
  <2>2. CASE d # c
    BY <1>0, <1>2, <2>2, LockKept DEF Building, Moves
  <2> QED
    BY <2>1, <2>2
<1>6. Owned'
  <2> SUFFICES ASSUME NEW g \in Generations, Alive(g), slot # g PROVE DrainedBy(g)'
    BY <1>0 DEF Owned, Alive
  <2>1. DrainedBy(g) /\ phase[g] # "closed"
    BY DEF Owned, Phases
  <2>2. ASSUME NEW d \in Callers, mine[d] = g, pc[d] \in {"drain", "stale"}
        PROVE  mine'[d] = g /\ pc'[d] \in {"drain", "stale"}
    <3>1. d # c
      BY <2>1, <2>2 DEF Moves
    <3> QED
      BY <1>2, <2>2, <3>1
  <2> QED
    BY <1>0, <2>1, <2>2 DEF DrainedBy
<1> QED
  BY <1>3, <1>4, <1>5, <1>6

(* Every step of the callers that touches no runtime is such a move.       *)
LEMMA MovesAre ==
  ASSUME IInv, NEW c \in Callers,
         \/ AlreadyLive(c) \/ StaleDrained(c) \/ SlotEmpty(c) \/ LaunchFails(c)
         \/ TakeSlot(c) /\ slot = None
         \/ Drained(c) \/ StopReturns(c)
         \/ SetPort(c) \/ Save(c) \/ SaveFails(c) \/ RestartFailed(c) \/ Quit(c) \/ RequestStop(c)
  PROVE  Moves(c)
<1> USE DEF Moves, LockStep, Goes, tasks, runtimes, calls, Words
<1>1. CASE AlreadyLive(c)
  <2>1. pc[c] = "start" /\ pc' = [pc EXCEPT ![c] = "started"]
    BY <1>1 DEF AlreadyLive, StartReturns
  <2> QED
    BY <1>1, <2>1 DEF AlreadyLive, StartReturns
<1>2. CASE StaleDrained(c)
  BY <1>2 DEF StaleDrained, IInv, Building
<1>3. CASE SlotEmpty(c)
  BY <1>3 DEF SlotEmpty
<1>4. CASE LaunchFails(c)
  <2>1. pc[c] = "build" /\ pc' = [pc EXCEPT ![c] = "startFailed"] /\ Holds(lock, c)
    BY <1>4 DEF LaunchFails, StartReturns, IInv, Building
  <2> QED
    BY <1>4, <2>1 DEF LaunchFails, StartReturns
<1>5. CASE TakeSlot(c) /\ slot = None
  <2>1. pc[c] = "stop" /\ pc' = [pc EXCEPT ![c] = "stopped"] /\ mine' = [mine EXCEPT ![c] = None]
    BY <1>5 DEF TakeSlot
  <2> QED
    BY <1>5, <2>1 DEF TakeSlot
<1>6. CASE Drained(c) \/ StopReturns(c)
  BY <1>6 DEF Drained, StopReturns
<1>7. CASE SetPort(c) \/ Quit(c)
  BY <1>7 DEF SetPort, Quit, CallsStop
<1>8. CASE Save(c)
  <2>1. pc[c] = "stopped" /\ pc' = [pc EXCEPT ![c] = "start"] /\ mine' = [mine EXCEPT ![c] = None]
    BY <1>8 DEF Save, CallsStart
  <2> QED
    BY <1>8, <2>1 DEF Save, CallsStart
<1>9. CASE SaveFails(c) \/ RestartFailed(c) \/ RequestStop(c)
  BY <1>9 DEF SaveFails, RestartFailed, RequestStop
<1> QED
  BY <1>1, <1>2, <1>3, <1>4, <1>5, <1>6, <1>7, <1>8, <1>9

LEMMA LauncherMoves ==
  ASSUME SetUp \/ RecordError PROVE Moves(Launcher)
BY DEF SetUp, RecordError, CallsStart, Moves, LockStep, Goes, tasks, runtimes, calls, Words

-----------------------------------------------------------------------------
(* The slot is taken, and whoever took it drains the generation.           *)
Takes(c) ==
  /\ slot \in Generations /\ slot' = None
  /\ phase' = [phase EXCEPT ![slot] = "draining"]
  /\ UNCHANGED <<generation, serve, rest, monitor>>
  /\ mine' = [mine EXCEPT ![c] = slot]
  /\ \/ pc' = [pc EXCEPT ![c] = "stale"] /\ Holds(lock, c) /\ lock' = lock
     \/ pc' = [pc EXCEPT ![c] = "drain"] /\ Holds(lock, c) /\ lock' = Releases(lock, c)
  /\ pc[c] \in {"start", "stop"}

LEMMA TakesAre ==
  ASSUME IInv, EndedType, NEW c \in Callers, TakeStale(c) \/ (TakeSlot(c) /\ slot # None)
  PROVE  Takes(c)
<1>1. CASE TakeStale(c)
  <2>1. slot # None
    BY <1>1, GenerationsType DEF TakeStale, EndedType
  <2> QED
    BY <1>1, <2>1 DEF TakeStale, Begins, Goes, Takes, IInv, Typed
<1>2. CASE TakeSlot(c) /\ slot # None
  BY <1>2 DEF TakeSlot, Begins, Goes, Takes, IInv, Typed
<1> QED
  BY <1>1, <1>2

LEMMA TakesKeep ==
  ASSUME IInv, NEW c \in Callers, Takes(c)
  PROVE  IInv'
<1> USE DEF IInv
<1>0. LockStep(c) /\ Holds(lock, c) /\ slot \in Generations /\ slot' = None
  BY DEF Takes, LockStep
<1>1. /\ \A d \in Callers \ {c} : pc'[d] = pc[d] /\ mine'[d] = mine[d]
      /\ mine'[c] = slot /\ pc'[c] \in {"stale", "drain"} /\ (pc'[c] = "stale" => lock' = lock)
      /\ pc' \in [Callers -> Words] /\ mine' \in [Callers -> Generations \cup {None}]
  BY DEF Takes, Typed, Words
<1>2. /\ phase' \in [Generations -> {"open", "draining", "closed"}] /\ phase'[slot] = "draining"
      /\ \A g \in Generations \ {slot} : phase'[g] = phase[g]
      /\ UNCHANGED <<generation, serve, rest, monitor>>
  BY DEF Takes, Typed
<1>3. Typed'
  BY <1>0, <1>1, <1>2, LockKept DEF Typed
<1>4. Phases'
  <2>1. slot <= generation /\ generation \in Nat /\ slot \in Nat
    BY <1>0, GenerationsType DEF Phases, Typed
  <2>2. \A g \in Generations : g > generation => g # slot
    BY <2>1
  <2> QED
    BY <1>0, <1>2, <2>2 DEF Phases, Alive
<1>5. Building'
  <2> SUFFICES ASSUME NEW d \in Callers, pc'[d] \in {"stale", "build"} PROVE Holds(lock', d)
    BY <1>0 DEF Building, Holds
  <2>1. CASE d = c
    BY <1>0, <1>1, <2>1
  <2>2. CASE d # c
    BY <1>0, <1>1, <2>2, GenerationsType DEF Building
  <2> QED
    BY <2>1, <2>2
<1>6. Owned'
  <2> SUFFICES ASSUME NEW g \in Generations, Alive(g) PROVE DrainedBy(g)'
    BY <1>2 DEF Owned, Alive
  <2>1. CASE g = slot
    BY <1>1, <1>2, <2>1 DEF DrainedBy
  <2>2. CASE g # slot
    <3>1. DrainedBy(g)
      BY <2>2 DEF Owned
    <3>2. pc[c] \notin {"drain", "stale"}
      BY DEF Takes
    <3> QED
      BY <1>1, <1>2, <2>2, <3>1, <3>2 DEF DrainedBy
  <2> QED
    BY <2>1, <2>2
<1> QED
  BY <1>3, <1>4, <1>5, <1>6

-----------------------------------------------------------------------------
(* The new gateway is built by the one caller that holds the lock.         *)
LEMMA LaunchKeeps ==
  ASSUME IInv, NEW c \in Callers, Launch(c)
  PROVE  IInv'
<1> USE DEF IInv
<1> DEFINE n == generation + 1
<1>0. Holds(lock, c) /\ slot = None /\ n \in Generations /\ generation \in Nat
  BY DEF Launch, Building, Typed
<1>1. /\ generation' = n /\ slot' = n /\ n # None /\ UNCHANGED <<phase, mine>>
      /\ lock' = Releases(lock, c) /\ pc' = [pc EXCEPT ![c] = "started"] /\ pc[c] = "build"
  BY <1>0, GenerationsType DEF Launch, StartReturns, Goes, None
<1>2. /\ serve' \in [Generations -> Serving \cup {"none", "gone"}]
      /\ rest' \in [Generations -> BOOLEAN]
      /\ monitor' \in [Generations -> {"none", "listening", "locking", "draining", "gone"}]
      /\ \A g \in Generations : g # n =>
           serve'[g] = serve[g] /\ rest'[g] = rest[g] /\ monitor'[g] = monitor[g]
  BY <1>0 DEF Launch, Typed, Serving
<1>3. pc' \in [Callers -> Words] /\ \A d \in Callers \ {c} : pc'[d] = pc[d]
  BY <1>1 DEF Typed, Words
<1>4. LockStep(c)
  BY <1>0, <1>1 DEF LockStep
<1> HIDE DEF n
<1>5. Typed'
  <2>1. lock' \in Seq(Callers \cup Generations)
    BY <1>4, LockKept
  <2>2. n \in Nat
    BY <1>0, GenerationsType
  <2> QED
    BY <1>0, <1>1, <1>2, <1>3, <2>1, <2>2 DEF Typed
<1>6. Phases'
  <2>1. \A g \in Generations : g > n => g > generation /\ g # n
    BY <1>0, GenerationsType DEF n
  <2>2. n > generation /\ n <= n
    BY <1>0 DEF n
  <2>3. phase[n] = "open"
    BY <1>0, <2>2 DEF Phases
  <2>4. \A g \in Generations : phase[g] = "closed" => g # n /\ ~Alive(g)
    BY <2>3 DEF Phases
  <2> QED
    BY <1>0, <1>1, <1>2, <2>1, <2>2, <2>3, <2>4 DEF Phases, Alive
<1>7. Building'
  <2> SUFFICES ASSUME NEW d \in Callers, pc'[d] \in {"stale", "build"} PROVE FALSE
    BY DEF Building
  <2>1. d # c
    BY <1>1 DEF Typed
  <2>2. Holds(lock, d)
    BY <1>3, <2>1 DEF Building
  <2> QED
    BY <1>0, <2>1, <2>2 DEF Holds
<1>8. Owned'
  <2> SUFFICES ASSUME NEW g \in Generations, g # n, Alive(g) PROVE DrainedBy(g)'
    BY <1>1, <1>2 DEF Owned, Alive
  <2>1. DrainedBy(g)
    BY <1>0, GenerationsType DEF Owned
  <2> QED
    BY <1>1, <1>2, <1>3, <2>1 DEF DrainedBy
<1> QED
  BY <1>5, <1>6, <1>7, <1>8

LEMMA ExitKeeps ==
  ASSUME IInv, NEW c \in Callers, Exit(c)
  PROVE  IInv'
<1> USE DEF IInv
<1>0. UNCHANGED <<generation, phase, mine>> /\ lock' = <<>> /\ slot' = None
  BY DEF Exit
<1>1. pc' = [d \in Callers |-> "done"]
  BY DEF Exit
<1>2. /\ serve' \in [Generations -> Serving \cup {"none", "gone"}]
      /\ rest' \in [Generations -> BOOLEAN]
      /\ monitor' \in [Generations -> {"none", "listening", "locking", "draining", "gone"}]
      /\ \A g \in Generations : serve'[g] \notin Serving /\ ~rest'[g] /\ (serve[g] = "none" => serve'[g] = "none")
  BY DEF Exit, Typed, Serving
<1>3. Typed'
  BY <1>0, <1>1, <1>2 DEF Typed, Words
<1>4. Phases' /\ Building' /\ Owned'
  BY <1>0, <1>1, <1>2 DEF Phases, Building, Owned, Alive
<1> QED
  BY <1>3, <1>4

-----------------------------------------------------------------------------
(* One of the tasks of a generation gets on, or ends.                      *)
Fades(g) ==
  /\ UNCHANGED <<lock, slot, generation, phase, monitor, pc, mine>>
  /\ Alive(g)
  /\ \/ serve' = serve \/ serve' = [serve EXCEPT ![g] = "gone"]
     \/ serve[g] \in Serving /\ \E to \in Serving : serve' = [serve EXCEPT ![g] = to]
  /\ rest' = rest \/ rest' = [rest EXCEPT ![g] = FALSE]

LEMMA FadesAre ==
  ASSUME NEW g \in Generations, Serves(g) \/ RestEnds(g) \/ Abort(g)
  PROVE  Fades(g)
<1> USE DEF Fades, Alive, Serving, calls
<1>1. CASE ListenerCloses(g) \/ ServeEnds(g)
  BY <1>1 DEF ListenerCloses, ServeEnds, Advances, unserved
<1>2. CASE ServeReturns(g) \/ ServeFails(g)
  BY <1>2 DEF ServeReturns, ServeFails, Returns, unserved
<1>3. CASE RestEnds(g)
  BY <1>3 DEF RestEnds
<1>4. CASE Abort(g)
  BY <1>4, LiveMeans DEF Abort
<1> QED
  BY <1>1, <1>2, <1>3, <1>4 DEF Serves

LEMMA FadesKeep ==
  ASSUME IInv, NEW g \in Generations, Fades(g)
  PROVE  IInv'
<1> USE DEF IInv
<1>0. UNCHANGED <<lock, slot, generation, phase, monitor, pc, mine>> /\ Alive(g)
  BY DEF Fades
<1>1. /\ serve' \in [Generations -> Serving \cup {"none", "gone"}]
      /\ rest' \in [Generations -> BOOLEAN]
      /\ \A h \in Generations : h # g => serve'[h] = serve[h] /\ rest'[h] = rest[h]
  BY DEF Fades, Typed
<1>2. ~(g > generation) /\ phase[g] # "closed"
  BY <1>0 DEF Phases, Alive, Serving
<1>3. Typed' /\ Building'
  BY <1>0, <1>1 DEF Typed, Building
<1>4. Phases'
  BY <1>0, <1>1, <1>2 DEF Phases, Alive
<1>5. Owned'
  <2> SUFFICES ASSUME NEW h \in Generations, Alive(h)' PROVE slot = h \/ DrainedBy(h)
    BY <1>0 DEF Owned, DrainedBy
  <2>1. Alive(h)
    BY <1>0, <1>1 DEF Alive
  <2> QED
    BY <2>1 DEF Owned
<1> QED
  BY <1>3, <1>4, <1>5

LEMMA CloseKeeps ==
  ASSUME IInv, NEW g \in Generations, Close(g)
  PROVE  IInv'
<1> USE DEF IInv
<1>0. UNCHANGED <<lock, slot, generation, serve, rest, monitor, pc, mine>> /\ phase[g] = "draining"
  BY DEF Close, calls
<1>1. /\ phase' \in [Generations -> {"open", "draining", "closed"}]
      /\ phase'[g] = "closed" /\ \A h \in Generations : h # g => phase'[h] = phase[h]
  BY DEF Close, Typed
<1>2. ~Alive(g)
  BY LiveMeans DEF Close
<1>3. Typed' /\ Building'
  BY <1>0, <1>1 DEF Typed, Building
<1>4. Phases'
  BY <1>0, <1>1, <1>2 DEF Phases, Alive, Typed
<1>5. Owned'
  <2> SUFFICES ASSUME NEW h \in Generations, Alive(h) PROVE slot = h \/ DrainedBy(h)'
    BY <1>0 DEF Owned, Alive
  <2>1. h # g /\ (slot = h \/ DrainedBy(h))
    BY <1>2 DEF Owned
  <2> QED
    BY <1>0, <1>1, <2>1 DEF DrainedBy
<1> QED
  BY <1>3, <1>4, <1>5

-----------------------------------------------------------------------------
(* A monitor waits, asks for the lock, or is through with its drain.       *)
Watches(g) ==
  /\ LockStep(g)
  /\ UNCHANGED <<slot, generation, serve, rest, phase, pc, mine>>
  /\ \E to \in {"locking", "gone"} : monitor' = [monitor EXCEPT ![g] = to]
  /\ monitor[g] = "draining" => phase[g] = "closed"

LEMMA WatchesAre ==
  ASSUME NEW g \in Generations, MonitorLeaves(g) \/ MonitorHears(g) \/ MonitorYields(g) \/ MonitorDone(g)
  PROVE  Watches(g)
BY DEF MonitorLeaves, MonitorHears, MonitorYields, MonitorDone, Turns, unmonitored, calls,
       Watches, LockStep

LEMMA WatchesKeep ==
  ASSUME IInv, NEW g \in Generations, Watches(g)
  PROVE  IInv'
<1> USE DEF IInv
<1>0. UNCHANGED <<slot, generation, serve, rest, phase, pc, mine>>
  BY DEF Watches
<1>1. /\ monitor' \in [Generations -> {"none", "listening", "locking", "draining", "gone"}]
      /\ \A h \in Generations : h # g => monitor'[h] = monitor[h]
  BY DEF Watches, Typed
<1>2. Typed'
  BY <1>0, <1>1, LockKept DEF Typed, Watches
<1>3. Phases'
  BY <1>0 DEF Phases, Alive
<1>4. Building'
  <2> SUFFICES ASSUME NEW c \in Callers, pc[c] \in {"stale", "build"}
               PROVE  Holds(lock', c) /\ slot = None
    BY <1>0 DEF Building, Holds
  <2> QED
    BY NotBoth, LockKept DEF Building, Watches
<1>5. Owned'
  <2> SUFFICES ASSUME NEW h \in Generations, Alive(h), slot # h PROVE DrainedBy(h)'
    BY <1>0 DEF Owned, Alive
  <2>1. DrainedBy(h) /\ phase[h] # "closed"
    BY DEF Owned, Phases
  <2>2. monitor[h] = "draining" => h # g
    BY <2>1 DEF Watches
  <2> QED
    BY <1>0, <1>1, <2>1, <2>2 DEF DrainedBy
<1> QED
  BY <1>2, <1>3, <1>4, <1>5

LEMMA MonitorTakesKeeps ==
  ASSUME IInv, NEW g \in Generations, MonitorTakes(g)
  PROVE  IInv'
<1> USE DEF IInv
<1>0. /\ UNCHANGED <<generation, serve, rest, pc, mine>>
      /\ Holds(lock, g) /\ lock' = Releases(lock, g) /\ slot = g /\ slot' = None
  BY DEF MonitorTakes, unmonitored, calls
<1>1. /\ monitor' \in [Generations -> {"none", "listening", "locking", "draining", "gone"}]
      /\ monitor'[g] = "draining"
      /\ \A h \in Generations : h # g => monitor'[h] = monitor[h]
  BY DEF MonitorTakes, Turns, Typed
<1>2. /\ phase' \in [Generations -> {"open", "draining", "closed"}]
      /\ phase'[g] = "draining" /\ \A h \in Generations : h # g => phase'[h] = phase[h]
  BY DEF MonitorTakes, Typed
<1>3. Typed'
  <2>1. lock' \in Seq(Callers \cup Generations)
    BY <1>0, LockKept DEF LockStep
  <2> QED
    BY <1>0, <1>1, <1>2, <2>1 DEF Typed
<1>4. Phases'
  <2>1. g <= generation /\ generation \in Nat /\ g \in Nat /\ g # None
    BY <1>0, GenerationsType DEF Phases, Typed
  <2>2. \A h \in Generations : h > generation => h # g
    BY <2>1
  <2> QED
    BY <1>0, <1>2, <2>2 DEF Phases, Alive
<1>5. Building'
  <2>1. slot # None
    BY <1>0, GenerationsType
  <2> QED
    BY <1>0, <2>1 DEF Building
<1>6. Owned'
  <2> SUFFICES ASSUME NEW h \in Generations, Alive(h) PROVE DrainedBy(h)'
    BY <1>0 DEF Owned, Alive
  <2>1. h # g => DrainedBy(h)
    BY <1>0 DEF Owned
  <2> QED
    BY <1>0, <1>1, <1>2, <2>1 DEF DrainedBy
<1> QED
  BY <1>3, <1>4, <1>5, <1>6

-----------------------------------------------------------------------------
LEMMA SpecEndedType == Spec => []EndedType
<1> USE DEF EndedType
<1>1. Init => EndedType
  BY DEF Init
<1>2. EndedType /\ [Next]_vars => EndedType'
  <2> SUFFICES ASSUME EndedType, [Next]_vars
               PROVE  ended' = ended \/ \E g \in Generations : ended' = ended \cup {g}
    OBVIOUS
  <2>1. CASE Shell
    BY <2>1 DEF Shell, SetUp, RecordError, SetPort, Save, SaveFails, RestartFailed, Quit,
                RequestStop, Exit, runtimes
  <2>2. ASSUME NEW c \in Callers, Starting(c) \/ Stopping(c) PROVE ended' = ended
    BY <2>2 DEF Starting, Stopping, AlreadyLive, TakeStale, StaleDrained, SlotEmpty, Launch,
                LaunchFails, TakeSlot, Drained, StopReturns, Begins, runtimes
  <2>3. ASSUME NEW g \in Generations, Serves(g)
        PROVE  ended' = ended \/ ended' = ended \cup {g}
    BY <2>3 DEF Serves, ListenerCloses, ServeReturns, ServeFails, Returns, ServeEnds
  <2>4. ASSUME NEW g \in Generations, RestEnds(g) \/ Draining(g) \/ Monitors(g)
        PROVE  ended' = ended
    BY <2>4 DEF RestEnds, Draining, Abort, Close, Monitors, MonitorLeaves, MonitorHears,
                MonitorTakes, MonitorYields, MonitorDone, unmonitored
  <2>5. CASE UNCHANGED vars
    BY <2>5 DEF vars, runtimes
  <2> QED
    BY <2>1, <2>2, <2>3, <2>4, <2>5 DEF Next
<1> QED
  BY <1>1, <1>2, PTL DEF Spec

LEMMA NextIInv == IInv /\ EndedType /\ [Next]_vars => IInv'
<1> SUFFICES ASSUME IInv, EndedType, [Next]_vars PROVE IInv'
  OBVIOUS
<1>1. CASE Shell
  <2>1. CASE SetUp \/ RecordError
    BY <2>1, LauncherMoves, MovesKeep DEF Callers
  <2>2. ASSUME NEW c \in Callers, SetPort(c) \/ Save(c) \/ SaveFails(c) \/ RestartFailed(c)
                                  \/ Quit(c) \/ RequestStop(c)
        PROVE  IInv'
    BY <2>2, MovesAre, MovesKeep
  <2>3. ASSUME NEW c \in Callers, Exit(c) PROVE IInv'
    BY <2>3, ExitKeeps
  <2> QED
    BY <1>1, <2>1, <2>2, <2>3 DEF Shell
<1>2. ASSUME NEW c \in Callers, Starting(c) \/ Stopping(c) PROVE IInv'
  <2>1. CASE AlreadyLive(c) \/ StaleDrained(c) \/ SlotEmpty(c) \/ LaunchFails(c)
    BY <2>1, MovesAre, MovesKeep
  <2>2. CASE TakeStale(c)
    BY <2>2, TakesAre, TakesKeep
  <2>3. CASE Launch(c)
    BY <2>3, LaunchKeeps
  <2>4. CASE TakeSlot(c) /\ slot = None
    BY <2>4, MovesAre, MovesKeep
  <2>5. CASE TakeSlot(c) /\ slot # None
    BY <2>5, TakesAre, TakesKeep
  <2>6. CASE Drained(c) \/ StopReturns(c)
    BY <2>6, MovesAre, MovesKeep
  <2> QED
    BY <1>2, <2>1, <2>2, <2>3, <2>4, <2>5, <2>6 DEF Starting, Stopping
<1>3. ASSUME NEW g \in Generations, Serves(g) \/ RestEnds(g) \/ Draining(g) PROVE IInv'
  BY <1>3, FadesAre, FadesKeep, CloseKeeps DEF Draining
<1>4. ASSUME NEW g \in Generations, Monitors(g) PROVE IInv'
  BY <1>4, WatchesAre, WatchesKeep, MonitorTakesKeeps DEF Monitors
<1>5. CASE UNCHANGED vars
  BY <1>5 DEF vars, runtimes, calls, IInv, Typed, Phases, Building, Owned, Alive, DrainedBy, Holds
<1> QED
  BY <1>1, <1>2, <1>3, <1>4, <1>5 DEF Next

LEMMA SpecIInv == Spec => []IInv
BY InitIInv, NextIInv, SpecEndedType, PTL DEF Spec

(* However the calls of the shell, the failures of the gateways and their  *)
(* monitors meet, every generation with a live task is in the slot or is   *)
(* being drained by somebody.                                              *)
THEOREM NoRuntimeIsLeft == Spec => []NoOrphan
<1>1. IInv => NoOrphan
  BY LiveMeans DEF IInv, Owned, NoOrphan
<1> QED
  BY <1>1, SpecIInv, PTL

-----------------------------------------------------------------------------
(* What a step may do to one generation, as its supervisor sees it.        *)
Stays(g)   == serve'[g] = serve[g] /\ rest'[g] = rest[g] /\ phase'[g] = phase[g]
Shrinks(g) == (rest'[g] => rest[g]) /\ (serve'[g] \in Serving => serve[g] \in Serving)
              /\ phase'[g] = phase[g]
Opens(g)   == ~Alive(g) /\ phase[g] = "open" /\ phase'[g] = "open"
Drains(g)  == phase[g] = "open" /\ phase'[g] = "draining" /\ serve'[g] = serve[g] /\ rest'[g] = rest[g]
Closes(g)  == phase[g] = "draining" /\ phase'[g] = "closed" /\ ~Alive(g)
              /\ serve'[g] = serve[g] /\ rest'[g] = rest[g]

LEMMA AsDrainedSet ==
  ASSUME NEW g \in Generations,
         Stays(g) \/ Shrinks(g) \/ Opens(g) \/ Drains(g) \/ Closes(g)
  PROVE  Runtime(g)!Next \/ UNCHANGED <<Live(g), phase[g]>>
<1> USE DEF Runtime!Next
<1>1. CASE Stays(g)
  BY <1>1 DEF Stays, Live
<1>2. CASE Shrinks(g)
  BY <1>2 DEF Shrinks, Live, Runtime!Finish
<1>3. CASE Opens(g)
  <2>1. Live(g) = {}
    BY <1>3, LiveMeans DEF Opens
  <2>2. Live(g)' \in SUBSET (Tasks \ Live(g)) /\ Live(g)' = Live(g) \cup Live(g)'
    BY <2>1 DEF Live
  <2> QED
    BY <1>3, <2>2 DEF Opens, Runtime!Register
<1>4. CASE Drains(g)
  BY <1>4 DEF Drains, Live, Runtime!Drain
<1>5. CASE Closes(g)
  <2>1. Live(g) = {} /\ Live(g)' = Live(g)
    BY <1>5, LiveMeans DEF Closes, Live
  <2> QED
    BY <1>5, <2>1 DEF Closes, Runtime!Close
<1> QED
  BY <1>1, <1>2, <1>3, <1>4, <1>5

LEMMA StepOfAll ==
  ASSUME IInv, EndedType, [Next]_vars, NEW g \in Generations
  PROVE  Stays(g) \/ Shrinks(g) \/ Opens(g) \/ Drains(g) \/ Closes(g)
<1> USE DEF IInv
<1>1. ASSUME NEW c \in Callers, Moves(c) PROVE Stays(g)
  BY <1>1 DEF Moves, tasks, Stays
<1>2. ASSUME NEW c \in Callers, Takes(c) PROVE Stays(g) \/ Drains(g)
  <2>1. phase[slot] = "open"
    BY <1>2, GenerationsType DEF Takes, Phases
  <2> QED
    BY <1>2, <2>1 DEF Takes, Stays, Drains, Typed
<1>3. ASSUME NEW c \in Callers, Launch(c) PROVE Stays(g) \/ Opens(g)
  <2>1. generation + 1 \in Generations /\ generation \in Nat /\ phase' = phase
    BY <1>3 DEF Launch, Typed
  <2>2. CASE g = generation + 1
    BY <2>1, <2>2 DEF Opens, Phases, Alive, Serving
  <2>3. CASE g # generation + 1
    BY <1>3, <2>1, <2>3 DEF Launch, Stays, Typed
  <2> QED
    BY <2>2, <2>3
<1>4. ASSUME NEW c \in Callers, Exit(c) PROVE Shrinks(g)
  BY <1>4 DEF Exit, Shrinks, Typed, Serving
<1>5. ASSUME NEW h \in Generations, Fades(h) PROVE Stays(g) \/ Shrinks(g)
  <2>1. h # g => Stays(g)
    BY <1>5 DEF Fades, Stays, Typed
  <2>2. serve' = [serve EXCEPT ![h] = "gone"] => serve'[h] = "gone" /\ serve'[h] \notin Serving
    BY DEF Typed, Serving
  <2>3. h = g => Shrinks(g)
    BY <1>5, <2>2 DEF Fades, Shrinks, Typed
  <2> QED
    BY <2>1, <2>3
<1>6. ASSUME NEW h \in Generations, Close(h) PROVE Stays(g) \/ Closes(g)
  BY <1>6, LiveMeans DEF Close, Stays, Closes, Typed
<1>7. ASSUME NEW h \in Generations, Watches(h) PROVE Stays(g)
  BY <1>7 DEF Watches, Stays
<1>8. ASSUME NEW h \in Generations, MonitorTakes(h) PROVE Stays(g) \/ Drains(g)
  BY <1>8, GenerationsType DEF MonitorTakes, unmonitored, Stays, Drains, Typed, Phases
<1>9. CASE UNCHANGED vars
  BY <1>9 DEF vars, runtimes, Stays
<1>10. CASE Shell
  BY <1>1, <1>4, <1>10, LauncherMoves, MovesAre DEF Shell, Callers
<1>11. ASSUME NEW c \in Callers, Starting(c) \/ Stopping(c)
       PROVE  Moves(c) \/ Takes(c) \/ Launch(c)
  BY <1>11, MovesAre, TakesAre DEF Starting, Stopping
<1>12. ASSUME NEW h \in Generations, Serves(h) \/ RestEnds(h) \/ Draining(h)
       PROVE  Fades(h) \/ Close(h)
  BY <1>12, FadesAre DEF Draining
<1>13. ASSUME NEW h \in Generations, Monitors(h) PROVE Watches(h) \/ MonitorTakes(h)
  BY <1>13, WatchesAre DEF Monitors
<1> HIDE DEF IInv
<1> QED
  BY <1>1, <1>2, <1>3, <1>5, <1>6, <1>7, <1>8, <1>9, <1>10, <1>11, <1>12, <1>13 DEF Next

(* Whatever the shell calls, each runtime is put together once, drained at *)
(* most once and given no task after that: it is a DrainedSet.             *)
THEOREM EveryRuntimeIsDrainedOnce == Spec => DrainsOnce
<1>1. Init => \A g \in Generations : Runtime(g)!Init
  BY DEF Init, Runtime!Init, Live, Tasks
<1>2. IInv /\ EndedType /\ [Next]_vars =>
        [\A g \in Generations : Runtime(g)!Next \/ UNCHANGED <<Live(g), phase[g]>>]_vars
  BY StepOfAll, AsDrainedSet
<1> QED
  BY <1>1, <1>2, SpecIInv, SpecEndedType, PTL DEF Spec, DrainsOnce
-----------------------------------------------------------------------------
(* What is known of generations that have ended: their serve is gone, and  *)
(* only they are drained by a monitor or by a start; one to come has no    *)
(* result yet.                                                             *)
Ends ==
  /\ ended \subseteq Generations /\ generation \in Generations \cup {None}
  /\ result \in [Generations -> {"none", "ok", "err"}]
  /\ \A g \in Generations : g > generation => result[g] = "none"
  /\ \A g \in ended : serve[g] = "gone"
  /\ \A g \in Generations : monitor[g] \in {"locking", "draining"} => g \in ended
  /\ \A c \in Callers : pc[c] = "stale" => mine[c] \in ended

StatusInv == Ends /\ EndIsShown /\ RunningIsReal

LEMMA InitStatus == Init => StatusInv
<1> SUFFICES ASSUME Init PROVE StatusInv
  OBVIOUS
<1>1. Ends
  BY DEF Init, Ends
<1>2. EndIsShown /\ RunningIsReal
  BY DEF Init, EndIsShown, RunningIsReal
<1> QED
  BY <1>1, <1>2 DEF StatusInv

(* A caller moves on without a word: one that drains goes on to join.      *)
Hushes(c) ==
  /\ UNCHANGED <<running, result, ended, serve, monitor, generation>>
  /\ error' = error \/ error' = TRUE
  /\ \E to \in Words \ {"stale"} :
       pc' = [pc EXCEPT ![c] = to] /\ (pc[c] = "drain" => to = "join")
  /\ pc[c] # "join"
  /\ mine' = mine \/ \E g \in Generations \cup {None} : mine' = [mine EXCEPT ![c] = g]

LEMMA HushesAre ==
  ASSUME IInv, NEW c \in Callers,
         \/ AlreadyLive(c) \/ StaleDrained(c) \/ SlotEmpty(c) \/ LaunchFails(c)
         \/ TakeSlot(c) /\ slot # None
         \/ Drained(c)
         \/ SetPort(c) \/ Save(c) \/ SaveFails(c) \/ RestartFailed(c) \/ Quit(c) \/ RequestStop(c)
  PROVE  Hushes(c)
<1> USE DEF Hushes, Goes, status, runtimes, calls, Words
<1>1. CASE AlreadyLive(c)
  <2>1. pc[c] = "start" /\ pc' = [pc EXCEPT ![c] = "started"]
    BY <1>1 DEF AlreadyLive, StartReturns
  <2> QED
    BY <1>1, <2>1 DEF AlreadyLive
<1>2. CASE StaleDrained(c) \/ SlotEmpty(c)
  BY <1>2 DEF StaleDrained, SlotEmpty
<1>3. CASE LaunchFails(c)
  <2>1. pc[c] = "build" /\ pc' = [pc EXCEPT ![c] = "startFailed"]
    BY <1>3 DEF LaunchFails, StartReturns
  <2> QED
    BY <1>3, <2>1 DEF LaunchFails
<1>4. CASE TakeSlot(c) /\ slot # None
  <2>1. pc[c] = "stop" /\ pc' = [pc EXCEPT ![c] = "drain"] /\ mine' = [mine EXCEPT ![c] = slot]
    BY <1>4 DEF TakeSlot
  <2> QED
    BY <1>4, <2>1 DEF TakeSlot, Begins, IInv, Typed
<1>5. CASE Drained(c)
  BY <1>5 DEF Drained
<1>6. CASE SetPort(c) \/ Quit(c)
  BY <1>6 DEF SetPort, Quit, CallsStop
<1>7. CASE Save(c)
  <2>1. pc[c] = "stopped" /\ pc' = [pc EXCEPT ![c] = "start"] /\ mine' = [mine EXCEPT ![c] = None]
    BY <1>7 DEF Save, CallsStart
  <2> QED
    BY <1>7, <2>1 DEF Save
<1>8. CASE SaveFails(c) \/ RestartFailed(c) \/ RequestStop(c)
  BY <1>8 DEF SaveFails, RestartFailed, RequestStop
<1> QED
  BY <1>1, <1>2, <1>3, <1>4, <1>5, <1>6, <1>7, <1>8

LEMMA HushesKeep ==
  ASSUME IInv, StatusInv, NEW c \in Callers, Hushes(c)
  PROVE  StatusInv'
<1> USE DEF StatusInv
<1>0. UNCHANGED <<running, result, ended, serve, monitor, generation>> /\ (error' = error \/ error' = TRUE)
  BY DEF Hushes
<1>1. PICK to \in Words \ {"stale"} :
        pc' = [pc EXCEPT ![c] = to] /\ (pc[c] = "drain" => to = "join")
  BY DEF Hushes
<1>2. /\ \A d \in Callers \ {c} : pc'[d] = pc[d] /\ mine'[d] = mine[d]
      /\ pc'[c] = to /\ to # "stale" /\ (pc[c] = "drain" => to = "join") /\ pc[c] # "join"
  BY <1>1 DEF Hushes, IInv, Typed
<1>3. Ends'
  BY <1>0, <1>2 DEF Ends
<1>4. EndIsShown'
  BY <1>0 DEF EndIsShown
<1>5. RunningIsReal'
  <2> SUFFICES ASSUME running, \A g \in Generations : serve[g] \notin {"up", "closing"}
               PROVE  \E d \in Callers : pc'[d] \in {"drain", "join"}
    BY <1>0 DEF RunningIsReal
  <2>1. PICK d \in Callers : pc[d] \in {"drain", "join"}
    BY DEF RunningIsReal
  <2> QED
    BY <1>2, <2>1
<1> QED
  BY <1>3, <1>4, <1>5

(* A caller says that nothing runs.                                        *)
LEMMA DenialsKeep ==
  ASSUME IInv, StatusInv, NEW c \in Callers, NEW to \in Words \ {"stale"},
         pc' = [pc EXCEPT ![c] = to], running' = FALSE, error' = error \/ error' = TRUE,
         UNCHANGED <<result, ended, serve, monitor, generation>>,
         mine' = mine \/ mine' = [mine EXCEPT ![c] = slot]
  PROVE  StatusInv'
<1> USE DEF StatusInv
<1>1. \A d \in Callers \ {c} : pc'[d] = pc[d] /\ mine'[d] = mine[d]
  BY DEF IInv, Typed
<1>2. pc'[c] # "stale"
  BY DEF IInv, Typed
<1>3. Ends'
  BY <1>1, <1>2 DEF Ends
<1>4. EndIsShown' /\ RunningIsReal'
  BY DEF EndIsShown, RunningIsReal
<1> QED
  BY <1>3, <1>4

LEMMA TakeStaleKeepsStatus ==
  ASSUME IInv, StatusInv, NEW c \in Callers, TakeStale(c)
  PROVE  StatusInv'
<1> USE DEF StatusInv
<1>0. UNCHANGED <<running, error, result, ended, serve, monitor, generation>> /\ slot \in ended
  BY DEF TakeStale, Begins, status
<1>1. /\ \A d \in Callers \ {c} : pc'[d] = pc[d] /\ mine'[d] = mine[d]
      /\ pc'[c] = "stale" /\ mine'[c] = slot /\ pc[c] = "start"
  BY DEF TakeStale, Goes, IInv, Typed
<1>2. Ends' /\ EndIsShown'
  BY <1>0, <1>1 DEF Ends, EndIsShown
<1>3. RunningIsReal'
  <2>1. \A d \in Callers : pc[d] \in {"drain", "join"} => d # c /\ pc'[d] = pc[d]
    BY <1>1
  <2> QED
    BY <1>0, <2>1 DEF RunningIsReal
<1> QED
  BY <1>2, <1>3

LEMMA LaunchKeepsStatus ==
  ASSUME IInv, StatusInv, NEW c \in Callers, Launch(c)
  PROVE  StatusInv'
<1> USE DEF StatusInv
<1> DEFINE n == generation + 1
<1>0. n \in Generations /\ n > generation /\ generation' = n /\ UNCHANGED <<result, ended, mine>>
  BY DEF Launch, IInv, Typed
<1>1. /\ serve'[n] = "up" /\ monitor'[n] = "listening" /\ running' = TRUE
      /\ \A g \in Generations : g # n => serve'[g] = serve[g] /\ monitor'[g] = monitor[g]
  BY <1>0 DEF Launch, IInv, Typed
<1>2. pc' = [pc EXCEPT ![c] = "started"]
  BY DEF Launch, StartReturns, Goes
<1>3. \A d \in Callers : pc'[d] = "stale" => pc[d] = "stale"
  BY <1>2 DEF IInv, Typed
<1>4. result[n] = "none" /\ serve[n] = "none" /\ n \notin ended
  BY <1>0 DEF Ends, IInv, Phases
<1>5. \A g \in Generations : g > n => g > generation
  BY <1>0, GenerationsType DEF IInv, Typed
<1> HIDE DEF n
<1>6. Ends'
  BY <1>0, <1>1, <1>3, <1>4, <1>5 DEF Ends
<1>7. EndIsShown' /\ RunningIsReal'
  BY <1>0, <1>1, <1>4 DEF EndIsShown, RunningIsReal
<1> QED
  BY <1>6, <1>7

LEMMA ExitKeepsStatus ==
  ASSUME IInv, StatusInv, NEW c \in Callers, Exit(c)
  PROVE  StatusInv'
<1> USE DEF StatusInv
<1>0. /\ UNCHANGED <<generation, ended>> /\ running' = FALSE
      /\ result' = [g \in Generations |-> "none"] /\ pc' = [d \in Callers |-> "done"]
  BY DEF Exit
<1>1. /\ \A g \in Generations : serve[g] = "gone" => serve'[g] = "gone"
      /\ \A g \in Generations : monitor'[g] \notin {"locking", "draining"}
  BY DEF Exit
<1>3. Ends' /\ RunningIsReal'
  BY <1>0, <1>1 DEF Ends, RunningIsReal
<1>4. EndIsShown'
  BY <1>0 DEF EndIsShown, Ends
<1> QED
  BY <1>3, <1>4

-----------------------------------------------------------------------------
(* serve and the other tasks: who returns records it, and who is aborted   *)
(* before it returned is aborted by a stop.                                *)
LEMMA ReturnsKeepStatus ==
  ASSUME IInv, StatusInv, NEW g \in Generations, ServeReturns(g) \/ ServeFails(g)
  PROVE  StatusInv'
<1> USE DEF StatusInv
<1>0. /\ UNCHANGED <<generation, ended, monitor, pc, mine>> /\ running' = FALSE
      /\ serve[g] \in {"up", "closing"} /\ serve' = [serve EXCEPT ![g] = "recorded"]
  BY DEF ServeReturns, ServeFails, Returns, unserved, calls
<1>1. \/ result' = [result EXCEPT ![g] = "ok"] /\ error' = error
      \/ result' = [result EXCEPT ![g] = "err"] /\ error' = TRUE
  BY DEF ServeReturns, ServeFails, Returns
<1>2. ~(g > generation) /\ g \notin ended
  BY <1>0 DEF IInv, Phases, Ends
<1>3. Ends'
  <2>1. /\ result' \in [Generations -> {"none", "ok", "err"}]
        /\ \A h \in Generations : h # g => result'[h] = result[h] /\ serve'[h] = serve[h]
    BY <1>0, <1>1 DEF Ends, IInv, Typed
  <2> QED
    BY <1>0, <1>2, <2>1 DEF Ends
<1>4. EndIsShown'
  BY <1>0, <1>1 DEF EndIsShown, Ends
<1>5. RunningIsReal'
  BY <1>0 DEF RunningIsReal
<1> QED
  BY <1>3, <1>4, <1>5

LEMMA NobodyElseAborts ==
  ASSUME IInv, StatusInv, NEW g \in Generations, phase[g] = "draining", serve[g] \in {"up", "closing"}
  PROVE  \E c \in Callers : pc[c] = "drain"
<1> USE DEF StatusInv, IInv
<1>1. DrainedBy(g)
  BY GenerationsType DEF Owned, Alive, Serving, Phases
<1>2. g \notin ended
  BY DEF Ends
<1> QED
  BY <1>1, <1>2 DEF DrainedBy, Ends

LEMMA TasksKeepStatus ==
  ASSUME IInv, StatusInv, NEW g \in Generations,
         ListenerCloses(g) \/ ServeEnds(g) \/ RestEnds(g) \/ Abort(g) \/ Close(g)
  PROVE  StatusInv'
<1> USE DEF StatusInv
<1>0. UNCHANGED <<generation, result, monitor, pc, mine, running, error>>
  BY DEF ListenerCloses, ServeEnds, RestEnds, Abort, Close, unserved, status, calls
<1>1. \A h \in Generations : h # g => serve'[h] = serve[h]
  BY DEF ListenerCloses, ServeEnds, RestEnds, Abort, Close, Advances, IInv, Typed
<1>2. \/ ended' = ended /\ (serve[g] = "gone" => serve'[g] = "gone")
      \/ ended' = ended \cup {g} /\ serve'[g] = "gone"
  BY DEF ListenerCloses, ServeEnds, RestEnds, Abort, Close, Advances, IInv, Typed
<1>3. Ends' /\ EndIsShown'
  BY <1>0, <1>1, <1>2 DEF Ends, EndIsShown
<1>4. RunningIsReal'
  <2>1. CASE Abort(g)
    BY <1>0, <1>1, <2>1, NobodyElseAborts DEF RunningIsReal, Abort
  <2>2. CASE ~Abort(g)
    <3>1. serve[g] \in {"up", "closing"} => serve'[g] \in {"up", "closing"}
      BY <2>2 DEF ListenerCloses, ServeEnds, RestEnds, Close, Advances, IInv, Typed
    <3> QED
      BY <1>0, <1>1, <3>1 DEF RunningIsReal
  <2> QED
    BY <2>1, <2>2
<1> QED
  BY <1>3, <1>4

LEMMA MonitorsKeepStatus ==
  ASSUME IInv, StatusInv, NEW g \in Generations, Monitors(g)
  PROVE  StatusInv'
<1> USE DEF StatusInv
<1>0. UNCHANGED <<generation, serve, result, ended, pc, mine>>
  BY DEF Monitors, MonitorLeaves, MonitorHears, MonitorTakes, MonitorYields, MonitorDone,
         unmonitored, calls
<1>1. \/ UNCHANGED <<running, error>>
      \/ running' = FALSE /\ error' = TRUE
  BY DEF Monitors, MonitorLeaves, MonitorHears, MonitorTakes, MonitorYields, MonitorDone, status
<1>2. /\ \A h \in Generations : h # g => monitor'[h] = monitor[h]
      /\ monitor'[g] \in {"locking", "draining"} => g \in ended \/ monitor[g] = "locking"
  BY DEF Monitors, MonitorLeaves, MonitorHears, MonitorTakes, MonitorYields, MonitorDone, Turns,
         IInv, Typed
<1>3. Ends'
  BY <1>0, <1>2 DEF Ends
<1>4. EndIsShown' /\ RunningIsReal'
  BY <1>0, <1>1 DEF EndIsShown, RunningIsReal
<1> QED
  BY <1>3, <1>4

LEMMA NextStatus == IInv /\ StatusInv /\ [Next]_vars => StatusInv'
<1> SUFFICES ASSUME IInv, StatusInv, [Next]_vars PROVE StatusInv'
  OBVIOUS
<1>1. CASE Shell
  <2>1. CASE SetUp
    <3>1. Hushes(Launcher)
      BY <2>1 DEF SetUp, CallsStart, Goes, Hushes, status, runtimes, Words
    <3> QED
      BY <3>1, HushesKeep DEF Callers
  <2>2. CASE RecordError
    <3>1. Launcher \in Callers /\ pc' = [pc EXCEPT ![Launcher] = "done"] /\ running' = FALSE
          /\ error' = TRUE /\ mine' = mine /\ UNCHANGED <<result, ended, serve, monitor, generation>>
      BY <2>2 DEF RecordError, Goes, runtimes, Callers
    <3> QED
      BY <3>1, DenialsKeep DEF Words
  <2>3. ASSUME NEW c \in Callers, SetPort(c) \/ Save(c) \/ SaveFails(c) \/ RestartFailed(c)
                                  \/ Quit(c) \/ RequestStop(c)
        PROVE  StatusInv'
    BY <2>3, HushesAre, HushesKeep
  <2>4. ASSUME NEW c \in Callers, Exit(c) PROVE StatusInv'
    BY <2>4, ExitKeepsStatus
  <2> QED
    BY <1>1, <2>1, <2>2, <2>3, <2>4 DEF Shell
<1>2. ASSUME NEW c \in Callers, Starting(c) \/ Stopping(c) PROVE StatusInv'
  <2>1. CASE \/ AlreadyLive(c) \/ StaleDrained(c) \/ SlotEmpty(c) \/ LaunchFails(c)
             \/ TakeSlot(c) /\ slot # None
             \/ Drained(c)
    BY <2>1, HushesAre, HushesKeep
  <2>2. CASE TakeStale(c)
    BY <2>2, TakeStaleKeepsStatus
  <2>3. CASE Launch(c)
    BY <2>3, LaunchKeepsStatus
  <2>4. CASE TakeSlot(c) /\ slot = None
    <3>1. pc' = [pc EXCEPT ![c] = "stopped"] /\ mine' = [mine EXCEPT ![c] = slot]
          /\ running' = FALSE /\ error' = error /\ UNCHANGED <<result, ended, serve, monitor, generation>>
      BY <2>4 DEF TakeSlot, Goes, runtimes
    <3> QED
      BY <3>1, DenialsKeep DEF Words
  <2>5. CASE StopReturns(c)
    <3>1. pc' = [pc EXCEPT ![c] = "stopped"] /\ mine' = mine
          /\ running' = FALSE /\ error' = error /\ UNCHANGED <<result, ended, serve, monitor, generation>>
      BY <2>5 DEF StopReturns, Goes, runtimes
    <3> QED
      BY <3>1, DenialsKeep DEF Words
  <2> QED
    BY <1>2, <2>1, <2>2, <2>3, <2>4, <2>5 DEF Starting, Stopping
<1>3. ASSUME NEW g \in Generations, Serves(g) \/ RestEnds(g) \/ Draining(g) PROVE StatusInv'
  BY <1>3, ReturnsKeepStatus, TasksKeepStatus DEF Serves, Draining
<1>4. ASSUME NEW g \in Generations, Monitors(g) PROVE StatusInv'
  BY <1>4, MonitorsKeepStatus
<1>5. CASE UNCHANGED vars
  BY <1>5 DEF vars, runtimes, calls, status, StatusInv, Ends, EndIsShown, RunningIsReal
<1> QED
  BY <1>1, <1>2, <1>3, <1>4, <1>5 DEF Next

LEMMA SpecStatus == Spec => []StatusInv
BY InitStatus, NextStatus, SpecIInv, PTL DEF Spec

(* The launcher says "running" only while a gateway serves or a stop is on *)
(* its way that will say otherwise: an abort under a shown "running" is    *)
(* some stop's, for the other two that drain come after the end.           *)
THEOREM RunningIsNeverALie == Spec => []RunningIsReal
<1>1. StatusInv => RunningIsReal
  BY DEF StatusInv
<1> QED
  BY <1>1, SpecStatus, PTL

(* The end of the newest gateway's serve shows, and its error, until the   *)
(* next one starts, whatever older generations and calls still write.      *)
THEOREM EndsAreShown == Spec => []EndIsShown
<1>1. StatusInv => EndIsShown
  BY DEF StatusInv
<1> QED
  BY <1>1, SpecStatus, PTL
=============================================================================
