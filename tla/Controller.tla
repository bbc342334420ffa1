----------------------------- MODULE Controller -----------------------------
(***************************************************************************)
(* ServerController (controller.rs) and the desktop shell that calls it    *)
(* (lib.rs): launch, port change and quit as tasks of their own, the slot  *)
(* that holds the running gateway, and, per generation, the serve task,    *)
(* the other background tasks and the monitor.  A generation's supervisor  *)
(* is the DrainedSet that module Supervisor implements.                    *)
(***************************************************************************)
EXTENDS Integers, FiniteSets, FairMutex

CONSTANTS
  Launcher,         \* the start() of the application's set-up
  Setters,          \* the calls of the set_port command
  Quitters,         \* the choices of "quit" in the tray menu
  Ports,
  Generations       \* 1..n: each call of start makes at most one

None == 0

ASSUME GenerationsAssumption == Generations = 1..(1 + Cardinality(Setters))
ASSUME CallersAssumption ==
  /\ Launcher \notin Setters \cup Quitters /\ Setters \cap Quitters = {}
  /\ ({Launcher} \cup Setters \cup Quitters) \cap Generations = {}

VARIABLES
  lock,       \* the lock of the slot
  slot,       \* the generation in the slot, or None
  running,    \* RuntimeStatus.running
  error,      \* whether RuntimeStatus.error is set
  config,     \* AppConfig.port in memory
  generation, \* the counter
  port,       \* port[g]: the port generation g is bound to
  serve,      \* serve[g]: how far the serve task is
  rest,       \* rest[g]: whether g's other background tasks are alive
  phase,      \* phase[g]: its supervisor: "open", "draining", "closed"
  cancelled,  \* the generations whose token is cancelled
  ended,      \* the generations whose serve_ended is set
  result,     \* result[g]: what serve returned, which ServeEnds sends to the monitor
  monitor,    \* monitor[g]: how far the monitor is
  pc,         \* pc[c]: where caller c is
  mine,       \* mine[c]: the generation caller c has taken from the slot
  wish        \* wish[c]: the port set_port asks for

status == <<running, error>>
runtimes == <<generation, port, serve, rest, phase, cancelled, ended, result, monitor>>
calls == <<pc, mine, wish>>
vars == <<lock, slot, status, config, runtimes, calls>>

Callers == {Launcher} \cup Setters \cup Quitters
Serving == {"up", "closing", "recorded"}

Tasks == {"serve", "rest"}
Live(g) == {t \in Tasks : IF t = "serve" THEN serve[g] \in Serving ELSE rest[g]}

TypeOK ==
  /\ lock \in Seq(Callers \cup Generations)
  /\ slot \in Generations \cup {None} /\ generation \in Generations \cup {None}
  /\ running \in BOOLEAN /\ error \in BOOLEAN /\ config \in Ports
  /\ port \in [Generations -> Ports]
  /\ serve \in [Generations -> Serving \cup {"none", "gone"}]
  /\ rest \in [Generations -> BOOLEAN]
  /\ phase \in [Generations -> {"open", "draining", "closed"}]
  /\ cancelled \subseteq Generations /\ ended \subseteq Generations
  /\ result \in [Generations -> {"none", "ok", "err"}]
  /\ monitor \in [Generations -> {"none", "listening", "locking", "draining", "gone"}]
  /\ pc \in [Callers -> {"idle", "start", "started", "stale", "build", "startFailed",
                         "stop", "drain", "join", "stopped", "exit", "done"}]
  /\ mine \in [Callers -> Generations \cup {None}]
  /\ wish \in [Callers -> Ports]
  /\ \A g \in Generations : serve[g] = "none" <=> g > generation

Init ==
  /\ lock = <<>> /\ slot = None /\ generation = None
  /\ running = FALSE /\ error = FALSE
  /\ config \in Ports
  /\ port = [g \in Generations |-> config]
  /\ serve = [g \in Generations |-> "none"]
  /\ rest = [g \in Generations |-> FALSE]
  /\ phase = [g \in Generations |-> "open"]
  /\ cancelled = {} /\ ended = {}
  /\ result = [g \in Generations |-> "none"]
  /\ monitor = [g \in Generations |-> "none"]
  /\ pc = [c \in Callers |-> "idle"]
  /\ mine = [c \in Callers |-> None]
  /\ wish = [c \in Callers |-> config]

-----------------------------------------------------------------------------
Goes(c, from, to) == pc[c] = from /\ pc' = [pc EXCEPT ![c] = to]

(* start: the lock is asked for, and kept until the call returns.          *)
CallsStart(c, from) ==
  /\ Goes(c, from, "start") /\ lock' = Asks(lock, c)

StartReturns(c, next) ==
  /\ Goes(c, pc[c], next) /\ lock' = Releases(lock, c)

(* A slot whose serve has not ended is taken for a live gateway; any other *)
(* is emptied and drained first.                                           *)
AlreadyLive(c) ==
  /\ pc[c] = "start" /\ Holds(lock, c)
  /\ slot # None /\ slot \notin ended
  /\ StartReturns(c, "started")
  /\ UNCHANGED <<slot, status, config, runtimes, mine, wish>>

Begins(g) ==
  /\ phase' = [phase EXCEPT ![g] = "draining"]
  /\ cancelled' = cancelled \cup {g}
  /\ UNCHANGED <<generation, port, serve, rest, ended, result, monitor>>

TakeStale(c) ==
  /\ Holds(lock, c) /\ slot \in ended
  /\ Goes(c, "start", "stale")
  /\ mine' = [mine EXCEPT ![c] = slot] /\ slot' = None
  /\ Begins(slot)
  /\ UNCHANGED <<lock, status, config, wish>>

StaleDrained(c) ==
  /\ Goes(c, "stale", "build") /\ phase[mine[c]] = "closed"
  /\ mine' = [mine EXCEPT ![c] = None]
  /\ UNCHANGED <<lock, slot, status, config, runtimes, wish>>

(* Mutant: the lock is released once the slot has been looked at.          *)
SlotEmptyUnlocked(c) ==
  /\ Goes(c, "start", "build") /\ Holds(lock, c) /\ slot = None
  /\ lock' = Releases(lock, c)
  /\ UNCHANGED <<slot, status, config, runtimes, mine, wish>>

SlotEmpty(c) ==
  /\ Goes(c, "start", "build") /\ Holds(lock, c) /\ slot = None
  /\ UNCHANGED <<lock, slot, status, config, runtimes, mine, wish>>

(* The configuration is read, the gateway built and bound, its tasks       *)
(* spawned, the slot filled and the lock released, in one step: whatever   *)
(* another call or task does between two of these commutes with one.       *)
PortTaken(p) == \E g \in Generations : serve[g] = "up" /\ port[g] = p

Launch(c) ==
  /\ pc[c] = "build" /\ ~PortTaken(config) /\ generation + 1 \in Generations
  /\ generation' = generation + 1 /\ slot' = generation'
  /\ port' = [port EXCEPT ![generation'] = config]
  /\ serve' = [serve EXCEPT ![generation'] = "up"]
  /\ rest' = [rest EXCEPT ![generation'] = TRUE]
  /\ monitor' = [monitor EXCEPT ![generation'] = "listening"]
  /\ running' = TRUE /\ error' = FALSE
  /\ StartReturns(c, "started")
  /\ UNCHANGED <<config, phase, cancelled, ended, result, mine, wish>>

(* The database, the key or the listener may fail.                         *)
LaunchFails(c) ==
  /\ pc[c] = "build"
  /\ StartReturns(c, "startFailed")
  /\ UNCHANGED <<slot, status, config, runtimes, mine, wish>>

Starting(c) == AlreadyLive(c) \/ TakeStale(c) \/ StaleDrained(c) \/ SlotEmpty(c)
               \/ Launch(c) \/ LaunchFails(c)

-----------------------------------------------------------------------------
(* stop: the slot is taken and the lock released at once; the drain, the   *)
(* join of the monitor and the last write of the status come after.        *)
CallsStop(c, from) ==
  /\ Goes(c, from, "stop") /\ lock' = Asks(lock, c)

(* Mutant: stop leaves the generation in the slot.                         *)
TakeSlotKept(c) ==
  /\ Holds(lock, c)
  /\ Goes(c, "stop", IF slot = None THEN "stopped" ELSE "drain")
  /\ lock' = Releases(lock, c) /\ UNCHANGED slot
  /\ mine' = [mine EXCEPT ![c] = slot]
  /\ IF slot = None
     THEN running' = FALSE /\ UNCHANGED runtimes
     ELSE Begins(slot) /\ UNCHANGED running
  /\ UNCHANGED <<error, config, wish>>

TakeSlot(c) ==
  /\ Holds(lock, c)
  /\ Goes(c, "stop", IF slot = None THEN "stopped" ELSE "drain")
  /\ lock' = Releases(lock, c) /\ slot' = None
  /\ mine' = [mine EXCEPT ![c] = slot]
  /\ IF slot = None
     THEN running' = FALSE /\ UNCHANGED runtimes
     ELSE Begins(slot) /\ UNCHANGED running
  /\ UNCHANGED <<error, config, wish>>

Drained(c) ==
  /\ Goes(c, "drain", "join") /\ phase[mine[c]] = "closed"
  /\ UNCHANGED <<lock, slot, status, config, runtimes, mine, wish>>

(* Mutant: stop leaves the status to the serve task, which may have been   *)
(* aborted.                                                                *)
StopReturnsQuietly(c) ==
  /\ Goes(c, "join", "stopped")
  /\ UNCHANGED <<lock, slot, status, config, runtimes, mine, wish>>

(* The monitor is joined, or the five seconds are over.                    *)
StopReturns(c) ==
  /\ Goes(c, "join", "stopped")
  /\ running' = FALSE
  /\ UNCHANGED <<lock, slot, error, config, runtimes, mine, wish>>

Stopping(c) == TakeSlot(c) \/ Drained(c) \/ StopReturns(c)

-----------------------------------------------------------------------------
(* lib.rs: set-up starts the gateway in a task of its own.                 *)
SetUp ==
  /\ CallsStart(Launcher, "idle")
  /\ UNCHANGED <<slot, status, config, runtimes, mine, wish>>

RecordError ==
  /\ Goes(Launcher, "startFailed", "done")
  /\ running' = FALSE /\ error' = TRUE
  /\ UNCHANGED <<lock, slot, config, runtimes, mine, wish>>

(* set_port: stop, save, start.                                            *)
SetPort(c) ==
  /\ c \in Setters /\ CallsStop(c, "idle")
  /\ \E p \in Ports : wish' = [wish EXCEPT ![c] = p]
  /\ UNCHANGED <<slot, status, config, runtimes, mine>>

Save(c) ==
  /\ c \in Setters /\ CallsStart(c, "stopped")
  /\ config' = wish[c] /\ mine' = [mine EXCEPT ![c] = None]
  /\ UNCHANGED <<slot, status, runtimes, wish>>

(* The file cannot be written: the port is changed in memory all the same, *)
(* and the gateway stays down.                                             *)
SaveFails(c) ==
  /\ c \in Setters /\ Goes(c, "stopped", "done")
  /\ config' = wish[c] /\ mine' = [mine EXCEPT ![c] = None]
  /\ UNCHANGED <<lock, slot, status, runtimes, wish>>

RestartFailed(c) ==
  /\ c \in Setters /\ Goes(c, "startFailed", "done")
  /\ error' = TRUE
  /\ UNCHANGED <<lock, slot, running, config, runtimes, mine, wish>>

(* The tray's "quit": stop, then exit, where the slot's token is cancelled *)
(* if the lock is free.                                                    *)
Quit(c) ==
  /\ c \in Quitters /\ CallsStop(c, "idle")
  /\ UNCHANGED <<slot, status, config, runtimes, mine, wish>>

RequestStop(c) ==
  /\ c \in Quitters /\ Goes(c, "stopped", "exit")
  /\ mine' = [mine EXCEPT ![c] = None]
  /\ cancelled' = cancelled \cup IF lock = <<>> THEN {slot} \ {None} ELSE {}
  /\ UNCHANGED <<lock, slot, status, config, generation, port, serve, rest, phase, ended,
                 result, monitor, wish>>

(* The process is gone: every call, task and monitor with it.              *)
Exit(c) ==
  /\ pc[c] = "exit"
  /\ pc' = [d \in Callers |-> "done"] /\ lock' = <<>> /\ slot' = None
  /\ running' = FALSE /\ error' = FALSE
  /\ serve' = [g \in Generations |-> IF serve[g] = "none" THEN "none" ELSE "gone"]
  /\ rest' = [g \in Generations |-> FALSE]
  /\ result' = [g \in Generations |-> "none"]
  /\ monitor' = [g \in Generations |-> IF monitor[g] = "none" THEN "none" ELSE "gone"]
  /\ UNCHANGED <<config, generation, port, phase, cancelled, ended, mine, wish>>

Shell == SetUp \/ RecordError \/ \E c \in Callers :
  SetPort(c) \/ Save(c) \/ SaveFails(c) \/ RestartFailed(c) \/ Quit(c) \/ RequestStop(c) \/ Exit(c)

-----------------------------------------------------------------------------
(* serve: the listener closes when the token is cancelled, the connections *)
(* finish; or it fails.  Then the status, the flag and the message.        *)
Advances(g, from, to) == serve[g] = from /\ serve' = [serve EXCEPT ![g] = to]
unserved == <<generation, port, rest, phase, cancelled, monitor>>

ListenerCloses(g) ==
  /\ g \in cancelled /\ Advances(g, "up", "closing")
  /\ UNCHANGED <<lock, slot, status, config, unserved, ended, result, calls>>

Returns(g, outcome) ==
  /\ serve' = [serve EXCEPT ![g] = "recorded"]
  /\ result' = [result EXCEPT ![g] = outcome]
  /\ running' = FALSE
  /\ UNCHANGED <<lock, slot, config, unserved, ended, calls>>

ServeReturns(g) == serve[g] = "closing" /\ Returns(g, "ok") /\ UNCHANGED error

(* Mutant: the error is left to the monitor to show.                       *)
ServeFailsQuietly(g) == serve[g] \in {"up", "closing"} /\ Returns(g, "err") /\ UNCHANGED error

ServeFails(g) == serve[g] \in {"up", "closing"} /\ Returns(g, "err") /\ error' = TRUE

ServeEnds(g) ==
  /\ Advances(g, "recorded", "gone")
  /\ ended' = ended \cup {g}
  /\ UNCHANGED <<lock, slot, status, config, unserved, result, calls>>

(* The health and maintenance loops, the writer and the reaper return once *)
(* cancelled; Supervisor says how, and how those that do not are aborted.  *)
RestEnds(g) ==
  /\ g \in cancelled /\ rest[g]
  /\ rest' = [rest EXCEPT ![g] = FALSE]
  /\ UNCHANGED <<lock, slot, status, config, generation, port, serve, phase, cancelled, ended,
                 result, monitor, calls>>

Abort(g) ==
  /\ phase[g] = "draining" /\ Live(g) # {}
  /\ rest' = [rest EXCEPT ![g] = FALSE] /\ serve' = [serve EXCEPT ![g] = "gone"]
  /\ UNCHANGED <<lock, slot, status, config, generation, port, phase, cancelled, ended,
                 result, monitor, calls>>

Close(g) ==
  /\ phase[g] = "draining" /\ Live(g) = {}
  /\ phase' = [phase EXCEPT ![g] = "closed"]
  /\ UNCHANGED <<lock, slot, status, config, generation, port, serve, rest, cancelled, ended,
                 result, monitor, calls>>

Serves(g) == ListenerCloses(g) \/ ServeReturns(g) \/ ServeFails(g) \/ ServeEnds(g)
Draining(g) == Abort(g) \/ Close(g)

-----------------------------------------------------------------------------
(* The monitor waits for the message of its generation's serve.            *)
Turns(g, from, to) == monitor[g] = from /\ monitor' = [monitor EXCEPT ![g] = to]
unmonitored == <<generation, port, serve, rest, ended, result>>

(* Nothing to do after a graceful end, nor when both senders are gone:     *)
(* serve aborted, and the stop or the start that took the slot is over.    *)
SenderHeld(g) == slot = g \/ \E c \in Callers : mine[c] = g /\ pc[c] \in {"drain", "join", "stale"}

MonitorLeaves(g) ==
  /\ Turns(g, "listening", "gone")
  /\ \/ g \in ended /\ result[g] = "ok"
     \/ serve[g] = "gone" /\ g \notin ended /\ ~SenderHeld(g)
  /\ UNCHANGED <<lock, slot, status, config, unmonitored, phase, cancelled, calls>>

(* Mutant: the monitor returns whatever the message is.                    *)
MonitorDeaf(g) ==
  /\ Turns(g, "listening", "gone") /\ g \in ended /\ result[g] = "err"
  /\ UNCHANGED <<lock, slot, status, config, unmonitored, phase, cancelled, calls>>

MonitorHears(g) ==
  /\ Turns(g, "listening", "locking") /\ g \in ended /\ result[g] = "err"
  /\ lock' = Asks(lock, g)
  /\ UNCHANGED <<slot, status, config, unmonitored, phase, cancelled, calls>>

(* Mutant: the drain begins under the lock, which the monitor keeps.       *)
MonitorTakesHolding(g) ==
  /\ Holds(lock, g) /\ UNCHANGED lock /\ slot = g
  /\ Turns(g, "locking", "draining")
  /\ slot' = None /\ running' = FALSE /\ error' = TRUE
  /\ phase' = [phase EXCEPT ![g] = "draining"] /\ cancelled' = cancelled \cup {g}
  /\ UNCHANGED <<config, unmonitored, calls>>

(* It takes the slot only if it still holds its own generation.            *)
MonitorTakes(g) ==
  /\ Holds(lock, g) /\ lock' = Releases(lock, g) /\ slot = g
  /\ Turns(g, "locking", "draining")
  /\ slot' = None /\ running' = FALSE /\ error' = TRUE
  /\ phase' = [phase EXCEPT ![g] = "draining"] /\ cancelled' = cancelled \cup {g}
  /\ UNCHANGED <<config, unmonitored, calls>>

MonitorYields(g) ==
  /\ Holds(lock, g) /\ lock' = Releases(lock, g) /\ slot # g
  /\ Turns(g, "locking", "gone")
  /\ UNCHANGED <<slot, status, config, unmonitored, phase, cancelled, calls>>

MonitorDone(g) ==
  /\ Turns(g, "draining", "gone") /\ phase[g] = "closed"
  /\ UNCHANGED <<lock, slot, status, config, unmonitored, phase, cancelled, calls>>

Monitors(g) == MonitorLeaves(g) \/ MonitorHears(g) \/ MonitorTakes(g) \/ MonitorYields(g) \/ MonitorDone(g)

-----------------------------------------------------------------------------
Next ==
  \/ Shell
  \/ \E c \in Callers : Starting(c) \/ Stopping(c)
  \/ \E g \in Generations : Serves(g) \/ RestEnds(g) \/ Draining(g) \/ Monitors(g)

Spec == Init /\ [][Next]_vars

(* Every call is scheduled, tasks of a draining supervisor are joined or   *)
(* aborted in the end, and a serve that returned finishes its bookkeeping. *)
(* No gateway need ever end by itself, and nobody need quit.               *)
FairSpec ==
  /\ Spec /\ WF_vars(RecordError)
  /\ \A c \in Callers :
       /\ WF_vars(Starting(c)) /\ WF_vars(Stopping(c)) /\ WF_vars(RestartFailed(c))
       /\ WF_vars(Save(c) \/ SaveFails(c)) /\ WF_vars(RequestStop(c)) /\ WF_vars(Exit(c))
  /\ \A g \in Generations : WF_vars(Draining(g)) /\ WF_vars(ServeEnds(g)) /\ WF_vars(Monitors(g))

-----------------------------------------------------------------------------
(* A generation with a live task is in the slot, where the next stop finds *)
(* it, or somebody is draining it and waits for that: no runtime is left   *)
(* running with nobody who can stop it (controller.rs:5-6, 101-104).       *)
DrainedBy(g) ==
  phase[g] = "draining" /\ (monitor[g] = "draining" \/ \E c \in Callers : mine[c] = g /\ pc[c] \in {"drain", "stale"})
NoOrphan == \A g \in Generations : Live(g) # {} => slot = g \/ DrainedBy(g)

(* The launcher says "running" only while a gateway takes requests or a    *)
(* stop is on its way that will say otherwise (controller.rs:191-193).     *)
RunningIsReal == running =>
  \/ \E g \in Generations : serve[g] \in {"up", "closing"}
  \/ \E c \in Callers : pc[c] \in {"drain", "join"}

(* Once the newest gateway's serve has returned the launcher does not say  *)
(* "running", and shows the error if it failed, until the next one starts  *)
(* (controller.rs:191-198).                                                *)
EndIsShown == generation # None /\ result[generation] # "none" =>
  ~running /\ (result[generation] = "err" => error)

(* Each generation's supervisor is used the way it may be: drained at most *)
(* once, and given no task after that (supervisor.rs:147-153).             *)
Runtime(g) == INSTANCE DrainedSet WITH live <- Live(g), phase <- phase[g]
DrainsOnce ==
  /\ \A g \in Generations : Runtime(g)!Init
  /\ [][\A g \in Generations : Runtime(g)!Next \/ UNCHANGED <<Live(g), phase[g]>>]_vars

(* A gateway that failed leaves the slot (controller.rs:167-170).          *)
DeadLeavesSlot == \A g \in Generations :
  (slot = g /\ result[g] = "err") ~> slot # g

(* Whatever the calls do to one another, each returns                      *)
(* (controller.rs:6, 222-223).                                             *)
CallsReturn == \A c \in Callers : pc[c] # "idle" ~> pc[c] \in {"started", "done"}


=============================================================================
