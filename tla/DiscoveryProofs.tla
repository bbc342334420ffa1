--------------------------- MODULE DiscoveryProofs ---------------------------
(* Proofs about Discovery and the tables of Catalog, for any protocols,    *)
(* models, calls, runs and restarts.                                       *)
EXTENDS Discovery, TLAPS

Row == [source : {"none", "discovered", "manual"}, available : BOOLEAN, bound : SUBSET Protocols]
Run == [at : {"none", "queued", "asking", "failing", "ended"}, by : {"hand", "schedule"},
        row : {"none", "open", "succeeded", "failed", "deleted"}, ps : SUBSET Protocols]

Tables ==
  /\ chan \in [there : BOOLEAN, kind : {"ordinary", CC}, protocols : SUBSET Protocols]
  /\ model \in [Models -> Row]
  /\ routes \subseteq Protocols
  /\ cand \subseteq [protocol : Protocols, model : Models]
  /\ caller \in [Callers -> [at : {"idle", "model", "route", "candidates", "delete"},
                             ps : SUBSET Protocols, ms : SUBSET Models]]

(* The model of a candidate is there, and so are those that a call has     *)
(* found fit to be one.                                                    *)
Rows ==
  /\ \A c \in cand : There(c.model)
  /\ \A u \in Callers : caller[u].at = "candidates" => \A m \in caller[u].ms : There(m)

TablesInv == Tables /\ Rows

(* A scheduled run that is under way is the one the entry names, and its   *)
(* row is not finished.                                                    *)
Entries ==
  \A r \in Runs : Active(r) /\ run[r].by = "schedule" =>
    discovering = r /\ run[r].row \in {"open", "deleted"}

RunInv == run \in [Runs -> Run] /\ discovering \in {0} \cup Runs /\ Entries

IInv == TablesInv /\ RunInv

LEMMA InitIInv == Init => IInv
<1> SUFFICES ASSUME Init PROVE IInv
  OBVIOUS
<1>1. Tables
  BY DEF Init, CatalogInit, Tables, Row, NoRow, NoCall
<1>2. Rows
  BY DEF Init, CatalogInit, Rows, NoCall
<1>3. RunInv
  BY DEF Init, RunInv, Run, NoRun, Entries, Active
<1> QED
  BY <1>1, <1>2, <1>3 DEF IInv, TablesInv

-----------------------------------------------------------------------------
(* The tables, one operation at a time.                                    *)
LEMMA BindingsType ==
  ASSUME NEW ps \in SUBSET Protocols PROVE Bindings(ps) \in SUBSET Protocols
BY DEF Bindings, Protocols

(* What an operation may do to the models and to what refers to them.      *)
LEMMA SameRows ==
  ASSUME TablesInv, Tables', \A m \in Models : There(m) => There(m)',
         cand' \subseteq cand,
         \A u \in Callers : caller'[u].at = "candidates" =>
           caller[u].at = "candidates" /\ caller'[u].ms \subseteq caller[u].ms
  PROVE  TablesInv'
BY DEF TablesInv, Rows, Tables

LEMMA ChannelKeeps ==
  ASSUME TablesInv, NEW ps \in SUBSET Protocols,
         UpdateChannel(ps) \/ DeleteChannel
  PROVE  TablesInv'
<1>1. CASE UpdateChannel(ps)
  <2>1. /\ chan' = [chan EXCEPT !.protocols = ps] /\ UNCHANGED <<routes, cand, caller>>
        /\ model' = [m \in Models |-> IF There(m) THEN [model[m] EXCEPT !.bound = Bindings(ps)] ELSE NoRow]
    BY <1>1 DEF UpdateChannel
  <2>2. \A m \in Models : [model[m] EXCEPT !.bound = Bindings(ps)] \in Row
                       /\ [model[m] EXCEPT !.bound = Bindings(ps)].source = model[m].source
    BY BindingsType DEF TablesInv, Tables, Row
  <2>3. model' \in [Models -> Row]
    BY <2>1, <2>2 DEF NoRow, Row
  <2>4. chan' \in [there : BOOLEAN, kind : {"ordinary", CC}, protocols : SUBSET Protocols]
    BY <2>1 DEF TablesInv, Tables
  <2>5. \A m \in Models : There(m) => There(m)'
    BY <2>1, <2>2 DEF There
  <2>6. Tables'
    BY <2>1, <2>3, <2>4 DEF TablesInv, Tables
  <2> QED
    BY <2>1, <2>5, <2>6, SameRows
<1>2. CASE DeleteChannel
  <2>1. /\ chan' = [chan EXCEPT !.there = FALSE, !.protocols = {}] /\ routes' = routes
        /\ cand' = {} /\ model' = [m \in Models |-> NoRow]
        /\ caller' = [u \in Callers |-> [caller[u] EXCEPT !.ms = {}]]
    BY <1>2 DEF DeleteChannel
  <2>2. chan' \in [there : BOOLEAN, kind : {"ordinary", CC}, protocols : SUBSET Protocols]
    BY <2>1 DEF TablesInv, Tables
  <2>3. \A u \in Callers : caller'[u] \in [at : {"idle", "model", "route", "candidates", "delete"},
                                           ps : SUBSET Protocols, ms : SUBSET Models]
                        /\ caller'[u].ms = {}
    BY <2>1 DEF TablesInv, Tables
  <2>4. Tables'
    BY <2>1, <2>2, <2>3 DEF TablesInv, Tables, NoRow, Row
  <2> QED
    BY <2>1, <2>3, <2>4 DEF TablesInv, Rows
<1> QED
  BY <1>1, <1>2

LEMMA CallKeeps ==
  ASSUME TablesInv, NEW u \in Callers, CreateManualModel(u) \/ DeleteModel(u)
  PROVE  TablesInv'
<1>0. caller[u].ps \in SUBSET Protocols
  BY DEF TablesInv, Tables
<1>1. CASE CreateManualModel(u)
  <2>1. /\ UNCHANGED <<chan, routes, cand>> /\ caller' = [caller EXCEPT ![u] = NoCall]
        /\ \/ model' = model
           \/ model' = [n \in Models |-> IF n \in caller[u].ms
                THEN [source |-> "manual", available |-> TRUE, bound |-> caller[u].ps] ELSE model[n]]
    BY <1>1 DEF CreateManualModel, Answered
  <2>2. model' \in [Models -> Row] /\ \A n \in Models : There(n) => There(n)'
    <3>1. CASE model' = model
      BY <3>1 DEF TablesInv, Tables, There
    <3>2. CASE model' # model
      <4> DEFINE row == [source |-> "manual", available |-> TRUE, bound |-> caller[u].ps]
      <4>1. model' = [n \in Models |-> IF n \in caller[u].ms THEN row ELSE model[n]]
        BY <2>1, <3>2
      <4>2. row \in Row /\ row.source # "none"
        BY <1>0 DEF Row
      <4> HIDE DEF row
      <4> QED
        BY <4>1, <4>2 DEF TablesInv, Tables, There
    <3> QED
      BY <3>1, <3>2
  <2>3. Tables'
    BY <2>1, <2>2 DEF TablesInv, Tables, NoCall
  <2>4. \A v \in Callers : caller'[v] = NoCall \/ caller'[v] = caller[v]
    BY <2>1 DEF TablesInv, Tables
  <2> QED
    BY <2>1, <2>2, <2>3, <2>4, SameRows DEF NoCall
<1>2. CASE DeleteModel(u)
  <2> DEFINE gone == {n \in caller[u].ms : model[n].source = "manual" /\ UsedBy(n) = {}}
  <2>1. /\ UNCHANGED <<chan, routes, cand>>
        /\ model' = [n \in Models |-> IF n \in gone THEN NoRow ELSE model[n]]
        /\ caller' = [v \in Callers |-> IF v = u THEN NoCall
             ELSE IF caller[v].at = "model" THEN caller[v]
             ELSE [caller[v] EXCEPT !.ms = @ \ gone]]
    BY <1>2 DEF DeleteModel
  <2>2. \A c \in cand : c.model \notin gone
    BY DEF UsedBy
  <2> HIDE DEF gone
  <2>3. model' \in [Models -> Row] /\ \A n \in Models \ gone : There(n) => There(n)'
    BY <2>1 DEF TablesInv, Tables, Row, NoRow, There
  <2>4. \A v \in Callers :
          /\ caller'[v] \in [at : {"idle", "model", "route", "candidates", "delete"},
                             ps : SUBSET Protocols, ms : SUBSET Models]
          /\ caller'[v].at = "candidates" =>
               caller[v].at = "candidates" /\ caller'[v].ms = caller[v].ms \ gone
    BY <2>1 DEF TablesInv, Tables, NoCall
  <2>5. Tables'
    BY <2>1, <2>3, <2>4 DEF TablesInv, Tables
  <2>6. \A c \in cand' : There(c.model)'
    BY <2>1, <2>2, <2>3 DEF TablesInv, Tables, Rows
  <2>7. \A v \in Callers : caller'[v].at = "candidates" => \A n \in caller'[v].ms : There(n)'
    BY <2>3, <2>4 DEF TablesInv, Tables, Rows
  <2> QED
    BY <2>5, <2>6, <2>7 DEF TablesInv, Rows
<1> QED
  BY <1>1, <1>2

(* A call asks and is told.                                                *)
LEMMA Asking ==
  ASSUME TablesInv, NEW u \in Callers, NEW what \in {"model", "route", "candidates", "delete"},
         NEW ps \in SUBSET Protocols, NEW ms \in SUBSET Models,
         Asks(u, what, ps, ms), UNCHANGED tables,
         what = "candidates" => \A m \in ms : There(m)
  PROVE  TablesInv'
<1>1. /\ UNCHANGED <<chan, model, routes, cand>>
      /\ caller' = [caller EXCEPT ![u] = [at |-> what, ps |-> ps, ms |-> ms]]
  BY DEF Asks, tables
<1>2. Tables'
  BY <1>1 DEF TablesInv, Tables
<1>3. \A c \in cand' : There(c.model)'
  BY <1>1 DEF TablesInv, Rows, There
<1>4. \A v \in Callers : caller'[v].at = "candidates" => \A m \in caller'[v].ms : There(m)'
  <2> SUFFICES ASSUME NEW v \in Callers, caller'[v].at = "candidates", NEW m \in caller'[v].ms
               PROVE  There(m)'
    OBVIOUS
  <2>1. CASE v = u
    BY <1>1, <2>1 DEF TablesInv, Tables, There
  <2>2. CASE v # u
    BY <1>1, <2>2 DEF TablesInv, Tables, Rows, There
  <2> QED
    BY <2>1, <2>2
<1> QED
  BY <1>2, <1>3, <1>4 DEF TablesInv, Rows

LEMMA AskingKeeps ==
  ASSUME TablesInv, NEW u \in Callers, NEW ps \in SUBSET Protocols,
         \/ \E m \in Models : AskManualModel(u, m, ps) \/ AskDeleteModel(u, m)
         \/ AskRoute(u, ps)
         \/ \E ms \in SUBSET Models : AskCandidates(u, ms)
  PROVE  TablesInv'
<1>1. ASSUME NEW m \in Models, AskManualModel(u, m, ps) PROVE TablesInv'
  BY <1>1, BindingsType, Asking DEF AskManualModel
<1>2. ASSUME NEW m \in Models, AskDeleteModel(u, m) PROVE TablesInv'
  BY <1>2, Asking DEF AskDeleteModel
<1>3. CASE AskRoute(u, ps)
  BY <1>3, Asking DEF AskRoute
<1>4. ASSUME NEW ms \in SUBSET Models, AskCandidates(u, ms) PROVE TablesInv'
  <2>1. routes \in SUBSET Protocols
    BY DEF TablesInv, Tables
  <2> QED
    BY <1>4, <2>1, Asking DEF AskCandidates
<1> QED
  BY <1>1, <1>2, <1>3, <1>4

LEMMA RouteKeeps ==
  ASSUME TablesInv, NEW u \in Callers,
         CreateRoute(u) \/ ReplaceCandidates(u)
  PROVE  TablesInv'
<1>0. caller[u].ps \in SUBSET Protocols /\ caller[u].ms \in SUBSET Models
  BY DEF TablesInv, Tables
<1>1. CASE CreateRoute(u)
  <2>1. /\ UNCHANGED <<chan, model, cand>> /\ caller' = [caller EXCEPT ![u] = NoCall]
        /\ routes' \subseteq routes \cup caller[u].ps
    BY <1>1 DEF CreateRoute, Answered
  <2>2. Tables'
    BY <2>1, <1>0 DEF TablesInv, Tables, NoCall
  <2>3. \A v \in Callers : caller'[v] = NoCall \/ caller'[v] = caller[v]
    BY <2>1 DEF TablesInv, Tables
  <2> QED
    BY <2>1, <2>2, <2>3, SameRows DEF NoCall, There
<1>2. CASE ReplaceCandidates(u)
  <2>1. /\ UNCHANGED <<chan, model, routes>> /\ caller' = [caller EXCEPT ![u] = NoCall]
        /\ cand' \subseteq cand \cup [protocol : caller[u].ps, model : caller[u].ms]
        /\ caller[u].at = "candidates"
    BY <1>2 DEF ReplaceCandidates, Answered
  <2>2. Tables'
    BY <2>1, <1>0 DEF TablesInv, Tables, NoCall
  <2>3. \A c \in cand' : There(c.model)'
    <3>1. \A c \in [protocol : caller[u].ps, model : caller[u].ms] : There(c.model)
      BY <2>1 DEF TablesInv, Rows
    <3> QED
      BY <2>1, <3>1 DEF TablesInv, Rows, There
  <2>4. \A v \in Callers : caller'[v] = NoCall \/ caller'[v] = caller[v]
    BY <2>1 DEF TablesInv, Tables
  <2> QED
    BY <2>1, <2>2, <2>3, <2>4 DEF TablesInv, Rows, There, NoCall
<1> QED
  BY <1>1, <1>2

LEMMA DeleteRouteKeeps == ASSUME TablesInv, DeleteRoute PROVE TablesInv'
<1>1. /\ UNCHANGED <<chan, model>> /\ routes' = {} /\ cand' = {}
        /\ caller' = [v \in Callers |-> IF caller[v].at = "candidates"
                                        THEN [caller[v] EXCEPT !.ps = {}] ELSE caller[v]]
  BY DEF DeleteRoute
<1>2. \A v \in Callers :
          /\ caller'[v] \in [at : {"idle", "model", "route", "candidates", "delete"},
                             ps : SUBSET Protocols, ms : SUBSET Models]
          /\ caller'[v].at = caller[v].at /\ caller'[v].ms = caller[v].ms
  BY <1>1 DEF TablesInv, Tables
<1>3. Tables'
  BY <1>1, <1>2 DEF TablesInv, Tables
<1> QED
  BY <1>1, <1>2, <1>3, SameRows DEF There

(* No model goes by a run of discovery, whatever it was told.              *)
LEMMA AppliedRow ==
  ASSUME TablesInv, NEW ps \in SUBSET Protocols, NEW snap \in Snapshots(ps), NEW m \in Models
  PROVE  /\ Applied(snap, m) \in Row
         /\ There(m) => Applied(snap, m).source # "none"
<1> DEFINE seen == SeenUnder(snap, m)
           old == IF seen = {} THEN model[m]
                  ELSE [source |-> IF There(m) THEN model[m].source ELSE "discovered",
                        available |-> TRUE, bound |-> model[m].bound \cup seen \cup Extra(snap)]
           stale == (old.bound \cap Succeeded(snap)) \ seen
           left == old.bound \ stale
<1>1. DOMAIN snap = ps
  BY DEF Snapshots
<1>2. Succeeded(snap) \in SUBSET Protocols /\ seen \in SUBSET Protocols
  BY <1>1 DEF Succeeded, SeenUnder
<1>3. Extra(snap) \in SUBSET Protocols
  BY <1>2, BindingsType DEF Extra
<1>4. model[m] \in Row
  BY DEF TablesInv, Tables
<1> HIDE DEF seen
<1>5. old \in Row /\ (There(m) => old.source # "none")
  BY <1>2, <1>3, <1>4 DEF Row, There
<1>6. Applied(snap, m) =
        IF old.source # "discovered" THEN old
        ELSE [old EXCEPT !.bound = left,
                         !.available = IF stale # {} \/ left = {} THEN left # {} ELSE @]
  BY DEF Applied, seen
<1> HIDE DEF old
<1>7. left \in SUBSET Protocols
  BY <1>5 DEF Row
<1> HIDE DEF left, stale
<1> QED
  BY <1>5, <1>6, <1>7 DEF Row

LEMMA ApplyKeeps ==
  ASSUME IInv, NEW r \in Runs, ApplyDiscovery(r)
  PROVE  TablesInv'
<1>1. run[r].ps \in SUBSET Protocols
  BY DEF IInv, RunInv, Run
<1>2. PICK snap \in Snapshots(run[r].ps) : model' = [m \in Models |-> Applied(snap, m)]
  BY DEF ApplyDiscovery
<1>3. UNCHANGED <<chan, routes, cand, caller>>
  BY DEF ApplyDiscovery
<1>4. \A m \in Models : Applied(snap, m) \in Row /\ (There(m) => Applied(snap, m).source # "none")
  BY <1>1, AppliedRow DEF IInv
<1>5. model' \in [Models -> Row] /\ \A m \in Models : There(m) => There(m)'
  BY <1>2, <1>4 DEF There
<1>6. Tables'
  BY <1>3, <1>5 DEF IInv, TablesInv, Tables
<1> QED
  BY <1>3, <1>5, <1>6, SameRows DEF IInv

LEMMA CatalogKeeps == ASSUME TablesInv, CatalogStep PROVE TablesInv'
<1>1. ASSUME NEW ps \in SUBSET Protocols \ {{}}, UpdateChannel(ps) PROVE TablesInv'
  BY <1>1, ChannelKeeps
<1>2. ASSUME NEW k \in {"ordinary", CC}, PatchProvider(k) PROVE TablesInv'
  <2>1. chan' = [chan EXCEPT !.kind = k] /\ UNCHANGED <<model, routes, cand, caller>>
    BY <1>2 DEF PatchProvider
  <2> QED
    BY <2>1 DEF TablesInv, Tables, Rows, There
<1>3. ASSUME NEW m \in Models, NEW ps \in SUBSET Protocols, PatchModel(m, ps) PROVE TablesInv'
  <2>1. model' = [model EXCEPT ![m].bound = Bindings(ps)] /\ UNCHANGED <<chan, routes, cand, caller>>
    BY <1>3 DEF PatchModel
  <2>2. Tables' /\ \A n \in Models : model'[n].source = model[n].source
    BY <2>1, BindingsType DEF TablesInv, Tables, Row
  <2> QED
    BY <2>1, <2>2, SameRows DEF There
<1>4. ASSUME NEW m \in Models, PatchAvailable(m) PROVE TablesInv'
  <2>1. model' = [model EXCEPT ![m].available = ~@] /\ UNCHANGED <<chan, routes, cand, caller>>
    BY <1>4 DEF PatchAvailable
  <2>2. Tables' /\ \A n \in Models : model'[n].source = model[n].source
    <3> DEFINE other == [model[m] EXCEPT !.available = ~@]
    <3>1. model \in [Models -> Row] /\ model[m] \in Row
      BY DEF TablesInv, Tables
    <3>2. model' = [model EXCEPT ![m] = other]
      BY <2>1
    <3>3. other \in Row /\ other.source = model[m].source
      BY <3>1 DEF Row
    <3> HIDE DEF other
    <3>4. model' \in [Models -> Row] /\ \A n \in Models : model'[n].source = model[n].source
      BY <3>1, <3>2, <3>3
    <3> QED
      BY <2>1, <3>4 DEF TablesInv, Tables
  <2> QED
    BY <2>1, <2>2, SameRows DEF There
<1>5. ASSUME NEW u \in Callers, CreateManualModel(u) \/ DeleteModel(u) PROVE TablesInv'
  BY <1>5, CallKeeps
<1>6. ASSUME NEW u \in Callers, NEW ps \in SUBSET Protocols,
             \/ \E m \in Models : AskManualModel(u, m, ps) \/ AskDeleteModel(u, m)
             \/ AskRoute(u, ps)
             \/ \E ms \in SUBSET Models : AskCandidates(u, ms)
      PROVE  TablesInv'
  BY <1>6, AskingKeeps
<1>7. ASSUME NEW u \in Callers, CreateRoute(u) \/ ReplaceCandidates(u) PROVE TablesInv'
  BY <1>7, RouteKeeps
<1>8. CASE DeleteRoute
  BY <1>8, DeleteRouteKeeps
<1>9. {} \in SUBSET Protocols
  OBVIOUS
<1> QED
  BY <1>1, <1>2, <1>3, <1>4, <1>5, <1>6, <1>7, <1>8, <1>9 DEF CatalogStep

-----------------------------------------------------------------------------
(* The runs, one operation at a time.                                      *)
LEMMA RunUnchanged ==
  ASSUME RunInv, UNCHANGED <<run, discovering>> PROVE RunInv'
BY DEF RunInv, Entries, Active

LEMMA TaskKeeps ==
  ASSUME IInv, NEW r \in Runs, TaskStep(r)
  PROVE  RunInv'
<1> USE DEF IInv, RunInv, Run
<1>1. discovering' = discovering
  BY DEF TaskStep, Discovers, Fails, ApplyDiscovery, RecordRunFailure, FailureUnrecorded
<1>2. Active(r)
  BY DEF TaskStep, Discovers, Fails, ApplyDiscovery, RecordRunFailure, FailureUnrecorded, Active
<1>3. \E q \in Run : /\ run' = [run EXCEPT ![r] = q]
                     /\ q.at \in {"asking", "failing", "ended"}
                     /\ q.by = run[r].by /\ (q.at # "ended" => q.row = run[r].row)
  <2>1. CASE Discovers(r)
    <3>1. PICK ps \in SUBSET Protocols :
            run' = [run EXCEPT ![r].at = "asking", ![r].ps = ps]
      BY <2>1 DEF Discovers, TablesInv, Tables
    <3>2. run' = [run EXCEPT ![r] = [run[r] EXCEPT !.at = "asking", !.ps = ps]]
      BY <3>1
    <3>3. [run[r] EXCEPT !.at = "asking", !.ps = ps] \in Run
      OBVIOUS
    <3> QED
      BY <3>2, <3>3
  <2>2. CASE Fails(r)
    <3>1. run' = [run EXCEPT ![r] = [run[r] EXCEPT !.at = "failing", !.ps = {}]]
      BY <2>2 DEF Fails
    <3>2. [run[r] EXCEPT !.at = "failing", !.ps = {}] \in Run
      OBVIOUS
    <3> QED
      BY <3>1, <3>2
  <2>3. CASE ApplyDiscovery(r) \/ RecordRunFailure(r) \/ FailureUnrecorded(r)
    <3>1. PICK row \in {"open", "failed", "succeeded"} :
            run' = [run EXCEPT ![r] = Ended(r, row)]
      BY <2>3 DEF ApplyDiscovery, RecordRunFailure, FailureUnrecorded, Closes
    <3>2. Ended(r, row) \in Run /\ Ended(r, row).at = "ended" /\ Ended(r, row).by = run[r].by
      <4>1. run[r] \in Run
        OBVIOUS
      <4> QED
        BY <4>1 DEF Ended
    <3> QED
      BY <3>1, <3>2
  <2> QED
    BY <2>1, <2>2, <2>3 DEF TaskStep
<1>4. PICK q \in Run : /\ run' = [run EXCEPT ![r] = q]
                       /\ q.at \in {"asking", "failing", "ended"}
                       /\ q.by = run[r].by /\ (q.at # "ended" => q.row = run[r].row)
  BY <1>3
<1>5. run' \in [Runs -> Run] /\ \A p \in Runs : run'[p] = IF p = r THEN q ELSE run[p]
  BY <1>4
<1>6. Entries'
  BY <1>1, <1>2, <1>4, <1>5 DEF Entries, Active
<1> QED
  BY <1>1, <1>5, <1>6

LEMMA QueueKeeps ==
  ASSUME RunInv, NEW r \in Runs, NEW by \in {"hand", "schedule"}, Queue(r, by),
         \/ by = "hand" /\ discovering' = discovering
         \/ by = "schedule" /\ discovering' = r /\ ~Busy
  PROVE  RunInv'
<1> USE DEF RunInv, Run
<1> DEFINE q == [NoRun EXCEPT !.by = by, !.row = "open", !.at = IF closing THEN "ended" ELSE "queued"]
<1>1. /\ run' = [run EXCEPT ![r] = q] /\ q \in Run
      /\ q.by = by /\ q.row = "open" /\ run[r] = NoRun
  BY DEF Queue, NoRun
<1> HIDE DEF q
<1>2. run' \in [Runs -> Run] /\ \A p \in Runs : run'[p] = IF p = r THEN q ELSE run[p]
  BY <1>1
<1>3. ~Active(r)
  BY <1>1 DEF Active, NoRun
<1>4. CASE by = "hand" /\ discovering' = discovering
  BY <1>1, <1>2, <1>4 DEF Entries, Active
<1>5. CASE by = "schedule" /\ discovering' = r /\ ~Busy
  <2>1. \A p \in Runs : ~(Active(p) /\ run[p].by = "schedule")
    BY <1>5, DiscoveryAssumption DEF Entries, Busy, Finished, Runs
  <2> QED
    BY <1>1, <1>2, <1>5, <2>1 DEF Entries, Active
<1> QED
  BY <1>4, <1>5

LEMMA ScheduleKeeps ==
  ASSUME RunInv, ScheduleDiscovery
  PROVE  RunInv'
<1>1. CASE Due /\ ~Busy
  <2>1. PICK r \in Runs : Queue(r, "schedule") /\ discovering' = r
    BY <1>1 DEF ScheduleDiscovery
  <2> QED
    BY <1>1, <2>1, QueueKeeps
<1>2. CASE ~(Due /\ ~Busy)
  <2>1. run' = run /\ discovering' = IF Busy THEN discovering ELSE 0
    BY <1>2 DEF ScheduleDiscovery
  <2>2. CASE Busy
    BY <2>1, <2>2, RunUnchanged
  <2>3. CASE ~Busy
    <3>1. \A p \in Runs : ~(Active(p) /\ run[p].by = "schedule")
      BY <2>3, DiscoveryAssumption DEF RunInv, Entries, Busy, Finished, Runs
    <3> QED
      BY <2>1, <2>3, <3>1 DEF RunInv, Entries, Active
  <2> QED
    BY <2>2, <2>3
<1> QED
  BY <1>1, <1>2

(* Rows go, or the tasks with the process: no run becomes active by it.    *)
LEMMA RowsGo ==
  ASSUME RunInv, CleanupLogs \/ ChannelGone \/ Restart
  PROVE  RunInv'
<1> USE DEF RunInv, Run
<1>1. CASE CleanupLogs
  <2>1. PICK n \in Runs :
          /\ \A r \in 1..n : run[r].at = "ended"
          /\ run' = [r \in Runs |-> IF r \in 1..n THEN [run[r] EXCEPT !.row = "deleted"] ELSE run[r]]
    BY <1>1 DEF CleanupLogs
  <2>2. discovering' = discovering
    BY <1>1 DEF CleanupLogs
  <2>3. \A r \in Runs : /\ run'[r] \in Run
                        /\ \/ run'[r].at = "ended" /\ run[r].at = "ended"
                           \/ run'[r] = run[r]
    BY <2>1
  <2>4. run' \in [Runs -> Run]
    BY <2>1, <2>3
  <2> QED
    BY <2>2, <2>3, <2>4 DEF Entries, Active
<1>2. CASE ChannelGone
  <2>1. /\ run' = [r \in Runs |-> IF run[r] = NoRun THEN NoRun ELSE [run[r] EXCEPT !.row = "deleted"]]
        /\ discovering' = discovering
    BY <1>2 DEF ChannelGone
  <2>2. \A r \in Runs : /\ run'[r] \in Run /\ run'[r].at = run[r].at /\ run'[r].by = run[r].by
                        /\ run'[r].row = "deleted" \/ run'[r] = run[r]
    BY <2>1 DEF NoRun
  <2>3. run' \in [Runs -> Run]
    BY <2>1, <2>2
  <2> QED
    BY <2>1, <2>2, <2>3 DEF Entries, Active
<1>3. CASE Restart
  <2>1. /\ run' = [r \in Runs |-> IF Active(r) THEN Ended(r, "open") ELSE run[r]]
        /\ discovering' = 0
    BY <1>3 DEF Restart
  <2>2. \A r \in Runs : Ended(r, "open") \in Run /\ Ended(r, "open").at = "ended"
    BY DEF Ended
  <2>3. run' \in [Runs -> Run] /\ \A r \in Runs : ~Active(r)'
    BY <2>1, <2>2 DEF Active
  <2> QED
    BY <2>1, <2>3 DEF Entries
<1> QED
  BY <1>1, <1>2, <1>3

LEMMA NextIInv == IInv /\ [Next]_vars => IInv'
<1> SUFFICES ASSUME IInv, [Next]_vars PROVE IInv'
  OBVIOUS
<1>0. ASSUME UNCHANGED catalogVars PROVE TablesInv'
  BY <1>0 DEF IInv, TablesInv, Tables, Rows, There, catalogVars, tables
<1>1. CASE CatalogStep /\ UNCHANGED runVars
  BY <1>1, CatalogKeeps, RunUnchanged DEF IInv, runVars
<1>2. ASSUME NEW r \in Runs, TaskStep(r) PROVE IInv'
  <2>1. TablesInv'
    <3>1. CASE ApplyDiscovery(r)
      BY <3>1, ApplyKeeps
    <3>2. CASE ~ApplyDiscovery(r)
      BY <1>0, <1>2, <3>2 DEF TaskStep, Discovers, Fails, RecordRunFailure, FailureUnrecorded
    <3> QED
      BY <3>1, <3>2
  <2> QED
    BY <1>2, <2>1, TaskKeeps DEF IInv
<1>3. CASE DiscoverModels
  <2>1. PICK r \in Runs : Queue(r, "hand")
    BY <1>3 DEF DiscoverModels
  <2>2. discovering' = discovering /\ UNCHANGED catalogVars
    BY <1>3 DEF DiscoverModels
  <2>3. RunInv'
    BY <2>1, <2>2, QueueKeeps DEF IInv
  <2> QED
    BY <1>0, <2>2, <2>3 DEF IInv
<1>4. CASE ScheduleDiscovery
  <2>1. UNCHANGED catalogVars
    BY <1>4 DEF ScheduleDiscovery
  <2> QED
    BY <1>0, <1>4, <2>1, ScheduleKeeps DEF IInv
<1>5. CASE Passes \/ Close
  BY <1>0, <1>5, RunUnchanged DEF Passes, Close, IInv
<1>6. CASE CleanupLogs
  BY <1>0, <1>6, RowsGo DEF CleanupLogs, IInv
<1>7. CASE ChannelGone
  <2>1. TablesInv'
    BY <1>7, ChannelKeeps DEF ChannelGone, IInv, Protocols
  <2> QED
    BY <1>7, <2>1, RowsGo DEF IInv
<1>8. CASE Restart
  <2>1. UNCHANGED tables /\ caller' = [u \in Callers |-> NoCall]
    BY <1>8 DEF Restart
  <2>2. TablesInv'
    BY <2>1 DEF tables, IInv, TablesInv, Tables, Rows, There, NoCall
  <2> QED
    BY <1>8, <2>2, RowsGo DEF IInv
<1>9. CASE UNCHANGED vars
  BY <1>0, <1>9, RunUnchanged DEF vars, runVars, IInv
<1> QED
  BY <1>1, <1>2, <1>3, <1>4, <1>5, <1>6, <1>7, <1>8, <1>9 DEF Next

LEMMA SpecIInv == Spec => []IInv
BY InitIInv, NextIInv, PTL DEF Spec

-----------------------------------------------------------------------------
(* The maintenance loop never has two runs of a channel under way, though  *)
(* it tells by rows that others delete (maintenance.rs:211).               *)
THEOREM ScheduledRunsDoNotOverlap == Spec => []ScheduledOnce
<1>1. IInv => ScheduledOnce
  BY DEF IInv, RunInv, Entries, ScheduledOnce
<1> QED
  BY <1>1, SpecIInv, PTL

(* A route gets no candidate that could not serve it                       *)
(* (admin/routes.rs:246-345).                                              *)
LEMMA StepBindsNew ==
  ASSUME IInv, Next
  PROVE  \A c \in cand' \ cand : Bound(c)'
<1>1. ASSUME NEW u \in Callers, ReplaceCandidates(u) PROVE \A c \in cand' \ cand : Bound(c)'
  <2>1. /\ model' = model
        /\ cand' \subseteq cand \cup {c \in [protocol : caller[u].ps, model : caller[u].ms] : Bound(c)}
    BY <1>1 DEF ReplaceCandidates
  <2> QED
    BY <2>1 DEF Bound
<1>2. CASE \A u \in Callers : ~ReplaceCandidates(u)
  <2>1. CASE CatalogStep
    BY <1>2, <2>1 DEF CatalogStep, UpdateChannel, PatchModel, AskRoute, AskManualModel, PatchProvider,
         DeleteRoute, PatchAvailable, CreateManualModel, DeleteModel, CreateRoute, AskDeleteModel,
         AskCandidates, tables
  <2>2. CASE ~CatalogStep
    BY <2>2 DEF Next, TaskStep, Discovers, Fails, ApplyDiscovery, RecordRunFailure,
         FailureUnrecorded, DiscoverModels, ScheduleDiscovery, Passes, CleanupLogs, ChannelGone,
         DeleteChannel, Close, Restart, catalogVars, tables
  <2> QED
    BY <2>1, <2>2
<1> QED
  BY <1>1, <1>2

(* A candidate that a step adds can serve the protocol of its route after  *)
(* that step (admin/routes.rs:246-345).                                    *)
THEOREM NewCandidatesCanServe == Spec => NewCandidateIsBound
<1>1. IInv /\ [Next]_vars => [\A c \in cand' \ cand : Bound(c)']_vars
  BY StepBindsNew
<1> QED
  BY <1>1, SpecIInv, PTL DEF Spec, NewCandidateIsBound

(* No edit takes from a candidate what its route needs.                    *)
LEMMA StepUnbindsNone ==
  ASSUME IInv, Next, \A r \in Runs : ~ApplyDiscovery(r), NEW c \in cand \cap cand', Bound(c)
  PROVE  Bound(c)'
<1>0. /\ c.model \in Models /\ c.protocol \in Protocols /\ There(c.model)
      /\ c.protocol \in UsedBy(c.model) /\ c.protocol \in Used
  BY DEF IInv, TablesInv, Tables, Rows, UsedBy, Used
<1>1. CASE model' = model
  BY <1>1 DEF Bound
<1>2. ASSUME NEW ps \in SUBSET Protocols, UpdateChannel(ps) PROVE Bound(c)'
  <2>1. model'[c.model] = [model[c.model] EXCEPT !.bound = Bindings(ps)]
    BY <1>0, <1>2 DEF UpdateChannel
  <2>2. c.protocol \in Bindings(ps)
    BY <1>0, <1>2 DEF UpdateChannel
  <2> QED
    BY <1>0, <2>1, <2>2 DEF Bound, IInv, TablesInv, Tables, Row
<1>3. ASSUME NEW m \in Models, NEW ps \in SUBSET Protocols, PatchModel(m, ps) PROVE Bound(c)'
  <2>1. model' = [model EXCEPT ![m].bound = Bindings(ps)] /\ UsedBy(m) \subseteq Bindings(ps)
    BY <1>3 DEF PatchModel
  <2> QED
    BY <1>0, <2>1 DEF Bound, IInv, TablesInv, Tables, Row
<1>4. ASSUME NEW m \in Models, PatchAvailable(m) PROVE Bound(c)'
  <2>1. model' = [model EXCEPT ![m].available = ~@]
    BY <1>4 DEF PatchAvailable
  <2> QED
    BY <1>0, <2>1 DEF Bound, IInv, TablesInv, Tables, Row
<1>5. ASSUME NEW u \in Callers, CreateManualModel(u) PROVE Bound(c)'
  <2>1. model'[c.model] = model[c.model]
    BY <1>0, <1>5 DEF CreateManualModel, IInv, TablesInv, Tables
  <2> QED
    BY <2>1 DEF Bound
<1>6. ASSUME NEW u \in Callers, DeleteModel(u) PROVE Bound(c)'
  <2>1. model'[c.model] = model[c.model]
    BY <1>0, <1>6 DEF DeleteModel
  <2> QED
    BY <2>1 DEF Bound
<1>7. CASE DeleteChannel
  BY <1>7 DEF DeleteChannel
<1> QED
  <2>1. CASE CatalogStep
    BY <2>1, <1>1, <1>2, <1>3, <1>4, <1>5, <1>6 DEF CatalogStep, AskRoute, AskManualModel,
       PatchProvider, DeleteRoute, CreateRoute, ReplaceCandidates, AskDeleteModel, AskCandidates, tables
  <2>2. CASE ~CatalogStep
    BY <2>2, <1>1, <1>7 DEF Next, TaskStep, Discovers, Fails, RecordRunFailure, FailureUnrecorded,
       DiscoverModels, ScheduleDiscovery, Passes, CleanupLogs, ChannelGone, Close, Restart,
       catalogVars, tables
  <2> QED
    BY <2>1, <2>2

(* Only a run of discovery takes from a candidate the protocol of its      *)
(* route (admin/channels.rs:405-441, admin/models.rs:190-217).             *)
THEOREM EditsUnbindNone == Spec => OnlyDiscoveryUnbinds
<1>1. IInv /\ [Next]_vars =>
        [\A c \in cand \cap cand' : Bound(c) /\ ~Bound(c)' => \E r \in Runs : ApplyDiscovery(r)]_vars
  BY StepUnbindsNone
<1> QED
  BY <1>1, SpecIInv, PTL DEF Spec, OnlyDiscoveryUnbinds
=============================================================================
