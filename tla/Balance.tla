------------------------------- MODULE Balance -------------------------------
(***************************************************************************)
(* The balance service (balance.rs, BalanceService): queries asked for by  *)
(* the administrator and by the batch refresh read a channel and its       *)
(* configuration, ask the upstream in one to four steps and store what     *)
(* they heard, while the configuration and the channel may go.             *)
(***************************************************************************)
EXTENDS BalanceReadings

CONSTANTS
  Channels,
  Offered,   \* adapters the administrator configures
  Askers,    \* queries by hand
  Slots      \* places of the batch refresh, REFRESH_CONCURRENCY of them

ASSUME BalanceAssumption == Offered \subseteq Adapters /\ Slots # {} /\ Askers \cap Slots = {}

VARIABLES
  there,     \* the rows of channels,
  config,    \* channel_balance_configs
  snap,      \* and channel_balance_snapshots
  query,     \* query[k]: the channel, what was read of its configuration, the next step
  refresh    \* the batch: under way, still to ask, and the listed channels it owes an answer

rows == <<there, config, snap>>
vars == <<rows, query, refresh>>

Queries == Askers \cup Slots
NoConfig == [adapter |-> "none", enabled |-> FALSE, token |-> FALSE]
Configs == {conf \in [adapter : Offered, enabled : BOOLEAN, token : BOOLEAN] :
              conf.token => conf.adapter = "newapi"}
Idle == [at |-> "idle", chan |-> "none", adapter |-> "none", step |-> 0, status |-> "none"]
NoBatch == [on |-> FALSE, todo |-> {}, owed |-> {}]

TypeOK ==
  /\ there \subseteq Channels
  /\ config \in [Channels -> Configs \cup {NoConfig}]
  /\ snap \in [Channels -> {"none", "ok", "error"}]
  /\ query \in [Queries -> [at : {"idle", "asking", "parsing", "storing"},
                            chan : Channels \cup {"none"}, adapter : Adapters \cup {"none"},
                            step : 0..4, status : {"none", "ok", "error"}]]
  /\ refresh \in [on : BOOLEAN, todo : SUBSET Channels, owed : SUBSET Channels]

Init ==
  /\ there = Channels
  /\ config = [c \in Channels |-> NoConfig] /\ snap = [c \in Channels |-> "none"]
  /\ query = [k \in Queries |-> Idle]
  /\ refresh = NoBatch

-----------------------------------------------------------------------------
(* save_config: an upsert, with the token set, cleared or kept; whether    *)
(* there is one is kept where it matters, with New API.                    *)
SaveConfig(c) ==
  /\ c \in there
  /\ \E new \in Configs : config' = [config EXCEPT ![c] = new]
  /\ UNCHANGED <<there, snap, query, refresh>>

(* The batch owes a channel no answer when one was stored, or could not be:*)
(* the channel or its configuration gone, its key unreadable, or the write *)
(* failed.                                                                 *)
Settled(c) == [refresh EXCEPT !.owed = @ \ {c}]

(* delete_config: the snapshot and the configuration, in one transaction.  *)
DeleteConfig(c) ==
  /\ c \in there
  /\ config' = [config EXCEPT ![c] = NoConfig] /\ snap' = [snap EXCEPT ![c] = "none"]
  /\ refresh' = Settled(c) /\ UNCHANGED <<there, query>>

(* A channel takes both with it.                                           *)
DeleteChannel(c) ==
  /\ c \in there /\ there' = there \ {c}
  /\ config' = [config EXCEPT ![c] = NoConfig] /\ snap' = [snap EXCEPT ![c] = "none"]
  /\ refresh' = Settled(c) /\ UNCHANGED query

-----------------------------------------------------------------------------
(* The requests of an adapter: one that must be answered, one that may be, *)
(* and one to fall back on the next.                                       *)
Plan(adapter) ==
  CASE adapter = "command_code" -> <<"must", "must", "may", "may">>
    [] adapter = "mimo" -> <<"must", "must", "may">>
    [] adapter = "openrouter" -> <<"try", "must">>
    [] OTHER -> <<"must">>

(* New API with a token of its own asks for the account.                   *)
Effective(conf) ==
  IF conf.adapter = "newapi" /\ conf.token THEN "newapi_user" ELSE conf.adapter

Asking(c) == [Idle EXCEPT !.at = "asking", !.chan = c, !.adapter = Effective(config[c]), !.step = 1]
Ready(k, status) == [query EXCEPT ![k].at = "storing", ![k].step = 0, ![k].status = status]

(* query, by hand: a configuration that is not enabled will do.            *)
Asks(k) ==
  /\ query[k] = Idle
  /\ \E c \in there : config[c] # NoConfig /\ query' = [query EXCEPT ![k] = Asking(c)]
  /\ UNCHANGED <<rows, refresh>>

(* The step is answered by a 2xx; what follows it is asked, or parsed.     *)
Succeeds(k) ==
  LET plan == Plan(query[k].adapter) i == query[k].step IN
  /\ query[k].at = "asking"
  /\ query' = IF plan[i] = "try" \/ i = Len(plan)
              THEN [query EXCEPT ![k].at = "parsing", ![k].step = 0]
              ELSE [query EXCEPT ![k].step = i + 1]
  /\ UNCHANGED <<rows, refresh>>

(* It is out of time, not carried, or answered by another status: that is  *)
(* the end of the reading only where the step was a must.                  *)
Misses(k) ==
  LET plan == Plan(query[k].adapter) i == query[k].step IN
  /\ query[k].at = "asking"
  /\ query' = IF plan[i] = "must" THEN Ready(k, "error")
              ELSE IF i = Len(plan) THEN [query EXCEPT ![k].at = "parsing", ![k].step = 0]
              ELSE [query EXCEPT ![k].step = i + 1]
  /\ UNCHANGED <<rows, refresh>>

(* The request cannot be built, or Command Code is switched off: an error  *)
(* snapshot before anything is sent.                                       *)
NotSent(k) ==
  /\ query[k].at = "asking" /\ query[k].step = 1
  /\ query' = Ready(k, "error") /\ UNCHANGED <<rows, refresh>>

(* parse_reading, of any body the adapter may be sent.                     *)
Legible == [a \in Adapters |-> {Read(a, b) # {} : b \in Bodies}]

Parses(k) ==
  /\ query[k].at = "parsing"
  /\ \E legible \in Legible[query[k].adapter] :
       query' = Ready(k, IF legible THEN "ok" ELSE "error")
  /\ UNCHANGED <<rows, refresh>>

Settles(k) == refresh' = IF k \in Slots THEN Settled(query[k].chan) ELSE refresh

(* store_snapshot: an upsert that fails when the channel is gone.  Nobody  *)
(* asks the configuration again.                                           *)
StoreSnapshot(k) ==
  LET c == query[k].chan IN
  /\ query[k].at = "storing" /\ Settles(k)
  /\ snap' = IF c \in there THEN [snap EXCEPT ![c] = query[k].status] ELSE snap
  /\ query' = [query EXCEPT ![k] = Idle] /\ UNCHANGED <<there, config>>

(* Mutant: what failed is asked again, in the same place.                  *)
FatalRetries(k) ==
  /\ <<query[k].at, query[k].step>> \in {<<"asking", 1>>, <<"storing", 0>>}
  /\ query' = [query EXCEPT ![k].at = "asking", ![k].step = 1] /\ UNCHANGED <<rows, refresh>>

(* A key that cannot be decrypted, or a write that fails, is an error of   *)
(* the service and leaves no snapshot.                                     *)
Fatal(k) ==
  /\ <<query[k].at, query[k].step>> \in {<<"asking", 1>>, <<"storing", 0>>} /\ Settles(k)
  /\ query' = [query EXCEPT ![k] = Idle] /\ UNCHANGED rows

(* The administrator's page is closed: the handler is dropped.             *)
Leaves(k) ==
  /\ query[k] # Idle
  /\ query' = [query EXCEPT ![k] = Idle] /\ UNCHANGED <<rows, refresh>>

-----------------------------------------------------------------------------
(* refresh_enabled, awaited by the maintenance loop: the enabled channels  *)
(* are listed ...                                                          *)
ListEnabled ==
  LET listed == {c \in there : config[c].enabled} IN
  /\ ~refresh.on /\ listed # {}
  /\ refresh' = [on |-> TRUE, todo |-> listed, owed |-> listed] /\ UNCHANGED <<rows, query>>

(* ... each is queried as soon as a place is free, one that was deleted or *)
(* lost its configuration meanwhile is passed over ...                     *)
Takes(k, c) ==
  /\ query[k] = Idle /\ c \in refresh.todo /\ c \in there /\ config[c] # NoConfig
  /\ query' = [query EXCEPT ![k] = Asking(c)]
  /\ refresh' = [refresh EXCEPT !.todo = @ \ {c}] /\ UNCHANGED rows

(* Mutant: the first bad channel ends the batch.                           *)
SkipsAll(c) ==
  /\ c \in refresh.todo /\ (c \notin there \/ config[c] = NoConfig)
  /\ refresh' = [refresh EXCEPT !.todo = {}] /\ UNCHANGED <<rows, query>>

Skips(c) ==
  /\ c \in refresh.todo /\ (c \notin there \/ config[c] = NoConfig)
  /\ refresh' = [refresh EXCEPT !.todo = @ \ {c}] /\ UNCHANGED <<rows, query>>

(* ... and the batch ends with the last of them.                           *)
EndsRefresh ==
  /\ refresh.on /\ refresh.todo = {} /\ \A k \in Slots : query[k] = Idle
  /\ refresh' = NoBatch /\ UNCHANGED <<rows, query>>

-----------------------------------------------------------------------------
QueryStep(k) ==
  Succeeds(k) \/ Misses(k) \/ NotSent(k) \/ Parses(k) \/ StoreSnapshot(k) \/ Fatal(k)
BatchStep == EndsRefresh \/ \E c \in Channels : Skips(c) \/ \E k \in Slots : Takes(k, c)

Next ==
  \/ \E c \in Channels : SaveConfig(c) \/ DeleteConfig(c) \/ DeleteChannel(c)
  \/ \E k \in Askers : Asks(k) \/ Leaves(k)
  \/ \E k \in Queries : QueryStep(k)
  \/ ListEnabled \/ BatchStep

Spec == Init /\ [][Next]_vars
FairSpec == Spec /\ WF_vars(BatchStep) /\ \A k \in Slots : WF_vars(QueryStep(k))

-----------------------------------------------------------------------------
(* The page shows no balance of a channel that is gone, though a query in  *)
(* flight may end after the channel (balance.rs:1153-1211), and of those   *)
(* that are there none that misleads, whatever the upstream sends.         *)
SnapshotsSound ==
  /\ \A c \in Channels : snap[c] # "none" => c \in there
  /\ ReadingsSound

(* A batch leaves no enabled channel without its answer, be it an error,   *)
(* but for one that was taken away meanwhile or could not be stored,       *)
(* whatever becomes of the others (balance.rs:671-703).                    *)
BatchAnswersAll == [][EndsRefresh => refresh.owed = {}]_vars

(* The maintenance loop gets its refresh back: every upstream is asked     *)
(* under a deadline, and every place is given back (maintenance.rs:158-171)*)
RefreshEnds == refresh.on ~> ~refresh.on
=============================================================================
