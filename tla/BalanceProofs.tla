---------------------------- MODULE BalanceProofs ----------------------------
(* Proofs about Balance and the adapters' readings, for any amounts in the *)
(* bodies, any channels, queries by hand and places of the batch.          *)
EXTENDS Balance, TLAPS

-----------------------------------------------------------------------------
(* The readings.                                                           *)
Windows(ws) == \A w \in ws : w.used \in 0..100 /\ w.used + w.remaining = 100

(* Whatever share it is made of, a window's halves make up the whole.      *)
LEMMA WindowHalves ==
  ASSUME NEW n \in Int
  PROVE  /\ UsedWindow(n).used \in 0..100 /\ UsedWindow(n).used + UsedWindow(n).remaining = 100
         /\ PercentWindow(n).used \in 0..100
         /\ PercentWindow(n).used + PercentWindow(n).remaining = 100
<1>1. Clamp(n) \in 0..100
  BY DEF Clamp
<1> QED
  BY <1>1 DEF UsedWindow, PercentWindow

LEMMA UsedHalves ==
  ASSUME NEW shares \in SUBSET Int PROVE Windows(UsedWindows(shares))
BY WindowHalves DEF Windows, UsedWindows

LEMMA PercentHalves ==
  ASSUME NEW shares \in SUBSET Int PROVE Windows({PercentWindow(n) : n \in shares})
BY WindowHalves DEF Windows

LEMMA ShareType ==
  ASSUME NEW part \in SUBSET Int, NEW whole \in SUBSET Int PROVE Share(part, whole) \in SUBSET Int
BY DEF Share

LEMMA OptionType == Option \subseteq SUBSET Int
BY AmountsAssumption DEF Option

LEMMA RequiredWindows ==
  ASSUME NEW ws, Windows(ws), NEW r \in RequireWindows(ws)
  PROVE  Windows(r.windows)
BY DEF RequireWindows, NoReading

LEMMA NoWindows == Windows({})
BY DEF Windows

(* Of every adapter's readings, the windows.                               *)
LEMMA ReadingWindows ==
  ASSUME NEW a \in Adapters, NEW b \in Bodies, NEW r \in Read(a, b)
  PROVE  Windows(r.windows)
<1>0. /\ b.used \in SUBSET Int /\ b.available \in SUBSET Int /\ b.cap \in SUBSET Int
      /\ b.granted \in SUBSET Int
  BY OptionType DEF Bodies
<1>1. CASE a \in {"newapi", "newapi_user", "sub2api", "deepseek", "openrouter", "siliconflow", "custom"}
  <2>1. r.windows = {}
    BY <1>1 DEF Read, NewApi, NewApiUser, Sub2Api, DeepSeek, OpenRouter, OneAmount, Custom, NoReading
  <2> QED
    BY <2>1, NoWindows
<1>2. CASE a = "opencode_go"
  <2> DEFINE shown == {p \in b.used \cup b.available : b.flag /\ p \in 0..100}
             ws == {UsedWindow(n) : n \in shown}
  <2>1. r \in RequireWindows(ws)
    BY <1>2 DEF Read, OpencodeGo
  <2>2. Windows(ws)
    <3>1. shown \in SUBSET Int /\ ws = UsedWindows(shown)
      BY DEF UsedWindows
    <3> QED
      BY <3>1, UsedHalves
  <2> QED
    BY <2>1, <2>2, RequiredWindows
<1>3. CASE a = "command_code"
  <2>1. r.windows = UsedWindows(Share(Or(b.used, {0}), b.cap))
    BY <1>3 DEF Read, CommandCodeReading, NoReading
  <2>2. Or(b.used, {0}) \in SUBSET Int
    BY <1>0 DEF Or
  <2> QED
    BY <1>0, <2>1, <2>2, ShareType, UsedHalves
<1>4. CASE a = "mimo"
  <2> DEFINE items == Share(b.used, b.cap)
             whole == {n * 100 : n \in b.granted}
  <2>1. r.windows = UsedWindows(IF items # {} THEN items ELSE whole)
    BY <1>4 DEF Read, Mimo, NoReading
  <2>2. items \in SUBSET Int /\ whole \in SUBSET Int
    BY <1>0, ShareType
  <2> QED
    BY <2>1, <2>2, UsedHalves
<1>5. CASE a = "zhipu"
  <2> DEFINE ws == IF b.flag THEN UsedWindows(b.used \cup b.available) ELSE {}
  <2>1. r \in RequireWindows(ws)
    BY <1>5 DEF Read, Zhipu
  <2>2. b.used \cup b.available \in SUBSET Int
    BY <1>0
  <2>3. Windows(ws)
    BY <2>2, UsedHalves, NoWindows
  <2> QED
    BY <2>1, <2>3, RequiredWindows
<1>6. CASE a = "minimax"
  <2> DEFINE shown == b.used \cup (IF b.flag THEN b.available ELSE {})
             ws == {PercentWindow(n) : n \in shown}
  <2>1. r \in RequireWindows(ws)
    BY <1>6 DEF Read, MiniMax
  <2>2. Windows(ws)
    <3>1. shown \in SUBSET Int
      BY <1>0
    <3> QED
      BY <3>1, PercentHalves
  <2> QED
    BY <2>1, <2>2, RequiredWindows
<1>7. CASE a = "kimi_code"
  <2> DEFINE spent == {<<l - k, l>> : l \in b.cap, k \in b.available}
             sets == {UsedWindows(Share({s[1]}, {s[2]})) : s \in spent}
             ws == UNION sets
  <2>1. r \in RequireWindows(ws)
    BY <1>7 DEF Read, Kimi
  <2>2. ASSUME NEW s \in spent PROVE Windows(UsedWindows(Share({s[1]}, {s[2]})))
    <3>1. {s[1]} \in SUBSET Int /\ {s[2]} \in SUBSET Int
      BY <1>0
    <3> QED
      BY <3>1, ShareType, UsedHalves
  <2> HIDE DEF spent
  <2>3. \A v \in sets : Windows(v)
    BY <2>2
  <2> HIDE DEF sets
  <2>4. Windows(ws)
    BY <2>3 DEF Windows
  <2> QED
    BY <2>1, <2>4, RequiredWindows
<1> QED
  BY <1>1, <1>2, <1>3, <1>4, <1>5, <1>6, <1>7 DEF Adapters

(* An account called unlimited shows no remainder and no quota.            *)
LEMMA UnlimitedReadings ==
  ASSUME NEW a \in {"newapi", "sub2api"}, NEW b \in Bodies, NEW r \in Read(a, b), r.unlimited
  PROVE  r.remaining = {} /\ \A n \in r.total : n < 0
<1>0. b.granted \in SUBSET Int
  BY OptionType DEF Bodies
<1>1. CASE a = "newapi"
  <2> DEFINE available == Or(b.available, Minus(b.granted, b.used))
             unlimited == (b.flag \/ \E g \in b.granted : g < 0) /\ ~CountsQuota(b.granted, available)
  <2>1. /\ r.remaining = IF unlimited THEN {} ELSE available
        /\ r.total = b.granted /\ r.unlimited = unlimited
    BY <1>1 DEF Read, NewApi, NoReading
  <2> HIDE DEF available
  <2>2. unlimited
    BY <2>1
  <2>3. \A n \in b.granted : n < 0
    BY <1>0, <2>2 DEF CountsQuota
  <2> QED
    BY <2>1, <2>2, <2>3
<1>2. CASE a = "sub2api"
  BY <1>2 DEF Read, Sub2Api, NoReading
<1> QED
  BY <1>1, <1>2

(* What remains and what is used make up the total.                        *)
LEMMA AddedReadings ==
  ASSUME NEW a \in {"newapi_user", "command_code"}, NEW b \in Bodies, NEW r \in Read(a, b),
         r.remaining # {}, r.used # {}
  PROVE  r.total = Plus(r.remaining, r.used)
<1>1. CASE a = "newapi_user"
  <2>1. /\ r.remaining = b.granted /\ r.used = b.used
        /\ r.total = Or(Plus(b.granted, b.used), b.granted)
    BY <1>1 DEF Read, NewApiUser, NoReading
  <2>2. PICK x \in b.granted, y \in b.used : TRUE
    BY <2>1
  <2>3. x + y \in Plus(b.granted, b.used)
    BY <2>2 DEF Plus
  <2> QED
    BY <2>1, <2>3 DEF Or
<1>2. CASE a = "command_code"
  <2> DEFINE credits == Valued(b.granted, 0) + Valued(b.available, 0)
             remaining == IF credits > 0 THEN {credits} ELSE {}
  <2>1. /\ r.remaining = remaining /\ r.used = b.summary
        /\ r.total = Plus(remaining, Or(b.summary, {0}))
    BY <1>2 DEF Read, CommandCodeReading, NoReading
  <2> QED
    BY <2>1 DEF Or
<1> QED
  BY <1>1, <1>2

(* No reading misleads, whatever the numbers the upstream sends.           *)
THEOREM ReadingsAreSound == ReadingsSound
<1> SUFFICES ASSUME NEW a \in Adapters, NEW b \in Bodies, NEW r \in Read(a, b)
             PROVE  Sound(a, r)
  BY DEF ReadingsSound
<1> QED
  BY ReadingWindows, UnlimitedReadings, AddedReadings DEF Sound, Windows

-----------------------------------------------------------------------------
(* The service.                                                            *)
Query == [at : {"idle", "asking", "parsing", "storing"},
          chan : Channels \cup {"none"}, adapter : Adapters \cup {"none"},
          step : Nat, status : {"none", "ok", "error"}]

Typed ==
  /\ config \in [Channels -> Configs \cup {NoConfig}]
  /\ snap \in [Channels -> {"none", "ok", "error"}]
  /\ query \in [Queries -> Query]
  /\ refresh \in [on : BOOLEAN, todo : SUBSET Channels, owed : SUBSET Channels]

Present == there \subseteq Channels /\ \A c \in Channels : snap[c] # "none" => c \in there

(* What the batch owes is still to ask, or is being asked in one of its    *)
(* places, and can be.                                                     *)
Asked(c) == c \in refresh.todo \/ \E k \in Slots : query[k].at # "idle" /\ query[k].chan = c
OwedIsAsked == \A c \in refresh.owed : c \in there /\ config[c] # NoConfig /\ Asked(c)

IInv == Typed /\ Present /\ OwedIsAsked

LEMMA ConfiguredIsNotNone == \A conf \in Configs : conf # NoConfig
BY BalanceAssumption DEF Configs, NoConfig, Adapters

(* A query begins.                                                         *)
LEMMA AskingType ==
  ASSUME IInv, NEW c \in there, config[c] # NoConfig
  PROVE  Asking(c) \in Query /\ Asking(c).at # "idle" /\ Asking(c).chan = c
<1>1. c \in Channels /\ config[c] \in Configs
  BY DEF IInv, Typed, Present
<1>2. Effective(config[c]) \in Adapters
  BY <1>1, BalanceAssumption DEF Configs, Effective, Adapters
<1> QED
  BY <1>1, <1>2 DEF Asking, Idle, Query

LEMMA InitIInv == Init => IInv
BY DEF Init, IInv, Typed, Present, OwedIsAsked, Query, Idle, NoBatch

LEMMA AdminKeeps ==
  ASSUME IInv, NEW c \in Channels, SaveConfig(c) \/ DeleteConfig(c) \/ DeleteChannel(c)
  PROVE  IInv'
<1> USE DEF IInv
<1>1. CASE SaveConfig(c)
  <2>1. PICK new \in Configs : config' = [config EXCEPT ![c] = new]
    BY <1>1 DEF SaveConfig
  <2>2. UNCHANGED <<there, snap, query, refresh>>
    BY <1>1 DEF SaveConfig
  <2>3. Typed' /\ \A d \in Channels : config'[d] = IF d = c THEN new ELSE config[d]
    BY <2>1, <2>2 DEF Typed
  <2>4. OwedIsAsked'
    BY <2>2, <2>3, ConfiguredIsNotNone DEF OwedIsAsked, Asked, Typed
  <2> QED
    BY <2>2, <2>3, <2>4 DEF Present
<1>2. CASE DeleteConfig(c) \/ DeleteChannel(c)
  <2>1. /\ config' = [config EXCEPT ![c] = NoConfig] /\ snap' = [snap EXCEPT ![c] = "none"]
        /\ refresh' = [refresh EXCEPT !.owed = @ \ {c}] /\ query' = query
        /\ there \ {c} \subseteq there' /\ there' \subseteq there
    BY <1>2 DEF DeleteConfig, DeleteChannel, Settled
  <2>2. /\ refresh' \in [on : BOOLEAN, todo : SUBSET Channels, owed : SUBSET Channels]
        /\ refresh'.owed = refresh.owed \ {c} /\ refresh'.todo = refresh.todo
    BY <2>1 DEF Typed
  <2>3. Typed'
    BY <2>1, <2>2 DEF Typed
  <2>4. Present'
    BY <2>1 DEF Typed, Present
  <2>5. OwedIsAsked'
    BY <2>1, <2>2 DEF OwedIsAsked, Asked, Typed
  <2> QED
    BY <2>3, <2>4, <2>5
<1> QED
  BY <1>1, <1>2

(* A query goes on with its channel.                                       *)
LEMMA GoingOn ==
  ASSUME IInv, NEW k \in Queries, query' \in [Queries -> Query],
         \A j \in Queries \ {k} : query'[j] = query[j],
         query'[k].at # "idle", query'[k].chan = query[k].chan,
         UNCHANGED <<rows, refresh>>
  PROVE  IInv'
<1>1. UNCHANGED <<there, config, snap, refresh>>
  BY DEF rows
<1>2. Typed' /\ Present'
  BY <1>1 DEF IInv, Typed, Present
<1>3. \A c \in Channels : Asked(c) => Asked(c)'
  BY <1>1 DEF Asked, Queries
<1>4. OwedIsAsked'
  BY <1>1, <1>3 DEF IInv, Typed, OwedIsAsked
<1> QED
  BY <1>2, <1>4 DEF IInv

LEMMA ReadingKeeps ==
  ASSUME IInv, NEW k \in Queries,
         Succeeds(k) \/ Misses(k) \/ NotSent(k) \/ Parses(k)
  PROVE  IInv'
<1>1. UNCHANGED <<rows, refresh>>
  BY DEF Succeeds, Misses, NotSent, Parses
<1>2. query[k] \in Query
  BY DEF IInv, Typed
<1>3. \E q \in Query : /\ query' = [query EXCEPT ![k] = q]
                       /\ q.at # "idle" /\ q.chan = query[k].chan
  <2>1. ASSUME NEW at \in {"parsing", "storing"}, NEW status \in {"none", "ok", "error"},
               query' = [query EXCEPT ![k].at = at, ![k].step = 0, ![k].status = status]
        PROVE  \E q \in Query : /\ query' = [query EXCEPT ![k] = q]
                                /\ q.at # "idle" /\ q.chan = query[k].chan
    <3> DEFINE q == [query[k] EXCEPT !.at = at, !.step = 0, !.status = status]
    <3>1. q \in Query /\ q.at # "idle" /\ q.chan = query[k].chan
      BY <1>2 DEF Query
    <3>2. query' = [query EXCEPT ![k] = q]
      BY <2>1
    <3> QED
      BY <3>1, <3>2
  <2>2. ASSUME NEW i \in Nat, query' = [query EXCEPT ![k].step = i], query[k].at # "idle"
        PROVE  \E q \in Query : /\ query' = [query EXCEPT ![k] = q]
                                /\ q.at # "idle" /\ q.chan = query[k].chan
    <3> DEFINE q == [query[k] EXCEPT !.step = i]
    <3>1. q \in Query /\ q.at # "idle" /\ q.chan = query[k].chan
      BY <1>2, <2>2 DEF Query
    <3>2. query' = [query EXCEPT ![k] = q]
      BY <2>2
    <3> QED
      BY <3>1, <3>2
  <2>3. ASSUME query' = [query EXCEPT ![k].at = "parsing", ![k].step = 0]
        PROVE  \E q \in Query : /\ query' = [query EXCEPT ![k] = q]
                                /\ q.at # "idle" /\ q.chan = query[k].chan
    <3> DEFINE q == [query[k] EXCEPT !.at = "parsing", !.step = 0]
    <3>1. q \in Query /\ q.at # "idle" /\ q.chan = query[k].chan
      BY <1>2 DEF Query
    <3>2. query' = [query EXCEPT ![k] = q]
      BY <2>3
    <3> QED
      BY <3>1, <3>2
  <2>4. CASE NotSent(k) \/ Parses(k)
    <3>1. \E status \in {"ok", "error"} :
            query' = [query EXCEPT ![k].at = "storing", ![k].step = 0, ![k].status = status]
      BY <2>4 DEF NotSent, Parses, Ready
    <3> QED
      BY <3>1, <2>1
  <2>5. CASE Succeeds(k) \/ Misses(k)
    <3> DEFINE plan == Plan(query[k].adapter)
               i == query[k].step
    <3>1. query[k].at = "asking"
      BY <2>5 DEF Succeeds, Misses
    <3>2. \/ query' = [query EXCEPT ![k].at = "storing", ![k].step = 0, ![k].status = "error"]
          \/ query' = [query EXCEPT ![k].at = "parsing", ![k].step = 0]
          \/ query' = [query EXCEPT ![k].step = i + 1]
      BY <2>5 DEF Succeeds, Misses, Ready
    <3>3. i + 1 \in Nat
      BY <1>2 DEF Query
    <3> QED
      BY <3>1, <3>2, <3>3, <2>1, <2>2, <2>3
  <2> QED
    BY <2>4, <2>5
<1>4. PICK q \in Query : /\ query' = [query EXCEPT ![k] = q]
                         /\ q.at # "idle" /\ q.chan = query[k].chan
  BY <1>3
<1>5. /\ query' \in [Queries -> Query] /\ query'[k] = q
      /\ \A j \in Queries \ {k} : query'[j] = query[j]
  BY <1>4 DEF IInv, Typed
<1> QED
  BY <1>1, <1>4, <1>5, GoingOn

LEMMA EndingKeeps ==
  ASSUME IInv, NEW k \in Queries, StoreSnapshot(k) \/ Fatal(k)
  PROVE  IInv'
<1> USE DEF IInv
<1> DEFINE c == query[k].chan
<1>1. /\ query' = [query EXCEPT ![k] = Idle] /\ UNCHANGED <<there, config>>
      /\ refresh' = IF k \in Slots THEN [refresh EXCEPT !.owed = @ \ {c}] ELSE refresh
      /\ snap' = snap \/ \E s \in {"none", "ok", "error"} : c \in there /\ snap' = [snap EXCEPT ![c] = s]
  BY DEF StoreSnapshot, Fatal, Settles, Settled, rows, Typed, Query
<1>2. /\ refresh' \in [on : BOOLEAN, todo : SUBSET Channels, owed : SUBSET Channels]
      /\ refresh'.owed = (IF k \in Slots THEN refresh.owed \ {c} ELSE refresh.owed)
      /\ refresh'.todo = refresh.todo
  BY <1>1 DEF Typed
<1>3. query' \in [Queries -> Query] /\ \A j \in Queries \ {k} : query'[j] = query[j]
  BY <1>1 DEF Typed, Query, Idle
<1>4. snap' \in [Channels -> {"none", "ok", "error"}]
      /\ \A d \in Channels : snap'[d] = snap[d] \/ d \in there
  BY <1>1 DEF Typed
<1>5. Typed' /\ Present'
  BY <1>1, <1>2, <1>3, <1>4 DEF Typed, Present
<1>6. OwedIsAsked'
  <2> SUFFICES ASSUME NEW d \in refresh'.owed PROVE d \in there /\ config[d] # NoConfig /\ Asked(d)'
    BY <1>1 DEF OwedIsAsked
  <2>1. d \in there /\ config[d] # NoConfig /\ Asked(d) /\ (k \in Slots => d # c)
    BY <1>2 DEF OwedIsAsked
  <2>2. CASE d \in refresh.todo
    BY <1>2, <2>2, <2>1 DEF Asked
  <2>3. ASSUME NEW j \in Slots, query[j].at # "idle", query[j].chan = d PROVE Asked(d)'
    <3>1. j # k /\ j \in Queries
      BY <2>1, <2>3 DEF Queries
    <3> QED
      BY <1>3, <2>3, <3>1 DEF Asked
  <2> QED
    BY <2>1, <2>2, <2>3 DEF Asked
<1> QED
  BY <1>5, <1>6

(* What an asker does is not the batch's.                                  *)
LEMMA AskersKeep ==
  ASSUME IInv, NEW k \in Askers, Asks(k) \/ Leaves(k)
  PROVE  IInv'
<1>0. k \in Queries /\ k \notin Slots /\ UNCHANGED <<there, config, snap, refresh>>
  BY BalanceAssumption DEF Queries, Asks, Leaves, rows
<1>1. query' \in [Queries -> Query] /\ \A j \in Queries \ {k} : query'[j] = query[j]
  <2>1. CASE Asks(k)
    <3>1. PICK c \in there : config[c] # NoConfig /\ query' = [query EXCEPT ![k] = Asking(c)]
      BY <2>1 DEF Asks
    <3>2. Asking(c) \in Query
      BY <1>0, <3>1, AskingType
    <3> QED
      BY <1>0, <3>1, <3>2 DEF IInv, Typed
  <2>2. CASE Leaves(k)
    BY <1>0, <2>2 DEF Leaves, IInv, Typed, Query, Idle
  <2> QED
    BY <2>1, <2>2
<1>2. \A j \in Slots : query'[j] = query[j]
  BY <1>0, <1>1 DEF Queries
<1>3. OwedIsAsked'
  BY <1>0, <1>2 DEF IInv, OwedIsAsked, Asked
<1> QED
  BY <1>0, <1>1, <1>3 DEF IInv, Typed, Present

LEMMA BatchKeeps ==
  ASSUME IInv, ListEnabled \/ BatchStep
  PROVE  IInv'
<1> USE DEF IInv
<1>1. CASE ListEnabled
  <2> DEFINE listed == {c \in there : config[c].enabled}
  <2>1. refresh' = [on |-> TRUE, todo |-> listed, owed |-> listed] /\ UNCHANGED <<there, config, snap, query>>
    BY <1>1 DEF ListEnabled, rows
  <2>2. \A c \in listed : config[c] # NoConfig
    BY DEF NoConfig
  <2>3. listed \subseteq Channels
    BY DEF Present
  <2>4. \A c \in listed : c \in there /\ config[c] # NoConfig
    BY <2>2
  <2> HIDE DEF listed
  <2>5. refresh'.todo = listed /\ refresh'.owed = listed
    BY <2>1
  <2>6. Typed' /\ Present'
    BY <2>1, <2>3 DEF Typed, Present
  <2>7. OwedIsAsked'
    BY <2>1, <2>4, <2>5 DEF OwedIsAsked, Asked
  <2> QED
    BY <2>6, <2>7
<1>2. CASE EndsRefresh
  <2>1. refresh' = NoBatch /\ UNCHANGED <<there, config, snap, query>>
    BY <1>2 DEF EndsRefresh, rows
  <2> QED
    BY <2>1 DEF Typed, Present, OwedIsAsked, NoBatch
<1>3. ASSUME NEW c \in Channels, Skips(c) PROVE IInv'
  <2>1. /\ refresh' = [refresh EXCEPT !.todo = @ \ {c}] /\ UNCHANGED <<there, config, snap, query>>
        /\ c \notin there \/ config[c] = NoConfig
    BY <1>3 DEF Skips, rows
  <2>2. /\ refresh' \in [on : BOOLEAN, todo : SUBSET Channels, owed : SUBSET Channels]
        /\ refresh'.owed = refresh.owed /\ refresh'.todo = refresh.todo \ {c}
    BY <2>1 DEF Typed
  <2>3. OwedIsAsked'
    BY <2>1, <2>2 DEF OwedIsAsked, Asked
  <2> QED
    BY <2>1, <2>2, <2>3 DEF Typed, Present
<1>4. ASSUME NEW c \in Channels, NEW k \in Slots, Takes(k, c) PROVE IInv'
  <2>1. /\ query[k] = Idle /\ c \in there /\ query' = [query EXCEPT ![k] = Asking(c)]
        /\ refresh' = [refresh EXCEPT !.todo = @ \ {c}] /\ UNCHANGED <<there, config, snap>>
        /\ config[c] # NoConfig
    BY <1>4 DEF Takes, rows
  <2>2. /\ refresh' \in [on : BOOLEAN, todo : SUBSET Channels, owed : SUBSET Channels]
        /\ refresh'.owed = refresh.owed /\ refresh'.todo = refresh.todo \ {c}
    BY <2>1 DEF Typed
  <2>3. Asking(c) \in Query /\ Asking(c).at # "idle" /\ Asking(c).chan = c
    BY <2>1, AskingType
  <2>4. /\ query' \in [Queries -> Query] /\ query'[k].at # "idle" /\ query'[k].chan = c
        /\ \A j \in Slots \ {k} : query'[j] = query[j]
    BY <2>1, <2>3 DEF Typed, Queries
  <2>5. \A d \in Channels : Asked(d) => Asked(d)'
    <3> SUFFICES ASSUME NEW d \in Channels, Asked(d) PROVE Asked(d)'
      OBVIOUS
    <3>1. CASE d = c
      BY <2>4, <3>1 DEF Asked
    <3>2. CASE d # c /\ d \in refresh.todo
      BY <2>2, <3>2 DEF Asked
    <3>3. ASSUME NEW j \in Slots, query[j].at # "idle", query[j].chan = d PROVE Asked(d)'
      <4>1. j # k
        BY <2>1, <3>3 DEF Idle
      <4> QED
        BY <2>4, <3>3, <4>1 DEF Asked
    <3> QED
      BY <3>1, <3>2, <3>3 DEF Asked
  <2>6. OwedIsAsked'
    BY <2>1, <2>2, <2>5 DEF OwedIsAsked, Typed
  <2> QED
    BY <2>1, <2>2, <2>4, <2>6 DEF Typed, Present
<1> QED
  BY <1>1, <1>2, <1>3, <1>4 DEF BatchStep

LEMMA NextIInv == IInv /\ [Next]_vars => IInv'
<1> SUFFICES ASSUME IInv, [Next]_vars PROVE IInv'
  OBVIOUS
<1>1. ASSUME NEW c \in Channels, SaveConfig(c) \/ DeleteConfig(c) \/ DeleteChannel(c) PROVE IInv'
  BY <1>1, AdminKeeps
<1>2. ASSUME NEW k \in Askers, Asks(k) \/ Leaves(k) PROVE IInv'
  BY <1>2, AskersKeep
<1>3. ASSUME NEW k \in Queries, QueryStep(k) PROVE IInv'
  BY <1>3, ReadingKeeps, EndingKeeps DEF QueryStep
<1>4. CASE ListEnabled \/ BatchStep
  BY <1>4, BatchKeeps
<1>5. CASE UNCHANGED vars
  BY <1>5 DEF vars, rows, IInv, Typed, Present, OwedIsAsked, Asked
<1> QED
  BY <1>1, <1>2, <1>3, <1>4, <1>5 DEF Next

LEMMA SpecIInv == Spec => []IInv
BY InitIInv, NextIInv, PTL DEF Spec

(* No balance is shown of a channel that is gone, and none that misleads   *)
(* (balance.rs:1153-1211, 1726-2195).                                      *)
THEOREM SnapshotsAreSound == Spec => []SnapshotsSound
<1>1. IInv => SnapshotsSound
  BY ReadingsAreSound DEF IInv, Present, SnapshotsSound
<1> QED
  BY <1>1, SpecIInv, PTL

(* A batch ends with nothing owed to an enabled channel that it listed     *)
(* (balance.rs:671-703).                                                   *)
THEOREM BatchOwesNothing == Spec => BatchAnswersAll
<1>1. IInv /\ [Next]_vars => [EndsRefresh => refresh.owed = {}]_vars
  <2> SUFFICES ASSUME IInv, EndsRefresh PROVE refresh.owed = {}
    OBVIOUS
  <2>1. \A c \in Channels : ~Asked(c)
    BY DEF EndsRefresh, Asked, Idle
  <2> QED
    BY <2>1 DEF IInv, Typed, OwedIsAsked
<1> QED
  BY <1>1, SpecIInv, PTL DEF Spec, BatchAnswersAll
=============================================================================
