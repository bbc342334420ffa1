------------------------- MODULE CommandCodeProofs -------------------------
(* Proofs about the two components of Command Code.  CommandCodeTransport, *)
(* for any number of requests, any capacities and any changes of setting   *)
(* and plan: the permits of every semaphore are those of the requests that *)
(* generate, and the refusal of a plan is never the answer.                *)
(* CommandCodeLogin, for any number of calls, handlers, attempts and keys: *)
(* no callback server is left without its handle, and a success on the     *)
(* page can be redeemed.                                                   *)
EXTENDS CommandCodeTransport, CommandCodeLogin, FiniteSetTheorems, SequenceTheorems, TLAPS

-----------------------------------------------------------------------------
(* The browser login.                                                      *)

(* What the two invariants rest on: the slot and the servers are what they *)
(* should be, and only an attempt that was begun has a server.             *)
Slot ==
  /\ state \in [status : {"idle", "waiting", "success", "failed"}, id : {0} \cup Ids,
                attempt : {0} \cup Attempts, shutdown : {0} \cup Attempts,
                pending : {0} \cup Ids]
  /\ made \in 0..MaxHandoffs
  /\ server \in [Attempts -> {"none", "listening", "told"}]
  /\ timers \subseteq Attempts
  /\ callback \in [Callbacks ->
       [at : {"idle", "accepted", "denied", "closed", "validating", "owner"}, n : {0} \cup Attempts]]

Rest ==
  /\ admin \in [Admins -> [at : {"idle", "binding", "importing", "saving"}, n : {0} \cup Ids]]
  /\ taken \subseteq Ids /\ lapsed \subseteq Ids

(* A call that saves a channel saves it with a key.                        *)
SavesAKey == \A u \in Admins : admin[u].at = "saving" => admin[u].n \in Ids

LoginIInv == Slot /\ Rest /\ SavesAKey /\ NoOrphanServer /\ SuccessIsRedeemable

LEMMA LoginInitIInv == LoginInit => LoginIInv
<1> SUFFICES ASSUME LoginInit PROVE LoginIInv
  OBVIOUS
<1> USE LoginAssumption
<1>1. Slot
  BY DEF LoginInit, Slot, Idle
<1>2. Rest /\ SavesAKey
  BY DEF LoginInit, Rest, SavesAKey, Idle
<1>3. NoOrphanServer /\ SuccessIsRedeemable
  BY DEF LoginInit, NoOrphanServer, SuccessIsRedeemable
<1> QED
  BY <1>1, <1>2, <1>3 DEF LoginIInv

(* The server that shutdown names is told; every other keeps what it was.  *)
LEMMA ToldServers ==
  ASSUME Slot, NoOrphanServer
  PROVE  /\ Told(state.shutdown) \in [Attempts -> {"none", "listening", "told"}]
         /\ \A a \in Attempts : Told(state.shutdown)[a] # "listening"
<1> SUFFICES ASSUME NEW a \in Attempts PROVE Told(state.shutdown)[a] # "listening"
  BY DEF Slot, Told
<1>1. CASE state.shutdown = 0
  <2>1. a # 0 /\ Told(state.shutdown) = server
    BY <1>1, LoginAssumption DEF Attempts, Told
  <2> QED
    BY <1>1, <2>1 DEF NoOrphanServer
<1>2. CASE state.shutdown # 0
  <2>1. Told(state.shutdown) = [server EXCEPT ![state.shutdown] = "told"]
    BY <1>2 DEF Told
  <2>2. CASE a = state.shutdown
    BY <2>1, <2>2 DEF Slot
  <2>3. CASE a # state.shutdown
    BY <2>1, <2>3 DEF Slot, NoOrphanServer
  <2> QED
    BY <2>2, <2>3
<1> QED
  BY <1>1, <1>2

(* What settles a failure or closes a server leaves none listening that    *)
(* the slot does not name, and no success.                                 *)
LEMMA Settling ==
  ASSUME LoginIInv, NEW a \in {0} \cup Attempts,
         SettleFailure(a) \/ CloseAttemptServer(a)
  PROVE  /\ state' \in [status : {"idle", "waiting", "success", "failed"}, id : {0} \cup Ids,
                        attempt : {0} \cup Attempts, shutdown : {0} \cup Attempts,
                        pending : {0} \cup Ids]
         /\ server' \in [Attempts -> {"none", "listening", "told"}]
         /\ NoOrphanServer'
         /\ state'.status = "success" => state' = state
<1>1. CASE ~Owns(a)
  BY <1>1 DEF LoginIInv, Slot, SettleFailure, CloseAttemptServer, NoOrphanServer
<1>2. CASE Owns(a)
  <2>1. server' = Told(state.shutdown)
    BY <1>2 DEF SettleFailure, CloseAttemptServer
  <2>2. /\ server' \in [Attempts -> {"none", "listening", "told"}]
        /\ NoOrphanServer'
    BY <2>1, ToldServers DEF LoginIInv, NoOrphanServer
  <2>3. state' \in {Failed, [state EXCEPT !.shutdown = 0]} /\ state.status = "waiting"
    BY <1>2 DEF SettleFailure, CloseAttemptServer, Owns, Waiting
  <2> QED
    BY <2>2, <2>3 DEF LoginIInv, Slot, Failed
<1> QED
  BY <1>1, <1>2

(* A key is stored.                                                        *)
LEMMA Storing ==
  ASSUME LoginIInv, StoreValidatedKey, UNCHANGED <<server, timers>>
  PROVE  /\ state' \in [status : {"idle", "waiting", "success", "failed"}, id : {0} \cup Ids,
                        attempt : {0} \cup Attempts, shutdown : {0} \cup Attempts,
                        pending : {0} \cup Ids]
         /\ made' \in 0..MaxHandoffs
         /\ NoOrphanServer' /\ SuccessIsRedeemable'
<1> USE LoginAssumption
<1>1. made + 1 \in Ids /\ made' \in 0..MaxHandoffs
  BY DEF LoginIInv, Slot, StoreValidatedKey, Ids
<1>2. state' = [state EXCEPT !.status = "success", !.id = made + 1, !.pending = made + 1]
  BY DEF StoreValidatedKey
<1> QED
  BY <1>1, <1>2 DEF LoginIInv, Slot, NoOrphanServer, SuccessIsRedeemable

-----------------------------------------------------------------------------
LEMMA AdminKeeps ==
  ASSUME LoginIInv, NEW u \in Admins, AdminStep(u)
  PROVE  LoginIInv'
<1> USE DEF LoginIInv
<1>1. CASE Begin(u) \/ GivesWay(u) \/ NoPort(u) \/ Import(u) \/ ImportRefused(u) \/ SaveRefused(u)
  <2>1. UNCHANGED <<state, made, serving, taken, lapsed>>
    BY <1>1 DEF Begin, GivesWay, NoPort, Import, ImportRefused, SaveRefused
  <2>2. \/ admin' = [admin EXCEPT ![u] = Idle]
        \/ \E p \in {"binding", "importing"} : admin' = [admin EXCEPT ![u].at = p]
    BY <1>1 DEF Begin, GivesWay, NoPort, Import, ImportRefused, SaveRefused
  <2>3. Slot' /\ NoOrphanServer' /\ SuccessIsRedeemable'
    BY <2>1 DEF serving, Slot, NoOrphanServer, SuccessIsRedeemable
  <2>4. Rest' /\ SavesAKey'
    BY <2>1, <2>2 DEF Rest, SavesAKey, Idle
  <2> QED
    BY <2>3, <2>4
<1>2. CASE TakesSlot(u)
  <2> DEFINE a == state.attempt + 1
  <2>1. /\ state' = [status |-> "waiting", id |-> 0, attempt |-> a, shutdown |-> a, pending |-> 0]
        /\ server' = [Told(state.shutdown) EXCEPT ![a] = "listening"]
        /\ timers' = timers \cup {a} /\ state.attempt < MaxAttempts
        /\ admin' = [admin EXCEPT ![u] = Idle]
        /\ UNCHANGED <<made, callback, taken, lapsed>>
    BY <1>2 DEF TakesSlot
  <2>2. a \in Attempts
    BY <2>1, LoginAssumption DEF Slot, Attempts
  <2> HIDE DEF a
  <2>3. Slot' /\ NoOrphanServer'
    BY <2>1, <2>2, ToldServers DEF Slot, NoOrphanServer
  <2>4. SuccessIsRedeemable'
    BY <2>1 DEF SuccessIsRedeemable
  <2>5. Rest' /\ SavesAKey'
    BY <2>1 DEF Rest, SavesAKey, Idle
  <2> QED
    BY <2>3, <2>4, <2>5
<1>3. CASE Imported(u)
  <2>1. StoreValidatedKey /\ admin' = [admin EXCEPT ![u] = Idle]
        /\ UNCHANGED <<server, timers, callback, taken, lapsed>>
    BY <1>3 DEF Imported, serving
  <2>2. Slot' /\ NoOrphanServer' /\ SuccessIsRedeemable'
    BY <2>1, Storing DEF Slot
  <2>3. Rest' /\ SavesAKey'
    BY <2>1 DEF Rest, SavesAKey, Idle
  <2> QED
    BY <2>2, <2>3
<1>4. ASSUME NEW i \in Ids, PeekKey(u, i) PROVE LoginIInv'
  <2>1. UNCHANGED <<made, server, timers, callback, taken, lapsed>>
    BY <1>4 DEF PeekKey, serving
  <2>2. \/ state' = state
        \/ state' = [state EXCEPT !.pending = 0] /\ state.pending \in lapsed
    BY <1>4 DEF PeekKey
  <2>3. admin' = admin \/ admin' = [admin EXCEPT ![u] = [at |-> "saving", n |-> i]]
    BY <1>4 DEF PeekKey
  <2>4. Slot' /\ NoOrphanServer' /\ SuccessIsRedeemable'
    BY <2>1, <2>2 DEF Slot, NoOrphanServer, SuccessIsRedeemable
  <2>5. Rest' /\ SavesAKey'
    BY <2>1, <2>3 DEF Rest, SavesAKey
  <2> QED
    BY <2>4, <2>5
<1>5. CASE Saved(u)
  <2> DEFINE i == admin[u].n
  <2>1. /\ admin[u].at = "saving" /\ taken' = taken \cup {i}
        /\ state' = IF state.pending = i THEN [state EXCEPT !.pending = 0] ELSE state
        /\ admin' = [admin EXCEPT ![u] = Idle]
        /\ UNCHANGED <<made, server, timers, callback, lapsed>>
    BY <1>5 DEF Saved, ConsumeKey, serving
  <2>2. i \in Ids
    BY <2>1 DEF SavesAKey
  <2> HIDE DEF i
  <2>3. Slot' /\ NoOrphanServer' /\ SuccessIsRedeemable'
    BY <2>1, <2>2 DEF Slot, NoOrphanServer, SuccessIsRedeemable
  <2>4. Rest' /\ SavesAKey'
    BY <2>1, <2>2 DEF Rest, SavesAKey, Idle
  <2> QED
    BY <2>3, <2>4
<1> QED
  BY <1>1, <1>2, <1>3, <1>4, <1>5 DEF AdminStep

LEMMA CallbackKeeps ==
  ASSUME LoginIInv, NEW k \in Callbacks, CallbackStep(k)
  PROVE  LoginIInv'
<1> USE DEF LoginIInv
<1>0. callback[k].n \in {0} \cup Attempts
  BY DEF Slot
<1>1. ASSUME NEW a \in Attempts, NEW word \in {"accepted", "denied"}, Arrives(k, a, word)
      PROVE  LoginIInv'
  <2>1. /\ callback' = [callback EXCEPT ![k] = [at |-> word, n |-> a]]
        /\ UNCHANGED <<state, made, server, timers, admin, taken, lapsed>>
    BY <1>1 DEF Arrives
  <2> QED
    BY <2>1 DEF Slot, Rest, SavesAKey, NoOrphanServer, SuccessIsRedeemable
<1>2. CASE Disowned(k) \/ Validated(k)
  <2>1. /\ UNCHANGED <<state, made, server, timers, admin, taken, lapsed>>
        /\ callback' = [callback EXCEPT ![k] = Idle] \/ callback' = [callback EXCEPT ![k].at = "owner"]
    BY <1>2 DEF Disowned, Validated, Leaves, Goes
  <2> QED
    BY <2>1 DEF Slot, Rest, SavesAKey, NoOrphanServer, SuccessIsRedeemable, Idle
<1>3. CASE Denied(k) \/ SettlesDenied(k) \/ Accepted(k) \/ NotValid(k)
  <2>1. /\ SettleFailure(callback[k].n) \/ CloseAttemptServer(callback[k].n)
        /\ UNCHANGED <<made, timers, admin, taken, lapsed>>
        /\ \/ callback' = [callback EXCEPT ![k] = Idle]
           \/ \E p \in {"closed", "validating"} : callback' = [callback EXCEPT ![k].at = p]
    BY <1>3 DEF Denied, SettlesDenied, Accepted, NotValid, Leaves, Goes
  <2>2. callback' \in [Callbacks ->
          [at : {"idle", "accepted", "denied", "closed", "validating", "owner"}, n : {0} \cup Attempts]]
    BY <2>1 DEF Slot, Idle
  <2>3. Slot' /\ NoOrphanServer'
    BY <2>1, <2>2, <1>0, Settling DEF Slot
  <2>4. SuccessIsRedeemable'
    BY <2>1, <1>0, Settling DEF SuccessIsRedeemable
  <2>5. Rest' /\ SavesAKey'
    BY <2>1 DEF Rest, SavesAKey
  <2> QED
    BY <2>3, <2>4, <2>5
<1>4. CASE Stores(k)
  <2>1. /\ StoreValidatedKey /\ callback' = [callback EXCEPT ![k] = Idle]
        /\ UNCHANGED <<server, timers, admin, taken, lapsed>>
    BY <1>4 DEF Stores, Leaves
  <2>2. Slot' /\ NoOrphanServer' /\ SuccessIsRedeemable'
    BY <2>1, Storing DEF Slot, Idle
  <2>3. Rest' /\ SavesAKey'
    BY <2>1 DEF Rest, SavesAKey
  <2> QED
    BY <2>2, <2>3
<1> QED
  BY <1>1, <1>2, <1>3, <1>4 DEF CallbackStep

LEMMA LoginNextIInv == LoginIInv /\ [LoginNext]_loginVars => LoginIInv'
<1> SUFFICES ASSUME LoginIInv, [LoginNext]_loginVars PROVE LoginIInv'
  OBVIOUS
<1> USE DEF LoginIInv
<1>1. ASSUME NEW u \in Admins, AdminStep(u) PROVE LoginIInv'
  BY <1>1, AdminKeeps
<1>2. ASSUME NEW k \in Callbacks, CallbackStep(k) PROVE LoginIInv'
  BY <1>2, CallbackKeeps
<1>3. ASSUME NEW a \in Attempts, TimesOut(a) PROVE LoginIInv'
  <2>1. /\ SettleFailure(a) /\ timers' = timers \ {a}
        /\ UNCHANGED <<made, admin, callback, taken, lapsed>>
    BY <1>3 DEF TimesOut
  <2>2. Slot' /\ NoOrphanServer'
    BY <2>1, Settling DEF Slot
  <2>3. SuccessIsRedeemable'
    BY <2>1, Settling DEF SuccessIsRedeemable
  <2> QED
    BY <2>1, <2>2, <2>3 DEF Rest, SavesAKey
<1>4. ASSUME NEW a \in Attempts, ServerFails(a) PROVE LoginIInv'
  <2>1. /\ server[a] = "listening" /\ server' = [server EXCEPT ![a] = "told"]
        /\ state' = Failed \/ state' = state
        /\ UNCHANGED <<made, timers, admin, callback, taken, lapsed>>
    BY <1>4 DEF ServerFails
  <2>2. Slot' /\ NoOrphanServer'
    BY <2>1 DEF Slot, Failed, NoOrphanServer
  <2>3. SuccessIsRedeemable'
    BY <2>1 DEF Slot, Failed, SuccessIsRedeemable
  <2> QED
    BY <2>1, <2>2, <2>3 DEF Rest, SavesAKey
<1>5. CASE Cancel
  <2>1. /\ state' = Failed /\ server' = Told(state.shutdown)
        /\ UNCHANGED <<made, timers, admin, callback, taken, lapsed>>
    BY <1>5 DEF Cancel
  <2>2. Slot' /\ NoOrphanServer'
    BY <2>1, ToldServers DEF Slot, Failed, NoOrphanServer
  <2>3. SuccessIsRedeemable'
    BY <2>1 DEF Slot, Failed, SuccessIsRedeemable
  <2> QED
    BY <2>1, <2>2, <2>3 DEF Rest, SavesAKey
<1>6. CASE Lapses
  <2>1. /\ state.pending # 0 /\ lapsed' = lapsed \cup {state.pending}
        /\ UNCHANGED <<state, made, server, timers, callback, admin, taken>>
    BY <1>6 DEF Lapses, serving
  <2> QED
    BY <2>1 DEF Slot, Rest, SavesAKey, NoOrphanServer, SuccessIsRedeemable
<1>7. CASE UNCHANGED loginVars
  BY <1>7 DEF loginVars, Slot, Rest, SavesAKey, NoOrphanServer, SuccessIsRedeemable
<1> QED
  BY <1>1, <1>2, <1>3, <1>4, <1>5, <1>6, <1>7 DEF LoginNext

LEMMA LoginSpecIInv == LoginSpec => []LoginIInv
BY LoginInitIInv, LoginNextIInv, PTL DEF LoginSpec

(* No callback server stays open that cancel, a new attempt or a timeout   *)
(* cannot close (commandcode_login.rs:264-300).                            *)
THEOREM ServersHaveHandles == LoginSpec => []NoOrphanServer
<1>1. LoginIInv => NoOrphanServer
  BY DEF LoginIInv
<1> QED
  BY <1>1, LoginSpecIInv, PTL

(* The key behind a success on the page is kept until a channel was saved  *)
(* with it or its time ran out (commandcode_login.rs:185-218).             *)
THEOREM SuccessKeepsItsKey == LoginSpec => []SuccessIsRedeemable
<1>1. LoginIInv => SuccessIsRedeemable
  BY DEF LoginIInv
<1> QED
  BY <1>1, LoginSpecIInv, PTL

-----------------------------------------------------------------------------
(* The transport and its slots.                                            *)

Words == {"new", "probing", "replied", "initialising", "fingerprint", "lifecycle",
          "waiting", "queued", "generating", "answered"} \cup Ended
Early == {"new", "probing", "replied", "initialising", "fingerprint", "lifecycle", "waiting"}
OnOldPath == {"initialising", "fingerprint", "lifecycle", "waiting", "queued", "generating"}
Holding == {"generating", "answered"}

Request == [at : Words, via : {"unknown", "provider", "generate"}, limit : Capacities,
            reply : {"none", "success", "upgrade", "error"}, sem : Nat, ok : BOOLEAN]

Shape ==
  /\ limit \in Capacities /\ known \in {"unknown", "provider", "generate"}
  /\ sems \in Seq([cap : Nat, out : SUBSET Requests])
  /\ req \in [Requests -> Request]

(* A request names a semaphore that was made, and none before it queued.   *)
Named ==
  \A r \in Requests :
    /\ req[r].sem \in 0..Len(sems)
    /\ req[r].at \in Early => req[r].sem = 0
    /\ req[r].at = "queued" => req[r].sem \in 1..Len(sems)

Finite == \A s \in 1..Len(sems) : IsFiniteSet(sems[s].out)

(* The path of the CLI is taken by requests that know it.                  *)
PathKnown == \A r \in Requests : req[r].at \in OnOldPath => req[r].via = "generate"

IInv == Shape /\ Named /\ Finite /\ PermitsReturn /\ PathKnown /\ RefusalIsNotTheAnswer

LEMMA InitIInv == Init => IInv
<1> SUFFICES ASSUME Init PROVE IInv
  OBVIOUS
<1>1. Shape
  BY TransportAssumption DEF Init, Shape, NewRequest, Request, Words
<1>2. Named
  BY DEF Init, Named, NewRequest, Early
<1>3. Finite /\ PermitsReturn
  BY DEF Init, Finite, PermitsReturn
<1>4. PathKnown /\ RefusalIsNotTheAnswer
  BY DEF Init, NewRequest, PathKnown, OnOldPath, RefusalIsNotTheAnswer
<1> QED
  BY <1>1, <1>2, <1>3, <1>4 DEF IInv

LEMMA FunctionIsSeq ==
  ASSUME NEW S, NEW n \in Nat, NEW f \in [1..n -> S]
  PROVE  f \in Seq(S) /\ Len(f) = n
OBVIOUS

(* What a semaphore of the sequence is.                                    *)
LEMMA Pool ==
  ASSUME Shape
  PROVE  /\ Len(sems) \in Nat /\ DOMAIN sems = 1..Len(sems)
         /\ \A s \in 1..Len(sems) : /\ sems[s] \in [cap : Nat, out : SUBSET Requests]
                                    /\ sems[s].cap \in Nat /\ sems[s].out \in SUBSET Requests
<1>1. sems \in Seq([cap : Nat, out : SUBSET Requests])
  BY DEF Shape
<1>2. Len(sems) \in Nat /\ DOMAIN sems = 1..Len(sems)
  BY <1>1
<1>3. \A s \in 1..Len(sems) : sems[s] \in [cap : Nat, out : SUBSET Requests]
  BY <1>1, ElementOfSeq
<1> QED
  BY <1>2, <1>3

(* A step of one request that leaves the semaphores alone, and with which  *)
(* the request neither takes up a permit nor gives one up.                 *)
Quiet(r) ==
  /\ UNCHANGED <<limit, sems>> /\ known' \in {"unknown", "provider", "generate"}
  /\ req' \in [Requests -> Request] /\ \A p \in Requests \ {r} : req'[p] = req[p]
  /\ req'[r].sem = req[r].sem /\ req'[r].at # "queued"
  /\ req'[r].at \in Early => req[r].sem = 0
  /\ req'[r].at \in Holding => req[r].at \in Holding \/ req[r].sem = 0
  /\ req[r].at \in Holding => req'[r].at \in Holding
  /\ req'[r].at \in OnOldPath => req'[r].via = "generate"
  /\ req'[r].at = "answered" /\ req'[r].reply = "upgrade" => req'[r].via = "generate"

LEMMA QuietKeeps ==
  ASSUME IInv, NEW r \in Requests, Quiet(r)
  PROVE  IInv'
<1> USE DEF IInv, Quiet
<1>1. Shape'
  BY DEF Shape
<1>2. Named' /\ Finite'
  BY DEF Named, Finite, Early
<1>3. PermitsReturn'
  <2>1. ASSUME NEW s \in DOMAIN sems, NEW p \in Requests
        PROVE  (req'[p].sem = s /\ req'[p].at \in Holding)
                 <=> (req[p].sem = s /\ req[p].at \in Holding)
    <3>1. s # 0
      BY DEF Shape
    <3>2. CASE p = r
      BY <3>1, <3>2
    <3>3. CASE p # r
      BY <3>3
    <3> QED
      BY <3>2, <3>3
  <2> QED
    BY <2>1 DEF PermitsReturn, Holding
<1>4. PathKnown'
  BY DEF PathKnown
<1>5. RefusalIsNotTheAnswer'
  BY DEF RefusalIsNotTheAnswer
<1> QED
  BY <1>1, <1>2, <1>3, <1>4, <1>5

LEMMA RoundKeeps ==
  ASSUME IInv, NEW r \in Requests,
         Begins(r) \/ NotBuilt(r) \/ ProviderAnswers(r) \/ Judges(r)
  PROVE  IInv'
<1>0. /\ req[r].at \in Early /\ req[r].sem = 0 /\ req[r].at \notin Holding
      /\ req \in [Requests -> Request] /\ req[r] \in Request
      /\ limit \in Capacities /\ known \in {"unknown", "provider", "generate"}
  BY DEF Begins, NotBuilt, ProviderAnswers, Judges, Early, Holding, IInv, Named, Shape
<1>1. CASE Begins(r)
  <2>1. /\ UNCHANGED <<limit, sems, known>>
        /\ req' = [req EXCEPT ![r].via = known, ![r].limit = limit,
                     ![r].at = IF known = "generate" THEN "initialising" ELSE "probing"]
    BY <1>1 DEF Begins, outside
  <2>2. req' \in [Requests -> Request] /\ \A p \in Requests \ {r} : req'[p] = req[p]
    BY <2>1, <1>0 DEF Request, Words
  <2>3. /\ req'[r].via = known /\ req'[r].sem = 0
        /\ req'[r].at = IF known = "generate" THEN "initialising" ELSE "probing"
    BY <2>1, <1>0 DEF Request
  <2>4. Quiet(r)
    BY <2>1, <2>2, <2>3, <1>0 DEF Quiet, Early, Holding, OnOldPath
  <2> QED
    BY <2>4, QuietKeeps
<1>2. CASE NotBuilt(r)
  <2>1. UNCHANGED <<limit, sems, known>> /\ req' = [req EXCEPT ![r].at = "failed"]
    BY <1>2 DEF NotBuilt, Moves, outside
  <2>2. req' \in [Requests -> Request] /\ \A p \in Requests \ {r} : req'[p] = req[p]
    BY <2>1, <1>0 DEF Request, Words, Ended
  <2>3. req'[r].at = "failed" /\ req'[r].sem = 0
    BY <2>1, <1>0 DEF Request
  <2>4. Quiet(r)
    BY <2>1, <2>2, <2>3, <1>0 DEF Quiet, Early, Holding, OnOldPath
  <2> QED
    BY <2>4, QuietKeeps
<1>3. CASE ProviderAnswers(r)
  <2>1. PICK reply \in {"success", "upgrade", "error"} :
          req' = [req EXCEPT ![r].at = "replied", ![r].reply = reply]
    BY <1>3 DEF ProviderAnswers
  <2>2. UNCHANGED <<limit, sems, known>>
    BY <1>3 DEF ProviderAnswers, outside
  <2>3. req' \in [Requests -> Request] /\ \A p \in Requests \ {r} : req'[p] = req[p]
    BY <2>1, <1>0 DEF Request, Words
  <2>4. req'[r].at = "replied" /\ req'[r].sem = 0
    BY <2>1, <1>0 DEF Request
  <2>5. Quiet(r)
    BY <2>2, <2>3, <2>4, <1>0 DEF Quiet, Early, Holding, OnOldPath
  <2> QED
    BY <2>5, QuietKeeps
<1>4. CASE Judges(r) /\ req[r].reply = "upgrade"
  <2>1. /\ UNCHANGED <<limit, sems>> /\ known' \in {"unknown", "provider", "generate"}
        /\ req' = [req EXCEPT ![r].via = "generate", ![r].at = "initialising", ![r].reply = "none"]
    BY <1>4, <1>0 DEF Judges, SetTransport, outside
  <2>2. req' \in [Requests -> Request] /\ \A p \in Requests \ {r} : req'[p] = req[p]
    BY <2>1, <1>0 DEF Request, Words
  <2>3. req'[r].via = "generate" /\ req'[r].at = "initialising" /\ req'[r].sem = 0
    BY <2>1, <1>0 DEF Request
  <2>4. Quiet(r)
    BY <2>1, <2>2, <2>3, <1>0 DEF Quiet, Early, Holding, OnOldPath
  <2> QED
    BY <2>4, QuietKeeps
<1>5. CASE Judges(r) /\ req[r].reply # "upgrade"
  <2>1. /\ UNCHANGED <<limit, sems>> /\ known' \in {"unknown", "provider", "generate"}
        /\ req' = [req EXCEPT ![r].at = "answered"]
    BY <1>5, <1>0 DEF Judges, SetTransport, Moves, outside
  <2>2. req' \in [Requests -> Request] /\ \A p \in Requests \ {r} : req'[p] = req[p]
    BY <2>1, <1>0 DEF Request, Words
  <2>3. req'[r].at = "answered" /\ req'[r].sem = 0 /\ req'[r].reply = req[r].reply
    BY <2>1, <1>0 DEF Request
  <2>4. Quiet(r)
    BY <2>1, <2>2, <2>3, <1>0, <1>5 DEF Quiet, Early, Holding, OnOldPath
  <2> QED
    BY <2>4, QuietKeeps
<1> QED
  BY <1>1, <1>2, <1>3, <1>4, <1>5

LEMMA InitialisationKeeps ==
  ASSUME IInv, NEW r \in Requests,
         NeedsInit(r) \/ InitUnreadable(r) \/ PostsFingerprint(r) \/ PostsLifecycle(r)
  PROVE  IInv'
<1>0. /\ req[r].at \in Early /\ req[r].sem = 0 /\ req[r].at \notin Holding
      /\ req[r].via = "generate" /\ req \in [Requests -> Request] /\ req[r] \in Request
      /\ known \in {"unknown", "provider", "generate"}
  BY DEF NeedsInit, InitUnreadable, PostsFingerprint, PostsLifecycle, Early, Holding,
         IInv, Named, PathKnown, OnOldPath, Shape
<1>1. \E to \in {"waiting", "fingerprint", "lifecycle"} :
        \/ req' = [req EXCEPT ![r].at = to]
        \/ \E ok \in BOOLEAN : req' = [req EXCEPT ![r].at = to, ![r].ok = ok]
  <2>1. CASE NeedsInit(r)
    BY <2>1 DEF NeedsInit
  <2>2. CASE InitUnreadable(r) \/ PostsLifecycle(r)
    BY <2>2 DEF InitUnreadable, PostsLifecycle, Moves
  <2>3. CASE PostsFingerprint(r)
    BY <2>3 DEF PostsFingerprint
  <2> QED
    BY <2>1, <2>2, <2>3
<1>2. PICK to \in {"waiting", "fingerprint", "lifecycle"} :
        \/ req' = [req EXCEPT ![r].at = to]
        \/ \E ok \in BOOLEAN : req' = [req EXCEPT ![r].at = to, ![r].ok = ok]
  BY <1>1
<1>3. UNCHANGED <<limit, sems, known>>
  BY DEF NeedsInit, InitUnreadable, PostsFingerprint, PostsLifecycle, outside
<1>4. /\ req' \in [Requests -> Request] /\ \A p \in Requests \ {r} : req'[p] = req[p]
      /\ req'[r].at = to /\ req'[r].via = "generate" /\ req'[r].sem = 0
  <2>1. CASE req' = [req EXCEPT ![r].at = to]
    BY <2>1, <1>0 DEF Request, Words
  <2>2. CASE \E ok \in BOOLEAN : req' = [req EXCEPT ![r].at = to, ![r].ok = ok]
    <3>1. PICK ok \in BOOLEAN : req' = [req EXCEPT ![r].at = to, ![r].ok = ok]
      BY <2>2
    <3>2. req' = [req EXCEPT ![r] = [req[r] EXCEPT !.at = to, !.ok = ok]]
      BY <3>1, <1>0
    <3>3. [req[r] EXCEPT !.at = to, !.ok = ok] \in Request
      BY <1>0 DEF Request, Words
    <3> QED
      BY <3>2, <3>3, <1>0 DEF Request
  <2> QED
    BY <1>2, <2>1, <2>2
<1>5. Quiet(r)
  BY <1>0, <1>3, <1>4 DEF Quiet, Early, Holding, OnOldPath
<1> QED
  BY <1>5, QuietKeeps

(* What a request that moves to another place keeps.                       *)
LEMMA Moved ==
  ASSUME req \in [Requests -> Request], NEW r \in Requests, NEW to \in Words,
         req' = [req EXCEPT ![r].at = to]
  PROVE  /\ req' \in [Requests -> Request]
         /\ req'[r].at = to /\ req'[r].sem = req[r].sem /\ req'[r].via = req[r].via
         /\ \A p \in Requests \ {r} : req'[p] = req[p]
<1> DEFINE moved == [req[r] EXCEPT !.at = to]
<1>1. req[r] \in Request
  OBVIOUS
<1>2. moved \in Request /\ moved.at = to /\ moved.sem = req[r].sem /\ moved.via = req[r].via
  BY <1>1 DEF Request
<1>3. req' = [req EXCEPT ![r] = moved]
  OBVIOUS
<1> HIDE DEF moved
<1> QED
  BY <1>2, <1>3

(* A request whose path is known, or of no concern, leaves the others be.  *)
LEMMA PathsStay ==
  ASSUME IInv, NEW r \in Requests, \A p \in Requests \ {r} : req'[p] = req[p],
         req'[r].via = "generate" \/ req'[r].at \notin OnOldPath \cup {"answered"}
  PROVE  PathKnown' /\ RefusalIsNotTheAnswer'
<1>1. ASSUME NEW p \in Requests
      PROVE  /\ req'[p].at \in OnOldPath => req'[p].via = "generate"
             /\ req'[p].at = "answered" /\ req'[p].reply = "upgrade" => req'[p].via = "generate"
  <2>1. CASE p = r
    BY <2>1
  <2>2. CASE p # r
    <3>1. req'[p] = req[p]
      BY <2>2
    <3> QED
      BY <3>1 DEF IInv, PathKnown, RefusalIsNotTheAnswer
  <2> QED
    BY <2>1, <2>2
<1> QED
  BY <1>1 DEF PathKnown, RefusalIsNotTheAnswer

LEMMA PicksKeeps ==
  ASSUME IInv, NEW r \in Requests, PicksSemaphore(r)
  PROVE  IInv'
<1> USE DEF IInv
<1>1. /\ req[r].at = "waiting" /\ req[r].sem = 0 /\ req[r].via = "generate"
  BY DEF PicksSemaphore, Named, Early, PathKnown, OnOldPath
<1>2. /\ req' = [req EXCEPT ![r].at = "queued", ![r].sem = Len(sems')]
      /\ UNCHANGED <<limit, known>>
      /\ \/ sems' = sems /\ sems # <<>>
         \/ sems' = Append(sems, [cap |-> req[r].limit, out |-> {}])
  BY DEF PicksSemaphore, outside
<1>3. req[r].limit \in Nat
  BY TransportAssumption DEF Shape, Request
<1>4. /\ sems' \in Seq([cap : Nat, out : SUBSET Requests])
      /\ Len(sems) \in Nat /\ Len(sems') \in Nat \ {0} /\ Len(sems') >= Len(sems)
      /\ DOMAIN sems = 1..Len(sems) /\ DOMAIN sems' = 1..Len(sems')
      /\ \A s \in 1..Len(sems) : sems'[s] = sems[s]
      /\ \A s \in 1..Len(sems') : s \notin 1..Len(sems) =>
           sems'[s] = [cap |-> req[r].limit, out |-> {}]
  <2>1. CASE sems' = sems /\ sems # <<>>
    BY <2>1 DEF Shape
  <2>2. CASE sems' = Append(sems, [cap |-> req[r].limit, out |-> {}])
    BY <2>2, <1>3 DEF Shape
  <2> QED
    BY <1>2, <2>1, <2>2
<1>5. \A p \in Requests : req'[p] = IF p = r
        THEN [req[r] EXCEPT !.at = "queued", !.sem = Len(sems')] ELSE req[p]
  BY <1>2 DEF Shape, Request
<1>5a. req'[r].at = "queued" /\ req'[r].sem = Len(sems') /\ req'[r].via = req[r].via
  <2>1. req[r] \in Request
    BY DEF Shape
  <2> QED
    BY <1>5, <2>1 DEF Request
<1>6. Shape'
  <2>1. [req[r] EXCEPT !.at = "queued", !.sem = Len(sems')] \in Request
    <3>1. req[r] \in Request /\ "queued" \in Words /\ Len(sems') \in Nat
      BY <1>4 DEF Shape, Words
    <3> QED
      BY <3>1 DEF Request
  <2>2. req' \in [Requests -> Request]
    BY <1>2, <2>1 DEF Shape
  <2> QED
    BY <1>2, <1>4, <2>2 DEF Shape
<1>7. Named'
  <2> SUFFICES ASSUME NEW p \in Requests
               PROVE  /\ req'[p].sem \in 0..Len(sems')
                      /\ req'[p].at \in Early => req'[p].sem = 0
                      /\ req'[p].at = "queued" => req'[p].sem \in 1..Len(sems')
    BY DEF Named
  <2>1. CASE p = r
    <3>1. req'[p].at = "queued" /\ req'[p].sem = Len(sems')
      BY <2>1, <1>5a
    <3> QED
      BY <3>1, <1>4 DEF Early
  <2>2. CASE p # r
    <3>1. req'[p] = req[p]
      BY <2>2, <1>5
    <3> QED
      BY <3>1, <1>4 DEF Named
  <2> QED
    BY <2>1, <2>2
<1>8. Finite'
  <2> SUFFICES ASSUME NEW s \in 1..Len(sems') PROVE IsFiniteSet(sems'[s].out)
    BY DEF Finite
  <2>1. CASE s \in 1..Len(sems)
    <3>1. sems'[s] = sems[s]
      BY <2>1, <1>4
    <3> QED
      BY <2>1, <3>1 DEF Finite
  <2>2. CASE s \notin 1..Len(sems)
    <3>1. sems'[s].out = {}
      BY <2>2, <1>4
    <3> QED
      BY <3>1, FS_EmptySet
  <2> QED
    BY <2>1, <2>2
<1>9. PermitsReturn'
  <2> SUFFICES ASSUME NEW s \in DOMAIN sems'
               PROVE  /\ Cardinality(sems'[s].out) <= sems'[s].cap
                      /\ sems'[s].out = {p \in Requests : req'[p].sem = s /\ req'[p].at \in Holding}
    BY DEF PermitsReturn, Holding
  <2>0. s \in 1..Len(sems')
    BY <1>4
  <2>1. CASE s \in 1..Len(sems)
    <3>1. ASSUME NEW p \in Requests
          PROVE  (req'[p].sem = s /\ req'[p].at \in Holding)
                   <=> (req[p].sem = s /\ req[p].at \in Holding)
      <4>1. CASE p = r
        BY <4>1, <1>1, <1>5a DEF Holding
      <4>2. CASE p # r
        BY <4>2, <1>5
      <4> QED
        BY <4>1, <4>2
    <3> QED
      <4>1. sems'[s] = sems[s] /\ s \in DOMAIN sems
        BY <2>1, <1>4
      <4> QED
        BY <3>1, <4>1 DEF PermitsReturn, Holding
  <2>2. CASE s \notin 1..Len(sems)
    <3>1. sems'[s] = [cap |-> req[r].limit, out |-> {}]
      BY <2>0, <2>2, <1>4
    <3>2. \A p \in Requests : ~(req'[p].sem = s /\ req'[p].at \in Holding)
      <4> SUFFICES ASSUME NEW p \in Requests, req'[p].sem = s
                   PROVE  req'[p].at \notin Holding
        OBVIOUS
      <4>1. CASE p = r
        BY <4>1, <1>5a DEF Holding
      <4>2. CASE p # r
        <5>1. req[p].sem = s /\ req[p].sem \in 0..Len(sems)
          BY <4>2, <1>5 DEF Named
        <5> QED
          BY <5>1, <2>0, <2>2, <1>4
      <4> QED
        BY <4>1, <4>2
    <3> QED
      BY <3>1, <3>2, <1>3, FS_EmptySet
  <2> QED
    BY <2>1, <2>2
<1>10. PathKnown' /\ RefusalIsNotTheAnswer'
  BY <1>1, <1>5, <1>5a, PathsStay
<1> QED
  BY <1>6, <1>7, <1>8, <1>9, <1>10

LEMMA AcquiresKeeps ==
  ASSUME IInv, NEW r \in Requests, Acquires(r)
  PROVE  IInv'
<1> USE DEF IInv
<1> DEFINE sem == req[r].sem
<1>1. /\ req[r].at = "queued" /\ sem \in 1..Len(sems) /\ req[r].via = "generate"
      /\ Cardinality(sems[sem].out) < sems[sem].cap
  BY DEF Acquires, Named, PathKnown, OnOldPath
<1>2. /\ req' = [req EXCEPT ![r].at = "generating"] /\ UNCHANGED <<limit, known>>
      /\ sems' = [sems EXCEPT ![sem].out = @ \cup {r}]
  BY DEF Acquires, Moves, outside
<1> DEFINE more == [sems[sem] EXCEPT !.out = @ \cup {r}]
<1>0. /\ \A s \in 1..Len(sems) : sems[s].cap \in Nat /\ sems[s].out \in SUBSET Requests
      /\ Len(sems) \in Nat /\ DOMAIN sems = 1..Len(sems)
  BY Pool
<1>a. /\ more \in [cap : Nat, out : SUBSET Requests]
      /\ more.out = sems[sem].out \cup {r} /\ more.cap = sems[sem].cap
  <2>1. sems[sem] \in [cap : Nat, out : SUBSET Requests]
    BY <1>1, Pool
  <2> QED
    BY <2>1
<1>b. sems' = [sems EXCEPT ![sem] = more]
  BY <1>2
<1> HIDE DEF more
<1>3. /\ sems' \in Seq([cap : Nat, out : SUBSET Requests]) /\ Len(sems') = Len(sems)
      /\ DOMAIN sems' = 1..Len(sems)
      /\ \A s \in 1..Len(sems) : sems'[s] = IF s = sem THEN more ELSE sems[s]
  BY <1>0, <1>1, <1>a, <1>b DEF Shape
<1>4. /\ req' \in [Requests -> Request]
      /\ req'[r].at = "generating" /\ req'[r].sem = sem /\ req'[r].via = req[r].via
      /\ \A p \in Requests \ {r} : req'[p] = req[p]
  <2>1. req \in [Requests -> Request] /\ "generating" \in Words
    BY DEF Shape, Words
  <2> QED
    BY <1>2, <2>1, Moved
<1>5. Shape'
  BY <1>2, <1>3, <1>4 DEF Shape
<1>6. Named'
  <2> SUFFICES ASSUME NEW p \in Requests
               PROVE  /\ req'[p].sem \in 0..Len(sems)
                      /\ req'[p].at \in Early => req'[p].sem = 0
                      /\ req'[p].at = "queued" => req'[p].sem \in 1..Len(sems)
    BY <1>3 DEF Named
  <2>1. CASE p = r
    BY <2>1, <1>0, <1>1, <1>4 DEF Early
  <2>2. CASE p # r
    <3>1. req'[p] = req[p]
      BY <2>2, <1>4
    <3> QED
      BY <3>1 DEF Named
  <2> QED
    BY <2>1, <2>2
<1>7. IsFiniteSet(sems[sem].out) /\ r \notin sems[sem].out
  <2>1. IsFiniteSet(sems[sem].out)
    BY <1>1 DEF Finite
  <2>2. sems[sem].out = {p \in Requests : req[p].sem = sem /\ req[p].at \in {"generating", "answered"}}
    BY <1>0, <1>1 DEF PermitsReturn
  <2> QED
    BY <1>1, <2>1, <2>2
<1>8. /\ IsFiniteSet(sems[sem].out \cup {r})
      /\ Cardinality(sems[sem].out \cup {r}) = Cardinality(sems[sem].out) + 1
  BY <1>7, FS_AddElement
<1>9. Finite'
  BY <1>3, <1>8, <1>a DEF Finite
<1>10. PermitsReturn'
  <2> SUFFICES ASSUME NEW s \in 1..Len(sems)
               PROVE  /\ Cardinality(sems'[s].out) <= sems'[s].cap
                      /\ sems'[s].out = {p \in Requests : req'[p].sem = s /\ req'[p].at \in Holding}
    BY <1>3 DEF PermitsReturn, Holding
  <2>1. /\ Cardinality(sems[s].out) <= sems[s].cap
        /\ sems[s].out = {p \in Requests : req[p].sem = s /\ req[p].at \in Holding}
    BY DEF PermitsReturn, Holding, Shape, Request
  <2>2. CASE s = sem
    <3>1. sems'[s].out = sems[s].out \cup {r} /\ sems'[s].cap = sems[s].cap
      BY <2>2, <1>3, <1>a
    <3>2. sems[s].cap \in Nat /\ Cardinality(sems[s].out) \in Nat
      BY <2>2, <1>0, <1>7, FS_CardinalityType
    <3>3. {p \in Requests : req'[p].sem = s /\ req'[p].at \in Holding}
            = {p \in Requests : req[p].sem = s /\ req[p].at \in Holding} \cup {r}
      <4>1. ASSUME NEW p \in Requests \ {r}
            PROVE  (req'[p].sem = s /\ req'[p].at \in Holding)
                     <=> (req[p].sem = s /\ req[p].at \in Holding)
        BY <1>4
      <4>2. req'[r].sem = s /\ req'[r].at \in Holding
        BY <2>2, <1>4 DEF Holding
      <4> QED
        BY <4>1, <4>2
    <3> QED
      <4>1. Cardinality(sems'[s].out) = Cardinality(sems[s].out) + 1
        BY <2>2, <3>1, <1>8
      <4>2. Cardinality(sems[s].out) < sems[s].cap
        BY <2>2, <1>1
      <4> QED
        BY <2>1, <3>1, <3>2, <3>3, <4>1, <4>2
  <2>3. CASE s # sem
    <3>1. {p \in Requests : req'[p].sem = s /\ req'[p].at \in Holding}
            = {p \in Requests : req[p].sem = s /\ req[p].at \in Holding}
      <4>1. ASSUME NEW p \in Requests
            PROVE  (req'[p].sem = s /\ req'[p].at \in Holding)
                     <=> (req[p].sem = s /\ req[p].at \in Holding)
        <5>1. CASE p = r
          BY <5>1, <2>3, <1>4
        <5>2. CASE p # r
          BY <5>2, <1>4
        <5> QED
          BY <5>1, <5>2
      <4> QED
        BY <4>1
    <3> QED
      BY <2>1, <2>3, <3>1, <1>3
  <2> QED
    BY <2>2, <2>3
<1>11. PathKnown' /\ RefusalIsNotTheAnswer'
  BY <1>1, <1>4, PathsStay
<1> QED
  BY <1>5, <1>6, <1>9, <1>10, <1>11

(* The request ends and its permit, if it has one, goes back.              *)
LEMMA Releasing ==
  ASSUME IInv, NEW r \in Requests, NEW to \in {"failed", "done"},
         Moves(r, to), sems' = Released(r), UNCHANGED <<limit, known>>
  PROVE  IInv'
<1> USE DEF IInv
<1>0. /\ \A s \in 1..Len(sems) : sems[s].cap \in Nat /\ sems[s].out \in SUBSET Requests
      /\ \A s \in 1..Len(sems) : sems[s] \in [cap : Nat, out : SUBSET Requests]
      /\ Len(sems) \in Nat /\ DOMAIN sems = 1..Len(sems)
  BY Pool
<1>a. \A s \in 1..Len(sems) :
        LET less == [sems[s] EXCEPT !.out = @ \ {r}] IN
          /\ less \in [cap : Nat, out : SUBSET Requests]
          /\ less.out = sems[s].out \ {r} /\ less.cap = sems[s].cap
  BY <1>0
<1>b. sems' = [s \in 1..Len(sems) |-> [sems[s] EXCEPT !.out = @ \ {r}]]
  BY <1>0 DEF Released
<1>1. /\ sems' \in Seq([cap : Nat, out : SUBSET Requests]) /\ Len(sems') = Len(sems)
      /\ DOMAIN sems' = 1..Len(sems)
      /\ \A s \in 1..Len(sems) :
           sems'[s].out = sems[s].out \ {r} /\ sems'[s].cap = sems[s].cap
  <2>1. sems' \in [1..Len(sems) -> [cap : Nat, out : SUBSET Requests]]
    BY <1>a, <1>b
  <2>2. sems' \in Seq([cap : Nat, out : SUBSET Requests]) /\ Len(sems') = Len(sems)
    <3> DEFINE Pools == [cap : Nat, out : SUBSET Requests]
    <3>1. sems' \in [1..Len(sems) -> Pools] /\ Len(sems) \in Nat
      BY <1>0, <2>1
    <3> HIDE DEF Pools
    <3>2. sems' \in Seq(Pools) /\ Len(sems') = Len(sems)
      BY <3>1, FunctionIsSeq
    <3> QED
      BY <3>2 DEF Pools
  <2>3. DOMAIN sems' = 1..Len(sems)
    BY <2>1
  <2>4. \A s \in 1..Len(sems) : sems'[s] = [sems[s] EXCEPT !.out = @ \ {r}]
    BY <1>b
  <2> QED
    BY <1>a, <2>2, <2>3, <2>4
<1>2. /\ req' \in [Requests -> Request]
      /\ req'[r].at = to /\ req'[r].sem = req[r].sem
      /\ \A p \in Requests \ {r} : req'[p] = req[p]
  <2>1. req \in [Requests -> Request] /\ to \in Words /\ req' = [req EXCEPT ![r].at = to]
    BY DEF Shape, Words, Ended, Moves
  <2> QED
    BY <2>1, Moved
<1>3. Shape'
  BY <1>1, <1>2 DEF Shape
<1>4. Named'
  <2> SUFFICES ASSUME NEW p \in Requests
               PROVE  /\ req'[p].sem \in 0..Len(sems)
                      /\ req'[p].at \in Early => req'[p].sem = 0
                      /\ req'[p].at = "queued" => req'[p].sem \in 1..Len(sems)
    BY <1>1 DEF Named
  <2>1. CASE p = r
    BY <2>1, <1>2 DEF Named, Early
  <2>2. CASE p # r
    <3>1. req'[p] = req[p]
      BY <2>2, <1>2
    <3> QED
      BY <3>1 DEF Named
  <2> QED
    BY <2>1, <2>2
<1>5. \A s \in 1..Len(sems) : /\ IsFiniteSet(sems[s].out \ {r})
                              /\ Cardinality(sems[s].out \ {r}) <= Cardinality(sems[s].out)
  BY FS_Subset DEF Finite
<1>6. Finite'
  BY <1>1, <1>5 DEF Finite
<1>7. PermitsReturn'
  <2> SUFFICES ASSUME NEW s \in 1..Len(sems)
               PROVE  /\ Cardinality(sems'[s].out) <= sems'[s].cap
                      /\ sems'[s].out = {p \in Requests : req'[p].sem = s /\ req'[p].at \in Holding}
    BY <1>1 DEF PermitsReturn, Holding
  <2>1. /\ Cardinality(sems[s].out) <= sems[s].cap
        /\ sems[s].out = {p \in Requests : req[p].sem = s /\ req[p].at \in Holding}
    BY DEF PermitsReturn, Holding, Shape, Request
  <2>2. /\ sems[s].cap \in Nat /\ Cardinality(sems[s].out) \in Nat
        /\ Cardinality(sems[s].out \ {r}) \in Nat
    BY <1>0, <1>5, FS_CardinalityType DEF Finite
  <2>3. {p \in Requests : req'[p].sem = s /\ req'[p].at \in Holding}
          = {p \in Requests : req[p].sem = s /\ req[p].at \in Holding} \ {r}
    <3>1. ASSUME NEW p \in Requests \ {r}
          PROVE  (req'[p].sem = s /\ req'[p].at \in Holding)
                   <=> (req[p].sem = s /\ req[p].at \in Holding)
      BY <1>2
    <3>2. req'[r].at \notin Holding
      BY <1>2 DEF Holding
    <3> QED
      BY <3>1, <3>2
  <2> QED
    <3>1. sems'[s].out = sems[s].out \ {r} /\ sems'[s].cap = sems[s].cap
      BY <1>1
    <3>2. Cardinality(sems[s].out \ {r}) <= Cardinality(sems[s].out)
      BY <1>5
    <3> QED
      BY <2>1, <2>2, <2>3, <3>1, <3>2
<1>8. PathKnown' /\ RefusalIsNotTheAnswer'
  <2>1. req'[r].at \notin OnOldPath \cup {"answered"}
    BY <1>2 DEF OnOldPath
  <2> QED
    BY <1>2, <2>1, PathsStay
<1> QED
  BY <1>3, <1>4, <1>6, <1>7, <1>8

LEMMA SlotKeeps ==
  ASSUME IInv, NEW r \in Requests, SlotTimesOut(r) \/ GenerateAnswers(r)
  PROVE  IInv'
<1>0. /\ req \in [Requests -> Request] /\ req[r] \in Request
      /\ known \in {"unknown", "provider", "generate"}
  BY DEF IInv, Shape
<1>1. CASE SlotTimesOut(r)
  <2>1. /\ UNCHANGED <<limit, sems, known>> /\ req' = [req EXCEPT ![r].at = "failed"]
        /\ req[r].at = "queued"
    BY <1>1 DEF SlotTimesOut, Moves, outside
  <2>2. req' \in [Requests -> Request] /\ \A p \in Requests \ {r} : req'[p] = req[p]
    BY <2>1, <1>0 DEF Request, Words, Ended
  <2>3. req'[r].at = "failed" /\ req'[r].sem = req[r].sem
    BY <2>1, <1>0 DEF Request
  <2>4. Quiet(r)
    BY <2>1, <2>2, <2>3, <1>0 DEF Quiet, Early, Holding, OnOldPath
  <2> QED
    BY <2>4, QuietKeeps
<1>2. CASE GenerateAnswers(r)
  <2>1. PICK reply \in {"success", "upgrade", "error"} :
          req' = [req EXCEPT ![r].at = "answered", ![r].reply = reply]
    BY <1>2 DEF GenerateAnswers
  <2>2. /\ UNCHANGED <<limit, sems, known>>
        /\ req[r].at = "generating" /\ req[r].via = "generate"
    BY <1>2 DEF GenerateAnswers, outside, IInv, PathKnown, OnOldPath
  <2>3. req' \in [Requests -> Request] /\ \A p \in Requests \ {r} : req'[p] = req[p]
    BY <2>1, <1>0 DEF Request, Words
  <2>4. req'[r].at = "answered" /\ req'[r].sem = req[r].sem /\ req'[r].via = "generate"
    BY <2>1, <2>2, <1>0 DEF Request
  <2>5. Quiet(r)
    BY <2>2, <2>3, <2>4, <1>0 DEF Quiet, Early, Holding, OnOldPath
  <2> QED
    BY <2>5, QuietKeeps
<1> QED
  BY <1>1, <1>2

LEMMA NextIInv == IInv /\ [Next]_vars => IInv'
<1> SUFFICES ASSUME IInv, [Next]_vars PROVE IInv'
  OBVIOUS
<1>1. CASE Changes
  <2>1. UNCHANGED <<known, sems, req>> /\ limit' \in Capacities
    BY <1>1 DEF Changes, SetLimit, PlanChanges, InitExpires, IInv, Shape
  <2> QED
    BY <2>1 DEF IInv, Shape, Named, Finite, PermitsReturn, PathKnown, RefusalIsNotTheAnswer
<1>2. ASSUME NEW r \in Requests, Begins(r) \/ Step(r) \/ Drops(r) PROVE IInv'
  <2>1. CASE Begins(r) \/ NotBuilt(r) \/ ProviderAnswers(r) \/ Judges(r)
    BY <2>1, RoundKeeps
  <2>2. CASE NeedsInit(r) \/ InitUnreadable(r) \/ PostsFingerprint(r) \/ PostsLifecycle(r)
    BY <2>2, InitialisationKeeps
  <2>3. CASE PicksSemaphore(r) \/ Acquires(r)
    BY <2>3, PicksKeeps, AcquiresKeeps
  <2>4. CASE SlotTimesOut(r) \/ GenerateAnswers(r)
    BY <2>4, SlotKeeps
  <2>5. CASE SendFails(r) \/ Drops(r)
    BY <2>5, Releasing DEF SendFails, Drops, outside
  <2> QED
    BY <1>2, <2>1, <2>2, <2>3, <2>4, <2>5 DEF Step
<1>3. CASE UNCHANGED vars
  BY <1>3 DEF vars, IInv, Shape, Named, Finite, PermitsReturn, PathKnown, RefusalIsNotTheAnswer
<1> QED
  BY <1>1, <1>2, <1>3 DEF Next

LEMMA SpecIInv == Spec => []IInv
BY InitIInv, NextIInv, PTL DEF Spec

(* However many semaphores a changing setting has left behind, the permits *)
(* out of each are those of the requests under way with it, and never more *)
(* than it had (proxy/commandcode.rs:49-70, 309-340).                      *)
THEOREM PermitsAlwaysReturn == Spec => []PermitsReturn
<1>1. IInv => PermitsReturn
  BY DEF IInv
<1> QED
  BY <1>1, SpecIInv, PTL

(* No client is shown the Provider API's refusal of a plan                 *)
(* (proxy/commandcode.rs:245-285).                                         *)
THEOREM RefusalIsGotAround == Spec => []RefusalIsNotTheAnswer
<1>1. IInv => RefusalIsNotTheAnswer
  BY DEF IInv
<1> QED
  BY <1>1, SpecIInv, PTL
=============================================================================
