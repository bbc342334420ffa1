-------------------------- MODULE CommandCodeLogin --------------------------
(***************************************************************************)
(* The browser login of Command Code (commandcode_login.rs): one slot,     *)
(* behind a lock, that holds the status the page polls, the current        *)
(* attempt, the means to close its callback server, and the validated key  *)
(* that waits to be taken over by a channel.  Around it: the calls of the  *)
(* administration API, the callback servers of all attempts, the handlers  *)
(* of callbacks and the timeout of each attempt.  An attempt is its        *)
(* number, a key the number of its login_id; 0 stands for none.            *)
(***************************************************************************)
EXTENDS Integers

CONSTANTS
  Admins,        \* calls of the administration API that may be under way
  Callbacks,     \* callback handlers that may be under way
  MaxAttempts,   \* bound: logins begun
  MaxHandoffs    \* bound: keys stored

ASSUME LoginAssumption == MaxAttempts \in Nat /\ MaxHandoffs \in Nat

VARIABLES
  state,     \* State_: status, attempt, shutdown (whose server it closes), pending
  made,      \* the login_ids given out
  server,    \* server[a]: the callback server of attempt a
  timers,    \* the attempts whose timeout still sleeps
  admin,     \* admin[u]: how far call u is
  callback,  \* callback[k]: how far handler k is, and for which attempt
  taken,     \* login_ids with which a channel was saved
  lapsed     \* login_ids whose time has run out

loginVars == <<state, made, server, timers, admin, callback, taken, lapsed>>
serving == <<server, timers, callback>>

Attempts == 1..MaxAttempts
Ids == 1..MaxHandoffs
Idle == [at |-> "idle", n |-> 0]

LoginTypeOK ==
  /\ state \in [status : {"idle", "waiting", "success", "failed"}, id : {0} \cup Ids,
                attempt : {0} \cup Attempts, shutdown : {0} \cup Attempts,
                pending : {0} \cup Ids]
  /\ made \in 0..MaxHandoffs
  /\ server \in [Attempts -> {"none", "listening", "told"}]
  /\ timers \subseteq Attempts
  /\ admin \in [Admins -> [at : {"idle", "binding", "importing", "saving"}, n : {0} \cup Ids]]
  /\ callback \in [Callbacks ->
       [at : {"idle", "accepted", "denied", "closed", "validating", "owner"}, n : {0} \cup Attempts]]
  /\ taken \subseteq Ids /\ lapsed \subseteq Ids

LoginInit ==
  /\ state = [status |-> "idle", id |-> 0, attempt |-> 0, shutdown |-> 0, pending |-> 0]
  /\ made = 0
  /\ server = [a \in Attempts |-> "none"] /\ timers = {}
  /\ admin = [u \in Admins |-> Idle] /\ callback = [k \in Callbacks |-> Idle]
  /\ taken = {} /\ lapsed = {}

-----------------------------------------------------------------------------
(* The critical sections of the slot.                                      *)
Waiting == state.status = "waiting"
Joinable == Waiting /\ state.shutdown # 0
Owns(a) == state.attempt = a /\ Waiting

(* The receiver of the oneshot: the server stops accepting.                *)
Told(a) == IF a = 0 THEN server ELSE [server EXCEPT ![a] = "told"]

Failed == [state EXCEPT !.status = "failed", !.shutdown = 0]

(* settle_failure: only while the attempt is current and waits.            *)
SettleFailure(a) ==
  IF Owns(a) THEN state' = Failed /\ server' = Told(state.shutdown)
  ELSE UNCHANGED <<state, server>>

(* Mutant: the handle of the attempt is forgotten along the way.           *)
StoreForgetsServer ==
  /\ made < MaxHandoffs /\ made' = made + 1
  /\ state' = [state EXCEPT !.status = "success", !.id = made + 1, !.pending = made + 1,
                            !.shutdown = 0]

(* store_validated_key: whoever calls it has the last word.                *)
StoreValidatedKey ==
  /\ made < MaxHandoffs /\ made' = made + 1
  /\ state' = [state EXCEPT !.status = "success", !.id = made + 1, !.pending = made + 1]

-----------------------------------------------------------------------------
(* begin: join the attempt that waits, or bind a port first ...            *)
Begin(u) ==
  /\ admin[u] = Idle
  /\ ~Joinable
  /\ admin' = [admin EXCEPT ![u].at = "binding"]
  /\ UNCHANGED <<state, made, serving, taken, lapsed>>

(* ... and ask again: the later of two gives way, its listener is dropped, *)
GivesWay(u) ==
  /\ admin[u].at = "binding" /\ Joinable
  /\ admin' = [admin EXCEPT ![u] = Idle]
  /\ UNCHANGED <<state, made, serving, taken, lapsed>>

(* Mutant: the timeout of the attempt is never started.                    *)
TakesSlotUntimed(u) ==
  /\ admin[u].at = "binding" /\ ~Joinable /\ state.attempt < MaxAttempts
  /\ LET a == state.attempt + 1 IN
       /\ state' = [status |-> "waiting", id |-> 0, attempt |-> a, shutdown |-> a, pending |-> 0]
       /\ server' = [Told(state.shutdown) EXCEPT ![a] = "listening"]
  /\ admin' = [admin EXCEPT ![u] = Idle]
  /\ UNCHANGED <<made, timers, callback, taken, lapsed>>

(* or the attempt takes the slot and voids a key nobody has taken.         *)
TakesSlot(u) ==
  /\ admin[u].at = "binding" /\ ~Joinable /\ state.attempt < MaxAttempts
  /\ LET a == state.attempt + 1 IN
       /\ state' = [status |-> "waiting", id |-> 0, attempt |-> a, shutdown |-> a, pending |-> 0]
       /\ server' = [Told(state.shutdown) EXCEPT ![a] = "listening"]
       /\ timers' = timers \cup {a}
  /\ admin' = [admin EXCEPT ![u] = Idle]
  /\ UNCHANGED <<made, callback, taken, lapsed>>

(* bind_first_free: no port of the range is free.                          *)
NoPort(u) ==
  /\ admin[u].at = "binding"
  /\ admin' = [admin EXCEPT ![u] = Idle]
  /\ UNCHANGED <<state, made, serving, taken, lapsed>>

Cancel ==
  /\ Waiting
  /\ state' = Failed /\ server' = Told(state.shutdown)
  /\ UNCHANGED <<made, timers, admin, callback, taken, lapsed>>

(* import_cli_key: the CLI's file has a key and it is being validated ...  *)
Import(u) ==
  /\ admin[u] = Idle
  /\ admin' = [admin EXCEPT ![u].at = "importing"]
  /\ UNCHANGED <<state, made, serving, taken, lapsed>>

(* ... and is stored whatever the slot holds by then.                      *)
Imported(u) ==
  /\ admin[u].at = "importing"
  /\ StoreValidatedKey
  /\ admin' = [admin EXCEPT ![u] = Idle]
  /\ UNCHANGED <<serving, taken, lapsed>>

ImportRefused(u) ==
  /\ admin[u].at = "importing"
  /\ admin' = [admin EXCEPT ![u] = Idle]
  /\ UNCHANGED <<state, made, serving, taken, lapsed>>

-----------------------------------------------------------------------------
(* Mutant: reading takes the key, as take_key does.                        *)
PeekTakes(u, i) ==
  /\ admin[u] = Idle
  /\ state.pending = i /\ i \notin lapsed
  /\ state' = [state EXCEPT !.pending = 0]
  /\ admin' = [admin EXCEPT ![u] = [at |-> "saving", n |-> i]]
  /\ UNCHANGED <<made, serving, taken, lapsed>>

(* create_channel, patch_channel with a login_id: the key is read, not     *)
(* taken ...                                                               *)
PeekKey(u, i) ==
  /\ admin[u] = Idle
  /\ IF state.pending \in lapsed THEN state' = [state EXCEPT !.pending = 0] ELSE UNCHANGED state
  /\ IF state.pending = i /\ i \notin lapsed
     THEN admin' = [admin EXCEPT ![u] = [at |-> "saving", n |-> i]] ELSE UNCHANGED admin
  /\ UNCHANGED <<made, serving, taken, lapsed>>

(* ... and taken once the channel is saved, if it is still the one held.   *)
ConsumeKey(i) == state' = IF state.pending = i THEN [state EXCEPT !.pending = 0] ELSE state

Saved(u) ==
  /\ admin[u].at = "saving"
  /\ ConsumeKey(admin[u].n) /\ taken' = taken \cup {admin[u].n}
  /\ admin' = [admin EXCEPT ![u] = Idle]
  /\ UNCHANGED <<made, serving, lapsed>>

SaveRefused(u) ==
  /\ admin[u].at = "saving"
  /\ admin' = [admin EXCEPT ![u] = Idle]
  /\ UNCHANGED <<state, made, serving, taken, lapsed>>

Lapses ==
  /\ state.pending \notin {0} \cup lapsed
  /\ lapsed' = lapsed \cup {state.pending}
  /\ UNCHANGED <<state, made, serving, admin, taken>>

-----------------------------------------------------------------------------
At(k, p) == callback[k].at = p
Goes(k, p) == callback' = [callback EXCEPT ![k].at = p]
Leaves(k) == callback' = [callback EXCEPT ![k] = Idle]

(* A callback that carries the attempt's state token, with a key or with   *)
(* the word that the user refused.  Every other is answered 4xx at once.   *)
Arrives(k, a, word) ==
  /\ At(k, "idle") /\ server[a] = "listening"
  /\ callback' = [callback EXCEPT ![k] = [at |-> word, n |-> a]]
  /\ UNCHANGED <<state, made, server, timers, admin, taken, lapsed>>

(* close_attempt_server, whichever word the callback brought.              *)
CloseAttemptServer(a) ==
  IF Owns(a)
  THEN state' = [state EXCEPT !.shutdown = 0] /\ server' = Told(state.shutdown)
  ELSE UNCHANGED <<state, server>>

(* Refused: the server is closed and the failure settled; a call between   *)
(* the two finds the attempt waiting without a server.                     *)
Denied(k) ==
  /\ At(k, "denied") /\ CloseAttemptServer(callback[k].n)
  /\ callback' = [callback EXCEPT ![k].at = "closed"]
  /\ UNCHANGED <<made, timers, admin, taken, lapsed>>

SettlesDenied(k) ==
  /\ At(k, "closed") /\ SettleFailure(callback[k].n) /\ Leaves(k)
  /\ UNCHANGED <<made, timers, admin, taken, lapsed>>

Accepted(k) ==
  /\ At(k, "accepted") /\ CloseAttemptServer(callback[k].n)
  /\ Goes(k, "validating")
  /\ UNCHANGED <<made, timers, admin, taken, lapsed>>

(* owns_attempt is asked before spawn_complete, and again after whoami.    *)
Disowned(k) ==
  /\ At(k, "validating") /\ ~Owns(callback[k].n) /\ Leaves(k)
  /\ UNCHANGED <<state, made, server, timers, admin, taken, lapsed>>

Validated(k) ==
  /\ At(k, "validating") /\ Owns(callback[k].n) /\ Goes(k, "owner")
  /\ UNCHANGED <<state, made, server, timers, admin, taken, lapsed>>

(* Between that answer and the store the lock is free.                     *)
Stores(k) ==
  /\ At(k, "owner") /\ StoreValidatedKey /\ Leaves(k)
  /\ UNCHANGED <<server, timers, admin, taken, lapsed>>

NotValid(k) ==
  /\ At(k, "owner") /\ SettleFailure(callback[k].n) /\ Leaves(k)
  /\ UNCHANGED <<made, timers, admin, taken, lapsed>>

(* The two minutes are over, or serving failed.                            *)
TimesOut(a) ==
  /\ a \in timers /\ timers' = timers \ {a}
  /\ SettleFailure(a)
  /\ UNCHANGED <<made, admin, callback, taken, lapsed>>

ServerFails(a) ==
  /\ server[a] = "listening"
  /\ IF Owns(a) THEN state' = Failed ELSE UNCHANGED state
  /\ server' = [server EXCEPT ![a] = "told"]
  /\ UNCHANGED <<made, timers, admin, callback, taken, lapsed>>

-----------------------------------------------------------------------------
AdminStep(u) ==
  \/ Begin(u) \/ GivesWay(u) \/ TakesSlot(u) \/ NoPort(u)
  \/ Import(u) \/ Imported(u) \/ ImportRefused(u)
  \/ \E i \in Ids : PeekKey(u, i)
  \/ Saved(u) \/ SaveRefused(u)

CallbackStep(k) ==
  \/ \E a \in Attempts, word \in {"accepted", "denied"} : Arrives(k, a, word)
  \/ Denied(k) \/ SettlesDenied(k) \/ Accepted(k) \/ Disowned(k) \/ Validated(k)
  \/ Stores(k) \/ NotValid(k)

LoginNext ==
  \/ \E u \in Admins : AdminStep(u)
  \/ \E k \in Callbacks : CallbackStep(k)
  \/ \E a \in Attempts : TimesOut(a) \/ ServerFails(a)
  \/ Cancel \/ Lapses

LoginSpec == LoginInit /\ [][LoginNext]_loginVars
FairLoginSpec == LoginSpec /\ \A a \in Attempts : WF_loginVars(TimesOut(a))

-----------------------------------------------------------------------------
(* A success that the page shows can be redeemed: its key waits in the     *)
(* slot until a channel was saved with it or its time ran out, whatever    *)
(* saves failed on the way (commandcode_login.rs:185-218).                 *)
SuccessIsRedeemable ==
  state.status = "success" =>
    state.pending = state.id \/ state.id \in taken \cup lapsed

(* No callback server is left listening whose shutdown handle was lost:    *)
(* cancel, a new attempt or its timeout can still close it.                *)
NoOrphanServer ==
  \A a \in Attempts : server[a] = "listening" => state.shutdown = a

(* No attempt waits for ever, whatever its callbacks, their validation and *)
(* the other attempts do (:356-373).                                       *)
WaitingEnds == \A a \in Attempts : Owns(a) ~> ~Owns(a)


=============================================================================
