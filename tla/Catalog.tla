------------------------------- MODULE Catalog -------------------------------
(***************************************************************************)
(* The tables that say what one channel offers and who is routed to it,    *)
(* and the operations of the administration API on them: the channel with  *)
(* its protocols (admin/channels.rs), its models with their protocol       *)
(* bindings (admin/models.rs), the routes of one requested model name and  *)
(* their candidates (admin/routes.rs), the provider (admin/mod.rs).  An    *)
(* operation that asks before its transaction is two actions; a            *)
(* transaction is one, for SQLite serialises those that write.             *)
(***************************************************************************)
EXTENDS Naturals, FiniteSets

CONSTANTS
  Entry,        \* client protocols a Command Code channel can be driven with
  Family,       \* protocols that share one catalogue request (the OpenAI family)
  Models,       \* upstream model ids
  Callers       \* administration calls that may be between question and transaction

ASSUME CatalogAssumption == Family \subseteq Entry

CC == "command_code"
Protocols == Entry \cup {CC}

VARIABLES
  chan,    \* the channel: there, kind of its provider, protocols
  model,   \* model[m]: its row in channel_models with its bindings
  routes,  \* protocols for which the requested name has a route
  cand,    \* route_candidates: a route's protocol and a model
  caller   \* caller[u]: what it asked for and what it was told

tables == <<chan, model, routes, cand>>
catalogVars == <<tables, caller>>

NoRow == [source |-> "none", available |-> FALSE, bound |-> {}]
NoCall == [at |-> "idle", ps |-> {}, ms |-> {}]
There(m) == model[m].source # "none"
Bound(c) == c.protocol \in model[c.model].bound

CatalogTypeOK ==
  /\ chan \in [there : BOOLEAN, kind : {"ordinary", CC}, protocols : SUBSET Protocols]
  /\ model \in [Models -> [source : {"none", "discovered", "manual"}, available : BOOLEAN,
                           bound : SUBSET Protocols]]
  /\ routes \subseteq Protocols
  /\ cand \subseteq {[protocol |-> p, model |-> m] : p \in routes, m \in {n \in Models : There(n)}}
  /\ caller \in [Callers -> [at : {"idle", "model", "route", "candidates", "delete"},
                             ps : SUBSET Protocols, ms : SUBSET Models]]

(* insert_channel, of a provider of either kind.                           *)
CatalogInit ==
  /\ \E k \in {"ordinary", CC}, ps \in SUBSET Protocols \ {{}} :
       chan = [there |-> TRUE, kind |-> k, protocols |-> ps]
  /\ model = [m \in Models |-> NoRow]
  /\ routes = {} /\ cand = {} /\ caller = [u \in Callers |-> NoCall]

-----------------------------------------------------------------------------
(* model_binding_protocols: a Command Code channel serves every protocol   *)
(* the gateway converts from.                                              *)
Bindings(ps) == IF chan.kind = CC THEN ps \cup Entry ELSE ps

(* route_protocols_using_model, route_candidates_use_protocols.            *)
UsedBy(m) == {c.protocol : c \in {d \in cand : d.model = m}}
Used == {c.protocol : c \in cand}

Asks(u, what, ps, ms) ==
  caller[u] = NoCall /\ caller' = [caller EXCEPT ![u] = [at |-> what, ps |-> ps, ms |-> ms]]
Answered(u) == caller' = [caller EXCEPT ![u] = NoCall]

-----------------------------------------------------------------------------
(* Mutant: the models are rewritten to the configured protocols only.      *)
UpdateChannelNarrow(ps) ==
  /\ chan.there /\ Used \subseteq Bindings(ps)
  /\ chan' = [chan EXCEPT !.protocols = ps]
  /\ model' = [m \in Models |-> IF There(m) THEN [model[m] EXCEPT !.bound = ps] ELSE NoRow]
  /\ UNCHANGED <<routes, cand, caller>>

(* update_channel with protocols: refused while a candidate is routed by a *)
(* protocol outside the new bindings; else every model gets exactly those. *)
UpdateChannel(ps) ==
  /\ chan.there /\ Used \subseteq Bindings(ps)
  /\ chan' = [chan EXCEPT !.protocols = ps]
  /\ model' = [m \in Models |-> IF There(m) THEN [model[m] EXCEPT !.bound = Bindings(ps)] ELSE NoRow]
  /\ UNCHANGED <<routes, cand, caller>>

(* patch_provider: the kind changes, the bindings stay as they are.        *)
PatchProvider(k) ==
  /\ chan.there
  /\ chan' = [chan EXCEPT !.kind = k] /\ UNCHANGED <<model, routes, cand, caller>>

(* delete_channel, delete_provider: the candidates first, the models by    *)
(* cascade.  A call that validated one of them finds it gone.              *)
DeleteChannel ==
  /\ chan.there /\ chan' = [chan EXCEPT !.there = FALSE, !.protocols = {}]
  /\ cand' = {} /\ model' = [m \in Models |-> NoRow]
  /\ caller' = [u \in Callers |-> [caller[u] EXCEPT !.ms = {}]]
  /\ UNCHANGED routes

-----------------------------------------------------------------------------
(* create_manual_model: the channel's protocols and kind are read ...      *)
AskManualModel(u, m, ps) ==
  /\ chan.there /\ Asks(u, "model", Bindings(ps), {m}) /\ UNCHANGED tables

(* ... and the row is written unless the channel is gone or the id taken.  *)
CreateManualModel(u) ==
  /\ caller[u].at = "model"
  /\ IF chan.there /\ \A m \in caller[u].ms : ~There(m)
     THEN model' = [m \in Models |-> IF m \in caller[u].ms
            THEN [source |-> "manual", available |-> TRUE, bound |-> caller[u].ps] ELSE model[m]]
     ELSE UNCHANGED model
  /\ Answered(u) /\ UNCHANGED <<chan, routes, cand>>

(* patch_channel_model with protocols, refused while one outside is routed *)
PatchModel(m, ps) ==
  /\ There(m) /\ UsedBy(m) \subseteq Bindings(ps)
  /\ model' = [model EXCEPT ![m].bound = Bindings(ps)]
  /\ UNCHANGED <<chan, routes, cand, caller>>

(* ... and with available, which nothing refuses.                          *)
PatchAvailable(m) ==
  /\ There(m) /\ model' = [model EXCEPT ![m].available = ~@]
  /\ UNCHANGED <<chan, routes, cand, caller>>

(* delete_channel_model: counted first, deleted later; in between the      *)
(* foreign key of route_candidates is what refuses.                        *)
AskDeleteModel(u, m) ==
  /\ There(m) /\ UsedBy(m) = {} /\ Asks(u, "delete", {}, {m}) /\ UNCHANGED tables

DeleteModel(u) ==
  /\ caller[u].at = "delete"
  /\ LET gone == {m \in caller[u].ms : model[m].source = "manual" /\ UsedBy(m) = {}} IN
       /\ model' = [m \in Models |-> IF m \in gone THEN NoRow ELSE model[m]]
       /\ caller' = [v \in Callers |-> IF v = u THEN NoCall
            ELSE IF caller[v].at = "model" THEN caller[v]
            ELSE [caller[v] EXCEPT !.ms = @ \ gone]]
  /\ UNCHANGED <<chan, routes, cand>>

-----------------------------------------------------------------------------
(* create_route: the protocols are given, or taken from the bindings of    *)
(* the available models of that name; none of them has a route yet ...     *)
AskRoute(u, ps) ==
  /\ ps # {} /\ ps \cap routes = {}
  /\ Asks(u, "route", ps, {}) /\ UNCHANGED tables

(* ... and the unique index refuses one that was added meanwhile.          *)
CreateRoute(u) ==
  /\ caller[u].at = "route"
  /\ routes' = IF caller[u].ps \cap routes = {} THEN routes \cup caller[u].ps ELSE routes
  /\ Answered(u) /\ UNCHANGED <<chan, model, cand>>

(* delete_route: every route of the name, the candidates by cascade.  The  *)
(* siblings a call has read are no longer there.                           *)
DeleteRoute ==
  /\ routes # {} /\ routes' = {} /\ cand' = {}
  /\ caller' = [u \in Callers |-> IF caller[u].at = "candidates"
                                  THEN [caller[u] EXCEPT !.ps = {}] ELSE caller[u]]
  /\ UNCHANGED <<chan, model>>

(* replace_candidates: every model asked for exists, is available and has  *)
(* a protocol of the routes ...                                            *)
AskCandidates(u, ms) ==
  /\ routes # {}
  /\ \A m \in ms : There(m) /\ model[m].available /\ model[m].bound \cap routes # {}
  /\ Asks(u, "candidates", routes, ms) /\ UNCHANGED tables

(* Mutant: the pairs are those of the bindings that were validated.        *)
AskAndReplace(u) ==
  /\ caller[u].at = "candidates"
  /\ IF caller[u].ps = {} THEN UNCHANGED cand
     ELSE cand' = {c \in cand : c.protocol \notin caller[u].ps}
                  \cup [protocol : caller[u].ps, model : caller[u].ms]
  /\ Answered(u) /\ UNCHANGED <<chan, model, routes>>

(* ... and the transaction pairs them with the sibling routes by what is   *)
(* bound by then.  A pair with a deleted route fails on its foreign key.   *)
ReplaceCandidates(u) ==
  /\ caller[u].at = "candidates"
  /\ IF caller[u].ps = {} THEN UNCHANGED cand
     ELSE cand' = {c \in cand : c.protocol \notin caller[u].ps}
                  \cup {c \in [protocol : caller[u].ps, model : caller[u].ms] : Bound(c)}
  /\ Answered(u) /\ UNCHANGED <<chan, model, routes>>

CatalogStep ==
  \/ \E ps \in SUBSET Protocols \ {{}} :
       \/ UpdateChannel(ps)
       \/ \E m \in Models : PatchModel(m, ps)
       \/ \E u \in Callers : AskRoute(u, ps) \/ \E m \in Models : AskManualModel(u, m, ps)
  \/ \E k \in {"ordinary", CC} : PatchProvider(k)
  \/ DeleteRoute
  \/ \E m \in Models : PatchAvailable(m)
  \/ \E u \in Callers :
       \/ CreateManualModel(u) \/ DeleteModel(u) \/ CreateRoute(u) \/ ReplaceCandidates(u)
       \/ \E m \in Models : AskDeleteModel(u, m)
       \/ \E ms \in SUBSET Models : AskCandidates(u, ms)
=============================================================================
