--------------------------- MODULE ModelRegistry ---------------------------
(***************************************************************************)
(* The models, the providers and the mappings between them that belong to  *)
(* one owner (the system or one user), under the requests of the model API *)
(* and the chats that use them.  The three collections are linked only by  *)
(* ids; a request is a chain of database calls without a transaction, and  *)
(* every action below is the code up to the next such call.                *)
(*                                                                         *)
(* The database is external: it checks the two unique indexes of the       *)
(* mappings, save() replaces every field of the document with the same id  *)
(* or inserts it if there is none, delete() of a missing document does     *)
(* nothing.  Names, keys, addresses and capabilities are left out; a bind  *)
(* refused for the type of the provider is an Abort.                       *)
(***************************************************************************)
EXTENDS Naturals, FiniteSets

CONSTANTS
    Models, Providers,
    Requests,       \* the tasks that serve requests
    None,           \* no id
    Workloads,      \* bounds: the operations requested, those of them that may overlap,
                    \* and the number of providers created
    MaxBinds,       \* bound: mappings created
    MaxSpent        \* bound: tokens used per provider

Ops == {"bind", "unbind", "deleteModel", "updateModel", "updateProvider",
        "removeProvider", "chat"}

ASSUME RegistryAssumption ==
    /\ None \notin Models \cup Providers
    /\ Workloads \subseteq [offered : SUBSET Ops, together : SUBSET Ops, size : Nat]
    /\ MaxBinds \in Nat
    /\ MaxSpent \in Nat

VARIABLES
    models,         \* status of each model document
    providers,      \* status and usage_tokens of each provider document
    mappings,       \* the model_provider_mappings documents
    clock,          \* created_at of the newest mapping
    at,             \* per request, the database call it makes next
    req,            \* per request, its operation and arguments
    found,          \* per request, the mappings it read and still has to go through
    copy,           \* per request, the mapping it will write
    held,           \* per request, usage_tokens of the provider document it holds
    spent,          \* per provider, the tokens its chats have used
    load            \* the workload of this behaviour

vars == <<models, providers, mappings, clock, at, req, found, copy, held, spent, load>>

Status == {"unborn", "active", "inactive", "gone"}
Exists(status) == status \in {"active", "inactive"}

\* A mapping document; id also orders created_at, and priority is always 0.
Mapping == [id : Nat, model : Models, provider : Providers,
            preferred : BOOLEAN, active : BOOLEAN]

Call == [op : Ops, model : Models \cup {None}, provider : Providers \cup {None},
         preferred : BOOLEAN, active : BOOLEAN]
NoCall == [op |-> "chat", model |-> None, provider |-> None,
           preferred |-> FALSE, active |-> FALSE]

\* What the endpoints can be asked: about a model, a provider or both; a chat may leave
\* the provider open.
Calls ==
    {c \in Call :
        /\ c.model = None <=> c.op \in {"updateProvider", "removeProvider"}
        /\ c.op \in {"deleteModel", "updateModel"} => c.provider = None
        /\ c.provider = None => c.op \in {"deleteModel", "updateModel", "chat"}
        /\ c.op # "bind" => ~c.preferred /\ ~c.active}

Place == {"idle", "model", "provider", "mapping", "others", "save", "delete",
          "next", "promote", "list", "drop", "saveModel", "saveProvider", "count",
          "remove", "usage"}

Running(r) == at[r] # "idle"

\* uniq_mapping_model_provider_owner and uniq_mapping_one_active_preferred_per_model_owner.
Unique(m) ==
    \A x \in mappings :
        x.id # m.id /\ x.model = m.model =>
            /\ x.provider # m.provider
            /\ ~(x.preferred /\ x.active /\ m.preferred /\ m.active)

\* Mutant: the document is added instead of replaced.
SavedAsNew(m) == mappings \cup {m}

Saved(m) == {x \in mappings : x.id # m.id} \cup {m}

Without(m) == {x \in mappings : x.id # m.id}

Of(model) == {x \in mappings : x.model = model}
ActiveOf(model) == {x \in Of(model) : x.active}

\* The first of a query with limit 1: the oldest, for a chat the preferred before others.
Oldest(S) == {x \in S : \A y \in S : x.id <= y.id}
FirstChoice(S) == Oldest(IF \E x \in S : x.preferred THEN {x \in S : x.preferred} ELSE S)

Init ==
    /\ models = [m \in Models |-> "unborn"]
    /\ providers = [p \in Providers |-> [status |-> "unborn", usage |-> 0]]
    /\ mappings = {}
    /\ clock = 0
    /\ at = [r \in Requests |-> "idle"]
    /\ req = [r \in Requests |-> NoCall]
    /\ found = [r \in Requests |-> {}]
    /\ copy = [r \in Requests |-> {}]
    /\ held = [r \in Requests |-> 0]
    /\ spent = [p \in Providers |-> 0]
    /\ load \in Workloads

Goto(r, place) == at' = [at EXCEPT ![r] = place]

\* The request returns or raises, and what it held is gone with it.
Finish(r) ==
    /\ Goto(r, "idle")
    /\ req' = [req EXCEPT ![r] = NoCall]
    /\ found' = [found EXCEPT ![r] = {}]
    /\ copy' = [copy EXCEPT ![r] = {}]
    /\ held' = [held EXCEPT ![r] = 0]
Fail(r) == Finish(r)

KeepLocals == UNCHANGED <<req, found, copy, held>>
KeepStores == UNCHANGED <<models, providers, mappings, clock, spent, load>>

-----------------------------------------------------------------------------
(* create_model, create_provider: one insert each.                         *)

CreateModel(m) ==
    /\ models[m] = "unborn"
    /\ models' = [models EXCEPT ![m] = "active"]
    /\ UNCHANGED <<providers, mappings, clock, at, req, found, copy, held, spent, load>>

CreateProvider(p) ==
    /\ providers[p].status = "unborn"
    /\ Cardinality({q \in Providers : providers[q].status # "unborn"}) < load.size
    /\ providers' = [providers EXCEPT ![p].status = "active"]
    /\ UNCHANGED <<models, mappings, clock, at, req, found, copy, held, spent, load>>

-----------------------------------------------------------------------------
(* A request arrives; every operation begins with reading the document it  *)
(* is about.                                                               *)

MayStart(r, op) ==
    /\ op \in load.offered
    /\ \A s \in Requests \ {r} : Running(s) => {op, req[s].op} \subseteq load.together

Begin(r, c) ==
    /\ ~Running(r)
    /\ MayStart(r, c.op)
    /\ Goto(r, IF c.op \in {"updateProvider", "removeProvider"} THEN "provider" ELSE "model")
    /\ req' = [req EXCEPT ![r] = c]
    /\ UNCHANGED <<found, copy, held>>
    /\ KeepStores

\* Where an operation goes after get_model.
AfterModel == [bind |-> "provider", unbind |-> "mapping", deleteModel |-> "list",
               updateModel |-> "saveModel"]

GetModel(r) ==
    /\ at[r] = "model"
    /\ req[r].op \in DOMAIN AfterModel
    /\ IF Exists(models[req[r].model])
       THEN Goto(r, AfterModel[req[r].op]) /\ KeepLocals
       ELSE Fail(r)
    /\ KeepStores

\* update_model: the fields that are not given keep the value read.
SaveModel(r) ==
    /\ at[r] = "saveModel"
    /\ \E status \in {"active", "inactive"} :
           models' = [models EXCEPT ![req[r].model] = status]
    /\ Finish(r)
    /\ UNCHANGED <<providers, mappings, clock, spent, load>>

\* delete_model: the mappings read, one by one, and then the model.
ListMappings(r) ==
    /\ at[r] = "list"
    /\ found' = [found EXCEPT ![r] = Of(req[r].model)]
    /\ Goto(r, "drop")
    /\ UNCHANGED <<req, copy, held>>
    /\ KeepStores

DropMapping(r) ==
    /\ at[r] = "drop"
    /\ \E x \in found[r] :
           /\ mappings' = Without(x)
           /\ found' = [found EXCEPT ![r] = @ \ {x}]
    /\ UNCHANGED <<models, providers, clock, at, req, copy, held, spent, load>>

DropModel(r) ==
    /\ at[r] = "drop"
    /\ found[r] = {}
    /\ models' = [models EXCEPT ![req[r].model] = "gone"]
    /\ Finish(r)
    /\ UNCHANGED <<providers, mappings, clock, spent, load>>

-----------------------------------------------------------------------------
(* bind_model_to_provider.                                                 *)

FindProvider(r) ==
    /\ at[r] = "provider"
    /\ req[r].op = "bind"
    /\ IF Exists(providers[req[r].provider].status)
       THEN Goto(r, "mapping") /\ KeepLocals
       ELSE Fail(r)
    /\ KeepStores

\* Mutant: an inactive mapping may be preferred.
AsksPreferredAlways(c) == c.preferred

\* is_preferred = False if not is_active else is_preferred
AsksPreferred(c) == c.active /\ c.preferred

FindToBind(r) ==
    LET c == req[r]
        old == {x \in Of(c.model) : x.provider = c.provider}
        new == [id |-> clock + 1, model |-> c.model, provider |-> c.provider,
                preferred |-> AsksPreferred(c), active |-> c.active]
    IN
    /\ at[r] = "mapping"
    /\ c.op = "bind"
    /\ \/ /\ old = {}
          /\ clock < MaxBinds
          /\ clock' = clock + 1
          /\ copy' = [copy EXCEPT ![r] = {new}]
          /\ Goto(r, IF new.preferred THEN "others" ELSE "save")
       \/ \E x \in old :
          /\ copy' = [copy EXCEPT ![r] = {[new EXCEPT !.id = x.id]}]
          /\ Goto(r, IF new.preferred /\ ~x.preferred THEN "others" ELSE "save")
          /\ UNCHANGED clock
    /\ UNCHANGED <<models, providers, mappings, req, found, held, spent, load>>

\* _clear_preferred_mappings: the find, then one save per mapping found.
FindOthers(r) ==
    /\ at[r] = "others"
    /\ found' = [found EXCEPT ![r] = {x \in Of(req[r].model) : x.preferred}]
    /\ Goto(r, "save")
    /\ UNCHANGED <<req, copy, held>>
    /\ KeepStores

\* Mutant: the mapping that is no longer preferred is switched off.
SwitchedOff(x) == [x EXCEPT !.preferred = FALSE, !.active = FALSE]

Demoted(x) == [x EXCEPT !.preferred = FALSE]

DemoteOther(r) ==
    /\ at[r] = "save"
    /\ \E x \in found[r] :
           \/ /\ Unique(Demoted(x))
              /\ mappings' = Saved(Demoted(x))
              /\ found' = [found EXCEPT ![r] = @ \ {x}]
              /\ UNCHANGED <<at, req, copy, held>>
           \/ /\ ~Unique(Demoted(x))
              /\ Fail(r)
              /\ UNCHANGED mappings
    /\ UNCHANGED <<models, providers, clock, spent, load>>

WriteMapping(r) ==
    /\ at[r] = "save"
    /\ found[r] = {}
    /\ \E m \in copy[r] :
           \/ Unique(m) /\ mappings' = Saved(m) /\ Finish(r)
           \/ ~Unique(m) /\ UNCHANGED mappings /\ Fail(r)
    /\ UNCHANGED <<models, providers, clock, spent, load>>

-----------------------------------------------------------------------------
(* unbind_model_from_provider.                                             *)

FindToUnbind(r) ==
    LET old == {x \in Of(req[r].model) : x.provider = req[r].provider} IN
    /\ at[r] = "mapping"
    /\ req[r].op = "unbind"
    /\ IF old = {}
       THEN Fail(r)
       ELSE /\ found' = [found EXCEPT ![r] = old]
            /\ Goto(r, "delete")
            /\ UNCHANGED <<req, copy, held>>
    /\ KeepStores

DeleteMapping(r) ==
    /\ at[r] = "delete"
    /\ \E x \in found[r] :
           /\ mappings' = Without(x)
           /\ IF x.preferred THEN Goto(r, "next") /\ KeepLocals ELSE Finish(r)
    /\ UNCHANGED <<models, providers, clock, spent, load>>

\* The query of _promote_next_preferred_mapping.
Successors(model) == ActiveOf(model)

FindNext(r) ==
    /\ at[r] = "next"
    /\ IF Successors(req[r].model) = {}
       THEN Finish(r)
       ELSE /\ \E x \in Oldest(Successors(req[r].model)) :
                   copy' = [copy EXCEPT ![r] = {[x EXCEPT !.preferred = TRUE]}]
            /\ Goto(r, "promote")
            /\ UNCHANGED <<req, found, held>>
    /\ KeepStores

Promote(r) ==
    /\ at[r] = "promote"
    /\ \E m \in copy[r] :
           \/ Unique(m) /\ mappings' = Saved(m) /\ Finish(r)
           \/ ~Unique(m) /\ UNCHANGED mappings /\ Fail(r)
    /\ UNCHANGED <<models, providers, clock, spent, load>>

-----------------------------------------------------------------------------
(* update_provider, remove_provider.                                       *)

ReadProvider(r) ==
    LET p == req[r].provider IN
    /\ at[r] = "provider"
    /\ req[r].op \in {"updateProvider", "removeProvider"}
    /\ IF Exists(providers[p].status)
       THEN IF req[r].op = "updateProvider"
            THEN /\ held' = [held EXCEPT ![r] = providers[p].usage]
                 /\ Goto(r, "saveProvider")
                 /\ UNCHANGED <<req, found, copy>>
            ELSE Goto(r, "count") /\ KeepLocals
       ELSE Fail(r)
    /\ KeepStores

SaveProvider(r) ==
    /\ at[r] = "saveProvider"
    /\ \E status \in {"active", "inactive"} :
           providers' = [providers EXCEPT ![req[r].provider] =
                             [status |-> status, usage |-> held[r]]]
    /\ Finish(r)
    /\ UNCHANGED <<models, mappings, clock, spent, load>>

\* Mutant: only the mappings that are active count.
MappedIfActive(p) == \E x \in mappings : x.provider = p /\ x.active

\* mapping_count > 0
Mapped(p) == \E x \in mappings : x.provider = p

CountMappings(r) ==
    /\ at[r] = "count"
    /\ IF Mapped(req[r].provider)
       THEN Fail(r)
       ELSE Goto(r, "remove") /\ KeepLocals
    /\ KeepStores

RemoveProvider(r) ==
    /\ at[r] = "remove"
    /\ providers' = [providers EXCEPT ![req[r].provider] = [status |-> "gone", usage |-> 0]]
    /\ Finish(r)
    /\ UNCHANGED <<models, mappings, clock, spent, load>>

-----------------------------------------------------------------------------
(* resolve_model_for_chat, and the usage the chat reports at its end.      *)

FindChatModel(r) ==
    /\ at[r] = "model"
    /\ req[r].op = "chat"
    /\ IF models[req[r].model] = "active"
       THEN Goto(r, "mapping") /\ KeepLocals
       ELSE Fail(r)
    /\ KeepStores

FindChatMapping(r) ==
    LET c == req[r]
        usable == {x \in ActiveOf(c.model) : c.provider \in {x.provider, None}}
    IN
    /\ at[r] = "mapping"
    /\ c.op = "chat"
    /\ IF usable = {}
       THEN Fail(r)
       ELSE /\ \E x \in FirstChoice(usable) : found' = [found EXCEPT ![r] = {x}]
            /\ Goto(r, "provider")
            /\ UNCHANGED <<req, copy, held>>
    /\ KeepStores

FindChatProvider(r) ==
    /\ at[r] = "provider"
    /\ req[r].op = "chat"
    /\ \E x \in found[r] :
           IF providers[x.provider].status = "active"
           THEN /\ held' = [held EXCEPT ![r] = providers[x.provider].usage]
                /\ Goto(r, "usage")
                /\ UNCHANGED <<req, found, copy>>
           ELSE Fail(r)
    /\ KeepStores

\* Mutant: the count that came with the provider is written back, one higher.
UsageFromCopy(r, p) == held[r] + 1

\* $inc of usage_tokens, here by one token.
UsageAfter(r, p) == providers[p].usage + 1

IncrementUsage(r) ==
    /\ at[r] = "usage"
    /\ \E x \in found[r] :
           LET p == x.provider IN
           IF Exists(providers[p].status)
           THEN /\ spent[p] < MaxSpent
                /\ providers' = [providers EXCEPT ![p].usage = UsageAfter(r, p)]
                /\ spent' = [spent EXCEPT ![p] = @ + 1]
                /\ Finish(r)
           ELSE Fail(r) /\ UNCHANGED <<providers, spent>>
    /\ UNCHANGED <<models, mappings, clock, load>>

\* A turn without usage reports none.
NoUsage(r) ==
    /\ at[r] = "usage"
    /\ Finish(r)
    /\ KeepStores

-----------------------------------------------------------------------------
\* A call fails, a validation refuses, the client leaves or the process dies.
Abort(r) ==
    /\ Running(r)
    /\ Fail(r)
    /\ KeepStores

ModelStep(r) == GetModel(r) \/ SaveModel(r) \/ ListMappings(r) \/ DropMapping(r) \/ DropModel(r)
BindStep(r) == FindProvider(r) \/ FindToBind(r) \/ FindOthers(r) \/ DemoteOther(r) \/ WriteMapping(r)
UnbindStep(r) == FindToUnbind(r) \/ DeleteMapping(r) \/ FindNext(r) \/ Promote(r)
ProviderStep(r) == ReadProvider(r) \/ SaveProvider(r) \/ CountMappings(r) \/ RemoveProvider(r)
ChatStep(r) == FindChatModel(r) \/ FindChatMapping(r) \/ FindChatProvider(r)
               \/ IncrementUsage(r) \/ NoUsage(r)

Next ==
    \/ \E m \in Models : CreateModel(m)
    \/ \E p \in Providers : CreateProvider(p)
    \/ \E r \in Requests :
        \/ \E c \in Calls : Begin(r, c)
        \/ ModelStep(r) \/ BindStep(r) \/ UnbindStep(r) \/ ProviderStep(r) \/ ChatStep(r)
        \/ Abort(r)

Spec == Init /\ [][Next]_vars

-----------------------------------------------------------------------------
\* Every variable has its type, and no two documents have the same id.
TypeOK ==
    /\ models \in [Models -> Status]
    /\ providers \in [Providers -> [status : Status, usage : Nat]]
    /\ mappings \subseteq Mapping
    /\ \A x, y \in mappings : x.id = y.id => x = y
    /\ clock \in Nat
    /\ at \in [Requests -> Place]
    /\ req \in [Requests -> Call]
    /\ found \in [Requests -> SUBSET Mapping]
    /\ copy \in [Requests -> SUBSET Mapping]
    /\ held \in [Requests -> Nat]
    /\ spent \in [Providers -> Nat]
    /\ load \in Workloads

\* A model has at most one preferred mapping, active or not, whatever operations overlap,
\* save what they read earlier, or stop half-way (bind, unbind and the partial index, which
\* by itself says nothing of inactive mappings).
AtMostOnePreferred ==
    \A x, y \in mappings :
        x.model = y.model /\ x.preferred /\ y.preferred => x = y

\* As long as no mapping is written while a model or a provider is being deleted, every
\* mapping refers to a model and a provider that exist, also when a deletion stops
\* half-way (delete_model's order, remove_provider's check).
NoDangling ==
    \/ load.together \cap {"bind", "unbind"} = {}
    \/ load.together \cap {"deleteModel", "removeProvider"} = {}
    => \A x \in mappings : Exists(models[x.model]) /\ Exists(providers[x.provider].status)

\* As long as no update of a provider overlaps anything, usage_tokens of a provider is the
\* sum of what its chats have used, however those overlap (increment_usage).
UsageExact ==
    "updateProvider" \notin load.together =>
        \A p \in Providers : Exists(providers[p].status) => providers[p].usage = spent[p]

\* A model that has an active mapping keeps one through every bind that asks for an active
\* mapping, whatever overlaps it and wherever it stops: only an unbind, a deletion of the
\* model or a bind that asks for an inactive mapping takes the last one away
\* (_clear_preferred_mappings saves whole documents it read earlier).
SwitchKeepsServing ==
    [][\A m \in Models :
        /\ ActiveOf(m) # {}
        /\ {x \in mappings' : x.model = m /\ x.active} = {}
        => \E r \in Requests :
            /\ <<at[r], found[r]>> # <<at'[r], found'[r]>>
            /\ \/ req[r].op \in {"unbind", "deleteModel"}
               \/ req[r].op = "bind" /\ ~req[r].active]_vars
=============================================================================
