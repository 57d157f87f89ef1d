-------------------------- MODULE ServiceDiscovery --------------------------
(***************************************************************************)
(* The client-side list of the instances of other services: a cache with a *)
(* time to live, filled by list calls to the registry (Nacos) and by its   *)
(* pushes, and the choice of an instance from it.  The list calls are made *)
(* by the requests that find the cache stale; they are in RpcClient, which *)
(* extends this module.                                                    *)
(*                                                                         *)
(* The registry is external: what it lists for a service changes at will,  *)
(* and each change may be pushed to the subscriber, in order, at any later *)
(* time or never.                                                          *)
(***************************************************************************)
EXTENDS Naturals, Sequences, FiniteSets, SequencesExt

CONSTANTS
    Services,
    Addresses,      \* ip:port of the instances, as numbers: the order of a list
    Developer,      \* per address, the developer of its metadata, or Baseline
    Baseline,       \* no developer
    Drained,        \* the addresses whose weight is 0
    TTL,            \* cache_ttl_seconds, in ticks
    Requests,       \* the calls made through RpcClient
    NoRequest,      \* holder of a free lock
    Workloads,      \* bounds: what is called for whom, and what the registry may list
    MaxChanges      \* bound: changes of a service in the registry

Standing == {"absent", "unusable", "usable"}   \* unusable: unhealthy or disabled
Listing == [Addresses -> Standing]
Tags == {Developer[a] : a \in Addresses} \cup {Baseline}
Strategy == {"weighted_random", "round_robin", "random"}
Workload == [service : [Requests -> Services], ofUser : SUBSET Requests,
             tag : [Requests -> Tags], strategy : Strategy, lists : SUBSET Listing]

ASSUME DiscoveryAssumption ==
    /\ IsFiniteSet(Addresses) /\ Addresses \subseteq Nat
    /\ Drained \subseteq Addresses
    /\ TTL \in Nat \ {0}
    /\ NoRequest \notin Requests
    /\ Workloads \subseteq Workload
    /\ MaxChanges \in Nat

VARIABLES
    registry,       \* per service, what Nacos has listed, the current listing last
    watched,        \* the services Nacos pushes
    pushes,         \* per service, the listings on their way
    cache,          \* _cache and whether the service is in it
    age,            \* per service, time since _fetched_at, up to TTL
    cursor,         \* _rr_cursor
    subscribed,     \* _subscribed
    closed,         \* close() was called, at the end of the process
    load            \* the workload of this behaviour

discovery == <<cache, age, cursor, subscribed, closed>>
external == <<registry, watched, pushes, load>>

Current(s) == Last(registry[s])
Usable(listing) == {a \in Addresses : listing[a] = "usable"}

\* The listing healthy_only leaves out the unhealthy; _is_usable the rest.
Cached(listing) == [known |-> TRUE, list |-> Usable(listing)]
NotCached == [known |-> FALSE, list |-> {}]

Fresh(s) == cache[s].known /\ age[s] < TTL

Of(tag, list) == {a \in list : Developer[a] = tag}

\* _select_gray_pool: the developer's own instances, or else those of nobody.
GrayPool(tag, list) == IF Of(tag, list) # {} THEN Of(tag, list) ELSE Of(Baseline, list)

\* Mutant: the tried instances leave the list before the pool is selected.
CandidatesFirst(tag, list, tried) == GrayPool(tag, list \ tried)

\* The instances pick chooses from; empty when it raises ServiceUnavailableError.
Candidates(tag, list, tried) == GrayPool(tag, list) \ tried

\* The outcomes of the strategy: the instance the cursor is at, in the order of the list;
\* any; and for weights any but those of weight 0, which are never drawn beside others.
Drawn(s, pool) ==
    CASE load.strategy = "round_robin" ->
             {a \in pool : Cardinality({b \in pool : b < a}) = cursor[s] % Cardinality(pool)}
      [] load.strategy = "random" -> pool
      [] OTHER -> IF pool \ Drained # {} THEN pool \ Drained ELSE pool

\* Mutant: the cursor is not kept within the instances.
CursorBeyond(s, pool) ==
    IF load.strategy = "round_robin" /\ pool # {} THEN [cursor EXCEPT ![s] = @ + 1] ELSE cursor

CursorAfter(s, pool) ==
    IF load.strategy = "round_robin" /\ pool # {}
    THEN [cursor EXCEPT ![s] = (@ % Cardinality(pool)) + 1]
    ELSE cursor

DiscoveryInit ==
    /\ load \in Workloads
    /\ \E l \in load.lists : registry = [s \in Services |-> <<l>>]
    /\ watched = {}
    /\ pushes = [s \in Services |-> <<>>]
    /\ cache = [s \in Services |-> NotCached]
    /\ age = [s \in Services |-> TTL]
    /\ cursor = [s \in Services |-> 0]
    /\ subscribed = {}
    /\ closed = FALSE

\* Instances of s come, go, fail or recover; the push may be lost.  Bound: only those of
\* the services that are called.
RegistryChanges(s) ==
    /\ s \in {load.service[r] : r \in Requests}
    /\ Len(registry[s]) <= MaxChanges
    /\ \E l \in load.lists \ {Current(s)} :
          /\ registry' = [registry EXCEPT ![s] = Append(@, l)]
          /\ \/ s \in watched /\ pushes' = [pushes EXCEPT ![s] = Append(@, l)]
             \/ UNCHANGED pushes
    /\ UNCHANGED <<watched, load, discovery>>

\* The subscription's callback: a push without a usable instance is ignored.
OnChange(s) ==
    /\ pushes[s] # <<>>
    /\ pushes' = [pushes EXCEPT ![s] = Tail(@)]
    /\ IF Usable(Head(pushes[s])) = {}
       THEN UNCHANGED <<cache, age>>
       ELSE /\ cache' = [cache EXCEPT ![s] = Cached(Head(pushes[s]))]
            /\ age' = [age EXCEPT ![s] = 0]
    /\ UNCHANGED <<registry, watched, load, cursor, subscribed, closed>>

\* Time passes.
Tick ==
    /\ \E s \in Services : age[s] < TTL
    /\ age' = [s \in Services |-> IF age[s] < TTL THEN age[s] + 1 ELSE TTL]
    /\ UNCHANGED <<external, cache, cursor, subscribed, closed>>

\* The end of the process: the RPC client is closed, then the discovery.  Callbacks and
\* calls in flight still find both.
Close ==
    /\ ~closed
    /\ closed' = TRUE
    /\ cache' = [s \in Services |-> NotCached]
    /\ age' = [s \in Services |-> TTL]
    /\ cursor' = [s \in Services |-> 0]
    /\ subscribed' = {}
    /\ UNCHANGED external

DiscoveryTypeOK ==
    /\ load \in Workloads
    /\ registry \in [Services -> Seq(Listing) \ {<<>>}]
    /\ watched \subseteq Services
    /\ pushes \in [Services -> Seq(Listing)]
    /\ cache \in [Services -> [known : BOOLEAN, list : SUBSET Addresses]]
    /\ age \in [Services -> 0..TTL]
    /\ cursor \in [Services -> 0..Cardinality(Addresses)]
    /\ subscribed \subseteq Services
    /\ closed \in BOOLEAN
=============================================================================
