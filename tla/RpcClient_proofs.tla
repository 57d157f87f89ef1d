-------------------------- MODULE RpcClient_proofs --------------------------
(***************************************************************************)
(* Proofs about RpcClient and ServiceDiscovery, for any services,          *)
(* addresses, requests and workloads, any time to live and any bounds.     *)
(***************************************************************************)
EXTENDS RpcClient, FiniteSetTheorems, TLAPS

-----------------------------------------------------------------------------
(* Picking an instance.                                                    *)

\* The choice of a strategy is one of the instances it is given.
LEMMA DrawnFromPool ==
    ASSUME NEW s, NEW pool, NEW a \in Drawn(s, pool)
    PROVE  a \in pool
BY DEF Drawn

\* An instance that can be picked is on the list and was not tried; it is of the
\* developer, or of nobody when the list has none of the developer.
LEMMA CandidateFacts ==
    ASSUME NEW tag, NEW list, NEW tried, NEW a \in Candidates(tag, list, tried)
    PROVE  /\ a \in list /\ a \notin tried
           /\ \/ Developer[a] = tag
              \/ Developer[a] = Baseline /\ Of(tag, list) = {}
BY DEF Candidates, GrayPool, Of

LEMMA LoadFacts ==
    ASSUME DiscoveryAssumption, DiscoveryTypeOK
    PROVE  /\ load \in Workload
           /\ load.lists \subseteq Listing
           /\ \A r \in Requests : Service(r) \in Services
BY DEF DiscoveryAssumption, DiscoveryTypeOK, Workload, Service

\* The cursor stays within the instances.
LEMMA CursorTyped ==
    ASSUME DiscoveryAssumption, DiscoveryTypeOK, NEW s \in Services, NEW pool \in SUBSET Addresses
    PROVE  CursorAfter(s, pool) \in [Services -> 0..Cardinality(Addresses)]
<1>1. IsFiniteSet(pool) /\ Cardinality(pool) \in Nat /\ Cardinality(Addresses) \in Nat
      /\ Cardinality(pool) <= Cardinality(Addresses)
  BY FS_Subset, FS_CardinalityType DEF DiscoveryAssumption
<1>2. CASE pool = {}
  BY <1>2 DEF CursorAfter, DiscoveryTypeOK
<1>3. CASE pool # {}
  <2>1. Cardinality(pool) > 0
    BY <1>1, <1>3, FS_EmptySet
  <2> DEFINE n == Cardinality(pool)
  <2>2. cursor[s] \in Nat
    BY DEF DiscoveryTypeOK
  <2>3. \A x, k \in Nat : k > 0 => (x % k) \in 0..(k - 1)
    BY Z3
  <2>4. (cursor[s] % n) \in 0..(n - 1)
    BY <1>1, <2>1, <2>2, <2>3
  <2>5. (cursor[s] % n) + 1 \in 0..Cardinality(Addresses)
    <3> DEFINE m == cursor[s] % n
    <3>1. m \in 0..(n - 1)
      BY <2>4
    <3> HIDE DEF m, n
    <3>2. n \in Nat /\ n <= Cardinality(Addresses)
      BY <1>1 DEF n
    <3>3. m + 1 \in 0..Cardinality(Addresses)
      BY <1>1, <3>1, <3>2
    <3> QED
      BY <3>3 DEF m
  <2> QED
    BY <2>5 DEF CursorAfter, DiscoveryTypeOK
<1> QED
  BY <1>2, <1>3

\* What pick does to the request: it is given up, or sent to a new instance of the list.
LEMMA PickFacts ==
    ASSUME DiscoveryAssumption, TypeOK, NEW r \in Requests, NEW list \in SUBSET Addresses,
           PickFrom(r, list)
    PROVE  /\ cursor' \in [Services -> 0..Cardinality(Addresses)]
           /\ \/ /\ Candidates(load.tag[r], list, Tried(r)) = {}
                 /\ at' = [at EXCEPT ![r] = "done"]
                 /\ result' = [result EXCEPT ![r] = "noInstance"]
                 /\ sent' = sent
              \/ \E a \in Candidates(load.tag[r], list, Tried(r)) :
                    /\ a \in Addresses
                    /\ at' = [at EXCEPT ![r] = "sending"]
                    /\ result' = result
                    /\ sent' = [sent EXCEPT ![r] = Append(@, a)]
<1> DEFINE pool == Candidates(load.tag[r], list, Tried(r))
<1>1. pool \in SUBSET Addresses
  BY DEF Candidates, GrayPool, Of
<1>2. cursor' = CursorAfter(Service(r), pool)
  BY DEF PickFrom
<1> HIDE DEF pool
<1>3. Service(r) \in Services /\ DiscoveryTypeOK
  BY LoadFacts DEF TypeOK
<1>4. cursor' \in [Services -> 0..Cardinality(Addresses)]
  BY <1>1, <1>2, <1>3, CursorTyped
<1>5. \/ pool = {} /\ End(r, "noInstance") /\ UNCHANGED sent
      \/ \E a \in Drawn(Service(r), pool) :
            /\ sent' = [sent EXCEPT ![r] = Append(@, a)]
            /\ Goto(r, "sending")
            /\ UNCHANGED result
  BY DEF PickFrom, pool
<1>6. CASE pool = {} /\ End(r, "noInstance") /\ UNCHANGED sent
  BY <1>4, <1>6 DEF End, Goto, pool
<1>7. CASE \E a \in Drawn(Service(r), pool) :
            /\ sent' = [sent EXCEPT ![r] = Append(@, a)]
            /\ Goto(r, "sending")
            /\ UNCHANGED result
  BY <1>1, <1>4, <1>7, DrawnFromPool DEF Goto, pool
<1> QED
  BY <1>5, <1>6, <1>7

-----------------------------------------------------------------------------
(* The types.                                                              *)

\* What RpcClient adds to the types of the discovery, without those pick changes.
CallsOK ==
    /\ at \in [Requests -> Place]
    /\ sent \in [Requests -> Seq(Addresses)]
    /\ result \in [Requests -> Result]
    /\ cursor \in [Services -> 0..Cardinality(Addresses)]

LEMMA PickTyped ==
    ASSUME DiscoveryAssumption, TypeOK, NEW r \in Requests, NEW list \in SUBSET Addresses,
           PickFrom(r, list)
    PROVE  CallsOK'
<1>1. "done" \in Place /\ "sending" \in Place /\ "noInstance" \in Result
  BY DEF Place, Result
<1>2. at \in [Requests -> Place] /\ sent \in [Requests -> Seq(Addresses)]
      /\ result \in [Requests -> Result]
  BY DEF TypeOK
<1>3. cursor' \in [Services -> 0..Cardinality(Addresses)]
  BY PickFacts
<1>4. \/ /\ at' = [at EXCEPT ![r] = "done"]
         /\ result' = [result EXCEPT ![r] = "noInstance"]
         /\ sent' = sent
      \/ \E a \in Addresses :
            /\ at' = [at EXCEPT ![r] = "sending"]
            /\ result' = result
            /\ sent' = [sent EXCEPT ![r] = Append(@, a)]
  BY PickFacts
<1>5. CASE /\ at' = [at EXCEPT ![r] = "done"]
           /\ result' = [result EXCEPT ![r] = "noInstance"]
           /\ sent' = sent
  BY <1>1, <1>2, <1>3, <1>5 DEF CallsOK
<1>6. CASE \E a \in Addresses :
              /\ at' = [at EXCEPT ![r] = "sending"]
              /\ result' = result
              /\ sent' = [sent EXCEPT ![r] = Append(@, a)]
  BY <1>1, <1>2, <1>3, <1>6 DEF CallsOK
<1> QED
  BY <1>4, <1>5, <1>6

\* The end of a request, and its move to another place.
LEMMA EndTyped ==
    ASSUME TypeOK, NEW r \in Requests, NEW how \in Result, End(r, how),
           UNCHANGED <<sent, cursor>>
    PROVE  CallsOK'
<1>1. "done" \in Place
  BY DEF Place
<1> QED
  BY <1>1 DEF TypeOK, DiscoveryTypeOK, CallsOK, End, Goto

LEMMA GotoTyped ==
    ASSUME TypeOK, NEW r \in Requests, NEW place \in Place, Goto(r, place),
           UNCHANGED <<sent, cursor, result>>
    PROVE  CallsOK'
BY DEF TypeOK, DiscoveryTypeOK, CallsOK, Goto

LEMMA AttemptTyped ==
    ASSUME DiscoveryAssumption, TypeOK, NEW r \in Requests, Attempt(r)
    PROVE  CallsOK'
<1>1. Service(r) \in Services /\ cache[Service(r)].list \in SUBSET Addresses
  BY LoadFacts DEF TypeOK, DiscoveryTypeOK
<1>2. "exhausted" \in Result /\ "lock" \in Place
  BY DEF Result, Place
<1>3. CASE End(r, "exhausted") /\ UNCHANGED <<cursor, sent>>
  BY <1>2, <1>3, EndTyped
<1>4. CASE PickFrom(r, cache[Service(r)].list)
  BY <1>1, <1>4, PickTyped
<1>5. CASE Goto(r, "lock") /\ UNCHANGED <<cursor, sent, result>>
  BY <1>2, <1>5, GotoTyped
<1> QED
  BY <1>3, <1>4, <1>5 DEF Attempt

\* The variables a step of a request leaves to this conjunction.
RestOK ==
    /\ load \in Workloads
    /\ registry \in [Services -> Seq(Listing) \ {<<>>}]
    /\ watched \subseteq Services
    /\ pushes \in [Services -> Seq(Listing)]
    /\ cache \in [Services -> [known : BOOLEAN, list : SUBSET Addresses]]
    /\ age \in [Services -> 0..TTL]
    /\ subscribed \subseteq Services
    /\ closed \in BOOLEAN
    /\ lock \in [Services -> Requests \cup {NoRequest}]
    /\ naming \in BOOLEAN
    /\ namingLock \in Requests \cup {NoRequest}
    /\ clients \in Nat
    /\ answer \in [Requests -> Listing]
    /\ replies \in [Requests -> Seq(Reply)]

LEMMA TypeSplit == TypeOK <=> CallsOK /\ RestOK
BY DEF TypeOK, DiscoveryTypeOK, CallsOK, RestOK

\* What the registry has listed is a listing; the instances the cache keeps are addresses.
LEMMA CurrentTyped ==
    ASSUME TypeOK, NEW s \in Services
    PROVE  Current(s) \in Listing
BY DEF TypeOK, DiscoveryTypeOK, Current, Last

\* Lengthening a list of listings.
LEMMA AppendTyped ==
    ASSUME NEW S, NEW q \in Seq(S), NEW e \in S
    PROVE  Append(q, e) \in Seq(S) \ {<<>>} /\ <<e>> \in Seq(S) \ {<<>>}
<1>1. Append(q, e) \in Seq(S) /\ Len(Append(q, e)) = Len(q) + 1 /\ Len(q) \in Nat
  OBVIOUS
<1>2. <<e>> \in Seq(S) /\ Len(<<e>>) = 1
  OBVIOUS
<1>3. Len(<<>>) = 0
  OBVIOUS
<1>4. Len(Append(q, e)) # 0
  BY <1>1
<1>5. Append(q, e) # <<>>
  BY <1>3, <1>4
<1> QED
  BY <1>1, <1>2, <1>3, <1>5

LEMMA CachedTyped ==
    ASSUME NEW listing
    PROVE  /\ Cached(listing) \in [known : BOOLEAN, list : SUBSET Addresses]
           /\ Usable(listing) \in SUBSET Addresses
           /\ NotCached \in [known : BOOLEAN, list : SUBSET Addresses]
BY DEF Cached, Usable, NotCached

LEMMA ReplyTyped ==
    ASSUME TypeOK, NEW r \in Requests, NEW reply \in Reply, Replied(r, reply)
    PROVE  replies' \in [Requests -> Seq(Reply)]
BY DEF TypeOK, Replied

NothingListed == [a \in Addresses |-> "absent"]

LEMMA NothingListedTyped == NothingListed \in Listing
BY DEF NothingListed, Listing, Standing

\* The steps of a request keep the types.
LEMMA BeginTyped ==
    ASSUME DiscoveryAssumption, TypeOK, NEW r \in Requests, Begin(r)
    PROVE  TypeOK'
<1>1. "TypeError" \in Result
  BY DEF Result
<1>2. CallsOK'
  BY <1>1, EndTyped, AttemptTyped DEF Begin
<1>3. RestOK'
  BY TypeSplit DEF RestOK, Begin, external, locks
<1> QED
  BY <1>2, <1>3, TypeSplit DEF CallsOK, RestOK, TypeOK, DiscoveryTypeOK

LEMMA RefreshTyped ==
    ASSUME DiscoveryAssumption, TypeOK, NEW r \in Requests, Refresh(r)
    PROVE  TypeOK'
<1> DEFINE s == Service(r)
<1>1. /\ s \in Services
      /\ cache[s].list \in SUBSET Addresses
      /\ CallsOK /\ RestOK
  BY LoadFacts, TypeSplit DEF TypeOK, DiscoveryTypeOK
<1>2. Place = {"idle", "lock", "naming", "creating", "listing", "listed", "subscribing",
               "sending", "done"} /\ "noList" \in Result
  BY DEF Place, Result
<1>3. SUFFICES CallsOK' /\ RestOK'
  BY DEF CallsOK, RestOK, TypeOK, DiscoveryTypeOK
<1>4. CASE Acquire(r)
  <2>1. CASE PickFrom(r, cache[s].list) /\ UNCHANGED lock
    BY <1>1, <1>4, <2>1, PickTyped DEF Acquire, RestOK, external
  <2>2. CASE /\ Lock(r)
             /\ Goto(r, IF naming THEN "listing" ELSE "naming")
             /\ UNCHANGED <<cursor, sent, result>>
    <3>1. CallsOK'
      BY <1>2, <2>2, GotoTyped
    <3> QED
      BY <1>1, <1>4, <2>2, <3>1 DEF Acquire, RestOK, external, Lock
  <2> QED
    BY <1>4, <2>1, <2>2 DEF Acquire
<1>5. CASE GetNaming(r)
  <2>1. CallsOK'
    BY <1>2, <1>5, GotoTyped DEF GetNaming, discovery
  <2> QED
    BY <1>1, <1>5, <2>1 DEF GetNaming, RestOK, external, discovery
<1>6. CASE ClientCreated(r)
  <2>1. CallsOK'
    BY <1>2, <1>6, GotoTyped DEF ClientCreated, discovery
  <2> QED
    BY <1>1, <1>6, <2>1 DEF ClientCreated, RestOK, external, discovery
<1>7. CASE RegistryAnswers(r)
  <2>1. CallsOK'
    BY <1>2, <1>7, GotoTyped DEF RegistryAnswers, discovery
  <2>2. Current(s) \in Listing
    BY <1>1, CurrentTyped
  <2> QED
    BY <1>1, <1>7, <2>1, <2>2 DEF RegistryAnswers, RestOK, external, discovery, locks
<1>8. CASE ListArrives(r)
  <2>1. /\ Cached(answer[r]) \in [known : BOOLEAN, list : SUBSET Addresses]
        /\ Usable(answer[r]) \in SUBSET Addresses
    BY CachedTyped
  <2>2. cache' \in [Services -> [known : BOOLEAN, list : SUBSET Addresses]]
    BY <1>1, <1>8, <2>1 DEF ListArrives, RestOK
  <2>3. age' \in [Services -> 0..TTL] /\ answer' \in [Requests -> Listing]
    BY <1>1, <1>8, NothingListedTyped DEF ListArrives, RestOK, DiscoveryAssumption,
       NothingListed
  <2>4. CASE Unlock(r) /\ PickFrom(r, Usable(answer[r]))
    BY <1>1, <1>8, <2>1, <2>2, <2>3, <2>4, PickTyped
       DEF ListArrives, RestOK, external, Unlock
  <2>5. CASE Goto(r, "subscribing") /\ UNCHANGED <<lock, cursor, sent, result>>
    <3>1. CallsOK'
      BY <1>2, <2>5, GotoTyped
    <3> QED
      BY <1>1, <1>8, <2>2, <2>3, <2>5, <3>1 DEF ListArrives, RestOK, external
  <2> QED
    BY <1>8, <2>4, <2>5 DEF ListArrives
<1>9. CASE RefreshFails(r)
  <2>1. RestOK'
    BY <1>1, <1>9, NothingListedTyped
       DEF RefreshFails, RefreshFailing, RestOK, external, Unlock, NothingListed
  <2>2. CASE PickFrom(r, cache[s].list)
    BY <1>1, <2>1, <2>2, PickTyped
  <2>3. CASE End(r, "noList") /\ UNCHANGED <<cursor, sent>>
    BY <1>2, <2>1, <2>3, EndTyped
  <2> QED
    BY <1>9, <2>2, <2>3 DEF RefreshFails
<1>10. CASE SubscribeEnds(r)
  <2>1. CallsOK'
    BY <1>1, <1>10, PickTyped DEF SubscribeEnds
  <2>2. RestOK'
    BY <1>1, <1>10 DEF SubscribeEnds, RestOK, Unlock
  <2> QED
    BY <2>1, <2>2
<1> QED
  BY <1>4, <1>5, <1>6, <1>7, <1>8, <1>9, <1>10 DEF Refresh

LEMMA ExchangeTyped ==
    ASSUME DiscoveryAssumption, TypeOK, NEW r \in Requests, Exchange(r) \/ Cancel(r)
    PROVE  TypeOK'
<1>1. CallsOK /\ RestOK
  BY TypeSplit
<1>2. /\ {"data", "refused", "unexpected", "cancelled"} \subseteq Result
      /\ {"data", "refused", "5xx", "network", "unexpected"} = Reply
      /\ Lost \subseteq Reply
  BY DEF Result, Reply, Lost
<1>3. SUFFICES CallsOK' /\ RestOK'
  BY DEF CallsOK, RestOK, TypeOK, DiscoveryTypeOK
<1>4. CASE Answered(r)
  <2>1. PICK reply \in {"data", "refused"} : Replied(r, reply) /\ End(r, reply)
    BY <1>4 DEF Answered
  <2>2. replies' \in [Requests -> Seq(Reply)]
    BY <1>2, <2>1, ReplyTyped
  <2>3. CallsOK'
    BY <1>2, <1>4, <2>1, EndTyped DEF Answered, discovery
  <2> QED
    BY <1>1, <1>4, <2>2, <2>3 DEF Answered, RestOK, external, discovery, locks
<1>5. CASE Breaks(r)
  <2>2. replies' \in [Requests -> Seq(Reply)]
    BY <1>2, <1>5, ReplyTyped DEF Breaks
  <2>3. CallsOK'
    BY <1>2, <1>5, EndTyped DEF Breaks, discovery
  <2> QED
    BY <1>1, <1>5, <2>2, <2>3 DEF Breaks, RestOK, external, discovery, locks
<1>6. CASE FailsOver(r)
  <2>2. replies' \in [Requests -> Seq(Reply)]
    BY <1>2, <1>6, ReplyTyped DEF FailsOver
  <2>3. CallsOK'
    BY <1>6, AttemptTyped DEF FailsOver
  <2> QED
    BY <1>1, <1>6, <2>2, <2>3 DEF FailsOver, RestOK, external, locks
<1>7. CASE Cancel(r)
  <2>1. CallsOK'
    BY <1>2, <1>7, EndTyped DEF Cancel, discovery
  <2> QED
    BY <1>1, <1>7, <2>1, NothingListedTyped
       DEF Cancel, RestOK, external, discovery, NothingListed
<1> QED
  BY <1>4, <1>5, <1>6, <1>7 DEF Exchange

\* So do the changes of the registry, its pushes, time and the end of the process.
Surroundings == \/ \E s \in Services : RegistryChanges(s) \/ OnChange(s)
                \/ Tick
                \/ Close

LEMMA SurroundingsTyped ==
    ASSUME DiscoveryAssumption, TypeOK, Surroundings, UNCHANGED <<locks, calls>>
    PROVE  TypeOK'
<1>1. CallsOK /\ RestOK
  BY TypeSplit
<1>2. TTL \in Nat /\ 0 \in 0..TTL /\ TTL \in 0..TTL
  BY DEF DiscoveryAssumption
<1>3. SUFFICES CallsOK' /\ RestOK'
  BY DEF CallsOK, RestOK, TypeOK, DiscoveryTypeOK
<1>4. ASSUME NEW s \in Services, RegistryChanges(s)
      PROVE  CallsOK' /\ RestOK'
  <2>1. PICK l \in load.lists \ {Current(s)} :
           /\ registry' = [registry EXCEPT ![s] = Append(@, l)]
           /\ \/ pushes' = [pushes EXCEPT ![s] = Append(@, l)]
              \/ UNCHANGED pushes
    BY <1>4 DEF RegistryChanges
  <2>2. l \in Listing
    BY LoadFacts DEF TypeOK
  <2>3. Append(registry[s], l) \in Seq(Listing) \ {<<>>} /\ Append(pushes[s], l) \in Seq(Listing)
    <3>1. registry[s] \in Seq(Listing) /\ pushes[s] \in Seq(Listing)
      BY <1>1 DEF RestOK
    <3> QED
      BY <2>2, <3>1, AppendTyped
  <2>4. CallsOK'
    BY <1>1, <1>4 DEF RegistryChanges, CallsOK, calls, discovery
  <2> QED
    <3>1. registry' \in [Services -> Seq(Listing) \ {<<>>}]
      BY <1>1, <2>1, <2>3 DEF RestOK
    <3>2. pushes' \in [Services -> Seq(Listing)]
      BY <1>1, <2>1, <2>3 DEF RestOK
    <3> QED
      BY <1>1, <1>4, <2>4, <3>1, <3>2 DEF RegistryChanges, RestOK, calls, locks, discovery
<1>5. ASSUME NEW s \in Services, OnChange(s)
      PROVE  CallsOK' /\ RestOK'
  <2>1. Cached(Head(pushes[s])) \in [known : BOOLEAN, list : SUBSET Addresses]
    BY CachedTyped
  <2>2. Tail(pushes[s]) \in Seq(Listing)
    BY <1>1, <1>5 DEF OnChange, RestOK
  <2>3. CallsOK'
    BY <1>1, <1>5 DEF OnChange, CallsOK, calls
  <2> QED
    <3>1. pushes' \in [Services -> Seq(Listing)]
      BY <1>1, <1>5, <2>2 DEF OnChange, RestOK
    <3>2. cache' \in [Services -> [known : BOOLEAN, list : SUBSET Addresses]]
      BY <1>1, <1>5, <2>1 DEF OnChange, RestOK
    <3>3. age' \in [Services -> 0..TTL]
      BY <1>1, <1>2, <1>5 DEF OnChange, RestOK
    <3> QED
      BY <1>1, <1>5, <2>3, <3>1, <3>2, <3>3 DEF OnChange, RestOK, calls, locks
<1>6. CASE Tick
  BY <1>1, <1>2, <1>6 DEF Tick, CallsOK, RestOK, calls, locks, external
<1>7. CASE Close
  <2>1. 0 \in 0..Cardinality(Addresses)
    BY FS_CardinalityType DEF DiscoveryAssumption
  <2> QED
    BY <1>1, <1>2, <1>7, <2>1, CachedTyped DEF Close, CallsOK, RestOK, calls, locks, external
<1> QED
  BY <1>4, <1>5, <1>6, <1>7 DEF Surroundings

LEMMA Steps ==
    ASSUME Next
    PROVE  \/ \E r \in Requests : Begin(r) \/ Refresh(r) \/ Exchange(r) \/ Cancel(r)
           \/ Surroundings /\ UNCHANGED <<locks, calls>>
BY DEF Next, Step, Surroundings

LEMMA InitTyped == DiscoveryAssumption /\ Init => TypeOK
<1> SUFFICES ASSUME DiscoveryAssumption, Init PROVE TypeOK
  OBVIOUS
<1>1. "idle" \in Place /\ "none" \in Result /\ TTL \in 0..TTL
  BY DEF Place, Result, DiscoveryAssumption
<1>2. 0 \in 0..Cardinality(Addresses)
  BY FS_CardinalityType DEF DiscoveryAssumption
<1>3. PICK l \in load.lists : registry = [s \in Services |-> <<l>>]
  BY DEF Init, DiscoveryInit
<1>4. load \in Workload /\ load.lists \subseteq Listing
  BY DEF Init, DiscoveryInit, DiscoveryAssumption, Workload
<1>5. registry \in [Services -> Seq(Listing) \ {<<>>}]
  <2>1. <<>> \in Seq(Listing)
    OBVIOUS
  <2> QED
    BY <1>3, <1>4, <2>1, AppendTyped
<1>6. DiscoveryTypeOK
  <2>1. cache \in [Services -> [known : BOOLEAN, list : SUBSET Addresses]]
    BY CachedTyped DEF Init, DiscoveryInit
  <2>2. age \in [Services -> 0..TTL] /\ cursor \in [Services -> 0..Cardinality(Addresses)]
    BY <1>1, <1>2 DEF Init, DiscoveryInit
  <2>3. pushes \in [Services -> Seq(Listing)]
    BY DEF Init, DiscoveryInit
  <2> QED
    BY <1>5, <2>1, <2>2, <2>3 DEF Init, DiscoveryInit, DiscoveryTypeOK
<1>7. /\ lock \in [Services -> Requests \cup {NoRequest}]
      /\ naming \in BOOLEAN
      /\ namingLock \in Requests \cup {NoRequest}
      /\ clients \in Nat
  <2>1. naming \in BOOLEAN
    BY Zenon DEF Init
  <2> QED
    BY <2>1 DEF Init
<1>8. /\ at \in [Requests -> Place]
      /\ answer \in [Requests -> Listing]
      /\ result \in [Requests -> Result]
  BY <1>1, NothingListedTyped DEF Init, NothingListed
<1>9. sent \in [Requests -> Seq(Addresses)] /\ replies \in [Requests -> Seq(Reply)]
  BY DEF Init
<1> QED
  BY <1>6, <1>7, <1>8, <1>9 DEF TypeOK

LEMMA NextTyped ==
    ASSUME DiscoveryAssumption, TypeOK, [Next]_vars
    PROVE  TypeOK'
<1>1. CASE Next
  BY <1>1, Steps, BeginTyped, RefreshTyped, ExchangeTyped, SurroundingsTyped
<1>2. CASE UNCHANGED vars
  BY <1>2 DEF vars, external, discovery, locks, calls, TypeOK, DiscoveryTypeOK
<1> QED
  BY <1>1, <1>2

\* Every variable of the discovery and of the RPC client keeps its type.
THEOREM TypeCorrect == Spec => []TypeOK
<1>1. Init => TypeOK
  BY InitTyped, DiscoveryAssumption
<1>2. TypeOK /\ [Next]_vars => TypeOK'
  BY NextTyped, DiscoveryAssumption
<1> QED
  BY <1>1, <1>2, PTL DEF Spec

-----------------------------------------------------------------------------
(* Failing over.  Good(p, q, b): what holds of a request at place p that   *)
(* was sent to q and has the replies b.                                    *)

Good(p, q, b) ==
    /\ IsInjective(q)
    /\ Len(q) <= Retries + 1
    /\ Len(b) <= Len(q) /\ Len(q) <= Len(b) + 1
    /\ p = "sending" => Len(q) = Len(b) + 1
    /\ p \notin {"sending", "done"} => Len(q) = Len(b) /\ Len(q) <= Retries
    /\ p # "done" => \A i \in 1..Len(b) : b[i] \in Lost
    /\ \A i \in 1..(Len(q) - 1) : b[i] \in Lost

FailoverInv == \A r \in Requests : Good(at[r], sent[r], replies[r])

\* Going on, ending, and being replied to keep it.
LEMMA GoodMoves ==
    ASSUME NEW p, NEW q \in Seq(Addresses), NEW b \in Seq(Reply), Good(p, q, b)
    PROVE  /\ Good("done", q, b)
           /\ p \notin {"sending", "done"} =>
                  \A place \in Place \ {"sending", "done"} : Good(place, q, b)
BY DEF Good

LEMMA GoodReplies ==
    ASSUME RetriesAssumption, NEW q \in Seq(Addresses), NEW b \in Seq(Reply), NEW x \in Reply,
           Good("sending", q, b)
    PROVE  /\ Good("done", q, Append(b, x))
           /\ x \in Lost /\ Len(q) <= Retries => Good("lock", q, Append(b, x))
<1> DEFINE c == Append(b, x)
<1>1. /\ Len(q) \in Nat /\ Len(b) \in Nat /\ Retries \in Nat
      /\ Len(c) = Len(b) + 1
      /\ \A i \in 1..Len(b) : c[i] = b[i]
      /\ c[Len(b) + 1] = x
  BY DEF RetriesAssumption
<1>2. /\ IsInjective(q) /\ Len(q) <= Retries + 1 /\ Len(q) = Len(b) + 1
      /\ \A i \in 1..Len(b) : b[i] \in Lost
  BY DEF Good
<1> HIDE DEF c
<1>3. \A i \in 1..(Len(q) - 1) : c[i] \in Lost
  BY <1>1, <1>2
<1>4. Len(c) = Len(q)
  BY <1>1, <1>2
<1>5. Good("done", q, c)
  BY <1>1, <1>2, <1>3, <1>4 DEF Good
<1>6. ASSUME x \in Lost, Len(q) <= Retries
      PROVE  Good("lock", q, c)
  <2>1. \A i \in 1..Len(c) : c[i] \in Lost
    BY <1>1, <1>2, <1>6
  <2> QED
    BY <1>1, <1>2, <1>3, <1>4, <1>6, <2>1 DEF Good
<1> QED
  BY <1>5, <1>6 DEF c

LEMMA GoodPick ==
    ASSUME RetriesAssumption, NEW q \in Seq(Addresses), NEW b \in Seq(Reply),
           NEW a \in Addresses, a \notin ToSet(q), Good("lock", q, b)
    PROVE  Good("sending", Append(q, a), b)
<1> DEFINE c == Append(q, a)
<1>1. /\ Len(q) \in Nat /\ Len(b) \in Nat /\ Retries \in Nat
      /\ Len(c) = Len(q) + 1 /\ DOMAIN c = 1..(Len(q) + 1)
      /\ \A i \in 1..Len(q) : c[i] = q[i]
      /\ c[Len(q) + 1] = a /\ DOMAIN q = 1..Len(q)
  BY DEF RetriesAssumption
<1>2. /\ IsInjective(q) /\ Len(q) = Len(b) /\ Len(q) <= Retries
      /\ \A i \in 1..Len(b) : b[i] \in Lost
  BY DEF Good
<1>3. \A i \in 1..Len(q) : q[i] # a
  BY <1>1 DEF ToSet
<1> HIDE DEF c
<1>4. IsInjective(c)
  <2> SUFFICES ASSUME NEW i \in DOMAIN c, NEW j \in DOMAIN c, c[i] = c[j]
               PROVE  i = j
    BY DEF IsInjective
  <2>1. CASE i \in 1..Len(q) /\ j \in 1..Len(q)
    BY <1>1, <1>2, <2>1 DEF IsInjective
  <2>2. CASE i = Len(q) + 1 \/ j = Len(q) + 1
    BY <1>1, <1>3, <2>2
  <2> QED
    BY <1>1, <2>1, <2>2
<1> QED
  BY <1>1, <1>2, <1>4 DEF Good, c

\* pick sends the request on, or gives it up, and touches no other.
LEMMA PickGood ==
    ASSUME DiscoveryAssumption, RetriesAssumption, TypeOK, NEW r \in Requests,
           NEW list \in SUBSET Addresses, NEW b \in Seq(Reply),
           Good("lock", sent[r], b), PickFrom(r, list)
    PROVE  /\ Good(at'[r], sent'[r], b)
           /\ \A q \in Requests \ {r} : at'[q] = at[q] /\ sent'[q] = sent[q]
<1> DEFINE pool == Candidates(load.tag[r], list, Tried(r))
<1>1. at \in [Requests -> Place] /\ sent \in [Requests -> Seq(Addresses)]
  BY DEF TypeOK
<1>2. CASE at' = [at EXCEPT ![r] = "done"] /\ sent' = sent
  BY <1>1, <1>2, GoodMoves
<1>3. CASE \E a \in pool : /\ a \in Addresses
                           /\ at' = [at EXCEPT ![r] = "sending"]
                           /\ sent' = [sent EXCEPT ![r] = Append(@, a)]
  <2>1. PICK a \in pool : /\ a \in Addresses
                         /\ at' = [at EXCEPT ![r] = "sending"]
                         /\ sent' = [sent EXCEPT ![r] = Append(@, a)]
    BY <1>3
  <2>2. a \notin ToSet(sent[r])
    BY CandidateFacts DEF Tried
  <2>3. sent[r] \in Seq(Addresses)
    BY <1>1
  <2>4. Good("sending", Append(sent[r], a), b)
    BY <2>1, <2>2, <2>3, GoodPick
  <2> QED
    BY <1>1, <2>1, <2>4
<1> QED
  BY PickFacts, <1>2, <1>3

LEMMA AttemptGood ==
    ASSUME DiscoveryAssumption, RetriesAssumption, TypeOK, NEW r \in Requests,
           NEW b \in Seq(Reply), Good("done", sent[r], b),
           Len(sent[r]) <= Retries => Good("lock", sent[r], b), Attempt(r)
    PROVE  /\ Good(at'[r], sent'[r], b)
           /\ \A q \in Requests \ {r} : at'[q] = at[q] /\ sent'[q] = sent[q]
<1>1. at \in [Requests -> Place] /\ cache[Service(r)].list \in SUBSET Addresses
  BY LoadFacts DEF TypeOK, DiscoveryTypeOK
<1>2. CASE End(r, "exhausted") /\ UNCHANGED <<cursor, sent>>
  BY <1>1, <1>2 DEF End, Goto
<1>3. CASE Len(sent[r]) <= Retries /\ PickFrom(r, cache[Service(r)].list)
  BY <1>1, <1>3, PickGood
<1>4. CASE Len(sent[r]) <= Retries /\ Goto(r, "lock") /\ UNCHANGED <<cursor, sent, result>>
  BY <1>1, <1>4 DEF Goto
<1> QED
  BY <1>2, <1>3, <1>4 DEF Attempt

LEMMA RequestFailover ==
    ASSUME DiscoveryAssumption, RetriesAssumption, TypeOK, FailoverInv, NEW r \in Requests,
           Begin(r) \/ Refresh(r) \/ Exchange(r) \/ Cancel(r)
    PROVE  FailoverInv'
<1> DEFINE b == replies[r]
<1>1. /\ at \in [Requests -> Place]
      /\ sent[r] \in Seq(Addresses) /\ b \in Seq(Reply)
      /\ replies \in [Requests -> Seq(Reply)]
      /\ Good(at[r], sent[r], b) /\ Good("done", sent[r], b)
      /\ cache[Service(r)].list \in SUBSET Addresses
  BY LoadFacts, GoodMoves DEF TypeOK, DiscoveryTypeOK, FailoverInv
<1>2. at[r] \notin {"sending", "done"} =>
          \A place \in Place \ {"sending", "done"} : Good(place, sent[r], b)
  BY <1>1, GoodMoves
<1>3. Place = {"idle", "lock", "naming", "creating", "listing", "listed", "subscribing",
               "sending", "done"}
  BY DEF Place
<1> SUFFICES /\ Good(at'[r], sent'[r], replies'[r])
             /\ \A q \in Requests \ {r} : /\ at'[q] = at[q] /\ sent'[q] = sent[q]
                                          /\ replies'[q] = replies[q]
  BY DEF FailoverInv
<1>4. CASE Begin(r)
  <2>1. at[r] = "idle" /\ replies' = replies
    BY <1>4 DEF Begin, At
  <2>2. Good("lock", sent[r], b)
    BY <1>2, <1>3, <2>1
  <2>3. CASE End(r, "TypeError") /\ UNCHANGED <<cursor, sent>>
    BY <1>1, <2>1, <2>3 DEF End, Goto
  <2>4. CASE Attempt(r)
    BY <1>1, <2>1, <2>2, <2>4, AttemptGood
  <2> QED
    BY <1>4, <2>3, <2>4 DEF Begin
<1>5. CASE Refresh(r)
  <2>1. replies' = replies /\ at[r] \notin {"sending", "done"}
    BY <1>5 DEF Refresh, Acquire, GetNaming, ClientCreated, RegistryAnswers, ListArrives,
       RefreshFails, RefreshFailing, SubscribeEnds, At
  <2>2. Good("lock", sent[r], b)
    BY <1>2, <1>3, <2>1
  <2>3. CASE \E list \in SUBSET Addresses : PickFrom(r, list)
    BY <1>1, <2>1, <2>2, <2>3, PickGood
  <2>4. CASE \E place \in Place \ {"sending", "done"} : Goto(r, place) /\ sent' = sent
    BY <1>1, <1>2, <2>1, <2>4 DEF Goto
  <2>5. CASE End(r, "noList") /\ UNCHANGED <<cursor, sent>>
    BY <1>1, <2>1, <2>5 DEF End, Goto
  <2>6. Usable(answer[r]) \in SUBSET Addresses
    BY CachedTyped
  <2>7. CASE Acquire(r)
    BY <1>1, <1>3, <2>3, <2>4, <2>7 DEF Acquire
  <2>8. CASE GetNaming(r) \/ ClientCreated(r) \/ RegistryAnswers(r)
    BY <1>3, <2>4, <2>8 DEF GetNaming, ClientCreated, RegistryAnswers
  <2>9. CASE ListArrives(r)
    BY <1>3, <2>3, <2>4, <2>6, <2>9 DEF ListArrives
  <2>10. CASE RefreshFails(r)
    BY <1>1, <2>3, <2>5, <2>10 DEF RefreshFails
  <2>11. CASE SubscribeEnds(r)
    BY <1>1, <2>3, <2>11 DEF SubscribeEnds
  <2> QED
    BY <1>5, <2>7, <2>8, <2>9, <2>10, <2>11 DEF Refresh
<1>6. CASE Exchange(r)
  <2>1. at[r] = "sending" /\ Good("sending", sent[r], b)
    BY <1>1, <1>6 DEF Exchange, Answered, Breaks, FailsOver, At
  <2>2. CASE Answered(r) \/ Breaks(r)
    <3>1. PICK reply \in Reply, how \in Result : Replied(r, reply) /\ End(r, how) /\ sent' = sent
      BY <2>2 DEF Answered, Breaks, Reply, Result
    <3> QED
      BY <1>1, <2>1, <3>1, GoodReplies DEF Replied, End, Goto
  <2>3. CASE FailsOver(r)
    <3>1. PICK reply \in Lost : Replied(r, reply)
      BY <2>3 DEF FailsOver
    <3>2. reply \in Reply /\ Append(b, reply) \in Seq(Reply)
      BY <1>1, <3>1 DEF Lost, Reply
    <3>3. /\ Good("done", sent[r], Append(b, reply))
          /\ Len(sent[r]) <= Retries => Good("lock", sent[r], Append(b, reply))
      BY <1>1, <2>1, <3>1, <3>2, GoodReplies
    <3>4. /\ replies'[r] = Append(b, reply)
          /\ \A q \in Requests \ {r} : replies'[q] = replies[q]
      BY <1>1, <3>1 DEF Replied
    <3> QED
      BY <2>3, <3>2, <3>3, <3>4, AttemptGood DEF FailsOver
  <2> QED
    BY <1>6, <2>2, <2>3 DEF Exchange
<1>7. CASE Cancel(r)
  BY <1>1, <1>7 DEF Cancel, End, Goto
<1> QED
  BY <1>4, <1>5, <1>6, <1>7

LEMMA InitFailover == RetriesAssumption /\ Init => FailoverInv
<1> SUFFICES ASSUME RetriesAssumption, Init, NEW r \in Requests
             PROVE  Good(at[r], sent[r], replies[r])
  BY DEF FailoverInv
<1>1. at[r] = "idle" /\ sent[r] = <<>> /\ replies[r] = <<>>
  BY DEF Init
<1>2. Len(<<>>) = 0 /\ IsInjective(<<>>)
  BY DEF IsInjective
<1> QED
  BY <1>1, <1>2 DEF Good, RetriesAssumption

LEMMA NextFailover ==
    ASSUME DiscoveryAssumption, RetriesAssumption, TypeOK, FailoverInv, [Next]_vars
    PROVE  FailoverInv'
<1>1. CASE Next
  <2>1. CASE UNCHANGED <<locks, calls>>
    BY <2>1 DEF calls, FailoverInv
  <2> QED
    BY <1>1, <2>1, Steps, RequestFailover
<1>2. CASE UNCHANGED vars
  BY <1>2 DEF vars, calls, FailoverInv
<1> QED
  BY <1>1, <1>2

\* However the list changes between the attempts of a request, it goes to no instance twice,
\* to Retries + 1 at most, and on only after a failure that allows it.
THEOREM SafeFailoverHolds == Spec => []SafeFailover
<1>1. Init => TypeOK /\ FailoverInv
  BY InitTyped, InitFailover, DiscoveryAssumption, RetriesAssumption
<1>2. TypeOK /\ FailoverInv /\ [Next]_vars => TypeOK' /\ FailoverInv'
  BY NextTyped, NextFailover, DiscoveryAssumption, RetriesAssumption
<1>3. FailoverInv => SafeFailover
  BY DEF FailoverInv, Good, SafeFailover
<1> QED
  BY <1>1, <1>2, <1>3, PTL DEF Spec

-----------------------------------------------------------------------------
(* The locks.                                                              *)

\* A request that refreshes holds the lock of its service; the one that creates the naming
\* client holds that lock, and there is no client yet.  Without a client there is no
\* subscription, so nothing makes fresh the list of a service whose request waits for it.
LockInv ==
    /\ \A r \in Requests : at[r] \in Refreshing => lock[Service(r)] = r
    /\ \A r \in Requests : at[r] = "creating" => namingLock = r /\ clients = 0
    /\ clients <= 1
    /\ \A r \in Requests : at[r] \in {"listing", "listed", "subscribing"} => naming
    /\ ~naming => watched = {} /\ \A s \in Services : pushes[s] = <<>>
    /\ \A r \in Requests :
           at[r] \in {"naming", "creating"} =>
               /\ Service(r) \notin watched
               /\ pushes[Service(r)] = <<>>
               /\ ~Fresh(Service(r))

\* Two requests of one service do not refresh it together.
LEMMA OneHolder ==
    ASSUME LockInv, NEW r \in Requests, NEW q \in Requests, r # q,
           at[r] \in Refreshing, at[q] \in Refreshing
    PROVE  Service(r) # Service(q)
BY DEF LockInv

\* A pick takes the request out of the refresh and leaves the others where they are.
LEMMA PickPlaces ==
    ASSUME DiscoveryAssumption, TypeOK, NEW r \in Requests, NEW list \in SUBSET Addresses,
           PickFrom(r, list)
    PROVE  /\ at'[r] \in {"sending", "done"}
           /\ \A q \in Requests \ {r} : at'[q] = at[q]
<1>1. at \in [Requests -> Place]
  BY DEF TypeOK
<1> QED
  BY <1>1, PickFacts

LEMMA AttemptPlaces ==
    ASSUME DiscoveryAssumption, TypeOK, NEW r \in Requests, Attempt(r)
    PROVE  /\ at'[r] \in {"lock", "sending", "done"}
           /\ \A q \in Requests \ {r} : at'[q] = at[q]
<1>1. at \in [Requests -> Place] /\ cache[Service(r)].list \in SUBSET Addresses
  BY LoadFacts DEF TypeOK, DiscoveryTypeOK
<1>2. CASE PickFrom(r, cache[Service(r)].list)
  BY <1>1, <1>2, PickPlaces
<1> QED
  BY <1>1, <1>2 DEF Attempt, End, Goto

\* A step that leaves the discovery and the locks alone, or releases those of its request.
LEMMA LeavingLocks ==
    ASSUME DiscoveryAssumption, TypeOK, LockInv, NEW r \in Requests,
           at'[r] \notin Refreshing,
           \A q \in Requests \ {r} : at'[q] = at[q],
           lock' = lock \/ (at[r] \in Refreshing /\ Unlock(r))
               \/ lock' = [s \in Services |-> IF lock[s] = r THEN NoRequest ELSE lock[s]],
           namingLock' = namingLock \/ namingLock' = IF namingLock = r THEN NoRequest ELSE namingLock,
           UNCHANGED <<load, watched, pushes, cache, age, naming, clients>>
    PROVE  LockInv'
<1>1. /\ lock \in [Services -> Requests \cup {NoRequest}]
      /\ \A q \in Requests : Service(q) \in Services /\ Service(q)' = Service(q)
  BY LoadFacts DEF TypeOK, Service
<1>2. \A q \in Requests : at'[q] \in Refreshing => q # r /\ at[q] \in Refreshing
  OBVIOUS
<1>3. ASSUME NEW q \in Requests, at'[q] \in Refreshing
      PROVE  lock'[Service(q)] = q
  <2>1. q # r /\ at[q] \in Refreshing /\ lock[Service(q)] = q
    BY <1>2, <1>3 DEF LockInv
  <2>2. CASE at[r] \in Refreshing /\ Unlock(r)
    BY <1>1, <2>1, <2>2, OneHolder DEF Unlock
  <2> QED
    BY <1>1, <2>1, <2>2
<1>4. \A q \in Requests : at'[q] = "creating" => q # r /\ at[q] = "creating" /\ namingLock' = q
  BY DEF LockInv, Refreshing
<1>5. \A s \in Services : Fresh(s)' = Fresh(s)
  BY DEF Fresh
<1>6. \A q \in Requests :
         /\ at'[q] \in {"listing", "listed", "subscribing"} => at[q] = at'[q]
         /\ at'[q] \in {"naming", "creating"} => at[q] = at'[q]
  BY DEF Refreshing
<1> QED
  BY <1>1, <1>3, <1>4, <1>5, <1>6 DEF LockInv

LEMMA RefreshLocks ==
    ASSUME DiscoveryAssumption, TypeOK, LockInv, NEW r \in Requests, Refresh(r)
    PROVE  LockInv'
<1> DEFINE s == Service(r)
<1>1. /\ at \in [Requests -> Place]
      /\ lock \in [Services -> Requests \cup {NoRequest}] /\ NoRequest \notin Requests
      /\ s \in Services /\ cache[s].list \in SUBSET Addresses
      /\ \A q \in Requests : Service(q) \in Services
      /\ clients \in Nat
      /\ cache \in [Services -> [known : BOOLEAN, list : SUBSET Addresses]]
      /\ age \in [Services -> 0..TTL] /\ pushes \in [Services -> Seq(Listing)]
  BY LoadFacts DEF TypeOK, DiscoveryTypeOK, DiscoveryAssumption
<1>2. \A q \in Requests : Service(q)' = Service(q)
  BY DEF Refresh, Acquire, GetNaming, ClientCreated, RegistryAnswers, ListArrives,
     RefreshFails, RefreshFailing, SubscribeEnds, external, Service
<1>3. \A q \in Requests \ {r} :
         at[r] \in Refreshing /\ at[q] \in Refreshing => Service(q) # s /\ lock[Service(q)] = q
  BY OneHolder DEF LockInv
<1>4. CASE Acquire(r)
  <2>1. at[r] = "lock" /\ lock[s] = NoRequest
    BY <1>4 DEF Acquire, At
  <2>2. CASE PickFrom(r, cache[s].list) /\ UNCHANGED lock
    <3>1. at'[r] \notin Refreshing /\ \A q \in Requests \ {r} : at'[q] = at[q]
      BY <1>1, <2>2, PickPlaces DEF Refreshing
    <3> QED
      BY <1>4, <2>2, <3>1, LeavingLocks DEF Acquire, external
  <2>3. CASE /\ ~Fresh(s)
             /\ Lock(r)
             /\ Goto(r, IF naming THEN "listing" ELSE "naming")
    <3>1. /\ \A q \in Requests \ {r} : at'[q] = at[q]
          /\ at'[r] = IF naming THEN "listing" ELSE "naming"
          /\ lock' = [lock EXCEPT ![s] = r]
      BY <1>1, <2>3 DEF Goto, Lock
    <3>2. UNCHANGED <<watched, pushes, cache, age, naming, namingLock, clients>>
      BY <1>4 DEF Acquire, external
    <3>3. \A q \in Requests \ {r} : at[q] \in Refreshing => Service(q) # s
      BY <1>1, <2>1 DEF LockInv
    <3>4. \A q \in Requests : at'[q] \in Refreshing => lock'[Service(q)] = q
      BY <1>1, <3>1, <3>3 DEF LockInv
    <3>5. \A t \in Services : Fresh(t)' = Fresh(t)
      BY <3>2 DEF Fresh
    <3>6. /\ \A q \in Requests : at'[q] = "creating" => at[q] = "creating"
          /\ \A q \in Requests :
                 at'[q] \in {"listing", "listed", "subscribing"} => naming \/ at[q] = at'[q]
          /\ \A q \in Requests :
                 at'[q] \in {"naming", "creating"} => at[q] = at'[q] \/ (q = r /\ ~naming)
      BY <3>1
    <3> QED
      BY <1>1, <1>2, <2>3, <3>2, <3>4, <3>5, <3>6 DEF LockInv
  <2> QED
    BY <1>4, <2>2, <2>3 DEF Acquire
<1>5. CASE GetNaming(r) \/ ClientCreated(r) \/ RegistryAnswers(r)
  <2>1. /\ at[r] \in {"naming", "creating", "listing"}
        /\ at'[r] \in {"creating", "listing", "listed"}
        /\ \A q \in Requests \ {r} : at'[q] = at[q]
        /\ UNCHANGED <<lock, watched, pushes, cache, age>>
    BY <1>1, <1>5 DEF GetNaming, ClientCreated, RegistryAnswers, At, Goto, external, discovery,
       locks
  <2>2. \A q \in Requests : at'[q] \in Refreshing => at[q] \in Refreshing
    BY <2>1 DEF Refreshing
  <2>3. \A t \in Services : Fresh(t)' = Fresh(t)
    BY <2>1 DEF Fresh
  <2>4. CASE GetNaming(r)
    <3>1. /\ at[r] = "naming" /\ namingLock = NoRequest
          /\ naming' = (naming \/ clients > 0)
          /\ namingLock' = IF naming' THEN NoRequest ELSE r
          /\ at'[r] = IF naming' THEN "listing" ELSE "creating"
          /\ clients' = clients
      BY <1>1, <2>4 DEF GetNaming, At, Goto
    <3>2. ASSUME NEW q \in Requests, at'[q] = "creating"
          PROVE  q = r /\ namingLock' = r /\ clients = 0
      <4>1. q = r
        <5>1. SUFFICES ASSUME q # r PROVE FALSE
          OBVIOUS
        <5>2. at[q] = "creating"
          BY <2>1, <3>2, <5>1
        <5>3. namingLock = q
          BY <5>2 DEF LockInv
        <5> QED
          BY <1>1, <3>1, <5>3
      <4>2. at'[r] = "creating"
        BY <3>2, <4>1
      <4>3. CASE naming'
        BY <3>1, <4>2, <4>3
      <4>4. CASE ~naming'
        <5>1. ~(clients > 0)
          BY <3>1, <4>4
        <5>2. clients = 0
          BY <1>1, <5>1
        <5>3. namingLock' = r
          BY <3>1, <4>4
        <5> QED
          BY <4>1, <5>2, <5>3
      <4> QED
        BY <4>3, <4>4
    <3>3. \A q \in Requests : at'[q] = "creating" => namingLock' = q /\ clients' = 0
      BY <3>1, <3>2
    <3>4. \A q \in Requests :
             at'[q] \in {"listing", "listed", "subscribing"} => naming'
      BY <2>1, <3>1 DEF LockInv
    <3>5. \A q \in Requests :
             at'[q] \in {"naming", "creating"} => at[q] \in {"naming", "creating"}
      BY <2>1, <3>1
    <3>6. \A q \in Requests : at'[q] \in Refreshing => lock'[Service(q)] = q
      BY <2>1, <2>2 DEF LockInv
    <3>7. clients' <= 1
      BY <3>1 DEF LockInv
    <3>8. ~naming' => watched' = {} /\ \A t \in Services : pushes'[t] = <<>>
      <4>1. ~naming' => ~naming
        BY <3>1
      <4> QED
        BY <2>1, <4>1 DEF LockInv
    <3>9. \A q \in Requests :
             at'[q] \in {"naming", "creating"} =>
                 /\ Service(q) \notin watched'
                 /\ pushes'[Service(q)] = <<>>
                 /\ ~Fresh(Service(q))'
      <4>1. ASSUME NEW q \in Requests, at'[q] \in {"naming", "creating"}
            PROVE  /\ Service(q) \notin watched'
                   /\ pushes'[Service(q)] = <<>>
                   /\ ~Fresh(Service(q))'
        <5>1. Service(q) \notin watched /\ pushes[Service(q)] = <<>> /\ ~Fresh(Service(q))
          BY <3>5, <4>1 DEF LockInv
        <5> QED
          BY <1>1, <1>2, <2>1, <5>1 DEF Fresh
      <4> QED
        BY <4>1
    <3> QED
      BY <1>2, <2>1, <3>3, <3>4, <3>6, <3>7, <3>8, <3>9 DEF LockInv
  <2>5. CASE ClientCreated(r)
    <3>1. /\ at[r] = "creating" /\ at'[r] = "listing" /\ naming' = TRUE
          /\ clients' = clients + 1
      BY <1>1, <2>5 DEF ClientCreated, At, Goto
    <3>2. /\ clients' = 1
          /\ \A q \in Requests : at'[q] = "creating" => FALSE
          /\ \A q \in Requests : at'[q] = "naming" => at[q] = "naming"
      BY <2>1, <3>1 DEF LockInv
    <3> QED
      BY <1>1, <1>2, <2>1, <2>2, <2>3, <3>1, <3>2 DEF LockInv
  <2>6. CASE RegistryAnswers(r)
    <3>1. /\ at[r] = "listing" /\ at'[r] = "listed"
          /\ UNCHANGED <<naming, namingLock, clients>>
      BY <1>1, <2>6 DEF RegistryAnswers, At, Goto, locks
    <3> QED
      BY <1>1, <1>2, <2>1, <2>2, <2>3, <3>1 DEF LockInv
  <2> QED
    BY <1>5, <2>4, <2>5, <2>6
<1>6. CASE ListArrives(r)
  <2>1. /\ at[r] = "listed" /\ at[r] \in Refreshing
        /\ cache' = [cache EXCEPT ![s] = Cached(answer[r])]
        /\ age' = [age EXCEPT ![s] = 0]
        /\ UNCHANGED <<watched, pushes, naming, namingLock, clients>>
    BY <1>6 DEF ListArrives, At, Refreshing, external
  <2>2. /\ \A q \in Requests \ {r} : at'[q] = at[q]
        /\ \/ at'[r] \notin Refreshing /\ Unlock(r)
           \/ at'[r] = "subscribing" /\ lock' = lock
    <3>1. CASE Unlock(r) /\ PickFrom(r, Usable(answer[r]))
      BY <1>1, <3>1, CachedTyped, PickPlaces DEF Refreshing
    <3>2. CASE Goto(r, "subscribing") /\ UNCHANGED <<lock, cursor, sent, result>>
      BY <1>1, <3>2 DEF Goto
    <3> QED
      BY <1>6, <3>1, <3>2 DEF ListArrives
  <2>3. \A q \in Requests : at'[q] \in Refreshing => lock'[Service(q)] = q
    BY <1>1, <1>3, <2>1, <2>2 DEF Unlock, LockInv
  <2>4. \A q \in Requests :
           /\ at'[q] = "creating" => at[q] = "creating"
           /\ at'[q] \in {"listing", "listed", "subscribing"} =>
                  at[q] \in {"listing", "listed", "subscribing"}
           /\ at'[q] \in {"naming", "creating"} =>
                  q # r /\ at[q] = at'[q] /\ at[q] \in Refreshing
    BY <2>1, <2>2 DEF Refreshing
  <2>5. \A q \in Requests : at'[q] \in {"naming", "creating"} => Fresh(Service(q))' = Fresh(Service(q))
    <3> SUFFICES ASSUME NEW q \in Requests, at'[q] \in {"naming", "creating"}
                 PROVE  Fresh(Service(q))' = Fresh(Service(q))
      OBVIOUS
    <3>1. Service(q) # s
      BY <1>3, <2>1, <2>4
    <3>2. cache'[Service(q)] = cache[Service(q)] /\ age'[Service(q)] = age[Service(q)]
      BY <1>1, <2>1, <3>1
    <3> QED
      BY <1>2, <3>2 DEF Fresh
  <2> QED
    BY <1>1, <1>2, <2>1, <2>3, <2>4, <2>5 DEF LockInv
<1>7. CASE RefreshFails(r)
  <2>1. /\ at[r] \in Refreshing
        /\ Unlock(r)
        /\ namingLock' = IF namingLock = r THEN NoRequest ELSE namingLock
        /\ UNCHANGED <<load, watched, pushes, cache, age, naming, clients>>
    BY <1>7 DEF RefreshFails, RefreshFailing, Refreshing, external
  <2>2. at'[r] \notin Refreshing /\ \A q \in Requests \ {r} : at'[q] = at[q]
    <3>1. CASE PickFrom(r, cache[s].list)
      BY <1>1, <3>1, PickPlaces DEF Refreshing
    <3>2. CASE End(r, "noList")
      BY <1>1, <3>2 DEF End, Goto, Refreshing
    <3> QED
      BY <1>7, <3>1, <3>2 DEF RefreshFails
  <2> QED
    BY <2>1, <2>2, LeavingLocks
<1>8. CASE SubscribeEnds(r)
  <2>1. /\ at[r] = "subscribing" /\ at[r] \in Refreshing
        /\ watched' \in {watched, watched \cup {s}}
        /\ lock' = [lock EXCEPT ![s] = NoRequest]
        /\ UNCHANGED <<pushes, cache, age, naming, namingLock, clients>>
    BY <1>8 DEF SubscribeEnds, At, Refreshing, Unlock
  <2>2. at'[r] \notin Refreshing /\ \A q \in Requests \ {r} : at'[q] = at[q]
    BY <1>1, <1>8, PickPlaces DEF SubscribeEnds, Refreshing
  <2>3. \A q \in Requests : at'[q] \in Refreshing => lock'[Service(q)] = q /\ Service(q) # s
    BY <1>1, <1>3, <2>1, <2>2 DEF LockInv
  <2>4. naming /\ \A t \in Services : Fresh(t)' = Fresh(t)
    BY <2>1 DEF LockInv, Fresh
  <2>5. \A q \in Requests :
           /\ at'[q] = "creating" => at[q] = "creating"
           /\ at'[q] \in {"listing", "listed", "subscribing"} =>
                  at[q] \in {"listing", "listed", "subscribing"}
           /\ at'[q] \in {"naming", "creating"} => at[q] = at'[q] /\ at'[q] \in Refreshing
    BY <2>1, <2>2 DEF Refreshing
  <2> QED
    BY <1>1, <1>2, <2>1, <2>3, <2>4, <2>5 DEF LockInv
<1> QED
  BY <1>4, <1>5, <1>6, <1>7, <1>8 DEF Refresh

LEMMA OtherLocks ==
    ASSUME DiscoveryAssumption, TypeOK, LockInv, NEW r \in Requests,
           Begin(r) \/ Exchange(r) \/ Cancel(r)
    PROVE  LockInv'
<1>1. at \in [Requests -> Place]
  BY DEF TypeOK
<1>2. /\ at'[r] \notin Refreshing
      /\ \A q \in Requests \ {r} : at'[q] = at[q]
  <2>1. CASE \E how : End(r, how)
    BY <1>1, <2>1 DEF End, Goto, Refreshing
  <2>2. CASE Attempt(r)
    BY <2>2, AttemptPlaces DEF Refreshing
  <2> QED
    BY <2>1, <2>2 DEF Begin, Exchange, Answered, Breaks, FailsOver, Cancel
<1>3. UNCHANGED <<load, watched, pushes, cache, age, naming, clients>>
  BY DEF Begin, Exchange, Answered, Breaks, FailsOver, Cancel, external, discovery, locks
<1>4. \/ UNCHANGED <<lock, namingLock>>
      \/ /\ lock' = [s \in Services |-> IF lock[s] = r THEN NoRequest ELSE lock[s]]
         /\ namingLock' = IF namingLock = r THEN NoRequest ELSE namingLock
  BY DEF Begin, Exchange, Answered, Breaks, FailsOver, Cancel, locks
<1> QED
  BY <1>2, <1>3, <1>4, LeavingLocks

LEMMA SurroundingLocks ==
    ASSUME DiscoveryAssumption, TypeOK, LockInv, Surroundings, UNCHANGED <<locks, calls>>
    PROVE  LockInv'
<1>1. /\ \A q \in Requests : Service(q) \in Services
      /\ cache \in [Services -> [known : BOOLEAN, list : SUBSET Addresses]]
      /\ age \in [Services -> 0..TTL] /\ pushes \in [Services -> Seq(Listing)]
      /\ TTL \in Nat
  BY LoadFacts DEF TypeOK, DiscoveryTypeOK, DiscoveryAssumption
<1>2. /\ \A q \in Requests : Service(q)' = Service(q)
      /\ watched' = watched
  BY DEF Surroundings, RegistryChanges, OnChange, Tick, Close, external, Service
<1>3. UNCHANGED <<lock, naming, namingLock, clients, at>>
  BY DEF locks, calls
<1>4. \A s \in Services : s \notin watched /\ pushes[s] = <<>> => pushes'[s] = <<>>
  BY <1>1 DEF Surroundings, RegistryChanges, OnChange, Tick, Close, external
<1>5. \A s \in Services : pushes[s] = <<>> /\ ~Fresh(s) => ~Fresh(s)'
  <2> SUFFICES ASSUME NEW s \in Services, pushes[s] = <<>>, ~Fresh(s) PROVE ~Fresh(s)'
    OBVIOUS
  <2>1. CASE \E t \in Services : RegistryChanges(t)
    BY <2>1 DEF RegistryChanges, discovery, Fresh
  <2>2. ASSUME NEW t \in Services, OnChange(t)
        PROVE  ~Fresh(s)'
    <3>1. s # t
      BY <2>2 DEF OnChange
    <3>2. cache'[s] = cache[s] /\ age'[s] = age[s]
      BY <1>1, <2>2, <3>1 DEF OnChange
    <3> QED
      BY <3>2 DEF Fresh
  <2>3. CASE Tick
    <3>1. cache' = cache /\ (age[s] < TTL \/ age'[s] = TTL)
      BY <2>3 DEF Tick
    <3>2. ~(TTL < TTL)
      BY <1>1
    <3> QED
      BY <3>1, <3>2 DEF Fresh
  <2>4. CASE Close
    BY <2>4 DEF Close, NotCached, Fresh
  <2> QED
    BY <2>1, <2>2, <2>3, <2>4 DEF Surroundings
<1> QED
  BY <1>1, <1>2, <1>3, <1>4, <1>5 DEF LockInv

LEMMA InitLocks == Init => LockInv
BY DEF Init, DiscoveryInit, LockInv, Refreshing

LEMMA NextLocks ==
    ASSUME DiscoveryAssumption, TypeOK, LockInv, [Next]_vars
    PROVE  LockInv'
<1>1. CASE Next
  BY <1>1, Steps, RefreshLocks, OtherLocks, SurroundingLocks
<1>2. CASE UNCHANGED vars
  BY <1>2 DEF vars, external, discovery, locks, calls, LockInv, Fresh, Service
<1> QED
  BY <1>1, <1>2

\* The naming client of the process is created once, under its lock.
THEOREM OneNamingClientHolds == Spec => []OneNamingClient
<1>1. Init => TypeOK /\ LockInv
  BY InitTyped, InitLocks, DiscoveryAssumption
<1>2. TypeOK /\ LockInv /\ [Next]_vars => TypeOK' /\ LockInv'
  BY NextTyped, NextLocks, DiscoveryAssumption
<1>3. LockInv => OneNamingClient
  BY DEF LockInv, OneNamingClient
<1> QED
  BY <1>1, <1>2, <1>3, PTL DEF Spec

\* A list call is only begun for a stale list.
LEMMA ListingStarts ==
    ASSUME DiscoveryAssumption, TypeOK, LockInv, [Next]_vars, NEW r \in Requests,
           at[r] # "listing", at'[r] = "listing"
    PROVE  ~Fresh(Service(r))
<1>1. /\ at \in [Requests -> Place]
      /\ \A q \in Requests : cache[Service(q)].list \in SUBSET Addresses
  BY LoadFacts DEF TypeOK, DiscoveryTypeOK
<1>2. PICK q \in Requests : Begin(q) \/ Refresh(q) \/ Exchange(q) \/ Cancel(q)
  BY Steps DEF Surroundings, vars, calls
<1>3. CASE Begin(q) \/ Exchange(q) \/ Cancel(q)
  <2>1. CASE \E how : End(q, how)
    BY <1>1, <2>1 DEF End, Goto
  <2>2. CASE Attempt(q)
    BY <2>2, AttemptPlaces
  <2> QED
    BY <1>3, <2>1, <2>2 DEF Begin, Exchange, Answered, Breaks, FailsOver, Cancel
<1>4. CASE Acquire(q)
  <2>1. CASE PickFrom(q, cache[Service(q)].list)
    BY <1>1, <2>1, PickPlaces
  <2>2. CASE ~Fresh(Service(q)) /\ Goto(q, IF naming THEN "listing" ELSE "naming")
    BY <1>1, <2>2 DEF Goto
  <2> QED
    BY <1>4, <2>1, <2>2 DEF Acquire
<1>5. CASE GetNaming(q) \/ ClientCreated(q)
  <2>1. q = r /\ at[r] \in {"naming", "creating"}
    BY <1>1, <1>5 DEF GetNaming, ClientCreated, At, Goto
  <2> QED
    BY <2>1 DEF LockInv
<1>6. CASE RegistryAnswers(q)
  BY <1>1, <1>6 DEF RegistryAnswers, Goto
<1>7. CASE ListArrives(q)
  <2>1. CASE PickFrom(q, Usable(answer[q]))
    BY <1>1, <2>1, CachedTyped, PickPlaces
  <2>2. CASE Goto(q, "subscribing")
    BY <1>1, <2>2 DEF Goto
  <2> QED
    BY <1>7, <2>1, <2>2 DEF ListArrives
<1>8. CASE RefreshFails(q) \/ SubscribeEnds(q)
  <2>1. CASE PickFrom(q, cache[Service(q)].list)
    BY <1>1, <2>1, PickPlaces
  <2>2. CASE End(q, "noList")
    BY <1>1, <2>2 DEF End, Goto
  <2> QED
    BY <1>8, <2>1, <2>2 DEF RefreshFails, SubscribeEnds
<1> QED
  BY <1>2, <1>3, <1>4, <1>5, <1>6, <1>7, <1>8 DEF Refresh

\* A stale list is refreshed by one request at a time, and only while it is stale.
THEOREM OneRefreshHolds == Spec => OneRefresh
<1> DEFINE Refreshes ==
      /\ \A r, q \in Requests :
             r # q /\ Service(r) = Service(q) =>
                 ~(at'[r] \in Refreshing /\ at'[q] \in Refreshing)
      /\ \A r \in Requests :
             at[r] # "listing" /\ at'[r] = "listing" => ~Fresh(Service(r))
<1>1. Init => TypeOK /\ LockInv
  BY InitTyped, InitLocks, DiscoveryAssumption
<1>2. TypeOK /\ LockInv /\ [Next]_vars => TypeOK' /\ LockInv'
  BY NextTyped, NextLocks, DiscoveryAssumption
<1>3. TypeOK /\ LockInv /\ [Next]_vars => [Refreshes]_vars
  <2> SUFFICES ASSUME TypeOK, LockInv, [Next]_vars PROVE Refreshes
    OBVIOUS
  <2>1. LockInv'
    BY NextLocks, DiscoveryAssumption
  <2>2. UNCHANGED load
    BY DEF Next, RegistryChanges, OnChange, Tick, Close, Begin, Step, Refresh, Exchange, Acquire,
       GetNaming, ClientCreated, RegistryAnswers, ListArrives, RefreshFails, RefreshFailing,
       SubscribeEnds, Answered, Breaks, FailsOver, Cancel, external, vars
  <2>3. \A r \in Requests : Service(r)' = Service(r)
    BY <2>2 DEF Service
  <2>4. \A r \in Requests : at'[r] \in Refreshing => lock'[Service(r)] = r
    BY <2>1, <2>3 DEF LockInv
  <2> QED
    BY <2>4, ListingStarts, DiscoveryAssumption
<1> QED
  BY <1>1, <1>2, <1>3, PTL DEF Spec, OneRefresh

-----------------------------------------------------------------------------
(* The instance that is picked.                                            *)

\* What a step does to the instances a request was sent to, it does by a pick from the
\* list the cache has after it.
LEMMA PicksFromCache ==
    ASSUME DiscoveryAssumption, TypeOK, [Next]_vars, NEW r \in Requests, sent'[r] # sent[r]
    PROVE  PickFrom(r, cache'[Service(r)].list) /\ cache'[Service(r)].list \in SUBSET Addresses
<1>1. /\ sent \in [Requests -> Seq(Addresses)]
      /\ cache \in [Services -> [known : BOOLEAN, list : SUBSET Addresses]]
      /\ \A q \in Requests :
             Service(q) \in Services /\ cache[Service(q)].list \in SUBSET Addresses
  BY LoadFacts DEF TypeOK, DiscoveryTypeOK
<1>2. PICK q \in Requests : Begin(q) \/ Refresh(q) \/ Exchange(q) \/ Cancel(q)
  BY Steps DEF Surroundings, vars, calls
<1>3. CASE PickFrom(q, cache[Service(q)].list) /\ cache' = cache
  <2>1. q = r
    BY <1>1, <1>3, PickFacts
  <2> QED
    BY <1>1, <1>3, <2>1
<1>4. CASE Attempt(q) /\ cache' = cache
  <2>1. sent' # sent
    OBVIOUS
  <2> QED
    BY <1>3, <1>4, <2>1 DEF Attempt
<1>5. CASE Begin(q) \/ Exchange(q) \/ Cancel(q)
  <2>1. sent' # sent
    OBVIOUS
  <2> QED
    BY <1>4, <1>5, <2>1 DEF Begin, Exchange, Answered, Breaks, FailsOver, Cancel
<1>6. CASE ListArrives(q)
  <2>1. PickFrom(q, Usable(answer[q])) /\ Usable(answer[q]) \in SUBSET Addresses
    <3>1. sent' # sent
      OBVIOUS
    <3> QED
      BY <1>6, <3>1 DEF ListArrives, Usable
  <2>2. q = r
    BY <1>1, <2>1, PickFacts
  <2>3. cache' = [cache EXCEPT ![Service(r)] = Cached(answer[r])]
    BY <1>6, <2>2 DEF ListArrives
  <2>4. cache'[Service(r)].list = Usable(answer[r])
    BY <1>1, <2>3 DEF Cached
  <2> QED
    BY <2>1, <2>2, <2>4
<1>7. CASE Refresh(q) /\ ~ListArrives(q)
  <2>1. sent' # sent
    OBVIOUS
  <2> QED
    BY <1>3, <1>7, <2>1 DEF Refresh, Acquire, GetNaming, ClientCreated, RegistryAnswers,
       RefreshFails, RefreshFailing, SubscribeEnds, discovery
<1> QED
  BY <1>2, <1>5, <1>6, <1>7

\* A developer's request goes to the developer's instances, and to those of nobody only when
\* the list has none of the developer.
THEOREM DeveloperStaysHolds == Spec => DeveloperStays
<1> DEFINE Stays ==
      \A r \in Requests :
          sent'[r] # sent[r] =>
              LET tag == load.tag[r]
                  to == Developer[Last(sent'[r])] IN
              \/ to = tag
              \/ to = Baseline /\ Of(tag, cache'[Service(r)].list) = {}
<1>1. Init => TypeOK
  BY InitTyped, DiscoveryAssumption
<1>2. TypeOK /\ [Next]_vars => TypeOK'
  BY NextTyped, DiscoveryAssumption
<1>3. TypeOK /\ [Next]_vars => [Stays]_vars
  <2> SUFFICES ASSUME TypeOK, [Next]_vars, NEW r \in Requests, sent'[r] # sent[r]
               PROVE  \/ Developer[Last(sent'[r])] = load.tag[r]
                      \/ /\ Developer[Last(sent'[r])] = Baseline
                         /\ Of(load.tag[r], cache'[Service(r)].list) = {}
    OBVIOUS
  <2> DEFINE list == cache'[Service(r)].list
  <2>1. PickFrom(r, list) /\ list \in SUBSET Addresses
    BY PicksFromCache, DiscoveryAssumption
  <2> HIDE DEF list
  <2>2. sent \in [Requests -> Seq(Addresses)]
    BY DEF TypeOK
  <2>3. PICK a \in Candidates(load.tag[r], list, Tried(r)) :
           a \in Addresses /\ sent' = [sent EXCEPT ![r] = Append(@, a)]
    BY <2>1, PickFacts, DiscoveryAssumption
  <2>4. sent'[r] = Append(sent[r], a)
    BY <2>2, <2>3
  <2>5. Last(sent'[r]) = a
    BY <2>2, <2>3, <2>4 DEF Last
  <2> QED
    BY <2>3, <2>5, CandidateFacts DEF list
<1> QED
  BY <1>1, <1>2, <1>3, PTL DEF Spec, DeveloperStays

-----------------------------------------------------------------------------
(* The instances that have been there all along.                           *)

\* They are on every list that is known, on its way as a push, or on its way as an answer.
ListInv ==
    /\ \A s \in Services : cache[s].known => AllAlong(s) \subseteq cache[s].list
    /\ \A s \in Services : \A i \in DOMAIN pushes[s] : AllAlong(s) \subseteq Usable(pushes[s][i])
    /\ \A r \in Requests : at[r] = "listed" => AllAlong(Service(r)) \subseteq Usable(answer[r])
    /\ \A r \in Requests : at[r] # "done" => result[r] = "none"

LEMMA AllAlongCurrent ==
    ASSUME DiscoveryTypeOK, NEW s \in Services
    PROVE  AllAlong(s) \subseteq Usable(Current(s))
<1>1. registry[s] \in Seq(Listing) /\ registry[s] # <<>>
  BY DEF DiscoveryTypeOK
<1>2. Len(registry[s]) \in DOMAIN registry[s]
  BY <1>1
<1> QED
  BY <1>2 DEF AllAlong, Current, Last

\* A change takes from them those it does not list.
LEMMA AllAlongShrinks ==
    ASSUME DiscoveryTypeOK, NEW s \in Services, NEW l \in Listing,
           registry' = [registry EXCEPT ![s] = Append(@, l)]
    PROVE  /\ \A t \in Services : AllAlong(t)' \subseteq AllAlong(t)
           /\ AllAlong(s)' \subseteq Usable(l)
<1>1. registry \in [Services -> Seq(Listing) \ {<<>>}] /\ registry[s] \in Seq(Listing)
  BY DEF DiscoveryTypeOK
<1>2. registry'[s] = Append(registry[s], l)
  BY <1>1
<1>3. /\ \A i \in DOMAIN registry[s] : i \in DOMAIN registry'[s] /\ registry'[s][i] = registry[s][i]
      /\ Len(registry[s]) + 1 \in DOMAIN registry'[s]
      /\ registry'[s][Len(registry[s]) + 1] = l
  BY <1>1, <1>2
<1>4. AllAlong(s)' \subseteq AllAlong(s) /\ AllAlong(s)' \subseteq Usable(l)
  BY <1>3 DEF AllAlong, Usable
<1>5. \A t \in Services \ {s} : AllAlong(t)' = AllAlong(t)
  BY <1>1 DEF AllAlong, Usable
<1> QED
  BY <1>4, <1>5

LEMMA ChangeLists ==
    ASSUME TypeOK, ListInv, NEW s \in Services, RegistryChanges(s), UNCHANGED <<locks, calls>>,
           DiscoveryAssumption
    PROVE  ListInv'
<1>1. PICK l \in load.lists :
         /\ registry' = [registry EXCEPT ![s] = Append(@, l)]
         /\ pushes' = [pushes EXCEPT ![s] = Append(@, l)] \/ UNCHANGED pushes
  BY DEF RegistryChanges
<1>2. DiscoveryTypeOK /\ l \in Listing /\ \A r \in Requests : Service(r) \in Services
  BY <1>1, LoadFacts DEF TypeOK
<1>3. UNCHANGED <<load, cache, at, answer, result>>
  BY DEF RegistryChanges, discovery, calls
<1>4. /\ \A t \in Services : AllAlong(t)' \subseteq AllAlong(t)
      /\ AllAlong(s)' \subseteq Usable(l)
  BY <1>1, <1>2, AllAlongShrinks
<1>5. ASSUME NEW t \in Services, NEW i \in DOMAIN pushes'[t]
      PROVE  AllAlong(t)' \subseteq Usable(pushes'[t][i])
  <2>1. pushes \in [Services -> Seq(Listing)] /\ pushes[t] \in Seq(Listing)
    BY <1>2 DEF DiscoveryTypeOK
  <2>2. CASE pushes'[t] = pushes[t]
    BY <1>4, <2>2, <1>5 DEF ListInv
  <2>3. CASE t = s /\ pushes'[t] = Append(pushes[t], l)
    <3>1. CASE i \in DOMAIN pushes[t]
      BY <1>4, <2>1, <2>3, <3>1 DEF ListInv
    <3>2. CASE i \notin DOMAIN pushes[t]
      <4>1. pushes'[t][i] = l
        BY <1>2, <1>5, <2>1, <2>3, <3>2
      <4> QED
        BY <1>4, <2>3, <4>1
    <3> QED
      BY <3>1, <3>2
  <2> QED
    BY <1>1, <2>1, <2>2, <2>3
<1>6. \A r \in Requests : Service(r)' = Service(r)
  BY <1>3 DEF Service
<1>7. \A t \in Services : \A i \in DOMAIN pushes'[t] : AllAlong(t)' \subseteq Usable(pushes'[t][i])
  BY <1>5
<1>8. \A r \in Requests : at'[r] = "listed" => AllAlong(Service(r))' \subseteq Usable(answer'[r])
  BY <1>2, <1>3, <1>4 DEF ListInv, Service
<1>9. \A t \in Services : cache'[t].known => AllAlong(t)' \subseteq cache'[t].list
  BY <1>3, <1>4 DEF ListInv
<1>10. \A r \in Requests : at'[r] # "done" => result'[r] = "none"
  BY <1>3 DEF ListInv
<1> QED
  BY <1>7, <1>8, <1>9, <1>10 DEF ListInv, Usable

LEMMA PushLists ==
    ASSUME TypeOK, ListInv, NEW s \in Services, OnChange(s), UNCHANGED <<locks, calls>>
    PROVE  ListInv'
<1>1. /\ pushes \in [Services -> Seq(Listing)] /\ pushes[s] \in Seq(Listing) /\ pushes[s] # <<>>
      /\ cache \in [Services -> [known : BOOLEAN, list : SUBSET Addresses]]
  BY DEF TypeOK, DiscoveryTypeOK, OnChange
<1>2. /\ UNCHANGED <<load, registry, at, answer, result>>
      /\ pushes' = [pushes EXCEPT ![s] = Tail(@)]
      /\ cache' = cache \/ cache' = [cache EXCEPT ![s] = Cached(Head(pushes[s]))]
  BY DEF OnChange, calls
<1>3. \A t \in Services : AllAlong(t)' = AllAlong(t)
  BY <1>2 DEF AllAlong
<1>4. ASSUME NEW t \in Services, cache'[t].known
      PROVE  AllAlong(t) \subseteq cache'[t].list
  <2>1. CASE cache'[t] = cache[t]
    BY <1>4, <2>1 DEF ListInv
  <2>2. CASE t = s /\ cache'[t] = Cached(Head(pushes[s]))
    <3>1. 1 \in DOMAIN pushes[s] /\ Head(pushes[s]) = pushes[s][1]
      BY <1>1
    <3>2. AllAlong(s) \subseteq Usable(Head(pushes[s]))
      BY <3>1 DEF ListInv
    <3> QED
      BY <2>2, <3>2 DEF Cached
  <2> QED
    BY <1>1, <1>2, <2>1, <2>2
<1>5. ASSUME NEW t \in Services, NEW i \in DOMAIN pushes'[t]
      PROVE  AllAlong(t) \subseteq Usable(pushes'[t][i])
  <2>1. CASE t # s
    BY <1>1, <1>2, <1>5, <2>1 DEF ListInv
  <2>2. CASE t = s
    <3>1. pushes'[t] = Tail(pushes[s])
      BY <1>1, <1>2, <2>2
    <3>2. i + 1 \in DOMAIN pushes[s] /\ pushes'[t][i] = pushes[s][i + 1]
      BY <1>1, <1>5, <3>1
    <3> QED
      BY <2>2, <3>2 DEF ListInv
  <2> QED
    BY <2>1, <2>2
<1>6. \A r \in Requests :
         /\ at'[r] = "listed" => AllAlong(Service(r)) \subseteq Usable(answer'[r])
         /\ at'[r] # "done" => result'[r] = "none"
  BY <1>2 DEF ListInv
<1>7. \A r \in Requests : AllAlong(Service(r))' = AllAlong(Service(r))
  BY <1>2 DEF AllAlong, Service
<1> QED
  BY <1>3, <1>4, <1>5, <1>6, <1>7 DEF ListInv, Usable

\* A pick ends the request or lets it go on; it does not wait for a list then.
LEMMA PickOutcome ==
    ASSUME DiscoveryAssumption, TypeOK, NEW r \in Requests, NEW list \in SUBSET Addresses,
           PickFrom(r, list)
    PROVE  /\ \A q \in Requests \ {r} : at'[q] = at[q] /\ result'[q] = result[q]
           /\ at'[r] # "listed"
           /\ at'[r] # "done" => result'[r] = result[r]
<1>1. at \in [Requests -> Place] /\ result \in [Requests -> Result]
  BY DEF TypeOK
<1> QED
  BY <1>1, PickFacts

\* What a request does to its place, its answer and its result.
LEMMA RequestOutcome ==
    ASSUME DiscoveryAssumption, TypeOK, NEW r \in Requests,
           Begin(r) \/ Refresh(r) \/ Exchange(r) \/ Cancel(r)
    PROVE  /\ \A q \in Requests \ {r} :
                 at'[q] = at[q] /\ answer'[q] = answer[q] /\ result'[q] = result[q]
           /\ at'[r] = "listed" => answer'[r] = Current(Service(r))
           /\ at'[r] # "done" => at[r] # "done" /\ result'[r] = result[r]
<1>1. /\ at \in [Requests -> Place] /\ result \in [Requests -> Result]
      /\ answer \in [Requests -> Listing]
      /\ cache[Service(r)].list \in SUBSET Addresses
  BY LoadFacts DEF TypeOK, DiscoveryTypeOK
<1>2. \A q \in Requests \ {r} : answer'[q] = answer[q]
  BY <1>1 DEF Begin, Refresh, Exchange, Acquire, GetNaming, ClientCreated, RegistryAnswers,
     ListArrives, RefreshFails, RefreshFailing, SubscribeEnds, Answered, Breaks, FailsOver, Cancel
<1>3. at[r] # "done"
  BY DEF Begin, Refresh, Exchange, Acquire, GetNaming, ClientCreated, RegistryAnswers,
     ListArrives, RefreshFails, RefreshFailing, SubscribeEnds, Answered, Breaks, FailsOver, Cancel,
     At
<1> DEFINE Outcome ==
      /\ \A q \in Requests \ {r} : at'[q] = at[q] /\ result'[q] = result[q]
      /\ at'[r] # "listed"
      /\ at'[r] # "done" => result'[r] = result[r]
<1>4. \A how : End(r, how) => Outcome
  BY <1>1 DEF End, Goto
<1>5. \A place \in Place \ {"listed"} : Goto(r, place) /\ UNCHANGED result => Outcome
  BY <1>1 DEF Goto
<1>6. \A list \in SUBSET Addresses : PickFrom(r, list) => Outcome
  BY PickOutcome
<1>7. {"lock", "naming", "creating", "listing", "subscribing"} \subseteq Place \ {"listed"}
  BY DEF Place
<1> HIDE DEF Outcome
<1>8. Attempt(r) => Outcome
  BY <1>1, <1>4, <1>5, <1>6, <1>7 DEF Attempt
<1>9. CASE Begin(r) \/ Exchange(r) \/ Cancel(r)
  BY <1>2, <1>3, <1>4, <1>8, <1>9 DEF Begin, Exchange, Answered, Breaks, FailsOver, Cancel, Outcome
<1>10. CASE Acquire(r)
  <2>1. Outcome
    BY <1>1, <1>5, <1>6, <1>7, <1>10 DEF Acquire
  <2> QED
    BY <1>2, <1>3, <2>1 DEF Outcome
<1>11. CASE GetNaming(r) \/ ClientCreated(r)
  <2>1. Outcome
    BY <1>5, <1>7, <1>11 DEF GetNaming, ClientCreated
  <2> QED
    BY <1>2, <1>3, <2>1 DEF Outcome
<1>12. CASE RegistryAnswers(r)
  BY <1>1, <1>3, <1>12 DEF RegistryAnswers, Goto
<1>13. CASE ListArrives(r)
  <2>1. Outcome
    BY <1>5, <1>6, <1>7, <1>13 DEF ListArrives, Usable
  <2> QED
    BY <1>2, <1>3, <2>1 DEF Outcome
<1>14. CASE RefreshFails(r) \/ SubscribeEnds(r)
  <2>1. Outcome
    BY <1>1, <1>4, <1>6, <1>14 DEF RefreshFails, SubscribeEnds
  <2> QED
    BY <1>2, <1>3, <2>1 DEF Outcome
<1> QED
  BY <1>9, <1>10, <1>11, <1>12, <1>13, <1>14 DEF Refresh

LEMMA RequestLists ==
    ASSUME DiscoveryAssumption, TypeOK, ListInv, NEW r \in Requests,
           Begin(r) \/ Refresh(r) \/ Exchange(r) \/ Cancel(r)
    PROVE  ListInv'
<1>1. /\ cache \in [Services -> [known : BOOLEAN, list : SUBSET Addresses]]
      /\ \A q \in Requests : Service(q) \in Services
      /\ DiscoveryTypeOK
  BY LoadFacts DEF TypeOK, DiscoveryTypeOK
<1>2. /\ UNCHANGED <<load, registry, pushes>>
      /\ \/ cache' = cache
         \/ at[r] = "listed" /\ cache' = [cache EXCEPT ![Service(r)] = Cached(answer[r])]
  BY DEF Begin, Refresh, Exchange, Acquire, GetNaming, ClientCreated, RegistryAnswers, ListArrives,
     RefreshFails, RefreshFailing, SubscribeEnds, Answered, Breaks, FailsOver, Cancel, At,
     external, discovery
<1>3. /\ \A s \in Services : AllAlong(s)' = AllAlong(s)
      /\ \A q \in Requests : AllAlong(Service(q))' = AllAlong(Service(q))
  BY <1>2 DEF AllAlong, Service
<1>4. \A s \in Services : cache'[s].known => AllAlong(s) \subseteq cache'[s].list
  BY <1>1, <1>2 DEF ListInv, Cached
<1>5. AllAlong(Service(r)) \subseteq Usable(Current(Service(r)))
  BY <1>1, AllAlongCurrent
<1>6. \A q \in Requests : at'[q] = "listed" => AllAlong(Service(q)) \subseteq Usable(answer'[q])
  BY <1>5, RequestOutcome DEF ListInv
<1>7. \A q \in Requests : at'[q] # "done" => result'[q] = "none"
  BY RequestOutcome DEF ListInv
<1> QED
  BY <1>2, <1>3, <1>4, <1>6, <1>7 DEF ListInv, Usable

LEMMA InitLists == DiscoveryAssumption /\ Init => ListInv
<1> SUFFICES ASSUME Init PROVE ListInv
  OBVIOUS
<1> QED
  BY DEF Init, DiscoveryInit, ListInv, NotCached

LEMMA NextLists ==
    ASSUME DiscoveryAssumption, TypeOK, ListInv, [Next]_vars
    PROVE  ListInv'
<1>1. CASE \E r \in Requests : Begin(r) \/ Refresh(r) \/ Exchange(r) \/ Cancel(r)
  BY <1>1, RequestLists
<1>2. CASE Surroundings /\ UNCHANGED <<locks, calls>>
  <2>1. CASE \E s \in Services : RegistryChanges(s) \/ OnChange(s)
    BY <1>2, <2>1, ChangeLists, PushLists
  <2>2. CASE Tick \/ Close
    <3>1. UNCHANGED <<load, registry, pushes, at, answer, result>>
      BY <1>2, <2>2 DEF Tick, Close, external, calls
    <3>2. cache' = cache \/ cache' = [s \in Services |-> NotCached]
      BY <2>2 DEF Tick, Close
    <3>3. \A s \in Services : cache'[s].known => cache'[s] = cache[s] /\ cache[s].known
      BY <3>2 DEF NotCached
    <3>4. /\ \A s \in Services : AllAlong(s)' = AllAlong(s)
          /\ \A q \in Requests : AllAlong(Service(q))' = AllAlong(Service(q))
      BY <3>1 DEF AllAlong, Service
    <3> QED
      BY <3>1, <3>3, <3>4 DEF ListInv, Usable
  <2> QED
    BY <1>2, <2>1, <2>2 DEF Surroundings
<1>3. CASE UNCHANGED vars
  BY <1>3 DEF vars, external, discovery, calls, ListInv, AllAlong, Usable, Service
<1> QED
  BY <1>1, <1>2, <1>3, Steps

\* A request that gives up with a list in the cache has picked from that list in vain.
LEMMA GivingUp ==
    ASSUME DiscoveryAssumption, TypeOK, ListInv, [Next]_vars, NEW r \in Requests,
           at[r] # "done", result'[r] \in {"noInstance", "noList"}, cache'[Service(r)].known
    PROVE  /\ Candidates(load.tag[r], cache'[Service(r)].list, Tried(r)) = {}
           /\ UNCHANGED registry
<1>1. /\ result \in [Requests -> Result] /\ result[r] = "none"
      /\ cache \in [Services -> [known : BOOLEAN, list : SUBSET Addresses]]
      /\ \A q \in Requests :
             Service(q) \in Services /\ cache[Service(q)].list \in SUBSET Addresses
  BY LoadFacts DEF TypeOK, DiscoveryTypeOK, ListInv
<1>2. result'[r] # result[r]
  BY <1>1
<1>3. PICK q \in Requests : Begin(q) \/ Refresh(q) \/ Exchange(q) \/ Cancel(q)
  BY <1>2, Steps DEF Surroundings, vars, calls
<1>4. q = r
  BY <1>2, <1>3, RequestOutcome
<1>5. UNCHANGED registry
  BY <1>3 DEF Begin, Refresh, Exchange, Acquire, GetNaming, ClientCreated, RegistryAnswers,
     ListArrives, RefreshFails, RefreshFailing, SubscribeEnds, Answered, Breaks, FailsOver, Cancel,
     external
<1> DEFINE InVain == Candidates(load.tag[r], cache'[Service(r)].list, Tried(r)) = {}
<1>6. ASSUME PickFrom(r, cache'[Service(r)].list), cache'[Service(r)].list \in SUBSET Addresses
      PROVE  InVain
  BY <1>1, <1>2, <1>6, PickFacts
<1>7. ASSUME NEW how, End(r, how)
      PROVE  how \in {"noInstance", "noList"}
  BY <1>1, <1>7 DEF End
<1> SUFFICES InVain
  BY <1>5
<1> HIDE DEF InVain
<1>8. CASE Attempt(r) /\ cache' = cache
  BY <1>1, <1>2, <1>6, <1>7, <1>8 DEF Attempt
<1>9. CASE Begin(r) \/ Exchange(r) \/ Cancel(r)
  <2>1. ~End(r, "TypeError") /\ ~End(r, "cancelled") /\ ~End(r, "unexpected")
    BY <1>7
  <2>2. ~End(r, "data") /\ ~End(r, "refused")
    BY <1>7
  <2>3. Attempt(r) /\ cache' = cache
    BY <1>9, <2>1, <2>2 DEF Begin, Exchange, Answered, Breaks, FailsOver, Cancel, discovery
  <2> QED
    BY <1>8, <2>3
<1>10. CASE ListArrives(r)
  <2>1. PickFrom(r, Usable(answer[r])) /\ Usable(answer[r]) \in SUBSET Addresses
    BY <1>2, <1>10 DEF ListArrives, Usable
  <2>2. cache' = [cache EXCEPT ![Service(r)] = Cached(answer[r])]
    BY <1>10 DEF ListArrives
  <2>3. cache'[Service(r)].list = Usable(answer[r])
    BY <1>1, <2>2 DEF Cached
  <2> QED
    BY <1>6, <2>1, <2>3
<1>11. CASE Refresh(r) /\ ~ListArrives(r)
  <2>1. result' # result
    BY <1>2
  <2>2. PickFrom(r, cache[Service(r)].list) \/ (End(r, "noList") /\ ~cache[Service(r)].known)
    <3>1. CASE Acquire(r)
      BY <2>1, <3>1 DEF Acquire
    <3>2. ~(GetNaming(r) \/ ClientCreated(r) \/ RegistryAnswers(r))
      BY <2>1 DEF GetNaming, ClientCreated, RegistryAnswers
    <3>3. CASE RefreshFails(r)
      BY <3>3 DEF RefreshFails
    <3>4. CASE SubscribeEnds(r)
      BY <3>4 DEF SubscribeEnds
    <3> QED
      BY <1>11, <3>1, <3>2, <3>3, <3>4 DEF Refresh
  <2>3. cache' = cache
    BY <1>11 DEF Refresh, Acquire, GetNaming, ClientCreated, RegistryAnswers,
       RefreshFails, RefreshFailing, SubscribeEnds, discovery
  <2>4. PickFrom(r, cache'[Service(r)].list)
    BY <2>2, <2>3
  <2> QED
    BY <1>1, <1>6, <2>3, <2>4
<1> QED
  BY <1>3, <1>4, <1>9, <1>10, <1>11

\* Once a list is known, no request is given up before it has tried the instances that were
\* there all along.
THEOREM StableInstancesTriedHolds == Spec => StableInstancesTried
<1> DEFINE StableTried ==
      \A r \in Requests :
          /\ at[r] # "done"
          /\ result'[r] \in {"noInstance", "noList"}
          /\ cache'[Service(r)].known
          => Stable(Service(r), load.tag[r]) \subseteq Tried(r)
<1>1. Init => TypeOK /\ ListInv
  BY InitTyped, InitLists, DiscoveryAssumption
<1>2. TypeOK /\ ListInv /\ [Next]_vars => TypeOK' /\ ListInv'
  BY NextTyped, NextLists, DiscoveryAssumption
<1>3. TypeOK /\ ListInv /\ [Next]_vars => [StableTried]_vars
  <2> SUFFICES ASSUME TypeOK, ListInv, [Next]_vars, NEW r \in Requests, at[r] # "done",
                      result'[r] \in {"noInstance", "noList"}, cache'[Service(r)].known
               PROVE  Stable(Service(r), load.tag[r]) \subseteq Tried(r)
    OBVIOUS
  <2> DEFINE list == cache'[Service(r)].list
  <2>1. Candidates(load.tag[r], list, Tried(r)) = {} /\ UNCHANGED registry
    BY GivingUp, DiscoveryAssumption
  <2>2. Service(r) \in Services
    BY LoadFacts, DiscoveryAssumption DEF TypeOK
  <2>3. ListInv'
    BY NextLists, DiscoveryAssumption
  <2>4. AllAlong(Service(r)) \subseteq list
    <3> DEFINE s == Service(r)
    <3>1. \A t \in Services : cache'[t].known => AllAlong(t)' \subseteq cache'[t].list
      BY <2>3 DEF ListInv
    <3>2. \A t \in Services : AllAlong(t)' = AllAlong(t)
      BY <2>1 DEF AllAlong
    <3> QED
      BY <2>2, <3>1, <3>2
  <2>5. Stable(Service(r), load.tag[r]) \subseteq Of(load.tag[r], list)
    BY <2>4 DEF Stable, Of
  <2>6. Of(load.tag[r], list) \subseteq Tried(r)
    BY <2>1 DEF Candidates, GrayPool
  <2> QED
    BY <2>5, <2>6
<1> QED
  BY <1>1, <1>2, <1>3, PTL DEF Spec, StableInstancesTried
=============================================================================
