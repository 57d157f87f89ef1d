----------------------------- MODULE RpcClient -----------------------------
(***************************************************************************)
(* Calls of other services: each picks an instance from ServiceDiscovery,  *)
(* refreshing its list when that is stale, sends the request, and on a     *)
(* failure of the instance goes on with another one.  A step is the code   *)
(* between two awaits; calls interleave at each of them.                   *)
(***************************************************************************)
EXTENDS ServiceDiscovery

CONSTANT Retries    \* RPC_DEFAULT_RETRIES

ASSUME RetriesAssumption == Retries \in Nat

VARIABLES
    lock,           \* per service, the request that holds its lock
    naming,         \* the discovery has its naming client
    namingLock,     \* the request that holds _naming_lock
    clients,        \* naming clients created by the process
    at,             \* per request, the await it is suspended at
    answer,         \* per request, the listing on its way to it
    sent,           \* per request, tried_instances in the order they were tried
    replies,        \* per request, what became of each of these
    result          \* per request, how it ended

locks == <<lock, naming, namingLock, clients>>
calls == <<at, answer, sent, replies, result>>
vars == <<external, discovery, locks, calls>>

Place == {"idle", "lock", "naming", "creating", "listing", "listed", "subscribing",
          "sending", "done"}
\* The places at which a request holds the lock of its service.
Refreshing == {"naming", "creating", "listing", "listed", "subscribing"}

\* data is returned; TypeError is raised as such; the others but "none" and "cancelled" are
\* the causes of an RpcError.
Result == {"none", "data", "refused", "exhausted", "noInstance", "noList", "unexpected",
           "TypeError", "cancelled"}
Reply == {"data", "refused", "5xx", "network", "unexpected"}
Lost == {"5xx", "network"}

Service(r) == load.service[r]
Tried(r) == ToSet(sent[r])

\* The naming client may have been created when the process registered itself.
Init ==
    /\ DiscoveryInit
    /\ lock = [s \in Services |-> NoRequest]
    /\ naming = FALSE
    /\ namingLock = NoRequest
    /\ clients \in {0, 1}
    /\ at = [r \in Requests |-> "idle"]
    /\ answer = [r \in Requests |-> [a \in Addresses |-> "absent"]]
    /\ sent = [r \in Requests |-> <<>>]
    /\ replies = [r \in Requests |-> <<>>]
    /\ result = [r \in Requests |-> "none"]

At(r, place) == at[r] = place
Goto(r, place) == at' = [at EXCEPT ![r] = place]

End(r, how) ==
    /\ Goto(r, "done")
    /\ result' = [result EXCEPT ![r] = how]

Lock(r) == lock' = [lock EXCEPT ![Service(r)] = r]
Unlock(r) == lock' = [lock EXCEPT ![Service(r)] = NoRequest]

\* pick, once the list is ready, and the sending of the request to what it picked.
PickFrom(r, list) ==
    LET pool == Candidates(load.tag[r], list, Tried(r)) IN
    /\ cursor' = CursorAfter(Service(r), pool)
    /\ \/ /\ pool = {}
          /\ End(r, "noInstance")
          /\ UNCHANGED sent
       \/ \E a \in Drawn(Service(r), pool) :
             /\ sent' = [sent EXCEPT ![r] = Append(@, a)]
             /\ Goto(r, "sending")
             /\ UNCHANGED result

\* The head of the loop: an attempt is left or not; the list is fresh or has to be.
Attempt(r) ==
    \/ /\ Len(sent[r]) > Retries
       /\ End(r, "exhausted")
       /\ UNCHANGED <<cursor, sent>>
    \/ /\ Len(sent[r]) <= Retries
       /\ Fresh(Service(r))
       /\ PickFrom(r, cache[Service(r)].list)
    \/ /\ Len(sent[r]) <= Retries
       /\ ~Fresh(Service(r))
       /\ Goto(r, "lock")
       /\ UNCHANGED <<cursor, sent, result>>

\* request(): the headers; those of a user's request take set_identity_type() for the
\* getter, outside of any try.
Begin(r) ==
    /\ At(r, "idle")
    /\ IF r \in load.ofUser
       THEN End(r, "TypeError") /\ UNCHANGED <<cursor, sent>>
       ELSE Attempt(r)
    /\ UNCHANGED <<external, cache, age, subscribed, closed, locks, answer, replies>>

-----------------------------------------------------------------------------
(* _ensure_ready: the refresh of a stale list.                             *)

\* Mutant: the list is not looked at again once the lock is held.
AcquireUnchecked(r) ==
    /\ At(r, "lock")
    /\ lock[Service(r)] = NoRequest
    /\ Lock(r)
    /\ Goto(r, IF naming THEN "listing" ELSE "naming")
    /\ UNCHANGED <<external, discovery, naming, namingLock, clients, answer, sent, replies,
                   result>>

\* The lock is free; meanwhile another request may have refreshed the list.
Acquire(r) ==
    /\ At(r, "lock")
    /\ lock[Service(r)] = NoRequest
    /\ \/ /\ Fresh(Service(r))
          /\ PickFrom(r, cache[Service(r)].list)
          /\ UNCHANGED lock
       \/ /\ ~Fresh(Service(r))
          /\ Lock(r)
          /\ Goto(r, IF naming THEN "listing" ELSE "naming")
          /\ UNCHANGED <<cursor, sent, result>>
    /\ UNCHANGED <<external, cache, age, subscribed, closed, naming, namingLock, clients,
                   answer, replies>>

\* Mutant: _get_naming without its lock.
GetNamingUnlocked(r) ==
    /\ At(r, "naming")
    /\ naming' = (naming \/ clients > 0)
    /\ Goto(r, IF naming' THEN "listing" ELSE "creating")
    /\ UNCHANGED <<external, discovery, lock, namingLock, clients, answer, sent, replies,
                   result>>

\* _get_naming: the client the process has, or the start of its creation.
GetNaming(r) ==
    /\ At(r, "naming")
    /\ namingLock = NoRequest
    /\ naming' = (naming \/ clients > 0)
    /\ namingLock' = IF naming' THEN NoRequest ELSE r
    /\ Goto(r, IF naming' THEN "listing" ELSE "creating")
    /\ UNCHANGED <<external, discovery, lock, clients, answer, sent, replies, result>>

ClientCreated(r) ==
    /\ At(r, "creating")
    /\ clients' = clients + 1
    /\ naming' = TRUE
    /\ namingLock' = NoRequest
    /\ Goto(r, "listing")
    /\ UNCHANGED <<external, discovery, lock, answer, sent, replies, result>>

\* list_instances: the registry reads what it answers ...
RegistryAnswers(r) ==
    /\ At(r, "listing")
    /\ answer' = [answer EXCEPT ![r] = Current(Service(r))]
    /\ Goto(r, "listed")
    /\ UNCHANGED <<external, discovery, locks, sent, replies, result>>

\* ... and the answer arrives, whatever was pushed in between.
ListArrives(r) ==
    LET s == Service(r) IN
    /\ At(r, "listed")
    /\ cache' = [cache EXCEPT ![s] = Cached(answer[r])]
    /\ age' = [age EXCEPT ![s] = 0]
    /\ \/ /\ s \in subscribed
          /\ Unlock(r)
          /\ PickFrom(r, Usable(answer[r]))
       \/ /\ s \notin subscribed
          /\ Goto(r, "subscribing")
          /\ UNCHANGED <<lock, cursor, sent, result>>
    /\ answer' = [answer EXCEPT ![r] = [a \in Addresses |-> "absent"]]
    /\ UNCHANGED <<external, subscribed, closed, naming, namingLock, clients, replies>>

\* The naming client is not created or the call fails.
RefreshFailing(r) ==
    /\ at[r] \in {"creating", "listing", "listed"}
    /\ Unlock(r)
    /\ namingLock' = IF namingLock = r THEN NoRequest ELSE namingLock
    /\ answer' = [answer EXCEPT ![r] = [a \in Addresses |-> "absent"]]
    /\ UNCHANGED <<external, cache, age, subscribed, closed, naming, clients, replies>>

\* Mutant: the old list is not used in place of the new one.
RefreshFailsHard(r) ==
    /\ RefreshFailing(r)
    /\ End(r, "noList")
    /\ UNCHANGED <<cursor, sent>>

\* The old list, if there is one, is used, and the next pick tries again.
RefreshFails(r) ==
    /\ RefreshFailing(r)
    /\ \/ /\ cache[Service(r)].known
          /\ PickFrom(r, cache[Service(r)].list)
       \/ /\ ~cache[Service(r)].known
          /\ End(r, "noList")
          /\ UNCHANGED <<cursor, sent>>

\* Mutant: the lock is not released after the subscription.
SubscribeEndsLocked(r) ==
    /\ At(r, "subscribing")
    /\ subscribed' = subscribed \cup {Service(r)}
    /\ watched' = watched \cup {Service(r)}
    /\ PickFrom(r, cache[Service(r)].list)
    /\ UNCHANGED <<registry, pushes, load, cache, age, closed, locks, answer, replies>>

\* subscribe succeeds, or fails with or without effect; the list it was made for is used.
SubscribeEnds(r) ==
    /\ At(r, "subscribing")
    /\ \/ /\ subscribed' = subscribed \cup {Service(r)}
          /\ watched' = watched \cup {Service(r)}
       \/ /\ watched' \in {watched, watched \cup {Service(r)}}
          /\ UNCHANGED subscribed
    /\ Unlock(r)
    /\ PickFrom(r, cache[Service(r)].list)
    /\ UNCHANGED <<registry, pushes, load, cache, age, closed, naming, namingLock, clients,
                   answer, replies>>

-----------------------------------------------------------------------------
(* The request to the instance.                                            *)

Replied(r, reply) == replies' = [replies EXCEPT ![r] = Append(@, reply)]

\* Success, or a refusal: a business error, a 4xx, a body that is no R<T>.
Answered(r) ==
    /\ At(r, "sending")
    /\ ~closed
    /\ \E reply \in {"data", "refused"} : Replied(r, reply) /\ End(r, reply)
    /\ UNCHANGED <<external, discovery, locks, answer, sent>>

\* An exception of another kind ends the request.
Breaks(r) ==
    /\ At(r, "sending")
    /\ Replied(r, "unexpected")
    /\ End(r, "unexpected")
    /\ UNCHANGED <<external, discovery, locks, answer, sent>>

\* Mutant: a refusal is retried too.
FailsOverAlways(r) ==
    /\ At(r, "sending")
    /\ \E reply \in Lost \cup {"refused"} : Replied(r, reply)
    /\ Attempt(r)
    /\ UNCHANGED <<external, cache, age, subscribed, closed, locks, answer>>

\* A 5xx, a refused or broken connection, a timeout: the next attempt.  The instance may
\* have done what it was asked for.
FailsOver(r) ==
    /\ At(r, "sending")
    /\ \E reply \in Lost : Replied(r, reply)
    /\ Attempt(r)
    /\ UNCHANGED <<external, cache, age, subscribed, closed, locks, answer>>

\* The task is cancelled at any await; the locks it holds are released.
Cancel(r) ==
    /\ at[r] \notin {"idle", "done"}
    /\ End(r, "cancelled")
    /\ lock' = [s \in Services |-> IF lock[s] = r THEN NoRequest ELSE lock[s]]
    /\ namingLock' = IF namingLock = r THEN NoRequest ELSE namingLock
    /\ answer' = [answer EXCEPT ![r] = [a \in Addresses |-> "absent"]]
    /\ UNCHANGED <<external, discovery, naming, clients, sent, replies>>

Refresh(r) == \/ Acquire(r) \/ GetNaming(r) \/ ClientCreated(r) \/ RegistryAnswers(r)
              \/ ListArrives(r) \/ RefreshFails(r) \/ SubscribeEnds(r)
Exchange(r) == Answered(r) \/ Breaks(r) \/ FailsOver(r)
Step(r) == Refresh(r) \/ Exchange(r)

Next ==
    \/ \E r \in Requests : Begin(r) \/ Step(r) \/ Cancel(r)
    \/ \E s \in Services : RegistryChanges(s) /\ UNCHANGED <<locks, calls>>
    \/ \E s \in Services : OnChange(s) /\ UNCHANGED <<locks, calls>>
    \/ Tick /\ UNCHANGED <<locks, calls>>
    \/ Close /\ UNCHANGED <<locks, calls>>

Spec == Init /\ [][Next]_vars

\* The event loop runs every task that can go on, and the timeouts of the HTTP and of the
\* registry's client end each call.
FairSpec == Spec /\ \A r \in Requests : WF_vars(Step(r))
-----------------------------------------------------------------------------
(* Properties.                                                             *)

\* Every variable keeps its type.
TypeOK ==
    /\ DiscoveryTypeOK
    /\ lock \in [Services -> Requests \cup {NoRequest}]
    /\ naming \in BOOLEAN
    /\ namingLock \in Requests \cup {NoRequest}
    /\ clients \in Nat
    /\ at \in [Requests -> Place]
    /\ answer \in [Requests -> Listing]
    /\ sent \in [Requests -> Seq(Addresses)]
    /\ replies \in [Requests -> Seq(Reply)]
    /\ result \in [Requests -> Result]

\* Failing over never repeats: however the list changes between two attempts, a request goes
\* to an instance at most once, to Retries + 1 of them at most, and to the next one only
\* after a failure that allows it (app_settings.py RPC_DEFAULT_RETRIES).
SafeFailover ==
    \A r \in Requests :
        /\ IsInjective(sent[r])
        /\ Len(sent[r]) <= Retries + 1
        /\ \A i \in 1..(Len(sent[r]) - 1) : replies[r][i] \in Lost

\* The instances the registry has listed as usable since the start; those of a developer, or
\* of nobody.
AllAlong(s) == {a \in Addresses : \A i \in DOMAIN registry[s] : a \in Usable(registry[s][i])}
Stable(s, tag) == Of(tag, AllAlong(s))

\* Once a list is known, a request is not given up for want of an instance before it has
\* tried those that were there all along: an outage of the registry, late, lost or empty
\* pushes and lists that cross them take none away.
StableInstancesTried ==
    [][\A r \in Requests :
          /\ at[r] # "done"
          /\ result'[r] \in {"noInstance", "noList"}
          /\ cache'[Service(r)].known
          => Stable(Service(r), load.tag[r]) \subseteq Tried(r)]_vars

\* A request goes to instances of its developer or of nobody, and to one of nobody only
\* when its developer has none on the list: a failed instance of the developer is not
\* replaced by one of the others (_select_gray_pool).
DeveloperStays ==
    [][\A r \in Requests :
          sent'[r] # sent[r] =>
              LET tag == load.tag[r]
                  to == Developer[Last(sent'[r])] IN
              \/ to = tag
              \/ to = Baseline /\ Of(tag, cache'[Service(r)].list) = {}]_vars

\* A stale list is refreshed once: one request per service is between the lock and the end of
\* the subscription, and none calls the registry for a list that has become fresh.
OneRefresh ==
    [][/\ \A r, q \in Requests :
              r # q /\ Service(r) = Service(q) => ~(at'[r] \in Refreshing /\ at'[q] \in Refreshing)
       /\ \A r \in Requests :
              at[r] # "listing" /\ at'[r] = "listing" => ~Fresh(Service(r))]_vars

\* The process has one naming client, although get_naming_client has no lock of its own and
\* requests to several services may need it first at the same time, or be cancelled.
OneNamingClient == clients <= 1

\* Every request ends, whatever fails or is cancelled while it waits for a lock.
EveryRequestEnds == \A r \in Requests : at[r] # "idle" ~> At(r, "done")

-----------------------------------------------------------------------------
(* What the documentation says and the code does not do.                   *)

\* exceptions.py: a call of another service that fails raises an RpcError.
OneErrorType == \A r \in Requests : result[r] # "TypeError"
=============================================================================
