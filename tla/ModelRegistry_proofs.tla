------------------------ MODULE ModelRegistry_proofs ------------------------
(***************************************************************************)
(* Proofs about ModelRegistry, for any models, providers and requests, any *)
(* workload and any bounds.                                                *)
(***************************************************************************)
EXTENDS ModelRegistry, TLAPS

\* A mapping is preferred only if it is active.
Sound(x) == x.preferred => x.active

\* The collection: its mappings are sound, so that the partial index, which only separates
\* active ones, separates all the preferred.
MappingsOK ==
    /\ mappings \subseteq Mapping
    /\ \A x, y \in mappings : x.id = y.id => x = y
    /\ \A x \in mappings : Sound(x)
    /\ \A x, y \in mappings :
           /\ x.model = y.model
           /\ x.preferred /\ x.active
           /\ y.preferred /\ y.active
           => x.id = y.id

StoresOK ==
    /\ models \in [Models -> Status]
    /\ providers \in [Providers -> [status : Status, usage : Nat]]
    /\ clock \in Nat
    /\ spent \in [Providers -> Nat]
    /\ load \in Workloads
    /\ MappingsOK

\* The requests: one that runs has the arguments some endpoint was given, and the mappings
\* it holds are sound.
LocalsOK ==
    /\ at \in [Requests -> Place]
    /\ req \in [Requests -> Call]
    /\ found \in [Requests -> SUBSET Mapping]
    /\ copy \in [Requests -> SUBSET Mapping]
    /\ held \in [Requests -> Nat]
    /\ \A r \in Requests : Running(r) => req[r] \in Calls
    /\ \A r \in Requests : \A x \in found[r] \cup copy[r] : Sound(x)

Inv == StoresOK /\ LocalsOK

-----------------------------------------------------------------------------
(* The arguments of a request.                                             *)

LEMMA CallsAreTyped == Calls \subseteq Call /\ NoCall \in Call
BY DEF Calls, Call, NoCall, Ops

\* What the operations may rely on.
LEMMA CallArguments ==
    ASSUME LocalsOK, NEW r \in Requests, Running(r)
    PROVE  /\ req[r] \in Call
           /\ req[r].op \notin {"updateProvider", "removeProvider"} => req[r].model \in Models
           /\ req[r].op \in {"bind", "unbind", "updateProvider", "removeProvider"}
              => req[r].provider \in Providers
<1>1. req[r] \in Calls
  BY DEF LocalsOK
<1> QED
  BY <1>1 DEF Calls, Call

-----------------------------------------------------------------------------
(* What the requests hold.                                                 *)

\* A request that leaves holds nothing.
LEMMA Left ==
    ASSUME LocalsOK, NEW r \in Requests, Finish(r)
    PROVE  LocalsOK'
<1>1. NoCall \in Call
  BY CallsAreTyped
<1>2. \A q \in Requests : /\ found'[q] = IF q = r THEN {} ELSE found[q]
                          /\ copy'[q] = IF q = r THEN {} ELSE copy[q]
                          /\ req'[q] = IF q = r THEN NoCall ELSE req[q]
                          /\ at'[q] = IF q = r THEN "idle" ELSE at[q]
  BY DEF LocalsOK, Finish, Goto
<1>3. \A q \in Requests : Running(q)' => req'[q] \in Calls
  BY <1>2 DEF LocalsOK, Running
<1>4. \A q \in Requests : \A x \in found'[q] \cup copy'[q] : Sound(x)
  BY <1>2 DEF LocalsOK
<1> QED
  BY <1>1, <1>3, <1>4 DEF LocalsOK, Finish, Goto, Place

\* A request that goes on keeps its arguments; what it holds instead must be sound.
LEMMA Went ==
    ASSUME LocalsOK, NEW r \in Requests, Running(r), UNCHANGED req,
           NEW place \in Place, at' = [at EXCEPT ![r] = place] \/ UNCHANGED at,
           NEW F \in SUBSET Mapping, NEW C \in SUBSET Mapping, NEW h \in Nat,
           \A x \in F \cup C : Sound(x),
           found' = [found EXCEPT ![r] = F], copy' = [copy EXCEPT ![r] = C],
           held' = [held EXCEPT ![r] = h]
    PROVE  LocalsOK'
<1>1. at' \in [Requests -> Place]
  BY DEF LocalsOK
<1>2. \A q \in Requests : Running(q)' => Running(q)
  BY DEF LocalsOK, Running
<1>3. \A q \in Requests : Running(q)' => req'[q] \in Calls
  BY <1>2 DEF LocalsOK
<1>4. \A q \in Requests : /\ found'[q] = IF q = r THEN F ELSE found[q]
                          /\ copy'[q] = IF q = r THEN C ELSE copy[q]
  BY DEF LocalsOK
<1>5. \A q \in Requests : \A x \in found'[q] \cup copy'[q] : Sound(x)
  BY <1>4 DEF LocalsOK
<1> QED
  BY <1>1, <1>3, <1>5 DEF LocalsOK

\* The common case: only the place changes.
LEMMA WentOn ==
    ASSUME LocalsOK, NEW r \in Requests, Running(r), NEW place \in Place,
           Goto(r, place), KeepLocals
    PROVE  LocalsOK'
<1>1. found[r] \in SUBSET Mapping /\ copy[r] \in SUBSET Mapping /\ held[r] \in Nat
  BY DEF LocalsOK
<1>2. found' = [found EXCEPT ![r] = found[r]] /\ copy' = [copy EXCEPT ![r] = copy[r]]
      /\ held' = [held EXCEPT ![r] = held[r]]
  BY DEF LocalsOK, KeepLocals
<1>3. \A x \in found[r] \cup copy[r] : Sound(x)
  BY DEF LocalsOK
<1> QED
  BY <1>1, <1>2, <1>3, Went DEF Goto, KeepLocals

-----------------------------------------------------------------------------
(* The collection of mappings.                                             *)

\* Saving a sound mapping that the indexes accept keeps the collection in order.
LEMMA SavedOK ==
    ASSUME MappingsOK, NEW m \in Mapping, Sound(m), Unique(m), mappings' = Saved(m)
    PROVE  MappingsOK'
<1>1. \A x \in mappings' : x = m \/ (x \in mappings /\ x.id # m.id)
  BY DEF Saved
<1>2. mappings' \subseteq Mapping
  BY <1>1 DEF MappingsOK
<1>3. \A x, y \in mappings' : x.id = y.id => x = y
  BY <1>1 DEF MappingsOK
<1>4. \A x \in mappings' : Sound(x)
  BY <1>1 DEF MappingsOK
<1>5. ASSUME NEW x \in mappings', NEW y \in mappings', x.model = y.model,
             x.preferred, x.active, y.preferred, y.active
      PROVE  x.id = y.id
  BY <1>1, <1>5 DEF MappingsOK, Unique
<1> QED
  BY <1>2, <1>3, <1>4, <1>5 DEF MappingsOK

\* So does deleting one.
LEMMA WithoutOK ==
    ASSUME MappingsOK, NEW m, mappings' = Without(m)
    PROVE  MappingsOK'
<1>1. mappings' \subseteq mappings
  BY DEF Without
<1> QED
  BY <1>1 DEF MappingsOK

-----------------------------------------------------------------------------
(* The operations, one by one.                                             *)

LEMMA StartKeeps ==
    ASSUME LocalsOK, NEW r \in Requests, NEW c \in Calls, Begin(r, c)
    PROVE  LocalsOK'
<1>1. c \in Call
  BY CallsAreTyped
<1>2. at' \in [Requests -> Place] /\ req' \in [Requests -> Call]
  BY <1>1 DEF LocalsOK, Begin, Goto, Place
<1>3. \A q \in Requests : Running(q)' => req'[q] \in Calls
  BY DEF LocalsOK, Begin, Goto, Running
<1> QED
  BY <1>2, <1>3 DEF LocalsOK, Begin

LEMMA ModelKeeps ==
    ASSUME Inv, NEW r \in Requests, ModelStep(r)
    PROVE  Inv'
<1> USE DEF Inv
<1>1. CASE GetModel(r)
  <2>1. StoresOK'
    BY <1>1 DEF GetModel, KeepStores, StoresOK, MappingsOK
  <2>2. CASE Fail(r)
    BY <2>1, <2>2, Left DEF Fail
  <2>3. CASE ~Fail(r)
    <3>1. AfterModel[req[r].op] \in Place
      BY <1>1 DEF GetModel, AfterModel, Place
    <3> QED
      BY <1>1, <2>1, <2>3, <3>1, WentOn DEF GetModel, Running
  <2> QED
    BY <2>2, <2>3
<1>2. CASE SaveModel(r)
  <2>1. LocalsOK'
    BY <1>2, Left DEF SaveModel
  <2>2. StoresOK'
    BY <1>2 DEF SaveModel, StoresOK, MappingsOK, Status
  <2> QED
    BY <2>1, <2>2
<1>3. CASE ListMappings(r)
  <2>1. Of(req[r].model) \subseteq Mapping /\ \A x \in Of(req[r].model) : Sound(x)
    BY DEF StoresOK, MappingsOK, Of
  <2>2. copy[r] \in SUBSET Mapping /\ held[r] \in Nat /\ \A x \in copy[r] : Sound(x)
    BY DEF LocalsOK
  <2>3. copy' = [copy EXCEPT ![r] = copy[r]] /\ held' = [held EXCEPT ![r] = held[r]]
    BY <1>3 DEF ListMappings, LocalsOK
  <2>4. /\ found' = [found EXCEPT ![r] = Of(req[r].model)]
        /\ at' = [at EXCEPT ![r] = "drop"] /\ "drop" \in Place
        /\ UNCHANGED req /\ Running(r)
    BY <1>3 DEF ListMappings, Goto, Running, Place
  <2>5. LocalsOK'
    BY ONLY <2>1, <2>2, <2>3, <2>4, Went, Inv DEF Inv
  <2>6. StoresOK'
    BY <1>3 DEF ListMappings, KeepStores, StoresOK, MappingsOK
  <2> QED
    BY <2>5, <2>6
<1>4. CASE DropMapping(r)
  <2>1. PICK x \in found[r] : mappings' = Without(x) /\ found' = [found EXCEPT ![r] = @ \ {x}]
    BY <1>4 DEF DropMapping
  <2>2. found[r] \ {x} \in SUBSET Mapping /\ copy[r] \in SUBSET Mapping /\ held[r] \in Nat
        /\ \A y \in (found[r] \ {x}) \cup copy[r] : Sound(y)
    BY DEF LocalsOK
  <2>3. found' = [found EXCEPT ![r] = found[r] \ {x}] /\ copy' = [copy EXCEPT ![r] = copy[r]]
        /\ held' = [held EXCEPT ![r] = held[r]] /\ UNCHANGED <<at, req>>
        /\ Running(r) /\ "drop" \in Place
    BY <1>4, <2>1 DEF DropMapping, LocalsOK, Running, Place
  <2>4. LocalsOK'
    BY ONLY <2>2, <2>3, Went, Inv DEF Inv
  <2>5. MappingsOK'
    BY <2>1, WithoutOK DEF StoresOK
  <2> QED
    BY <1>4, <2>4, <2>5 DEF DropMapping, StoresOK
<1>5. CASE DropModel(r)
  <2>1. LocalsOK'
    BY <1>5, Left DEF DropModel
  <2>2. StoresOK'
    BY <1>5 DEF DropModel, StoresOK, MappingsOK, Status
  <2> QED
    BY <2>1, <2>2
<1> QED
  BY <1>1, <1>2, <1>3, <1>4, <1>5 DEF ModelStep

LEMMA BindKeeps ==
    ASSUME Inv, NEW r \in Requests, BindStep(r)
    PROVE  Inv'
<1> USE DEF Inv
<1>1. CASE FindProvider(r)
  <2>1. StoresOK'
    BY <1>1 DEF FindProvider, KeepStores, StoresOK, MappingsOK
  <2>2. CASE Fail(r)
    BY <2>1, <2>2, Left DEF Fail
  <2>3. CASE ~Fail(r)
    BY <1>1, <2>1, <2>3, WentOn DEF FindProvider, Running, Place
  <2> QED
    BY <2>2, <2>3
<1>2. CASE FindToBind(r)
  <2> DEFINE c == req[r]
             new == [id |-> clock + 1, model |-> c.model, provider |-> c.provider,
                     preferred |-> AsksPreferred(c), active |-> c.active]
  <2>1. Running(r)
    BY <1>2 DEF FindToBind, Running
  <2>2. c \in Call /\ c.model \in Models /\ c.provider \in Providers
    BY <1>2, <2>1, CallArguments DEF FindToBind
  <2>3. new \in Mapping /\ Sound(new)
    BY <2>2 DEF Mapping, Call, AsksPreferred, Sound, StoresOK
  <2>4. PICK m \in Mapping : Sound(m) /\ copy' = [copy EXCEPT ![r] = {m}]
    <3>1. CASE copy' = [copy EXCEPT ![r] = {new}]
      BY <2>3, <3>1
    <3>2. ASSUME NEW x \in mappings, copy' = [copy EXCEPT ![r] = {[new EXCEPT !.id = x.id]}]
          PROVE  \E m \in Mapping : Sound(m) /\ copy' = [copy EXCEPT ![r] = {m}]
      <4>1. x.id \in Nat
        BY DEF StoresOK, MappingsOK, Mapping
      <4>2. [new EXCEPT !.id = x.id] \in Mapping /\ Sound([new EXCEPT !.id = x.id])
        BY <2>3, <4>1 DEF Mapping, Sound
      <4> QED
        BY <3>2, <4>2
    <3> QED
      BY <1>2, <3>1, <3>2 DEF FindToBind, Of
  <2>5. PICK place \in Place : Goto(r, place)
    BY <1>2 DEF FindToBind, Place
  <2>6. found[r] \in SUBSET Mapping /\ held[r] \in Nat /\ {m} \in SUBSET Mapping
        /\ \A x \in found[r] \cup {m} : Sound(x)
    BY <2>4 DEF LocalsOK
  <2>7. found' = [found EXCEPT ![r] = found[r]] /\ held' = [held EXCEPT ![r] = held[r]]
    BY <1>2 DEF FindToBind, LocalsOK
  <2>8. UNCHANGED req
    BY <1>2 DEF FindToBind
  <2>9. LocalsOK'
    BY <2>1, <2>4, <2>5, <2>6, <2>7, <2>8, Went DEF Goto
  <2>10. clock' \in Nat
    BY <1>2 DEF FindToBind, StoresOK
  <2> QED
    BY <1>2, <2>9, <2>10 DEF FindToBind, StoresOK, MappingsOK
<1>3. CASE FindOthers(r)
  <2> DEFINE others == {x \in Of(req[r].model) : x.preferred}
  <2>1. others \in SUBSET Mapping /\ \A x \in others : Sound(x)
    BY DEF StoresOK, MappingsOK, Of
  <2>2. copy[r] \in SUBSET Mapping /\ held[r] \in Nat /\ \A x \in others \cup copy[r] : Sound(x)
    BY <2>1 DEF LocalsOK
  <2>3. copy' = [copy EXCEPT ![r] = copy[r]] /\ held' = [held EXCEPT ![r] = held[r]]
    BY <1>3 DEF FindOthers, LocalsOK
  <2>4. found' = [found EXCEPT ![r] = others] /\ Goto(r, "save") /\ UNCHANGED req /\ Running(r)
    BY <1>3 DEF FindOthers, Running
  <2>5. LocalsOK'
    BY <2>1, <2>2, <2>3, <2>4, Went DEF Goto, Place
  <2> QED
    BY <1>3, <2>5 DEF FindOthers, KeepStores, StoresOK, MappingsOK
<1>4. CASE DemoteOther(r)
  <2>1. PICK x \in found[r] :
           \/ /\ Unique(Demoted(x)) /\ mappings' = Saved(Demoted(x))
              /\ found' = [found EXCEPT ![r] = @ \ {x}]
              /\ UNCHANGED <<at, req, copy, held>>
           \/ Fail(r) /\ UNCHANGED mappings
    BY <1>4 DEF DemoteOther
  <2>2. Demoted(x) \in Mapping /\ Sound(Demoted(x))
    <3>1. x \in Mapping
      BY DEF LocalsOK
    <3> QED
      BY <3>1 DEF Mapping, Demoted, Sound
  <2>3. CASE Fail(r) /\ UNCHANGED mappings
    BY <1>4, <2>3, Left DEF Fail, DemoteOther, StoresOK, MappingsOK
  <2>4. CASE ~(Fail(r) /\ UNCHANGED mappings)
    <3>1. found[r] \ {x} \in SUBSET Mapping /\ copy[r] \in SUBSET Mapping /\ held[r] \in Nat
          /\ \A y \in (found[r] \ {x}) \cup copy[r] : Sound(y)
      BY DEF LocalsOK
    <3>2. found' = [found EXCEPT ![r] = found[r] \ {x}] /\ copy' = [copy EXCEPT ![r] = copy[r]]
          /\ held' = [held EXCEPT ![r] = held[r]] /\ UNCHANGED <<at, req>>
          /\ Running(r) /\ "others" \in Place
      BY <1>4, <2>1, <2>4 DEF LocalsOK, DemoteOther, Running, Place
    <3>3. LocalsOK'
      BY ONLY <3>1, <3>2, Went, Inv DEF Inv
    <3>4. MappingsOK'
      BY <2>1, <2>2, <2>4, SavedOK DEF StoresOK
    <3> QED
      BY <1>4, <3>3, <3>4 DEF DemoteOther, StoresOK
  <2> QED
    BY <2>3, <2>4
<1>5. CASE WriteMapping(r)
  <2>1. LocalsOK'
    BY <1>5, Left DEF WriteMapping, Fail
  <2>2. MappingsOK'
    BY <1>5, SavedOK DEF WriteMapping, LocalsOK, StoresOK, MappingsOK
  <2> QED
    BY <1>5, <2>1, <2>2 DEF WriteMapping, StoresOK
<1> QED
  BY <1>1, <1>2, <1>3, <1>4, <1>5 DEF BindStep

LEMMA UnbindKeeps ==
    ASSUME Inv, NEW r \in Requests, UnbindStep(r)
    PROVE  Inv'
<1> USE DEF Inv
<1>1. CASE FindToUnbind(r)
  <2> DEFINE old == {x \in Of(req[r].model) : x.provider = req[r].provider}
  <2>1. StoresOK'
    BY <1>1 DEF FindToUnbind, KeepStores, StoresOK, MappingsOK
  <2>2. CASE Fail(r)
    BY <2>1, <2>2, Left DEF Fail
  <2>3. CASE ~Fail(r)
    <3>1. old \in SUBSET Mapping /\ copy[r] \in SUBSET Mapping /\ held[r] \in Nat
          /\ \A x \in old \cup copy[r] : Sound(x)
      BY DEF StoresOK, MappingsOK, LocalsOK, Of
    <3>2. found' = [found EXCEPT ![r] = old] /\ copy' = [copy EXCEPT ![r] = copy[r]]
          /\ held' = [held EXCEPT ![r] = held[r]] /\ Goto(r, "delete") /\ UNCHANGED req
      BY <1>1, <2>3 DEF FindToUnbind, LocalsOK
    <3>3. Running(r)
      BY <1>1 DEF FindToUnbind, Running
    <3> QED
      BY <2>1, <3>1, <3>2, <3>3, Went DEF Goto, Place
  <2> QED
    BY <2>2, <2>3
<1>2. CASE DeleteMapping(r)
  <2>1. Finish(r) => LocalsOK'
    BY Left
  <2>2. Goto(r, "next") /\ KeepLocals => LocalsOK'
    BY <1>2, WentOn DEF DeleteMapping, Running, Place
  <2>3. LocalsOK'
    BY <1>2, <2>1, <2>2 DEF DeleteMapping
  <2>4. MappingsOK'
    BY <1>2, WithoutOK DEF DeleteMapping, StoresOK
  <2> QED
    BY <1>2, <2>3, <2>4 DEF DeleteMapping, StoresOK
<1>3. CASE FindNext(r)
  <2>1. StoresOK'
    BY <1>3 DEF FindNext, KeepStores, StoresOK, MappingsOK
  <2>2. CASE Finish(r)
    BY <2>1, <2>2, Left
  <2>3. CASE ~Finish(r)
    <3>1. PICK x \in Oldest(Successors(req[r].model)) :
              copy' = [copy EXCEPT ![r] = {[x EXCEPT !.preferred = TRUE]}]
      BY <1>3, <2>3 DEF FindNext
    <3>2. x \in Mapping /\ x.active
      BY DEF Oldest, Successors, ActiveOf, Of, StoresOK, MappingsOK
    <3> DEFINE m == [x EXCEPT !.preferred = TRUE]
    <3>3. m \in Mapping /\ Sound(m)
      BY <3>2 DEF Mapping, Sound
    <3>4. found[r] \in SUBSET Mapping /\ {m} \in SUBSET Mapping /\ held[r] \in Nat
          /\ \A y \in found[r] \cup {m} : Sound(y)
      BY <3>3 DEF LocalsOK
    <3>5. found' = [found EXCEPT ![r] = found[r]] /\ held' = [held EXCEPT ![r] = held[r]]
          /\ Goto(r, "promote") /\ UNCHANGED req /\ Running(r)
      BY <1>3, <2>3 DEF FindNext, LocalsOK, Running
    <3> QED
      BY <2>1, <3>1, <3>4, <3>5, Went DEF Goto, Place
  <2> QED
    BY <2>2, <2>3
<1>4. CASE Promote(r)
  <2>1. LocalsOK'
    BY <1>4, Left DEF Promote, Fail
  <2>2. MappingsOK'
    BY <1>4, SavedOK DEF Promote, LocalsOK, StoresOK, MappingsOK
  <2> QED
    BY <1>4, <2>1, <2>2 DEF Promote, StoresOK
<1> QED
  BY <1>1, <1>2, <1>3, <1>4 DEF UnbindStep

LEMMA ProviderKeeps ==
    ASSUME Inv, NEW r \in Requests, ProviderStep(r)
    PROVE  Inv'
<1> USE DEF Inv
<1>1. CASE ReadProvider(r)
  <2> DEFINE p == req[r].provider
  <2>1. StoresOK'
    BY <1>1 DEF ReadProvider, KeepStores, StoresOK, MappingsOK
  <2>2. Running(r)
    BY <1>1 DEF ReadProvider, Running
  <2>3. CASE Fail(r)
    BY <2>1, <2>3, Left DEF Fail
  <2>4. CASE Goto(r, "count") /\ KeepLocals
    BY <2>1, <2>2, <2>4, WentOn DEF Place
  <2>5. CASE /\ held' = [held EXCEPT ![r] = providers[p].usage]
             /\ Goto(r, "saveProvider")
             /\ UNCHANGED <<req, found, copy>>
    <3>1. p \in Providers
      BY <1>1, <2>2, CallArguments DEF ReadProvider
    <3>2. providers[p].usage \in Nat
      BY <3>1 DEF StoresOK
    <3>3. found[r] \in SUBSET Mapping /\ copy[r] \in SUBSET Mapping
          /\ \A x \in found[r] \cup copy[r] : Sound(x)
      BY DEF LocalsOK
    <3>4. found' = [found EXCEPT ![r] = found[r]] /\ copy' = [copy EXCEPT ![r] = copy[r]]
      BY <2>5 DEF LocalsOK
    <3> QED
      BY <2>1, <2>2, <2>5, <3>2, <3>3, <3>4, Went DEF Goto, Place
  <2> QED
    BY <1>1, <2>3, <2>4, <2>5 DEF ReadProvider
<1>2. CASE SaveProvider(r)
  <2>1. LocalsOK'
    BY <1>2, Left DEF SaveProvider
  <2>2. PICK status \in {"active", "inactive"} :
            providers' = [providers EXCEPT ![req[r].provider] =
                              [status |-> status, usage |-> held[r]]]
    BY <1>2 DEF SaveProvider
  <2>3. [status |-> status, usage |-> held[r]] \in [status : Status, usage : Nat]
    BY DEF LocalsOK, Status
  <2>4. providers' \in [Providers -> [status : Status, usage : Nat]]
    BY <2>2, <2>3 DEF StoresOK
  <2> QED
    BY <1>2, <2>1, <2>4 DEF SaveProvider, StoresOK, MappingsOK
<1>3. CASE CountMappings(r)
  <2>1. StoresOK'
    BY <1>3 DEF CountMappings, KeepStores, StoresOK, MappingsOK
  <2>2. CASE Fail(r)
    BY <2>1, <2>2, Left DEF Fail
  <2>3. CASE Goto(r, "remove") /\ KeepLocals
    BY <1>3, <2>1, <2>3, WentOn DEF CountMappings, Running, Place
  <2> QED
    BY <1>3, <2>2, <2>3 DEF CountMappings
<1>4. CASE RemoveProvider(r)
  <2>1. LocalsOK'
    BY <1>4, Left DEF RemoveProvider
  <2>2. [status |-> "gone", usage |-> 0] \in [status : Status, usage : Nat]
    BY DEF Status
  <2>3. providers' \in [Providers -> [status : Status, usage : Nat]]
    BY <1>4, <2>2 DEF RemoveProvider, StoresOK
  <2> QED
    BY <1>4, <2>1, <2>3 DEF RemoveProvider, StoresOK, MappingsOK
<1> QED
  BY <1>1, <1>2, <1>3, <1>4 DEF ProviderStep

LEMMA ChatKeeps ==
    ASSUME Inv, NEW r \in Requests, ChatStep(r)
    PROVE  Inv'
<1> USE DEF Inv
<1>1. CASE FindChatModel(r)
  <2>1. StoresOK'
    BY <1>1 DEF FindChatModel, KeepStores, StoresOK, MappingsOK
  <2>2. CASE Fail(r)
    BY <2>1, <2>2, Left DEF Fail
  <2>3. CASE Goto(r, "mapping") /\ KeepLocals
    BY <1>1, <2>1, <2>3, WentOn DEF FindChatModel, Running, Place
  <2> QED
    BY <1>1, <2>2, <2>3 DEF FindChatModel
<1>2. CASE FindChatMapping(r)
  <2>1. StoresOK'
    BY <1>2 DEF FindChatMapping, KeepStores, StoresOK, MappingsOK
  <2>2. CASE Fail(r)
    BY <2>1, <2>2, Left DEF Fail
  <2>3. CASE ~Fail(r)
    <3> DEFINE usable == {x \in ActiveOf(req[r].model) : req[r].provider \in {x.provider, None}}
    <3>1. PICK x \in FirstChoice(usable) : found' = [found EXCEPT ![r] = {x}]
      BY <1>2, <2>3 DEF FindChatMapping
    <3>2. x \in mappings
      BY DEF FirstChoice, Oldest, ActiveOf, Of
    <3>3. {x} \in SUBSET Mapping /\ copy[r] \in SUBSET Mapping /\ held[r] \in Nat
          /\ \A y \in {x} \cup copy[r] : Sound(y)
      BY <3>2 DEF StoresOK, MappingsOK, LocalsOK
    <3>4. copy' = [copy EXCEPT ![r] = copy[r]] /\ held' = [held EXCEPT ![r] = held[r]]
          /\ Goto(r, "provider") /\ UNCHANGED req /\ Running(r)
      BY <1>2, <2>3 DEF FindChatMapping, LocalsOK, Running
    <3> QED
      BY <2>1, <3>1, <3>3, <3>4, Went DEF Goto, Place
  <2> QED
    BY <2>2, <2>3
<1>3. CASE FindChatProvider(r)
  <2>1. StoresOK'
    BY <1>3 DEF FindChatProvider, KeepStores, StoresOK, MappingsOK
  <2>2. CASE Fail(r)
    BY <2>1, <2>2, Left DEF Fail
  <2>3. CASE ~Fail(r)
    <3>1. PICK x \in found[r] : held' = [held EXCEPT ![r] = providers[x.provider].usage]
      BY <1>3, <2>3 DEF FindChatProvider
    <3>2. x.provider \in Providers
      BY DEF LocalsOK, Mapping
    <3>3. providers[x.provider].usage \in Nat
      BY <3>2 DEF StoresOK
    <3>4. found[r] \in SUBSET Mapping /\ copy[r] \in SUBSET Mapping
          /\ \A y \in found[r] \cup copy[r] : Sound(y)
      BY DEF LocalsOK
    <3>5. found' = [found EXCEPT ![r] = found[r]] /\ copy' = [copy EXCEPT ![r] = copy[r]]
          /\ Goto(r, "usage") /\ UNCHANGED req /\ Running(r)
      BY <1>3, <2>3 DEF FindChatProvider, LocalsOK, Running
    <3> QED
      BY <2>1, <3>1, <3>3, <3>4, <3>5, Went DEF Goto, Place
  <2> QED
    BY <2>2, <2>3
<1>4. CASE IncrementUsage(r)
  <2>1. LocalsOK'
    BY <1>4, Left DEF IncrementUsage, Fail
  <2>2. PICK x \in found[r] :
           \/ UNCHANGED <<providers, spent>>
           \/ /\ providers' = [providers EXCEPT ![x.provider].usage = UsageAfter(r, x.provider)]
              /\ spent' = [spent EXCEPT ![x.provider] = @ + 1]
    BY <1>4 DEF IncrementUsage
  <2>3. x.provider \in Providers
    BY DEF LocalsOK, Mapping
  <2>4. UsageAfter(r, x.provider) \in Nat
    BY <2>3 DEF UsageAfter, StoresOK
  <2>5. /\ providers' \in [Providers -> [status : Status, usage : Nat]]
        /\ spent' \in [Providers -> Nat]
    BY <2>2, <2>3, <2>4 DEF StoresOK
  <2> QED
    BY <1>4, <2>1, <2>5 DEF IncrementUsage, StoresOK, MappingsOK
<1>5. CASE NoUsage(r)
  BY <1>5, Left DEF NoUsage, KeepStores, StoresOK, MappingsOK
<1> QED
  BY <1>1, <1>2, <1>3, <1>4, <1>5 DEF ChatStep

-----------------------------------------------------------------------------
(* The theorems.                                                           *)

LEMMA Initially == Init => Inv
<1> SUFFICES ASSUME Init PROVE Inv
  OBVIOUS
<1>1. StoresOK
  BY DEF Init, StoresOK, MappingsOK, Status
<1>2. LocalsOK
  BY CallsAreTyped DEF Init, LocalsOK, Running, Place
<1> QED
  BY <1>1, <1>2 DEF Inv

LEMMA StepKeeps == Inv /\ [Next]_vars => Inv'
<1> SUFFICES ASSUME Inv, [Next]_vars PROVE Inv'
  OBVIOUS
<1>1. ASSUME NEW m \in Models, CreateModel(m) PROVE Inv'
  BY <1>1 DEF CreateModel, Inv, StoresOK, MappingsOK, LocalsOK, Running, Status
<1>2. ASSUME NEW p \in Providers, CreateProvider(p) PROVE Inv'
  <2>1. providers' \in [Providers -> [status : Status, usage : Nat]]
    BY <1>2 DEF CreateProvider, Inv, StoresOK, Status
  <2> QED
    BY <1>2, <2>1 DEF CreateProvider, Inv, StoresOK, MappingsOK, LocalsOK, Running
<1>3. ASSUME NEW r \in Requests, NEW c \in Calls, Begin(r, c) PROVE Inv'
  <2>1. LocalsOK'
    BY <1>3, StartKeeps DEF Inv
  <2> QED
    BY <1>3, <2>1 DEF Begin, KeepStores, Inv, StoresOK, MappingsOK
<1>4. ASSUME NEW r \in Requests, Abort(r) PROVE Inv'
  BY <1>4, Left DEF Abort, Fail, KeepStores, Inv, StoresOK, MappingsOK
<1>5. CASE UNCHANGED vars
  BY <1>5 DEF vars, Inv, StoresOK, MappingsOK, LocalsOK, Running
<1> QED
  BY <1>1, <1>2, <1>3, <1>4, <1>5, ModelKeeps, BindKeeps, UnbindKeeps, ProviderKeeps, ChatKeeps
     DEF Next

\* The inductive invariant holds in every reachable state.
THEOREM Invariance == Spec => []Inv
BY Initially, StepKeeps, PTL DEF Spec

\* Every variable has its type, for any workload and however many requests overlap.
THEOREM TypeCorrect == Spec => []TypeOK
<1>1. Inv => TypeOK
  BY DEF Inv, StoresOK, MappingsOK, LocalsOK, TypeOK
<1> QED
  BY <1>1, Invariance, PTL

\* No model ever has two preferred mappings, active or not, whatever requests overlap,
\* write what they read earlier or stop half-way.
THEOREM AtMostOnePreferredHolds == Spec => []AtMostOnePreferred
<1>1. Inv => AtMostOnePreferred
  BY DEF Inv, StoresOK, MappingsOK, Sound, AtMostOnePreferred
<1> QED
  BY <1>1, Invariance, PTL

-----------------------------------------------------------------------------
(* What a step of a request leaves alone.                                  *)

\* The locals of the other requests.
Others(r) ==
    \A q \in Requests : q # r => /\ at'[q] = at[q] /\ req'[q] = req[q]
                                 /\ found'[q] = found[q] /\ copy'[q] = copy[q]
                                 /\ held'[q] = held[q]

\* The request is over, and holds nothing.
Gone(r) == at'[r] = "idle" /\ req'[r] = NoCall /\ found'[r] = {} /\ copy'[r] = {}

RequestStep(r) == ModelStep(r) \/ BindStep(r) \/ UnbindStep(r) \/ ProviderStep(r) \/ ChatStep(r)
                  \/ Abort(r)

\* The operation a request serves where it is; one that is over holds nothing.
InPlace ==
    \A r \in Requests :
        /\ at[r] = "idle" => req[r].op = "chat" /\ found[r] = {} /\ copy[r] = {}
        /\ at[r] = "model" => req[r].op \in {"bind", "unbind", "deleteModel", "updateModel", "chat"}
        /\ at[r] = "provider" => req[r].op \in {"bind", "updateProvider", "removeProvider", "chat"}
        /\ at[r] = "mapping" => req[r].op \in {"bind", "unbind", "chat"}
        /\ at[r] \in {"others", "save"} => req[r].op = "bind"
        /\ at[r] \in {"delete", "next", "promote"} => req[r].op = "unbind"
        /\ at[r] \in {"list", "drop"} => req[r].op = "deleteModel"
        /\ at[r] = "saveModel" => req[r].op = "updateModel"
        /\ at[r] = "saveProvider" => req[r].op = "updateProvider"
        /\ at[r] \in {"count", "remove"} => req[r].op = "removeProvider"
        /\ at[r] = "usage" => req[r].op = "chat"

\* Requests that overlap serve operations that may.
Together ==
    \A r, s \in Requests :
        r # s /\ Running(r) /\ Running(s) => {req[r].op, req[s].op} \subseteq load.together

FlowInv == Inv /\ InPlace /\ Together

LEMMA FinishIsGone ==
    ASSUME LocalsOK, NEW r \in Requests, Finish(r)
    PROVE  Gone(r) /\ Others(r)
BY DEF LocalsOK, Finish, Goto, Gone, Others

LEMMA ModelMoves ==
    ASSUME Inv, InPlace, NEW r \in Requests, ModelStep(r)
    PROVE  /\ Others(r) /\ Running(r) /\ UNCHANGED load
           /\ Gone(r) \/ (req'[r] = req[r] /\ InPlace')
<1> USE DEF Inv
<1>1. CASE GetModel(r)
  <2>1. CASE Fail(r)
    BY <1>1, <2>1, FinishIsGone DEF Fail, GetModel, Running, KeepStores
  <2>2. CASE ~Fail(r)
    <3>1. /\ at' = [at EXCEPT ![r] = AfterModel[req[r].op]]
          /\ KeepLocals /\ req[r].op \in DOMAIN AfterModel
      BY <1>1, <2>2 DEF GetModel, Goto
    <3>2. Others(r) /\ req'[r] = req[r] /\ Running(r) /\ UNCHANGED load
      BY <1>1, <3>1 DEF GetModel, Others, KeepLocals, KeepStores, Running, LocalsOK
    <3>3. InPlace'
      BY <3>1 DEF AfterModel, InPlace, KeepLocals, LocalsOK
    <3> QED
      BY <3>2, <3>3
  <2> QED
    BY <2>1, <2>2
<1>2. CASE SaveModel(r) \/ DropModel(r)
  BY <1>2, FinishIsGone DEF SaveModel, DropModel, Running
<1>3. CASE ListMappings(r) \/ DropMapping(r)
  BY <1>3 DEF ListMappings, DropMapping, Goto, Others, KeepStores, Running, LocalsOK, InPlace
<1> QED
  BY <1>1, <1>2, <1>3 DEF ModelStep

LEMMA BindMoves ==
    ASSUME Inv, InPlace, NEW r \in Requests, BindStep(r)
    PROVE  /\ Others(r) /\ Running(r) /\ UNCHANGED load
           /\ Gone(r) \/ (req'[r] = req[r] /\ InPlace')
<1> USE DEF Inv
<1>1. CASE FindProvider(r)
  <2>1. CASE Fail(r)
    BY <1>1, <2>1, FinishIsGone DEF Fail, FindProvider, Running, KeepStores
  <2>2. CASE ~Fail(r)
    BY <1>1, <2>2 DEF FindProvider, Goto, Others, KeepLocals, KeepStores, Running, LocalsOK, InPlace
  <2> QED
    BY <2>1, <2>2
<1>2. CASE FindToBind(r)
  <2>1. PICK place \in {"others", "save"} : Goto(r, place)
    BY <1>2 DEF FindToBind
  <2>2. PICK C : copy' = [copy EXCEPT ![r] = C]
    BY <1>2 DEF FindToBind
  <2>3. UNCHANGED <<req, found, held, load>> /\ at[r] = "mapping" /\ req[r].op = "bind"
    BY <1>2 DEF FindToBind
  <2> QED
    BY <2>1, <2>2, <2>3 DEF Goto, Others, Running, LocalsOK, InPlace
<1>3. CASE FindOthers(r)
  BY <1>3 DEF FindOthers, Goto, Others, KeepStores, Running, LocalsOK, InPlace
<1>4. CASE DemoteOther(r)
  <2>1. CASE Fail(r)
    BY <1>4, <2>1, FinishIsGone DEF Fail, DemoteOther, Running
  <2>2. CASE ~Fail(r)
    BY <1>4, <2>2 DEF DemoteOther, Others, Running, LocalsOK, InPlace
  <2> QED
    BY <2>1, <2>2
<1>5. CASE WriteMapping(r)
  BY <1>5, FinishIsGone DEF WriteMapping, Fail, Running
<1> QED
  BY <1>1, <1>2, <1>3, <1>4, <1>5 DEF BindStep

LEMMA UnbindMoves ==
    ASSUME Inv, InPlace, NEW r \in Requests, UnbindStep(r)
    PROVE  /\ Others(r) /\ Running(r) /\ UNCHANGED load
           /\ Gone(r) \/ (req'[r] = req[r] /\ InPlace')
<1> USE DEF Inv
<1>1. CASE FindToUnbind(r)
  <2>1. CASE Fail(r)
    BY <1>1, <2>1, FinishIsGone DEF Fail, FindToUnbind, Running, KeepStores
  <2>2. CASE ~Fail(r)
    BY <1>1, <2>2 DEF FindToUnbind, Goto, Others, KeepStores, Running, LocalsOK, InPlace
  <2> QED
    BY <2>1, <2>2
<1>2. CASE DeleteMapping(r)
  <2>1. CASE Finish(r)
    BY <1>2, <2>1, FinishIsGone DEF DeleteMapping, Running
  <2>2. CASE ~Finish(r)
    BY <1>2, <2>2 DEF DeleteMapping, Goto, Others, KeepLocals, Running, LocalsOK, InPlace
  <2> QED
    BY <2>1, <2>2
<1>3. CASE FindNext(r)
  <2>1. CASE Finish(r)
    BY <1>3, <2>1, FinishIsGone DEF FindNext, Running, KeepStores
  <2>2. CASE ~Finish(r)
    BY <1>3, <2>2 DEF FindNext, Goto, Others, KeepStores, Running, LocalsOK, InPlace
  <2> QED
    BY <2>1, <2>2
<1>4. CASE Promote(r)
  BY <1>4, FinishIsGone DEF Promote, Fail, Running
<1> QED
  BY <1>1, <1>2, <1>3, <1>4 DEF UnbindStep

LEMMA ProviderMoves ==
    ASSUME Inv, InPlace, NEW r \in Requests, ProviderStep(r) \/ ChatStep(r) \/ Abort(r)
    PROVE  /\ Others(r) /\ Running(r) /\ UNCHANGED load
           /\ Gone(r) \/ (req'[r] = req[r] /\ InPlace')
<1> USE DEF Inv
<1>1. CASE Finish(r)
  <2>1. Running(r) /\ UNCHANGED load
    BY DEF ProviderStep, ChatStep, Abort, ReadProvider, SaveProvider, CountMappings, RemoveProvider,
           FindChatModel, FindChatMapping, FindChatProvider, IncrementUsage, NoUsage, KeepStores,
           Running
  <2> QED
    BY <1>1, <2>1, FinishIsGone
<1>2. CASE ~Finish(r) /\ (ReadProvider(r) \/ CountMappings(r))
  BY <1>2 DEF ReadProvider, CountMappings, Fail, Goto, Others, KeepLocals, KeepStores, Running,
              LocalsOK, InPlace
<1>3. CASE ~Finish(r) /\ (FindChatModel(r) \/ FindChatMapping(r) \/ FindChatProvider(r))
  <2>1. /\ at[r] \in {"model", "mapping", "provider"} /\ req[r].op = "chat"
        /\ \E place \in {"mapping", "provider", "usage"} : at' = [at EXCEPT ![r] = place]
        /\ UNCHANGED <<req, copy, load>>
    BY <1>3 DEF FindChatModel, FindChatMapping, FindChatProvider, Fail, Goto, KeepLocals, KeepStores
  <2>2. \A q \in Requests : q # r => found'[q] = found[q] /\ held'[q] = held[q]
    BY <1>3 DEF FindChatModel, FindChatMapping, FindChatProvider, Fail, KeepLocals, LocalsOK
  <2> QED
    BY <2>1, <2>2 DEF Others, Running, LocalsOK, InPlace
<1> QED
  BY <1>1, <1>2, <1>3 DEF ProviderStep, ChatStep, Abort, SaveProvider, RemoveProvider,
                          IncrementUsage, NoUsage, Fail

\* A step of a request leaves the others alone; it ends the request, or the request goes on
\* with the same arguments.
LEMMA Moves ==
    ASSUME FlowInv, NEW r \in Requests, RequestStep(r)
    PROVE  /\ Others(r) /\ Running(r) /\ UNCHANGED load
           /\ Gone(r) \/ req'[r] = req[r]
           /\ InPlace' /\ Together'
<1>1. /\ Others(r) /\ Running(r) /\ UNCHANGED load
      /\ Gone(r) \/ (req'[r] = req[r] /\ InPlace')
  BY ModelMoves, BindMoves, UnbindMoves, ProviderMoves DEF FlowInv, RequestStep
<1>2. CASE Gone(r)
  <2>1. InPlace'
    BY <1>1, <1>2 DEF FlowInv, InPlace, Gone, Others, NoCall
  <2>2. \A q \in Requests : Running(q)' => Running(q) /\ req'[q] = req[q]
    BY <1>1, <1>2 DEF Gone, Others, Running
  <2> QED
    BY <1>1, <1>2, <2>1, <2>2 DEF FlowInv, Together
<1>3. CASE ~Gone(r)
  <2>1. \A q \in Requests : Running(q)' => Running(q) /\ req'[q] = req[q]
    BY <1>1, <1>3 DEF Others, Running
  <2> QED
    BY <1>1, <1>3, <2>1 DEF FlowInv, Together
<1> QED
  BY <1>2, <1>3

LEMMA BeginMoves ==
    ASSUME FlowInv, NEW r \in Requests, NEW c \in Calls, Begin(r, c)
    PROVE  InPlace' /\ Together'
<1>1. /\ at' = [at EXCEPT ![r] = IF c.op \in {"updateProvider", "removeProvider"}
                                  THEN "provider" ELSE "model"]
      /\ req' = [req EXCEPT ![r] = c] /\ UNCHANGED <<found, copy, load>> /\ at[r] = "idle"
      /\ \A s \in Requests \ {r} : Running(s) => {c.op, req[s].op} \subseteq load.together
  BY DEF Begin, MayStart, Goto, KeepStores, Running
<1>2. c.op \in Ops
  BY DEF Calls, Call
<1>3. InPlace'
  BY <1>1, <1>2 DEF FlowInv, Inv, LocalsOK, InPlace, Ops
<1>4. Together'
  BY <1>1 DEF FlowInv, Inv, LocalsOK, Together, Running
<1> QED
  BY <1>3, <1>4

LEMMA FlowInit == Init => FlowInv
BY Initially DEF Init, FlowInv, InPlace, Together, NoCall, Running

LEMMA FlowNext ==
    ASSUME FlowInv, [Next]_vars
    PROVE  FlowInv'
<1>1. Inv'
  BY StepKeeps DEF FlowInv
<1>2. ASSUME NEW r \in Requests, RequestStep(r) PROVE FlowInv'
  BY <1>1, <1>2, Moves DEF FlowInv
<1>3. ASSUME NEW r \in Requests, NEW c \in Calls, Begin(r, c) PROVE FlowInv'
  BY <1>1, <1>3, BeginMoves DEF FlowInv
<1>4. CASE (\E m \in Models : CreateModel(m)) \/ (\E p \in Providers : CreateProvider(p))
           \/ UNCHANGED vars
  <2>1. UNCHANGED <<at, req, found, copy, load>>
    BY <1>4 DEF CreateModel, CreateProvider, vars
  <2> QED
    BY <1>1, <2>1 DEF FlowInv, InPlace, Together, Running
<1> QED
  BY <1>2, <1>3, <1>4 DEF Next, RequestStep

-----------------------------------------------------------------------------
(* The usage of the providers.                                             *)

\* As long as no update of a provider overlaps anything, the document of a provider that was
\* not removed counts what its chats used, and so does the copy an update will write back.
UsageInv ==
    "updateProvider" \notin load.together =>
        /\ \A p \in Providers : providers[p].status # "gone" => providers[p].usage = spent[p]
        /\ \A r \in Requests : at[r] = "saveProvider" => held[r] = spent[req[r].provider]

\* An update of a provider takes three kinds of steps.
LEMMA UpdateSteps ==
    ASSUME FlowInv, NEW r \in Requests, RequestStep(r), req[r].op = "updateProvider"
    PROVE  ReadProvider(r) \/ SaveProvider(r) \/ Abort(r)
<1>1. at[r] \in {"idle", "provider", "saveProvider"}
  BY DEF FlowInv, Inv, LocalsOK, InPlace, Place
<1>2. ~ModelStep(r) /\ ~UnbindStep(r)
  BY <1>1 DEF ModelStep, GetModel, SaveModel, ListMappings, DropMapping, DropModel,
              UnbindStep, FindToUnbind, DeleteMapping, FindNext, Promote
<1>3. ~BindStep(r)
  BY <1>1 DEF BindStep, FindProvider, FindToBind, FindOthers, DemoteOther, WriteMapping
<1>4. ~ChatStep(r)
  BY <1>1 DEF ChatStep, FindChatModel, FindChatMapping, FindChatProvider, IncrementUsage, NoUsage
<1>5. ~CountMappings(r) /\ ~RemoveProvider(r)
  BY <1>1 DEF CountMappings, RemoveProvider
<1> QED
  BY <1>2, <1>3, <1>4, <1>5 DEF RequestStep, ProviderStep

\* The other requests touch no usage but by an increment.
LEMMA UsageSteps ==
    ASSUME FlowInv, NEW r \in Requests, RequestStep(r), req[r].op # "updateProvider"
    PROVE  \/ UNCHANGED <<providers, spent>>
           \/ RemoveProvider(r)
           \/ \E p \in Providers :
                 /\ providers' = [providers EXCEPT ![p].usage = @ + 1]
                 /\ spent' = [spent EXCEPT ![p] = @ + 1]
<1>1. CASE ModelStep(r)
  BY <1>1 DEF ModelStep, GetModel, SaveModel, ListMappings, DropMapping, DropModel, KeepStores
<1>2. CASE BindStep(r)
  BY <1>2 DEF BindStep, FindProvider, FindToBind, FindOthers, DemoteOther, WriteMapping, KeepStores
<1>3. CASE UnbindStep(r)
  BY <1>3 DEF UnbindStep, FindToUnbind, DeleteMapping, FindNext, Promote, KeepStores
<1>4. CASE ReadProvider(r) \/ CountMappings(r) \/ Abort(r)
  BY <1>4 DEF ReadProvider, CountMappings, Abort, KeepStores
<1>5. ~SaveProvider(r)
  BY DEF SaveProvider, FlowInv, InPlace
<1>6. CASE FindChatModel(r) \/ FindChatMapping(r) \/ FindChatProvider(r) \/ NoUsage(r)
  BY <1>6 DEF FindChatModel, FindChatMapping, FindChatProvider, NoUsage, KeepStores
<1>7. CASE IncrementUsage(r)
  <2>1. CASE UNCHANGED <<providers, spent>>
    BY <2>1
  <2>2. CASE ~UNCHANGED <<providers, spent>>
    <3>1. PICK x \in found[r] :
              /\ providers' = [providers EXCEPT ![x.provider].usage = UsageAfter(r, x.provider)]
              /\ spent' = [spent EXCEPT ![x.provider] = @ + 1]
      BY <1>7, <2>2 DEF IncrementUsage
    <3>2. x.provider \in Providers
      BY DEF FlowInv, Inv, LocalsOK, Mapping
    <3>3. providers' = [providers EXCEPT ![x.provider].usage = @ + 1]
      BY <3>1, <3>2 DEF UsageAfter, FlowInv, Inv, StoresOK
    <3> QED
      BY <3>1, <3>2, <3>3
  <2> QED
    BY <2>1, <2>2
<1> QED
  BY <1>1, <1>2, <1>3, <1>4, <1>5, <1>6, <1>7 DEF RequestStep, ProviderStep, ChatStep

LEMMA UsageStep ==
    ASSUME FlowInv, UsageInv, NEW r \in Requests, RequestStep(r)
    PROVE  UsageInv'
<1> SUFFICES ASSUME "updateProvider" \notin load.together PROVE UsageInv'
  BY Moves DEF UsageInv
<1>1. /\ Others(r) /\ Running(r) /\ UNCHANGED load
      /\ Gone(r) \/ req'[r] = req[r]
      /\ InPlace'
  BY Moves
<1>2. \A q \in Requests : q # r => at[q] # "saveProvider" /\ at'[q] # "saveProvider"
  BY <1>1 DEF FlowInv, InPlace, Together, Running, Others
<1>3. /\ providers \in [Providers -> [status : Status, usage : Nat]]
      /\ spent \in [Providers -> Nat]
      /\ \A p \in Providers : providers[p].status # "gone" => providers[p].usage = spent[p]
      /\ at[r] = "saveProvider" => held[r] = spent[req[r].provider]
  BY DEF FlowInv, Inv, StoresOK, UsageInv
<1>4. CASE req[r].op # "updateProvider"
  <2>1. at'[r] # "saveProvider"
    BY <1>1, <1>4 DEF InPlace, Gone, NoCall
  <2>2. \A p \in Providers : providers'[p].status # "gone" => providers'[p].usage = spent'[p]
    <3>1. CASE RemoveProvider(r)
      BY <1>3, <3>1 DEF RemoveProvider
    <3>2. CASE ~RemoveProvider(r)
      BY <1>3, <1>4, <3>2, UsageSteps
    <3> QED
      BY <3>1, <3>2
  <2> QED
    BY <1>2, <2>1, <2>2 DEF UsageInv
<1>5. CASE req[r].op = "updateProvider"
  <2>1. CASE ReadProvider(r)
    <3>1. req[r].provider \in Providers
      BY <1>1, <1>5, CallArguments DEF FlowInv, Inv
    <3>2. UNCHANGED <<providers, spent>>
      BY <2>1 DEF ReadProvider, KeepStores
    <3>3. at'[r] = "saveProvider" => held'[r] = providers[req[r].provider].usage /\ req'[r] = req[r]
                                      /\ Exists(providers[req[r].provider].status)
      BY <1>5, <2>1 DEF ReadProvider, Fail, Finish, Goto, FlowInv, Inv, LocalsOK
    <3>4. at'[r] = "saveProvider" => held'[r] = spent[req[r].provider]
      BY <1>3, <3>1, <3>3 DEF Exists
    <3> QED
      BY <1>2, <1>3, <3>2, <3>3, <3>4 DEF UsageInv
  <2>2. CASE SaveProvider(r)
    <3>1. PICK status \in {"active", "inactive"} :
              providers' = [providers EXCEPT ![req[r].provider] =
                                [status |-> status, usage |-> held[r]]]
      BY <2>2 DEF SaveProvider
    <3>2. Gone(r) /\ UNCHANGED spent /\ held[r] = spent[req[r].provider]
      BY <1>3, <2>2, FinishIsGone DEF SaveProvider, FlowInv, Inv
    <3>3. \A p \in Providers : providers'[p].status # "gone" => providers'[p].usage = spent'[p]
      BY <1>3, <3>1, <3>2
    <3> QED
      BY <1>2, <3>2, <3>3 DEF UsageInv, Gone
  <2>3. CASE Abort(r)
    <3>1. UNCHANGED <<providers, spent>>
      BY <2>3 DEF Abort, KeepStores
    <3>2. Gone(r)
      BY <2>3, FinishIsGone DEF Abort, Fail, FlowInv, Inv
    <3> QED
      BY <1>2, <1>3, <3>1, <3>2 DEF UsageInv, Gone
  <2> QED
    BY <1>5, <2>1, <2>2, <2>3, UpdateSteps
<1> QED
  BY <1>4, <1>5

LEMMA UsageNext ==
    ASSUME FlowInv, UsageInv, [Next]_vars
    PROVE  UsageInv'
<1>1. ASSUME NEW r \in Requests, NEW c \in Calls, Begin(r, c) PROVE UsageInv'
  <2>1. UNCHANGED <<providers, spent, load, held>> /\ ~Running(r)
    BY <1>1 DEF Begin, KeepStores
  <2>2. /\ at'[r] # "saveProvider"
        /\ \A q \in Requests : q # r => at'[q] = at[q] /\ req'[q] = req[q]
    BY <1>1 DEF Begin, Goto, FlowInv, Inv, LocalsOK
  <2> QED
    BY <2>1, <2>2 DEF UsageInv
<1>2. ASSUME NEW p \in Providers, CreateProvider(p) PROVE UsageInv'
  <2>1. providers' = [providers EXCEPT ![p].status = "active"] /\ providers[p].status = "unborn"
        /\ UNCHANGED <<at, req, held, spent, load>>
    BY <1>2 DEF CreateProvider
  <2> QED
    BY <2>1 DEF UsageInv, FlowInv, Inv, StoresOK
<1>3. ASSUME NEW m \in Models, CreateModel(m) PROVE UsageInv'
  BY <1>3 DEF CreateModel, UsageInv
<1>4. CASE UNCHANGED vars
  BY <1>4 DEF vars, UsageInv
<1> QED
  BY <1>1, <1>2, <1>3, <1>4, UsageStep DEF Next, RequestStep

\* As long as no update of a provider overlaps anything, usage_tokens of a provider is exactly
\* what its chats have used, however many of them overlap.
THEOREM UsageExactHolds == Spec => []UsageExact
<1>1. Init => FlowInv /\ UsageInv
  BY FlowInit DEF Init, UsageInv
<1>2. FlowInv /\ UsageInv /\ [Next]_vars => (FlowInv /\ UsageInv)'
  BY FlowNext, UsageNext
<1>3. UsageInv => UsageExact
  BY DEF UsageInv, UsageExact, Exists
<1> QED
  BY <1>1, <1>2, <1>3, PTL DEF Spec

-----------------------------------------------------------------------------
(* The links between the collections.                                      *)

\* No mapping is written while a model or a provider is being deleted.
Separate == \/ load.together \cap {"bind", "unbind"} = {}
            \/ load.together \cap {"deleteModel", "removeProvider"} = {}

\* The documents a mapping refers to exist.
ModelKnown(m) == Exists(models[m])
ProviderKnown(p) == Exists(providers[p].status)
Known(x) == ModelKnown(x.model) /\ ProviderKnown(x.provider)

Writer(r) == req[r].op \in {"bind", "unbind"}
Deleter(r) == req[r].op \in {"deleteModel", "removeProvider"}

\* What the requests have checked so far stays true: a bind, that its model and its provider
\* exist; a deletion, that every mapping of its model is one it still has to delete, or that
\* its provider has none.
Checked(r) ==
    /\ req[r].op = "bind" /\ at[r] \in {"provider", "mapping"} => ModelKnown(req[r].model)
    /\ req[r].op = "bind" /\ at[r] = "mapping" => ProviderKnown(req[r].provider)
    /\ Writer(r) => \A x \in found[r] \cup copy[r] : Known(x)
    /\ at[r] = "drop" => Of(req[r].model) \subseteq found[r]
    /\ at[r] = "remove" => ~Mapped(req[r].provider)
LinkInv ==
    Separate => (\A x \in mappings : Known(x)) /\ (\A r \in Requests : Checked(r))

\* A writer and a deleter never overlap.
LEMMA ApartBy ==
    ASSUME FlowInv, Separate, NEW r \in Requests, NEW s \in Requests,
           Running(r), Running(s), r # s
    PROVE  ~(Writer(r) /\ Deleter(s))
BY DEF FlowInv, Together, Separate, Writer, Deleter

\* Documents only go away by the two deletions.
LEMMA Stays ==
    ASSUME FlowInv, NEW r \in Requests, RequestStep(r)
    PROVE  /\ ~DropModel(r) => \A m \in Models : ModelKnown(m) => ModelKnown(m)'
           /\ ~RemoveProvider(r) => \A p \in Providers : ProviderKnown(p) => ProviderKnown(p)'
           /\ DropModel(r) => \A m \in Models : m # req[r].model /\ ModelKnown(m) => ModelKnown(m)'
           /\ RemoveProvider(r) =>
                \A p \in Providers : p # req[r].provider /\ ProviderKnown(p) => ProviderKnown(p)'
<1> USE DEF ModelKnown, ProviderKnown, Exists
<1>1. models \in [Models -> Status] /\ providers \in [Providers -> [status : Status, usage : Nat]]
  BY DEF FlowInv, Inv, StoresOK
<1>2. CASE GetModel(r) \/ ListMappings(r) \/ DropMapping(r) \/ BindStep(r) \/ UnbindStep(r)
  <2>1. UNCHANGED <<models, providers>>
    BY <1>2 DEF GetModel, ListMappings, DropMapping, KeepStores,
                BindStep, FindProvider, FindToBind, FindOthers, DemoteOther, WriteMapping,
                UnbindStep, FindToUnbind, DeleteMapping, FindNext, Promote
  <2> QED
    BY <2>1
<1>3. CASE SaveModel(r) \/ DropModel(r)
  <2>1. UNCHANGED providers
    BY <1>3 DEF SaveModel, DropModel
  <2>2. CASE SaveModel(r)
    BY <1>1, <2>1, <2>2 DEF SaveModel
  <2>3. CASE DropModel(r)
    BY <1>1, <2>1, <2>3 DEF DropModel
  <2> QED
    BY <1>3, <2>2, <2>3
<1>4. CASE SaveProvider(r) \/ RemoveProvider(r)
  <2>1. UNCHANGED models
    BY <1>4 DEF SaveProvider, RemoveProvider
  <2>2. CASE SaveProvider(r)
    BY <1>1, <2>1, <2>2 DEF SaveProvider
  <2>3. CASE RemoveProvider(r)
    BY <1>1, <2>1, <2>3 DEF RemoveProvider
  <2> QED
    BY <1>4, <2>2, <2>3
<1>5. CASE ReadProvider(r) \/ CountMappings(r) \/ ChatStep(r) \/ Abort(r)
  <2>1. UNCHANGED models
    BY <1>5 DEF ReadProvider, CountMappings, Abort, KeepStores, ChatStep, FindChatModel,
                FindChatMapping, FindChatProvider, IncrementUsage, NoUsage
  <2>2. UNCHANGED providers \/ \E p \in Providers : providers' = [providers EXCEPT ![p].usage = @ + 1]
    <3>1. CASE ReadProvider(r) \/ CountMappings(r) \/ Abort(r)
      BY <3>1 DEF ReadProvider, CountMappings, Abort, KeepStores
    <3>2. CASE ChatStep(r)
      <4>1. ~RemoveProvider(r)
        BY <3>2 DEF ChatStep, FindChatModel, FindChatMapping, FindChatProvider, IncrementUsage,
                    NoUsage, RemoveProvider
      <4> QED
        BY <3>2, <4>1, UsageSteps DEF ChatStep, FindChatModel, FindChatMapping, FindChatProvider,
               IncrementUsage, NoUsage, FlowInv, InPlace
    <3> QED
      BY <1>5, <3>1, <3>2
  <2>3. \A p \in Providers : providers'[p].status = providers[p].status
    BY <1>1, <2>2
  <2> QED
    BY <2>1, <2>3
<1> QED
  BY <1>2, <1>3, <1>4, <1>5 DEF RequestStep, ModelStep, ProviderStep

\* Where the stored mappings come from.
LEMMA MappingsAfter ==
    ASSUME FlowInv, NEW r \in Requests, RequestStep(r)
    PROVE  /\ \A x \in mappings' \ mappings :
                 /\ Writer(r) /\ at[r] \in {"save", "promote"}
                 /\ \/ x \in copy[r] /\ Gone(r)
                    \/ \E y \in found[r] : x = Demoted(y)
           /\ Gone(r) \/ at[r] \in {"save", "drop", "delete"} \/ UNCHANGED mappings
<1>1. CASE ModelStep(r)
  BY <1>1, FinishIsGone DEF ModelStep, GetModel, SaveModel, ListMappings, DropMapping, DropModel,
                            KeepStores, Without, FlowInv, Inv
<1>2. CASE FindProvider(r) \/ FindToBind(r) \/ FindOthers(r)
  BY <1>2 DEF FindProvider, FindToBind, FindOthers, KeepStores
<1>3. CASE DemoteOther(r)
  <2>1. Writer(r) /\ at[r] = "save"
    BY <1>3 DEF DemoteOther, FlowInv, InPlace, Writer
  <2>2. UNCHANGED mappings \/ \E y \in found[r] : mappings' = Saved(Demoted(y))
    BY <1>3 DEF DemoteOther
  <2> QED
    BY <2>1, <2>2 DEF Saved
<1>4. CASE WriteMapping(r) \/ Promote(r)
  <2>1. Writer(r) /\ at[r] \in {"save", "promote"}
    BY <1>4 DEF WriteMapping, Promote, FlowInv, InPlace, Writer
  <2>2. UNCHANGED mappings \/ \E x \in copy[r] : mappings' = Saved(x)
    BY <1>4 DEF WriteMapping, Promote
  <2>3. Gone(r)
    BY <1>4, FinishIsGone DEF WriteMapping, Promote, Fail, FlowInv, Inv
  <2> QED
    BY <2>1, <2>2, <2>3 DEF Saved
<1>5. CASE FindToUnbind(r) \/ DeleteMapping(r) \/ FindNext(r)
  BY <1>5 DEF FindToUnbind, DeleteMapping, FindNext, KeepStores, Without
<1>6. CASE ProviderStep(r) \/ ChatStep(r) \/ Abort(r)
  BY <1>6 DEF ProviderStep, ReadProvider, SaveProvider, CountMappings, RemoveProvider, ChatStep,
              FindChatModel, FindChatMapping, FindChatProvider, IncrementUsage, NoUsage, Abort,
              KeepStores
<1> QED
  BY <1>1, <1>2, <1>3, <1>4, <1>5, <1>6 DEF RequestStep, BindStep, UnbindStep

\* Two documents of one mapping.
SameLink(x, y) == x.id = y.id /\ x.model = y.model /\ x.provider = y.provider

\* The document a bind writes under an id no mapping has had.
NewLink(r, x) ==
    /\ at[r] = "mapping" /\ req[r].op = "bind"
    /\ x.id = clock + 1 /\ clock' = clock + 1
    /\ x.model = req[r].model /\ x.provider = req[r].provider

Held(r) == found[r] \cup copy[r]

\* Where the mappings a request holds come from.
LEMMA HeldAfter ==
    ASSUME FlowInv, NEW r \in Requests, RequestStep(r)
    PROVE  /\ \A x \in Held(r)' : \/ \E y \in Held(r) \cup mappings : SameLink(x, y)
                                  \/ NewLink(r, x)
           /\ clock' = clock \/ clock' = clock + 1
<1> USE DEF Held, SameLink
<1>1. LocalsOK /\ MappingsOK
  BY DEF FlowInv, Inv, StoresOK
<1>2. CASE Gone(r) /\ ~FindToBind(r)
  BY <1>2 DEF Gone, RequestStep, ModelStep, GetModel, SaveModel, ListMappings, DropMapping, DropModel,
              BindStep, FindProvider, FindOthers, DemoteOther, WriteMapping,
              UnbindStep, FindToUnbind, DeleteMapping, FindNext, Promote,
              ProviderStep, ReadProvider, SaveProvider, CountMappings, RemoveProvider,
              ChatStep, FindChatModel, FindChatMapping, FindChatProvider, IncrementUsage, NoUsage,
              Abort, KeepStores
<1>3. CASE FindToBind(r)
  <2> DEFINE c == req[r]
             new == [id |-> clock + 1, model |-> c.model, provider |-> c.provider,
                     preferred |-> AsksPreferred(c), active |-> c.active]
  <2>1. CASE clock' = clock + 1 /\ copy' = [copy EXCEPT ![r] = {new}]
    BY <1>1, <1>3, <2>1 DEF FindToBind, NewLink, LocalsOK
  <2>2. ASSUME NEW y \in mappings, y.model = c.model, y.provider = c.provider, clock' = clock,
               copy' = [copy EXCEPT ![r] = {[new EXCEPT !.id = y.id]}]
        PROVE  /\ \A x \in Held(r)' : \E z \in Held(r) \cup mappings : SameLink(x, z)
               /\ clock' = clock
    <3>1. SameLink([new EXCEPT !.id = y.id], y)
      BY <2>2
    <3>2. copy'[r] = {[new EXCEPT !.id = y.id]} /\ found'[r] = found[r]
      BY <1>1, <1>3, <2>2 DEF FindToBind, LocalsOK
    <3> QED
      BY <2>2, <3>1, <3>2
  <2> QED
    BY <1>3, <2>1, <2>2 DEF FindToBind, Of
<1>4. CASE ~Gone(r) /\ (ModelStep(r) \/ FindProvider(r) \/ FindOthers(r) \/ DemoteOther(r))
  <2>1. ~Finish(r)
    BY <1>1, <1>4, FinishIsGone
  <2>2. found'[r] \subseteq found[r] \cup mappings /\ UNCHANGED <<copy, clock>>
    BY <1>1, <1>4, <2>1 DEF ModelStep, GetModel, SaveModel, ListMappings, DropMapping, DropModel,
             FindProvider, FindOthers, DemoteOther, Fail, KeepLocals, KeepStores, LocalsOK, Of
  <2> QED
    BY <2>2
<1>5. CASE ~Gone(r) /\ (FindToUnbind(r) \/ DeleteMapping(r) \/ ProviderStep(r) \/ ChatStep(r))
  <2>1. ~Finish(r)
    BY <1>1, <1>5, FinishIsGone
  <2>2. UNCHANGED <<copy, clock>>
    BY <1>5, <2>1 DEF FindToUnbind, DeleteMapping, ProviderStep, ReadProvider, SaveProvider,
             CountMappings, RemoveProvider, ChatStep, FindChatModel, FindChatMapping,
             FindChatProvider, IncrementUsage, NoUsage, Fail, KeepLocals, KeepStores
  <2>3. CASE FindToUnbind(r) \/ DeleteMapping(r)
    <3>1. found'[r] \subseteq found[r] \cup mappings
      BY <1>1, <2>1, <2>3 DEF FindToUnbind, DeleteMapping, Fail, KeepLocals, LocalsOK, Of
    <3> QED
      BY <2>2, <3>1
  <2>4. CASE FindChatMapping(r)
    <3> DEFINE usable == {x \in ActiveOf(req[r].model) : req[r].provider \in {x.provider, None}}
    <3>1. PICK x \in FirstChoice(usable) : found' = [found EXCEPT ![r] = {x}]
      BY <2>1, <2>4 DEF FindChatMapping, Fail
    <3>2. x \in mappings
      BY DEF FirstChoice, Oldest, ActiveOf, Of
    <3> QED
      BY <1>1, <2>2, <3>1, <3>2 DEF LocalsOK
  <2>5. CASE ~FindToUnbind(r) /\ ~DeleteMapping(r) /\ ~FindChatMapping(r)
    <3>1. UNCHANGED found
      BY <1>5, <2>1, <2>5 DEF ProviderStep, ReadProvider, SaveProvider,
             CountMappings, RemoveProvider, ChatStep, FindChatModel,
             FindChatProvider, IncrementUsage, NoUsage, Fail, KeepLocals
    <3> QED
      BY <2>2, <3>1
  <2> QED
    BY <2>3, <2>4, <2>5
<1>6. CASE ~Gone(r) /\ FindNext(r)
  <2>1. PICK x \in Oldest(Successors(req[r].model)) :
            copy' = [copy EXCEPT ![r] = {[x EXCEPT !.preferred = TRUE]}]
    BY <1>1, <1>6, FinishIsGone DEF FindNext
  <2>2. x \in mappings /\ x \in Mapping
    BY <1>1 DEF Oldest, Successors, ActiveOf, Of, MappingsOK
  <2>3. SameLink([x EXCEPT !.preferred = TRUE], x)
    BY <2>2 DEF Mapping
  <2>4. UNCHANGED <<found, clock>> /\ copy'[r] = {[x EXCEPT !.preferred = TRUE]}
    BY <1>1, <1>6, <2>1, FinishIsGone DEF FindNext, KeepStores, LocalsOK
  <2> QED
    BY <2>2, <2>3, <2>4
<1>7. CASE ~Gone(r) /\ (WriteMapping(r) \/ Promote(r) \/ Abort(r))
  BY <1>1, <1>7, FinishIsGone DEF WriteMapping, Promote, Abort, Fail
<1> QED
  BY <1>2, <1>3, <1>4, <1>5, <1>6, <1>7 DEF RequestStep, BindStep, UnbindStep

LEMMA CheckedByWriter ==
    ASSUME FlowInv, LinkInv, Separate, NEW r \in Requests, RequestStep(r), Writer(r)
    PROVE  /\ \A m \in Models : ModelKnown(m) => ModelKnown(m)'
           /\ \A p \in Providers : ProviderKnown(p) => ProviderKnown(p)'
           /\ Checked(r)'
<1>1. Others(r) /\ Running(r) /\ (Gone(r) \/ req'[r] = req[r]) /\ InPlace'
  BY Moves
<1>2. ~DropModel(r) /\ ~RemoveProvider(r)
  BY DEF DropModel, RemoveProvider, FlowInv, InPlace, Writer
<1>3. /\ \A m \in Models : ModelKnown(m) => ModelKnown(m)'
      /\ \A p \in Providers : ProviderKnown(p) => ProviderKnown(p)'
  BY <1>2, Stays
<1>4. /\ req[r].model \in Models /\ req[r].provider \in Providers
      /\ \A x \in Held(r) \cup mappings : x.model \in Models /\ x.provider \in Providers
  <2>1. req[r].model \in Models /\ req[r].provider \in Providers
    BY <1>1, CallArguments DEF Writer, FlowInv, Inv
  <2>2. Held(r) \cup mappings \subseteq Mapping
    BY DEF FlowInv, Inv, LocalsOK, StoresOK, MappingsOK, Held
  <2> QED
    BY <2>1, <2>2 DEF Mapping
<1>5. CASE Gone(r)
  BY <1>3, <1>5 DEF Gone, Checked, Writer, NoCall
<1>6. CASE ~Gone(r)
  <2>1. req'[r] = req[r] /\ ~Finish(r)
    BY <1>1, <1>6, FinishIsGone DEF FlowInv, Inv
  <2>2. \A x \in Held(r) \cup mappings : Known(x)
    BY DEF LinkInv, Checked, Held
  <2>3. at[r] = "mapping" /\ req[r].op = "bind" =>
            ModelKnown(req[r].model) /\ ProviderKnown(req[r].provider)
    BY DEF LinkInv, Checked
  <2>4. \A x \in Held(r)' : Known(x)'
    <3>1. ASSUME NEW x \in Held(r)', NEW y \in Held(r) \cup mappings, SameLink(x, y)
          PROVE  Known(x)'
      BY <1>3, <1>4, <2>2, <3>1 DEF SameLink, Known
    <3>2. ASSUME NEW x \in Held(r)', NewLink(r, x)
          PROVE  Known(x)'
      BY <1>3, <1>4, <2>3, <3>2 DEF NewLink, Known
    <3> QED
      BY <3>1, <3>2, HeldAfter
  <2>5. req[r].op = "bind" /\ at'[r] = "provider" => GetModel(r)
    BY <1>1, <2>1 DEF RequestStep, ModelStep, SaveModel, ListMappings, DropMapping, DropModel, BindStep,
        FindProvider, FindToBind, FindOthers, DemoteOther, WriteMapping, UnbindStep, FindToUnbind,
        DeleteMapping, FindNext, Promote, ProviderStep, ReadProvider, SaveProvider,
        CountMappings, RemoveProvider, ChatStep, FindChatModel, FindChatMapping, FindChatProvider,
        IncrementUsage, NoUsage, Abort, Fail, Goto, FlowInv, Inv, LocalsOK, InPlace
  <2>6. req[r].op = "bind" /\ at'[r] = "mapping" => FindProvider(r)
    BY <1>1, <2>1 DEF RequestStep, ModelStep, GetModel, AfterModel, SaveModel, ListMappings, DropMapping,
        DropModel, BindStep,
        FindToBind, FindOthers, DemoteOther, WriteMapping, UnbindStep, FindToUnbind,
        DeleteMapping, FindNext, Promote, ProviderStep, ReadProvider, SaveProvider,
        CountMappings, RemoveProvider, ChatStep, FindChatModel, FindChatMapping, FindChatProvider,
        IncrementUsage, NoUsage, Abort, Fail, Goto, FlowInv, Inv, LocalsOK, InPlace
  <2>7. req[r].op = "bind" /\ at'[r] \in {"provider", "mapping"} => ModelKnown(req[r].model)
    BY <2>1, <2>5, <2>6 DEF GetModel, FindProvider, ModelKnown, Fail, LinkInv, Checked
  <2>8. req[r].op = "bind" /\ at'[r] = "mapping" => ProviderKnown(req[r].provider)
    BY <2>1, <2>6 DEF FindProvider, ProviderKnown, Fail
  <2>9. at'[r] \notin {"drop", "remove"}
    BY <1>1, <2>1 DEF InPlace, Writer
  <2> QED
    BY <1>3, <1>4, <2>1, <2>4, <2>7, <2>8, <2>9 DEF Checked, Held
<1> QED
  BY <1>3, <1>5, <1>6

LEMMA CheckedByDeleter ==
    ASSUME FlowInv, LinkInv, Separate, NEW r \in Requests, RequestStep(r), ~Writer(r)
    PROVE  /\ mappings' \subseteq mappings
           /\ \A x \in mappings' : Known(x)'
           /\ Checked(r)'
<1>1. Running(r) /\ (Gone(r) \/ req'[r] = req[r]) /\ InPlace'
  BY Moves
<1>2. mappings' \subseteq mappings
  BY MappingsAfter
<1>3. \A x \in mappings : x.model \in Models /\ x.provider \in Providers
  BY DEF FlowInv, Inv, StoresOK, MappingsOK, Mapping
<1>4. \A x \in mappings' : Known(x)'
  <2>1. CASE DropModel(r)
    <3>1. Of(req[r].model) = {} /\ UNCHANGED mappings /\ ~RemoveProvider(r)
      BY <2>1 DEF DropModel, RemoveProvider, LinkInv, Checked
    <3> QED
      BY <1>3, <2>1, <3>1, Stays DEF LinkInv, Known, Of
  <2>2. CASE RemoveProvider(r)
    <3>1. ~Mapped(req[r].provider) /\ UNCHANGED mappings /\ ~DropModel(r)
      BY <2>2 DEF DropModel, RemoveProvider, LinkInv, Checked
    <3> QED
      BY <1>3, <2>2, <3>1, Stays DEF LinkInv, Known, Mapped
  <2>3. CASE ~DropModel(r) /\ ~RemoveProvider(r)
    BY <1>2, <1>3, <2>3, Stays DEF LinkInv, Known
  <2> QED
    BY <2>1, <2>2, <2>3
<1> SUFFICES Checked(r)'
  BY <1>2, <1>4
<1>5. CASE Gone(r)
  BY <1>5 DEF Gone, Checked, Writer, NoCall
<1>6. CASE ~Gone(r)
  <2>1. req'[r] = req[r] /\ ~Finish(r)
    BY <1>1, <1>6, FinishIsGone DEF FlowInv, Inv
  <2>2. CASE at'[r] = "drop"
    <3>1. req[r].op = "deleteModel"
      BY <1>1, <2>1, <2>2 DEF InPlace
    <3>2. at[r] \in {"model", "list", "drop"}
      BY <1>1, <3>1 DEF FlowInv, Inv, LocalsOK, InPlace, Place, Running
    <3>3. ListMappings(r) \/ DropMapping(r)
      <4>1. ~ProviderStep(r) /\ ~BindStep(r)
        BY <3>1, <3>2 DEF ProviderStep, ReadProvider, SaveProvider, CountMappings, RemoveProvider,
             BindStep, FindProvider, FindToBind, FindOthers, DemoteOther, WriteMapping
      <4>2. ~UnbindStep(r) /\ ~ChatStep(r)
        BY <3>1, <3>2 DEF UnbindStep, FindToUnbind, DeleteMapping, FindNext, Promote, ChatStep,
             FindChatModel, FindChatMapping, FindChatProvider, IncrementUsage, NoUsage
      <4>3. ~GetModel(r)
        BY <2>1, <2>2, <3>1 DEF GetModel, AfterModel, Goto, Fail, FlowInv, Inv, LocalsOK
      <4> QED
        BY <2>1, <4>1, <4>2, <4>3 DEF RequestStep, ModelStep, SaveModel, DropModel, Abort, Fail
    <3>4. CASE ListMappings(r)
      <4>1. Of(req[r].model)' \subseteq found'[r]
        BY <2>1, <3>4 DEF ListMappings, KeepStores, Of, FlowInv, Inv, LocalsOK
      <4> QED
        BY <2>1, <2>2, <3>1, <4>1 DEF Checked, Writer
    <3>5. CASE DropMapping(r)
      <4>1. PICK x \in found[r] : mappings' = Without(x) /\ found' = [found EXCEPT ![r] = @ \ {x}]
        BY <3>5 DEF DropMapping
      <4>2. Of(req[r].model) \subseteq found[r] /\ found'[r] = found[r] \ {x} /\ x \in Mapping
        BY <3>5, <4>1 DEF DropMapping, LinkInv, Checked, FlowInv, Inv, LocalsOK
      <4>3. Of(req[r].model)' \subseteq found'[r]
        BY <2>1, <4>1, <4>2 DEF Of, Without
      <4> QED
        BY <2>1, <2>2, <3>1, <4>3 DEF Checked, Writer
    <3> QED
      BY <3>3, <3>4, <3>5
  <2>3. CASE at'[r] = "remove"
    <3>1. req[r].op = "removeProvider"
      BY <1>1, <2>1, <2>3 DEF InPlace
    <3>2. at[r] \in {"provider", "count", "remove"}
      BY <1>1, <3>1 DEF FlowInv, Inv, LocalsOK, InPlace, Place, Running
    <3>3. CountMappings(r)
      <4>1. ~ModelStep(r) /\ ~BindStep(r)
        BY <3>1, <3>2 DEF ModelStep, GetModel, SaveModel, ListMappings, DropMapping, DropModel,
             BindStep, FindProvider, FindToBind, FindOthers, DemoteOther, WriteMapping
      <4>2. ~UnbindStep(r) /\ ~ChatStep(r)
        BY <3>1, <3>2 DEF UnbindStep, FindToUnbind, DeleteMapping, FindNext, Promote, ChatStep,
             FindChatModel, FindChatMapping, FindChatProvider, IncrementUsage, NoUsage
      <4>3. ~ReadProvider(r)
        BY <2>1, <2>3, <3>1 DEF ReadProvider, Goto, Fail, FlowInv, Inv, LocalsOK
      <4> QED
        BY <2>1, <4>1, <4>2, <4>3 DEF RequestStep, ProviderStep, SaveProvider, RemoveProvider, Abort,
                                      Fail
    <3>4. ~Mapped(req[r].provider) /\ UNCHANGED mappings
      BY <2>1, <3>3 DEF CountMappings, Fail, KeepStores
    <3> QED
      BY <2>1, <2>3, <3>1, <3>4 DEF Checked, Writer, Mapped
  <2>4. CASE at'[r] \notin {"drop", "remove"}
    BY <2>1, <2>4 DEF Checked, Writer
  <2> QED
    BY <2>2, <2>3, <2>4
<1> QED
  BY <1>5, <1>6

LEMMA LinkStep ==
    ASSUME FlowInv, LinkInv, NEW r \in Requests, RequestStep(r)
    PROVE  LinkInv'
<1>1. Others(r) /\ Running(r) /\ UNCHANGED load
  BY Moves
<1> SUFFICES ASSUME Separate
             PROVE  (\A x \in mappings' : Known(x)') /\ (\A q \in Requests : Checked(q)')
  BY <1>1 DEF LinkInv, Separate
<1>2. \A q \in Requests : Checked(q)
  BY DEF LinkInv
<1>3. \A q \in Requests : /\ Writer(q) => Running(q)
                          /\ at[q] \in {"drop", "remove"} => Running(q) /\ Deleter(q)
  BY DEF FlowInv, InPlace, Running, Writer, Deleter
<1>4. CASE Writer(r)
  <2>1. \A x \in mappings' : Known(x)'
    <3>1. \A x \in Held(r) \cup mappings :
              Known(x) /\ x \in Mapping /\ x.model \in Models /\ x.provider \in Providers
      BY <1>2, <1>4 DEF LinkInv, Checked, Held, FlowInv, Inv, LocalsOK, StoresOK, MappingsOK, Mapping
    <3>2. \A y \in Held(r) : Demoted(y).model = y.model /\ Demoted(y).provider = y.provider
      BY <3>1 DEF Demoted, Mapping
    <3>3. \A x \in mappings' : \E y \in Held(r) \cup mappings : x.model = y.model /\ x.provider = y.provider
      BY <3>2, MappingsAfter DEF Held
    <3> QED
      BY <1>4, <3>1, <3>3, CheckedByWriter DEF Known
  <2>2. ASSUME NEW q \in Requests, q # r PROVE Checked(q)'
    <3>1. ~Deleter(q) \/ ~Running(q)
      BY <1>1, <1>4, <2>2, ApartBy
    <3>2. at'[q] \notin {"drop", "remove"}
      BY <1>1, <1>3, <2>2, <3>1 DEF Others
    <3>3. /\ at'[q] = at[q] /\ req'[q] = req[q] /\ found'[q] = found[q] /\ copy'[q] = copy[q]
      BY <1>1, <2>2 DEF Others
    <3>4. /\ Writer(q) => req[q].model \in Models /\ req[q].provider \in Providers
          /\ \A x \in found[q] \cup copy[q] : x.model \in Models /\ x.provider \in Providers
      <4>1. found[q] \cup copy[q] \subseteq Mapping
        BY DEF FlowInv, Inv, LocalsOK
      <4>2. Writer(q) => req[q].model \in Models /\ req[q].provider \in Providers
        BY <1>3, CallArguments DEF Writer, FlowInv, Inv
      <4> QED
        BY <4>1, <4>2 DEF Mapping
    <3> QED
      BY <1>2, <1>4, <3>2, <3>3, <3>4, CheckedByWriter DEF Checked, Known, Writer
  <2> QED
    BY <1>4, <2>1, <2>2, CheckedByWriter
<1>5. CASE ~Writer(r)
  <2>1. mappings' \subseteq mappings /\ (\A x \in mappings' : Known(x)') /\ Checked(r)'
    BY <1>5, CheckedByDeleter
  <2>2. ASSUME NEW q \in Requests, q # r PROVE Checked(q)'
    <3>1. /\ at'[q] = at[q] /\ req'[q] = req[q] /\ found'[q] = found[q] /\ copy'[q] = copy[q]
      BY <1>1, <2>2 DEF Others
    <3>2. at'[q] = "drop" => Of(req[q].model)' \subseteq found'[q]
      BY <1>2, <2>1, <3>1 DEF Checked, Of
    <3>3. at'[q] = "remove" => ~Mapped(req[q].provider)'
      BY <1>2, <2>1, <3>1 DEF Checked, Mapped
    <3>4. CASE Writer(q)
      <4>1. ~DropModel(r) /\ ~RemoveProvider(r)
        <5>1. ~Deleter(r)
          BY <1>1, <1>3, <2>2, <3>4, ApartBy
        <5> QED
          BY <5>1 DEF DropModel, RemoveProvider, FlowInv, InPlace, Deleter
      <4>2. /\ \A m \in Models : ModelKnown(m) => ModelKnown(m)'
            /\ \A p \in Providers : ProviderKnown(p) => ProviderKnown(p)'
        BY <4>1, Stays
      <4>3. /\ req[q].model \in Models /\ req[q].provider \in Providers
            /\ \A x \in found[q] \cup copy[q] : x.model \in Models /\ x.provider \in Providers
        <5>1. found[q] \cup copy[q] \subseteq Mapping
          BY DEF FlowInv, Inv, LocalsOK
        <5>2. req[q].model \in Models /\ req[q].provider \in Providers
          BY <1>3, <3>4, CallArguments DEF Writer, FlowInv, Inv
        <5> QED
          BY <5>1, <5>2 DEF Mapping
      <4> QED
        BY <1>2, <3>1, <3>2, <3>3, <4>2, <4>3 DEF Checked, Known, Writer
    <3>5. CASE ~Writer(q)
      BY <3>1, <3>2, <3>3, <3>5 DEF Checked, Writer
    <3> QED
      BY <3>4, <3>5
  <2> QED
    BY <2>1, <2>2
<1> QED
  BY <1>4, <1>5

\* New documents break no link.
LEMMA CreateLinks ==
    ASSUME FlowInv, LinkInv, UNCHANGED <<mappings, at, req, found, copy, load>>,
           \A m \in Models : ModelKnown(m) => ModelKnown(m)',
           \A p \in Providers : ProviderKnown(p) => ProviderKnown(p)'
    PROVE  LinkInv'
<1>1. \A q \in Requests : Writer(q) => req[q].model \in Models /\ req[q].provider \in Providers
  BY CallArguments DEF Writer, FlowInv, Inv, InPlace, Running
<1>2. mappings \subseteq Mapping /\ \A q \in Requests : found[q] \cup copy[q] \subseteq Mapping
  BY DEF FlowInv, Inv, LocalsOK, StoresOK, MappingsOK
<1>3. \A x \in Mapping : Known(x) => Known(x)'
  BY DEF Mapping, Known
<1>4. \A q \in Requests : Checked(q) => Checked(q)'
  <2> SUFFICES ASSUME NEW q \in Requests, Checked(q) PROVE Checked(q)'
    OBVIOUS
  <2> QED
    BY <1>1, <1>2, <1>3 DEF Checked, Writer, Of, Mapped
<1> QED
  BY <1>2, <1>3, <1>4 DEF LinkInv, Separate

LEMMA LinkNext ==
    ASSUME FlowInv, LinkInv, [Next]_vars
    PROVE  LinkInv'
<1>1. ASSUME NEW r \in Requests, NEW c \in Calls, Begin(r, c) PROVE LinkInv'
  <2>1. UNCHANGED <<models, providers, mappings, load, found, copy>> /\ ~Running(r)
    BY <1>1 DEF Begin, KeepStores
  <2>2. /\ at'[r] = IF req'[r].op \in {"updateProvider", "removeProvider"}
                    THEN "provider" ELSE "model"
        /\ \A q \in Requests : q # r => at'[q] = at[q] /\ req'[q] = req[q]
    BY <1>1 DEF Begin, Goto, FlowInv, Inv, LocalsOK
  <2>3. found[r] = {} /\ copy[r] = {}
    BY <2>1 DEF FlowInv, Inv, LocalsOK, InPlace, Running
  <2> QED
    BY <2>1, <2>2, <2>3 DEF LinkInv, Separate, Checked, Known, ModelKnown, ProviderKnown, Writer, Of, Mapped
<1>2. ASSUME NEW m \in Models, CreateModel(m) PROVE LinkInv'
  <2>1. models' = [models EXCEPT ![m] = "active"]
        /\ UNCHANGED <<providers, mappings, at, req, found, copy, load>>
    BY <1>2 DEF CreateModel
  <2>2. \A n \in Models : ModelKnown(n) => ModelKnown(n)'
    BY <2>1 DEF ModelKnown, Exists, FlowInv, Inv, StoresOK
  <2> QED
    BY <2>1, <2>2, CreateLinks DEF ProviderKnown
<1>3. ASSUME NEW p \in Providers, CreateProvider(p) PROVE LinkInv'
  <2>1. providers' = [providers EXCEPT ![p].status = "active"]
        /\ UNCHANGED <<models, mappings, at, req, found, copy, load>>
    BY <1>3 DEF CreateProvider
  <2>2. \A q \in Providers : ProviderKnown(q) => ProviderKnown(q)'
    BY <2>1 DEF ProviderKnown, Exists, FlowInv, Inv, StoresOK
  <2> QED
    BY <2>1, <2>2, CreateLinks DEF ModelKnown
<1>4. CASE UNCHANGED vars
  BY <1>4, CreateLinks DEF vars, ModelKnown, ProviderKnown
<1> QED
  BY <1>1, <1>2, <1>3, <1>4, LinkStep DEF Next, RequestStep

\* As long as no mapping is written while a model or a provider is being deleted, every mapping
\* refers to a model and a provider that exist, wherever a deletion stops.
THEOREM NoDanglingHolds == Spec => []NoDangling
<1>1. Init => FlowInv /\ LinkInv
  <2> SUFFICES ASSUME Init PROVE FlowInv /\ LinkInv
    OBVIOUS
  <2>1. /\ mappings = {}
        /\ \A r \in Requests : at[r] = "idle" /\ req[r] = NoCall
    BY DEF Init
  <2> QED
    BY <2>1, FlowInit DEF LinkInv, Checked, Writer, NoCall
<1>2. FlowInv /\ LinkInv /\ [Next]_vars => (FlowInv /\ LinkInv)'
  BY FlowNext, LinkNext
<1>3. LinkInv => NoDangling
  BY DEF LinkInv, Separate, NoDangling, Known, ModelKnown, ProviderKnown
<1> QED
  BY <1>1, <1>2, <1>3, PTL DEF Spec

-----------------------------------------------------------------------------
(* A model that is served stays served.                                    *)

\* Every document of a mapping, stored or held.
Docs == mappings \cup UNION {Held(r) : r \in Requests}

\* An id stays with the model it was given to, and what a bind will write back is a mapping
\* it found preferred or one that is as active as it was asked to be.
DocsInv ==
    /\ \A x, y \in Docs : x.id <= clock /\ (x.id = y.id => x.model = y.model)
    /\ \A r \in Requests : req[r].op = "bind" =>
            /\ \A x \in found[r] : x.preferred
            /\ \A x \in copy[r] : x.active = req[r].active

LEMMA DocsTyped ==
    ASSUME Inv
    PROVE  /\ Docs \subseteq Mapping /\ clock \in Nat
           /\ \A x \in Docs : x.id \in Nat
BY DEF Inv, LocalsOK, StoresOK, MappingsOK, Docs, Held, Mapping

\* A step adds documents of mappings there are, or the one document of a new mapping.
LEMMA DocsAfter ==
    ASSUME FlowInv, NEW r \in Requests, RequestStep(r), NEW x \in Docs'
    PROVE  \/ \E y \in Docs : x.id = y.id /\ x.model = y.model
           \/ x.id = clock + 1 /\ clock' = clock + 1 /\ x.model = req[r].model
<1>1. ASSUME NEW q \in Requests, q # r, x \in Held(q)' PROVE x \in Docs
  BY <1>1, Moves DEF Others, Held, Docs
<1>2. CASE x \in Held(r)'
  BY <1>2, HeldAfter DEF SameLink, NewLink, Docs
<1>3. CASE x \in mappings' /\ x \notin mappings
  <2>1. x \in copy[r] \/ \E y \in found[r] : x = Demoted(y)
    BY <1>3, MappingsAfter
  <2>2. \A y \in found[r] : Demoted(y).id = y.id /\ Demoted(y).model = y.model
    BY DEF Demoted, FlowInv, Inv, LocalsOK, Mapping
  <2> QED
    BY <2>1, <2>2 DEF Docs, Held
<1>4. CASE x \in mappings
  BY <1>4 DEF Docs
<1> QED
  BY <1>1, <1>2, <1>3, <1>4 DEF Docs

LEMMA IdsKept ==
    ASSUME FlowInv, DocsInv, NEW r \in Requests, RequestStep(r)
    PROVE  \A x, y \in Docs' : x.id <= clock' /\ (x.id = y.id => x.model = y.model)
<1>1. clock \in Nat /\ (\A x \in Docs : x.id \in Nat) /\ (clock' = clock \/ clock' = clock + 1)
  BY DocsTyped, HeldAfter DEF FlowInv
<1>2. \A x, y \in Docs : x.id <= clock /\ (x.id = y.id => x.model = y.model)
  BY DEF DocsInv
<1>3. ASSUME NEW x \in Docs', NEW y \in Docs'
      PROVE  x.id <= clock' /\ (x.id = y.id => x.model = y.model)
  <2>1. \/ \E z \in Docs : x.id = z.id /\ x.model = z.model
        \/ x.id = clock + 1 /\ clock' = clock + 1 /\ x.model = req[r].model
    BY DocsAfter
  <2>2. \/ \E z \in Docs : y.id = z.id /\ y.model = z.model
        \/ y.id = clock + 1 /\ clock' = clock + 1 /\ y.model = req[r].model
    BY DocsAfter
  <2> QED
    BY ONLY <1>1, <1>2, <2>1, <2>2
<1> QED
  BY <1>3

LEMMA BindSteps ==
    ASSUME FlowInv, NEW r \in Requests, RequestStep(r), req[r].op = "bind"
    PROVE  GetModel(r) \/ BindStep(r) \/ Abort(r)
<1>1. at[r] \in {"idle", "model", "provider", "mapping", "others", "save"}
  BY DEF FlowInv, Inv, LocalsOK, InPlace, Place
<1>2. ~SaveModel(r) /\ ~ListMappings(r) /\ ~DropMapping(r) /\ ~DropModel(r)
  BY <1>1 DEF SaveModel, ListMappings, DropMapping, DropModel
<1>3. ~UnbindStep(r) /\ ~ProviderStep(r)
  BY <1>1 DEF UnbindStep, FindToUnbind, DeleteMapping, FindNext, Promote,
              ProviderStep, ReadProvider, SaveProvider, CountMappings, RemoveProvider
<1>4. ~ChatStep(r)
  BY <1>1 DEF ChatStep, FindChatModel, FindChatMapping, FindChatProvider, IncrementUsage, NoUsage
<1> QED
  BY <1>2, <1>3, <1>4 DEF RequestStep, ModelStep

LEMMA BindsKept ==
    ASSUME FlowInv, DocsInv, NEW r \in Requests, RequestStep(r)
    PROVE  \A q \in Requests : req'[q].op = "bind" =>
              /\ \A x \in found'[q] : x.preferred
              /\ \A x \in copy'[q] : x.active = req'[q].active
<1>1. Others(r) /\ (Gone(r) \/ req'[r] = req[r])
  BY Moves
<1>2. ASSUME NEW q \in Requests, q # r, req'[q].op = "bind"
      PROVE  /\ \A x \in found'[q] : x.preferred
             /\ \A x \in copy'[q] : x.active = req'[q].active
  BY <1>1, <1>2 DEF Others, DocsInv
<1>3. ASSUME req'[r].op = "bind"
      PROVE  /\ \A x \in found'[r] : x.preferred
             /\ \A x \in copy'[r] : x.active = req'[r].active
  <2>1. ~Gone(r) /\ ~Finish(r) /\ req'[r] = req[r] /\ req[r].op = "bind"
    BY <1>1, <1>3, FinishIsGone DEF Gone, NoCall, FlowInv, Inv
  <2>2. /\ \A x \in found[r] : x.preferred
        /\ \A x \in copy[r] : x.active = req[r].active
    BY <2>1 DEF DocsInv
  <2>3. GetModel(r) \/ BindStep(r)
    BY <2>1, BindSteps DEF Abort, Fail
  <2>4. CASE GetModel(r) \/ FindProvider(r)
    BY <2>1, <2>2, <2>4 DEF GetModel, FindProvider, Fail, KeepLocals
  <2>5. CASE FindToBind(r)
    <3>1. UNCHANGED found
      BY <2>5 DEF FindToBind
    <3>2. \E y : y.active = req[r].active /\ copy' = [copy EXCEPT ![r] = {y}]
      BY <2>5 DEF FindToBind
    <3> QED
      BY <2>1, <2>2, <3>1, <3>2 DEF FlowInv, Inv, LocalsOK
  <2>6. CASE FindOthers(r)
    BY <2>1, <2>2, <2>6 DEF FindOthers, FlowInv, Inv, LocalsOK
  <2>7. CASE DemoteOther(r)
    <3>1. UNCHANGED copy /\ found'[r] \subseteq found[r]
      BY <2>1, <2>7 DEF DemoteOther, Fail, FlowInv, Inv, LocalsOK
    <3> QED
      BY <2>1, <2>2, <3>1
  <2>8. ~WriteMapping(r)
    BY <2>1 DEF WriteMapping, Fail
  <2> QED
    BY <2>3, <2>4, <2>5, <2>6, <2>7, <2>8 DEF BindStep
<1> QED
  BY <1>2, <1>3

LEMMA DocsNext ==
    ASSUME FlowInv, DocsInv, [Next]_vars
    PROVE  DocsInv'
<1>1. ASSUME NEW r \in Requests, NEW c \in Calls, Begin(r, c) PROVE DocsInv'
  <2>1. UNCHANGED <<mappings, clock, found, copy>> /\ ~Running(r)
    BY <1>1 DEF Begin, KeepStores
  <2>2. \A q \in Requests : q # r => req'[q] = req[q]
    BY <1>1 DEF Begin, FlowInv, Inv, LocalsOK
  <2>3. found[r] = {} /\ copy[r] = {}
    BY <2>1 DEF FlowInv, Inv, LocalsOK, InPlace, Running
  <2>4. Docs' = Docs
    BY <2>1 DEF Docs, Held
  <2> QED
    BY <2>1, <2>2, <2>3, <2>4 DEF DocsInv
<1>2. CASE (\E m \in Models : CreateModel(m)) \/ (\E p \in Providers : CreateProvider(p))
           \/ UNCHANGED vars
  <2>1. UNCHANGED <<mappings, clock, req, found, copy>>
    BY <1>2 DEF CreateModel, CreateProvider, vars
  <2>2. Docs' = Docs
    BY <2>1 DEF Docs, Held
  <2> QED
    BY <2>1, <2>2 DEF DocsInv
<1>3. ASSUME NEW r \in Requests, RequestStep(r) PROVE DocsInv'
  BY <1>3, IdsKept, BindsKept DEF DocsInv
<1> QED
  BY <1>1, <1>2, <1>3 DEF Next, RequestStep

\* Saving an active document takes no model its last active mapping.
LEMMA SavedServes ==
    ASSUME FlowInv, DocsInv, NEW d, d.active, NEW e \in Docs, d.id = e.id, d.model = e.model,
           mappings' = Saved(d), NEW m \in Models, ActiveOf(m) # {}
    PROVE  {x \in mappings' : x.model = m /\ x.active} # {}
<1>1. PICK z \in mappings : z.model = m /\ z.active
  BY DEF ActiveOf, Of
<1>2. z \in Docs
  BY DEF Docs
<1>3. CASE d.model = m
  BY <1>3 DEF Saved
<1>4. CASE d.model # m
  <2>1. z.id # d.id
    BY <1>1, <1>2, <1>4 DEF DocsInv
  <2> QED
    BY <1>1, <2>1 DEF Saved
<1> QED
  BY <1>3, <1>4

\* What may take the last active mapping of a model away.
MayStopServing(r) ==
    /\ <<at[r], found[r]>> # <<at'[r], found'[r]>>
    /\ \/ req[r].op \in {"unbind", "deleteModel"}
       \/ req[r].op = "bind" /\ ~req[r].active

LEMMA StepServes ==
    ASSUME FlowInv, DocsInv, NEW r \in Requests, RequestStep(r), NEW m \in Models,
           ActiveOf(m) # {}, {x \in mappings' : x.model = m /\ x.active} = {}
    PROVE  MayStopServing(r)
<1>1. mappings' # mappings
  BY DEF ActiveOf, Of
<1>2. CASE DropMapping(r)
  <2>1. req[r].op = "deleteModel" /\ found'[r] # found[r]
    BY <1>2 DEF DropMapping, FlowInv, Inv, LocalsOK, InPlace
  <2> QED
    BY <2>1 DEF MayStopServing
<1>3. CASE DeleteMapping(r)
  <2>1. req[r].op = "unbind" /\ at'[r] # at[r]
    BY <1>3 DEF DeleteMapping, Finish, Goto, FlowInv, Inv, LocalsOK, InPlace
  <2> QED
    BY <2>1 DEF MayStopServing
<1>4. CASE Promote(r)
  <2>1. req[r].op = "unbind" /\ at'[r] # at[r]
    BY <1>4 DEF Promote, Fail, Finish, Goto, FlowInv, Inv, LocalsOK, InPlace
  <2> QED
    BY <2>1 DEF MayStopServing
<1>5. CASE DemoteOther(r)
  <2>1. PICK y \in found[r] : mappings' = Saved(Demoted(y))
    BY <1>1, <1>5 DEF DemoteOther
  <2>2. y \in Mapping /\ y \in Docs /\ y.preferred /\ Sound(y)
    BY <1>5 DEF DemoteOther, FlowInv, Inv, LocalsOK, InPlace, DocsInv, Docs, Held
  <2>3. Demoted(y).active /\ Demoted(y).id = y.id /\ Demoted(y).model = y.model
    BY <2>2 DEF Demoted, Sound, Mapping
  <2> QED
    BY <2>1, <2>2, <2>3, SavedServes
<1>6. CASE WriteMapping(r)
  <2>1. PICK y \in copy[r] : mappings' = Saved(y)
    BY <1>1, <1>6 DEF WriteMapping
  <2>2. y \in Docs /\ y.active = req[r].active /\ req[r].op = "bind"
    BY <1>6 DEF WriteMapping, FlowInv, InPlace, DocsInv, Docs, Held
  <2>3. ~req[r].active
    BY <2>1, <2>2, SavedServes
  <2>4. at'[r] # at[r]
    BY <1>6 DEF WriteMapping, Fail, Finish, Goto, FlowInv, Inv, LocalsOK
  <2> QED
    BY <2>2, <2>3, <2>4 DEF MayStopServing
<1>7. CASE ~(DropMapping(r) \/ DeleteMapping(r) \/ Promote(r) \/ DemoteOther(r) \/ WriteMapping(r))
  <2>1. UNCHANGED mappings
    BY <1>7 DEF RequestStep, ModelStep, GetModel, SaveModel, ListMappings, DropModel,
         BindStep, FindProvider, FindToBind, FindOthers, UnbindStep, FindToUnbind, FindNext,
         ProviderStep, ReadProvider, SaveProvider, CountMappings, RemoveProvider,
         ChatStep, FindChatModel, FindChatMapping, FindChatProvider, IncrementUsage, NoUsage,
         Abort, KeepStores
  <2> QED
    BY <1>1, <2>1
<1> QED
  BY <1>2, <1>3, <1>4, <1>5, <1>6, <1>7

\* A model that has an active mapping keeps one through every bind that asks for an active
\* mapping, whatever overlaps it and wherever it stops.
THEOREM SwitchKeepsServingHolds == Spec => SwitchKeepsServing
<1>1. Init => FlowInv /\ DocsInv
  <2> SUFFICES ASSUME Init PROVE FlowInv /\ DocsInv
    OBVIOUS
  <2>1. /\ mappings = {}
        /\ \A r \in Requests : req[r] = NoCall /\ found[r] = {} /\ copy[r] = {}
    BY DEF Init
  <2>2. Docs = {}
    BY <2>1 DEF Docs, Held
  <2> QED
    BY <2>1, <2>2, FlowInit DEF DocsInv, NoCall
<1>2. FlowInv /\ DocsInv /\ [Next]_vars => (FlowInv /\ DocsInv)'
  BY FlowNext, DocsNext
<1>3. ASSUME FlowInv, DocsInv, [Next]_vars, NEW m \in Models,
             ActiveOf(m) # {}, {x \in mappings' : x.model = m /\ x.active} = {}
      PROVE  \E r \in Requests : MayStopServing(r)
  <2>1. mappings' # mappings
    BY <1>3 DEF ActiveOf, Of
  <2>2. \E r \in Requests : RequestStep(r)
    BY <1>3, <2>1 DEF Next, CreateModel, CreateProvider, Begin, KeepStores, RequestStep, vars
  <2> QED
    BY <1>3, <2>2, StepServes
<1>4. FlowInv /\ DocsInv /\ [Next]_vars =>
          [\A m \in Models :
              /\ ActiveOf(m) # {}
              /\ {x \in mappings' : x.model = m /\ x.active} = {}
              => \E r \in Requests :
                  /\ <<at[r], found[r]>> # <<at'[r], found'[r]>>
                  /\ \/ req[r].op \in {"unbind", "deleteModel"}
                     \/ req[r].op = "bind" /\ ~req[r].active]_vars
  BY <1>3 DEF MayStopServing
<1> QED
  BY <1>1, <1>2, <1>4, PTL DEF Spec, SwitchKeepsServing
=============================================================================
