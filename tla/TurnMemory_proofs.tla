------------------------- MODULE TurnMemory_proofs -------------------------
(***************************************************************************)
(* Proofs about TurnMemory, for any set of turns, any bounds, budgets and  *)
(* policy, and any set of faults.                                          *)
(***************************************************************************)
EXTENDS TurnMemory, Lists_proofs

-----------------------------------------------------------------------------
(* What the operators on lists of messages return.                         *)

\* A tail of a list, as LTRIM and the limited query cut it, is a list of its elements.
LEMMA NewestIsPart ==
    ASSUME NEW M, NEW s \in Seq(M), NEW n \in Nat
    PROVE  Newest(s, n) \in Seq(M) /\ ToSet(Newest(s, n)) \subseteq ToSet(s)
  BY DEF Newest, ToSet

\* The rank of a timestamp in the index is a position of the index, or 0.
LEMMA BeforeIsIndex ==
    ASSUME NEW s \in Seq(Message), NEW at \in Nat
    PROVE  Before(s, at) \in 0..Len(s)
<1>1. {i \in DOMAIN s : s[i].at <= at} \in SUBSET (1..Len(s))
  OBVIOUS
<1> QED
  BY <1>1, IndexCount, Len(s) \in Nat DEF Before

\* Inserting a document into the index adds it and nothing else.
LEMMA InsertAdds ==
    ASSUME NEW s \in Seq(Message), NEW m \in Message
    PROVE  Insert(s, m) \in Seq(Message) /\ ToSet(Insert(s, m)) = ToSet(s) \cup {m}
<1>1. Before(s, m.at) \in 0..Len(s)
  BY BeforeIsIndex DEF Message
<1>2. Before(s, m.at) + 1 \in 1..(Len(s) + 1)
  BY <1>1
<1> QED
  BY <1>2, InsertAtElements, InsertAtAdds DEF Insert

\* The limited query returns archived messages only.
LEMMA ListAfterIsPart ==
    ASSUME NEW s \in Seq(Message), NEW after \in Nat, NEW limit \in Nat
    PROVE  /\ ListAfter(s, after, limit) \in Seq(Message)
           /\ ToSet(ListAfter(s, after, limit)) \subseteq ToSet(s)
<1> DEFINE later == SubSeq(s, Before(s, after) + 1, Len(s))
<1>1. Before(s, after) \in 0..Len(s)
  BY BeforeIsIndex
<1>2. later \in Seq(Message) /\ ToSet(later) \subseteq ToSet(s)
  BY <1>1 DEF ToSet
<1> QED
  BY <1>2, NewestIsPart DEF ListAfter

\* The compression window splits the history in two.
LEMMA WindowIsPart ==
    ASSUME load \in Load, NEW h \in Seq(Message)
    PROVE  /\ Keep(h) \in Seq(Message) /\ ToSet(Keep(h)) \subseteq ToSet(h)
           /\ Candidates(h) \in Seq(Message) /\ ToSet(Candidates(h)) \subseteq ToSet(h)
<1>1. {i \in DOMAIN h : TokensFrom(h, i) > load.low} \in SUBSET (1..Len(h))
  OBVIOUS
<1>2. CandidateCount(h) \in 0..Len(h)
  BY <1>1, IndexCount, Len(h) \in Nat DEF CandidateCount
<1> QED
  BY <1>2 DEF Keep, Candidates, ToSet

-----------------------------------------------------------------------------
(* Type correctness.                                                       *)

\* The settings of a load that the lists depend on.
LEMMA LoadFields ==
    ASSUME load \in Load
    PROVE  load.legacy \in Seq(Nat) /\ load.length \in Nat /\ load.fallback \in Nat
  BY DEF Load

\* The messages archived before the model starts.
LEMMA LegacyType ==
    ASSUME NEW s \in Seq(Nat)
    PROVE  Legacy(s) \in Seq(Message)
<1>1. Len(s) \in Nat /\ \A i \in 1..Len(s) : s[i] \in Nat
  OBVIOUS
<1>2. \A i \in 1..Len(s) : [turn |-> Past, part |-> i, at |-> i, tokens |-> s[i]] \in Message
  BY <1>1 DEF Message
<1> QED
  BY <1>1, <1>2 DEF Legacy

\* The background steps registered for a turn.
LEMMA PlanType == ASSUME NEW h PROVE Plan(h) \in Seq(Task)
<1>1. \A x \in Task : <<x>> \in Seq(Task)
  OBVIOUS
<1>2. <<>> \in Seq(Task)
  OBVIOUS
<1>3. \A a, b \in Seq(Task) : a \o b \in Seq(Task)
  OBVIOUS
<1>4. {"bill", "append", "archive", "ingest", "summarize"} \subseteq Task
  BY DEF Task
<1> HIDE DEF Task
<1> QED
  BY <1>1, <1>2, <1>3, <1>4 DEF Plan

\* The initial state has the right types.
LEMMA InitType == Init => TypeOK
<1> SUFFICES ASSUME Init PROVE TypeOK
  OBVIOUS
<1>0. load \in Load /\ load.legacy \in Seq(Nat) /\ load.length \in Nat
  BY ConstantsAssumption, LoadFields DEF Init
<1>1. /\ Legacy(load.legacy) \in Seq(Message)
      /\ Newest(Legacy(load.legacy), load.length) \in Seq(Message)
  BY <1>0, LegacyType, NewestIsPart
<1>2. NoSummary \in Summary
  BY DEF NoSummary, Summary
<1>3. Len(load.legacy) \in Nat
  BY <1>0
<1>4. <<>> \in Seq(Message) /\ <<>> \in Seq(Task)
  OBVIOUS
<1>5. hot \in Seq(Message) /\ archive \in Seq(Message) /\ clock \in Nat
  BY <1>1, <1>3, <1>4 DEF Init
<1>6. /\ summary \in Summary
      /\ history \in [Turns -> Seq(Message)] /\ seen \in [Turns -> Summary]
      /\ record \in [Turns -> Seq(Message)] /\ tasks \in [Turns -> Seq(Task)]
  BY <1>2, <1>4 DEF Init
<1> QED
  BY <1>0, <1>5, <1>6 DEF Init, TypeOK, Phase

\* Every step keeps the types: one step of the proof per action.
LEMMA NextType == TypeOK /\ [Next]_vars => TypeOK'
<1> SUFFICES ASSUME TypeOK, [Next]_vars PROVE TypeOK'
  OBVIOUS
<1> USE DEF TypeOK
<1>0. /\ load' = load
      /\ load.length \in Nat /\ load.fallback \in Nat
  BY LoadFields DEF Next, vars
<1> USE <1>0
<1>1. ASSUME NEW t \in Turns, Start(t) PROVE TypeOK'
  BY <1>1 DEF Start, From, To, Phase, stores, locals
<1>2. ASSUME NEW t \in Turns, ReadHot(t) PROVE TypeOK'
  <2>1. history' \in [Turns -> Seq(Message)] /\ phase' \in [Turns -> Phase]
    BY <1>2 DEF ReadHot, To, Phase
  <2> QED
    BY <1>2, <2>1 DEF ReadHot, stores
<1>3. ASSUME NEW t \in Turns, ReadStamp(t) PROVE TypeOK'
  BY <1>3 DEF ReadStamp, From, To, Phase, stores, Summary
<1>4. ASSUME NEW t \in Turns, ListArchive(t) PROVE TypeOK'
  <2>1. ListAfter(archive, mark[t], load.fallback) \in Seq(Message)
    BY ListAfterIsPart
  <2>2. history' \in [Turns -> Seq(Message)]
    BY <1>4, <2>1 DEF ListArchive
  <2>3. phase' \in [Turns -> Phase]
    BY <1>4 DEF ListArchive, To, Phase
  <2> QED
    BY <1>4, <2>2, <2>3 DEF ListArchive, stores
<1>5. ASSUME NEW t \in Turns, Refill(t) PROVE TypeOK'
  <2>1. <<>> \in Seq(Message)
    OBVIOUS
  <2> QED
    BY <1>5, <2>1 DEF Refill, From, To, Phase
<1>6. ASSUME NEW t \in Turns, SearchMemory(t) PROVE TypeOK'
  BY <1>6 DEF SearchMemory, From, To, Phase, stores, locals
<1>7. ASSUME NEW t \in Turns, ReadSummary(t) PROVE TypeOK'
  BY <1>7 DEF ReadSummary, From, To, Phase, stores
<1>8. ASSUME NEW t \in Turns, ResolveTools(t) PROVE TypeOK'
  <2>1. clock + 1 \in Nat /\ <<NewMessage(t, 1, clock + 1)>> \in Seq(Message)
    BY DEF NewMessage, Message
  <2>2. clock' \in Nat /\ record' \in [Turns -> Seq(Message)]
    BY <1>8, <2>1 DEF ResolveTools, stores
  <2>3. phase' \in [Turns -> Phase]
    BY <1>8 DEF ResolveTools, To, Phase
  <2> QED
    BY <1>8, <2>2, <2>3 DEF ResolveTools, stores
<1>9. ASSUME NEW t \in Turns, Answer(t) PROVE TypeOK'
  <2>1. clock + 1 \in Nat /\ Len(record[t]) + 1 \in Nat
    OBVIOUS
  <2>2. NewMessage(t, Len(record[t]) + 1, clock + 1) \in Message
    BY <2>1 DEF NewMessage, Message
  <2>3. Append(record[t], NewMessage(t, Len(record[t]) + 1, clock + 1)) \in Seq(Message)
    BY <2>2
  <2> QED
    BY <1>9, <2>1, <2>3 DEF Answer, From, stores
<1>10. ASSUME NEW t \in Turns, FinishRun(t) PROVE TypeOK'
  BY <1>10, PlanType DEF FinishRun, From, To, Phase, stores
<1>11. ASSUME NEW t \in Turns, FailRun(t) PROVE TypeOK'
  BY <1>11 DEF FailRun, From, To, Phase, stores, locals
<1>12. ASSUME NEW t \in Turns, Background(t) PROVE TypeOK'
  <2>1. /\ <<>> \in Seq(Task)
        /\ tasks[t] # <<>> => Tail(tasks[t]) \in Seq(Task)
    OBVIOUS
  <2>2. Pop(t) /\ tasks[t] # <<>> => tasks' \in [Turns -> Seq(Task)]
    BY <2>1 DEF Pop
  <2>3. CASE Bill(t)
    BY <2>1, <2>2, <2>3 DEF Bill, Doing
  <2>4. CASE AppendHot(t)
    <3>1. hot \o record[t] \in Seq(Message)
      OBVIOUS
    <3>2. Newest(hot \o record[t], load.length) \in Seq(Message)
      BY <3>1, NewestIsPart
    <3> QED
      BY <2>2, <2>4, <3>2 DEF AppendHot, Doing
  <2>5. CASE Archive(t)
    <3>1. \A i \in DOMAIN record[t] : Insert(archive, record[t][i]) \in Seq(Message)
      BY InsertAdds
    <3> QED
      BY <2>2, <2>5, <3>1 DEF Archive, Doing
  <2>6. CASE Ingest(t)
    BY <2>2, <2>6 DEF Ingest, Doing
  <2>7. CASE Summarize(t)
    <3>1. <<"saveSummary", "reload">> \in Seq(Task)
      BY DEF Task
    <3>2. CASE clock' = clock + 1 /\ mark' = [mark EXCEPT ![t] = clock']
               /\ tasks' = [tasks EXCEPT ![t] = <<"saveSummary", "reload">>]
      <4>1. clock' \in Nat /\ mark' \in [Turns -> Nat] /\ tasks' \in [Turns -> Seq(Task)]
        BY <3>1, <3>2
      <4> QED
        BY <2>7, <4>1 DEF Summarize, stores
    <3>3. CASE Pop(t) /\ UNCHANGED <<clock, mark>>
      <4>1. clock' \in Nat /\ mark' \in [Turns -> Nat] /\ tasks' \in [Turns -> Seq(Task)]
        BY <2>2, <2>7, <3>3 DEF Summarize, Doing
      <4> QED
        BY <2>7, <4>1 DEF Summarize, stores
    <3> QED
      BY <2>7, <3>2, <3>3 DEF Summarize
  <2>8. CASE SaveSummary(t)
    <3>1. ToSet(Candidates(history[t])) \subseteq Message
      BY WindowIsPart DEF ToSet
    <3>2. [covers |-> seen[t].covers \cup ToSet(Candidates(history[t])), stamp |-> mark[t]]
             \in Summary
      BY <3>1 DEF Summary
    <3> QED
      BY <2>2, <2>8, <3>2 DEF SaveSummary, Doing
  <2>9. CASE Reload(t)
    <3>1. Keep(history[t]) \o record[t] \in Seq(Message)
      BY WindowIsPart
    <3> QED
      BY <2>2, <2>9, <3>1 DEF Reload, Doing
  <2> QED
    BY <1>12, <2>3, <2>4, <2>5, <2>6, <2>7, <2>8, <2>9 DEF Background
<1>13. ASSUME Expire PROVE TypeOK'
  BY <1>13 DEF Expire, locals
<1>14. ASSUME Crash PROVE TypeOK'
  <2>1. <<>> \in Seq(Task)
    OBVIOUS
  <2> QED
    BY <1>14, <2>1 DEF Crash, Phase, stores
<1>15. CASE UNCHANGED vars
  BY <1>15 DEF vars
<1> QED
  BY <1>1, <1>2, <1>3, <1>4, <1>5, <1>6, <1>7, <1>8, <1>9, <1>10, <1>11, <1>12, <1>13,
     <1>14, <1>15 DEF Next, Step, LoadContext

\* Every state of every behaviour is well typed.
THEOREM TypeCorrect == Spec => []TypeOK
  BY InitType, NextType, PTL DEF Spec

-----------------------------------------------------------------------------
(* The invariant behind ShownByAppend and BilledBeforeKept.  Neither is     *)
(* inductive alone: that a step exposes only messages of its own turn rests *)
(* on OwnRecord, and that it comes after billing and append on ChainOrder.  *)

\* A turn records messages of its own.
OwnRecord == \A t \in Turns : \A m \in ToSet(record[t]) : m.turn = t

\* In what is left of a chain, billing comes first if at all and append comes first
\* but for billing; and a chain goes on past billing only when that has succeeded.
ChainOrder ==
    \A t \in Turns :
        /\ \A i \in DOMAIN tasks[t] :
              /\ tasks[t][i] = "bill" => i = 1
              /\ tasks[t][i] = "append" => i = 1 \/ (i = 2 /\ tasks[t][1] = "bill")
        /\ tasks[t] # <<>> /\ tasks[t][1] # "bill" => ledger[t] # "open"

IInv == TypeOK /\ OwnRecord /\ ChainOrder /\ ShownByAppend /\ BilledBeforeKept

\* To bound what is exposed after a step it is enough to bound each of its parts.
LEMMA ExposedBound ==
    ASSUME NEW X,
           ToSet(hot') \subseteq X, ToSet(archive') \subseteq X, summary'.covers \subseteq X,
           \A u \in Turns : ToSet(history'[u]) \subseteq X /\ seen'[u].covers \subseteq X
    PROVE  Exposed' \subseteq X
  BY DEF Exposed

\* The parts of what is exposed.
LEMMA ExposedParts ==
    /\ ToSet(hot) \subseteq Exposed /\ ToSet(archive) \subseteq Exposed
    /\ summary.covers \subseteq Exposed
    /\ \A u \in Turns : ToSet(history[u]) \subseteq Exposed /\ seen[u].covers \subseteq Exposed
  BY DEF Exposed

\* Loading a context moves messages around and exposes no other: whatever a turn reads
\* or writes back was readable before.
LEMMA LoadExposes ==
    ASSUME TypeOK, NEW t \in Turns, LoadContext(t)
    PROVE  Exposed' \subseteq Exposed
<1> USE ExposedParts, ExposedBound
<1>1. CASE ReadHot(t)
  BY <1>1 DEF ReadHot, stores, TypeOK
<1>2. CASE ReadStamp(t)
  BY <1>2 DEF ReadStamp, stores
<1>3. CASE ListArchive(t)
  <2>1. ToSet(ListAfter(archive, mark[t], load.fallback)) \subseteq ToSet(archive)
    BY ListAfterIsPart, LoadFields DEF TypeOK
  <2> QED
    BY <1>3, <2>1 DEF ListArchive, stores, TypeOK
<1>4. CASE Refill(t)
  <2>1. ToSet(<<>>) = {}
    BY DEF ToSet
  <2> QED
    BY <1>4, <2>1 DEF Refill, TypeOK
<1>5. CASE SearchMemory(t)
  BY <1>5 DEF SearchMemory, stores, locals
<1>6. CASE ReadSummary(t)
  BY <1>6 DEF ReadSummary, stores, TypeOK
<1>7. CASE ResolveTools(t)
  BY <1>7 DEF ResolveTools, stores
<1> QED
  BY <1>1, <1>2, <1>3, <1>4, <1>5, <1>6, <1>7 DEF LoadContext

\* The elements of a concatenation.
LEMMA ConcatElements ==
    ASSUME NEW M, NEW a \in Seq(M), NEW b \in Seq(M)
    PROVE  a \o b \in Seq(M) /\ ToSet(a \o b) = ToSet(a) \cup ToSet(b)
<1> DEFINE c == a \o b
<1>1. /\ c \in Seq(M) /\ Len(c) = Len(a) + Len(b)
      /\ \A i \in 1..(Len(a) + Len(b)) : c[i] = IF i <= Len(a) THEN a[i] ELSE b[i - Len(a)]
  BY ConcatProperties
<1> HIDE DEF c
<1>2. /\ Len(a) \in Nat /\ Len(b) \in Nat
      /\ DOMAIN a = 1..Len(a) /\ DOMAIN b = 1..Len(b) /\ DOMAIN c = 1..(Len(a) + Len(b))
  BY <1>1
<1>3. ASSUME NEW i \in 1..(Len(a) + Len(b))
      PROVE  c[i] \in ToSet(a) \cup ToSet(b)
  <2>1. CASE i <= Len(a)
    <3>1. i \in 1..Len(a) /\ c[i] = a[i]
      BY <1>1, <1>2, <2>1
    <3> QED
      BY <1>2, <3>1 DEF ToSet
  <2>2. CASE i > Len(a)
    <3>1. i - Len(a) \in 1..Len(b) /\ c[i] = b[i - Len(a)]
      BY <1>1, <1>2, <2>2
    <3> QED
      BY <1>2, <3>1 DEF ToSet
  <2>3. i <= Len(a) \/ i > Len(a)
    BY <1>2
  <2> QED
    BY <2>1, <2>2, <2>3
<1>4. ASSUME NEW i \in 1..Len(a) PROVE a[i] \in ToSet(c)
  <2>1. i \in DOMAIN c /\ c[i] = a[i]
    BY <1>1, <1>2
  <2> QED
    BY <2>1 DEF ToSet
<1>5. ASSUME NEW i \in 1..Len(b) PROVE b[i] \in ToSet(c)
  <2>1. Len(a) + i \in DOMAIN c /\ ~(Len(a) + i <= Len(a)) /\ (Len(a) + i) - Len(a) = i
    BY <1>2
  <2>2. c[Len(a) + i] = b[i]
    BY <1>1, <1>2, <2>1
  <2> QED
    BY <2>1, <2>2 DEF ToSet
<1>6. ToSet(c) = ToSet(a) \cup ToSet(b)
  BY <1>2, <1>3, <1>4, <1>5 DEF ToSet
<1> QED
  BY <1>1, <1>6 DEF c

\* A background step exposes at most the record of its own turn, and only when it is
\* one of the three steps that write messages.
LEMMA BackgroundExposes ==
    ASSUME TypeOK, NEW t \in Turns, Background(t)
    PROVE  \/ Exposed' \subseteq Exposed
           \/ /\ AppendHot(t) \/ Archive(t) \/ Reload(t)
              /\ Exposed' \subseteq Exposed \cup ToSet(record[t])
<1> USE ExposedParts
<1> DEFINE X == Exposed \cup ToSet(record[t])
<1>1. CASE Bill(t)
  BY <1>1, ExposedBound DEF Bill
<1>2. CASE AppendHot(t)
  <2>1. /\ hot \o record[t] \in Seq(Message)
        /\ ToSet(hot \o record[t]) = ToSet(hot) \cup ToSet(record[t])
    BY ConcatElements DEF TypeOK
  <2>2. ToSet(Newest(hot \o record[t], load.length)) \subseteq X
    BY <2>1, NewestIsPart, LoadFields DEF TypeOK
  <2>3. ToSet(hot') \subseteq X
    BY <1>2, <2>2 DEF AppendHot
  <2>4. Exposed' \subseteq X
    BY <1>2, <2>3, ExposedBound DEF AppendHot
  <2> QED
    BY <1>2, <2>4
<1>3. CASE Archive(t)
  <2>1. \A i \in DOMAIN record[t] :
           ToSet(Insert(archive, record[t][i])) = ToSet(archive) \cup {record[t][i]}
    BY InsertAdds DEF TypeOK
  <2>2. \A i \in DOMAIN record[t] : record[t][i] \in ToSet(record[t])
    BY DEF ToSet, TypeOK
  <2>3. \/ \E i \in DOMAIN record[t] : archive' = Insert(archive, record[t][i])
        \/ archive' = archive
    BY <1>3 DEF Archive
  <2>4. ToSet(archive') \subseteq X
    BY <2>1, <2>2, <2>3
  <2>5. UNCHANGED <<hot, summary, history, seen>>
    BY <1>3 DEF Archive
  <2>6. Exposed' \subseteq X
    BY <2>4, <2>5, ExposedBound
  <2> QED
    BY <1>3, <2>6
<1>4. CASE Ingest(t)
  BY <1>4, ExposedBound DEF Ingest
<1>5. CASE Summarize(t)
  BY <1>5, ExposedBound DEF Summarize, stores
<1>6. CASE SaveSummary(t)
  <2>1. ToSet(Candidates(history[t])) \subseteq Exposed
    BY WindowIsPart DEF TypeOK
  <2>2. summary'.covers \subseteq Exposed
    BY <1>6, <2>1 DEF SaveSummary
  <2> QED
    BY <1>6, <2>2, ExposedBound DEF SaveSummary
<1>7. CASE Reload(t)
  <2>1. Keep(history[t]) \in Seq(Message) /\ ToSet(Keep(history[t])) \subseteq Exposed
    BY WindowIsPart DEF TypeOK
  <2>2. ToSet(Keep(history[t]) \o record[t]) \subseteq X
    BY <2>1, ConcatElements DEF TypeOK
  <2>3. ToSet(hot') \subseteq X
    BY <1>7, <2>2 DEF Reload
  <2>4. Exposed' \subseteq X
    BY <1>7, <2>3, ExposedBound DEF Reload
  <2> QED
    BY <1>7, <2>4
<1> QED
  BY <1>1, <1>2, <1>3, <1>4, <1>5, <1>6, <1>7 DEF Background

\* Every other step exposes nothing.
LEMMA OtherExposes ==
    ASSUME TypeOK, NEW t \in Turns,
           \/ Start(t) \/ Answer(t) \/ FinishRun(t) \/ FailRun(t)
           \/ Expire \/ Crash \/ UNCHANGED vars
    PROVE  Exposed' \subseteq Exposed
<1> USE ExposedParts, ExposedBound
<1>1. CASE Start(t)
  BY <1>1 DEF Start, stores, locals
<1>2. CASE Answer(t)
  BY <1>2 DEF Answer, stores
<1>3. CASE FinishRun(t)
  BY <1>3 DEF FinishRun, stores
<1>4. CASE FailRun(t)
  BY <1>4 DEF FailRun, stores, locals
<1>5. CASE Expire
  <2>1. ToSet(<<>>) = {}
    BY DEF ToSet
  <2> QED
    BY <1>5, <2>1 DEF Expire, locals
<1>6. CASE Crash
  BY <1>6 DEF Crash, stores
<1>7. CASE UNCHANGED vars
  BY <1>7 DEF vars
<1> QED
  BY <1>1, <1>2, <1>3, <1>4, <1>5, <1>6, <1>7

-----------------------------------------------------------------------------
(* What a step does to the chains.                                         *)

\* A background step of a turn moves along the chain of that turn: it goes on to the next
\* step, stays, gives the rest up, or goes on to the two steps after summarize.
LEMMA BackgroundChain ==
    ASSUME TypeOK, NEW t \in Turns, Background(t)
    PROVE  /\ phase[t] = "background" /\ phase' = phase /\ record' = record
           /\ tasks[t] # <<>>
           /\ \A u \in Turns \ {t} : tasks'[u] = tasks[u]
           /\ \/ tasks'[t] = Tail(tasks[t])
              \/ tasks'[t] = tasks[t]
              \/ tasks'[t] = <<>>
              \/ tasks'[t] = <<"saveSummary", "reload">> /\ Head(tasks[t]) = "summarize"
           /\ AppendHot(t) \/ Reload(t) => tasks'[t] = Tail(tasks[t])
<1> USE DEF TypeOK, Doing, From, Pop
<1>1. CASE Bill(t)
  BY <1>1 DEF Bill, AppendHot, Reload
<1>2. CASE AppendHot(t)
  BY <1>2 DEF AppendHot
<1>3. CASE Archive(t)
  BY <1>3 DEF Archive, AppendHot, Reload
<1>4. CASE Ingest(t)
  BY <1>4 DEF Ingest, AppendHot, Reload
<1>5. CASE Summarize(t)
  BY <1>5 DEF Summarize, AppendHot, Reload
<1>6. CASE SaveSummary(t)
  BY <1>6 DEF SaveSummary, AppendHot, Reload
<1>7. CASE Reload(t)
  BY <1>7 DEF Reload
<1> QED
  BY <1>1, <1>2, <1>3, <1>4, <1>5, <1>6, <1>7 DEF Background

\* What billing and long-term memory know of the turns changes in the steps bill and
\* ingest only; once billed a turn stays billed.
LEMMA BackgroundLedger ==
    ASSUME TypeOK, NEW t \in Turns, Background(t)
    PROVE  /\ ledger' \in [Turns -> {"open", "free", "charged"}]
           /\ \A u \in Turns : ledger[u] # "open" => ledger'[u] # "open"
           /\ \A u \in Turns \ {t} : ledger'[u] = ledger[u]
           /\ Bill(t) => Head(tasks[t]) = "bill" /\ (ledger'[t] # "open" \/ tasks'[t] = <<>>)
           /\ ~Bill(t) => Head(tasks[t]) # "bill" /\ ledger' = ledger
           /\ \/ memories' = memories
              \/ Ingest(t) /\ memories' = memories \cup {t}
<1> USE DEF TypeOK, Doing, Pop
<1>1. CASE Bill(t)
  BY <1>1 DEF Bill
<1>2. CASE AppendHot(t)
  BY <1>2 DEF AppendHot, Bill
<1>3. CASE Archive(t)
  BY <1>3 DEF Archive, Bill
<1>4. CASE Ingest(t)
  BY <1>4 DEF Ingest, Bill
<1>5. CASE Summarize(t)
  BY <1>5 DEF Summarize, stores, Bill
<1>6. CASE SaveSummary(t)
  BY <1>6 DEF SaveSummary, Bill
<1>7. CASE Reload(t)
  BY <1>7 DEF Reload, Bill
<1> QED
  BY <1>1, <1>2, <1>3, <1>4, <1>5, <1>6, <1>7 DEF Background

\* Until a turn ends, its steps leave every chain and the bookkeeping alone.
LEMMA ForegroundChain ==
    ASSUME TypeOK, NEW t \in Turns,
           Start(t) \/ LoadContext(t) \/ Answer(t) \/ FailRun(t) \/ Expire \/ UNCHANGED vars
    PROVE  /\ UNCHANGED <<tasks, ledger, memories>>
           /\ \A u \in Turns : phase'[u] = "background" <=> phase[u] = "background"
<1> USE DEF TypeOK, From, To, stores, locals
<1>1. CASE Start(t)
  BY <1>1 DEF Start
<1>2. CASE LoadContext(t)
  <2>1. CASE ReadHot(t)
    BY <2>1 DEF ReadHot
  <2>2. CASE ReadStamp(t)
    BY <2>2 DEF ReadStamp
  <2>3. CASE ListArchive(t)
    BY <2>3 DEF ListArchive
  <2>4. CASE Refill(t)
    BY <2>4 DEF Refill
  <2>5. CASE SearchMemory(t)
    BY <2>5 DEF SearchMemory
  <2>6. CASE ReadSummary(t)
    BY <2>6 DEF ReadSummary
  <2>7. CASE ResolveTools(t)
    BY <2>7 DEF ResolveTools
  <2> QED
    BY <1>2, <2>1, <2>2, <2>3, <2>4, <2>5, <2>6, <2>7 DEF LoadContext
<1>3. CASE Answer(t)
  BY <1>3 DEF Answer
<1>4. CASE FailRun(t)
  BY <1>4 DEF FailRun
<1>5. CASE Expire
  BY <1>5 DEF Expire
<1>6. CASE UNCHANGED vars
  BY <1>6 DEF vars
<1> QED
  BY <1>1, <1>2, <1>3, <1>4, <1>5, <1>6

\* The chain registered for a turn starts with billing, then append.
LEMMA PlanOrder ==
    ASSUME NEW h, NEW i \in DOMAIN Plan(h)
    PROVE  /\ Plan(h) # <<>> /\ Plan(h)[1] = "bill"
           /\ Plan(h)[i] = "bill" => i = 1
           /\ Plan(h)[i] = "append" => i = 2
  BY DEF Plan

-----------------------------------------------------------------------------
(* The invariant is inductive: one lemma for each of its parts.            *)

\* Records: only ResolveTools and Answer write one, with messages of their own turn.
LEMMA NextOwnRecord == IInv /\ [Next]_vars => OwnRecord'
<1> SUFFICES ASSUME IInv, [Next]_vars PROVE OwnRecord'
  OBVIOUS
<1> USE DEF IInv, OwnRecord, TypeOK
<1>1. ASSUME NEW t \in Turns, ResolveTools(t) PROVE OwnRecord'
  <2>1. \/ record' = record
        \/ record' = [record EXCEPT ![t] = <<NewMessage(t, 1, clock')>>]
    BY <1>1 DEF ResolveTools
  <2>2. \A m \in ToSet(<<NewMessage(t, 1, clock')>>) : m.turn = t
    BY DEF NewMessage, ToSet
  <2> QED
    BY <2>1, <2>2
<1>2. ASSUME NEW t \in Turns, Answer(t) PROVE OwnRecord'
  <2> DEFINE m == NewMessage(t, Len(record[t]) + 1, clock')
  <2>1. record' = [record EXCEPT ![t] = Append(@, m)]
    BY <1>2 DEF Answer
  <2>2. m.turn = t
    BY DEF NewMessage
  <2> HIDE DEF m
  <2>3. \A x \in ToSet(Append(record[t], m)) : x.turn = t
    <3>1. \A x \in ToSet(Append(record[t], m)) : x \in ToSet(record[t]) \/ x = m
      BY DEF ToSet
    <3> QED
      BY <2>2, <3>1
  <2> QED
    BY <2>1, <2>3
<1>3. ASSUME UNCHANGED record PROVE OwnRecord'
  BY <1>3
<1>4. ASSUME NEW t \in Turns, Background(t) PROVE UNCHANGED record
  BY <1>4, BackgroundChain
<1>5. ASSUME NEW t \in Turns,
             \/ Start(t) \/ ReadHot(t) \/ ReadStamp(t) \/ ListArchive(t) \/ Refill(t)
             \/ SearchMemory(t) \/ ReadSummary(t) \/ FinishRun(t) \/ FailRun(t)
      PROVE  UNCHANGED record
  BY <1>5 DEF Start, ReadHot, ReadStamp, ListArchive, Refill, SearchMemory, ReadSummary,
              FinishRun, FailRun, locals
<1>6. ASSUME Expire \/ Crash \/ UNCHANGED vars PROVE UNCHANGED record
  BY <1>6 DEF Expire, Crash, vars, locals
<1> QED
  BY <1>1, <1>2, <1>3, <1>4, <1>5, <1>6 DEF Next, Step, LoadContext

\* Chains: they start in the order of Plan and only ever lose their first steps.
LEMMA NextChainOrder == IInv /\ [Next]_vars => ChainOrder'
<1> SUFFICES ASSUME IInv, [Next]_vars PROVE ChainOrder'
  OBVIOUS
<1> DEFINE Ordered(s) == \A i \in DOMAIN s :
                            /\ s[i] = "bill" => i = 1
                            /\ s[i] = "append" => i = 1 \/ (i = 2 /\ s[1] = "bill")
           Paid(s, l) == s # <<>> /\ s[1] # "bill" => l # "open"
<1>1. TypeOK /\ \A t \in Turns : Ordered(tasks[t]) /\ Paid(tasks[t], ledger[t])
  BY DEF IInv, ChainOrder
<1>2. SUFFICES \A t \in Turns : Ordered(tasks'[t]) /\ Paid(tasks'[t], ledger'[t])
  BY DEF ChainOrder
<1>3. ASSUME NEW t \in Turns,
             Start(t) \/ LoadContext(t) \/ Answer(t) \/ FailRun(t) \/ Expire \/ UNCHANGED vars
      PROVE  UNCHANGED <<tasks, ledger>>
  BY <1>1, <1>3, ForegroundChain
<1>4. ASSUME NEW t \in Turns, FinishRun(t)
      PROVE  \A u \in Turns : Ordered(tasks'[u]) /\ Paid(tasks'[u], ledger'[u])
  <2>1. tasks' = [tasks EXCEPT ![t] = Plan(history[t])] /\ ledger' = ledger
    BY <1>4 DEF FinishRun, stores
  <2>2. Ordered(Plan(history[t])) /\ Paid(Plan(history[t]), ledger[t])
    BY PlanOrder
  <2> HIDE DEF Ordered, Paid
  <2> QED
    BY <1>1, <2>1, <2>2 DEF TypeOK
<1>5. ASSUME NEW t \in Turns, Background(t)
      PROVE  \A u \in Turns : Ordered(tasks'[u]) /\ Paid(tasks'[u], ledger'[u])
  <2>1. ASSUME NEW u \in Turns \ {t}
        PROVE  Ordered(tasks'[u]) /\ Paid(tasks'[u], ledger'[u])
    <3>1. tasks'[u] = tasks[u] /\ ledger'[u] = ledger[u]
      BY <1>1, <1>5, BackgroundChain, BackgroundLedger
    <3> QED
      BY <1>1, <3>1
  <2>2. tasks[t] \in Seq(Task) /\ tasks[t] # <<>>
    BY <1>1, <1>5, BackgroundChain DEF TypeOK
  <2>3. Head(tasks[t]) # "bill" => ledger'[t] # "open"
    <3>1. Head(tasks[t]) = tasks[t][1]
      BY <2>2
    <3>2. ledger[t] # "open" => ledger'[t] # "open"
      BY <1>1, <1>5, BackgroundLedger
    <3> QED
      BY <1>1, <2>2, <3>1, <3>2
  <2>4. Head(tasks[t]) = "bill" => ledger'[t] # "open" \/ tasks'[t] = <<>>
    BY <1>1, <1>5, BackgroundLedger
  <2>5. Ordered(tasks'[t]) /\ Paid(tasks'[t], ledger'[t])
    <3>1. CASE tasks'[t] = Tail(tasks[t])
      <4>1. \A i \in DOMAIN Tail(tasks[t]) :
               /\ i \in Nat /\ i >= 1 /\ i + 1 \in DOMAIN tasks[t]
               /\ Tail(tasks[t])[i] = tasks[t][i + 1]
        BY <2>2
      <4>2. Ordered(Tail(tasks[t]))
        BY <1>1, <4>1
      <4> QED
        BY <2>3, <2>4, <3>1, <4>2
    <3>2. CASE tasks'[t] = tasks[t]
      BY <1>1, <2>2, <2>3, <2>4, <3>2
    <3>3. CASE tasks'[t] = <<>>
      BY <3>3
    <3>4. CASE tasks'[t] = <<"saveSummary", "reload">> /\ Head(tasks[t]) = "summarize"
      <4>1. Ordered(<<"saveSummary", "reload">>)
        OBVIOUS
      <4> QED
        BY <2>3, <3>4, <4>1
    <3>5. \/ tasks'[t] = Tail(tasks[t]) \/ tasks'[t] = tasks[t] \/ tasks'[t] = <<>>
          \/ tasks'[t] = <<"saveSummary", "reload">> /\ Head(tasks[t]) = "summarize"
      BY <1>1, <1>5, BackgroundChain
    <3> HIDE DEF Ordered, Paid
    <3> QED
      BY <3>1, <3>2, <3>3, <3>4, <3>5
  <2> HIDE DEF Ordered, Paid
  <2> QED
    BY <2>1, <2>5
<1>6. ASSUME Crash
      PROVE  \A u \in Turns : Ordered(tasks'[u]) /\ Paid(tasks'[u], ledger'[u])
  BY <1>6 DEF Crash
<1> HIDE DEF Ordered, Paid
<1>7. Turns # {} /\ (Expire \/ UNCHANGED vars) => UNCHANGED <<tasks, ledger>>
  BY <1>3
<1> QED
  BY <1>1, <1>3, <1>4, <1>5, <1>6, <1>7 DEF Next, Step

\* The three steps that write messages come after billing and are, or follow, append:
\* what they expose is of their own turn, which has no append left to do.
LEMMA WriterExposes ==
    ASSUME IInv, NEW t \in Turns, Background(t), AppendHot(t) \/ Archive(t) \/ Reload(t),
           Exposed' \subseteq Exposed \cup ToSet(record[t])
    PROVE  /\ "append" \notin ToSet(tasks'[t])
           /\ ledger[t] # "open"
           /\ \A u \in Turns \ {t} : Visible(u)' => Visible(u)
<1> USE DEF IInv
<1>1. tasks[t] \in Seq(Task) /\ tasks[t] # <<>>
  BY BackgroundChain DEF TypeOK
<1>2. Head(tasks[t]) = tasks[t][1] /\ 1 \in DOMAIN tasks[t]
  BY <1>1
<1>3. tasks[t][1] \in {"append", "archive", "reload"}
  BY <1>2 DEF AppendHot, Archive, Reload, Doing
<1>4. \A i \in DOMAIN tasks[t] : tasks[t][i] = "append" => i = 1
  BY <1>3 DEF ChainOrder
<1>5. \A i \in DOMAIN Tail(tasks[t]) : Tail(tasks[t])[i] # "append"
  <2>1. \A i \in DOMAIN Tail(tasks[t]) :
           i + 1 \in DOMAIN tasks[t] /\ i + 1 # 1 /\ Tail(tasks[t])[i] = tasks[t][i + 1]
    BY <1>1
  <2> QED
    BY <1>4, <2>1
<1>6. ASSUME tasks'[t] = Tail(tasks[t]) PROVE "append" \notin ToSet(tasks'[t])
  BY <1>5, <1>6 DEF ToSet
<1>7. ASSUME Archive(t), tasks' = tasks PROVE "append" \notin ToSet(tasks'[t])
  <2>1. tasks[t][1] = "archive"
    BY <1>2, <1>7 DEF Archive, Doing
  <2> QED
    BY <1>4, <1>7, <2>1 DEF ToSet
<1>8. tasks'[t] = Tail(tasks[t]) \/ (Archive(t) /\ tasks' = tasks)
  <2>1. AppendHot(t) \/ Reload(t) => tasks'[t] = Tail(tasks[t])
    BY BackgroundChain
  <2>2. Archive(t) => tasks'[t] = Tail(tasks[t]) \/ tasks' = tasks
    BY DEF Archive, Pop, TypeOK
  <2> QED
    BY <2>1, <2>2
<1>9. ledger[t] # "open"
  BY <1>1, <1>3 DEF ChainOrder
<1>10. \A u \in Turns \ {t} : Visible(u)' => Visible(u)
  BY DEF Visible, OwnRecord
<1>11. "append" \notin ToSet(tasks'[t])
  BY <1>6, <1>7, <1>8
<1> QED
  BY <1>9, <1>10, <1>11

\* A turn that must not be visible yet after a step had not to be before it.
Unshown(t) == phase[t] # "background" \/ "append" \in ToSet(tasks[t])

LEMMA UnshownBefore ==
    ASSUME IInv, [Next]_vars, NEW t \in Turns, Unshown(t)'
    PROVE  Unshown(t)
<1>1. TypeOK /\ ToSet(<<>>) = {}
  BY DEF IInv, ToSet
<1>2. ASSUME NEW u \in Turns,
             Start(u) \/ LoadContext(u) \/ Answer(u) \/ FailRun(u) \/ Expire \/ UNCHANGED vars
      PROVE  Unshown(t)
  BY <1>1, <1>2, ForegroundChain DEF Unshown
<1>3. ASSUME NEW u \in Turns, FinishRun(u) PROVE Unshown(t)
  BY <1>1, <1>3 DEF FinishRun, From, To, Unshown, TypeOK
<1>4. ASSUME NEW u \in Turns, Background(u) PROVE Unshown(t)
  <2>1. phase' = phase /\ phase[u] = "background" /\ tasks[u] # <<>> /\ tasks[u] \in Seq(Task)
    BY <1>1, <1>4, BackgroundChain DEF TypeOK
  <2>2. CASE t # u
    BY <1>1, <1>4, <2>1, <2>2, BackgroundChain DEF Unshown
  <2>3. CASE t = u
    <3>1. ToSet(Tail(tasks[u])) \subseteq ToSet(tasks[u])
      BY <2>1 DEF ToSet
    <3>2. "append" \notin ToSet(<<"saveSummary", "reload">>)
      BY DEF ToSet
    <3>3. \/ tasks'[u] = Tail(tasks[u]) \/ tasks'[u] = tasks[u] \/ tasks'[u] = <<>>
          \/ tasks'[u] = <<"saveSummary", "reload">>
      BY <1>1, <1>4, BackgroundChain
    <3>4. "append" \in ToSet(tasks'[u]) => "append" \in ToSet(tasks[u])
      BY <1>1, <3>1, <3>2, <3>3
    <3> QED
      BY <2>1, <2>3, <3>4 DEF Unshown
  <2> QED
    BY <2>2, <2>3
<1>5. ASSUME Crash PROVE Unshown(t)
  BY <1>1, <1>5 DEF Crash, Unshown, TypeOK
<1> QED
  BY <1>2, <1>3, <1>4, <1>5 DEF Next, Step

\* What a step exposes, for every step.
LEMMA NextExposes ==
    ASSUME IInv, [Next]_vars
    PROVE  \/ Exposed' \subseteq Exposed
           \/ \E t \in Turns :
                 /\ Background(t) /\ (AppendHot(t) \/ Archive(t) \/ Reload(t))
                 /\ Exposed' \subseteq Exposed \cup ToSet(record[t])
<1>1. TypeOK
  BY DEF IInv
<1>2. ASSUME NEW t \in Turns, LoadContext(t) PROVE Exposed' \subseteq Exposed
  BY <1>1, <1>2, LoadExposes
<1>3. ASSUME NEW t \in Turns,
             \/ Start(t) \/ Answer(t) \/ FinishRun(t) \/ FailRun(t)
             \/ Expire \/ Crash \/ UNCHANGED vars
      PROVE  Exposed' \subseteq Exposed
  BY <1>1, <1>3, OtherExposes
<1>4. ASSUME NEW t \in Turns, Background(t)
      PROVE  \/ Exposed' \subseteq Exposed
             \/ /\ AppendHot(t) \/ Archive(t) \/ Reload(t)
                /\ Exposed' \subseteq Exposed \cup ToSet(record[t])
  BY <1>1, <1>4, BackgroundExposes
<1>5. ASSUME Expire \/ Crash \/ UNCHANGED vars, Turns # {} PROVE Exposed' \subseteq Exposed
  BY <1>3, <1>5
<1>6. ASSUME Expire \/ Crash \/ UNCHANGED vars, Turns = {} PROVE Exposed' \subseteq Exposed
  <2>1. ToSet(<<>>) = {}
    BY DEF ToSet
  <2> QED
    BY <1>6, <2>1 DEF Exposed, Expire, Crash, vars, stores, locals, Active
<1> QED
  BY <1>2, <1>3, <1>4, <1>5, <1>6 DEF Next, Step

LEMMA NextShownByAppend == IInv /\ [Next]_vars => ShownByAppend'
<1> SUFFICES ASSUME IInv, [Next]_vars, NEW t \in Turns, Unshown(t)'
             PROVE  ~Visible(t)'
  BY DEF ShownByAppend, Unshown
<1>1. Unshown(t) /\ ~Visible(t)
  BY UnshownBefore DEF IInv, ShownByAppend, Unshown
<1>2. CASE Exposed' \subseteq Exposed
  BY <1>1, <1>2 DEF Visible
<1>3. ASSUME NEW u \in Turns, Background(u), AppendHot(u) \/ Archive(u) \/ Reload(u),
             Exposed' \subseteq Exposed \cup ToSet(record[u])
      PROVE  ~Visible(t)'
  <2>1. CASE t # u
    BY <1>1, <1>3, <2>1, WriterExposes
  <2>2. CASE t = u
    <3>1. TypeOK
      BY DEF IInv
    <3>2. phase'[u] = "background"
      BY <1>3, <3>1, BackgroundChain
    <3>3. "append" \notin ToSet(tasks'[u])
      BY <1>3, WriterExposes
    <3> QED
      BY <2>2, <3>2, <3>3 DEF Unshown
  <2> QED
    BY <2>1, <2>2
<1> QED
  BY <1>2, <1>3, NextExposes

\* A turn that is billed stays so, and one that is not exposes nothing.
LEMMA NextBilledBeforeKept == IInv /\ [Next]_vars => BilledBeforeKept'
<1> SUFFICES ASSUME IInv, [Next]_vars, NEW t \in Turns, ledger'[t] = "open"
             PROVE  ~Visible(t)' /\ t \notin memories'
  BY DEF BilledBeforeKept
<1>1. TypeOK /\ ToSet(<<>>) = {}
  BY DEF IInv, ToSet
<1>2. ledger[t] = "open" /\ (t \in memories' => t \in memories)
  <2>1. ASSUME NEW u \in Turns,
               Start(u) \/ LoadContext(u) \/ Answer(u) \/ FailRun(u) \/ Expire \/ UNCHANGED vars
        PROVE  UNCHANGED <<ledger, memories>>
    BY <1>1, <2>1, ForegroundChain
  <2>2. ASSUME NEW u \in Turns, FinishRun(u) \/ Crash
        PROVE  UNCHANGED <<ledger, memories>>
    BY <2>2 DEF FinishRun, Crash, stores
  <2>3. ASSUME NEW u \in Turns, Background(u)
        PROVE  ledger[t] = "open" /\ (t \in memories' => t \in memories)
    <3>1. ledger[t] = "open"
      BY <1>1, <2>3, BackgroundLedger
    <3>2. CASE memories' = memories
      BY <3>1, <3>2
    <3>3. CASE Ingest(u) /\ memories' = memories \cup {u}
      <4>1. tasks[u] # <<>> /\ tasks[u] \in Seq(Task) /\ Head(tasks[u]) = "ingest"
        BY <1>1, <3>3 DEF Ingest, Doing, TypeOK
      <4>2. ledger[u] # "open"
        BY <4>1 DEF IInv, ChainOrder
      <4> QED
        BY <3>1, <3>3, <4>2
    <3> QED
      BY <1>1, <2>3, <3>2, <3>3, BackgroundLedger
  <2> QED
    BY <2>1, <2>2, <2>3 DEF Next, Step
<1>3. ~Visible(t) /\ t \notin memories
  BY <1>2 DEF IInv, BilledBeforeKept
<1>4. CASE Exposed' \subseteq Exposed
  BY <1>2, <1>3, <1>4 DEF Visible
<1>5. ASSUME NEW u \in Turns, Background(u), AppendHot(u) \/ Archive(u) \/ Reload(u),
             Exposed' \subseteq Exposed \cup ToSet(record[u])
      PROVE  ~Visible(t)'
  <2>1. t # u
    BY <1>2, <1>5, WriterExposes
  <2> QED
    BY <1>3, <1>5, <2>1, WriterExposes
<1> QED
  BY <1>2, <1>3, <1>4, <1>5, NextExposes

\* Initially only the messages of the past are anywhere, and no chain is registered.
LEMMA InitIInv == Init => IInv
<1> SUFFICES ASSUME Init PROVE IInv
  OBVIOUS
<1>1. TypeOK
  BY InitType
<1>2. \A m \in ToSet(Legacy(load.legacy)) : m.turn = Past
  <2>1. ASSUME NEW s PROVE \A m \in ToSet(Legacy(s)) : m.turn = Past
    BY DEF Legacy, ToSet
  <2> QED
    BY <2>1
<1>3. ToSet(Newest(Legacy(load.legacy), load.length)) \subseteq ToSet(Legacy(load.legacy))
  <2>1. load.legacy \in Seq(Nat) /\ load.length \in Nat
    BY <1>1, LoadFields DEF TypeOK
  <2> QED
    BY <2>1, LegacyType, NewestIsPart
<1>4. ToSet(<<>>) = {}
  BY DEF ToSet
<1>5. Exposed \subseteq ToSet(Legacy(load.legacy))
  BY <1>3, <1>4 DEF Exposed, Init, NoSummary
<1>6. \A t \in Turns : ~Visible(t)
  BY <1>2, <1>5, ConstantsAssumption DEF Visible
<1>7. OwnRecord /\ ChainOrder
  BY <1>4 DEF Init, OwnRecord, ChainOrder
<1>8. ShownByAppend /\ BilledBeforeKept
  BY <1>6 DEF ShownByAppend, BilledBeforeKept, Init
<1> QED
  BY <1>1, <1>7, <1>8 DEF IInv

\* The invariant holds in every state of every behaviour.
THEOREM Invariance == Spec => []IInv
<1>1. IInv /\ [Next]_vars => IInv'
  <2>1. IInv /\ [Next]_vars => TypeOK'
    BY NextType DEF IInv
  <2> QED
    BY <2>1, NextOwnRecord, NextChainOrder, NextShownByAppend, NextBilledBeforeKept DEF IInv
<1> QED
  BY <1>1, InitIInv, PTL DEF Spec

\* However turns overlap and whatever fails, no turn shows a message before its
\* append_messages, so nothing of an answer that fails ever reaches another turn.
THEOREM ShownByAppendHolds == Spec => []ShownByAppend
<1>1. IInv => ShownByAppend
  BY DEF IInv
<1> QED
  BY <1>1, Invariance, PTL

\* Whatever fails, what a turn leaves in any of the stores has been billed.
THEOREM BilledBeforeKeptHolds == Spec => []BilledBeforeKept
<1>1. IInv => BilledBeforeKept
  BY DEF IInv
<1> QED
  BY <1>1, Invariance, PTL

-----------------------------------------------------------------------------
(* No message twice.  The hot context is rewritten from the archive, from   *)
(* itself and from the history a turn has held since its first read, so the  *)
(* invariant must say that a turn's history and record share no message.     *)

\* A stretch of a list without repetitions has none.
LEMMA SubSeqOnce ==
    ASSUME NEW M, NEW s \in Seq(M), IsInjective(s),
           NEW a \in 1..(Len(s) + 1), NEW b \in 0..Len(s)
    PROVE  IsInjective(SubSeq(s, a, b))
<1> DEFINE r == SubSeq(s, a, b)
<1>1. Len(s) \in Nat /\ DOMAIN s = 1..Len(s)
  OBVIOUS
<1>2. \A i \in DOMAIN r : i \in Nat /\ a + i - 1 \in 1..Len(s) /\ r[i] = s[a + i - 1]
  BY <1>1
<1> HIDE DEF r
<1>3. ASSUME NEW i \in DOMAIN r, NEW j \in DOMAIN r, r[i] = r[j] PROVE i = j
  <2>1. a + i - 1 = a + j - 1
    BY <1>1, <1>2, <1>3 DEF IsInjective
  <2> QED
    BY <1>2, <2>1
<1> QED
  BY <1>3 DEF IsInjective, r

\* Nor has a trimmed list, what the limited query returns, or what compression keeps.
LEMMA NewestOnce ==
    ASSUME NEW M, NEW s \in Seq(M), IsInjective(s), NEW n \in Nat
    PROVE  IsInjective(Newest(s, n))
<1>1. CASE Len(s) <= n
  BY <1>1 DEF Newest
<1>2. CASE ~(Len(s) <= n)
  <2>1. Len(s) - n + 1 \in 1..(Len(s) + 1) /\ Len(s) \in 0..Len(s)
    BY <1>2
  <2> QED
    BY <1>2, <2>1, SubSeqOnce DEF Newest
<1> QED
  BY <1>1, <1>2

LEMMA ListAfterOnce ==
    ASSUME NEW s \in Seq(Message), IsInjective(s), NEW after \in Nat, NEW limit \in Nat
    PROVE  IsInjective(ListAfter(s, after, limit))
<1> DEFINE later == SubSeq(s, Before(s, after) + 1, Len(s))
<1>1. Before(s, after) + 1 \in 1..(Len(s) + 1) /\ Len(s) \in 0..Len(s)
  BY BeforeIsIndex
<1>2. later \in Seq(Message) /\ IsInjective(later)
  BY <1>1, SubSeqOnce
<1> QED
  BY <1>2, NewestOnce DEF ListAfter

LEMMA KeepOnce ==
    ASSUME load \in Load, NEW h \in Seq(Message), IsInjective(h)
    PROVE  IsInjective(Keep(h))
<1>1. {i \in DOMAIN h : TokensFrom(h, i) > load.low} \in SUBSET (1..Len(h))
  OBVIOUS
<1>2. CandidateCount(h) \in 0..Len(h)
  BY <1>1, IndexCount, Len(h) \in Nat DEF CandidateCount
<1>3. CandidateCount(h) + 1 \in 1..(Len(h) + 1) /\ Len(h) \in 0..Len(h)
  BY <1>2
<1> QED
  BY <1>3, SubSeqOnce DEF Keep

\* Two lists without repetitions that share no element, one after the other.
LEMMA ConcatOnce ==
    ASSUME NEW M, NEW a \in Seq(M), NEW b \in Seq(M), IsInjective(a), IsInjective(b),
           \A x \in ToSet(a) : x \notin ToSet(b)
    PROVE  IsInjective(a \o b)
<1> DEFINE c == a \o b
<1>1. /\ c \in Seq(M) /\ Len(c) = Len(a) + Len(b)
      /\ \A i \in 1..(Len(a) + Len(b)) : c[i] = IF i <= Len(a) THEN a[i] ELSE b[i - Len(a)]
  BY ConcatProperties
<1> HIDE DEF c
<1>2. /\ Len(a) \in Nat /\ Len(b) \in Nat
      /\ DOMAIN a = 1..Len(a) /\ DOMAIN b = 1..Len(b) /\ DOMAIN c = 1..(Len(a) + Len(b))
  BY <1>1
<1>3. ASSUME NEW i \in DOMAIN c
      PROVE  \/ i <= Len(a) /\ i \in DOMAIN a /\ c[i] = a[i]
             \/ i > Len(a) /\ i - Len(a) \in DOMAIN b /\ c[i] = b[i - Len(a)]
  BY <1>1, <1>2
<1>4. ASSUME NEW x \in DOMAIN a, NEW y \in DOMAIN b PROVE a[x] # b[y]
  BY DEF ToSet
<1>5. ASSUME NEW i \in DOMAIN c, NEW j \in DOMAIN c, c[i] = c[j] PROVE i = j
  <2>1. CASE i <= Len(a) /\ j <= Len(a)
    <3>1. i \in DOMAIN a /\ j \in DOMAIN a /\ a[i] = a[j]
      BY <1>2, <1>3, <1>5, <2>1
    <3> QED
      BY <3>1 DEF IsInjective
  <2>2. CASE i > Len(a) /\ j > Len(a)
    <3>1. /\ i - Len(a) \in DOMAIN b /\ j - Len(a) \in DOMAIN b
          /\ b[i - Len(a)] = b[j - Len(a)]
      BY <1>2, <1>3, <1>5, <2>2
    <3>2. i - Len(a) = j - Len(a)
      BY <3>1 DEF IsInjective
    <3> QED
      BY <1>2, <3>2
  <2>3. (i <= Len(a) /\ j <= Len(a)) \/ (i > Len(a) /\ j > Len(a))
    BY <1>2, <1>3, <1>4, <1>5
  <2> QED
    BY <2>1, <2>2, <2>3
<1> QED
  BY <1>5 DEF IsInjective, c

\* A list that grows by an element it does not hold.
LEMMA InsertAtOnce ==
    ASSUME NEW M, NEW s \in Seq(M), IsInjective(s), NEW m \in M, m \notin ToSet(s),
           NEW p \in 1..(Len(s) + 1)
    PROVE  IsInjective(InsertAt(s, p, m))
<1> DEFINE r == InsertAt(s, p, m)
<1>1. /\ r \in Seq(M)
      /\ Len(r) = Len(s) + 1
      /\ \A i \in 1..(Len(s) + 1) :
            r[i] = IF i < p THEN s[i] ELSE IF i = p THEN m ELSE s[i - 1]
  BY InsertAtElements
<1> HIDE DEF r
<1>2. DOMAIN r = 1..(Len(s) + 1) /\ DOMAIN s = 1..Len(s) /\ Len(s) \in Nat
  BY <1>1
<1>3. \A i \in 1..Len(s) : s[i] # m
  BY <1>2 DEF ToSet
\* The place in s of the element at i of r.
<1> DEFINE old(i) == IF i < p THEN i ELSE i - 1
<1>4. ASSUME NEW i \in DOMAIN r, i # p
      PROVE  old(i) \in 1..Len(s) /\ r[i] = s[old(i)]
  <2>1. CASE i < p
    BY <1>1, <1>2, <2>1
  <2>2. CASE ~(i < p)
    <3>1. i > p /\ i - 1 \in 1..Len(s) /\ r[i] = s[i - 1]
      BY <1>1, <1>2, <1>4, <2>2
    <3> QED
      BY <2>2, <3>1
  <2> QED
    BY <2>1, <2>2
<1>5. r[p] = m
  BY <1>1, <1>2
<1>6. ASSUME NEW i \in DOMAIN r, NEW j \in DOMAIN r, r[i] = r[j] PROVE i = j
  <2>1. CASE i = p \/ j = p
    BY <1>3, <1>4, <1>5, <1>6, <2>1
  <2>2. CASE i # p /\ j # p
    <3>1. old(i) = old(j)
      BY <1>2, <1>4, <1>6, <2>2 DEF IsInjective
    <3>2. i \in Int /\ j \in Int /\ p \in Int
      BY <1>2
    <3> QED
      BY <2>2, <3>1, <3>2
  <2> QED
    BY <2>1, <2>2
<1> QED
  BY <1>6 DEF IsInjective, r

\* A turn numbers what it records, so its record holds no message twice.
Numbered == \A t \in Turns : \A i \in DOMAIN record[t] : record[t][i].part = i

\* A turn is prompted with the messages of others: it read them before it appended its own.
OthersHistory == \A t \in Turns : \A m \in ToSet(history[t]) : m.turn # t

OnceInv == IInv /\ Numbered /\ OthersHistory /\ NoMessageTwice

LEMMA RecordOnce ==
    ASSUME Numbered, TypeOK, NEW t \in Turns
    PROVE  IsInjective(record[t])
  BY DEF Numbered, IsInjective

\* The parts of NoMessageTwice.
LEMMA OnceParts ==
    NoMessageTwice <=> /\ IsInjective(hot) /\ IsInjective(archive)
                       /\ \A t \in Turns : IsInjective(history[t])
  BY DEF NoMessageTwice

LEMMA EmptyOnce == IsInjective(<<>>) /\ ToSet(<<>>) = {}
  BY DEF IsInjective, ToSet

\* Only ResolveTools and Answer write a record, and they number its messages.
LEMMA NextNumbered == OnceInv /\ [Next]_vars => Numbered'
<1> SUFFICES ASSUME OnceInv, [Next]_vars PROVE Numbered'
  OBVIOUS
<1> USE DEF OnceInv, IInv, Numbered, TypeOK
<1>1. ASSUME NEW t \in Turns, ResolveTools(t) PROVE Numbered'
  <2>1. \/ record' = record
        \/ record' = [record EXCEPT ![t] = <<NewMessage(t, 1, clock')>>]
    BY <1>1 DEF ResolveTools
  <2>2. \A i \in DOMAIN <<NewMessage(t, 1, clock')>> :
           <<NewMessage(t, 1, clock')>>[i].part = i
    BY DEF NewMessage
  <2> QED
    BY <2>1, <2>2
<1>2. ASSUME NEW t \in Turns, Answer(t) PROVE Numbered'
  <2> DEFINE m == NewMessage(t, Len(record[t]) + 1, clock')
  <2>1. record' = [record EXCEPT ![t] = Append(@, m)]
    BY <1>2 DEF Answer
  <2>2. m.part = Len(record[t]) + 1
    BY DEF NewMessage
  <2> HIDE DEF m
  <2>3. \A i \in DOMAIN Append(record[t], m) : Append(record[t], m)[i].part = i
    <3>1. \A i \in DOMAIN Append(record[t], m) :
             \/ i \in DOMAIN record[t] /\ Append(record[t], m)[i] = record[t][i]
             \/ i = Len(record[t]) + 1 /\ Append(record[t], m)[i] = m
      OBVIOUS
    <3> QED
      BY <2>2, <3>1
  <2> QED
    BY <2>1, <2>3
<1>3. ASSUME UNCHANGED record PROVE Numbered'
  BY <1>3
<1>4. ASSUME NEW t \in Turns, Background(t) PROVE UNCHANGED record
  BY <1>4, BackgroundChain
<1>5. ASSUME NEW t \in Turns,
             \/ Start(t) \/ ReadHot(t) \/ ReadStamp(t) \/ ListArchive(t) \/ Refill(t)
             \/ SearchMemory(t) \/ ReadSummary(t) \/ FinishRun(t) \/ FailRun(t)
      PROVE  UNCHANGED record
  BY <1>5 DEF Start, ReadHot, ReadStamp, ListArchive, Refill, SearchMemory, ReadSummary,
              FinishRun, FailRun, locals
<1>6. ASSUME Expire \/ Crash \/ UNCHANGED vars PROVE UNCHANGED record
  BY <1>6 DEF Expire, Crash, vars, locals
<1> QED
  BY <1>1, <1>2, <1>3, <1>4, <1>5, <1>6 DEF Next, Step, LoadContext

\* What a step leaves as the history of a turn: the one it had, none, or what it has just
\* read from the hot context or from the archive, before the turn is visible.
LEMMA HistorySource ==
    ASSUME IInv, [Next]_vars, NEW t \in Turns
    PROVE  \/ history'[t] = history[t] \/ history'[t] = <<>>
           \/ ~Visible(t) /\ history'[t] = hot
           \/ ~Visible(t) /\ history'[t] = ListAfter(archive, mark[t], load.fallback)
<1> USE DEF IInv, TypeOK, From
<1>1. ASSUME NEW u \in Turns, ReadHot(u), history' # history
      PROVE  /\ ~Visible(u) /\ history' = [history EXCEPT ![u] = hot]
  <2>1. phase[u] # "background" /\ history' = [history EXCEPT ![u] = hot]
    BY <1>1 DEF ReadHot
  <2> QED
    BY <2>1 DEF ShownByAppend
<1>2. ASSUME NEW u \in Turns, ListArchive(u), history' # history
      PROVE  /\ ~Visible(u)
             /\ history' = [history EXCEPT ![u] = ListAfter(archive, mark[u], load.fallback)]
  <2>1. /\ phase[u] # "background"
        /\ history' = [history EXCEPT ![u] = ListAfter(archive, mark[u], load.fallback)]
    BY <1>2 DEF ListArchive
  <2> QED
    BY <2>1 DEF ShownByAppend
<1>3. ASSUME NEW u \in Turns, Refill(u), history' # history
      PROVE  history' = [history EXCEPT ![u] = <<>>]
  BY <1>3 DEF Refill
<1>4. ASSUME NEW u \in Turns, Background(u) PROVE history' = history
  BY <1>4 DEF Background, Bill, AppendHot, Archive, Ingest, Summarize, SaveSummary, Reload
<1>5. ASSUME NEW u \in Turns,
             \/ Start(u) \/ ReadStamp(u) \/ SearchMemory(u) \/ ReadSummary(u)
             \/ ResolveTools(u) \/ Answer(u) \/ FinishRun(u) \/ FailRun(u)
      PROVE  history' = history
  BY <1>5 DEF Start, ReadStamp, SearchMemory, ReadSummary, ResolveTools, Answer, FinishRun,
              FailRun, locals
<1>6. ASSUME Expire \/ Crash \/ UNCHANGED vars PROVE history' = history
  BY <1>6 DEF Expire, Crash, vars, locals
<1>7. CASE history' = history
  BY <1>7
<1>8. ASSUME history' # history
      PROVE  \E u \in Turns : ReadHot(u) \/ ListArchive(u) \/ Refill(u)
  BY <1>4, <1>5, <1>6, <1>8 DEF Next, Step, LoadContext
<1>9. ASSUME NEW u \in Turns, ReadHot(u), history' # history
      PROVE  history'[t] = history[t] \/ (~Visible(t) /\ history'[t] = hot)
  BY <1>1, <1>9
<1>10. ASSUME NEW u \in Turns, ListArchive(u), history' # history
       PROVE  \/ history'[t] = history[t]
              \/ ~Visible(t) /\ history'[t] = ListAfter(archive, mark[t], load.fallback)
  BY <1>2, <1>10
<1>11. ASSUME NEW u \in Turns, Refill(u), history' # history
       PROVE  history'[t] = history[t] \/ history'[t] = <<>>
  BY <1>3, <1>11
<1> QED
  BY <1>7, <1>8, <1>9, <1>10, <1>11

\* What a turn that is not visible can read is not its own.
LEMMA NextHistory ==
    OnceInv /\ [Next]_vars => OthersHistory' /\ \A t \in Turns : IsInjective(history'[t])
<1> SUFFICES ASSUME OnceInv, [Next]_vars, NEW t \in Turns
             PROVE  IsInjective(history'[t]) /\ \A m \in ToSet(history'[t]) : m.turn # t
  BY DEF OthersHistory
<1>1. /\ IInv /\ TypeOK
      /\ IsInjective(hot) /\ IsInjective(archive) /\ IsInjective(history[t])
      /\ \A m \in ToSet(history[t]) : m.turn # t
  BY OnceParts DEF OnceInv, IInv, OthersHistory
<1>2. ASSUME ~Visible(t)
      PROVE  \A m \in ToSet(hot) \cup ToSet(archive) : m.turn # t
  BY <1>2, ExposedParts DEF Visible
<1>3. CASE history'[t] = history[t]
  BY <1>1, <1>3
<1>4. CASE history'[t] = <<>>
  BY <1>4, EmptyOnce
<1>5. CASE ~Visible(t) /\ history'[t] = hot
  BY <1>1, <1>2, <1>5
<1>6. CASE ~Visible(t) /\ history'[t] = ListAfter(archive, mark[t], load.fallback)
  <2>1. /\ archive \in Seq(Message) /\ mark[t] \in Nat /\ load.fallback \in Nat
    BY <1>1, LoadFields DEF TypeOK
  <2>2. /\ IsInjective(ListAfter(archive, mark[t], load.fallback))
        /\ ToSet(ListAfter(archive, mark[t], load.fallback)) \subseteq ToSet(archive)
    BY <1>1, <2>1, ListAfterOnce, ListAfterIsPart
  <2> QED
    BY <1>2, <1>6, <2>2
<1> QED
  BY <1>1, <1>3, <1>4, <1>5, <1>6, HistorySource

\* The hot context after a step: what it was, nothing, a turn's history, itself and the
\* record of a turn that was not visible, or what a turn kept of its history and its record.
LEMMA NextHot == OnceInv /\ [Next]_vars => IsInjective(hot')
<1> SUFFICES ASSUME OnceInv, [Next]_vars PROVE IsInjective(hot')
  OBVIOUS
<1>1. /\ IInv /\ TypeOK /\ OwnRecord /\ OthersHistory
      /\ IsInjective(hot) /\ IsInjective(archive)
      /\ \A t \in Turns : IsInjective(history[t]) /\ IsInjective(record[t])
  BY OnceParts, RecordOnce DEF OnceInv, IInv
<1>2. load \in Load /\ load.length \in Nat
  BY <1>1, LoadFields DEF TypeOK
<1>3. ASSUME NEW t \in Turns, Refill(t) PROVE IsInjective(hot')
  BY <1>1, <1>3 DEF Refill
<1>4. ASSUME NEW t \in Turns, AppendHot(t) PROVE IsInjective(hot')
  <2>1. ~Visible(t)
    <3>1. tasks[t] \in Seq(Task) /\ tasks[t] # <<>> /\ Head(tasks[t]) = "append"
      BY <1>1, <1>4 DEF AppendHot, Doing, TypeOK
    <3>2. "append" \in ToSet(tasks[t])
      BY <3>1 DEF ToSet
    <3> QED
      BY <1>1, <3>2 DEF IInv, ShownByAppend
  <2>2. hot \in Seq(Message) /\ record[t] \in Seq(Message)
    BY <1>1 DEF TypeOK
  <2>3. \A x \in ToSet(hot) : x \notin ToSet(record[t])
    BY <1>1, <2>1, ExposedParts DEF Visible, OwnRecord
  <2>4. hot \o record[t] \in Seq(Message) /\ IsInjective(hot \o record[t])
    BY <1>1, <2>2, <2>3, ConcatOnce, ConcatElements
  <2>5. IsInjective(Newest(hot \o record[t], load.length))
    BY <1>2, <2>4, NewestOnce
  <2> QED
    BY <1>1, <1>4, <2>5 DEF AppendHot
<1>5. ASSUME NEW t \in Turns, Reload(t) PROVE IsInjective(hot')
  <2>1. history[t] \in Seq(Message) /\ record[t] \in Seq(Message)
    BY <1>1 DEF TypeOK
  <2>2. /\ Keep(history[t]) \in Seq(Message) /\ IsInjective(Keep(history[t]))
        /\ ToSet(Keep(history[t])) \subseteq ToSet(history[t])
    BY <1>1, <1>2, <2>1, KeepOnce, WindowIsPart
  <2>3. \A x \in ToSet(Keep(history[t])) : x \notin ToSet(record[t])
    BY <1>1, <2>2 DEF OwnRecord, OthersHistory
  <2>4. IsInjective(Keep(history[t]) \o record[t])
    BY <1>1, <2>1, <2>2, <2>3, ConcatOnce
  <2> QED
    BY <1>1, <1>5, <2>4 DEF Reload
<1>6. ASSUME Expire PROVE IsInjective(hot')
  BY <1>6, EmptyOnce DEF Expire
<1>7. ASSUME NEW t \in Turns,
             \/ Start(t) \/ ReadHot(t) \/ ReadStamp(t) \/ ListArchive(t) \/ SearchMemory(t)
             \/ ReadSummary(t) \/ ResolveTools(t) \/ Answer(t) \/ FinishRun(t) \/ FailRun(t)
             \/ Bill(t) \/ Archive(t) \/ Ingest(t) \/ Summarize(t) \/ SaveSummary(t)
      PROVE  hot' = hot
  BY <1>7 DEF Start, ReadHot, ReadStamp, ListArchive, SearchMemory, ReadSummary, ResolveTools,
              Answer, FinishRun, FailRun, Bill, Archive, Ingest, Summarize, SaveSummary, stores
<1>8. ASSUME Crash \/ UNCHANGED vars PROVE hot' = hot
  BY <1>8 DEF Crash, vars, stores
<1> QED
  BY <1>1, <1>3, <1>4, <1>5, <1>6, <1>7, <1>8 DEF Next, Step, LoadContext, Background

\* The archive grows by one message at a time, which it did not hold.
LEMMA NextArchive == OnceInv /\ [Next]_vars => IsInjective(archive')
<1> SUFFICES ASSUME OnceInv, [Next]_vars PROVE IsInjective(archive')
  OBVIOUS
<1>1. TypeOK /\ IsInjective(archive)
  BY OnceParts DEF OnceInv, IInv
<1>2. ASSUME NEW t \in Turns, Archive(t), archive' # archive PROVE IsInjective(archive')
  <2>1. PICK i \in DOMAIN record[t] :
           record[t][i] \notin ToSet(archive) /\ archive' = Insert(archive, record[t][i])
    BY <1>2 DEF Archive
  <2>2. archive \in Seq(Message) /\ Len(archive) \in Nat /\ record[t][i] \in Message
    BY <1>1 DEF TypeOK
  <2>3. Before(archive, record[t][i].at) + 1 \in 1..(Len(archive) + 1)
    <3>1. record[t][i].at \in Nat
      BY <2>2 DEF Message
    <3>2. Before(archive, record[t][i].at) \in 0..Len(archive)
      BY <2>2, <3>1, BeforeIsIndex
    <3> QED
      BY <2>2, <3>2
  <2> QED
    BY <1>1, <2>1, <2>2, <2>3, InsertAtOnce DEF Insert
<1>3. ASSUME NEW t \in Turns,
             \/ Start(t) \/ LoadContext(t) \/ Answer(t) \/ FinishRun(t) \/ FailRun(t)
             \/ Bill(t) \/ AppendHot(t) \/ Ingest(t) \/ Summarize(t) \/ SaveSummary(t)
             \/ Reload(t)
      PROVE  archive' = archive
  BY <1>3 DEF Start, LoadContext, ReadHot, ReadStamp, ListArchive, Refill, SearchMemory,
              ReadSummary, ResolveTools, Answer, FinishRun, FailRun, Bill, AppendHot, Ingest,
              Summarize, SaveSummary, Reload, stores
<1>4. ASSUME Expire \/ Crash \/ UNCHANGED vars PROVE archive' = archive
  BY <1>4 DEF Expire, Crash, vars, stores
<1> QED
  BY <1>1, <1>2, <1>3, <1>4 DEF Next, Step, Background

\* The messages of the past are numbered, and no turn has read or recorded any.
LEMMA InitOnce == Init => OnceInv
<1> SUFFICES ASSUME Init PROVE OnceInv
  OBVIOUS
<1>1. IInv /\ TypeOK
  BY InitIInv DEF IInv
<1>2. load.legacy \in Seq(Nat) /\ load.length \in Nat
  BY <1>1, LoadFields DEF TypeOK
<1>3. ASSUME NEW s \in Seq(Nat) PROVE IsInjective(Legacy(s))
  BY DEF Legacy, IsInjective
<1>4. IsInjective(Legacy(load.legacy)) /\ IsInjective(Newest(Legacy(load.legacy), load.length))
  BY <1>2, <1>3, LegacyType, NewestOnce
<1>5. NoMessageTwice
  BY <1>4, EmptyOnce, OnceParts DEF Init
<1>6. Numbered /\ OthersHistory
  BY EmptyOnce DEF Init, Numbered, OthersHistory
<1> QED
  BY <1>1, <1>5, <1>6 DEF OnceInv

LEMMA NextOnce == OnceInv /\ [Next]_vars => OnceInv'
<1>1. OnceInv /\ [Next]_vars => IInv'
  BY NextType, NextOwnRecord, NextChainOrder, NextShownByAppend, NextBilledBeforeKept
     DEF OnceInv, IInv
<1>2. ASSUME IsInjective(hot'), IsInjective(archive'),
             \A t \in Turns : IsInjective(history'[t])
      PROVE  NoMessageTwice'
  BY <1>2 DEF NoMessageTwice
<1> QED
  BY <1>1, <1>2, NextNumbered, NextHistory, NextHot, NextArchive DEF OnceInv

\* However turns overlap, and whatever fails, expires or is replayed from Mongo, no list of
\* messages ever holds one twice: the hot context, the archive, what a turn is prompted with.
THEOREM NoMessageTwiceHolds == Spec => []NoMessageTwice
<1>1. OnceInv => NoMessageTwice
  BY DEF OnceInv
<1> QED
  BY <1>1, InitOnce, NextOnce, PTL DEF Spec

-----------------------------------------------------------------------------
(* Turns that do not overlap.  While at most one turn is in progress, what   *)
(* a step has to preserve need be shown of the turn that takes it only.      *)

\* The first element of a list and the others.
LEMMA HeadAndTail ==
    ASSUME NEW M, NEW s \in Seq(M), s # <<>>
    PROVE  /\ Head(s) \in ToSet(s) /\ Tail(s) \in Seq(M)
           /\ ToSet(s) = {Head(s)} \cup ToSet(Tail(s))
<1>1. /\ Len(s) \in Nat \ {0} /\ DOMAIN s = 1..Len(s) /\ Head(s) = s[1]
      /\ Tail(s) \in Seq(M) /\ DOMAIN Tail(s) = 1..(Len(s) - 1)
      /\ \A i \in 1..(Len(s) - 1) : Tail(s)[i] = s[i + 1]
  OBVIOUS
<1>2. ASSUME NEW i \in 1..Len(s) PROVE s[i] \in {Head(s)} \cup ToSet(Tail(s))
  <2>1. CASE i = 1
    BY <1>1, <2>1
  <2>2. CASE i # 1
    <3>1. i - 1 \in DOMAIN Tail(s) /\ Tail(s)[i - 1] = s[i]
      BY <1>1, <2>2
    <3> QED
      BY <3>1 DEF ToSet
  <2> QED
    BY <2>1, <2>2
<1>3. ASSUME NEW i \in 1..(Len(s) - 1) PROVE Tail(s)[i] \in ToSet(s)
  <2>1. i + 1 \in DOMAIN s /\ Tail(s)[i] = s[i + 1]
    BY <1>1
  <2> QED
    BY <2>1 DEF ToSet
<1>4. 1 \in DOMAIN s
  BY <1>1
<1> QED
  BY <1>1, <1>2, <1>3, <1>4 DEF ToSet

\* A step of one turn leaves alone what every other turn holds.
LEMMA OthersKeep ==
    ASSUME TypeOK, NEW t \in Turns, Start(t) \/ Step(t), NEW u \in Turns \ {t}
    PROVE  /\ phase'[u] = phase[u] /\ tasks'[u] = tasks[u]
           /\ history'[u] = history[u] /\ seen'[u] = seen[u]
           /\ mark'[u] = mark[u] /\ record'[u] = record[u]
<1> USE DEF TypeOK, To, Pop, stores, locals
<1>1. CASE Start(t)
  BY <1>1 DEF Start
<1>2. CASE ReadHot(t)
  BY <1>2 DEF ReadHot
<1>3. CASE ReadStamp(t)
  BY <1>3 DEF ReadStamp
<1>4. CASE ListArchive(t)
  BY <1>4 DEF ListArchive
<1>5. CASE Refill(t)
  BY <1>5 DEF Refill
<1>6. CASE SearchMemory(t)
  BY <1>6 DEF SearchMemory
<1>7. CASE ReadSummary(t)
  BY <1>7 DEF ReadSummary
<1>8. CASE ResolveTools(t)
  BY <1>8 DEF ResolveTools
<1>9. CASE Answer(t)
  BY <1>9 DEF Answer
<1>10. CASE FinishRun(t)
  BY <1>10 DEF FinishRun
<1>11. CASE FailRun(t)
  BY <1>11 DEF FailRun
<1>12. CASE Bill(t)
  BY <1>12 DEF Bill
<1>13. CASE AppendHot(t)
  BY <1>13 DEF AppendHot
<1>14. CASE Archive(t)
  BY <1>14 DEF Archive
<1>15. CASE Ingest(t)
  BY <1>15 DEF Ingest
<1>16. CASE Summarize(t)
  BY <1>16 DEF Summarize
<1>17. CASE SaveSummary(t)
  BY <1>17 DEF SaveSummary
<1>18. CASE Reload(t)
  BY <1>18 DEF Reload
<1> QED
  BY <1>1, <1>2, <1>3, <1>4, <1>5, <1>6, <1>7, <1>8, <1>9, <1>10, <1>11, <1>12, <1>13, <1>14,
     <1>15, <1>16, <1>17, <1>18 DEF Step, LoadContext, Background

\* A turn that takes a step is in progress, and one that starts was not.
LEMMA StepperActive ==
    ASSUME TypeOK, NEW t \in Turns
    PROVE  /\ Step(t) => t \in Active
           /\ Start(t) => t \notin Active
<1> USE DEF Active, Settled, From, Doing
<1>1. LoadContext(t) => t \in Active
  BY DEF LoadContext, ReadHot, ReadStamp, ListArchive, Refill, SearchMemory, ReadSummary,
         ResolveTools
<1>2. Answer(t) \/ FinishRun(t) \/ FailRun(t) => t \in Active
  BY DEF Answer, FinishRun, FailRun
<1>3. Background(t) => t \in Active
  BY DEF Background, Bill, AppendHot, Archive, Ingest, Summarize, SaveSummary, Reload
<1>4. Start(t) => t \notin Active
  BY DEF Start
<1> QED
  BY <1>1, <1>2, <1>3, <1>4 DEF Step

\* A crash ends everything that is in progress, and nothing else but a request starts it.
LEMMA CrashEnds == ASSUME TypeOK, Crash PROVE Active' = {}
<1>1. ASSUME NEW t \in Turns PROVE Settled(t)'
  BY <1>1 DEF Crash, Active, Settled, TypeOK, Phase
<1> QED
  BY <1>1 DEF Active

\* When turns do not overlap, at most one of them is in progress.
Alone == IsFiniteSet(Active) /\ (OneByOne => \A t, u \in Active : t = u)

\* After a step of a turn no other is in progress.
LEMMA OnlyStepper ==
    ASSUME TypeOK, Alone, OneByOne, NEW t \in Turns, Start(t) \/ Step(t)
    PROVE  Active \subseteq {t} /\ Active' \subseteq {t}
<1>1. ASSUME NEW u \in Turns \ {t} PROVE u \in Active' <=> u \in Active
  BY OthersKeep DEF Active, Settled
<1>2. CASE Step(t)
  BY <1>1, <1>2, StepperActive DEF Alone, Active
<1>3. CASE Start(t)
  <2>1. Cardinality(Active) \in Nat /\ Cardinality(Active) < 1
    BY <1>3, FS_CardinalityType DEF Alone, OneByOne, Start
  <2>2. Active = {}
    BY <2>1, FS_EmptySet DEF Alone
  <2> QED
    BY <1>1, <2>2 DEF Active
<1> QED
  BY <1>2, <1>3

LEMMA NextAlone == TypeOK /\ Alone /\ [Next]_vars => Alone'
<1> SUFFICES ASSUME TypeOK, Alone, [Next]_vars PROVE Alone'
  OBVIOUS
<1>1. OneByOne' <=> OneByOne
  BY DEF OneByOne, Next, vars
<1>2. ASSUME NEW t \in Turns, Start(t) \/ Step(t) PROVE Alone'
  <2>1. Active' \subseteq Active \cup {t}
    BY <1>2, OthersKeep DEF Active, Settled
  <2>2. IsFiniteSet(Active \cup {t})
    BY FS_AddElement DEF Alone
  <2>3. IsFiniteSet(Active')
    BY <2>1, <2>2, FS_Subset
  <2> QED
    BY <1>1, <1>2, <2>3, OnlyStepper DEF Alone
<1>3. CASE Crash
  BY <1>1, <1>3, CrashEnds, FS_EmptySet DEF Alone
<1>4. CASE Expire \/ UNCHANGED vars
  <2>1. Active' = Active
    BY <1>4 DEF Expire, vars, locals, Active, Settled
  <2> QED
    BY <1>1, <2>1 DEF Alone
<1> QED
  BY <1>2, <1>3, <1>4 DEF Next

LEMMA InitAlone == Init => Alone
<1> SUFFICES ASSUME Init PROVE Alone
  OBVIOUS
<1>1. Active = {}
  BY DEF Init, Active, Settled
<1> QED
  BY <1>1, FS_EmptySet DEF Alone

-----------------------------------------------------------------------------
(* The summary.  A turn writes it from the one it has read, so coverage      *)
(* grows only if no other was saved since; and its time is the later one.    *)

\* Which steps a chain may still hold, by the policy, and how it ends.
Sequel ==
    \A t \in Turns :
        /\ ToSet(tasks[t]) \cap {"append", "archive"} # {} => Policy.chat
        /\ ToSet(tasks[t]) \cap {"summarize", "saveSummary", "reload"} # {} => Policy.summary
        /\ "saveSummary" \in ToSet(tasks[t]) => tasks[t] = <<"saveSummary", "reload">>
        /\ "reload" \in ToSet(tasks[t]) =>
               tasks[t] \in {<<"saveSummary", "reload">>, <<"reload">>}

\* The steps of a chain as it is registered.
LEMMA PlanElements ==
    ASSUME NEW h
    PROVE  /\ ToSet(Plan(h)) \cap {"saveSummary", "reload"} = {}
           /\ ToSet(Plan(h)) \cap {"append", "archive"} # {} => Policy.chat
           /\ "summarize" \in ToSet(Plan(h)) => Policy.summary
           /\ Policy.chat => "append" \in ToSet(Plan(h))
<1>1. Policy.persist => Policy.chat
  BY ConstantsAssumption
<1>2. \A i \in DOMAIN Plan(h) :
         /\ Plan(h)[i] \notin {"saveSummary", "reload"}
         /\ Plan(h)[i] \in {"append", "archive"} => Policy.chat
         /\ Plan(h)[i] = "summarize" => Policy.summary
  BY <1>1 DEF Plan
<1>3. Policy.chat => 2 \in DOMAIN Plan(h) /\ Plan(h)[2] = "append"
  BY DEF Plan
<1> QED
  BY <1>2, <1>3 DEF ToSet

LEMMA NextSequel == TypeOK /\ Sequel /\ [Next]_vars => Sequel'
<1> SUFFICES ASSUME TypeOK, Sequel, [Next]_vars PROVE Sequel'
  OBVIOUS
<1> DEFINE Fits(s) ==
        /\ ToSet(s) \cap {"append", "archive"} # {} => Policy.chat
        /\ ToSet(s) \cap {"summarize", "saveSummary", "reload"} # {} => Policy.summary
        /\ "saveSummary" \in ToSet(s) => s = <<"saveSummary", "reload">>
        /\ "reload" \in ToSet(s) => s \in {<<"saveSummary", "reload">>, <<"reload">>}
<1>1. \A u \in Turns : Fits(tasks[u]) /\ tasks[u] \in Seq(Task)
  BY DEF Sequel, TypeOK
<1>2. Fits(<<>>)
  BY DEF ToSet
<1>3. ASSUME NEW s \in Seq(Task), Fits(s), s # <<>> PROVE Fits(Tail(s))
  <2>1. ToSet(Tail(s)) \subseteq ToSet(s)
    BY <1>3, HeadAndTail
  <2>2. Tail(<<"saveSummary", "reload">>) = <<"reload">> /\ Tail(<<"reload">>) = <<>>
    OBVIOUS
  <2>3. "saveSummary" \notin ToSet(<<"reload">>) /\ ToSet(<<>>) = {}
    BY DEF ToSet
  <2> QED
    BY <1>3, <2>1, <2>2, <2>3
<1>4. ASSUME Policy.summary PROVE Fits(<<"saveSummary", "reload">>)
  <2>1. ToSet(<<"saveSummary", "reload">>) = {"saveSummary", "reload"}
    BY DEF ToSet
  <2> QED
    BY <1>4, <2>1
<1>5. \A h : Fits(Plan(h))
  BY PlanElements
<1> HIDE DEF Fits
<1>6. ASSUME NEW t \in Turns, Background(t) PROVE \A u \in Turns : Fits(tasks'[u])
  <2>1. Head(tasks[t]) = "summarize" => Policy.summary
    BY <1>1, <1>6, BackgroundChain, HeadAndTail DEF Sequel
  <2> QED
    BY <1>1, <1>2, <1>3, <1>4, <1>6, <2>1, BackgroundChain
<1>7. ASSUME NEW t \in Turns, FinishRun(t) PROVE \A u \in Turns : Fits(tasks'[u])
  BY <1>1, <1>5, <1>7 DEF FinishRun, TypeOK
<1>8. CASE Crash
  BY <1>2, <1>8 DEF Crash, Sequel, Fits
<1>9. ASSUME NEW t \in Turns, Start(t) \/ LoadContext(t) \/ Answer(t) \/ FailRun(t)
      PROVE  UNCHANGED tasks
  BY <1>9, ForegroundChain
<1>10. CASE Expire \/ UNCHANGED vars
  BY <1>1, <1>10 DEF Expire, vars, locals, Sequel, Fits
<1>11. ASSUME \A u \in Turns : Fits(tasks'[u]) PROVE Sequel'
  BY <1>11 DEF Sequel, Fits
<1> QED
  BY <1>1, <1>6, <1>7, <1>8, <1>9, <1>10, <1>11 DEF Next, Step

\* A turn that may still write a summary.
Ahead(t) == \/ Policy.summary /\ phase[t] \in {"scope", "run"}
            \/ ToSet(tasks[t]) \cap {"summarize", "saveSummary"} # {}

\* Times are those of the clock; and a turn that may still write a summary has read the one
\* there is, and writes it with a later time.
Fresh ==
    /\ summary.stamp <= clock /\ \A t \in Turns : mark[t] <= clock
    /\ OneByOne /\ StoresHold =>
          \A t \in Active :
              /\ Ahead(t) => seen[t] = summary
              /\ "saveSummary" \in ToSet(tasks[t]) => summary.stamp <= mark[t]

\* A turn has steps to run only once it has ended.
Registered == \A t \in Turns : tasks[t] # <<>> => phase[t] = "background"

CoverInv == TypeOK /\ Alone /\ Registered /\ Sequel /\ Fresh

LEMMA NextRegistered == TypeOK /\ Registered /\ [Next]_vars => Registered'
<1> SUFFICES ASSUME TypeOK, Registered, [Next]_vars PROVE Registered'
  OBVIOUS
<1> USE DEF Registered
<1>1. ASSUME NEW t \in Turns, Background(t) PROVE Registered'
  BY <1>1, BackgroundChain
<1>2. ASSUME NEW t \in Turns, FinishRun(t) PROVE Registered'
  BY <1>2 DEF FinishRun, To, TypeOK
<1>3. ASSUME NEW t \in Turns, Start(t) \/ LoadContext(t) \/ Answer(t) \/ FailRun(t)
      PROVE  Registered'
  BY <1>3, ForegroundChain
<1>4. CASE Crash
  BY <1>4 DEF Crash
<1>5. CASE Expire \/ UNCHANGED vars
  BY <1>5 DEF Expire, vars, locals
<1> QED
  BY <1>1, <1>2, <1>3, <1>4, <1>5 DEF Next, Step

\* The time goes on, and a summary is given a time that was taken before.
LEMMA NextStamps ==
    ASSUME TypeOK, Fresh, [Next]_vars
    PROVE  /\ summary'.stamp <= clock' /\ \A t \in Turns : mark'[t] <= clock'
           /\ clock <= clock'
<1>1. /\ summary \in Summary /\ summary.stamp \in Nat /\ clock \in Nat
      /\ \A t \in Turns : mark[t] \in Nat /\ mark[t] <= clock
      /\ summary.stamp <= clock /\ mark \in [Turns -> Nat]
  BY DEF TypeOK, Summary, Fresh
<1>2. ASSUME NEW t \in Turns, ReadStamp(t)
      PROVE  UNCHANGED <<summary, clock>> /\ \A u \in Turns : mark'[u] <= clock
  BY <1>1, <1>2 DEF ReadStamp, stores
<1>3. ASSUME NEW t \in Turns, ResolveTools(t) \/ Answer(t)
      PROVE  UNCHANGED <<summary, mark>> /\ clock' \in {clock, clock + 1}
  BY <1>3 DEF ResolveTools, Answer, stores
<1>4. ASSUME NEW t \in Turns, Summarize(t)
      PROVE  /\ UNCHANGED summary /\ clock' \in {clock, clock + 1}
             /\ mark' \in {mark, [mark EXCEPT ![t] = clock']}
  BY <1>4 DEF Summarize, stores
<1>5. ASSUME NEW t \in Turns, SaveSummary(t)
      PROVE  /\ UNCHANGED <<mark, clock>>
             /\ summary' = summary \/ summary'.stamp = mark[t]
  BY <1>5 DEF SaveSummary
<1>6. ASSUME NEW t \in Turns,
             \/ Start(t) \/ ReadHot(t) \/ ListArchive(t) \/ Refill(t) \/ SearchMemory(t)
             \/ ReadSummary(t) \/ FinishRun(t) \/ FailRun(t)
             \/ Bill(t) \/ AppendHot(t) \/ Archive(t) \/ Ingest(t) \/ Reload(t)
      PROVE  UNCHANGED <<summary, mark, clock>>
  BY <1>6 DEF Start, ReadHot, ListArchive, Refill, SearchMemory, ReadSummary, FinishRun, FailRun,
              Bill, AppendHot, Archive, Ingest, Reload, stores, locals
<1>7. ASSUME Expire \/ Crash \/ UNCHANGED vars PROVE UNCHANGED <<summary, mark, clock>>
  BY <1>7 DEF Expire, Crash, vars, stores, locals
<1> QED
  BY <1>1, <1>2, <1>3, <1>4, <1>5, <1>6, <1>7 DEF Next, Step, LoadContext, Background

\* A step that only moves along the chain keeps a turn's summary up to date.
LEMMA ChainFresh ==
    ASSUME CoverInv, OneByOne, StoresHold, NEW t \in Turns, Background(t),
           UNCHANGED <<summary, seen, mark>>, ToSet(tasks'[t]) \subseteq ToSet(tasks[t])
    PROVE  /\ Ahead(t)' => seen'[t] = summary'
           /\ "saveSummary" \in ToSet(tasks'[t]) => summary'.stamp <= mark'[t]
<1>1. t \in Active /\ phase[t] = "background" /\ phase' = phase
  BY StepperActive, BackgroundChain DEF CoverInv, Step
<1> QED
  BY <1>1 DEF CoverInv, Fresh, Ahead

\* What Fresh says of a turn holds after each of its steps.
LEMMA StepFresh ==
    ASSUME CoverInv, OneByOne, StoresHold, NEW t \in Turns, Start(t) \/ Step(t)
    PROVE  /\ Ahead(t)' => seen'[t] = summary'
           /\ "saveSummary" \in ToSet(tasks'[t]) => summary'.stamp <= mark'[t]
<1> DEFINE Goal == /\ Ahead(t)' => seen'[t] = summary'
                   /\ "saveSummary" \in ToSet(tasks'[t]) => summary'.stamp <= mark'[t]
<1>1. /\ TypeOK /\ ToSet(<<>>) = {}
      /\ Step(t) => t \in Active
      /\ phase[t] # "background" => tasks[t] = <<>>
  BY StepperActive DEF CoverInv, Registered, ToSet
<1>2. /\ t \in Active /\ Ahead(t) => seen[t] = summary
      /\ t \in Active /\ "saveSummary" \in ToSet(tasks[t]) => summary.stamp <= mark[t]
  BY DEF CoverInv, Fresh
<1>3. CASE Start(t)
  BY <1>1, <1>3 DEF Start, Ahead, From, To, locals, TypeOK
<1>4. CASE ReadHot(t) \/ ReadStamp(t) \/ ListArchive(t) \/ Refill(t)
  <2>1. /\ phase[t] # "background" /\ tasks' = tasks
        /\ phase'[t] \in {"facts", "session", "list", "refill"}
    BY <1>1, <1>4 DEF ReadHot, ReadStamp, ListArchive, Refill, From, To, TypeOK
  <2> QED
    BY <1>1, <2>1 DEF Ahead
<1>5. CASE SearchMemory(t)
  <2>1. /\ phase[t] # "background" /\ tasks' = tasks
        /\ phase'[t] = IF Policy.summary THEN "summary" ELSE "scope"
    BY <1>1, <1>5 DEF SearchMemory, From, To, TypeOK, locals
  <2> QED
    BY <1>1, <2>1 DEF Ahead
<1>6. CASE ReadSummary(t)
  <2>1. /\ phase[t] # "background" /\ tasks' = tasks /\ summary' = summary
        /\ ~May("mongoRead") => seen'[t] = summary
    BY <1>1, <1>6 DEF ReadSummary, From, stores, TypeOK
  <2>2. ~May("mongoRead")
    BY DEF StoresHold, May
  <2> QED
    BY <1>1, <2>1, <2>2 DEF Ahead
<1>7. CASE ResolveTools(t) \/ Answer(t) \/ FailRun(t)
  <2>1. /\ phase[t] \in {"scope", "run"} /\ tasks' = tasks
        /\ UNCHANGED <<summary, seen, mark>>
    BY <1>7 DEF ResolveTools, Answer, FailRun, From, stores, locals
  <2>2. t \in Active /\ tasks[t] = <<>>
    BY <1>1, <1>7, <2>1 DEF Step, LoadContext
  <2> QED
    BY <1>1, <1>2, <2>1, <2>2 DEF Ahead
<1>8. CASE FinishRun(t)
  <2>1. /\ phase[t] = "run" /\ tasks'[t] = Plan(history[t]) /\ phase'[t] = "background"
        /\ UNCHANGED <<summary, seen, mark>>
    BY <1>1, <1>8 DEF FinishRun, From, To, stores, TypeOK
  <2>2. t \in Active
    BY <1>1, <1>8 DEF Step
  <2> QED
    BY <1>2, <2>1, <2>2, PlanElements DEF Ahead
<1>9. CASE Background(t)
  <2>1. /\ tasks[t] \in Seq(Task) /\ tasks[t] # <<>>
        /\ phase[t] = "background" /\ phase' = phase
    BY <1>1, <1>9, BackgroundChain DEF TypeOK
  <2>2. /\ ToSet(Tail(tasks[t])) \subseteq ToSet(tasks[t])
        /\ Head(tasks[t]) \in ToSet(tasks[t])
    BY <2>1, HeadAndTail
  <2>3. ASSUME Bill(t) \/ AppendHot(t) \/ Archive(t) \/ Ingest(t) \/ Reload(t) PROVE Goal
    <3>1. UNCHANGED <<summary, seen, mark>>
      BY <2>3 DEF Bill, AppendHot, Archive, Ingest, Reload
    <3>2. Head(tasks[t]) # "summarize"
      BY <2>3 DEF Bill, AppendHot, Archive, Ingest, Reload, Doing
    <3>3. ToSet(tasks'[t]) \subseteq ToSet(tasks[t])
      BY <1>1, <1>9, <2>2, <3>2, BackgroundChain
    <3> QED
      BY <1>9, <3>1, <3>3, ChainFresh
  <2>4. CASE Summarize(t)
    <3>1. CASE UNCHANGED <<summary, seen, mark>> /\ tasks'[t] = Tail(tasks[t])
      BY <1>9, <2>2, <3>1, ChainFresh
    <3>2. CASE UNCHANGED <<summary, seen>> /\ mark'[t] = clock'
      <4>1. seen[t] = summary
        BY <1>1, <1>2, <1>9, <2>2, <2>4 DEF Summarize, Doing, Ahead, Step
      <4>2. summary.stamp <= clock'
        <5>1. clock' = clock + 1 \/ clock' = clock
          BY <2>4 DEF Summarize
        <5> QED
          BY <1>1, <5>1 DEF CoverInv, Fresh, TypeOK, Summary
      <4> QED
        BY <3>2, <4>1, <4>2
    <3> QED
      BY <1>1, <2>4, <3>1, <3>2 DEF Summarize, Pop, stores, TypeOK
  <2>5. CASE SaveSummary(t)
    <3>1. tasks[t] = <<"saveSummary", "reload">>
      BY <2>2, <2>5 DEF SaveSummary, Doing, CoverInv, Sequel
    <3>2. tasks'[t] = <<"reload">>
      BY <1>1, <2>5, <3>1 DEF SaveSummary, Pop, TypeOK
    <3>3. ToSet(<<"reload">>) = {"reload"}
      BY DEF ToSet
    <3> QED
      BY <2>1, <3>2, <3>3 DEF Ahead
  <2> QED
    BY <1>9, <2>3, <2>4, <2>5 DEF Background
<1> QED
  BY <1>3, <1>4, <1>5, <1>6, <1>7, <1>8, <1>9 DEF Step, LoadContext

LEMMA NextFresh == CoverInv /\ [Next]_vars => Fresh'
<1> SUFFICES ASSUME CoverInv, [Next]_vars,
                    OneByOne /\ StoresHold => \/ \E t \in Turns : Start(t) \/ Step(t)
                                              \/ Crash \/ UNCHANGED vars
             PROVE  Fresh'
  BY DEF Next, Expire, StoresHold, May
<1>1. TypeOK /\ Fresh /\ Alone
  BY DEF CoverInv
<1>2. (OneByOne' <=> OneByOne) /\ (StoresHold' <=> StoresHold)
  BY DEF OneByOne, StoresHold, Next, vars
<1>3. ASSUME OneByOne, StoresHold, NEW u \in Active'
      PROVE  /\ Ahead(u)' => seen'[u] = summary'
             /\ "saveSummary" \in ToSet(tasks'[u]) => summary'.stamp <= mark'[u]
  <2>1. ASSUME NEW t \in Turns, Start(t) \/ Step(t) PROVE u = t
    BY <1>1, <1>3, <2>1, OnlyStepper
  <2>2. ASSUME NEW t \in Turns, Start(t) \/ Step(t)
        PROVE  /\ Ahead(t)' => seen'[t] = summary'
               /\ "saveSummary" \in ToSet(tasks'[t]) => summary'.stamp <= mark'[t]
    BY <1>3, <2>2, StepFresh
  <2>3. ~Crash
    BY <1>1, <1>3, CrashEnds
  <2>4. CASE UNCHANGED vars
    BY <1>1, <1>3, <2>4 DEF vars, locals, Fresh, Ahead, Active, Settled
  <2> QED
    BY <1>3, <2>1, <2>2, <2>3, <2>4
<1> QED
  BY <1>1, <1>2, <1>3, NextStamps DEF Fresh

LEMMA CoverInit == Init => CoverInv
<1> SUFFICES ASSUME Init PROVE CoverInv
  OBVIOUS
<1>1. TypeOK /\ Alone /\ Active = {} /\ ToSet(<<>>) = {}
  BY InitType, InitAlone DEF Init, Active, Settled, ToSet
<1>2. Len(load.legacy) \in Nat
  BY <1>1, LoadFields DEF TypeOK
<1>3. Registered /\ Sequel
  BY <1>1 DEF Init, Registered, Sequel
<1>4. Fresh
  BY <1>1, <1>2 DEF Init, Fresh, NoSummary
<1> QED
  BY <1>1, <1>3, <1>4 DEF CoverInv

LEMMA CoverNext == CoverInv /\ [Next]_vars => CoverInv'
  BY NextType, NextAlone, NextRegistered, NextSequel, NextFresh DEF CoverInv

\* Only SaveSummary writes a summary, and what it writes covers what its turn has seen.
LEMMA SummaryAfter ==
    ASSUME [Next]_vars, summary' # summary
    PROVE  \E t \in Turns :
              /\ SaveSummary(t)
              /\ summary' = [covers |-> seen[t].covers \cup ToSet(Candidates(history[t])),
                             stamp |-> mark[t]]
<1>1. \E t \in Turns : SaveSummary(t)
  BY DEF Next, Step, LoadContext, Background, Start, ReadHot, ReadStamp, ListArchive, Refill,
         SearchMemory, ReadSummary, ResolveTools, Answer, FinishRun, FailRun, Bill, AppendHot,
         Archive, Ingest, Summarize, Reload, Expire, Crash, stores, vars
<1> QED
  BY <1>1 DEF SaveSummary

LEMMA CoverStep ==
    ASSUME CoverInv, [Next]_vars, OneByOne, StoresHold
    PROVE  summary.covers \subseteq summary'.covers /\ summary.stamp <= summary'.stamp
<1>1. CASE summary' = summary
  BY <1>1 DEF CoverInv, TypeOK, Summary
<1>2. CASE summary' # summary
  <2>1. PICK t \in Turns :
           /\ SaveSummary(t)
           /\ summary' = [covers |-> seen[t].covers \cup ToSet(Candidates(history[t])),
                          stamp |-> mark[t]]
    BY <1>2, SummaryAfter
  <2>2. t \in Active /\ tasks[t] \in Seq(Task) /\ tasks[t] # <<>>
    BY <2>1, StepperActive DEF Step, Background, SaveSummary, Doing, CoverInv, TypeOK
  <2>3. "saveSummary" \in ToSet(tasks[t])
    BY <2>1, <2>2, HeadAndTail DEF SaveSummary, Doing
  <2>4. seen[t] = summary /\ summary.stamp <= mark[t]
    BY <2>2, <2>3 DEF CoverInv, Fresh, Ahead
  <2> QED
    BY <2>1, <2>4
<1> QED
  BY <1>1, <1>2

\* While turns do not overlap and the stores hold, whatever the models, the watermarks and the
\* length of the lists, the summary never covers less than before and its time never moves back.
THEOREM CoverageGrowsHolds == Spec => CoverageGrows
<1>1. CoverInv /\ [Next]_vars =>
         [OneByOne /\ StoresHold =>
             summary.covers \subseteq summary'.covers /\ summary.stamp <= summary'.stamp]_vars
  BY CoverStep
<1> QED
  BY <1>1, CoverInit, CoverNext, PTL DEF Spec, CoverageGrows

-----------------------------------------------------------------------------
(* Nothing forgotten.  Compression drops from the hot context what a turn    *)
(* read before, so the invariant follows what the turn in progress holds.    *)

\* The elements of a list: as many as it is long when it holds none twice.
LEMMA ListElements ==
    ASSUME NEW M, NEW s \in Seq(M)
    PROVE  /\ IsFiniteSet(ToSet(s))
           /\ IsInjective(s) => Cardinality(ToSet(s)) = Len(s)
<1>1. s \in Surjection(1..Len(s), ToSet(s))
  BY DEF Surjection, ToSet
<1>2. IsFiniteSet(1..Len(s)) /\ Cardinality(1..Len(s)) = Len(s)
  BY FS_Interval, Len(s) \in Nat
<1>3. /\ IsFiniteSet(ToSet(s))
      /\ Cardinality(ToSet(s)) = Cardinality(1..Len(s)) <=> s \in Injection(1..Len(s), ToSet(s))
  BY ONLY <1>1, <1>2, FS_Surjection
<1>4. IsInjective(s) => s \in Injection(1..Len(s), ToSet(s))
  BY <1>1 DEF IsInjective, Injection, Surjection
<1> QED
  BY <1>2, <1>3, <1>4

\* A history is what compression keeps of it and what it hands to the summary.
LEMMA WindowIsWhole ==
    ASSUME load \in Load, NEW h \in Seq(Message)
    PROVE  ToSet(h) \subseteq ToSet(Keep(h)) \cup ToSet(Candidates(h))
<1>1. {i \in DOMAIN h : TokensFrom(h, i) > load.low} \in SUBSET (1..Len(h))
  OBVIOUS
<1>2. CandidateCount(h) \in 0..Len(h)
  BY <1>1, IndexCount, Len(h) \in Nat DEF CandidateCount
<1> DEFINE n == CandidateCount(h)
<1>3. /\ n \in 0..Len(h)
      /\ DOMAIN SubSeq(h, 1, n) = 1..n /\ \A i \in 1..n : SubSeq(h, 1, n)[i] = h[i]
      /\ DOMAIN SubSeq(h, n + 1, Len(h)) = 1..(Len(h) - n)
      /\ \A i \in 1..(Len(h) - n) : SubSeq(h, n + 1, Len(h))[i] = h[n + i]
  BY <1>2
<1> HIDE DEF n
<1>4. ASSUME NEW i \in 1..Len(h)
      PROVE  h[i] \in ToSet(SubSeq(h, n + 1, Len(h))) \cup ToSet(SubSeq(h, 1, n))
  <2>1. CASE i <= n
    BY <1>3, <2>1 DEF ToSet
  <2>2. CASE i > n
    <3>1. i - n \in 1..(Len(h) - n) /\ SubSeq(h, n + 1, Len(h))[i - n] = h[i]
      BY <1>3, <2>2
    <3> QED
      BY <1>3, <3>1 DEF ToSet
  <2>3. i <= n \/ i > n
    BY <1>3
  <2> QED
    BY <2>1, <2>2, <2>3
<1>5. \A x \in ToSet(h) : \E i \in 1..Len(h) : x = h[i]
  BY DEF ToSet
<1> QED
  BY <1>4, <1>5 DEF Keep, Candidates, n

\* When no summary was saved and the archive fits, a refill reads all of it.
LEMMA ListAfterIsAll ==
    ASSUME NEW s \in Seq(Message), \A i \in DOMAIN s : s[i].at > 0,
           NEW limit \in Nat, Len(s) <= limit
    PROVE  ListAfter(s, 0, limit) = s
<1>1. {i \in DOMAIN s : s[i].at <= 0} = {}
  <2>1. \A m \in Message : m.at \in Nat
    BY DEF Message
  <2>2. \A i \in DOMAIN s : s[i].at \in Nat
    BY <2>1
  <2> QED
    BY <2>2
<1>2. Before(s, 0) = 0
  BY <1>1, FS_EmptySet DEF Before
<1>3. SubSeq(s, 1, Len(s)) = s
  OBVIOUS
<1> QED
  BY <1>2, <1>3 DEF ListAfter, Newest

\* A turn records once it runs, and then it has recorded something; all messages there are,
\* and all that are exposed, are recorded or archived.
Recorded ==
    /\ \A t \in Turns :
          /\ phase[t] \notin {"run", "background", "failed"} => record[t] = <<>>
          /\ phase[t] \in {"run", "background"} => record[t] # <<>>
    /\ IsFiniteSet(Messages)
    /\ Exposed \subseteq Messages

\* A record changes by one message more, in the steps ResolveTools and Answer.
LEMMA RecordAfter ==
    ASSUME TypeOK, Recorded, [Next]_vars, record' # record
    PROVE  \E t \in Turns, m \in Message :
              /\ ResolveTools(t) \/ Answer(t)
              /\ phase'[t] = "run" /\ record'[t] # <<>>
              /\ ToSet(record'[t]) = ToSet(record[t]) \cup {m}
              /\ \A u \in Turns \ {t} : record'[u] = record[u] /\ phase'[u] = phase[u]
<1>1. \E t \in Turns : ResolveTools(t) \/ Answer(t)
  <2>1. \A t \in Turns : Background(t) => record' = record
    BY BackgroundChain
  <2> QED
    BY <2>1 DEF Next, Step, LoadContext, Start, ReadHot, ReadStamp, ListArchive, Refill,
                SearchMemory, ReadSummary, FinishRun, FailRun, Expire, Crash, locals, vars
<1>2. PICK t \in Turns : ResolveTools(t) \/ Answer(t)
  BY <1>1
<1>3. \A u \in Turns \ {t} : record'[u] = record[u] /\ phase'[u] = phase[u]
  BY <1>2, OthersKeep DEF Step, LoadContext
<1>4. clock \in Nat /\ clock' \in {clock, clock + 1} /\ clock' \in Nat
  BY <1>2 DEF ResolveTools, Answer, TypeOK
<1>5. CASE ResolveTools(t)
  <2> DEFINE m == NewMessage(t, 1, clock')
  <2>1. m \in Message
    BY <1>4 DEF NewMessage, Message
  <2>2. record[t] = <<>> /\ record'[t] = <<m>> /\ phase'[t] = "run"
    BY <1>5 DEF ResolveTools, From, To, Recorded, TypeOK
  <2>3. ToSet(<<m>>) = {m} /\ ToSet(<<>>) = {}
    BY DEF ToSet
  <2> QED
    BY <1>3, <1>5, <2>1, <2>2, <2>3
<1>6. CASE Answer(t)
  <2> DEFINE m == NewMessage(t, Len(record[t]) + 1, clock')
  <2>1. record[t] \in Seq(Message) /\ Len(record[t]) + 1 \in Nat
    BY DEF TypeOK
  <2>2. m \in Message
    BY <1>4, <2>1 DEF NewMessage, Message
  <2>3. record'[t] = Append(record[t], m) /\ phase'[t] = "run"
    BY <1>6 DEF Answer, From, TypeOK
  <2> HIDE DEF m
  <2>4. Append(record[t], m) = record[t] \o <<m>> /\ <<m>> \in Seq(Message)
    BY <2>1, <2>2
  <2>5. ToSet(Append(record[t], m)) = ToSet(record[t]) \cup ToSet(<<m>>)
    BY <2>1, <2>4, ConcatElements
  <2>6. Append(record[t], m) # <<>>
    BY <2>1, <2>2
  <2>7. ToSet(<<m>>) = {m}
    BY DEF ToSet
  <2> QED
    BY <1>3, <1>6, <2>2, <2>3, <2>5, <2>6, <2>7
<1> QED
  BY <1>2, <1>5, <1>6

\* The archive grows by a message that is recorded.
LEMMA ArchiveAfter ==
    ASSUME TypeOK, [Next]_vars, archive' # archive
    PROVE  \E t \in Turns : \E i \in DOMAIN record[t] :
              /\ Archive(t)
              /\ ToSet(archive') = ToSet(archive) \cup {record[t][i]}
<1>1. \E t \in Turns : Archive(t)
  BY DEF Next, Step, LoadContext, Background, Start, ReadHot, ReadStamp, ListArchive, Refill,
         SearchMemory, ReadSummary, ResolveTools, Answer, FinishRun, FailRun, Bill, AppendHot,
         SaveSummary, Ingest, Summarize, Reload, Expire, Crash, stores, vars
<1>2. PICK t \in Turns : Archive(t)
  BY <1>1
<1>3. PICK i \in DOMAIN record[t] : archive' = Insert(archive, record[t][i])
  BY <1>2 DEF Archive
<1>4. archive \in Seq(Message) /\ record[t][i] \in Message
  BY DEF TypeOK
<1> QED
  BY <1>2, <1>3, <1>4, InsertAdds

\* No message is ever lost from both.
LEMMA MessagesGrow ==
    ASSUME TypeOK, Recorded, [Next]_vars
    PROVE  Messages \subseteq Messages' /\ IsFiniteSet(Messages')
<1>1. IsFiniteSet(Messages)
  BY DEF Recorded
<1>2. CASE record' # record
  <2>1. PICK t \in Turns, m \in Message :
           /\ ResolveTools(t) \/ Answer(t)
           /\ ToSet(record'[t]) = ToSet(record[t]) \cup {m}
           /\ \A u \in Turns \ {t} : record'[u] = record[u]
    BY <1>2, RecordAfter
  <2>2. archive' = archive
    BY <2>1 DEF ResolveTools, Answer, stores
  <2>3. Messages' = Messages \cup {m}
    BY <2>1, <2>2 DEF Messages
  <2> QED
    BY <1>1, <2>3, FS_AddElement
<1>3. CASE record' = record /\ archive' # archive
  <2>1. PICK t \in Turns : \E i \in DOMAIN record[t] :
           ToSet(archive') = ToSet(archive) \cup {record[t][i]}
    BY <1>3, ArchiveAfter
  <2>2. \A i \in DOMAIN record[t] : record[t][i] \in ToSet(record[t])
    BY DEF ToSet
  <2>3. Messages' = Messages
    BY <1>3, <2>1, <2>2 DEF Messages
  <2> QED
    BY <1>1, <2>3
<1>4. CASE record' = record /\ archive' = archive
  BY <1>1, <1>4 DEF Messages
<1> QED
  BY <1>2, <1>3, <1>4

LEMMA NextRecorded == IInv /\ Recorded /\ [Next]_vars => Recorded'
<1> SUFFICES ASSUME IInv, Recorded, [Next]_vars PROVE Recorded'
  OBVIOUS
<1>1. TypeOK
  BY DEF IInv
<1>2. Exposed' \subseteq Messages'
  <2>1. Exposed \subseteq Messages /\ Messages \subseteq Messages'
    BY <1>1, MessagesGrow DEF Recorded
  <2>2. \A t \in Turns : ToSet(record[t]) \subseteq Messages
    BY DEF Messages
  <2> QED
    BY <2>1, <2>2, NextExposes
<1> DEFINE Fits(u) == /\ phase[u] \notin {"run", "background", "failed"} => record[u] = <<>>
                      /\ phase[u] \in {"run", "background"} => record[u] # <<>>
<1>3. CASE record' # record
  <2>1. PICK t \in Turns :
           /\ phase'[t] = "run" /\ record'[t] # <<>>
           /\ \A u \in Turns \ {t} : record'[u] = record[u] /\ phase'[u] = phase[u]
    BY <1>1, <1>3, RecordAfter
  <2>2. \A u \in Turns : Fits(u)'
    BY <2>1 DEF Recorded
  <2> QED
    BY <1>1, <1>2, <2>2, MessagesGrow DEF Recorded
<1>4. CASE record' = record
  <2> SUFFICES ASSUME NEW u \in Turns
               PROVE  Fits(u)'
    BY <1>1, <1>2, MessagesGrow DEF Recorded
  <2>1. Fits(u)
    BY DEF Recorded
  <2>2. ASSUME NEW t \in Turns, Background(t) PROVE Fits(u)'
    BY <1>1, <1>4, <2>1, <2>2, BackgroundChain
  <2>3. ASSUME NEW t \in Turns, ResolveTools(t) PROVE Fits(u)'
    <3>1. phase'[t] = "failed" /\ phase' = [phase EXCEPT ![t] = "failed"]
      <4>1. CASE record' = [record EXCEPT ![t] = <<NewMessage(t, 1, clock')>>]
        <5>1. record[t] = <<>>
          BY <2>3 DEF ResolveTools, From, Recorded
        <5>2. record'[t] = <<NewMessage(t, 1, clock')>>
          BY <1>1, <4>1 DEF TypeOK
        <5> QED
          BY <1>4, <5>1, <5>2
      <4> QED
        BY <1>1, <2>3, <4>1 DEF ResolveTools, To, TypeOK
    <3> QED
      BY <1>1, <1>4, <2>1, <3>1 DEF TypeOK
  <2>4. ASSUME NEW t \in Turns,
               \/ Start(t) \/ ReadHot(t) \/ ReadStamp(t) \/ ListArchive(t) \/ Refill(t)
               \/ SearchMemory(t) \/ ReadSummary(t)
        PROVE  Fits(u)'
    <3>1. /\ phase[t] \notin {"run", "background", "failed"}
          /\ phase'[t] \notin {"run", "background", "failed"}
          /\ \A v \in Turns \ {t} : phase'[v] = phase[v]
      BY <1>1, <2>4 DEF Start, ReadHot, ReadStamp, ListArchive, Refill, SearchMemory,
                        ReadSummary, From, To, TypeOK
    <3> QED
      BY <1>4, <2>1, <3>1 DEF Recorded
  <2>5. ASSUME NEW t \in Turns, FinishRun(t) \/ FailRun(t) PROVE Fits(u)'
    BY <1>1, <1>4, <2>1, <2>5 DEF FinishRun, FailRun, From, To, TypeOK
  <2>6. ASSUME NEW t \in Turns, Answer(t) PROVE Fits(u)'
    BY <1>4, <2>1, <2>6 DEF Answer
  <2>7. CASE Crash
    BY <1>1, <1>4, <2>1, <2>7 DEF Crash, Active, Settled, TypeOK
  <2>8. CASE Expire \/ UNCHANGED vars
    BY <1>4, <2>1, <2>8 DEF Expire, vars
  <2> QED
    BY <2>2, <2>3, <2>4, <2>5, <2>6, <2>7, <2>8 DEF Next, Step, LoadContext
<1> QED
  BY <1>3, <1>4

\* The stores, while nothing is cut: what a refill reads, and the property.
Stored ==
    /\ hot = <<>> => /\ Len(archive) <= load.fallback /\ summary.stamp = 0
                     /\ \A i \in DOMAIN archive : archive[i].at > 0
    /\ hot # <<>> => ToSet(archive) \subseteq ToSet(hot) \cup summary.covers

\* A turn that loads its context from the archive.
Reading(t) ==
    /\ phase[t] \in {"session", "list", "refill"} => hot = <<>>
    /\ phase[t] = "list" => mark[t] = 0
    /\ phase[t] = "refill" => ToSet(archive) \subseteq ToSet(history[t])

\* A turn that has loaded it: what it may write back has everything in it.
Working(t) ==
    Policy.chat /\ phase[t] \notin {"redis", "session", "list", "refill"} =>
        /\ ToSet(archive) \subseteq ToSet(history[t]) \cup summary.covers \cup ToSet(record[t])
        /\ hot = <<>> => archive = <<>>
        /\ tasks[t] = <<"reload">> => ToSet(Candidates(history[t])) \subseteq summary.covers
        /\ phase[t] = "background" /\ "append" \notin ToSet(tasks[t]) =>
               ToSet(record[t]) \subseteq ToSet(hot)

Whole == OneByOne /\ StoresHold /\ Uncut
MemInv == Whole => Stored /\ \A t \in Active : Reading(t) /\ Working(t)

KeptInv == OnceInv /\ CoverInv /\ Recorded /\ MemInv

\* Loads do not change, and what was cut stays so.
LEMMA WholeBefore ==
    ASSUME TypeOK, Recorded, [Next]_vars, Whole'
    PROVE  Whole /\ load' = load
<1>1. load' = load
  BY DEF Next, vars
<1>2. Cardinality(Messages) <= Cardinality(Messages')
  BY MessagesGrow, FS_Subset
<1>3. /\ Cardinality(Messages) \in Nat /\ Cardinality(Messages') \in Nat
      /\ load.length \in Nat
  BY MessagesGrow, FS_CardinalityType, LoadFields DEF Recorded, TypeOK
<1> QED
  BY <1>1, <1>2, <1>3 DEF Whole, OneByOne, StoresHold, Uncut

\* While a turn loads its context the stores hold what they held.
LEMMA LoadKeeps ==
    ASSUME KeptInv, Whole, NEW t \in Turns, LoadContext(t), load' = load
    PROVE  Stored' /\ (t \in Active' => Reading(t)' /\ Working(t)')
<1> USE DEF From, To, TypeOK
<1>1. /\ TypeOK /\ Stored /\ Reading(t) /\ Working(t)
      /\ tasks[t] = <<>> /\ tasks' = tasks
  <2>1. t \in Active /\ phase[t] # "background"
    BY StepperActive DEF Step, KeptInv, CoverInv, LoadContext, ReadHot, ReadStamp, ListArchive,
                         Refill, SearchMemory, ReadSummary, ResolveTools
  <2> QED
    BY <2>1, ForegroundChain DEF KeptInv, CoverInv, MemInv, Registered
<1>2. /\ ~May("redisRead") /\ ~May("mongoRead") /\ ~May("redisRefill")
  BY DEF Whole, StoresHold, May
<1>3. CASE ReadHot(t)
  <2>1. /\ UNCHANGED <<hot, archive, summary>>
        /\ \/ hot # <<>> /\ history'[t] = hot /\ phase'[t] = "facts"
           \/ hot = <<>> /\ phase'[t] = "session"
    BY <1>1, <1>2, <1>3 DEF ReadHot, stores
  <2> QED
    BY <1>1, <2>1 DEF Stored, Reading, Working
<1>4. CASE ReadStamp(t)
  <2>1. /\ UNCHANGED <<hot, archive, summary>> /\ phase[t] = "session"
        /\ mark'[t] = summary.stamp /\ phase'[t] = "list"
    BY <1>1, <1>2, <1>4 DEF ReadStamp, stores
  <2> QED
    BY <1>1, <2>1 DEF Stored, Reading, Working
<1>5. CASE ListArchive(t)
  <2>1. hot = <<>> /\ mark[t] = 0
    BY <1>1, <1>5 DEF ListArchive, Reading
  <2>2. ListAfter(archive, mark[t], load.fallback) = archive
    BY <1>1, <2>1, ListAfterIsAll, LoadFields DEF Stored
  <2>3. /\ UNCHANGED <<hot, archive, summary>>
        /\ history'[t] = archive
        /\ phase'[t] = IF archive = <<>> THEN "facts" ELSE "refill"
    BY <1>1, <1>2, <1>5, <2>2 DEF ListArchive, stores
  <2> QED
    BY <1>1, <2>1, <2>3 DEF Stored, Reading, Working
<1>6. CASE Refill(t)
  <2>1. /\ UNCHANGED <<archive, summary, history, record>> /\ hot' = history[t]
        /\ phase'[t] = "facts" /\ hot = <<>> /\ ToSet(archive) \subseteq ToSet(history[t])
    BY <1>1, <1>2, <1>6 DEF Refill, Reading
  <2>2. history[t] = <<>> => archive = <<>>
    BY <1>1, <2>1 DEF ToSet
  <2> QED
    BY <1>1, <2>1, <2>2 DEF Stored, Reading, Working
<1>7. CASE SearchMemory(t) \/ ReadSummary(t)
  <2>1. /\ UNCHANGED <<hot, archive, summary, history, record>>
        /\ phase[t] \in {"facts", "summary"} /\ phase'[t] \in {"summary", "scope"}
    BY <1>1, <1>7 DEF SearchMemory, ReadSummary, stores, locals
  <2> QED
    BY <1>1, <2>1 DEF Stored, Reading, Working
<1>8. CASE ResolveTools(t)
  <2>1. /\ UNCHANGED <<hot, archive, summary, history>>
        /\ phase[t] = "scope" /\ phase'[t] \in {"failed", "run"}
    BY <1>1, <1>8 DEF ResolveTools, stores
  <2>2. record[t] = <<>> /\ ToSet(<<>>) = {}
    BY <2>1 DEF KeptInv, Recorded, ToSet
  <2> QED
    BY <1>1, <2>1, <2>2 DEF Stored, Reading, Working
<1> QED
  BY <1>3, <1>4, <1>5, <1>6, <1>7, <1>8 DEF LoadContext

\* Nor do a new request, and the run of a turn.
LEMMA RunKeeps ==
    ASSUME KeptInv, Whole, NEW t \in Turns, load' = load,
           Start(t) \/ Answer(t) \/ FinishRun(t) \/ FailRun(t)
    PROVE  Stored' /\ (t \in Active' => Reading(t)' /\ Working(t)')
<1> USE DEF From, To, TypeOK
<1>1. /\ TypeOK /\ Stored
      /\ t \in Active => Reading(t) /\ Working(t)
      /\ phase[t] # "background" => tasks[t] = <<>>
  BY DEF KeptInv, CoverInv, MemInv, Registered
<1>2. Stored'
  BY <1>1 DEF Start, Answer, FinishRun, FailRun, stores, Stored
<1>3. CASE Start(t)
  BY <1>2, <1>3 DEF Start, Reading, Working, Active, Settled
<1>4. CASE Answer(t)
  <2>1. /\ UNCHANGED <<hot, archive, summary, history, phase, tasks>> /\ phase[t] = "run"
        /\ record' # record /\ t \in Active
    <3>1. record'[t] = Append(record[t], NewMessage(t, Len(record[t]) + 1, clock'))
      BY <1>1, <1>4 DEF Answer
    <3>2. Append(record[t], NewMessage(t, Len(record[t]) + 1, clock')) # record[t]
      BY <1>1
    <3> QED
      BY <1>1, <1>4, <3>1, <3>2, StepperActive DEF Answer, stores, Step
  <2>2. ToSet(record[t]) \subseteq ToSet(record'[t])
    <3>1. record[t] \in Seq(Message)
      BY <1>1
    <3>2. \A x : LET new == Append(record[t], x) IN
             \A i \in DOMAIN record[t] : i \in DOMAIN new /\ new[i] = record[t][i]
      BY <3>1
    <3>3. record'[t] = Append(record[t], NewMessage(t, Len(record[t]) + 1, clock'))
      BY <1>1, <1>4 DEF Answer
    <3> QED
      BY <3>2, <3>3 DEF ToSet
  <2> QED
    BY <1>1, <1>2, <2>1, <2>2 DEF Reading, Working
<1>5. CASE FinishRun(t)
  <2>1. /\ UNCHANGED <<hot, archive, summary, history, record>> /\ phase[t] = "run"
        /\ phase'[t] = "background" /\ tasks'[t] = Plan(history[t]) /\ t \in Active
    BY <1>1, <1>5, StepperActive DEF FinishRun, stores, Step
  <2>2. Plan(history[t]) # <<"reload">>
    <3>1. "reload" \in ToSet(<<"reload">>)
      BY DEF ToSet
    <3> QED
      BY <3>1, PlanElements
  <2> QED
    BY <1>1, <1>2, <2>1, <2>2, PlanElements DEF Reading, Working
<1>6. CASE FailRun(t)
  BY <1>1, <1>2, <1>6 DEF FailRun, Active, Settled
<1> QED
  BY <1>3, <1>4, <1>5, <1>6

\* A turn in the background: what its chain may look like at each step.
LEMMA ChainShape ==
    ASSUME IInv, Sequel, NEW t \in Turns, tasks[t] # <<>>
    PROVE  /\ Head(tasks[t]) \notin {"bill", "append"} => "append" \notin ToSet(tasks[t])
           /\ Head(tasks[t]) # "append" /\ "append" \notin ToSet(Tail(tasks[t])) =>
                  "append" \notin ToSet(tasks[t])
           /\ Head(tasks[t]) # "saveSummary" => Tail(tasks[t]) # <<"reload">>
           /\ Head(tasks[t]) = "reload" => tasks[t] = <<"reload">>
           /\ Head(tasks[t]) = "saveSummary" => tasks[t] = <<"saveSummary", "reload">>
           /\ Head(tasks[t]) \notin {"bill", "ingest"} => Policy.chat
<1>1. tasks[t] \in Seq(Task) /\ Head(tasks[t]) = tasks[t][1]
  BY DEF IInv, TypeOK
<1>2. /\ Head(tasks[t]) \in ToSet(tasks[t]) /\ Head(tasks[t]) \in Task
      /\ ToSet(tasks[t]) = {Head(tasks[t])} \cup ToSet(Tail(tasks[t]))
  BY <1>1, HeadAndTail
<1>3. Head(tasks[t]) \notin {"bill", "append"} => "append" \notin ToSet(tasks[t])
  BY <1>1 DEF IInv, ChainOrder, ToSet
<1>4. ASSUME Tail(tasks[t]) = <<"reload">> PROVE Head(tasks[t]) = "saveSummary"
  <2>1. "reload" \in ToSet(<<"reload">>)
    BY DEF ToSet
  <2>2. tasks[t] \in {<<"saveSummary", "reload">>, <<"reload">>}
    BY <1>2, <1>4, <2>1 DEF Sequel
  <2>3. tasks[t] # <<"reload">>
    <3>1. Len(<<"reload">>) = 1
      OBVIOUS
    <3>2. Len(Tail(tasks[t])) = Len(tasks[t]) - 1 /\ Len(tasks[t]) \in Nat
      BY <1>1
    <3>3. Len(Tail(tasks[t])) = 1
      BY <1>4, <3>1
    <3>4. Len(tasks[t]) = 2
      BY <3>2, <3>3
    <3> QED
      BY ONLY <3>1, <3>4
  <2>4. Head(<<"saveSummary", "reload">>) = "saveSummary"
    OBVIOUS
  <2> QED
    BY <2>2, <2>3, <2>4
<1>5. Head(tasks[t]) = "reload" => tasks[t] = <<"reload">>
  <2>1. Head(<<"saveSummary", "reload">>) = "saveSummary"
    OBVIOUS
  <2> QED
    BY <1>2, <2>1 DEF Sequel
<1>6. Policy.summary => Policy.chat
  BY ConstantsAssumption
<1> QED
  BY <1>2, <1>3, <1>4, <1>5, <1>6 DEF Sequel, Task

\* While nothing is cut, the record of a turn is pushed behind the whole hot context.
LEMMA AppendWhole ==
    ASSUME KeptInv, Whole, NEW t \in Turns, Doing(t, "append")
    PROVE  Newest(hot \o record[t], load.length) = hot \o record[t]
<1>1. /\ IInv /\ TypeOK /\ hot \in Seq(Message) /\ record[t] \in Seq(Message)
      /\ IsInjective(hot) /\ IsInjective(record[t])
  BY OnceParts, RecordOnce DEF KeptInv, OnceInv, IInv, TypeOK
<1>2. ~Visible(t)
  <2>1. "append" \in ToSet(tasks[t])
    BY <1>1, HeadAndTail DEF Doing, TypeOK
  <2> QED
    BY <1>1, <2>1 DEF IInv, ShownByAppend
<1>3. \A x \in ToSet(hot) : x \notin ToSet(record[t])
  BY <1>1, <1>2, ExposedParts DEF Visible, IInv, OwnRecord
<1>4. /\ hot \o record[t] \in Seq(Message) /\ IsInjective(hot \o record[t])
      /\ ToSet(hot \o record[t]) = ToSet(hot) \cup ToSet(record[t])
  BY <1>1, <1>3, ConcatOnce, ConcatElements
<1>5. ToSet(hot \o record[t]) \subseteq Messages /\ IsFiniteSet(Messages)
  BY <1>4, ExposedParts DEF Messages, KeptInv, Recorded
<1>6. Cardinality(ToSet(hot \o record[t])) = Len(hot \o record[t])
  BY <1>4, ListElements
<1>7. /\ Cardinality(ToSet(hot \o record[t])) <= Cardinality(Messages)
      /\ Cardinality(Messages) \in Nat
  BY <1>5, FS_Subset, FS_CardinalityType
<1>8. Cardinality(Messages) <= load.length /\ load.length \in Nat
  BY <1>1, LoadFields DEF Whole, Uncut, TypeOK
<1>9. Len(hot \o record[t]) <= load.length
  BY <1>4, <1>6, <1>7, <1>8
<1> QED
  BY <1>9 DEF Newest

\* Nor do the steps after a turn forget anything.
LEMMA BackgroundKeeps ==
    ASSUME KeptInv, Whole, NEW t \in Turns, Background(t), load' = load, [Next]_vars
    PROVE  Stored' /\ (t \in Active' => Reading(t)' /\ Working(t)')
<1> USE DEF TypeOK, Doing, From, Pop
<1>1. /\ TypeOK /\ IInv /\ Sequel /\ Stored /\ Reading(t) /\ Working(t)
      /\ tasks[t] \in Seq(Task) /\ tasks[t] # <<>>
      /\ phase[t] = "background" /\ phase' = phase /\ record' = record /\ record[t] # <<>>
      /\ history' = history
  <2>1. t \in Active /\ phase[t] = "background"
    BY StepperActive, BackgroundChain DEF Step, KeptInv, CoverInv
  <2>2. history' = history
    BY DEF Background, Bill, AppendHot, Archive, Ingest, Summarize, SaveSummary, Reload
  <2> QED
    BY <2>1, <2>2, BackgroundChain DEF KeptInv, OnceInv, CoverInv, MemInv, Recorded, IInv
<1>2. /\ Reading(t)'
      /\ t \in Active' => tasks'[t] # <<>>
  BY <1>1 DEF Reading, Active, Settled
<1>3. record[t] \in Seq(Message) /\ history[t] \in Seq(Message) /\ ToSet(record[t]) # {}
  <2>1. record[t] \in Seq(Message) /\ history[t] \in Seq(Message) /\ 1 \in DOMAIN record[t]
    BY <1>1
  <2> QED
    BY <2>1 DEF ToSet
<1>4. CASE Bill(t) \/ Ingest(t)
  <2>1. /\ UNCHANGED <<hot, archive, summary>> /\ Head(tasks[t]) \in {"bill", "ingest"}
        /\ tasks'[t] \in {Tail(tasks[t]), <<>>}
    BY <1>1, <1>4 DEF Bill, Ingest
  <2>2. Stored'
    BY <1>1, <2>1 DEF Stored
  <2> QED
    BY <1>1, <1>2, <2>1, <2>2, ChainShape DEF Working
<1>5. CASE Summarize(t)
  <2>1. /\ UNCHANGED <<hot, archive, summary>> /\ Head(tasks[t]) = "summarize"
        /\ tasks'[t] \in {Tail(tasks[t]), <<"saveSummary", "reload">>}
    BY <1>1, <1>5 DEF Summarize, stores
  <2>2. Stored'
    BY <1>1, <2>1 DEF Stored
  <2>3. <<"saveSummary", "reload">> # <<"reload">>
    OBVIOUS
  <2> QED
    BY <1>1, <1>2, <2>1, <2>2, <2>3, ChainShape DEF Working
<1>6. CASE AppendHot(t)
  <2>1. Head(tasks[t]) = "append" /\ Policy.chat /\ ~May("redisAppend")
    BY <1>1, <1>6, ChainShape DEF AppendHot, Whole, StoresHold, May
  <2>2. /\ UNCHANGED <<archive, summary>> /\ hot' = hot \o record[t]
        /\ tasks'[t] = Tail(tasks[t])
    BY <1>1, <1>6, <2>1, AppendWhole DEF AppendHot
  <2>3. ToSet(hot') = ToSet(hot) \cup ToSet(record[t]) /\ hot' # <<>>
    <3>1. ToSet(hot \o record[t]) = ToSet(hot) \cup ToSet(record[t])
      BY <1>1, <1>3, ConcatElements
    <3>2. ToSet(<<>>) = {}
      BY DEF ToSet
    <3> QED
      BY <1>3, <2>2, <3>1, <3>2
  <2>4. hot = <<>> => ToSet(archive) = {}
    BY <1>1, <2>1 DEF Working, ToSet
  <2>5. Stored'
    BY <1>1, <2>2, <2>3, <2>4 DEF Stored
  <2> QED
    BY <1>1, <1>2, <2>1, <2>2, <2>3, <2>5, ChainShape DEF Working
<1>7. CASE Archive(t)
  <2>1. Head(tasks[t]) = "archive" /\ Policy.chat /\ UNCHANGED <<hot, summary>>
    BY <1>1, <1>7, ChainShape DEF Archive
  <2>2. ToSet(record[t]) \subseteq ToSet(hot) /\ hot # <<>>
    <3>1. ToSet(record[t]) \subseteq ToSet(hot)
      BY <1>1, <2>1, ChainShape DEF Working
    <3>2. ToSet(<<>>) = {}
      BY DEF ToSet
    <3> QED
      BY <1>3, <3>1, <3>2
  <2>3. ToSet(archive') \subseteq ToSet(archive) \cup ToSet(record[t])
    <3>1. archive' = archive \/ \E i \in DOMAIN record[t] : archive' = Insert(archive, record[t][i])
      BY <1>7 DEF Archive
    <3>2. \A i \in DOMAIN record[t] : record[t][i] \in ToSet(record[t])
      BY DEF ToSet
    <3>3. \A i \in DOMAIN record[t] :
             ToSet(Insert(archive, record[t][i])) = ToSet(archive) \cup {record[t][i]}
      BY <1>1, <1>3, InsertAdds
    <3> QED
      BY <3>1, <3>2, <3>3
  <2>4. tasks'[t] \in {Tail(tasks[t]), tasks[t]}
    BY <1>1, <1>7 DEF Archive
  <2>5. Stored'
    BY <1>1, <2>1, <2>2, <2>3 DEF Stored
  <2>6. tasks'[t] # <<"reload">> /\ (t \in Active' => "append" \notin ToSet(tasks[t]))
    <3>1. Head(<<"reload">>) # "archive"
      OBVIOUS
    <3> QED
      BY <1>1, <2>1, <2>4, <3>1, ChainShape
  <2> QED
    BY <1>1, <1>2, <2>1, <2>2, <2>3, <2>5, <2>6 DEF Working
<1>8. CASE SaveSummary(t)
  <2>1. /\ Head(tasks[t]) = "saveSummary" /\ Policy.chat /\ UNCHANGED <<hot, archive>>
        /\ ToSet(Candidates(history[t])) \subseteq summary'.covers
    <3>1. Head(tasks[t]) = "saveSummary" /\ UNCHANGED <<hot, archive>>
      BY <1>8 DEF SaveSummary
    <3>2. ~May("summarySave")
      BY DEF Whole, StoresHold, May
    <3>3. summary'.covers = seen[t].covers \cup ToSet(Candidates(history[t]))
      BY <1>8, <3>2 DEF SaveSummary
    <3>4. Policy.chat
      BY <1>1, <3>1, ChainShape
    <3> QED
      BY <3>1, <3>3, <3>4
  <2>2. summary.covers \subseteq summary'.covers
    BY CoverStep DEF KeptInv, Whole
  <2>3. ToSet(record[t]) \subseteq ToSet(hot) /\ hot # <<>>
    <3>1. ToSet(record[t]) \subseteq ToSet(hot)
      BY <1>1, <2>1, ChainShape DEF Working
    <3>2. ToSet(<<>>) = {}
      BY DEF ToSet
    <3> QED
      BY <1>3, <3>1, <3>2
  <2>4. Stored'
    BY <1>1, <2>1, <2>2, <2>3 DEF Stored
  <2>5. Candidates(history[t])' = Candidates(history[t])
    BY <1>1 DEF Candidates, CandidateCount
  <2> QED
    BY <1>1, <1>2, <2>1, <2>2, <2>3, <2>4, <2>5 DEF Working
<1>9. CASE Reload(t)
  <2>1. tasks[t] = <<"reload">> /\ Policy.chat /\ UNCHANGED <<archive, summary>>
    BY <1>1, <1>9, ChainShape DEF Reload
  <2>2. tasks'[t] = <<>>
    <3>1. Tail(<<"reload">>) = <<>>
      OBVIOUS
    <3> QED
      BY <1>1, <1>9, <2>1, <3>1 DEF Reload
  <2>3. CASE hot' = hot
    BY <1>1, <1>2, <2>1, <2>2, <2>3 DEF Stored
  <2>4. CASE hot' = Keep(history[t]) \o record[t]
    <3>1. load \in Load /\ Keep(history[t]) \in Seq(Message)
      BY <1>1, <1>3, WindowIsPart
    <3>2. ToSet(hot') = ToSet(Keep(history[t])) \cup ToSet(record[t])
      BY <1>3, <2>4, <3>1, ConcatElements
    <3>3. ToSet(history[t]) \subseteq ToSet(Keep(history[t])) \cup summary.covers
      BY <1>1, <1>3, <2>1, <3>1, WindowIsWhole DEF Working
    <3>4. hot' # <<>>
      <4>1. ToSet(<<>>) = {}
        BY DEF ToSet
      <4> QED
        BY <1>3, <3>2, <4>1
    <3>5. ToSet(archive) \subseteq ToSet(history[t]) \cup summary.covers \cup ToSet(record[t])
      BY <1>1, <2>1 DEF Working
    <3>6. Stored'
      BY <2>1, <3>2, <3>3, <3>4, <3>5 DEF Stored
    <3> QED
      BY <1>2, <2>2, <3>6
  <2> QED
    BY <1>9, <2>3, <2>4 DEF Reload
<1> QED
  BY <1>4, <1>5, <1>6, <1>7, <1>8, <1>9 DEF Background

LEMMA NextMem == KeptInv /\ [Next]_vars => MemInv'
<1> SUFFICES ASSUME KeptInv, [Next]_vars, Whole'
             PROVE  Stored' /\ \A u \in Active' : Reading(u)' /\ Working(u)'
  BY DEF MemInv
<1>1. TypeOK /\ Alone /\ MemInv /\ Whole /\ load' = load
  BY WholeBefore DEF KeptInv, CoverInv
<1>2. ASSUME NEW t \in Turns, Start(t) \/ Step(t)
      PROVE  Stored' /\ (t \in Active' => Reading(t)' /\ Working(t)')
    BY <1>1, <1>2, LoadKeeps, RunKeeps, BackgroundKeeps DEF Step
<1>3. ASSUME NEW t \in Turns, Start(t) \/ Step(t) PROVE Active' \subseteq {t}
    BY <1>1, <1>3, OnlyStepper DEF Whole
<1>4. ~Expire
  BY <1>1 DEF Expire, Whole, StoresHold, May
<1>5. CASE Crash
  BY <1>1, <1>5, CrashEnds DEF Crash, stores, MemInv, Stored
<1>6. CASE UNCHANGED vars
  <2>1. Stored /\ Stored' /\ Active' = Active
    BY <1>1, <1>6 DEF vars, locals, MemInv, Stored, Active, Settled
  <2>2. ASSUME NEW t \in Active PROVE Reading(t)' /\ Working(t)'
    <3>1. Candidates(history[t])' = Candidates(history[t])
      BY <1>6 DEF vars, locals, Candidates, CandidateCount
    <3>2. Reading(t) /\ Working(t)
      BY <1>1 DEF MemInv
    <3> QED
      BY <1>6, <3>1, <3>2 DEF vars, locals, Reading, Working
  <2> QED
    BY <2>1, <2>2
<1> QED
  BY <1>2, <1>3, <1>4, <1>5, <1>6 DEF Next

LEMMA InitKept == Init => KeptInv
<1> SUFFICES ASSUME Init PROVE KeptInv
  OBVIOUS
<1>1. OnceInv /\ CoverInv /\ TypeOK /\ Active = {} /\ ToSet(<<>>) = {}
  BY InitOnce, CoverInit DEF CoverInv, Init, Active, Settled, ToSet
<1> DEFINE old == Legacy(load.legacy)
<1>2. /\ load.legacy \in Seq(Nat) /\ load.length \in Nat /\ load.fallback \in Nat
      /\ old \in Seq(Message) /\ Len(old) = Len(load.legacy)
      /\ \A i \in DOMAIN old : old[i].at = i
  <2>1. load.legacy \in Seq(Nat) /\ load.length \in Nat /\ load.fallback \in Nat
    BY <1>1, LoadFields DEF TypeOK
  <2> QED
    BY <2>1, LegacyType DEF Legacy
<1>3. /\ archive = old /\ (hot = <<>> \/ hot = Newest(old, load.length))
      /\ summary.stamp = 0 /\ summary.covers = {}
      /\ \A t \in Turns : record[t] = <<>> /\ history[t] = <<>> /\ seen[t].covers = {}
      /\ \A t \in Turns : phase[t] = "idle"
  BY DEF Init, NoSummary
<1> HIDE DEF old
<1>4. Messages = ToSet(old) /\ Exposed \subseteq ToSet(old)
  <2>1. Messages = ToSet(old)
    BY <1>1, <1>3 DEF Messages
  <2>2. ToSet(hot) \subseteq ToSet(old)
    BY <1>1, <1>2, <1>3, NewestIsPart
  <2> QED
    BY <1>1, <1>3, <2>1, <2>2 DEF Exposed
<1>5. /\ IsFiniteSet(ToSet(old)) /\ Cardinality(ToSet(old)) = Len(old)
  <2>1. IsInjective(old)
    BY <1>1, <1>3, OnceParts DEF OnceInv
  <2> QED
    BY <1>2, <2>1, ListElements
<1>6. Recorded
  BY <1>3, <1>4, <1>5 DEF Recorded
<1>7. ASSUME Whole PROVE Stored
  <2>1. Len(old) <= load.length /\ Len(old) <= load.fallback
    BY <1>2, <1>4, <1>5, <1>7 DEF Whole, Uncut
  <2>2. hot = <<>> \/ hot = archive
    BY <1>3, <2>1 DEF Newest
  <2> QED
    BY <1>2, <1>3, <2>1, <2>2 DEF Stored
<1> QED
  BY <1>1, <1>6, <1>7 DEF KeptInv, MemInv

\* Whatever the watermarks and the policy, and wherever the process dies: while turns do not
\* overlap, the stores hold and no list was cut, every archived message is in the hot context
\* or covered by the summary.
THEOREM NothingForgottenHolds == Spec => []NothingForgotten
<1>1. KeptInv /\ [Next]_vars => KeptInv'
  <2>1. OnceInv /\ [Next]_vars => OnceInv'
    BY NextOnce
  <2> QED
    BY <2>1, CoverNext, NextRecorded, NextMem DEF KeptInv, OnceInv
<1>2. KeptInv => NothingForgotten
  BY DEF KeptInv, MemInv, Stored, Whole, NothingForgotten
<1> QED
  BY <1>1, <1>2, InitKept, PTL DEF Spec

-----------------------------------------------------------------------------
(* The hot context is a tail of the archive.                               *)

\* A tail of a list, position by position.
LEMMA SuffixIs ==
    ASSUME NEW M, NEW s \in Seq(M), NEW t \in Seq(M)
    PROVE  IsSuffix(s, t) <=> /\ Len(s) <= Len(t)
                              /\ \A i \in 1..Len(s) : s[i] = t[Len(t) - Len(s) + i]
<1> DEFINE a == Reverse(s)
           b == Reverse(t)
<1>1. /\ Len(s) \in Nat /\ Len(t) \in Nat
      /\ a \in Seq(M) /\ Len(a) = Len(s) /\ \A i \in 1..Len(s) : a[i] = s[Len(s) - i + 1]
      /\ b \in Seq(M) /\ Len(b) = Len(t) /\ \A i \in 1..Len(t) : b[i] = t[Len(t) - i + 1]
  BY DEF Reverse
<1>2. IsSuffix(s, t) <=> Len(a) <= Len(b) /\ SubSeq(a, 1, Len(a)) = SubSeq(b, 1, Len(a))
  BY DEF IsSuffix, IsPrefix
<1> HIDE DEF a, b
<1>3. ASSUME Len(s) <= Len(t)
      PROVE  SubSeq(a, 1, Len(a)) = SubSeq(b, 1, Len(a)) <=> \A i \in 1..Len(s) : a[i] = b[i]
  <2>1. /\ SubSeq(a, 1, Len(a)) \in Seq(M) /\ SubSeq(b, 1, Len(a)) \in Seq(M)
        /\ Len(SubSeq(a, 1, Len(a))) = Len(s) /\ Len(SubSeq(b, 1, Len(a))) = Len(s)
        /\ \A i \in 1..Len(s) : /\ SubSeq(a, 1, Len(a))[i] = a[i]
                                /\ SubSeq(b, 1, Len(a))[i] = b[i]
    BY <1>1, <1>3
  <2> QED
    BY <2>1, SeqEqual
<1>4. ASSUME Len(s) <= Len(t), \A i \in 1..Len(s) : a[i] = b[i], NEW i \in 1..Len(s)
      PROVE  s[i] = t[Len(t) - Len(s) + i]
  <2>1. /\ Len(s) - i + 1 \in 1..Len(s) /\ Len(s) - i + 1 \in 1..Len(t)
        /\ Len(s) - (Len(s) - i + 1) + 1 = i
        /\ Len(t) - (Len(s) - i + 1) + 1 = Len(t) - Len(s) + i
    BY <1>1, <1>4
  <2>2. a[Len(s) - i + 1] = s[i] /\ b[Len(s) - i + 1] = t[Len(t) - Len(s) + i]
    BY <1>1, <2>1
  <2> QED
    BY <1>4, <2>1, <2>2
<1>5. ASSUME Len(s) <= Len(t), \A i \in 1..Len(s) : s[i] = t[Len(t) - Len(s) + i],
             NEW i \in 1..Len(s)
      PROVE  a[i] = b[i]
  <2>1. /\ Len(s) - i + 1 \in 1..Len(s) /\ i \in 1..Len(t)
        /\ Len(t) - Len(s) + (Len(s) - i + 1) = Len(t) - i + 1
    BY <1>1, <1>5
  <2>2. a[i] = s[Len(s) - i + 1] /\ b[i] = t[Len(t) - i + 1]
    BY <1>1, <2>1
  <2> QED
    BY <1>5, <2>1, <2>2
<1> QED
  BY <1>1, <1>2, <1>3, <1>4, <1>5

\* No message is a tail of every list, and a list is one of itself.
LEMMA SuffixEnds ==
    ASSUME NEW M, NEW s \in Seq(M)
    PROVE  IsSuffix(<<>>, s) /\ IsSuffix(s, s)
<1>1. <<>> \in Seq(M) /\ Len(<<>>) = 0 /\ Len(s) \in Nat
  OBVIOUS
<1>2. IsSuffix(<<>>, s)
  <2>1. Len(<<>>) <= Len(s) /\ 1..Len(<<>>) = {}
    BY <1>1
  <2> QED
    BY <1>1, <2>1, SuffixIs
<1>3. Len(s) - Len(s) = 0 /\ \A i \in 1..Len(s) : 0 + i = i
  BY <1>1
<1> QED
  BY <1>1, <1>2, <1>3, SuffixIs

LEMMA SuffixTrans ==
    ASSUME NEW M, NEW r \in Seq(M), NEW s \in Seq(M), NEW t \in Seq(M),
           IsSuffix(r, s), IsSuffix(s, t)
    PROVE  IsSuffix(r, t)
<1>1. /\ Len(r) \in Nat /\ Len(s) \in Nat /\ Len(t) \in Nat
      /\ Len(r) <= Len(s) /\ Len(s) <= Len(t)
      /\ \A i \in 1..Len(r) : r[i] = s[Len(s) - Len(r) + i]
      /\ \A i \in 1..Len(s) : s[i] = t[Len(t) - Len(s) + i]
  BY SuffixIs
<1>2. ASSUME NEW i \in 1..Len(r) PROVE r[i] = t[Len(t) - Len(r) + i]
  <2>1. /\ Len(s) - Len(r) + i \in 1..Len(s)
        /\ Len(t) - Len(s) + (Len(s) - Len(r) + i) = Len(t) - Len(r) + i
    BY <1>1
  <2> QED
    BY <1>1, <2>1
<1> QED
  BY <1>1, <1>2, SuffixIs

LEMMA SuffixConcat ==
    ASSUME NEW M, NEW s \in Seq(M), NEW t \in Seq(M), NEW u \in Seq(M), IsSuffix(s, t)
    PROVE  IsSuffix(s \o u, t \o u)
<1>1. /\ Len(s) \in Nat /\ Len(t) \in Nat /\ Len(u) \in Nat /\ Len(s) <= Len(t)
      /\ \A i \in 1..Len(s) : s[i] = t[Len(t) - Len(s) + i]
  BY SuffixIs
<1> DEFINE a == s \o u
           b == t \o u
<1>2. /\ a \in Seq(M) /\ Len(a) = Len(s) + Len(u)
      /\ \A i \in 1..(Len(s) + Len(u)) : a[i] = IF i <= Len(s) THEN s[i] ELSE u[i - Len(s)]
      /\ b \in Seq(M) /\ Len(b) = Len(t) + Len(u)
      /\ \A i \in 1..(Len(t) + Len(u)) : b[i] = IF i <= Len(t) THEN t[i] ELSE u[i - Len(t)]
  BY ConcatProperties
<1> HIDE DEF a, b
<1>3. ASSUME NEW i \in 1..Len(a) PROVE a[i] = b[Len(b) - Len(a) + i]
  <2>1. Len(b) - Len(a) + i = Len(t) - Len(s) + i /\ Len(t) - Len(s) + i \in 1..(Len(t) + Len(u))
    BY <1>1, <1>2
  <2>2. CASE i <= Len(s)
    <3>1. a[i] = s[i] /\ b[Len(t) - Len(s) + i] = t[Len(t) - Len(s) + i] /\ i \in 1..Len(s)
      BY <1>1, <1>2, <2>1, <2>2
    <3> QED
      BY <1>1, <2>1, <3>1
  <2>3. CASE ~(i <= Len(s))
    <3>1. /\ ~(Len(t) - Len(s) + i <= Len(t)) /\ Len(t) - Len(s) + i - Len(t) = i - Len(s)
          /\ i \in 1..(Len(s) + Len(u))
      BY <1>1, <1>2, <2>3
    <3>2. a[i] = u[i - Len(s)]
      BY <1>2, <2>3, <3>1
    <3>3. b[Len(t) - Len(s) + i] = u[i - Len(s)]
      BY <1>2, <2>1, <3>1
    <3> QED
      BY <2>1, <3>2, <3>3
  <2> QED
    BY <2>2, <2>3
<1>4. Len(a) <= Len(b)
  BY <1>1, <1>2
<1>5. IsSuffix(a, b)
  BY <1>2, <1>3, <1>4, SuffixIs
<1> QED
  BY <1>5 DEF a, b

\* What a cut leaves: by length, by time, by budget.
LEMMA SubSeqSuffix ==
    ASSUME NEW M, NEW s \in Seq(M), NEW a \in 1..(Len(s) + 1)
    PROVE  SubSeq(s, a, Len(s)) \in Seq(M) /\ IsSuffix(SubSeq(s, a, Len(s)), s)
<1> DEFINE r == SubSeq(s, a, Len(s))
<1>1. /\ Len(s) \in Nat /\ r \in Seq(M) /\ Len(r) = Len(s) - a + 1
      /\ \A i \in 1..Len(r) : r[i] = s[a + i - 1]
  OBVIOUS
<1> HIDE DEF r
<1>2. Len(r) <= Len(s) /\ \A i \in 1..Len(r) : Len(s) - Len(r) + i = a + i - 1
  BY <1>1
<1>3. r \in Seq(M) /\ IsSuffix(r, s)
  BY <1>1, <1>2, SuffixIs
<1> QED
  BY <1>3 DEF r

LEMMA NewestSuffix ==
    ASSUME NEW M, NEW s \in Seq(M), NEW n \in Nat
    PROVE  Newest(s, n) \in Seq(M) /\ IsSuffix(Newest(s, n), s)
<1>1. CASE Len(s) <= n
  BY <1>1, SuffixEnds DEF Newest
<1>2. CASE ~(Len(s) <= n)
  <2>1. Len(s) - n + 1 \in 1..(Len(s) + 1)
    BY <1>2
  <2> QED
    BY <1>2, <2>1, SubSeqSuffix DEF Newest
<1> QED
  BY <1>1, <1>2

LEMMA ListAfterSuffix ==
    ASSUME NEW s \in Seq(Message), NEW after \in Nat, NEW limit \in Nat
    PROVE  /\ ListAfter(s, after, limit) \in Seq(Message)
           /\ IsSuffix(ListAfter(s, after, limit), s)
<1> DEFINE later == SubSeq(s, Before(s, after) + 1, Len(s))
<1>1. Before(s, after) + 1 \in 1..(Len(s) + 1)
  <2>1. Before(s, after) \in 0..Len(s)
    BY BeforeIsIndex
  <2> QED BY <2>1
<1>2. later \in Seq(Message) /\ IsSuffix(later, s)
  BY <1>1, SubSeqSuffix
<1>3. Newest(later, limit) \in Seq(Message) /\ IsSuffix(Newest(later, limit), later)
  BY <1>2, NewestSuffix
<1> QED
  BY <1>2, <1>3, SuffixTrans DEF ListAfter

LEMMA KeepSuffix ==
    ASSUME load \in Load, NEW h \in Seq(Message)
    PROVE  Keep(h) \in Seq(Message) /\ IsSuffix(Keep(h), h)
<1>1. {i \in DOMAIN h : TokensFrom(h, i) > load.low} \in SUBSET (1..Len(h))
  OBVIOUS
<1>2. CandidateCount(h) \in 0..Len(h)
  BY <1>1, IndexCount, Len(h) \in Nat DEF CandidateCount
<1>3. CandidateCount(h) + 1 \in 1..(Len(h) + 1)
  BY <1>2
<1> QED
  BY <1>3, SubSeqSuffix DEF Keep

\* A document whose time is not before those of the others comes last in the index.
LEMMA InsertLast ==
    ASSUME NEW s \in Seq(Message), NEW m \in Message, \A i \in DOMAIN s : s[i].at <= m.at
    PROVE  Insert(s, m) = s \o <<m>>
<1>1. {i \in DOMAIN s : s[i].at <= m.at} = 1..Len(s) /\ Len(s) \in Nat
  OBVIOUS
<1>2. Before(s, m.at) = Len(s)
  <2>1. Cardinality(1..Len(s)) = Len(s)
    BY FS_Interval, Len(s) \in Nat, 1 \in Int, Len(s) \in Int
  <2> QED
    BY <1>1, <2>1 DEF Before
<1> DEFINE r == InsertAt(s, Len(s) + 1, m)
<1>3. /\ r \in Seq(Message) /\ Len(r) = Len(s) + 1
      /\ \A i \in 1..(Len(s) + 1) :
            r[i] = IF i < Len(s) + 1 THEN s[i] ELSE IF i = Len(s) + 1 THEN m ELSE s[i - 1]
  BY <1>1, InsertAtElements
<1> HIDE DEF r
<1>4. /\ s \o <<m>> \in Seq(Message) /\ Len(s \o <<m>>) = Len(s) + 1
      /\ \A i \in 1..(Len(s) + 1) : (s \o <<m>>)[i] = IF i <= Len(s) THEN s[i] ELSE m
  BY <1>1
<1>5. r = s \o <<m>>
  BY <1>1, <1>3, <1>4, SeqEqual
<1> QED
  BY <1>2, <1>5 DEF Insert, r

\* A turn in progress: the times of its record go up, and its documents are stored in order,
\* behind those of the turns before it.
Timed(t) ==
    /\ \A i \in DOMAIN record[t] :
          /\ record[t][i].at <= clock
          /\ \A j \in DOMAIN record[t] : i <= j => record[t][i].at <= record[t][j].at
    /\ \E k \in 0..Len(record[t]) : Saved(t) = 1..k
    /\ \A i \in DOMAIN record[t] \ Saved(t) : \A j \in DOMAIN archive :
          archive[j].at <= record[t][i].at

\* Its chain: append is ahead while billing is, and a summary is the last step; once
\* archive is done, its documents are stored.
Chained(t) ==
    /\ tasks[t] # <<>> /\ Head(tasks[t]) = "bill" => "append" \in ToSet(tasks[t])
    /\ \A i \in DOMAIN tasks[t] : tasks[t][i] = "summarize" => i = Len(tasks[t])
    /\ phase[t] = "background" /\ "archive" \notin ToSet(tasks[t]) =>
           Saved(t) = DOMAIN record[t]

\* What it has read is a tail of the archive, and with its record one of the conversation.
Tailing(t) ==
    /\ phase[t] = "refill" => IsSuffix(history[t], archive)
    /\ phase[t] \in {"facts", "summary", "scope", "run", "background"} =>
           IsSuffix(history[t] \o record[t], archive \o Rest(t))

OrderedTurn(t) == Timed(t) /\ Chained(t) /\ Tailing(t)

OrderInv ==
    OneByOne /\ BothWritten =>
        /\ \A i \in DOMAIN archive : archive[i].at <= clock
        /\ \A t \in Active : OrderedTurn(t)
        /\ HotIsTailOfArchive

\* A turn has read nothing before it gets as far.
Unread == \A t \in Turns : phase[t] \in {"idle", "redis", "session", "list"} => history[t] = <<>>

TailInv == OnceInv /\ CoverInv /\ Recorded /\ Unread /\ OrderInv

LEMMA NextUnread == TypeOK /\ Unread /\ [Next]_vars => Unread'
<1> SUFFICES ASSUME TypeOK, Unread, [Next]_vars PROVE Unread'
  OBVIOUS
<1> USE DEF TypeOK, Unread, From, To
<1>1. ASSUME NEW t \in Turns, Start(t) PROVE Unread'
  BY <1>1 DEF Start, locals
<1>2. ASSUME NEW t \in Turns, ReadHot(t) PROVE Unread'
  BY <1>2 DEF ReadHot
<1>3. ASSUME NEW t \in Turns, ReadStamp(t) PROVE Unread'
  BY <1>3 DEF ReadStamp
<1>4. ASSUME NEW t \in Turns, ListArchive(t) PROVE Unread'
  <2>1. \A u \in Turns \ {t} : phase'[u] = phase[u] /\ history'[u] = history[u]
    BY <1>4, OthersKeep DEF Step, LoadContext
  <2>2. phase'[t] \in {"facts", "refill"}
    BY <1>4 DEF ListArchive
  <2> QED
    BY <2>1, <2>2
<1>5. ASSUME NEW t \in Turns, Refill(t) PROVE Unread'
  BY <1>5 DEF Refill
<1>6. ASSUME NEW t \in Turns,
             \/ SearchMemory(t) \/ ReadSummary(t) \/ ResolveTools(t) \/ Answer(t)
             \/ FinishRun(t) \/ FailRun(t)
      PROVE  Unread'
  BY <1>6 DEF SearchMemory, ReadSummary, ResolveTools, Answer, FinishRun, FailRun, locals
<1>7. ASSUME NEW t \in Turns, Background(t) PROVE Unread'
  <2>1. phase' = phase /\ history' = history
    BY <1>7, BackgroundChain DEF Background, Bill, AppendHot, Archive, Ingest, Summarize,
                                 SaveSummary, Reload
  <2> QED
    BY <2>1
<1>8. CASE Crash
  BY <1>8 DEF Crash
<1>9. CASE Expire \/ UNCHANGED vars
  BY <1>9 DEF Expire, vars, locals
<1> QED
  BY <1>1, <1>2, <1>3, <1>4, <1>5, <1>6, <1>7, <1>8, <1>9 DEF Next, Step, LoadContext

\* The messages of a turn that are not archived, when its documents are stored in order.
LEMMA RestType ==
    ASSUME TypeOK, NEW t \in Turns
    PROVE  Rest(t) \in Seq(Message) /\ Unsaved(t) \in Seq(Message)
<1>1. record[t] \in Seq(Message) /\ Len(record[t]) \in Nat
  BY DEF TypeOK
<1>2. Saved(t) \in SUBSET (1..Len(record[t]))
  BY <1>1 DEF Saved
<1>3. Cardinality(Saved(t)) \in 0..Len(record[t])
  BY <1>1, <1>2, IndexCount
<1>4. Cardinality(Saved(t)) + 1 \in 1..(Len(record[t]) + 1)
  BY <1>1, <1>3
<1>5. Rest(t) \in Seq(Message)
  BY <1>1, <1>4, SubSeqSuffix DEF Rest
<1>6. <<>> \in Seq(Message)
  OBVIOUS
<1> QED
  BY <1>5, <1>6 DEF Unsaved

\* What is left of a list when its first elements are taken.
LEMMA RestIs ==
    ASSUME NEW M, NEW r \in Seq(M), NEW k \in 0..Len(r), NEW S, S = 1..k
    PROVE  /\ SubSeq(r, Cardinality(S) + 1, Len(r)) = SubSeq(r, k + 1, Len(r))
           /\ S = {} => SubSeq(r, Cardinality(S) + 1, Len(r)) = r
           /\ S = DOMAIN r => SubSeq(r, Cardinality(S) + 1, Len(r)) = <<>>
<1>1. Len(r) \in Nat /\ k \in Nat /\ k <= Len(r)
  OBVIOUS
<1>2. Cardinality(S) = k
  <2>1. Cardinality(1..k) = k
    BY <1>1, FS_Interval, 1 \in Int, k \in Int
  <2> QED
    BY <2>1
<1>3. S = {} => k = 0
  <2>1. k > 0 => 1 \in 1..k
    BY <1>1
  <2> QED
    BY <1>1, <2>1
<1>4. ASSUME 1..k = 1..Len(r) PROVE k = Len(r)
  <2>1. k < Len(r) => Len(r) \in 1..Len(r) /\ Len(r) \notin 1..k
    BY <1>1
  <2>2. ~(k < Len(r))
    BY <1>4, <2>1
  <2> QED
    BY ONLY <1>1, <2>2
<1>5. SubSeq(r, 1, Len(r)) = r
  BY SubSeqFull
<1>6. SubSeq(r, Len(r) + 1, Len(r)) = <<>>
  BY <1>1, SubSeqEmpty
<1>7. S = {} => SubSeq(r, Cardinality(S) + 1, Len(r)) = r
  <2>1. S = {} => Cardinality(S) + 1 = 1
    BY <1>2, <1>3
  <2> QED
    BY <1>5, <2>1
<1>8. S = DOMAIN r => SubSeq(r, Cardinality(S) + 1, Len(r)) = <<>>
  <2>1. S = DOMAIN r => Cardinality(S) = Len(r)
    BY <1>2, <1>4, DOMAIN r = 1..Len(r)
  <2> QED
    BY <1>6, <2>1
<1> QED
  BY <1>2, <1>7, <1>8

\* A turn that has not appended its record has not archived it either.
LEMMA UnsavedBefore ==
    ASSUME IInv, NEW t \in Turns,
           phase[t] # "background" \/ "append" \in ToSet(tasks[t])
    PROVE  /\ Saved(t) = {} /\ Rest(t) = record[t]
           /\ tasks[t] = <<>> \/ "append" \in ToSet(tasks[t]) => Unsaved(t) = <<>>
<1>1. TypeOK /\ record[t] \in Seq(Message)
  BY DEF IInv, TypeOK
<1>2. Saved(t) = {}
  <2>1. \A m \in ToSet(archive) : m.turn # t
    BY ExposedParts DEF IInv, ShownByAppend, Visible
  <2>2. \A i \in DOMAIN record[t] : record[t][i].turn = t
    BY DEF IInv, OwnRecord, ToSet
  <2> QED
    BY <2>1, <2>2 DEF Saved
<1>3. 0 \in 0..Len(record[t]) /\ Saved(t) = 1..0
  BY <1>1, <1>2
<1>4. Rest(t) = record[t]
  BY <1>1, <1>2, <1>3, RestIs DEF Rest
<1>5. tasks[t] = <<>> => Unsaved(t) = <<>>
  BY DEF Unsaved, ToSet
<1> QED
  BY <1>2, <1>4, <1>5 DEF Unsaved

\* What a step has to leave in order, seen from the turn that takes it.
Ordered(t) ==
    /\ t \in Active => OrderedTurn(t)
    /\ IsSuffix(hot, archive \o Unsaved(t))
    /\ \A i \in DOMAIN archive : archive[i].at <= clock

LEMMA OrderBefore ==
    ASSUME TailInv, OneByOne, BothWritten, NEW t \in Turns, Start(t) \/ Step(t)
    PROVE  /\ TypeOK /\ IInv /\ Sequel /\ Recorded /\ Unread /\ Registered
           /\ Policy.persist /\ Policy.chat
           /\ IsSuffix(hot, archive \o Unsaved(t))
           /\ \A i \in DOMAIN archive : archive[i].at <= clock
           /\ Step(t) => OrderedTurn(t)
<1>1. TypeOK /\ IInv /\ Sequel /\ Recorded /\ Unread /\ Registered /\ Alone
  BY DEF TailInv, OnceInv, CoverInv
<1>2. Policy.persist /\ Policy.chat
  BY ConstantsAssumption DEF BothWritten
<1>3. Active \subseteq {t} /\ (Step(t) => t \in Active)
  BY <1>1, OnlyStepper, StepperActive
<1>4. /\ HotIsTailOfArchive
      /\ \A i \in DOMAIN archive : archive[i].at <= clock
      /\ \A u \in Active : OrderedTurn(u)
  BY DEF TailInv, OrderInv
<1> QED
  BY <1>1, <1>2, <1>3, <1>4 DEF HotIsTailOfArchive

\* Nothing of t is archived while it has nothing to archive yet.
LEMMA NoneArchived ==
    ASSUME IInv, NEW t \in Turns, phase[t] # "background"
    PROVE  \A m \in ToSet(archive) : m.turn # t
  BY ExposedParts DEF IInv, ShownByAppend, Visible

\* A turn that has recorded nothing: what it reads, and leaves in Redis, is a tail of the archive.
LEMMA OrderEarly ==
    ASSUME TypeOK', NEW t \in Turns, record'[t] = <<>>, tasks'[t] = <<>>,
           phase'[t] \notin {"run", "background"},
           IsSuffix(hot', archive'),
           phase'[t] \in {"refill", "facts", "summary", "scope"} => IsSuffix(history'[t], archive'),
           \A i \in DOMAIN archive' : archive'[i].at <= clock'
    PROVE  Ordered(t)'
<1>1. archive' \in Seq(Message) /\ history'[t] \in Seq(Message) /\ <<>> \in Seq(Message)
  BY DEF TypeOK
<1>2. archive' \o <<>> = archive' /\ history'[t] \o <<>> = history'[t]
  BY <1>1, ConcatEmptySeq
<1>3. Unsaved(t)' = <<>>
  BY DEF Unsaved, ToSet
<1>4. Saved(t)' = {} /\ DOMAIN record'[t] = {} /\ Len(record'[t]) = 0
  BY DEF Saved
<1>5. Rest(t)' = <<>>
  <2>1. Saved(t)' = 1..0 /\ 0 \in 0..Len(record'[t])
    BY <1>4
  <2> QED
    BY <1>1, <1>4, <2>1, RestIs DEF Rest
<1>6. Timed(t)'
  <2>1. Saved(t)' = 1..0 /\ 0 \in 0..Len(record'[t])
    BY <1>4
  <2> QED
    BY <1>4, <2>1 DEF Timed
<1>7. Chained(t)'
  BY <1>4 DEF Chained
<1>8. Tailing(t)'
  BY <1>2, <1>5 DEF Tailing
<1> QED
  BY <1>2, <1>3, <1>6, <1>7, <1>8 DEF Ordered, OrderedTurn

\* A turn that records one message more, made later than whatever is archived.
LEMMA OrderRuns ==
    ASSUME IInv, TypeOK', NEW t \in Turns, phase[t] \in {"scope", "run"}, phase'[t] = "run",
           OrderedTurn(t), tasks[t] = <<>>, tasks'[t] = <<>>,
           NEW m \in Message, m.turn = t, m.at = clock', clock' = clock + 1,
           record'[t] = record[t] \o <<m>>,
           UNCHANGED <<hot, archive>>, history'[t] = history[t],
           IsSuffix(hot, archive \o Unsaved(t)),
           \A i \in DOMAIN archive : archive[i].at <= clock
    PROVE  Ordered(t)'
<1>1. /\ TypeOK /\ record[t] \in Seq(Message) /\ archive \in Seq(Message)
      /\ history[t] \in Seq(Message) /\ <<m>> \in Seq(Message) /\ record'[t] \in Seq(Message)
      /\ clock \in Nat
  BY DEF IInv, TypeOK
<1> DEFINE r == record[t]
           n == Len(r)
<1>2. n \in Nat /\ DOMAIN r = 1..n /\ DOMAIN record'[t] = 1..(n + 1)
      /\ Len(record'[t]) = n + 1
      /\ \A i \in 1..(n + 1) : record'[t][i] = IF i <= n THEN r[i] ELSE m
  BY <1>1
<1>3. /\ \A x \in Message : x.at \in Nat
      /\ \A i \in 1..n : r[i] \in Message
      /\ \A i \in DOMAIN archive : archive[i] \in Message
  <2>1. \A x \in Message : x.at \in Nat
    BY DEF Message
  <2> QED
    BY <1>1, <2>1
<1>4. \A i \in 1..n : r[i].at \in Nat /\ r[i].at <= clock /\ r[i].turn = t
  BY <1>2, <1>3 DEF OrderedTurn, Timed, IInv, OwnRecord, ToSet
<1>5. Saved(t) = {} /\ Rest(t) = r /\ Unsaved(t) = <<>> /\ Saved(t)' = {}
  <2>1. Saved(t) = {} /\ Rest(t) = r /\ Unsaved(t) = <<>>
    BY UnsavedBefore
  <2>2. \A x \in ToSet(archive) : x.turn # t
    BY NoneArchived
  <2>3. \A i \in 1..(n + 1) : record'[t][i].turn = t
    BY <1>2, <1>4
  <2> QED
    BY <1>2, <2>1, <2>2, <2>3 DEF Saved
<1>6. Unsaved(t)' = <<>>
  BY DEF Unsaved, ToSet
<1>7. Rest(t)' = record'[t]
  <2>1. Saved(t)' = 1..0 /\ 0 \in 0..Len(record'[t])
    BY <1>2, <1>5
  <2>2. ASSUME NEW q \in Seq(Message), NEW S, S = 1..0, S = {}
        PROVE  SubSeq(q, Cardinality(S) + 1, Len(q)) = q
    BY <2>2, RestIs, 0 \in 0..Len(q)
  <2> QED
    BY <1>1, <1>5, <2>1, <2>2 DEF Rest
<1>8. Timed(t)'
  <2>1. Saved(t)' = 1..0 /\ 0 \in 0..Len(record'[t])
    BY <1>2, <1>5
  <2>2. ASSUME NEW i \in 1..(n + 1)
        PROVE  /\ record'[t][i].at <= clock'
               /\ \A j \in 1..(n + 1) : i <= j => record'[t][i].at <= record'[t][j].at
               /\ \A j \in DOMAIN archive : archive[j].at <= record'[t][i].at
    <3>1. CASE i <= n
      <4>1. i \in 1..n /\ record'[t][i] = r[i]
        BY <1>2, <3>1
      <4>2. r[i].at <= clock' /\ r[i].at <= m.at
        BY <1>1, <1>4, <4>1
      <4>3. \A j \in 1..n : i <= j => r[i].at <= r[j].at
        BY <1>2, <4>1 DEF OrderedTurn, Timed
      <4>4. \A j \in DOMAIN archive : archive[j].at <= r[i].at
        BY <1>2, <1>5, <4>1 DEF OrderedTurn, Timed
      <4>5. \A j \in 1..(n + 1) : j <= n => j \in 1..n
        BY <1>2
      <4> QED
        BY <1>2, <4>1, <4>2, <4>3, <4>4, <4>5
    <3>2. CASE ~(i <= n)
      <4>1. record'[t][i] = m /\ i = n + 1
        BY <1>2, <3>2
      <4>2. \A j \in 1..(n + 1) : i <= j => j = i
        BY <1>2, <4>1
      <4>3. \A j \in DOMAIN archive : archive[j].at <= m.at
        BY <1>1, <1>3
      <4> QED
        BY <1>1, <4>1, <4>2, <4>3
    <3> QED
      BY <3>1, <3>2
  <2> QED
    BY <1>2, <2>1, <2>2 DEF Timed
<1>9. Chained(t)'
  BY DEF Chained
<1>10. Tailing(t)'
  <2>1. IsSuffix(history[t] \o r, archive \o r)
    BY <1>5 DEF OrderedTurn, Tailing
  <2>2. history[t] \o r \in Seq(Message) /\ archive \o r \in Seq(Message)
    BY <1>1
  <2>3. IsSuffix((history[t] \o r) \o <<m>>, (archive \o r) \o <<m>>)
    BY <1>1, <2>1, <2>2, SuffixConcat
  <2>4. /\ (history[t] \o r) \o <<m>> = history[t] \o (r \o <<m>>)
        /\ (archive \o r) \o <<m>> = archive \o (r \o <<m>>)
    <3>1. \A a, b, c \in Seq(Message) : (a \o b) \o c = a \o (b \o c)
      BY ConcatAssociative
    <3> QED
      BY ONLY <1>1, <3>1
  <2> QED
    BY <1>7, <2>3, <2>4 DEF Tailing
<1>11. IsSuffix(hot', archive' \o Unsaved(t)')
  BY <1>5, <1>6
<1>12. \A i \in DOMAIN archive' : archive'[i].at <= clock'
  BY <1>1, <1>3
<1> QED
  BY <1>8, <1>9, <1>10, <1>11, <1>12 DEF Ordered, OrderedTurn

\* Loading the context keeps the order, up to the first message of the record.
LEMMA LoadOrder ==
    ASSUME TailInv, OneByOne, BothWritten, NEW t \in Turns, Start(t) \/ LoadContext(t), TypeOK'
    PROVE  Ordered(t)'
<1> USE DEF From, To
<1>1. /\ TypeOK /\ IInv /\ Recorded /\ Unread /\ Registered /\ Policy.chat
      /\ IsSuffix(hot, archive \o Unsaved(t))
      /\ \A i \in DOMAIN archive : archive[i].at <= clock
      /\ LoadContext(t) => OrderedTurn(t)
  BY OrderBefore DEF Step
<1>2. phase[t] \in {"idle", "redis", "session", "list", "refill", "facts", "summary", "scope"}
  BY DEF Start, LoadContext, ReadHot, ReadStamp, ListArchive, Refill, SearchMemory, ReadSummary,
         ResolveTools
<1>3. /\ record[t] = <<>> /\ tasks[t] = <<>> /\ tasks' = tasks
      /\ archive \in Seq(Message) /\ history[t] \in Seq(Message)
  <2>1. tasks' = tasks
    BY <1>1, ForegroundChain
  <2> QED
    BY <1>1, <1>2, <2>1 DEF Recorded, Registered, TypeOK
<1>4. Unsaved(t) = <<>> /\ Rest(t) = <<>>
  BY <1>1, <1>2, <1>3, UnsavedBefore
<1>5. IsSuffix(hot, archive) /\ IsSuffix(<<>>, archive)
  BY <1>1, <1>3, <1>4, ConcatEmptySeq, SuffixEnds
<1>6. phase[t] \in {"facts", "summary", "scope"} /\ LoadContext(t) => IsSuffix(history[t], archive)
  <2>1. history[t] \o <<>> = history[t] /\ archive \o <<>> = archive
    BY <1>3, ConcatEmptySeq
  <2> QED
    BY <1>1, <1>3, <1>4, <2>1 DEF OrderedTurn, Tailing
<1>7. CASE Start(t)
  <2>1. phase'[t] = "redis" /\ UNCHANGED <<hot, archive, clock, record>>
    BY <1>1, <1>7 DEF Start, stores, locals, TypeOK
  <2> QED
    BY <1>1, <1>3, <1>5, <2>1, OrderEarly
<1>8. CASE ReadHot(t)
  <2>1. /\ UNCHANGED <<hot, archive, clock, record>>
        /\ \/ phase'[t] = "facts" /\ history'[t] = hot
           \/ phase'[t] = "session"
    BY <1>1, <1>8 DEF ReadHot, stores, TypeOK
  <2> QED
    BY <1>1, <1>3, <1>5, <2>1, OrderEarly
<1>9. CASE ReadStamp(t)
  <2>1. /\ UNCHANGED <<hot, archive, clock, record>>
        /\ phase'[t] \in {"list", "facts"} /\ history'[t] = <<>>
    BY <1>1, <1>9 DEF ReadStamp, stores, TypeOK, Unread
  <2> QED
    BY <1>1, <1>3, <1>5, <2>1, OrderEarly
<1>10. CASE ListArchive(t)
  <2>1. IsSuffix(ListAfter(archive, mark[t], load.fallback), archive)
    BY <1>1, <1>3, LoadFields, ListAfterSuffix DEF TypeOK
  <2>2. /\ UNCHANGED <<hot, archive, clock, record>> /\ phase'[t] \in {"facts", "refill"}
        /\ history'[t] \in {<<>>, ListAfter(archive, mark[t], load.fallback)}
    BY <1>1, <1>10 DEF ListArchive, stores, TypeOK, Unread
  <2> QED
    BY <1>1, <1>3, <1>5, <2>1, <2>2, OrderEarly
<1>11. CASE Refill(t)
  <2>1. IsSuffix(history[t], archive)
    BY <1>1, <1>11 DEF Refill, OrderedTurn, Tailing, LoadContext
  <2>2. /\ UNCHANGED <<archive, clock, record>> /\ phase'[t] = "facts"
        /\ hot' \in {hot, history[t]} /\ history'[t] \in {<<>>, history[t]}
    BY <1>1, <1>11 DEF Refill, TypeOK
  <2> QED
    BY <1>1, <1>3, <1>5, <2>1, <2>2, OrderEarly
<1>12. CASE SearchMemory(t) \/ ReadSummary(t)
  <2>1. /\ UNCHANGED <<hot, archive, clock, record, history>>
        /\ phase[t] \in {"facts", "summary"} /\ phase'[t] \in {"summary", "scope"}
    BY <1>1, <1>12 DEF SearchMemory, ReadSummary, stores, locals, TypeOK
  <2> QED
    BY <1>1, <1>3, <1>5, <1>6, <1>12, <2>1, OrderEarly DEF LoadContext
<1>13. CASE ResolveTools(t) /\ UNCHANGED record
  <2>1. /\ UNCHANGED <<hot, archive, record, clock>> /\ phase'[t] = "failed"
    <3>1. <<NewMessage(t, 1, clock')>> # <<>>
      OBVIOUS
    <3> QED
      BY <1>1, <1>3, <1>13, <3>1 DEF ResolveTools, stores, TypeOK
  <2> QED
    BY <1>1, <1>3, <1>5, <2>1, OrderEarly
<1>14. CASE ResolveTools(t) /\ record' # record
  <2> DEFINE m == NewMessage(t, 1, clock')
  <2>1. /\ UNCHANGED <<hot, archive, history>> /\ clock' = clock + 1 /\ record'[t] = <<m>>
        /\ phase[t] = "scope" /\ phase'[t] = "run"
    BY <1>1, <1>14 DEF ResolveTools, stores, TypeOK
  <2>2. m \in Message /\ m.turn = t /\ m.at = clock'
    BY <1>1, <2>1 DEF NewMessage, Message, TypeOK
  <2>3. <<>> \o <<m>> = <<m>>
    OBVIOUS
  <2> HIDE DEF m
  <2> QED
    BY <1>1, <1>3, <1>14, <2>1, <2>2, <2>3, OrderRuns DEF LoadContext
<1> QED
  BY <1>7, <1>8, <1>9, <1>10, <1>11, <1>12, <1>13, <1>14 DEF LoadContext

\* The chain of a turn whose messages are persisted.
LEMMA PlanPersists ==
    ASSUME NEW h, Policy.persist
    PROVE  /\ "append" \in ToSet(Plan(h)) /\ "archive" \in ToSet(Plan(h))
           /\ \A i \in DOMAIN Plan(h) : Plan(h)[i] = "summarize" => i = Len(Plan(h))
<1>1. Policy.chat
  BY ConstantsAssumption
<1>2. 3 \in DOMAIN Plan(h) /\ Plan(h)[3] = "archive"
  BY <1>1 DEF Plan
<1>3. "append" \in ToSet(Plan(h))
  BY <1>1, PlanElements
<1>4. \A i \in DOMAIN Plan(h) : Plan(h)[i] = "summarize" => i = Len(Plan(h))
  BY <1>1 DEF Plan
<1> QED
  BY <1>2, <1>3, <1>4 DEF ToSet

\* So does the run: it records later messages, and registers the chain or drops the record.
LEMMA RunOrder ==
    ASSUME TailInv, OneByOne, BothWritten, NEW t \in Turns, TypeOK',
           Answer(t) \/ FinishRun(t) \/ FailRun(t)
    PROVE  Ordered(t)'
<1> USE DEF From, To
<1>1. /\ TypeOK /\ IInv /\ Recorded /\ Registered /\ Policy.persist
      /\ IsSuffix(hot, archive \o Unsaved(t))
      /\ \A i \in DOMAIN archive : archive[i].at <= clock
      /\ OrderedTurn(t)
  BY OrderBefore DEF Step
<1>2. /\ phase[t] = "run" /\ tasks[t] = <<>> /\ record[t] \in Seq(Message)
      /\ UNCHANGED <<hot, archive, history>>
  BY <1>1 DEF Answer, FinishRun, FailRun, stores, locals, Registered, TypeOK
<1>3. Saved(t) = {} /\ Rest(t) = record[t] /\ Unsaved(t) = <<>>
  BY <1>1, <1>2, UnsavedBefore
<1>4. CASE Answer(t)
  <2> DEFINE m == NewMessage(t, Len(record[t]) + 1, clock')
  <2>1. /\ clock' = clock + 1 /\ record'[t] = Append(record[t], m) /\ phase'[t] = "run"
        /\ tasks'[t] = <<>>
    BY <1>1, <1>2, <1>4 DEF Answer, TypeOK
  <2>2. m \in Message /\ m.turn = t /\ m.at = clock'
    <3>1. Len(record[t]) + 1 \in Nat
      BY <1>2
    <3> QED
      BY <1>1, <2>1, <3>1 DEF NewMessage, Message, TypeOK
  <2> HIDE DEF m
  <2>3. Append(record[t], m) = record[t] \o <<m>>
    BY <1>2, <2>2
  <2> QED
    BY <1>1, <1>2, <2>1, <2>2, <2>3, OrderRuns
<1>5. CASE FinishRun(t)
  <2>1. /\ UNCHANGED <<record, clock>> /\ phase'[t] = "background"
        /\ tasks'[t] = Plan(history[t])
    BY <1>1, <1>5 DEF FinishRun, stores, TypeOK
  <2>2. Unsaved(t)' = <<>>
    BY <1>1, <2>1, PlanPersists DEF Unsaved
  <2>3. Saved(t)' = Saved(t) /\ Rest(t)' = Rest(t)
    BY <1>2, <2>1 DEF Saved, Rest
  <2>4. Timed(t)'
    BY <1>1, <1>2, <2>1, <2>3 DEF OrderedTurn, Timed
  <2>5. Chained(t)'
    BY <1>1, <2>1, PlanPersists DEF Chained
  <2>6. Tailing(t)'
    BY <1>1, <1>2, <2>1, <2>3 DEF OrderedTurn, Tailing
  <2> QED
    BY <1>1, <1>2, <1>3, <2>1, <2>2, <2>4, <2>5, <2>6 DEF Ordered, OrderedTurn
<1>6. CASE FailRun(t)
  <2>1. UNCHANGED <<record, clock>> /\ phase'[t] = "failed" /\ tasks'[t] = <<>>
    BY <1>1, <1>2, <1>6 DEF FailRun, stores, locals, TypeOK
  <2>2. t \notin Active'
    BY <2>1 DEF Active, Settled
  <2>3. Unsaved(t)' = <<>>
    BY <2>1 DEF Unsaved, ToSet
  <2> QED
    BY <1>1, <1>2, <1>3, <2>1, <2>2, <2>3 DEF Ordered
<1> QED
  BY <1>4, <1>5, <1>6

\* A chain that moves on stays in order while nothing is stored; an archive step has to show
\* that the chain behind it finds everything stored.
LEMMA ChainAfter ==
    ASSUME TypeOK, IInv, NEW t \in Turns, Chained(t), tasks[t] # <<>>, phase[t] = "background",
           tasks'[t] = Tail(tasks[t]),
           Head(tasks[t]) = "archive" => Saved(t)' = DOMAIN record'[t],
           Head(tasks[t]) # "archive" => UNCHANGED <<record, archive>>
    PROVE  Chained(t)'
<1> DEFINE s == tasks[t]
<1>1. /\ s \in Seq(Task) /\ Len(s) \in Nat \ {0} /\ Head(s) = s[1] /\ DOMAIN s = 1..Len(s)
      /\ Tail(s) \in Seq(Task) /\ Len(Tail(s)) = Len(s) - 1
      /\ \A i \in 1..(Len(s) - 1) : Tail(s)[i] = s[i + 1]
  BY DEF TypeOK
<1>2. ToSet(s) = {Head(s)} \cup ToSet(Tail(s))
  BY <1>1, HeadAndTail
<1>3. Tail(s) # <<>> => Head(Tail(s)) # "bill"
  <2>1. Tail(s) # <<>> => Head(Tail(s)) = s[2] /\ 2 \in DOMAIN s
    BY <1>1
  <2>2. 2 \in DOMAIN s => s[2] # "bill"
    BY DEF IInv, ChainOrder
  <2> QED
    BY <2>1, <2>2
<1>4. ASSUME NEW i \in DOMAIN Tail(s), Tail(s)[i] = "summarize" PROVE i = Len(Tail(s))
  <2>1. i \in 1..(Len(s) - 1) /\ i + 1 \in DOMAIN s /\ s[i + 1] = "summarize"
    BY <1>1, <1>4
  <2>2. i + 1 = Len(s)
    BY <2>1 DEF Chained
  <2> QED
    BY <1>1, <2>1, <2>2
<1>5. "archive" \notin ToSet(Tail(s)) => Saved(t)' = DOMAIN record'[t]
  <2>1. Head(s) # "archive" => Saved(t)' = Saved(t)
    BY DEF Saved
  <2> QED
    BY <1>2, <2>1 DEF Chained
<1> QED
  BY <1>3, <1>4, <1>5 DEF Chained

\* Nothing that a turn leaves alone gets out of order.
LEMMA OrderStays ==
    ASSUME TypeOK, NEW t \in Turns, OrderedTurn(t), phase[t] = "background", UNCHANGED phase,
           UNCHANGED <<record, archive, history>>, clock' \in {clock, clock + 1},
           \A i \in DOMAIN archive : archive[i].at <= clock
    PROVE  /\ Timed(t)' /\ Tailing(t)' /\ Saved(t)' = Saved(t) /\ Rest(t)' = Rest(t)
           /\ \A i \in DOMAIN archive' : archive'[i].at <= clock'
<1>1. /\ clock \in Nat /\ record[t] \in Seq(Message) /\ archive \in Seq(Message)
      /\ \A i \in DOMAIN record[t] : record[t][i] \in Message
      /\ \A i \in DOMAIN archive : archive[i] \in Message
  BY DEF TypeOK
<1>2. \A x \in Message : x.at \in Nat
  BY DEF Message
<1>3. Saved(t)' = Saved(t) /\ Rest(t)' = Rest(t)
  BY DEF Saved, Rest
<1>4. Timed(t)'
  <2>1. ASSUME NEW i \in DOMAIN record[t] PROVE record[t][i].at <= clock'
    <3>1. record[t][i].at <= clock /\ record[t][i].at \in Nat
      BY <1>1, <1>2 DEF OrderedTurn, Timed
    <3> QED
      BY <1>1, <3>1
  <2> QED
    BY <1>3, <2>1 DEF OrderedTurn, Timed
<1>5. Tailing(t)'
  BY <1>3 DEF OrderedTurn, Tailing
<1>6. \A i \in DOMAIN archive' : archive'[i].at <= clock'
  <2>1. ASSUME NEW i \in DOMAIN archive PROVE archive[i].at <= clock'
    <3>1. archive[i].at <= clock /\ archive[i].at \in Nat
      BY <1>1, <1>2
    <3> QED
      BY <1>1, <3>1
  <2> QED
    BY <2>1
<1> QED
  BY <1>3, <1>4, <1>5, <1>6

\* The record pushed behind a tail of the archive is a tail of the two.
LEMMA AppendOrder ==
    ASSUME TailInv, OneByOne, BothWritten, NEW t \in Turns, AppendHot(t), TypeOK'
    PROVE  Ordered(t)'
<1>1. /\ TypeOK /\ IInv /\ Recorded
      /\ IsSuffix(hot, archive \o Unsaved(t)) /\ OrderedTurn(t)
      /\ \A i \in DOMAIN archive : archive[i].at <= clock
  BY OrderBefore DEF Step, Background
<1>2. /\ phase[t] = "background" /\ phase' = phase /\ tasks[t] # <<>>
      /\ Head(tasks[t]) = "append" /\ tasks'[t] = Tail(tasks[t])
      /\ UNCHANGED <<record, archive, history, clock>>
      /\ tasks[t] \in Seq(Task) /\ record[t] \in Seq(Message)
      /\ hot \in Seq(Message) /\ archive \in Seq(Message) /\ load.length \in Nat
  BY <1>1, LoadFields DEF AppendHot, Doing, From, Pop, TypeOK
<1>3. "append" \in ToSet(tasks[t]) /\ ToSet(tasks[t]) = {"append"} \cup ToSet(Tail(tasks[t]))
  BY <1>2, HeadAndTail
<1>4. Saved(t) = {} /\ Rest(t) = record[t] /\ Unsaved(t) = <<>>
  BY <1>1, <1>3, UnsavedBefore
<1>5. "archive" \in ToSet(Tail(tasks[t])) /\ "append" \notin ToSet(Tail(tasks[t]))
  <2>1. "archive" \in ToSet(tasks[t])
    <3>1. record[t] # <<>>
      BY <1>1, <1>2 DEF Recorded
    <3>2. 1 \in DOMAIN record[t]
      BY <1>2, <3>1
    <3> QED
      BY <1>1, <1>2, <1>4, <3>2 DEF OrderedTurn, Chained
  <2>2. ASSUME NEW i \in DOMAIN Tail(tasks[t]) PROVE Tail(tasks[t])[i] # "append"
    <3>1. i + 1 \in DOMAIN tasks[t] /\ tasks[t][i + 1] = Tail(tasks[t])[i] /\ i + 1 # 1
      BY <1>2
    <3>2. tasks[t][1] = "append"
      BY <1>2
    <3> QED
      BY <1>1, <3>1, <3>2 DEF IInv, ChainOrder
  <2> QED
    BY <1>3, <2>1, <2>2 DEF ToSet
<1>6. /\ Timed(t)' /\ Tailing(t)' /\ Saved(t)' = Saved(t) /\ Rest(t)' = Rest(t)
      /\ \A i \in DOMAIN archive' : archive'[i].at <= clock'
  BY <1>1, <1>2, OrderStays
<1>7. Chained(t)'
  BY <1>1, <1>2, ChainAfter DEF OrderedTurn
<1>8. Unsaved(t)' = record[t]
  BY <1>2, <1>4, <1>5, <1>6 DEF Unsaved
<1>9. hot' = Newest(hot \o record[t], load.length)
  BY DEF AppendHot, May, BothWritten
<1>10. IsSuffix(hot', archive \o record[t])
  <2>1. IsSuffix(hot, archive)
    BY <1>1, <1>2, <1>4, ConcatEmptySeq
  <2>2. /\ hot \o record[t] \in Seq(Message) /\ archive \o record[t] \in Seq(Message)
        /\ IsSuffix(hot \o record[t], archive \o record[t])
    BY <1>2, <2>1, SuffixConcat
  <2>3. hot' \in Seq(Message) /\ IsSuffix(hot', hot \o record[t])
    BY <1>2, <1>9, <2>2, NewestSuffix
  <2> QED
    BY <2>2, <2>3, SuffixTrans
<1> QED
  BY <1>2, <1>6, <1>7, <1>8, <1>10 DEF Ordered, OrderedTurn

\* So is what compression keeps with the record, once all of that is archived.
LEMMA ReloadOrder ==
    ASSUME TailInv, OneByOne, BothWritten, NEW t \in Turns, Reload(t), TypeOK'
    PROVE  Ordered(t)'
<1>1. /\ TypeOK /\ IInv /\ Sequel
      /\ IsSuffix(hot, archive \o Unsaved(t)) /\ OrderedTurn(t)
      /\ \A i \in DOMAIN archive : archive[i].at <= clock
  BY OrderBefore DEF Step, Background
<1>2. /\ phase[t] = "background" /\ phase' = phase /\ tasks[t] # <<>>
      /\ Head(tasks[t]) = "reload" /\ tasks'[t] = Tail(tasks[t])
      /\ UNCHANGED <<record, archive, history, clock>>
      /\ hot' \in {hot, Keep(history[t]) \o record[t]}
      /\ record[t] \in Seq(Message) /\ history[t] \in Seq(Message) /\ archive \in Seq(Message)
  BY <1>1 DEF Reload, Doing, From, Pop, TypeOK
<1>3. tasks'[t] = <<>> /\ "archive" \notin ToSet(tasks[t])
  <2>1. tasks[t] = <<"reload">>
    BY <1>1, <1>2, ChainShape
  <2>2. Tail(<<"reload">>) = <<>> /\ "archive" \notin ToSet(<<"reload">>)
    BY DEF ToSet
  <2> QED
    BY <1>2, <2>1, <2>2
<1>4. t \notin Active' /\ Unsaved(t)' = <<>> /\ Unsaved(t) = <<>>
  <2>1. t \notin Active'
    BY <1>2, <1>3 DEF Active, Settled
  <2>2. Unsaved(t)' = <<>>
    BY <1>3 DEF Unsaved, ToSet
  <2> QED
    BY <1>3, <2>1, <2>2 DEF Unsaved
<1>5. Rest(t) = <<>>
  <2>1. Saved(t) = DOMAIN record[t] /\ \E k \in 0..Len(record[t]) : Saved(t) = 1..k
    BY <1>1, <1>2, <1>3 DEF OrderedTurn, Chained, Timed
  <2> QED
    BY <1>2, <2>1, RestIs DEF Rest
<1>6. IsSuffix(Keep(history[t]) \o record[t], archive)
  <2>1. IsSuffix(history[t] \o record[t], archive)
    BY <1>1, <1>2, <1>5, ConcatEmptySeq DEF OrderedTurn, Tailing
  <2>2. Keep(history[t]) \in Seq(Message) /\ IsSuffix(Keep(history[t]), history[t])
    BY <1>1, <1>2, KeepSuffix DEF TypeOK
  <2>3. IsSuffix(Keep(history[t]) \o record[t], history[t] \o record[t])
    BY <1>2, <2>2, SuffixConcat
  <2>4. Keep(history[t]) \o record[t] \in Seq(Message) /\ history[t] \o record[t] \in Seq(Message)
    BY <1>2, <2>2
  <2> QED
    BY <1>2, <2>1, <2>3, <2>4, SuffixTrans
<1>7. IsSuffix(hot', archive' \o <<>>)
  BY <1>1, <1>2, <1>4, <1>6, ConcatEmptySeq
<1> QED
  BY <1>1, <1>2, <1>4, <1>7 DEF Ordered

\* The steps that write neither list.
LEMMA MoveOrder ==
    ASSUME TailInv, OneByOne, BothWritten, NEW t \in Turns, TypeOK',
           Bill(t) \/ Ingest(t) \/ Summarize(t) \/ SaveSummary(t)
    PROVE  Ordered(t)'
<1>1. /\ TypeOK /\ IInv
      /\ IsSuffix(hot, archive \o Unsaved(t)) /\ OrderedTurn(t)
      /\ \A i \in DOMAIN archive : archive[i].at <= clock
  BY OrderBefore DEF Step, Background
<1>2. /\ phase[t] = "background" /\ phase' = phase /\ tasks[t] # <<>>
      /\ Head(tasks[t]) \in {"bill", "ingest", "summarize", "saveSummary"}
      /\ UNCHANGED <<hot, record, archive, history>> /\ clock' \in {clock, clock + 1}
      /\ \/ tasks'[t] = Tail(tasks[t])
         \/ tasks'[t] = <<>> /\ Head(tasks[t]) = "bill"
         \/ tasks'[t] = <<"saveSummary", "reload">> /\ Head(tasks[t]) = "summarize"
      /\ tasks[t] \in Seq(Task)
  BY <1>1 DEF Bill, Ingest, Summarize, SaveSummary, Doing, From, Pop, stores, TypeOK
<1>3. ToSet(tasks[t]) = {Head(tasks[t])} \cup ToSet(Tail(tasks[t]))
  BY <1>2, HeadAndTail
<1>4. /\ Timed(t)' /\ Tailing(t)' /\ Rest(t)' = Rest(t) /\ Saved(t)' = Saved(t)
      /\ \A i \in DOMAIN archive' : archive'[i].at <= clock'
  BY <1>1, <1>2, OrderStays
<1>5. CASE tasks'[t] = Tail(tasks[t])
  <2>1. Chained(t)'
    BY <1>1, <1>2, <1>5, ChainAfter DEF OrderedTurn
  <2>2. Unsaved(t)' = Unsaved(t)
    BY <1>2, <1>3, <1>4, <1>5 DEF Unsaved
  <2> QED
    BY <1>1, <1>2, <1>4, <2>1, <2>2 DEF Ordered, OrderedTurn
<1>6. CASE tasks'[t] = <<>> /\ Head(tasks[t]) = "bill"
  <2>1. Unsaved(t) = <<>>
    <3>1. "append" \in ToSet(tasks[t])
      BY <1>1, <1>2, <1>6 DEF OrderedTurn, Chained
    <3> QED
      BY <3>1 DEF Unsaved
  <2>2. Unsaved(t)' = <<>>
    BY <1>6 DEF Unsaved, ToSet
  <2>3. t \notin Active'
    BY <1>2, <1>6 DEF Active, Settled
  <2> QED
    BY <1>1, <1>2, <1>4, <2>1, <2>2, <2>3 DEF Ordered
<1>7. CASE tasks'[t] = <<"saveSummary", "reload">> /\ Head(tasks[t]) = "summarize"
  <2>1. "archive" \notin ToSet(tasks[t])
    <3>1. /\ Len(tasks[t]) \in Nat \ {0} /\ tasks[t][1] = "summarize"
          /\ DOMAIN tasks[t] = 1..Len(tasks[t])
      BY <1>2, <1>7
    <3>2. 1 = Len(tasks[t])
      <4>1. \A i \in DOMAIN tasks[t] : tasks[t][i] = "summarize" => i = Len(tasks[t])
        BY <1>1 DEF OrderedTurn, Chained
      <4>2. 1 \in DOMAIN tasks[t]
        BY <3>1
      <4> QED
        BY <3>1, <4>1, <4>2
    <3> QED
      BY <3>1, <3>2 DEF ToSet
  <2>2. ToSet(<<"saveSummary", "reload">>) = {"saveSummary", "reload"}
    BY DEF ToSet
  <2>3. Unsaved(t) = <<>> /\ Unsaved(t)' = <<>>
    BY <1>7, <2>1, <2>2 DEF Unsaved
  <2>4. Chained(t)'
    <3>1. Saved(t)' = DOMAIN record'[t]
      BY <1>1, <1>2, <1>4, <2>1 DEF OrderedTurn, Chained
    <3>2. /\ Head(<<"saveSummary", "reload">>) # "bill"
          /\ \A i \in DOMAIN <<"saveSummary", "reload">> :
                <<"saveSummary", "reload">>[i] # "summarize"
      OBVIOUS
    <3> QED
      BY <1>7, <3>1, <3>2 DEF Chained
  <2> QED
    BY <1>1, <1>2, <1>4, <2>3, <2>4 DEF Ordered, OrderedTurn
<1> QED
  BY <1>2, <1>5, <1>6, <1>7

\* A document stored moves from the rest of the record to the end of the archive.
LEMMA ArchiveOrder ==
    ASSUME TailInv, OneByOne, BothWritten, NEW t \in Turns, Archive(t), TypeOK'
    PROVE  Ordered(t)'
<1> DEFINE r == record[t]
           n == Len(r)
<1>1. /\ TypeOK /\ IInv /\ Sequel
      /\ IsSuffix(hot, archive \o Unsaved(t)) /\ OrderedTurn(t)
      /\ \A i \in DOMAIN archive : archive[i].at <= clock
  BY OrderBefore DEF Step, Background
<1>2. /\ phase[t] = "background" /\ phase' = phase /\ tasks[t] # <<>>
      /\ Head(tasks[t]) = "archive"
      /\ UNCHANGED <<hot, record, history, clock>>
      /\ r \in Seq(Message) /\ archive \in Seq(Message) /\ clock \in Nat
      /\ n \in Nat /\ DOMAIN r = 1..n
  BY <1>1 DEF Archive, Doing, From, TypeOK
<1>3. PICK i \in DOMAIN r :
         /\ r[i] \notin ToSet(archive)
         /\ \A j \in 1..(i - 1) : r[j] \in ToSet(archive)
         /\ archive' = Insert(archive, r[i])
         /\ IF i = n THEN Pop(t) ELSE UNCHANGED tasks
  BY DEF Archive, May, BothWritten
<1>4. PICK k \in 0..n : Saved(t) = 1..k
  BY <1>1 DEF OrderedTurn, Timed
<1>5. i = k + 1 /\ k \in Nat /\ k + 1 \in 0..n /\ i \in 1..n
  <2>1. i \notin 1..k /\ i \in 1..n
    BY <1>2, <1>3, <1>4 DEF Saved
  <2>2. i > 1 => i - 1 \in 1..k
    <3>1. i > 1 => i - 1 \in 1..(i - 1) /\ i - 1 \in DOMAIN r
      BY <1>2, <2>1
    <3>2. i > 1 => i - 1 \in Saved(t)
      BY <1>3, <3>1 DEF Saved
    <3> QED
      BY <1>4, <3>2
  <2> QED
    BY <1>2, <1>4, <2>1, <2>2
<1>6. /\ archive' = archive \o <<r[i]>> /\ r[i] \in Message
      /\ ToSet(archive') = ToSet(archive) \cup {r[i]}
  <2>1. \A j \in DOMAIN archive : archive[j].at <= r[i].at
    BY <1>1, <1>3 DEF OrderedTurn, Timed, Saved
  <2>2. r[i] \in Message
    BY <1>2, <1>3
  <2> QED
    BY <1>2, <1>3, <2>1, <2>2, InsertLast, InsertAdds
<1>7. Saved(t)' = 1..(k + 1)
  <2>1. \A j \in 1..n : r[j] = r[i] <=> j = i
    <3>1. IsInjective(r)
      BY <1>1, RecordOnce DEF TailInv, OnceInv
    <3> QED
      BY <1>2, <1>5, <3>1 DEF IsInjective
  <2>2. Saved(t)' = Saved(t) \cup {i}
    BY <1>2, <1>5, <1>6, <2>1 DEF Saved
  <2>3. 1..(k + 1) = (1..k) \cup {k + 1}
    BY <1>5
  <2> QED
    BY <1>4, <1>5, <2>2, <2>3
<1>8. Rest(t) = <<r[i]>> \o Rest(t)' /\ Rest(t)' \in Seq(Message) /\ (i = n => Rest(t)' = <<>>)
  <2>1. Rest(t) = SubSeq(r, k + 1, n)
    BY <1>2, <1>4, RestIs DEF Rest
  <2>2. /\ Rest(t)' = SubSeq(r, (k + 1) + 1, n)
        /\ Saved(t)' = DOMAIN r => Rest(t)' = <<>>
    <3>1. ASSUME NEW S, S = 1..(k + 1)
          PROVE  /\ SubSeq(r, Cardinality(S) + 1, n) = SubSeq(r, (k + 1) + 1, n)
                 /\ S = DOMAIN r => SubSeq(r, Cardinality(S) + 1, n) = <<>>
      <4> DEFINE h == k + 1
      <4>1. r \in Seq(Message) /\ h \in 0..Len(r) /\ S = 1..h /\ n = Len(r)
        BY <1>2, <1>5, <3>1
      <4> HIDE DEF h, r, n
      <4>2. h \in Nat /\ h \in Int /\ 1 \in Int /\ Len(r) \in Nat /\ h <= Len(r)
        BY ONLY <4>1
      <4>3. Cardinality(S) = h
        <5>1. Cardinality(1..h) = h
          BY ONLY <4>2, FS_Interval
        <5> QED BY ONLY <4>1, <5>1
      <4>4. S = DOMAIN r => h = Len(r)
        <5>1. S = DOMAIN r => 1..h = 1..Len(r)
          BY ONLY <4>1
        <5>2. 1..h = 1..Len(r) => h = Len(r)
          <6>1. ASSUME 1..h = 1..Len(r), h < Len(r) PROVE FALSE
            <7>1. Len(r) \in 1..Len(r) /\ Len(r) \notin 1..h
              BY ONLY <4>2, <6>1
            <7> QED BY ONLY <7>1, <6>1
          <6> QED BY ONLY <4>2, <6>1
        <5> QED BY ONLY <5>1, <5>2
      <4>5. SubSeq(r, Len(r) + 1, Len(r)) = <<>>
        BY ONLY <4>1, <4>2, SubSeqEmpty
      <4> QED BY ONLY <4>1, <4>3, <4>4, <4>5 DEF h
    <3>2. Rest(t)' = SubSeq(r, Cardinality(Saved(t)') + 1, n)
      BY <1>2 DEF Rest
    <3> QED
      BY <1>7, <3>1, <3>2
  <2>3. SubSeq(r, i, n) = <<r[i]>> \o SubSeq(r, i + 1, n)
    <3>1. i \in 1..Len(r) /\ n \in i..Len(r)
      BY <1>2, <1>5
    <3> QED
      BY <1>2, <3>1, SubSeqRecursiveFirst
  <2>4. SubSeq(r, i + 1, n) \in Seq(Message)
    BY <1>2, <1>5, SubSeqSuffix, i + 1 \in 1..(Len(r) + 1)
  <2>5. i = n => Saved(t)' = DOMAIN r
    BY <1>2, <1>5, <1>7
  <2> QED
    BY <1>5, <2>1, <2>2, <2>3, <2>4, <2>5
<1>9. archive' \o Rest(t)' = archive \o Rest(t)
  <2>1. \A a, b, c \in Seq(Message) : (a \o b) \o c = a \o (b \o c)
    BY ConcatAssociative
  <2>2. <<r[i]>> \in Seq(Message)
    BY <1>6
  <2> QED
    BY <1>2, <1>6, <1>8, <2>1, <2>2
<1>10. IsSuffix(hot', archive' \o Unsaved(t)')
  <2>1. "archive" \in ToSet(tasks[t]) /\ "append" \notin ToSet(tasks[t])
    <3>1. tasks[t] \in Seq(Task)
      BY <1>1 DEF TypeOK
    <3>2. Head(tasks[t]) \in ToSet(tasks[t])
      BY <1>2, <3>1, HeadAndTail
    <3> QED
      BY <1>1, <1>2, <3>2, ChainShape
  <2>2. Unsaved(t) = Rest(t)
    BY <2>1 DEF Unsaved
  <2>3. Unsaved(t)' = Rest(t)'
    BY <1>3, <1>8, <2>1 DEF Unsaved
  <2> QED
    BY <1>1, <1>2, <1>9, <2>2, <2>3
<1>11. \A j \in DOMAIN archive' :
           archive'[j] = r[i] \/ (j \in DOMAIN archive /\ archive'[j] = archive[j])
  <2>1. DOMAIN archive = 1..Len(archive) /\ Len(archive) \in Nat
    BY <1>2
  <2> QED
    BY <1>2, <1>6, <2>1
<1>12. \A j \in DOMAIN archive' : archive'[j].at <= clock'
  <2>1. r[i].at <= clock
    BY <1>1, <1>3 DEF OrderedTurn, Timed
  <2> QED
    BY <1>1, <1>2, <1>11, <2>1
<1>13. Timed(t)'
  <2>1. ASSUME NEW x \in DOMAIN r \ Saved(t)', NEW j \in DOMAIN archive'
        PROVE  archive'[j].at <= r[x].at
    <3>1. x \in DOMAIN r \ Saved(t) /\ i <= x
      BY <1>2, <1>4, <1>5, <1>7
    <3>2. r[i].at <= r[x].at /\ \A y \in DOMAIN archive : archive[y].at <= r[x].at
      BY <1>1, <1>3, <3>1 DEF OrderedTurn, Timed
    <3> QED
      BY <1>11, <3>2
  <2>2. \E l \in 0..Len(record'[t]) : Saved(t)' = 1..l
    BY <1>2, <1>5, <1>7
  <2>3. \A x \in DOMAIN r : /\ r[x].at <= clock
                            /\ \A y \in DOMAIN r : x <= y => r[x].at <= r[y].at
    BY <1>1 DEF OrderedTurn, Timed
  <2> QED
    BY <1>2, <2>1, <2>2, <2>3 DEF Timed
<1>14. Tailing(t)'
  <2>1. IsSuffix(history[t] \o r, archive \o Rest(t))
    BY <1>1, <1>2 DEF OrderedTurn, Tailing
  <2> QED
    BY <1>2, <1>9, <2>1 DEF Tailing
<1>15. Chained(t)'
  <2>1. CASE i = n
    <3>1. Saved(t)' = DOMAIN record'[t] /\ tasks'[t] = Tail(tasks[t])
      BY <1>1, <1>2, <1>3, <1>5, <1>7, <2>1 DEF Pop, TypeOK
    <3> QED
      BY <1>1, <1>2, <3>1, ChainAfter DEF OrderedTurn
  <2>2. CASE i # n
    <3>1. tasks' = tasks /\ "archive" \in ToSet(tasks[t])
      BY <1>1, <1>2, <1>3, <2>2, HeadAndTail DEF TypeOK
    <3> QED
      BY <1>1, <3>1 DEF OrderedTurn, Chained
  <2> QED
    BY <2>1, <2>2
<1> QED
  BY <1>10, <1>12, <1>13, <1>14, <1>15 DEF Ordered, OrderedTurn

LEMMA NextOrder == TailInv /\ [Next]_vars => OrderInv'
<1> SUFFICES ASSUME TailInv, [Next]_vars, OneByOne', BothWritten'
             PROVE  /\ \A i \in DOMAIN archive' : archive'[i].at <= clock'
                    /\ \A u \in Active' : OrderedTurn(u)'
                    /\ HotIsTailOfArchive'
  BY DEF OrderInv
<1>1. /\ TypeOK /\ Alone /\ Registered /\ OneByOne /\ BothWritten
      /\ HotIsTailOfArchive /\ archive \in Seq(Message) /\ hot \in Seq(Message)
      /\ \A i \in DOMAIN archive : archive[i].at <= clock
      /\ \A u \in Active : OrderedTurn(u)
  <2>1. load' = load
    BY DEF Next, vars
  <2>2. OneByOne /\ BothWritten
    BY <2>1 DEF OneByOne, BothWritten
  <2> QED
    BY <2>2 DEF TailInv, CoverInv, OrderInv, TypeOK
<1>2. TypeOK' /\ Registered'
  BY <1>1, NextType, NextRegistered
\* A turn that is not in progress has nothing left to archive.
<1>3. ASSUME NEW u \in Turns, u \notin Active' PROVE Unsaved(u)' = <<>>
  <2>1. tasks'[u] = <<>>
    BY <1>2, <1>3 DEF Registered, Active, Settled
  <2> QED
    BY <2>1 DEF Unsaved, ToSet
<1>4. ASSUME NEW t \in Turns, Start(t) \/ Step(t)
      PROVE  /\ \A i \in DOMAIN archive' : archive'[i].at <= clock'
             /\ \A u \in Active' : OrderedTurn(u)'
             /\ HotIsTailOfArchive'
  <2>1. Ordered(t)'
    BY <1>1, <1>2, <1>4, LoadOrder, RunOrder, AppendOrder, ReloadOrder, MoveOrder, ArchiveOrder
       DEF Step, Background
  <2>2. Active' \subseteq {t}
    BY <1>1, <1>4, OnlyStepper
  <2>3. ASSUME NEW u \in Turns, Active' \subseteq {u} PROVE IsSuffix(hot', archive' \o Unsaved(u)')
    <3>1. u = t \/ (u \notin Active' /\ t \notin Active')
      BY <2>2, <2>3
    <3>2. Unsaved(u)' = Unsaved(t)'
      BY <1>3, <3>1
    <3> QED
      BY <2>1, <3>2 DEF Ordered
  <2> QED
    BY <2>1, <2>2, <2>3 DEF Ordered, HotIsTailOfArchive
<1>5. CASE Expire
  <2>1. /\ UNCHANGED <<archive, clock, phase, tasks, record, history>> /\ hot' = <<>>
    BY <1>5 DEF Expire, locals
  <2>2. Active' = Active
    BY <2>1 DEF Active, Settled
  <2>3. \A u \in Turns : archive' \o Unsaved(u)' \in Seq(Message)
    <3>1. ASSUME NEW u \in Turns PROVE Unsaved(u)' = Unsaved(u) /\ Unsaved(u) \in Seq(Message)
      BY <1>1, <2>1, RestType DEF Unsaved, Rest, Saved
    <3> QED
      BY <1>1, <2>1, <3>1
  <2>4. HotIsTailOfArchive'
    BY <2>1, <2>3, SuffixEnds DEF HotIsTailOfArchive
  <2> QED
    BY <1>1, <2>1, <2>2, <2>4 DEF OrderedTurn, Timed, Chained, Tailing, Saved, Rest
<1>6. ~Crash
  BY <1>1 DEF Crash, May, BothWritten
<1>7. CASE UNCHANGED vars
  <2>1. UNCHANGED <<hot, archive, clock, phase, tasks, record, history>> /\ Active' = Active
    BY <1>7 DEF vars, locals, Active, Settled
  <2>2. \A u \in Turns : Unsaved(u)' = Unsaved(u)
    BY <2>1 DEF Unsaved, Rest, Saved
  <2>3. HotIsTailOfArchive'
    BY <1>1, <2>1, <2>2 DEF HotIsTailOfArchive
  <2> QED
    BY <1>1, <2>1, <2>3 DEF OrderedTurn, Timed, Chained, Tailing, Saved, Rest
<1> QED
  BY <1>4, <1>5, <1>6, <1>7 DEF Next

LEMMA InitTail == Init => TailInv
<1> SUFFICES ASSUME Init PROVE TailInv
  OBVIOUS
<1>1. KeptInv /\ TypeOK /\ Active = {} /\ ToSet(<<>>) = {}
  BY InitKept DEF KeptInv, CoverInv, Init, Active, Settled, ToSet
<1>2. Unread
  BY DEF Init, Unread
<1> DEFINE old == Legacy(load.legacy)
<1>3. /\ load.legacy \in Seq(Nat) /\ load.length \in Nat
      /\ old \in Seq(Message) /\ Len(old) = Len(load.legacy) /\ Len(load.legacy) \in Nat
      /\ \A i \in DOMAIN old : old[i].at = i
  <2>1. load.legacy \in Seq(Nat) /\ load.length \in Nat
    BY <1>1, LoadFields DEF TypeOK
  <2> QED
    BY <2>1, LegacyType DEF Legacy
<1>4. archive = old /\ clock = Len(load.legacy) /\ hot \in {<<>>, Newest(old, load.length)}
  BY DEF Init
<1> HIDE DEF old
<1>5. \A i \in DOMAIN archive : archive[i].at <= clock
  BY <1>3, <1>4
<1>6. HotIsTailOfArchive
  <2>1. IsSuffix(hot, archive)
    BY <1>3, <1>4, SuffixEnds, NewestSuffix
  <2>2. \A t \in Turns : Unsaved(t) = <<>>
    BY <1>1 DEF Init, Unsaved
  <2>3. archive \o <<>> = archive
    BY <1>3, <1>4, ConcatEmptySeq
  <2> QED
    BY <2>1, <2>2, <2>3 DEF HotIsTailOfArchive
<1> QED
  BY <1>1, <1>2, <1>5, <1>6 DEF TailInv, OrderInv, KeptInv

\* Whatever the lengths, watermarks and limits: while turns do not overlap and what they say is
\* written to both stores, the hot context is a gapless tail of the conversation as it is archived.
THEOREM HotIsTailOfArchiveHolds == Spec => []HotIsTailOfArchive
<1>1. TailInv /\ [Next]_vars => TailInv'
  <2>1. OnceInv /\ [Next]_vars => OnceInv'
    BY NextOnce
  <2>2. OnceInv => IInv /\ TypeOK
    BY DEF OnceInv, IInv
  <2> QED
    BY <2>1, <2>2, CoverNext, NextRecorded, NextUnread, NextOrder DEF TailInv
<1>2. TailInv /\ ~(OneByOne /\ BothWritten) => HotIsTailOfArchive
  BY DEF HotIsTailOfArchive
<1>3. TailInv => HotIsTailOfArchive
  BY <1>2 DEF TailInv, OrderInv
<1> QED
  BY <1>1, <1>3, InitTail, PTL DEF Spec
=============================================================================
