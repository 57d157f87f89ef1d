------------------------ MODULE SessionStore_proofs ------------------------
(***************************************************************************)
(* Proofs, for any users, tasks, page sizes and workloads: a session is    *)
(* written by the tasks of its creator only; no save undoes another's      *)
(* update; a session with messages keeps its agent; the pages of any size  *)
(* are the archive; and whoever scrolls misses nothing.                    *)
(***************************************************************************)
EXTENDS SessionStore, Lists_proofs

-----------------------------------------------------------------------------
(* The inductive invariant.                                                *)

TypesOK ==
    /\ creator \in Users \cup {None}
    /\ clock \in Nat
    /\ at \in [Tasks -> Place]
    /\ req \in [Tasks -> [op : Ops, user : Users \cup {None}]]
    /\ copy \in [Tasks -> Document \cup {None}]
    /\ record \in [Tasks -> Seq(Message)]
    /\ load \in Workloads

DocOK == doc # None => doc \in Document /\ doc.owner = creator

\* The places a task reaches only after the session was found for its user.
Granted == {"save", "delete", "agent", "ask", "answer", "archive", "summary", "saveSummary",
            "title", "generate"}

\* The operations that get to a place.
Suits(place, op) ==
    /\ place = "check" => op \in {"setAgent", "scroll", "turn"}
    /\ place = "messages" => op = "setAgent"
    /\ place = "find" => op # "scroll"
    /\ place \in {"agent", "ask", "answer", "archive", "summary", "saveSummary", "title",
                  "generate"} => op = "turn"
    /\ place \in {"count", "users", "window"} => op = "scroll"

\* A task that got there is the creator's, and what it will save has the creator as owner.
TaskOK(t) ==
    /\ Suits(at[t], req[t].op)
    /\ at[t] \in Granted => req[t].user = creator
    /\ copy[t] # None => copy[t] \in Document /\ copy[t].owner = creator
    /\ creator = None => at[t] = "idle" /\ copy[t] = None

OwnerInv == TypesOK /\ DocOK /\ \A t \in Tasks : TaskOK(t)

-----------------------------------------------------------------------------
(* One step of one task.                                                   *)

\* The other tasks keep their state.
OthersKept(t) ==
    \A s \in Tasks \ {t} :
        /\ at'[s] = at[s]
        /\ req'[s] = req[s]
        /\ copy'[s] = copy[s]
        /\ record'[s] = record[s]

OwnersStep(t) == <<doc, archive>>' # <<doc, archive>> => req[t].user = creator

StepOK(t) ==
    /\ TypesOK' /\ DocOK' /\ TaskOK(t)'
    /\ creator' = creator
    /\ OthersKept(t)
    /\ OwnersStep(t)

\* Whoever finds the session is its creator.
LEMMA FoundIsCreator ==
    ASSUME OwnerInv, NEW user, FoundFor(user)
    PROVE  user = creator /\ doc \in Document /\ doc # None
BY DEF OwnerInv, DocOK, FoundFor

\* A task that ends holds nothing any more.
LEMMA FinishOK ==
    ASSUME OwnerInv, NEW t \in Tasks, Finish(t), KeepStores
    PROVE  StepOK(t)
<1> USE DEF OwnerInv, TypesOK, TaskOK, DocOK
<1>1. /\ at' = [at EXCEPT ![t] = "idle"]
      /\ req' = [req EXCEPT ![t] = NoCall]
      /\ copy' = [copy EXCEPT ![t] = None]
      /\ record' = [record EXCEPT ![t] = <<>>]
  BY DEF Finish, Goto
<1>2. TypesOK'
  BY <1>1 DEF KeepStores, Place, NoCall, Ops
<1>3. DocOK'
  BY DEF KeepStores
<1>4. TaskOK(t)'
  BY <1>1 DEF Granted, Suits
<1>5. OthersKept(t)
  BY <1>1 DEF OthersKept
<1> QED
  BY <1>2, <1>3, <1>4, <1>5 DEF StepOK, OwnersStep, KeepStores

\* A task that goes on with the same locals may do so to a place it has the right to.
LEMMA GoOnOK ==
    ASSUME OwnerInv, NEW t \in Tasks, NEW place \in Place, GoOn(t, place), KeepStores,
           creator # None, Suits(place, req[t].op),
           place \in Granted => req[t].user = creator
    PROVE  StepOK(t)
<1> USE DEF OwnerInv, TypesOK, TaskOK, DocOK
<1>1. /\ at' = [at EXCEPT ![t] = place]
      /\ UNCHANGED <<req, copy, record>>
  BY DEF GoOn, Goto
<1>2. TypesOK'
  BY <1>1 DEF KeepStores
<1>3. TaskOK(t)'
  BY <1>1 DEF KeepStores
<1>4. OthersKept(t)
  BY <1>1 DEF OthersKept
<1> QED
  BY <1>2, <1>3, <1>4 DEF StepOK, OwnersStep, KeepStores

\* A task that takes a document into its hands to save it, or to ask for its title.
LEMMA TakeOK ==
    ASSUME OwnerInv, NEW t \in Tasks, NEW place \in Place, NEW new \in Document,
           KeepStores, Goto(t, place), copy' = [copy EXCEPT ![t] = new],
           UNCHANGED <<req, record>>,
           creator # None, new.owner = creator, Suits(place, req[t].op),
           place \in Granted => req[t].user = creator
    PROVE  StepOK(t)
<1> USE DEF OwnerInv, TypesOK, TaskOK, DocOK
<1>1. at' = [at EXCEPT ![t] = place]
  BY DEF Goto
<1>2. TypesOK'
  BY <1>1 DEF KeepStores
<1>3. TaskOK(t)'
  BY <1>1 DEF KeepStores
<1>4. OthersKept(t)
  BY <1>1 DEF OthersKept
<1> QED
  BY <1>2, <1>3, <1>4 DEF StepOK, OwnersStep, KeepStores

-----------------------------------------------------------------------------
(* The actions.                                                            *)

LEMMA BeginOK ==
    ASSUME OwnerInv, NEW t \in Tasks, NEW op \in Ops, NEW user \in Users, Begin(t, op, user)
    PROVE  StepOK(t)
<1> USE DEF OwnerInv, TypesOK, TaskOK, DocOK
<1> DEFINE place == IF op \in {"delete", "rename", "pin"} THEN "find" ELSE "check"
<1>1. /\ at' = [at EXCEPT ![t] = place]
      /\ req' = [req EXCEPT ![t] = [op |-> op, user |-> user]]
      /\ creator # None
      /\ UNCHANGED <<copy, record>>
      /\ KeepStores
  BY DEF Begin, Goto
<1>2. place \in Place \ Granted /\ Suits(place, op)
  BY DEF Place, Granted, Ops, Suits
<1>3. TypesOK'
  BY <1>1, <1>2 DEF KeepStores
<1>4. TaskOK(t)'
  BY <1>1, <1>2 DEF KeepStores
<1>5. OthersKept(t)
  BY <1>1 DEF OthersKept
<1> QED
  BY <1>1, <1>3, <1>4, <1>5 DEF StepOK, OwnersStep, KeepStores

LEMMA CheckOK ==
    ASSUME OwnerInv, NEW t \in Tasks, Check(t)
    PROVE  StepOK(t)
<1>1. KeepStores
  BY DEF Check
<1>2. creator # None
  BY DEF Check, OwnerInv, TaskOK
<1>3. CASE FoundFor(req[t].user) /\ GoOn(t, AfterCheck[req[t].op])
  <2>1. req[t].user = creator
    BY <1>3, FoundIsCreator
  <2> DEFINE place == AfterCheck[req[t].op]
  <2>2. req[t].op \in {"setAgent", "scroll", "turn"}
    BY DEF Check, OwnerInv, TaskOK, Suits
  <2>3. place \in Place /\ Suits(place, req[t].op)
    BY <2>2 DEF AfterCheck, Place, Granted, Suits
  <2> QED
    BY <1>1, <1>2, <1>3, <2>1, <2>3, GoOnOK
<1>4. CASE Finish(t)
  BY <1>1, <1>4, FinishOK
<1> QED
  BY <1>3, <1>4 DEF Check

LEMMA CheckMessagesOK ==
    ASSUME OwnerInv, NEW t \in Tasks, CheckMessages(t)
    PROVE  StepOK(t)
<1>1. KeepStores
  BY DEF CheckMessages
<1>2. creator # None
  BY DEF CheckMessages, OwnerInv, TaskOK
<1>3. CASE GoOn(t, "find")
  <2>1. Suits("find", req[t].op)
    BY DEF CheckMessages, OwnerInv, TaskOK, Suits
  <2> QED
    BY <1>1, <1>2, <1>3, <2>1, GoOnOK DEF Place, Granted
<1>4. CASE Finish(t)
  BY <1>1, <1>4, FinishOK
<1> QED
  BY <1>3, <1>4 DEF CheckMessages

\* What a request changes is never the owner.
LEMMA ChangedKeepsOwner ==
    ASSUME OwnerInv, NEW t \in Tasks, doc \in Document, NEW new \in Changed(t),
           req[t].op \in {"rename", "pin", "setAgent", "turn"}
    PROVE  new \in Document /\ new.owner = doc.owner
<1>1. load.titles \subseteq Title /\ load.agents \subseteq Agent
  BY SessionAssumption DEF OwnerInv, TypesOK, GivenTitle, Title
<1>2. CASE req[t].op = "rename"
  BY <1>1, <1>2 DEF Changed, Document
<1>3. CASE req[t].op = "pin"
  BY <1>3 DEF Changed, Document
<1>4. CASE req[t].op = "setAgent"
  BY <1>1, <1>4 DEF Changed, Document
<1>5. CASE req[t].op = "turn"
  BY <1>5 DEF Changed, Document, Title
<1> QED
  BY <1>2, <1>3, <1>4, <1>5

LEMMA FindOK ==
    ASSUME OwnerInv, NEW t \in Tasks, Find(t)
    PROVE  StepOK(t)
<1>1. KeepStores /\ creator # None /\ req[t].op # "scroll" /\ req[t].op \in Ops
  BY DEF Find, OwnerInv, TypesOK, TaskOK, Suits
<1>2. CASE Finish(t)
  BY <1>1, <1>2, FinishOK
<1>3. CASE FoundFor(req[t].user) /\ GoOn(t, "delete")
  <2>1. req[t].user = creator
    BY <1>3, FoundIsCreator
  <2> QED
    BY <1>1, <1>3, <2>1, GoOnOK DEF Place, Suits
<1>4. ASSUME FoundFor(req[t].user), req[t].op # "delete", NEW new \in Changed(t),
             copy' = [copy EXCEPT ![t] = new], Goto(t, "save"), UNCHANGED <<req, record>>
      PROVE  StepOK(t)
  <2>1. req[t].user = creator /\ doc \in Document /\ doc # None
    BY <1>4, FoundIsCreator
  <2>2. doc.owner = creator
    BY <2>1 DEF OwnerInv, DocOK
  <2>3. new \in Document /\ new.owner = creator
    BY <1>1, <1>4, <2>1, <2>2, ChangedKeepsOwner DEF Ops
  <2> QED
    BY <1>1, <1>4, <2>1, <2>3, TakeOK DEF Place, Suits
<1> QED
  BY <1>2, <1>3, <1>4 DEF Find

LEMMA SaveOK ==
    ASSUME OwnerInv, NEW t \in Tasks, Save(t) \/ Delete(t)
    PROVE  StepOK(t)
<1> USE DEF OwnerInv, TypesOK, TaskOK, DocOK
<1>1. /\ at[t] \in {"save", "delete"}
      /\ doc' \in {copy[t], None}
      /\ at' = [at EXCEPT ![t] = "idle"]
      /\ req' = [req EXCEPT ![t] = NoCall]
      /\ copy' = [copy EXCEPT ![t] = None]
      /\ record' = [record EXCEPT ![t] = <<>>]
      /\ UNCHANGED <<creator, archive, clock, load>>
  BY DEF Save, Delete, Finish, Goto
<1>2. TypesOK'
  BY <1>1 DEF Place, NoCall, Ops
<1>3. DocOK'
  BY <1>1
<1>4. TaskOK(t)'
  BY <1>1 DEF Granted, Suits
<1>5. OthersKept(t)
  BY <1>1 DEF OthersKept
<1>6. req[t].user = creator
  BY <1>1 DEF Granted
<1> QED
  BY <1>1, <1>2, <1>3, <1>4, <1>5, <1>6 DEF StepOK, OwnersStep

LEMMA ReadAgentOK ==
    ASSUME OwnerInv, NEW t \in Tasks, ReadAgent(t)
    PROVE  StepOK(t)
<1>1. KeepStores /\ creator # None /\ req[t].op = "turn" /\ req[t].user = creator
  BY DEF ReadAgent, OwnerInv, TaskOK, Suits, Granted
<1>2. CASE GoOn(t, "ask")
  BY <1>1, <1>2, GoOnOK DEF Place, Suits
<1>3. CASE Finish(t)
  BY <1>1, <1>3, FinishOK
<1> QED
  BY <1>2, <1>3 DEF ReadAgent

\* The messages of a turn are made and archived while nothing else of it changes.
LEMMA RecordOK ==
    ASSUME OwnerInv, NEW t \in Tasks, NEW place \in Granted \ {"save", "delete"},
           at[t] \in Granted \ {"save", "delete"},
           at' = [at EXCEPT ![t] = place], clock' \in Nat,
           NEW messages \in Seq(Message), record' = [record EXCEPT ![t] = messages],
           UNCHANGED <<doc, creator, req, copy, load>>
    PROVE  StepOK(t)
<1> USE DEF OwnerInv, TypesOK, TaskOK, DocOK
<1>1. TypesOK'
  BY DEF Granted, Place
<1>2. TaskOK(t)'
  BY DEF Granted, Suits
<1>3. OthersKept(t)
  BY DEF OthersKept
<1> QED
  BY <1>1, <1>2, <1>3 DEF StepOK, OwnersStep

LEMMA AskOK ==
    ASSUME OwnerInv, NEW t \in Tasks, Ask(t) \/ Answer(t)
    PROVE  StepOK(t)
<1>1. clock \in Nat /\ record[t] \in Seq(Message) /\ creator \in Users
  BY DEF Ask, Answer, OwnerInv, TypesOK, TaskOK
<1>2. \A part \in {1, 2} : NewMessage(t, part) \in Message
  BY <1>1 DEF Ask, Answer, OwnerInv, TaskOK, Granted, NewMessage, Message
<1>3. CASE Ask(t)
  <2>1. <<NewMessage(t, 1)>> \in Seq(Message)
    BY <1>2
  <2>2. /\ at[t] \in Granted \ {"save", "delete"}
        /\ at' = [at EXCEPT ![t] = "answer"] /\ "answer" \in Granted \ {"save", "delete"}
        /\ record' = [record EXCEPT ![t] = <<NewMessage(t, 1)>>]
        /\ UNCHANGED <<doc, creator, req, copy, load>>
    BY <1>3 DEF Ask, Goto, Granted
  <2>3. clock' \in Nat
    BY <1>1, <1>3 DEF Ask
  <2> QED
    BY <2>1, <2>2, <2>3, RecordOK
<1>4. CASE Answer(t)
  <2>1. record' = [record EXCEPT ![t] = Append(record[t], NewMessage(t, 2))]
    BY <1>4 DEF Answer
  <2>2. Append(record[t], NewMessage(t, 2)) \in Seq(Message)
    BY <1>1, <1>2
  <2>3. /\ at[t] \in Granted \ {"save", "delete"}
        /\ at' = [at EXCEPT ![t] = "archive"] /\ "archive" \in Granted \ {"save", "delete"}
        /\ UNCHANGED <<doc, creator, req, copy, load>>
    BY <1>4 DEF Answer, Goto, Granted
  <2>4. clock' \in Nat
    BY <1>1, <1>4 DEF Answer
  <2> QED
    BY <2>1, <2>2, <2>3, <2>4, RecordOK
<1> QED
  BY <1>3, <1>4

LEMMA ArchiveNextOK ==
    ASSUME OwnerInv, NEW t \in Tasks, ArchiveNext(t)
    PROVE  StepOK(t)
<1>1. /\ at \in [Tasks -> Place] /\ at[t] = "archive" /\ clock' \in Nat
      /\ record[t] \in Seq(Message)
      /\ UNCHANGED <<doc, creator, req, copy, load>>
  BY DEF ArchiveNext, OwnerInv, TypesOK
<1>2. CASE record[t] # <<>> /\ record' = [record EXCEPT ![t] = Tail(@)] /\ UNCHANGED at
  <2>1. record' = [record EXCEPT ![t] = Tail(record[t])] /\ Tail(record[t]) \in Seq(Message)
    BY <1>1, <1>2
  <2>2. at' = [at EXCEPT ![t] = "archive"]
    BY <1>1, <1>2
  <2> QED
    BY <1>1, <2>1, <2>2, RecordOK DEF Granted
<1>3. CASE record' = [record EXCEPT ![t] = <<>>] /\ Goto(t, "summary")
  <2>1. <<>> \in Seq(Message)
    OBVIOUS
  <2> QED
    BY <1>1, <1>3, <2>1, RecordOK DEF Goto, Granted
<1> QED
  BY <1>2, <1>3 DEF ArchiveNext

LEMMA FindForSummaryOK ==
    ASSUME OwnerInv, NEW t \in Tasks, FindForSummary(t)
    PROVE  StepOK(t)
<1>1. KeepStores /\ creator # None /\ req[t].op = "turn" /\ req[t].user = creator
  BY DEF FindForSummary, OwnerInv, TaskOK, Suits, Granted
<1>2. CASE GoOn(t, "title")
  BY <1>1, <1>2, GoOnOK DEF Place, Suits
<1>3. CASE /\ doc # None
           /\ copy' = [copy EXCEPT ![t] = [doc EXCEPT !.summary = clock]]
           /\ Goto(t, "saveSummary") /\ UNCHANGED <<req, record, view>>
  <2>1. doc \in Document /\ doc.owner = creator /\ clock \in Nat
    BY <1>3 DEF OwnerInv, DocOK, TypesOK
  <2> DEFINE new == [doc EXCEPT !.summary = clock]
  <2>2. new \in Document /\ new.owner = creator
    BY <2>1 DEF Document
  <2> QED
    BY <1>1, <1>3, <2>2, TakeOK DEF Place, Suits
<1> QED
  BY <1>2, <1>3 DEF FindForSummary

LEMMA SaveSummaryOK ==
    ASSUME OwnerInv, NEW t \in Tasks, SaveSummary(t)
    PROVE  StepOK(t)
<1> USE DEF OwnerInv, TypesOK, TaskOK, DocOK
<1>1. /\ at[t] = "saveSummary"
      /\ doc' = copy[t]
      /\ at' = [at EXCEPT ![t] = "title"]
      /\ UNCHANGED <<creator, archive, clock, load, req, copy, record>>
  BY DEF SaveSummary, GoOn, Goto
<1>2. TypesOK'
  BY <1>1 DEF Place
<1>3. DocOK'
  BY <1>1
<1>4. TaskOK(t)'
  BY <1>1 DEF Granted, Suits
<1>5. OthersKept(t)
  BY <1>1 DEF OthersKept
<1>6. req[t].user = creator
  BY <1>1 DEF Granted
<1> QED
  BY <1>1, <1>2, <1>3, <1>4, <1>5, <1>6 DEF StepOK, OwnersStep

LEMMA TitleOK ==
    ASSUME OwnerInv, NEW t \in Tasks, ReadTitle(t) \/ Generate(t)
    PROVE  StepOK(t)
<1>1. KeepStores /\ creator # None /\ req[t].op = "turn" /\ req[t].user = creator
  BY DEF ReadTitle, Generate, OwnerInv, TaskOK, Suits, Granted
<1>2. CASE Finish(t)
  BY <1>1, <1>2, FinishOK
<1>3. CASE /\ doc # None /\ copy' = [copy EXCEPT ![t] = doc]
           /\ Goto(t, "generate") /\ UNCHANGED <<req, record, view>>
  <2>1. doc \in Document /\ doc.owner = creator
    BY <1>3 DEF OwnerInv, DocOK
  <2> QED
    BY <1>1, <1>3, <2>1, TakeOK DEF Place, Suits
<1>4. CASE GoOn(t, "find")
  BY <1>1, <1>4, GoOnOK DEF Place, Suits
<1> QED
  BY <1>2, <1>3, <1>4 DEF ReadTitle, Generate

\* Reading pages changes nothing but what the client sees.
LEMMA ReadOK ==
    ASSUME OwnerInv, NEW t \in Tasks, CountTurns(t) \/ FetchUsers(t) \/ FetchWindow(t)
    PROVE  StepOK(t)
<1> USE DEF OwnerInv, TypesOK, TaskOK, DocOK
<1>1. /\ KeepStores /\ creator # None /\ req[t].op = "scroll"
      /\ UNCHANGED <<req, copy, record>>
  BY DEF CountTurns, FetchUsers, FetchWindow, Suits
<1>2. \E place \in {"check", "users", "window", "seen"} : at' = [at EXCEPT ![t] = place]
  BY DEF CountTurns, FetchUsers, FetchWindow, Respond, NextCall, Goto
<1>3. PICK place \in {"check", "users", "window", "seen"} : at' = [at EXCEPT ![t] = place]
  BY <1>2
<1>4. TypesOK'
  BY <1>1, <1>3 DEF Place, KeepStores
<1>5. TaskOK(t)'
  BY <1>1, <1>3 DEF Granted, Suits, KeepStores
<1>6. OthersKept(t)
  BY <1>1, <1>3 DEF OthersKept
<1> QED
  BY <1>1, <1>4, <1>5, <1>6 DEF StepOK, OwnersStep, KeepStores

LEMMA TaskStepOK ==
    ASSUME OwnerInv, NEW t \in Tasks, TaskStep(t)
    PROVE  StepOK(t)
<1>1. CASE Close(t) \/ Abort(t)
  BY <1>1, FinishOK DEF Close, Abort
<1> QED
  BY <1>1, BeginOK, CheckOK, CheckMessagesOK, FindOK, SaveOK, ReadAgentOK, AskOK,
     ArchiveNextOK, FindForSummaryOK, SaveSummaryOK, TitleOK, ReadOK DEF TaskStep

-----------------------------------------------------------------------------
(* The theorem.                                                            *)

LEMMA InitOK == Init => OwnerInv
BY DEF Init, OwnerInv, TypesOK, DocOK, TaskOK, Suits, Granted, Place, NoCall, Ops

LEMMA CreateOK ==
    ASSUME OwnerInv, NEW user \in Users, Create(user)
    PROVE  OwnerInv'
<1>1. load.titles \subseteq Title /\ load.agents \subseteq Agent
  BY SessionAssumption DEF OwnerInv, TypesOK, GivenTitle, Title
<1>2. /\ creator' = user /\ creator = None
      /\ doc' \in Document /\ doc'.owner = user
      /\ UNCHANGED <<clock, at, req, copy, record, load>>
  BY <1>1 DEF Create, Document
<1>3. TypesOK' /\ DocOK'
  BY <1>2 DEF OwnerInv, TypesOK, DocOK
<1>4. ASSUME NEW t \in Tasks PROVE TaskOK(t)'
  BY <1>2, SessionAssumption DEF OwnerInv, TaskOK, Suits, Granted
<1> QED
  BY <1>3, <1>4 DEF OwnerInv

\* The invariant is kept by the step of any task, as the others keep their state.
LEMMA StepKeepsInv ==
    ASSUME OwnerInv, NEW t \in Tasks, StepOK(t)
    PROVE  OwnerInv'
<1>1. ASSUME NEW s \in Tasks PROVE TaskOK(s)'
  BY DEF StepOK, OthersKept, OwnerInv, TaskOK
<1> QED
  BY <1>1 DEF OwnerInv, StepOK

LEMMA OwnerNext ==
    ASSUME OwnerInv, [Next]_vars
    PROVE  OwnerInv'
<1>1. CASE UNCHANGED vars
  BY <1>1 DEF vars, OwnerInv, TypesOK, DocOK, TaskOK
<1> QED BY <1>1, CreateOK, TaskStepOK, StepKeepsInv DEF Next

\* A session and its messages are written by its creator's tasks only (OnlyOwnerWrites),
\* however requests and turns of any users interleave, fail or work on stale copies.
THEOREM OnlyOwnerWritesHolds == Spec => OnlyOwnerWrites
<1> DEFINE Owners == <<doc, archive>>' # <<doc, archive>> /\ creator # None =>
                         \A t \in Tasks : Steps(t) => req[t].user = creator
<1>1. OwnerInv /\ [Next]_vars => OwnerInv'
  BY OwnerNext
<1>2. OwnerInv /\ [Next]_vars => [Owners]_vars
  <2> SUFFICES ASSUME OwnerInv, Next PROVE Owners
    OBVIOUS
  <2>1. CASE \E user \in Users : Create(user)
    BY <2>1 DEF Create
  <2>2. ASSUME NEW s \in Tasks, TaskStep(s) PROVE Owners
    <3>1. StepOK(s)
      BY <2>2, TaskStepOK
    <3>2. \A t \in Tasks : Steps(t) => t = s
      BY <3>1 DEF StepOK, OthersKept, Steps
    <3> QED
      BY <3>1, <3>2 DEF StepOK, OwnersStep
  <2> QED
    BY <2>1, <2>2 DEF Next
<1> QED
  BY <1>1, <1>2, InitOK, PTL DEF Spec, OnlyOwnerWrites

-----------------------------------------------------------------------------
(* What overlaps, and what a task holds.                                   *)

\* A copy is held between a read and its save.
Holding(t) ==
    copy[t] # None => /\ at[t] \in {"save", "saveSummary", "title", "generate", "find"}
                      /\ at[t] = "find" => req[t].op = "turn"

\* Tasks that overlap serve operations that may.
FlowInv ==
    /\ OwnerInv
    /\ \A s, t \in Tasks :
          s # t /\ Running(s) /\ Running(t) => {req[s].op, req[t].op} \subseteq load.together
    /\ \A t \in Tasks : Holding(t)

\* A task that takes a copy to save it, or to have its title made.
TakesToSave(t) ==
    /\ at[t] = "find" /\ at'[t] = "save" /\ MayHold(t)
    /\ req[t].op \in {"rename", "pin", "setAgent", "turn"} /\ copy'[t] \in Changed(t)
TakesForSummary(t) ==
    /\ at[t] = "summary" /\ at'[t] = "saveSummary" /\ MayHold(t)
    /\ req[t].op = "turn" /\ copy'[t] = [doc EXCEPT !.summary = clock]
TakesForTitle(t) ==
    at[t] = "title" /\ at'[t] = "generate" /\ req[t].op = "turn" /\ copy'[t] = doc
Takes(t) ==
    /\ TakesToSave(t) \/ TakesForSummary(t) \/ TakesForTitle(t)
    /\ doc # None /\ UNCHANGED <<doc, archive>> /\ req'[t] = req[t]

\* Or it starts, ends or goes on with what it has.
Starts(t) ==
    /\ at[t] = "idle" /\ at'[t] \in {"find", "check"} /\ copy'[t] = copy[t]
    /\ at'[t] = "find" => req'[t].op \in {"delete", "rename", "pin"}
    /\ \A s \in Tasks \ {t} : Running(s) => {req'[t].op, req[s].op} \subseteq load.together
    /\ UNCHANGED <<doc, archive>>
Ends(t) == at'[t] = "idle" /\ req'[t] = NoCall /\ copy'[t] = None /\ UNCHANGED archive
GoesOn(t) ==
    /\ Running(t) /\ at'[t] \notin {"idle", "save", "saveSummary"}
    /\ req'[t] = req[t] /\ copy'[t] = copy[t]
    /\ at'[t] = "delete" => MayHold(t) /\ at[t] = "find" /\ req[t].op = "delete"
    /\ at'[t] = "find" /\ req[t].op = "setAgent" => at[t] = "messages" /\ archive = <<>>
    /\ copy[t] # None => at'[t] \in {"title", "find"} /\ (at'[t] = "find" => req[t].op = "turn")
    /\ archive' # archive => at[t] = "archive"

\* Which save it makes.
DocAfter(t) ==
    \/ UNCHANGED doc
    \/ at[t] \in {"save", "saveSummary"} /\ doc' = copy[t] /\ at'[t] \in {"idle", "title"}
    \/ at[t] = "delete" /\ doc' = None /\ at'[t] = "idle"

Flows(t) ==
    /\ Takes(t) \/ Starts(t) \/ Ends(t) \/ GoesOn(t)
    /\ DocAfter(t) /\ UNCHANGED load

LEMMA FinishFlows ==
    ASSUME OwnerInv, NEW t \in Tasks, Finish(t)
    PROVE  at'[t] = "idle" /\ req'[t] = NoCall /\ copy'[t] = None
BY DEF OwnerInv, TypesOK, Finish, Goto

LEMMA GoOnFlows ==
    ASSUME OwnerInv, NEW t \in Tasks, NEW place, GoOn(t, place)
    PROVE  at'[t] = place /\ req'[t] = req[t] /\ copy'[t] = copy[t]
BY DEF OwnerInv, TypesOK, GoOn, Goto

LEMMA BeginFlows ==
    ASSUME FlowInv, NEW t \in Tasks, NEW op \in Ops, NEW user \in Users, Begin(t, op, user)
    PROVE  Flows(t)
BY DEF FlowInv, OwnerInv, TypesOK, Begin, MayStart, KeepStores, Goto, Running, Flows, Starts, DocAfter

LEMMA RequestFlows ==
    ASSUME FlowInv, NEW t \in Tasks,
           Check(t) \/ CheckMessages(t) \/ Find(t) \/ Save(t) \/ Delete(t)
    PROVE  Flows(t)
<1>1. OwnerInv /\ Holding(t)
      /\ Suits(at[t], req[t].op) /\ req[t].op \in Ops
  BY DEF FlowInv, OwnerInv, TypesOK, TaskOK
<1>2. CASE Finish(t)
  <2>1. DocAfter(t) /\ UNCHANGED <<archive, load>>
    BY <1>1, <1>2, FinishFlows DEF Check, CheckMessages, Find, Save, Delete, KeepStores, DocAfter
  <2> QED
    BY <1>1, <1>2, <2>1, FinishFlows DEF Flows, Ends
<1>3. CASE Check(t) /\ ~Finish(t)
  <2>1. GoOn(t, AfterCheck[req[t].op]) /\ KeepStores /\ at[t] = "check"
    BY <1>3 DEF Check
  <2>2. AfterCheck[req[t].op] \in {"messages", "count", "agent"}
    BY <1>1, <2>1 DEF AfterCheck, Suits
  <2> QED
    BY <1>1, <2>1, <2>2, GoOnFlows DEF KeepStores, Flows, GoesOn, Holding, DocAfter, Running
<1>4. CASE CheckMessages(t) /\ ~Finish(t)
  BY <1>1, <1>4, GoOnFlows DEF CheckMessages, MayChangeAgent, KeepStores, Flows, GoesOn, Holding, DocAfter,
                               Running
<1>5. CASE Find(t) /\ ~Finish(t)
  <2>1. CASE req[t].op = "delete"
    BY <1>1, <1>5, <2>1, GoOnFlows DEF Find, KeepStores, Flows, GoesOn, Holding, DocAfter, Running
  <2>2. CASE req[t].op # "delete"
    <3>1. PICK new \in Changed(t) : copy' = [copy EXCEPT ![t] = new]
      BY <1>5, <2>2 DEF Find
    <3>2. copy'[t] = new /\ at'[t] = "save" /\ req'[t] = req[t] /\ KeepStores
          /\ at[t] = "find" /\ MayHold(t) /\ doc # None
      BY <1>1, <1>5, <2>2, <3>1 DEF Find, Goto, FoundFor, OwnerInv, TypesOK
    <3>3. req[t].op \in {"rename", "pin", "setAgent", "turn"}
      BY <1>1, <2>2, <3>2 DEF Suits, Ops
    <3> QED
      BY <3>2, <3>3 DEF KeepStores, Flows, Takes, TakesToSave, DocAfter
  <2> QED
    BY <2>1, <2>2
<1>6. Save(t) \/ Delete(t) => Finish(t)
  BY DEF Save, Delete
<1> QED
  BY <1>2, <1>3, <1>4, <1>5, <1>6

LEMMA TurnFlows ==
    ASSUME FlowInv, NEW t \in Tasks,
           ReadAgent(t) \/ Ask(t) \/ Answer(t) \/ ArchiveNext(t) \/ FindForSummary(t)
           \/ SaveSummary(t) \/ ReadTitle(t) \/ Generate(t)
    PROVE  Flows(t)
<1>1. OwnerInv /\ Holding(t)
      /\ Suits(at[t], req[t].op)
      /\ at \in [Tasks -> Place] /\ copy \in [Tasks -> Document \cup {None}]
  BY DEF FlowInv, OwnerInv, TypesOK, TaskOK
<1>2. CASE Finish(t) /\ (ReadAgent(t) \/ ReadTitle(t))
  <2>1. UNCHANGED <<doc, archive, load>>
    BY <1>2 DEF ReadAgent, ReadTitle, KeepStores
  <2> QED
    BY <1>1, <1>2, <2>1, FinishFlows DEF Flows, Ends, DocAfter
<1>3. CASE ReadAgent(t) /\ ~Finish(t)
  BY <1>1, <1>3, GoOnFlows DEF ReadAgent, KeepStores, Flows, GoesOn, Holding, DocAfter, Running
<1>4. CASE Ask(t) \/ Answer(t) \/ ArchiveNext(t)
  <2>1. at'[t] \in {"answer", "archive", "summary"} /\ UNCHANGED <<doc, req, copy, load>>
        /\ (archive' # archive => at[t] = "archive") /\ at[t] \in {"ask", "answer", "archive"}
    BY <1>1, <1>4 DEF Ask, Answer, ArchiveNext, Goto
  <2> QED
    BY <1>1, <2>1 DEF Flows, GoesOn, Holding, DocAfter, Running
<1>5. CASE FindForSummary(t)
  <2>1. CASE GoOn(t, "title")
    BY <1>1, <1>5, <2>1, GoOnFlows DEF Suits, FindForSummary, KeepStores, Flows, GoesOn, Holding, DocAfter, Running
  <2>2. CASE ~GoOn(t, "title")
    <3>1. /\ copy'[t] = [doc EXCEPT !.summary = clock] /\ at'[t] = "saveSummary"
          /\ UNCHANGED <<req, doc, archive, load>> /\ MayHold(t) /\ doc # None
          /\ at[t] = "summary" /\ req[t].op = "turn"
      BY <1>1, <1>5, <2>2 DEF FindForSummary, Goto, KeepStores, Suits
    <3> QED
      BY <3>1 DEF Flows, Takes, TakesForSummary, DocAfter
  <2> QED
    BY <2>1, <2>2
<1>6. CASE SaveSummary(t)
  BY <1>1, <1>6, GoOnFlows DEF SaveSummary, Flows, GoesOn, Holding, DocAfter, Running, Suits
<1>7. CASE ReadTitle(t) /\ ~Finish(t)
  <2>1. /\ copy'[t] = doc /\ at'[t] = "generate" /\ UNCHANGED <<req, doc, archive, load>>
        /\ doc # None /\ at[t] = "title" /\ req[t].op = "turn"
    BY <1>1, <1>7 DEF ReadTitle, Goto, KeepStores, Suits
  <2> QED
    BY <2>1 DEF Flows, Takes, TakesForTitle, DocAfter
<1>8. CASE Generate(t)
  BY <1>1, <1>8, GoOnFlows DEF Generate, KeepStores, Flows, GoesOn, Holding, DocAfter, Running, Suits
<1> QED
  BY <1>2, <1>3, <1>4, <1>5, <1>6, <1>7, <1>8

LEMMA ReadFlows ==
    ASSUME FlowInv, NEW t \in Tasks,
           CountTurns(t) \/ FetchUsers(t) \/ FetchWindow(t) \/ Close(t) \/ Abort(t)
    PROVE  Flows(t)
<1>1. OwnerInv /\ Suits(at[t], req[t].op) /\ at \in [Tasks -> Place]
      /\ Holding(t)
  BY DEF FlowInv, OwnerInv, TypesOK, TaskOK
<1>2. UNCHANGED <<doc, archive, load>>
  BY DEF CountTurns, FetchUsers, FetchWindow, Close, Abort, KeepStores
<1>3. CASE Close(t) \/ Abort(t)
  BY <1>1, <1>2, <1>3, FinishFlows DEF Close, Abort, Flows, Ends, DocAfter
<1>4. CASE CountTurns(t) \/ FetchUsers(t) \/ FetchWindow(t)
  <2>1. /\ at[t] \in {"count", "users", "window"} /\ at'[t] \in {"check", "users", "window", "seen"}
        /\ UNCHANGED <<req, copy>>
    BY <1>1, <1>4 DEF CountTurns, FetchUsers, FetchWindow, Respond, NextCall, Goto
  <2> QED
    BY <1>1, <1>2, <2>1 DEF Flows, GoesOn, Holding, DocAfter, Running
<1> QED
  BY <1>3, <1>4

\* Every step of a task is one of these, and leaves the other tasks alone.
LEMMA StepFlows ==
    ASSUME FlowInv, NEW t \in Tasks, TaskStep(t)
    PROVE  Flows(t) /\ OthersKept(t) /\ StepOK(t)
BY BeginFlows, RequestFlows, TurnFlows, ReadFlows, TaskStepOK DEF TaskStep, FlowInv, StepOK

LEMMA FlowStep ==
    ASSUME FlowInv, NEW t \in Tasks, TaskStep(t)
    PROVE  FlowInv'
<1>1. Flows(t) /\ OthersKept(t) /\ OwnerInv'
  BY StepFlows, StepKeepsInv DEF FlowInv
<1>2. ASSUME NEW s \in Tasks
      PROVE  Holding(s)'
  <2>1. CASE s = t
    BY <1>1, <1>2, <2>1 DEF FlowInv, Holding, Flows, Takes, TakesToSave, TakesForSummary, TakesForTitle,
                            Starts, Ends, GoesOn
  <2>2. CASE s # t
    BY <1>1, <1>2, <2>2 DEF FlowInv, Holding, OthersKept
  <2> QED
    BY <2>1, <2>2
<1>3. ASSUME NEW r \in Tasks, NEW s \in Tasks, r # s, Running(r)', Running(s)'
      PROVE  {req'[r].op, req'[s].op} \subseteq load'.together
  <2>1. UNCHANGED load
    BY <1>1 DEF Flows
  <2>2. \A q \in Tasks : q # t => at'[q] = at[q] /\ req'[q] = req[q]
    BY <1>1 DEF OthersKept
  <2>3. CASE Starts(t)
    BY <1>3, <2>1, <2>2, <2>3 DEF Starts, FlowInv, Running
  <2>4. CASE ~Starts(t)
    <3>1. Running(t)' => Running(t) /\ req'[t] = req[t]
      BY <1>1, <2>4 DEF Flows, Takes, TakesToSave, TakesForSummary, TakesForTitle, Ends, GoesOn, Running
    <3> QED
      BY <1>3, <2>1, <2>2, <3>1 DEF FlowInv, Running
  <2> QED
    BY <2>3, <2>4
<1> QED
  BY <1>1, <1>2, <1>3 DEF FlowInv

LEMMA FlowInit == Init => FlowInv
BY InitOK DEF Init, FlowInv, Holding, Running

LEMMA FlowNext ==
    ASSUME FlowInv, [Next]_vars
    PROVE  FlowInv'
<1>1. CASE UNCHANGED vars
  BY <1>1 DEF vars, FlowInv, OwnerInv, TypesOK, DocOK, TaskOK, Holding, Running
<1>2. ASSUME NEW user \in Users, Create(user) PROVE FlowInv'
  <2>1. UNCHANGED <<at, req, copy, load>>
    BY <1>2 DEF Create
  <2>2. OwnerInv'
    BY <1>2, CreateOK DEF FlowInv
  <2> QED
    BY <2>1, <2>2 DEF FlowInv, Holding, Running
<1> QED
  BY <1>1, <1>2, FlowStep DEF Next

-----------------------------------------------------------------------------
(* No save undoes another.                                                 *)

Writing(t) == at[t] \in {"save", "saveSummary", "delete"}

\* With saves that follow their reads, one task at a time is between the two, and its copy
\* differs from the document in what its save is about only.
HoldInv ==
    load.brief =>
        /\ \A s, t \in Tasks : Writing(s) /\ Writing(t) => s = t
        /\ \A t \in Tasks : at[t] \in {"save", "saveSummary"} =>
              doc # None /\ \A field \in DOMAIN doc \ Own(t) : copy[t][field] = doc[field]

\* The copy a task takes to save it.
LEMMA TakesOwn ==
    ASSUME FlowInv, NEW t \in Tasks, Takes(t), at'[t] \in {"save", "saveSummary"}
    PROVE  \A field \in DOMAIN doc \ Own(t)' : copy'[t][field] = doc[field]
<1>1. doc \in Document /\ req'[t] = req[t]
  BY DEF FlowInv, OwnerInv, DocOK, Takes
<1>2. DOMAIN doc = {"owner", "title", "pinned", "summary", "agent"}
  BY <1>1 DEF Document
<1>3. CASE TakesForSummary(t)
  <2>1. Own(t)' = {"summary"}
    BY <1>3 DEF TakesForSummary, Own
  <2>2. copy'[t] = [doc EXCEPT !.summary = clock]
    BY <1>3 DEF TakesForSummary
  <2> QED
    BY <1>2, <2>1, <2>2
<1>4. CASE TakesToSave(t)
  <2>1. at'[t] = "save" /\ req[t].op \in {"rename", "pin", "setAgent", "turn"}
        /\ copy'[t] \in Changed(t)
    BY <1>4 DEF TakesToSave
  <2>2. CASE req[t].op = "rename"
    <3>1. Own(t)' = {"title"} /\ \E title : copy'[t] = [doc EXCEPT !.title = title]
      BY <1>1, <2>1, <2>2 DEF Own, Changed
    <3> QED
      BY <1>2, <3>1
  <2>3. CASE req[t].op = "pin"
    <3>1. Own(t)' = {"pinned"} /\ \E pin : copy'[t] = [doc EXCEPT !.pinned = pin]
      BY <1>1, <2>1, <2>3 DEF Own, Changed
    <3> QED
      BY <1>2, <3>1
  <2>4. CASE req[t].op = "setAgent"
    <3>1. Own(t)' = {"agent"} /\ \E agent : copy'[t] = [doc EXCEPT !.agent = agent]
      BY <1>1, <2>1, <2>4 DEF Own, Changed
    <3> QED
      BY <1>2, <3>1
  <2>5. CASE req[t].op = "turn"
    <3>1. Own(t)' = {"title"} /\ copy'[t] = [doc EXCEPT !.title = "generated"]
      BY <1>1, <2>1, <2>5 DEF Own, Changed
    <3> QED
      BY <1>2, <3>1
  <2> QED
    BY <2>1, <2>2, <2>3, <2>4, <2>5
<1> QED
  BY <1>3, <1>4 DEF Takes, TakesForTitle

LEMMA HoldStep ==
    ASSUME FlowInv, HoldInv, NEW t \in Tasks, TaskStep(t)
    PROVE  HoldInv'
<1>1. Flows(t) /\ OthersKept(t) /\ UNCHANGED load
  BY StepFlows DEF Flows
<1> SUFFICES ASSUME load.brief PROVE HoldInv'
  BY <1>1 DEF HoldInv
<1>2. \A s \in Tasks : s # t => at'[s] = at[s] /\ req'[s] = req[s] /\ copy'[s] = copy[s]
  BY <1>1 DEF OthersKept
<1>3. Writing(t)' => \A s \in Tasks : s # t => ~Writing(s)
  BY <1>1 DEF Flows, Takes, TakesToSave, TakesForSummary, TakesForTitle, Starts, Ends, GoesOn, Writing,
              MayHold
<1>4. \A r, s \in Tasks : Writing(r)' /\ Writing(s)' => r = s
  <2>1. \A s \in Tasks : s # t => (Writing(s)' <=> Writing(s))
    BY <1>2 DEF Writing
  <2> QED
    BY <1>3, <2>1 DEF HoldInv
<1>5. ASSUME NEW s \in Tasks, s # t, at'[s] \in {"save", "saveSummary"}
      PROVE  doc' # None /\ \A field \in DOMAIN doc' \ Own(s)' : copy'[s][field] = doc'[field]
  <2>1. at[s] \in {"save", "saveSummary"}
    BY <1>2, <1>5
  <2>2. ~Writing(t)
    BY <1>5, <2>1 DEF HoldInv, Writing
  <2>3. UNCHANGED doc
    BY <1>1, <2>2 DEF Flows, DocAfter, Writing
  <2>4. Own(s)' = Own(s)
    BY <1>2, <1>5 DEF Own
  <2>5. doc # None /\ \A field \in DOMAIN doc \ Own(s) : copy[s][field] = doc[field]
    BY <2>1 DEF HoldInv
  <2> QED
    BY <1>2, <1>5, <2>3, <2>4, <2>5
<1>6. ASSUME at'[t] \in {"save", "saveSummary"}
      PROVE  doc' # None /\ \A field \in DOMAIN doc' \ Own(t)' : copy'[t][field] = doc'[field]
  <2>1. Takes(t)
    BY <1>1, <1>6 DEF Flows, Starts, Ends, GoesOn
  <2> QED
    BY <1>6, <2>1, TakesOwn DEF Takes
<1> QED
  BY <1>1, <1>4, <1>5, <1>6 DEF HoldInv

LEMMA HoldNext ==
    ASSUME FlowInv, HoldInv, [Next]_vars
    PROVE  HoldInv'
<1>1. CASE UNCHANGED vars
  BY <1>1 DEF vars, HoldInv, Writing, Own
<1>2. ASSUME NEW user \in Users, Create(user) PROVE HoldInv'
  <2>1. UNCHANGED <<at, load>> /\ \A t \in Tasks : at[t] = "idle"
    BY <1>2 DEF Create, FlowInv, OwnerInv, TaskOK
  <2> QED
    BY <2>1 DEF HoldInv, Writing
<1> QED
  BY <1>1, <1>2, HoldStep DEF Next

\* While saves follow their reads, no save undoes what others changed or brings a deleted
\* session back, whatever requests, summaries and titles overlap.
THEOREM NoUpdateUndoneHolds == Spec => NoUpdateUndone
<1> DEFINE Kept ==
        \A t \in Tasks :
            load.brief /\ at[t] \in {"save", "saveSummary"} /\ doc' # doc /\ at'[t] # at[t] =>
                /\ doc # None
                /\ \A field \in DOMAIN doc \ Own(t) : doc'[field] = doc[field]
<1>1. Init => FlowInv /\ HoldInv
  BY FlowInit DEF Init, HoldInv, Writing
<1>2. FlowInv /\ HoldInv /\ [Next]_vars => (FlowInv /\ HoldInv)'
  BY FlowNext, HoldNext
<1>3. FlowInv /\ HoldInv /\ [Next]_vars => [Kept]_vars
  <2> SUFFICES ASSUME FlowInv, HoldInv, Next,
                      NEW t \in Tasks, load.brief, at[t] \in {"save", "saveSummary"},
                      doc' # doc, at'[t] # at[t]
               PROVE  /\ doc # None
                      /\ \A field \in DOMAIN doc \ Own(t) : doc'[field] = doc[field]
    OBVIOUS
  <2>1. doc # None /\ \A field \in DOMAIN doc \ Own(t) : copy[t][field] = doc[field]
    BY DEF HoldInv
  <2>2. ASSUME NEW s \in Tasks, TaskStep(s) PROVE doc' = copy[t]
    <3>1. s = t
      BY <2>2, StepFlows DEF OthersKept
    <3> QED
      BY <2>2, <3>1, StepFlows DEF Flows, DocAfter
  <2>3. doc' = copy[t]
    BY <2>2 DEF Next, Create
  <2> QED
    BY <2>1, <2>3
<1> QED
  BY <1>1, <1>2, <1>3, PTL DEF Spec, NoUpdateUndone

-----------------------------------------------------------------------------
(* A session that has messages keeps its agent.                            *)

\* A task other than a change of the agent that holds a document.
Carries(t) == copy[t] # None /\ req[t].op # "setAgent"

\* The document and all the copies that may replace it name one agent.
Agree ==
    /\ \A s, t \in Tasks : Carries(s) /\ Carries(t) => copy[s].agent = copy[t].agent
    /\ \A t \in Tasks : doc # None /\ Carries(t) => copy[t].agent = doc.agent

\* A change of the agent is only under way while there are no messages; once there are, or if
\* such a change overlaps nothing, the copies agree.
AgentInv ==
    Apart("setAgent", "turn") =>
        /\ \A t \in Tasks :
              req[t].op = "setAgent" /\ at[t] \in {"find", "save"} => archive = <<>>
        /\ archive # <<>> \/ "setAgent" \notin load.together => Agree

\* What a task takes for another purpose keeps the agent.
LEMMA TakesAgent ==
    ASSUME FlowInv, NEW t \in Tasks, Takes(t), req[t].op # "setAgent"
    PROVE  copy'[t].agent = doc.agent
<1>1. doc \in Document
  BY DEF FlowInv, OwnerInv, DocOK, Takes
<1>2. CASE TakesToSave(t)
  <2>1. copy'[t] \in Changed(t) /\ req[t].op \in {"rename", "pin", "turn"}
    BY <1>2 DEF TakesToSave
  <2> QED
    BY <1>1, <2>1 DEF Changed, Document
<1>3. CASE TakesForSummary(t) \/ TakesForTitle(t)
  BY <1>1, <1>3 DEF TakesForSummary, TakesForTitle, Document
<1> QED
  BY <1>2, <1>3 DEF Takes

LEMMA AgreeStep ==
    ASSUME FlowInv, AgentInv, Agree, Apart("setAgent", "turn"), NEW t \in Tasks, TaskStep(t),
           "setAgent" \notin load.together \/ archive # <<>>
    PROVE  Agree'
<1>1. Flows(t) /\ OthersKept(t)
  BY StepFlows
<1>2. \A s \in Tasks : s # t => req'[s] = req[s] /\ copy'[s] = copy[s]
  BY <1>1 DEF OthersKept
<1>3. CASE Takes(t)
  <2>1. UNCHANGED doc /\ req'[t] = req[t] /\ doc # None
    BY <1>3 DEF Takes
  <2>2. Carries(t)' => copy'[t].agent = doc.agent
    BY <1>3, <2>1, TakesAgent DEF Carries
  <2>3. \A s \in Tasks : s # t /\ Carries(s)' => Carries(s) /\ copy'[s].agent = doc.agent
    BY <1>2, <2>1 DEF Carries, Agree
  <2> QED
    BY <2>1, <2>2, <2>3 DEF Agree
<1>4. CASE UNCHANGED doc /\ ~Takes(t)
  <2>1. Carries(t)' => Carries(t) /\ copy'[t] = copy[t]
    BY <1>1, <1>4 DEF Flows, Starts, Ends, GoesOn, Carries, FlowInv, Holding
  <2>2. \A s \in Tasks : Carries(s)' => Carries(s) /\ copy'[s] = copy[s]
    BY <1>2, <2>1 DEF Carries
  <2> QED
    BY <1>4, <2>2 DEF Agree
<1>5. CASE doc' # doc
  <2>1. \/ at[t] \in {"save", "saveSummary"} /\ doc' = copy[t]
        \/ doc' = None
    BY <1>1, <1>5 DEF Flows, DocAfter
  <2>2. Carries(t)' => Carries(t) /\ copy'[t] = copy[t]
    BY <1>1, <1>5 DEF Flows, Takes, Starts, Ends, GoesOn, Carries, FlowInv, Holding
  <2>3. \A s \in Tasks : Carries(s)' => Carries(s) /\ copy'[s] = copy[s]
    BY <1>2, <2>2 DEF Carries
  <2>4. CASE doc' = None
    BY <2>3, <2>4 DEF Agree
  <2>5. CASE doc' # None /\ req[t].op # "setAgent"
    BY <2>1, <2>3, <2>5 DEF Agree, Carries
  <2>6. CASE doc' # None /\ req[t].op = "setAgent"
    <3>1. at[t] = "save"
      BY <2>1, <2>6 DEF FlowInv, OwnerInv, TaskOK, Suits
    <3>2. "setAgent" \notin load.together
      BY <2>6, <3>1 DEF AgentInv
    <3>3. \A s \in Tasks : s # t => ~Running(s)
      BY <2>6, <3>1, <3>2 DEF FlowInv, Running
    <3>4. \A s \in Tasks : s # t => copy[s] = None
      BY <3>3 DEF FlowInv, Holding, Running
    <3>5. \A s \in Tasks : ~Carries(s)'
      BY <1>2, <2>3, <2>6, <3>4 DEF Carries
    <3> QED
      BY <3>5 DEF Agree
  <2> QED
    BY <2>1, <2>4, <2>5, <2>6
<1> QED
  BY <1>3, <1>4, <1>5

LEMMA AgentStep ==
    ASSUME FlowInv, AgentInv, NEW t \in Tasks, TaskStep(t)
    PROVE  AgentInv'
<1>1. Flows(t) /\ OthersKept(t) /\ UNCHANGED load
  BY StepFlows DEF Flows
<1> SUFFICES ASSUME Apart("setAgent", "turn")
             PROVE  /\ \A s \in Tasks : req'[s].op = "setAgent" /\ at'[s] \in {"find", "save"}
                                            => archive' = <<>>
                    /\ archive' # <<>> \/ "setAgent" \notin load.together => Agree'
  BY <1>1 DEF AgentInv, Apart
<1>2. \A s \in Tasks : s # t => at'[s] = at[s] /\ req'[s] = req[s] /\ copy'[s] = copy[s]
  BY <1>1 DEF OthersKept
<1>3. archive' # archive => at[t] = "archive" /\ req[t].op = "turn" /\ copy[t] = None /\ Running(t)
                            /\ ~Takes(t) /\ UNCHANGED doc /\ copy'[t] = copy[t]
  BY <1>1 DEF Flows, Takes, Starts, Ends, GoesOn, DocAfter, FlowInv, Holding, OwnerInv, TaskOK, Suits
<1>4. ASSUME NEW s \in Tasks, req'[s].op = "setAgent", at'[s] \in {"find", "save"}
      PROVE  archive' = <<>>
  <2>1. CASE s = t
    <3>1. Takes(t) \/ Starts(t) \/ GoesOn(t)
      BY <1>1, <1>4, <2>1 DEF Flows, Ends
    <3>2. CASE Takes(t)
      BY <1>4, <2>1, <3>2 DEF Takes, TakesToSave, TakesForSummary, TakesForTitle, AgentInv
    <3>3. CASE Starts(t)
      BY <1>4, <2>1, <3>3 DEF Starts
    <3>4. CASE GoesOn(t)
      BY <1>3, <1>4, <2>1, <3>4 DEF GoesOn
    <3> QED
      BY <3>1, <3>2, <3>3, <3>4
  <2>2. CASE s # t
    <3>1. archive = <<>> /\ Running(s) /\ req[s].op = "setAgent"
      BY <1>2, <1>4, <2>2 DEF AgentInv, Running
    <3>2. archive' = archive
      BY <1>3, <2>2, <3>1 DEF FlowInv, Apart
    <3> QED
      BY <3>1, <3>2
  <2> QED
    BY <2>1, <2>2
<1>5. ASSUME archive' # <<>> \/ "setAgent" \notin load.together
      PROVE  Agree'
  <2>1. CASE archive # <<>> \/ "setAgent" \notin load.together
    BY <2>1, AgreeStep DEF AgentInv
  <2>2. CASE ~(archive # <<>> \/ "setAgent" \notin load.together)
    <3>1. "turn" \notin load.together /\ Running(t) /\ req[t].op = "turn" /\ copy'[t] = None
      BY <1>3, <1>5, <2>2 DEF Apart
    <3>2. \A s \in Tasks : s # t => copy'[s] = None
      BY <1>2, <3>1 DEF FlowInv, Holding, Running
    <3> QED
      BY <3>1, <3>2 DEF Agree, Carries
  <2> QED
    BY <2>1, <2>2
<1> QED
  BY <1>4, <1>5

LEMMA AgentNext ==
    ASSUME FlowInv, AgentInv, [Next]_vars
    PROVE  AgentInv'
<1>1. CASE UNCHANGED vars
  BY <1>1 DEF vars, AgentInv, Apart, Agree, Carries
<1>2. ASSUME NEW user \in Users, Create(user) PROVE AgentInv'
  <2>1. UNCHANGED <<archive, at, req, copy, load>>
        /\ \A t \in Tasks : at[t] = "idle" /\ copy[t] = None
    BY <1>2 DEF Create, FlowInv, OwnerInv, TaskOK
  <2> QED
    BY <2>1 DEF AgentInv, Apart, Agree, Carries
<1> QED
  BY <1>1, <1>2, AgentStep DEF Next

\* A session that has messages keeps its agent, whatever requests, saves of older copies and
\* turns overlap, unless the agent may be changed during a turn.
THEOREM AgentStaysHolds == Spec => AgentStays
<1> DEFINE Stays == Apart("setAgent", "turn") /\ archive # <<>> /\ doc # None /\ doc' # None
                        => doc'.agent = doc.agent
<1>1. Init => FlowInv /\ AgentInv
  BY FlowInit DEF Init, AgentInv, Agree, Carries
<1>2. FlowInv /\ AgentInv /\ [Next]_vars => (FlowInv /\ AgentInv)'
  BY FlowNext, AgentNext
<1>3. FlowInv /\ AgentInv /\ [Next]_vars => [Stays]_vars
  <2> SUFFICES ASSUME FlowInv, AgentInv, Next, Apart("setAgent", "turn"), archive # <<>>,
                      doc # None, doc' # None
               PROVE  doc'.agent = doc.agent
    OBVIOUS
  <2>1. Agree
    BY DEF AgentInv
  <2>2. creator # None
    BY SessionAssumption DEF FlowInv, OwnerInv, TaskOK, DocOK, Document, TypesOK
  <2>3. ASSUME NEW t \in Tasks, TaskStep(t) PROVE doc'.agent = doc.agent
    <3>1. doc' = doc \/ (at[t] \in {"save", "saveSummary"} /\ doc' = copy[t])
      BY <2>3, StepFlows DEF Flows, DocAfter
    <3>2. CASE at[t] \in {"save", "saveSummary"} /\ doc' = copy[t]
      <4>1. req[t].op # "setAgent"
        BY <3>2 DEF AgentInv, FlowInv, OwnerInv, TaskOK, Suits
      <4> QED
        BY <2>1, <3>2, <4>1 DEF Agree, Carries
    <3> QED
      BY <3>1, <3>2
  <2> QED
    BY <2>2, <2>3 DEF Next, Create
<1> QED
  BY <1>1, <1>2, <1>3, PTL DEF Spec, AgentStays

-----------------------------------------------------------------------------
(* The user messages of an archive, and the queries for a page.            *)

Sorted(s) == \A i, j \in DOMAIN s : i < j => s[i].at < s[j].at
Falling(s) == \A i, j \in DOMAIN s : i < j => s[i].at > s[j].at

\* The anchors of the turns: all the user messages of the archive, the newest first.
LEMMA UserMessagesAre ==
    ASSUME NEW a \in Seq(Message), Sorted(a)
    PROVE  /\ UserMessages(a) \in Seq(Message)
           /\ Falling(UserMessages(a))
           /\ \A m : m \in ToSet(UserMessages(a)) <=> m \in ToSet(a) /\ m.part = 1
<1> DEFINE I == {i \in DOMAIN a : a[i].part = 1}
           b == At(a, I)
           u == UserMessages(a)
<1>1. b \in Seq(Message) /\ DOMAIN b = 1..Len(b) /\ Len(b) \in Nat
  BY AtElements
<1>2. \A k \in DOMAIN b : \E i \in DOMAIN a : i \in I /\ b[k] = a[i]
  <2> HIDE DEF I
  <2> QED BY AtSource
<1>3. \A i \in I : \E k \in DOMAIN b : b[k] = a[i]
  <2>1. I \cap 1..Len(a) = I
    OBVIOUS
  <2> HIDE DEF I
  <2> QED BY <2>1, AtFinds
<1>4. \A j, k \in DOMAIN b : j < k => b[j].at < b[k].at
  <2> SUFFICES ASSUME NEW j \in DOMAIN b, NEW k \in DOMAIN b, j < k PROVE b[j].at < b[k].at
    OBVIOUS
  <2>1. \E p, q \in DOMAIN a : p < q /\ b[j] = a[p] /\ b[k] = a[q]
    <3> HIDE DEF I
    <3> QED BY AtOrder
  <2> QED BY <2>1 DEF Sorted
<1>5. u = [i \in 1..Len(b) |-> b[(Len(b) - i) + 1]]
  BY DEF UserMessages, Reverse
<1> HIDE DEF b, u
<1>6. /\ \A i \in 1..Len(b) : (Len(b) - i) + 1 \in 1..Len(b) /\ u[i] = b[(Len(b) - i) + 1]
      /\ DOMAIN u = 1..Len(b)
  BY <1>1, <1>5
<1>7. u \in Seq(Message)
  <2>1. \A i \in 1..Len(b) : u[i] \in Message
    BY <1>1, <1>6
  <2> QED BY <1>1, <1>5, <2>1
<1>8. Falling(u)
  <2> SUFFICES ASSUME NEW i \in 1..Len(b), NEW j \in 1..Len(b), i < j PROVE u[i].at > u[j].at
    BY <1>6 DEF Falling
  <2>1. (Len(b) - j) + 1 < (Len(b) - i) + 1
    BY <1>1
  <2>2. b[(Len(b) - j) + 1].at < b[(Len(b) - i) + 1].at
    BY <1>1, <1>4, <1>6, <2>1
  <2>3. u[i] \in Message /\ u[j] \in Message
    BY <1>6, <1>7
  <2> QED BY <1>6, <2>2, <2>3 DEF Message
<1>9. ASSUME NEW m PROVE m \in ToSet(u) <=> m \in ToSet(a) /\ m.part = 1
  <2>1. ASSUME m \in ToSet(u) PROVE m \in ToSet(a) /\ m.part = 1
    <3>1. PICK i \in 1..Len(b) : m = b[(Len(b) - i) + 1]
      BY <1>6, <2>1 DEF ToSet
    <3>2. PICK k \in I : m = a[k]
      BY <1>1, <1>2, <1>6, <3>1
    <3> QED BY <3>2 DEF ToSet
  <2>2. ASSUME m \in ToSet(a), m.part = 1 PROVE m \in ToSet(u)
    <3>1. PICK i \in I : m = a[i]
      BY <2>2 DEF ToSet
    <3>2. PICK k \in DOMAIN b : b[k] = m
      BY <1>3, <3>1
    <3>3. (Len(b) - k) + 1 \in 1..Len(b) /\ (Len(b) - ((Len(b) - k) + 1)) + 1 = k
      BY <1>1
    <3>4. u[(Len(b) - k) + 1] = m
      BY <1>6, <3>2, <3>3
    <3> QED BY <1>6, <3>3, <3>4 DEF ToSet
  <2> QED BY <2>1, <2>2
<1> QED BY <1>7, <1>8, <1>9 DEF u

\* Of two lists, newest first, the one with more messages has the later ones at each place.
LEMMA FallingGrows ==
    ASSUME NEW s \in Seq(Message), NEW r \in Seq(Message), Falling(s), Falling(r),
           \A m \in ToSet(s) : m \in ToSet(r)
    PROVE  /\ Len(s) <= Len(r)
           /\ \A k \in 1..Len(s) : r[k].at >= s[k].at
<1>1. /\ DOMAIN s = 1..Len(s) /\ Len(s) \in Nat
      /\ DOMAIN r = 1..Len(r) /\ Len(r) \in Nat
      /\ \A k \in 1..Len(s) : s[k].at \in Nat
      /\ \A k \in 1..Len(r) : r[k].at \in Nat
  <2>1. \A m \in Message : m.at \in Nat
    BY DEF Message
  <2> QED BY <2>1
<1>2. \A k \in 1..Len(s) : \E j \in 1..Len(r) : r[j] = s[k]
  BY <1>1 DEF ToSet
<1> DEFINE S == {n \in Nat : n + 1 <= Len(s) => \A j \in 1..Len(r) : r[j] = s[n + 1] => j >= n + 1}
<1>3. 0 \in S
  BY <1>1
<1>4. ASSUME NEW n \in Nat, n \in S PROVE n + 1 \in S
  <2> SUFFICES ASSUME (n + 1) + 1 <= Len(s), NEW j \in 1..Len(r), r[j] = s[(n + 1) + 1]
               PROVE  j >= (n + 1) + 1
    OBVIOUS
  <2>1. n + 1 \in 1..Len(s) /\ (n + 1) + 1 \in 1..Len(s) /\ n + 1 < (n + 1) + 1
    BY <1>1
  <2>2. PICK i \in 1..Len(r) : r[i] = s[n + 1]
    BY <1>2, <2>1
  <2>3. i >= n + 1
    <3>1. \A l \in 1..Len(r) : r[l] = s[n + 1] => l >= n + 1
      BY <1>4, <2>1
    <3> QED BY <2>2, <3>1
  <2>4. s[n + 1].at > s[(n + 1) + 1].at
    BY <1>1, <2>1 DEF Falling
  <2>5. r[i].at > r[j].at
    BY <2>2, <2>4
  <2>6. i # j /\ ~(j < i)
    BY <1>1, <2>5 DEF Falling
  <2> QED BY <2>3, <2>6
<1>5. Nat \subseteq S
  <2> HIDE DEF S
  <2> QED BY <1>3, <1>4, SetInduction
<1>6. ASSUME NEW k \in 1..Len(s)
      PROVE  \E j \in 1..Len(r) : r[j] = s[k] /\ j >= k
  <2>1. PICK j \in 1..Len(r) : r[j] = s[k]
    BY <1>2
  <2>2. k - 1 \in S /\ (k - 1) + 1 = k
    <3>1. k - 1 \in Nat /\ (k - 1) + 1 = k
      BY <1>1
    <3> HIDE DEF S
    <3> QED BY <1>5, <3>1
  <2>3. k <= Len(s) => \A l \in 1..Len(r) : r[l] = s[k] => l >= k
    BY <2>2
  <2> QED BY <2>1, <2>3
<1>7. Len(s) <= Len(r)
  <2>1. CASE Len(s) = 0
    BY <1>1, <2>1
  <2>2. CASE Len(s) # 0
    <3>1. Len(s) \in 1..Len(s)
      BY <1>1, <2>2
    <3> QED BY <1>1, <1>6, <3>1
  <2> QED BY <2>1, <2>2
<1>8. ASSUME NEW k \in 1..Len(s) PROVE r[k].at >= s[k].at
  <2>1. PICK j \in 1..Len(r) : r[j] = s[k] /\ j >= k
    BY <1>6
  <2>2. k \in 1..Len(r)
    BY <1>1, <1>7
  <2>3. CASE j = k
    BY <1>1, <2>1, <2>2, <2>3
  <2>4. CASE j > k
    BY <1>1, <2>1, <2>2, <2>4 DEF Falling
  <2> QED BY <2>1, <2>3, <2>4
<1> QED BY <1>7, <1>8

\* The messages of a window.
LEMMA WindowIs ==
    ASSUME NEW a \in Seq(Message), NEW fetched, NEW page, PageUsers(fetched, page) # <<>>
    PROVE  \A m : m \in ToSet(Window(a, fetched, page)) <=>
                      m \in ToSet(a) /\ InWindow(m, fetched, page)
<1> DEFINE I == {i \in DOMAIN a : InWindow(a[i], fetched, page)}
           w == At(a, I)
<1>1. Window(a, fetched, page) = w
  BY DEF Window
<1>2. \A k \in DOMAIN w : \E i \in DOMAIN a : i \in I /\ w[k] = a[i]
  <2> HIDE DEF I
  <2> QED BY AtSource
<1>3. \A i \in I : \E k \in DOMAIN w : w[k] = a[i]
  <2>1. I \cap 1..Len(a) = I
    OBVIOUS
  <2> HIDE DEF I
  <2> QED BY <2>1, AtFinds
<1> HIDE DEF w
<1> QED BY <1>1, <1>2, <1>3 DEF ToSet

\* The user messages that are fetched: those of the page, and the oldest of the page before.
\* x is how many are newer than the page's.
FetchOK(u, x, page, size, fetched) ==
    /\ x \in Nat /\ page * size = x + size /\ (page = 1 => x = 0) /\ (page > 1 => x >= 1)
    /\ fetched \in Seq(Message)
    /\ PageUsers(fetched, page) = <<>> <=> x >= Len(u)
    /\ x < Len(u) =>
          /\ fetched # <<>>
          /\ \A m \in ToSet(fetched) : m \in ToSet(u)
          /\ x + size <= Len(u) => Last(fetched) = u[x + size]
          /\ x + size >= Len(u) => Last(fetched) = u[Len(u)]
          /\ page > 1 => Head(fetched) = u[x] /\ Last(fetched).at < Head(fetched).at

LEMMA FetchedIs ==
    ASSUME NEW a \in Seq(Message), UserMessages(a) \in Seq(Message), Falling(UserMessages(a)),
           NEW page \in Nat \ {0}, NEW size \in Nat \ {0}
    PROVE  FetchOK(UserMessages(a), (page - 1) * size, page, size, Fetched(a, page, size))
<1> SUFFICES ASSUME NEW u, u = UserMessages(a), u \in Seq(Message), Falling(u),
                    NEW fetched, fetched = Fetched(a, page, size),
                    NEW x, x = (page - 1) * size
             PROVE  FetchOK(u, x, page, size, fetched)
  OBVIOUS
<1>1. /\ x \in Nat /\ page * size = x + size /\ (page = 1 => x = 0) /\ (page > 1 => x >= 1)
  OBVIOUS
<1> DEFINE lo == IF page = 1 THEN 1 ELSE x
           hi == IF x + size <= Len(u) THEN x + size ELSE Len(u)
<1>2. fetched = SubSeq(u, lo, hi)
  <2>1. fetched = Slice(u, FetchSkip(page, size), FetchLimit(page, size))
    BY DEF Fetched
  <2>2. CASE page = 1
    <3>1. FetchSkip(page, size) = 0 /\ FetchLimit(page, size) = size
      BY <2>2 DEF FetchSkip, FetchLimit
    <3>2. lo = 1 /\ x = 0 /\ 0 + size = size /\ x + size = size /\ 0 + 1 = 1
      BY <1>1, <2>2
    <3>3. Slice(u, 0, size) = SubSeq(u, 0 + 1, IF 0 + size <= Len(u) THEN 0 + size ELSE Len(u))
      BY DEF Slice
    <3> QED BY <2>1, <3>1, <3>2, <3>3
  <2>3. CASE page # 1
    <3>1. page > 1
      BY <2>3
    <3>2. FetchSkip(page, size) = x - 1 /\ FetchLimit(page, size) = size + 1
      BY <3>1 DEF FetchSkip, FetchLimit
    <3>3. lo = x /\ (x - 1) + 1 = x /\ (x - 1) + (size + 1) = x + size
      BY <1>1, <2>3
    <3> QED BY <2>1, <3>2, <3>3 DEF Slice
  <2> QED BY <2>2, <2>3
<1>3. /\ lo \in Nat /\ hi \in Nat /\ 1 <= lo /\ hi <= Len(u) /\ Len(u) \in Nat
  BY <1>1
<1>4. /\ fetched \in Seq(Message)
      /\ Len(fetched) = IF lo <= hi THEN (hi - lo) + 1 ELSE 0
      /\ \A i \in 1..Len(fetched) : fetched[i] = u[(lo + i) - 1]
      /\ DOMAIN fetched = 1..Len(fetched)
  <2> HIDE DEF lo, hi
  <2> QED BY <1>2, <1>3
<1>5. PageUsers(fetched, page) = <<>> <=> x >= Len(u)
  <2>1. CASE page = 1
    <3>1. lo = 1 /\ x = 0 /\ PageUsers(fetched, page) = fetched
      BY <1>1, <2>1 DEF PageUsers
    <3>2. Len(fetched) = 0 <=> Len(u) = 0
      BY <1>3, <1>4, <3>1
    <3> HIDE DEF lo, hi
    <3> QED BY <1>3, <1>4, <3>1, <3>2
  <2>2. CASE page # 1
    <3>1. lo = x /\ x >= 1 /\ page > 1
      BY <1>1, <2>2
    <3>2. Len(fetched) <= 1 <=> x >= Len(u)
      BY <1>1, <1>3, <1>4, <3>1
    <3>3. PageUsers(fetched, page) = <<>> <=> Len(fetched) <= 1
      <4>1. CASE fetched = <<>>
        BY <3>1, <4>1 DEF PageUsers
      <4>2. CASE fetched # <<>>
        <5>1. PageUsers(fetched, page) = Tail(fetched)
          BY <3>1, <4>2 DEF PageUsers
        <5>2. Len(Tail(fetched)) = Len(fetched) - 1 /\ Tail(fetched) \in Seq(Message)
          BY <1>4, <4>2
        <5>3. Tail(fetched) = <<>> <=> Len(Tail(fetched)) = 0
          <6>1. \A r \in Seq(Message) : r = <<>> <=> Len(r) = 0
            OBVIOUS
          <6> QED BY <5>2, <6>1
        <5>4. Len(fetched) \in Nat /\ Len(fetched) # 0
          BY <1>4, <4>2
        <5>5. Len(fetched) - 1 = 0 <=> Len(fetched) <= 1
          <6>1. \A l \in Nat : l # 0 => (l - 1 = 0 <=> l <= 1)
            OBVIOUS
          <6> QED BY <5>4, <6>1, Zenon
        <5> QED BY <5>1, <5>2, <5>3, <5>5
      <4> QED BY <4>1, <4>2
    <3> QED BY <3>2, <3>3
  <2> QED BY <2>1, <2>2
<1>6. ASSUME x < Len(u)
      PROVE  /\ fetched # <<>>
             /\ \A m \in ToSet(fetched) : m \in ToSet(u)
             /\ x + size <= Len(u) => Last(fetched) = u[x + size]
             /\ x + size >= Len(u) => Last(fetched) = u[Len(u)]
             /\ page > 1 => Head(fetched) = u[x] /\ Last(fetched).at < Head(fetched).at
  <2>1. lo <= hi /\ Len(fetched) = (hi - lo) + 1 /\ Len(fetched) \in 1..Len(fetched)
    <3>1. lo <= hi
      BY <1>1, <1>3, <1>6
    <3>2. Len(fetched) = (hi - lo) + 1
      BY <1>4, <3>1
    <3> HIDE DEF lo, hi
    <3> QED BY <1>3, <3>1, <3>2
  <2>2. Last(fetched) = u[hi]
    <3> HIDE DEF lo, hi
    <3>1. (lo + Len(fetched)) - 1 = hi
      BY <1>3, <2>1
    <3> QED BY <1>4, <2>1, <3>1 DEF Last
  <2>3. \A m \in ToSet(fetched) : m \in ToSet(u)
    <3> HIDE DEF lo, hi
    <3>1. \A i \in 1..Len(fetched) : (lo + i) - 1 \in DOMAIN u
      BY <1>3, <2>1
    <3> QED BY <1>4, <3>1 DEF ToSet
  <2>4. ASSUME page > 1 PROVE Head(fetched) = u[x] /\ Last(fetched).at < Head(fetched).at
    <3>1. lo = x /\ 1 <= x /\ x < hi
      BY <1>1, <1>3, <1>6, <2>4
    <3>2. Head(fetched) = u[x]
      <4>1. 1 \in 1..Len(fetched) /\ (lo + 1) - 1 = x /\ fetched # <<>>
        <5> HIDE DEF hi
        <5> QED BY <1>1, <1>3, <1>4, <2>1, <3>1
      <4> HIDE DEF lo, hi
      <4> QED BY <1>4, <4>1
    <3>3. u[x].at > u[hi].at
      <4>1. x \in DOMAIN u /\ hi \in DOMAIN u
        BY <1>1, <1>3, <3>1
      <4> HIDE DEF lo, hi
      <4> QED BY <3>1, <4>1 DEF Falling
    <3>4. u[x].at \in Nat /\ u[hi].at \in Nat
      <4>1. x \in DOMAIN u /\ hi \in DOMAIN u
        BY <1>1, <1>3, <3>1
      <4> HIDE DEF lo, hi
      <4>2. u[x] \in Message /\ u[hi] \in Message
        BY <4>1
      <4> QED BY <4>2 DEF Message
    <3> HIDE DEF hi
    <3> QED BY <2>2, <3>2, <3>3, <3>4
  <2>5. fetched # <<>>
    <3> HIDE DEF lo, hi
    <3> QED BY <1>3, <2>1
  <2>6. /\ x + size <= Len(u) => hi = x + size
        /\ x + size >= Len(u) => hi = Len(u)
    BY <1>1, <1>3
  <2> HIDE DEF hi
  <2> QED BY <2>2, <2>3, <2>4, <2>5, <2>6
<1> QED BY <1>1, <1>4, <1>5, <1>6 DEF FetchOK

-----------------------------------------------------------------------------
(* The pages of one moment.                                                *)

\* A session begins with a user message, and no other message is archived without its own.
Anchored(a) == \A m \in ToSet(a) : \E k \in ToSet(a) : k.part = 1 /\ k.at <= m.at

\* The oldest user message of the first k pages, and the messages these pages show.
Oldest(u, k, size) == u[IF k * size <= Len(u) THEN k * size ELSE Len(u)]
UpToPage(a, u, k, size) == {i \in DOMAIN a : k > 0 /\ a[i].at >= Oldest(u, k, size).at}

\* A page shows what is as new as its own user messages, and older than the pages before.
LEMMA PageIs ==
    ASSUME NEW a \in Seq(Message), Sorted(a), NEW u, u = UserMessages(a),
           NEW page \in Nat \ {0}, NEW size \in Nat \ {0}, (page - 1) * size < Len(u)
    PROVE  LET now == UpToPage(a, u, page, size)
               newer == UpToPage(a, u, page - 1, size)
           IN  /\ newer \subseteq now
               /\ Page(a, page, size) = At(a, now \ newer)
               /\ \A i \in DOMAIN a \ now, j \in now : i < j
<1> DEFINE now == UpToPage(a, u, page, size)
           newer == UpToPage(a, u, page - 1, size)
           x == (page - 1) * size
           f == Fetched(a, page, size)
           last == Oldest(u, page, size)
<1>1. u \in Seq(Message) /\ Falling(u) /\ Len(u) \in Nat /\ DOMAIN u = 1..Len(u)
  BY UserMessagesAre
<1>2. /\ x \in Nat /\ page * size = x + size /\ (page = 1 => x = 0) /\ (page > 1 => x >= 1)
      /\ f \in Seq(Message)
      /\ PageUsers(f, page) # <<>>
      /\ x + size <= Len(u) => Last(f) = u[x + size]
      /\ x + size >= Len(u) => Last(f) = u[Len(u)]
      /\ page > 1 => Head(f) = u[x] /\ Last(f).at < Head(f).at
  <2> HIDE DEF x, f
  <2>1. x = (page - 1) * size /\ f = Fetched(a, page, size) /\ x < Len(u)
    BY DEF x, f
  <2>2. FetchOK(u, (page - 1) * size, page, size, Fetched(a, page, size))
    BY <1>1, FetchedIs
  <2>3. FetchOK(u, x, page, size, f)
    BY <2>1, <2>2
  <2> QED BY <1>1, <2>1, <2>3 DEF FetchOK
<1>3. last = Last(f)
  <2> HIDE DEF f
  <2>1. x + size >= Len(u) \/ x + size <= Len(u)
    BY <1>1, <1>2
  <2>3. last = u[IF x + size <= Len(u) THEN x + size ELSE Len(u)]
    BY <1>2 DEF Oldest
  <2> HIDE DEF last, x
  <2> QED BY <1>2, <2>1, <2>3
<1>4. page > 1 => Oldest(u, page - 1, size) = Head(f)
  BY <1>1, <1>2 DEF Oldest
<1>5. last \in Message /\ (page > 1 => Head(f) \in Message)
  <2>1. page > 1 => x \in 1..Len(u)
    BY <1>1, <1>2
  <2>2. x < Len(u) /\ size \in Nat /\ size > 0
    OBVIOUS
  <2> HIDE DEF x, f
  <2>3. \E k \in 1..Len(u) : Last(f) = u[k]
    <3>1. CASE x + size <= Len(u)
      <4>1. x + size \in 1..Len(u)
        BY <1>1, <1>2, <2>2, <3>1
      <4> QED BY <1>2, <3>1, <4>1
    <3>2. CASE ~(x + size <= Len(u))
      <4>1. Len(u) \in 1..Len(u) /\ x + size >= Len(u)
        BY <1>1, <1>2, <2>2, <3>2
      <4> QED BY <1>2, <4>1
    <3> QED BY <3>1, <3>2
  <2> QED BY <1>1, <1>2, <1>3, <2>1, <2>3
<1>6. \A i \in DOMAIN a : a[i] \in Message /\ a[i].at \in Nat
  <2>1. \A i \in DOMAIN a : a[i] \in Message
    OBVIOUS
  <2>2. \A m \in Message : m.at \in Nat
    BY DEF Message
  <2> QED BY <2>1, <2>2
<1>7. \A i \in DOMAIN a : i \in now <=> a[i].at >= last.at
  BY DEF UpToPage
<1>8. \A i \in DOMAIN a : i \in newer <=> page > 1 /\ a[i].at >= Head(f).at
  BY <1>4 DEF UpToPage
<1>9. now \subseteq DOMAIN a /\ newer \subseteq DOMAIN a
  BY DEF UpToPage
<1>10. last.at \in Nat /\ (page > 1 => Head(f).at \in Nat /\ last.at < Head(f).at)
  BY <1>2, <1>3, <1>5 DEF Message
<1>11. Page(a, page, size) = At(a, {i \in DOMAIN a : InWindow(a[i], f, page)})
  BY <1>2 DEF Page, Window
<1> HIDE DEF now, newer, x, f, last
<1>12. newer \subseteq now
  BY <1>6, <1>7, <1>8, <1>9, <1>10
<1>13. {i \in DOMAIN a : InWindow(a[i], f, page)} = now \ newer
  <2>1. \A i \in DOMAIN a : InWindow(a[i], f, page) <=> i \in now /\ i \notin newer
    BY <1>3, <1>6, <1>7, <1>8, <1>10 DEF InWindow
  <2> QED BY <1>9, <2>1
<1>14. ASSUME NEW i \in DOMAIN a \ now, NEW j \in now PROVE i < j
  <2>1. a[i].at < a[j].at
    BY <1>6, <1>7, <1>9, <1>10
  <2>2. i \in Nat /\ j \in Nat /\ i # j
    BY <1>9
  <2>3. ~(j < i)
    <3>1. i \in DOMAIN a /\ j \in DOMAIN a
      BY <1>9
    <3>2. j < i => a[j].at < a[i].at
      BY <3>1 DEF Sorted
    <3>3. a[i].at \in Nat /\ a[j].at \in Nat
      BY <1>6, <3>1
    <3> QED BY <2>1, <3>2, <3>3
  <2> QED BY <2>2, <2>3
<1> QED BY <1>11, <1>12, <1>13, <1>14 DEF now, newer

\* As many pages as it takes, and none that would be empty.
LEMMA PageCountIs ==
    ASSUME NEW total \in Nat, NEW size \in Nat \ {0}
    PROVE  /\ PageCount(total, size) \in Nat
           /\ total <= PageCount(total, size) * size
           /\ \A page \in 1..PageCount(total, size) : (page - 1) * size < total
<1> DEFINE n == PageCount(total, size)
           d == (total + size) - 1
<1>1. n = d \div size /\ d \in Nat
  BY DEF PageCount
<1> HIDE DEF n
<1>2. n \in Nat /\ n * size <= d /\ d < n * size + size
  BY <1>1
<1>3. total <= n * size
  BY <1>2
<1>4. ASSUME NEW page \in 1..n PROVE (page - 1) * size < total
  <2>1. (page - 1) * size <= (n - 1) * size
    BY <1>2
  <2>2. (n - 1) * size = n * size - size
    BY <1>2
  <2> QED BY <1>2, <2>1, <2>2
<1> QED BY <1>2, <1>3, <1>4 DEF n

\* The first n pages put together, the oldest first.
AllPages(a, size, n) == FlattenSeq([i \in 1..n |-> Page(a, n + 1 - i, size)])

\* Every message is as new as the oldest user message.
LEMMA OldestUser ==
    ASSUME NEW a \in Seq(Message), Sorted(a), Anchored(a), NEW m \in ToSet(a)
    PROVE  /\ Len(UserMessages(a)) \in 1..Len(UserMessages(a))
           /\ m.at >= UserMessages(a)[Len(UserMessages(a))].at
<1> DEFINE u == UserMessages(a)
<1>1. /\ u \in Seq(Message) /\ Falling(u) /\ Len(u) \in Nat /\ DOMAIN u = 1..Len(u)
      /\ \A k : k \in ToSet(u) <=> k \in ToSet(a) /\ k.part = 1
  BY UserMessagesAre
<1> HIDE DEF u
<1>2. PICK l \in ToSet(u) : l.at <= m.at
  BY <1>1 DEF Anchored
<1>3. PICK k \in 1..Len(u) : u[k].at <= m.at
  BY <1>1, <1>2 DEF ToSet
<1>4. Len(u) \in 1..Len(u) /\ (k = Len(u) \/ k < Len(u))
  <2>1. \A y \in Nat : \A x \in 1..y : y \in 1..y /\ (x = y \/ x < y)
    OBVIOUS
  <2> QED BY <1>1, <1>3, <2>1
<1>5. u[k].at \in Nat /\ u[Len(u)].at \in Nat /\ m.at \in Nat
  <2>1. \A i \in 1..Len(u) : u[i] \in Message
    BY <1>1
  <2>2. u[k] \in Message /\ u[Len(u)] \in Message
    BY <1>3, <1>4, <2>1
  <2>3. m \in Message
    BY DEF ToSet
  <2> QED BY <2>2, <2>3 DEF Message
<1>6. CASE k = Len(u)
  BY <1>3, <1>4, <1>5, <1>6 DEF u
<1>7. CASE k < Len(u)
  <2>1. u[k].at > u[Len(u)].at
    BY <1>1, <1>3, <1>4, <1>7 DEF Falling
  <2>2. m.at >= u[Len(u)].at
    BY <1>3, <1>5, <2>1
  <2> QED BY <1>4, <2>2 DEF u
<1> QED BY <1>4, <1>6, <1>7

\* All the pages put together are the archive.
LEMMA PagesWhole ==
    ASSUME NEW a \in Seq(Message), Sorted(a), Anchored(a), NEW size \in Nat \ {0}
    PROVE  AllPages(a, size, PageCount(Len(UserMessages(a)), size)) = a
<1> SUFFICES ASSUME NEW n, n = PageCount(Len(UserMessages(a)), size)
             PROVE  FlattenSeq([i \in 1..n |-> Page(a, n + 1 - i, size)]) = a
  BY DEF AllPages
<1> DEFINE u == UserMessages(a)
           B(k) == UpToPage(a, u, k, size)
           seqs == [i \in 1..n |-> Page(a, n + 1 - i, size)]
           P == [k \in 0..n |-> At(a, DOMAIN a \ B(n - k))]
<1>1. /\ u \in Seq(Message) /\ Falling(u) /\ Len(u) \in Nat /\ DOMAIN u = 1..Len(u)
      /\ \A m : m \in ToSet(u) <=> m \in ToSet(a) /\ m.part = 1
  BY UserMessagesAre
<1>2. n \in Nat /\ Len(u) <= n * size /\ \A page \in 1..n : (page - 1) * size < Len(u)
  BY <1>1, PageCountIs
<1>3. B(0) = {}
  BY DEF UpToPage
<1>4. DOMAIN a \subseteq B(n)
  <2> SUFFICES ASSUME NEW i \in DOMAIN a PROVE n > 0 /\ a[i].at >= Oldest(u, n, size).at
    BY DEF UpToPage
  <2>1. a[i] \in ToSet(a)
    BY DEF ToSet
  <2>2. Len(u) \in 1..Len(u) /\ a[i].at >= u[Len(u)].at
    BY <2>1, OldestUser
  <2>3. n > 0
    BY <1>1, <1>2, <2>2
  <2>4. Oldest(u, n, size) = u[Len(u)]
    BY <1>1, <1>2 DEF Oldest
  <2> QED BY <2>2, <2>3, <2>4
<1>5. ASSUME NEW p \in 1..n
      PROVE  /\ B(p - 1) \subseteq B(p)
             /\ Page(a, p, size) = At(a, B(p) \ B(p - 1))
             /\ \A i \in DOMAIN a \ B(p), j \in B(p) : i < j
  <2>1. p \in Nat \ {0} /\ (p - 1) * size < Len(u)
    BY <1>2
  <2> QED BY <1>2, <2>1, PageIs
<1>6. \A k : B(k) \subseteq DOMAIN a
  BY DEF UpToPage
<1> HIDE DEF B, u
<1>7. ASSUME NEW k \in 0..(n - 1)
      PROVE  P[k + 1] = P[k] \o seqs[k + 1]
  <2> DEFINE p == n - k
             I == DOMAIN a \ B(p)
             J == B(p) \ B(p - 1)
  <2>1. p \in 1..n /\ n - (k + 1) = p - 1 /\ n + 1 - (k + 1) = p /\ k + 1 \in 1..n /\ k + 1 \in 0..n
        /\ k \in 0..n
    BY <1>2
  <2>2. P[k + 1] = At(a, DOMAIN a \ B(p - 1)) /\ P[k] = At(a, I) /\ seqs[k + 1] = Page(a, p, size)
    BY <2>1
  <2> HIDE DEF p
  <2>3. I \cup J = DOMAIN a \ B(p - 1)
    BY <1>5, <1>6, <2>1
  <2>4. /\ I \in SUBSET (1..Len(a)) /\ J \in SUBSET (1..Len(a))
        /\ \A i \in I, j \in J : i < j
    <3>1. DOMAIN a = 1..Len(a)
      OBVIOUS
    <3> QED BY <1>5, <1>6, <2>1, <3>1
  <2>5. At(a, I \cup J) = At(a, I) \o At(a, J)
    <3> HIDE DEF I, J
    <3> QED BY <2>4, AtSplit
  <2>6. seqs[k + 1] = At(a, J)
    BY <1>5, <2>1, <2>2
  <2> HIDE DEF I, J, P, seqs
  <2> QED BY <2>2, <2>3, <2>5, <2>6
<1>8. P[0] = <<>>
  <2>1. \A i \in 1..Len(a) : i \notin DOMAIN a \ B(n - 0)
    <3>1. n - 0 = n /\ DOMAIN a = 1..Len(a)
      BY <1>2
    <3> QED BY <1>4, <3>1
  <2>2. P[0] = At(a, DOMAIN a \ B(n - 0))
    BY <1>2
  <2> QED BY <2>1, <2>2, AtNone
<1>9. P[n] = a
  <2>1. 1..Len(a) \subseteq DOMAIN a \ B(n - n)
    <3>1. n - n = 0 /\ DOMAIN a = 1..Len(a)
      BY <1>2
    <3> QED BY <1>3, <3>1
  <2>2. P[n] = At(a, DOMAIN a \ B(n - n))
    BY <1>2
  <2> QED BY <2>1, <2>2, AtAll
<1>10. \A k \in 0..n : P[k] \in Seq(Message)
  BY AtElements
<1>11. seqs \in Seq(Seq(Message)) /\ Len(seqs) = n
  <2>1. \A p : At(a, B(p) \ B(p - 1)) \in Seq(Message)
    BY AtElements
  <2>2. ASSUME NEW i \in 1..n PROVE Page(a, n + 1 - i, size) \in Seq(Message)
    <3> DEFINE p == n + 1 - i
    <3>1. p \in 1..n
      BY <1>2
    <3> HIDE DEF p
    <3>2. Page(a, p, size) = At(a, B(p) \ B(p - 1))
      BY <1>5, <3>1
    <3> QED BY <2>1, <3>2 DEF p
  <2> QED BY <1>2, <2>2
<1> HIDE DEF P, seqs
<1>12. FlattenSeq(seqs) = P[n]
  <2>1. Grows(Message, P, seqs)
    BY <1>2, <1>7, <1>8, <1>10, <1>11 DEF Grows
  <2> QED BY <1>11, <2>1, FlattenSteps
<1> QED BY <1>9, <1>12 DEF seqs

-----------------------------------------------------------------------------
(* The archive is in order.                                                *)

\* Inserting at p keeps the elements before it and moves the rest up by one.
LEMMA InsertedAt ==
    ASSUME NEW M, NEW s, NEW m, NEW p, NEW b,
           s \in Seq(M), m \in M, p \in 1..(Len(s) + 1), b = InsertAt(s, p, m)
    PROVE  /\ b \in Seq(M) /\ Len(b) = Len(s) + 1
           /\ \A i \in 1..(Len(s) + 1) :
                 b[i] = IF i < p THEN s[i] ELSE IF i = p THEN m ELSE s[i - 1]
  BY InsertAtElements

LEMMA MessageInserted ==
    ASSUME NEW a, NEW m, NEW p, NEW b,
           a \in Seq(Message), m \in Message, p \in 1..(Len(a) + 1), b = InsertAt(a, p, m)
    PROVE  /\ b \in Seq(Message) /\ Len(b) = Len(a) + 1
           /\ \A i \in 1..(Len(a) + 1) :
                 b[i] = IF i < p THEN a[i] ELSE IF i = p THEN m ELSE a[i - 1]
  BY InsertedAt

\* A message is inserted behind the older ones.
LEMMA InsertedIs ==
    ASSUME NEW a \in Seq(Message), Sorted(a), NEW m \in Message,
           \A k \in ToSet(a) : k.at # m.at,
           NEW b, b = InsertAt(a, Cardinality({i \in DOMAIN a : a[i].at <= m.at}) + 1, m)
    PROVE  /\ b \in Seq(Message) /\ Sorted(b)
           /\ \A k : k \in ToSet(b) <=> k \in ToSet(a) \/ k = m
<1> DEFINE S == {i \in DOMAIN a : a[i].at <= m.at}
<1>1. Len(a) \in Nat /\ DOMAIN a = 1..Len(a) /\ m.at \in Nat /\ \A i \in 1..Len(a) : a[i].at \in Nat
  <2>1. \A i \in 1..Len(a) : a[i] \in Message
    OBVIOUS
  <2>2. \A k \in Message : k.at \in Nat
    BY DEF Message
  <2> QED BY <2>1, <2>2
<1>2. \A i \in 1..Len(a) : i \in S <=> a[i].at <= m.at
  BY <1>1
<1>3. PICK n \in 0..Len(a) : S = 1..n
  <2>1. CASE S = 1..Len(a)
    BY <1>1, <2>1, Len(a) \in 0..Len(a)
  <2>2. CASE S # 1..Len(a)
    <3> DEFINE R == {i \in 1..Len(a) : i \notin S}
    <3>1. R # {} /\ R \subseteq Nat
      BY <1>1, <2>2
    <3>2. PICK x \in R : \A y \in R : x <= y
      <4> HIDE DEF R
      <4> QED BY <3>1, Least
    <3>3. x \in 1..Len(a) /\ a[x].at > m.at
      BY <1>1, <1>2, <3>2
    <3>4. \A i \in 1..Len(a) : i < x => i \in S
      BY <1>1, <3>2
    <3>5. \A i \in 1..Len(a) : i > x => a[i].at > m.at
      <4> SUFFICES ASSUME NEW i \in 1..Len(a), i > x PROVE a[i].at > m.at
        OBVIOUS
      <4>1. a[x].at < a[i].at
        BY <1>1, <3>3 DEF Sorted
      <4> QED BY <1>1, <3>3, <4>1
    <3>6. \A i \in 1..Len(a) : i \in S <=> i < x
      BY <1>1, <1>2, <3>3, <3>4, <3>5
    <3>7. S \subseteq 1..Len(a)
      BY <1>1
    <3> HIDE DEF S
    <3>8. x - 1 \in 0..Len(a) /\ \A i \in 1..Len(a) : i \in 1..(x - 1) <=> i < x
      BY <1>1, <3>3
    <3>9. 1..(x - 1) \subseteq 1..Len(a)
      BY <1>1, <3>3
    <3>10. S = 1..(x - 1)
      BY <3>6, <3>7, <3>8, <3>9
    <3> QED BY <3>8, <3>10
  <2> QED BY <2>1, <2>2
<1>4. Cardinality(S) = n
  <2>1. Cardinality(1..n) = n
    BY FS_Interval, 1 \in Int, n \in Int
  <2> HIDE DEF S
  <2> QED BY <1>3, <2>1
<1>5. b = InsertAt(a, n + 1, m) /\ n + 1 \in 1..(Len(a) + 1) /\ n \in Nat
  BY <1>1, <1>4
<1>6. /\ b \in Seq(Message) /\ Len(b) = Len(a) + 1 /\ DOMAIN b = 1..(Len(a) + 1)
      /\ \A i \in 1..(Len(a) + 1) :
            b[i] = IF i < n + 1 THEN a[i] ELSE IF i = n + 1 THEN m ELSE a[i - 1]
  <2> DEFINE p == n + 1
  <2>1. b = InsertAt(a, p, m) /\ p \in 1..(Len(a) + 1)
    BY <1>5
  <2> HIDE DEF p
  <2>2. /\ b \in Seq(Message) /\ Len(b) = Len(a) + 1
        /\ \A i \in 1..(Len(a) + 1) :
              b[i] = IF i < p THEN a[i] ELSE IF i = p THEN m ELSE a[i - 1]
    <3>1. a \in Seq(Message) /\ m \in Message
      OBVIOUS
    <3> QED BY ONLY <2>1, <3>1, MessageInserted
  <2>3. DOMAIN b = 1..Len(b)
    BY <2>2
  <2> QED BY <2>2, <2>3 DEF p
<1>7. ToSet(b) = ToSet(a) \cup {m}
  BY <1>5, InsertAtAdds
<1>8. (\A i \in 1..n : a[i].at < m.at) /\ (\A i \in (n + 1)..Len(a) : m.at < a[i].at)
  <2>1. ASSUME NEW i \in 1..n PROVE a[i].at < m.at
    <3>1. i \in 1..Len(a) /\ i \in S
      BY <1>1, <1>3
    <3>2. a[i] \in ToSet(a)
      BY <1>1, <3>1 DEF ToSet
    <3> QED BY <1>1, <1>2, <3>1, <3>2
  <2>2. ASSUME NEW i \in (n + 1)..Len(a) PROVE m.at < a[i].at
    <3>1. i \in 1..Len(a) /\ i \notin S
      BY <1>1, <1>3
    <3> QED BY <1>1, <1>2, <3>1
  <2> QED BY <2>1, <2>2
<1> HIDE DEF S
<1>9. Sorted(b)
  <2> SUFFICES ASSUME NEW i \in 1..(Len(a) + 1), NEW j \in 1..(Len(a) + 1), i < j
               PROVE  b[i].at < b[j].at
    BY <1>6 DEF Sorted
  <2>0. \A p, q \in 1..Len(a) : p < q => a[p].at < a[q].at
    BY <1>1 DEF Sorted
  <2>1. CASE j < n + 1
    <3>1. i \in 1..Len(a) /\ j \in 1..Len(a) /\ b[i] = a[i] /\ b[j] = a[j]
      BY <1>1, <1>5, <1>6, <2>1
    <3> QED BY <2>0, <3>1
  <2>2. CASE j = n + 1
    <3>1. i \in 1..n /\ b[i] = a[i] /\ b[j] = m
      BY <1>1, <1>5, <1>6, <2>2
    <3> QED BY <1>8, <3>1
  <2>3. CASE j > n + 1
    <3>1. j - 1 \in (n + 1)..Len(a) /\ j - 1 \in 1..Len(a) /\ b[j] = a[j - 1]
      BY <1>1, <1>5, <1>6, <2>3
    <3>2. CASE i < n + 1
      <4>1. i \in 1..Len(a) /\ i < j - 1 /\ b[i] = a[i]
        BY <1>1, <1>5, <1>6, <2>3, <3>2
      <4> QED BY <2>0, <3>1, <4>1
    <3>3. CASE i = n + 1
      <4>1. b[i] = m
        BY <1>6, <3>3
      <4> QED BY <1>8, <3>1, <4>1
    <3>4. CASE i > n + 1
      <4>1. i - 1 \in 1..Len(a) /\ i - 1 < j - 1 /\ b[i] = a[i - 1]
        BY <1>1, <1>5, <1>6, <2>3, <3>4
      <4> QED BY <2>0, <3>1, <4>1
    <3> QED BY <1>5, <3>2, <3>3, <3>4
  <2> QED BY <1>5, <2>1, <2>2, <2>3
<1> QED BY <1>6, <1>7, <1>9

\* A step that neither makes nor archives a message.
Quiet(t) ==
    UNCHANGED <<archive, clock>> /\ record'[t] \in {record[t], <<>>} /\ at'[t] # "answer"

LEMMA StepQuiet ==
    ASSUME OwnerInv, NEW t \in Tasks, TaskStep(t)
    PROVE  Quiet(t) \/ Ask(t) \/ Answer(t) \/ ArchiveNext(t)
<1>1. /\ at \in [Tasks -> Place] /\ record \in [Tasks -> Seq(Message)]
      /\ Suits(at[t], req[t].op)
  BY DEF OwnerInv, TypesOK, TaskOK
<1>2. CASE Finish(t) /\ UNCHANGED <<archive, clock>>
  BY <1>1, <1>2 DEF Finish, Goto, Quiet
<1>3. ASSUME NEW place, place # "answer", GoOn(t, place), UNCHANGED <<archive, clock>>
      PROVE  Quiet(t)
  BY <1>1, <1>3 DEF GoOn, Goto, Quiet
<1>4. CASE \E op \in Ops, user \in Users : Begin(t, op, user)
  BY <1>1, <1>4 DEF Begin, Goto, KeepStores, Quiet
<1>5. CASE Check(t)
  <2>1. AfterCheck[req[t].op] # "answer"
    BY <1>1, <1>5 DEF Check, AfterCheck, Suits
  <2> QED BY <1>2, <1>3, <1>5, <2>1 DEF Check, KeepStores
<1>6. CASE CheckMessages(t) \/ ReadAgent(t) \/ Generate(t) \/ SaveSummary(t)
  BY <1>2, <1>3, <1>6 DEF CheckMessages, ReadAgent, Generate, SaveSummary, KeepStores
<1>7. CASE Find(t)
  BY <1>1, <1>2, <1>3, <1>7 DEF Find, KeepStores, Goto, Quiet
<1>8. CASE FindForSummary(t) \/ ReadTitle(t)
  BY <1>1, <1>2, <1>3, <1>8 DEF FindForSummary, ReadTitle, KeepStores, Goto, Quiet
<1>9. CASE Save(t) \/ Delete(t) \/ Close(t) \/ Abort(t)
  BY <1>2, <1>9 DEF Save, Delete, Close, Abort, KeepStores
<1>10. CASE CountTurns(t) \/ FetchUsers(t) \/ FetchWindow(t)
  <2>1. UNCHANGED <<archive, clock, record>>
    BY <1>10 DEF CountTurns, FetchUsers, FetchWindow, KeepStores
  <2>2. \E place \in {"check", "users", "window", "seen"} : at' = [at EXCEPT ![t] = place]
    BY <1>10 DEF CountTurns, FetchUsers, FetchWindow, Respond, NextCall, Goto
  <2> QED BY <1>1, <2>1, <2>2 DEF Quiet
<1> QED BY <1>4, <1>5, <1>6, <1>7, <1>8, <1>9, <1>10 DEF TaskStep

\* The messages a turn has yet to archive: all later than what they are shown after.
Unarchived(t) ==
    /\ Sorted(record[t])
    /\ \A i \in DOMAIN record[t] :
          /\ record[t][i].at <= clock
          /\ \A m \in ToSet(archive) : m.at # record[t][i].at
    /\ record[t] # <<>> =>
          \/ record[t][1].part = 1
          \/ \E k \in ToSet(archive) : k.part = 1 /\ k.at <= record[t][1].at
    /\ at[t] = "answer" => record[t] # <<>>

\* The archive is in order and begins every turn with its user message, although turns
\* overlap and are archived message by message, or in part.
ArchiveInv ==
    /\ archive \in Seq(Message) /\ Sorted(archive) /\ Anchored(archive)
    /\ \A m \in ToSet(archive) : m.at <= clock
    /\ \A t \in Tasks : Unarchived(t)
    /\ \A s, t \in Tasks : s # t =>
          \A i \in DOMAIN record[s], j \in DOMAIN record[t] : record[s][i].at # record[t][j].at

LEMMA ArchiveQuiet ==
    ASSUME OwnerInv, ArchiveInv, NEW t \in Tasks, Quiet(t),
           \A s \in Tasks \ {t} : at'[s] = at[s] /\ record'[s] = record[s]
    PROVE  ArchiveInv'
<1>1. UNCHANGED <<archive, clock>> /\ record'[t] \in {record[t], <<>>} /\ at'[t] # "answer"
  BY DEF Quiet
<1>2. DOMAIN <<>> = {}
  OBVIOUS
<1>3. ASSUME NEW s \in Tasks PROVE Unarchived(s)'
  <2>1. Unarchived(s)
    BY DEF ArchiveInv
  <2>2. CASE s # t \/ record'[t] = record[t]
    BY <1>1, <2>1, <2>2 DEF Unarchived, Sorted
  <2>3. CASE s = t /\ record'[t] = <<>>
    BY <1>1, <1>2, <2>3 DEF Unarchived, Sorted
  <2> QED BY <1>1, <2>2, <2>3
<1>4. ASSUME NEW r \in Tasks, NEW s \in Tasks, r # s,
             NEW i \in DOMAIN record'[r], NEW j \in DOMAIN record'[s]
      PROVE  record'[r][i].at # record'[s][j].at
  <2>1. record'[r] = record[r] /\ record'[s] = record[s]
    BY <1>1, <1>2, <1>4
  <2> QED BY <1>4, <2>1 DEF ArchiveInv
<1>5. /\ archive' \in Seq(Message) /\ Sorted(archive') /\ Anchored(archive')
      /\ \A m \in ToSet(archive') : m.at <= clock'
  BY <1>1 DEF ArchiveInv
<1> QED BY <1>3, <1>4, <1>5 DEF ArchiveInv

\* A turn makes a message: it is the newest of all.
LEMMA ArchiveMade ==
    ASSUME OwnerInv, ArchiveInv, NEW t \in Tasks, NEW m, m \in Message, m.at = clock + 1,
           record[t] = <<>> => m.part = 1,
           NEW q \in {<<>>, record[t]}, q = <<>> => m.part = 1,
           record'[t] = Append(q, m), clock' = clock + 1, archive' = archive,
           \A s \in Tasks \ {t} : at'[s] = at[s] /\ record'[s] = record[s]
    PROVE  ArchiveInv'
<1>1. clock \in Nat /\ \A s \in Tasks : record[s] \in Seq(Message)
  BY DEF OwnerInv, TypesOK
<1>2. /\ q \in Seq(Message) /\ DOMAIN q = 1..Len(q) /\ Len(q) \in Nat
      /\ DOMAIN record'[t] = 1..(Len(q) + 1)
      /\ \A i \in 1..Len(q) : record'[t][i] = q[i]
      /\ record'[t][Len(q) + 1] = m
      /\ record'[t] # <<>>
  <2>1. q \in Seq(Message)
    <3>1. <<>> \in Seq(Message) /\ record[t] \in Seq(Message)
      BY <1>1
    <3> QED BY <3>1
  <2> DEFINE r == record'[t]
  <2>2. r = Append(q, m) /\ m \in Message
    OBVIOUS
  <2> HIDE DEF r
  <2>3. /\ DOMAIN r = 1..(Len(q) + 1) /\ \A i \in 1..Len(q) : r[i] = q[i]
        /\ r[Len(q) + 1] = m /\ r # <<>>
        /\ DOMAIN q = 1..Len(q) /\ Len(q) \in Nat
    BY ONLY <2>1, <2>2
  <2> QED BY <2>1, <2>3 DEF r
<1>3. /\ Sorted(q)
      /\ \A i \in 1..Len(q) : q[i].at \in Nat /\ q[i].at <= clock /\ \A k \in ToSet(archive) : k.at # q[i].at
  <2>1. \A i \in 1..Len(q) : q[i] \in Message
    BY <1>2
  <2>2. \A i \in 1..Len(q) : q[i].at \in Nat
    BY <2>1 DEF Message
  <2>3. CASE q = <<>>
    BY <1>2, <2>3 DEF Sorted
  <2>4. CASE q = record[t]
    BY <1>2, <2>2, <2>4 DEF ArchiveInv, Unarchived
  <2> QED BY <2>3, <2>4
<1>4. \A k \in ToSet(archive) : k.at # clock + 1 /\ k.at <= clock + 1
  <2>1. \A k \in ToSet(archive) : k \in Message
    BY DEF ArchiveInv, ToSet
  <2> QED BY <1>1, <2>1 DEF ArchiveInv, Message
<1>5. Unarchived(t)'
  <2>1. Sorted(record'[t])
    BY <1>1, <1>2, <1>3 DEF Sorted
  <2>2. \A i \in DOMAIN record'[t] :
           record'[t][i].at <= clock' /\ \A k \in ToSet(archive') : k.at # record'[t][i].at
    <3> SUFFICES ASSUME NEW i \in 1..(Len(q) + 1)
                 PROVE  /\ record'[t][i].at <= clock'
                        /\ \A k \in ToSet(archive') : k.at # record'[t][i].at
      BY <1>2
    <3>1. CASE i \in 1..Len(q)
      BY <1>1, <1>2, <1>3, <3>1
    <3>2. CASE i \notin 1..Len(q)
      <4>1. i = Len(q) + 1
        BY <1>2, <3>2
      <4> QED BY <1>1, <1>2, <1>4, <4>1
    <3> QED BY <3>1, <3>2
  <2>3. \/ record'[t][1].part = 1
        \/ \E k \in ToSet(archive') : k.part = 1 /\ k.at <= record'[t][1].at
    <3>1. CASE q = <<>>
      <4>1. record'[t][1] = m
        BY <1>2, <3>1
      <4> QED BY <3>1, <4>1
    <3>2. CASE q # <<>>
      <4>1. q = record[t] /\ 1 \in 1..Len(q)
        BY <1>1, <1>2, <3>2
      <4>2. record'[t][1] = record[t][1]
        BY <1>2, <4>1
      <4> QED BY <3>2, <4>1, <4>2 DEF ArchiveInv, Unarchived
    <3> QED BY <3>1, <3>2
  <2> QED BY <1>2, <2>1, <2>2, <2>3 DEF Unarchived
<1>6. ASSUME NEW s \in Tasks, s # t
      PROVE  /\ Unarchived(s)'
             /\ \A i \in DOMAIN record[s], j \in DOMAIN record'[t] : record[s][i].at # record'[t][j].at
  <2>1. record'[s] = record[s] /\ at'[s] = at[s] /\ Unarchived(s)
    BY <1>6 DEF ArchiveInv
  <2>2. \A i \in DOMAIN record[s] : record[s][i] \in Message
    BY <1>1
  <2>3. \A i \in DOMAIN record[s] : record[s][i].at \in Nat /\ record[s][i].at <= clock
    BY <2>1, <2>2 DEF Unarchived, Message
  <2>4. Unarchived(s)'
    BY <1>1, <2>1, <2>3 DEF Unarchived, Sorted
  <2>5. ASSUME NEW i \in DOMAIN record[s], NEW j \in DOMAIN record'[t]
        PROVE  record[s][i].at # record'[t][j].at
    <3>1. CASE j \in 1..Len(q)
      <4>1. q = record[t] /\ j \in DOMAIN record[t] /\ record'[t][j] = record[t][j]
        BY <1>2, <3>1
      <4> QED BY <1>6, <4>1 DEF ArchiveInv
    <3>2. CASE j \notin 1..Len(q)
      <4>1. j = Len(q) + 1
        BY <1>2, <3>2
      <4> QED BY <1>1, <1>2, <2>3, <4>1
    <3> QED BY <3>1, <3>2
  <2> QED BY <2>4, <2>5
<1>7. ASSUME NEW r \in Tasks, NEW s \in Tasks, r # s,
             NEW i \in DOMAIN record'[r], NEW j \in DOMAIN record'[s]
      PROVE  record'[r][i].at # record'[s][j].at
  <2>1. CASE r = t
    BY <1>6, <1>7, <2>1
  <2>2. CASE s = t
    BY <1>6, <1>7, <2>2
  <2>3. CASE r # t /\ s # t
    BY <1>7, <2>3 DEF ArchiveInv
  <2> QED BY <2>1, <2>2, <2>3
<1>8. /\ archive' \in Seq(Message) /\ Sorted(archive') /\ Anchored(archive')
      /\ \A k \in ToSet(archive') : k.at <= clock'
  BY <1>4 DEF ArchiveInv
<1> QED BY <1>5, <1>6, <1>7, <1>8 DEF ArchiveInv

\* A turn archives its next message, among those of other turns.
LEMMA ArchiveInserts ==
    ASSUME OwnerInv, ArchiveInv, NEW t \in Tasks, record[t] # <<>>,
           archive' = Inserted(Head(record[t])), record'[t] = Tail(record[t]),
           at'[t] # "answer", clock' = clock,
           \A s \in Tasks \ {t} : at'[s] = at[s] /\ record'[s] = record[s]
    PROVE  /\ ArchiveInv'
           /\ \A m \in ToSet(archive) : m \in ToSet(archive')
<1> DEFINE q == record[t]
           m == Head(q)
<1>1. clock \in Nat /\ \A s \in Tasks : record[s] \in Seq(Message)
  BY DEF OwnerInv, TypesOK
<1>2. /\ q \in Seq(Message) /\ Len(q) \in Nat /\ Len(q) # 0 /\ DOMAIN q = 1..Len(q)
      /\ m = q[1] /\ m \in Message /\ 1 \in DOMAIN q
      /\ Len(Tail(q)) = Len(q) - 1 /\ DOMAIN Tail(q) = 1..(Len(q) - 1)
      /\ \A i \in 1..(Len(q) - 1) : Tail(q)[i] = q[i + 1] /\ i + 1 \in DOMAIN q
  BY <1>1
<1>3. /\ \A i \in DOMAIN q : q[i].at <= clock /\ \A k \in ToSet(archive) : k.at # q[i].at
      /\ Sorted(q)
  BY DEF ArchiveInv, Unarchived
<1> HIDE DEF q, m
<1>4. archive \in Seq(Message) /\ Sorted(archive) /\ \A k \in ToSet(archive) : k.at # m.at
  BY <1>2, <1>3 DEF ArchiveInv
<1>5. /\ archive' \in Seq(Message) /\ Sorted(archive')
      /\ \A k : k \in ToSet(archive') <=> k \in ToSet(archive) \/ k = m
  BY <1>2, <1>4, InsertedIs DEF Inserted, q, m
<1>6. \A k \in ToSet(archive') : k \in Message /\ k.at \in Nat
  <2>1. \A k \in ToSet(archive') : k \in Message
    BY <1>5 DEF ToSet
  <2> QED BY <2>1 DEF Message
<1>7. \A i \in DOMAIN q : q[i].at \in Nat
  <2>1. \A i \in DOMAIN q : q[i] \in Message
    BY <1>2
  <2> QED BY <2>1 DEF Message
<1>8. Anchored(archive')
  <2> SUFFICES ASSUME NEW k \in ToSet(archive') PROVE \E l \in ToSet(archive') : l.part = 1 /\ l.at <= k.at
    BY DEF Anchored
  <2>1. CASE k \in ToSet(archive)
    BY <1>5, <2>1 DEF ArchiveInv, Anchored
  <2>2. CASE k = m
    <3>1. q # <<>> => \/ q[1].part = 1
                      \/ \E l \in ToSet(archive) : l.part = 1 /\ l.at <= q[1].at
      BY DEF ArchiveInv, Unarchived, q
    <3>2. q # <<>>
      BY DEF q
    <3> QED BY <1>2, <1>5, <1>6, <2>2, <3>1, <3>2
  <2> QED BY <1>5, <2>1, <2>2
<1>9. \A k \in ToSet(archive') : k.at <= clock'
  BY <1>2, <1>3, <1>5 DEF ArchiveInv
<1>10. Unarchived(t)'
  <2> DEFINE r == record'[t]
  <2>1. /\ DOMAIN r = 1..(Len(q) - 1)
        /\ \A i \in DOMAIN r : r[i] = q[i + 1] /\ i + 1 \in DOMAIN q /\ i \in Nat
    BY <1>2 DEF q
  <2>2. Sorted(r)
    <3> SUFFICES ASSUME NEW i \in DOMAIN r, NEW j \in DOMAIN r, i < j PROVE r[i].at < r[j].at
      BY DEF Sorted
    <3>1. i + 1 < j + 1 /\ r[i] = q[i + 1] /\ r[j] = q[j + 1] /\ i + 1 \in DOMAIN q /\ j + 1 \in DOMAIN q
      BY <2>1
    <3> QED BY <1>3, <3>1 DEF Sorted
  <2>3. \A i \in DOMAIN r : r[i].at <= clock' /\ \A k \in ToSet(archive') : k.at # r[i].at
    <3> SUFFICES ASSUME NEW i \in DOMAIN r
                 PROVE  r[i].at <= clock' /\ \A k \in ToSet(archive') : k.at # r[i].at
      OBVIOUS
    <3>1. q[1].at < q[i + 1].at
      <4>1. 1 < i + 1
        BY <1>2, <2>1
      <4> QED BY <1>2, <1>3, <2>1, <4>1 DEF Sorted
    <3>2. q[1].at \in Nat /\ q[i + 1].at \in Nat
      BY <1>2, <1>7, <2>1
    <3> QED BY <1>2, <1>3, <1>5, <2>1, <3>1, <3>2
  <2>4. ASSUME r # <<>>
        PROVE  \E k \in ToSet(archive') : k.part = 1 /\ k.at <= r[1].at
    <3>1. 1 \in DOMAIN r
      <4>1. r \in Seq(Message)
        BY <1>1
      <4> QED BY <2>4, <4>1
    <3>2. r[1] = q[2] /\ 2 \in DOMAIN q /\ q[1].at < q[2].at
      <4>1. 1 + 1 = 2 /\ 1 < 2
        OBVIOUS
      <4> QED BY <1>2, <1>3, <2>1, <3>1, <4>1 DEF Sorted
    <3>3. \E k \in ToSet(archive') : k.part = 1 /\ k.at <= m.at
      BY <1>5, <1>8 DEF Anchored
    <3>4. m.at \in Nat /\ q[2].at \in Nat
      BY <1>2, <1>7, <3>2
    <3>5. PICK k \in ToSet(archive') : k.part = 1 /\ k.at <= m.at
      BY <3>3
    <3>6. k.at <= r[1].at
      <4>1. m.at < q[2].at /\ k.at \in Nat
        BY <1>2, <1>6, <3>2
      <4>2. \A x, y, z \in Nat : x <= y /\ y < z => x <= z
        OBVIOUS
      <4>3. k.at <= q[2].at
        BY <3>4, <3>5, <4>1, <4>2
      <4> QED BY <3>2, <4>3
    <3> QED BY <3>5, <3>6
  <2> QED BY <2>2, <2>3, <2>4 DEF Unarchived
<1>11. ASSUME NEW s \in Tasks, s # t
       PROVE  /\ Unarchived(s)'
              /\ \A i \in DOMAIN record[s], j \in DOMAIN record'[t] : record[s][i].at # record'[t][j].at
  <2>1. record'[s] = record[s] /\ at'[s] = at[s] /\ Unarchived(s)
    BY <1>11 DEF ArchiveInv
  <2>2. \A i \in DOMAIN record[s], j \in DOMAIN q : record[s][i].at # q[j].at
    BY <1>11 DEF ArchiveInv, q
  <2>3. \A i \in DOMAIN record[s] : \A k \in ToSet(archive') : k.at # record[s][i].at
    BY <1>2, <1>5, <2>1, <2>2 DEF Unarchived
  <2>4. record[s] # <<>> =>
           \/ record[s][1].part = 1
           \/ \E k \in ToSet(archive') : k.part = 1 /\ k.at <= record[s][1].at
    BY <1>5, <2>1 DEF Unarchived
  <2>5. Unarchived(s)'
    BY <2>1, <2>3, <2>4 DEF Unarchived, Sorted
  <2>6. \A j \in DOMAIN record'[t] : record'[t][j] = q[j + 1] /\ j + 1 \in DOMAIN q
    BY <1>2 DEF q
  <2> QED BY <2>2, <2>5, <2>6
<1>12. ASSUME NEW r \in Tasks, NEW s \in Tasks, r # s,
              NEW i \in DOMAIN record'[r], NEW j \in DOMAIN record'[s]
       PROVE  record'[r][i].at # record'[s][j].at
  <2>1. CASE r = t
    <3>1. \A k \in DOMAIN record[s], l \in DOMAIN record'[t] : record[s][k].at # record'[t][l].at
      BY <1>11, <1>12, <2>1
    <3>2. record'[s] = record[s]
      BY <1>12, <2>1
    <3> QED BY <1>12, <2>1, <3>1, <3>2
  <2>2. CASE s = t
    <3>1. \A k \in DOMAIN record[r], l \in DOMAIN record'[t] : record[r][k].at # record'[t][l].at
      BY <1>11, <1>12, <2>2
    <3>2. record'[r] = record[r]
      BY <1>12, <2>2
    <3> QED BY <1>12, <2>2, <3>1, <3>2
  <2>3. CASE r # t /\ s # t
    BY <1>12, <2>3 DEF ArchiveInv
  <2> QED BY <2>1, <2>2, <2>3
<1> QED BY <1>5, <1>8, <1>9, <1>10, <1>11, <1>12 DEF ArchiveInv

\* The archive only grows.
Grown == \A m \in ToSet(archive) : m \in ToSet(archive')

LEMMA ArchiveStep ==
    ASSUME OwnerInv, ArchiveInv, NEW t \in Tasks, TaskStep(t)
    PROVE  ArchiveInv' /\ Grown
<1>1. /\ \A s \in Tasks \ {t} : at'[s] = at[s] /\ record'[s] = record[s]
      /\ OwnerInv'
  BY TaskStepOK, StepKeepsInv DEF StepOK, OthersKept
<1>2. /\ at \in [Tasks -> Place] /\ record \in [Tasks -> Seq(Message)] /\ clock \in Nat
      /\ creator \in Users \cup {None}
      /\ at[t] \in Granted => req[t].user = creator
      /\ creator = None => at[t] = "idle"
  BY DEF OwnerInv, TypesOK, TaskOK
<1>3. \A part \in {1, 2} : at[t] \in Granted \ {"idle"} => /\ NewMessage(t, part) \in Message
                                                  /\ NewMessage(t, part).at = clock + 1
                                                  /\ NewMessage(t, part).part = part
  BY <1>2 DEF NewMessage, Message, Granted
<1>4. CASE Quiet(t)
  BY <1>1, <1>4, ArchiveQuiet DEF Quiet, Grown
<1>5. CASE Ask(t)
  <2> DEFINE m == NewMessage(t, 1)
  <2>1. /\ m \in Message /\ m.at = clock + 1 /\ m.part = 1
    BY <1>3, <1>5 DEF Ask, Granted
  <2> HIDE DEF m
  <2>2. record'[t] = Append(<<>>, m) /\ clock' = clock + 1 /\ archive' = archive
    BY <1>2, <1>5 DEF Ask, m
  <2>3. ArchiveInv'
    BY <1>1, <2>1, <2>2, ArchiveMade
  <2> QED BY <2>2, <2>3 DEF Grown
<1>6. CASE Answer(t)
  <2> DEFINE m == NewMessage(t, 2)
  <2>1. /\ m \in Message /\ m.at = clock + 1
    BY <1>3, <1>6 DEF Answer, Granted
  <2> HIDE DEF m
  <2>2. record'[t] = Append(record[t], m) /\ clock' = clock + 1 /\ archive' = archive
    BY <1>2, <1>6 DEF Answer, m
  <2>3. record[t] # <<>>
    BY <1>6 DEF Answer, ArchiveInv, Unarchived
  <2>4. ArchiveInv'
    BY <1>1, <2>1, <2>2, <2>3, ArchiveMade
  <2> QED BY <2>2, <2>4 DEF Grown
<1>7. CASE ArchiveNext(t)
  <2>1. clock' = clock /\ at[t] = "archive"
    BY <1>7 DEF ArchiveNext
  <2>2. CASE archive' = Inserted(Head(record[t])) /\ record[t] # <<>>
             /\ record' = [record EXCEPT ![t] = Tail(@)] /\ UNCHANGED at
    <3>1. record'[t] = Tail(record[t]) /\ at'[t] # "answer"
      BY <1>2, <2>1, <2>2
    <3> QED BY <1>1, <2>1, <2>2, <3>1, ArchiveInserts DEF Grown
  <2>3. CASE record' = [record EXCEPT ![t] = <<>>] /\ Goto(t, "summary") /\ UNCHANGED archive
    <3>1. Quiet(t)
      BY <1>2, <2>1, <2>3 DEF Quiet, Goto
    <3> QED BY <1>4, <3>1
  <2> QED BY <1>7, <2>2, <2>3 DEF ArchiveNext
<1> QED BY <1>4, <1>5, <1>6, <1>7, StepQuiet

LEMMA ArchiveInit == Init => ArchiveInv
<1>1. <<>> \in Seq(Message) /\ DOMAIN <<>> = {} /\ ToSet(<<>>) = {}
  BY DEF ToSet
<1> QED BY <1>1 DEF Init, ArchiveInv, Unarchived, Sorted, Anchored

LEMMA ArchiveAlways ==
    ASSUME OwnerInv, ArchiveInv, [Next]_vars
    PROVE  ArchiveInv' /\ Grown
<1>1. CASE UNCHANGED <<archive, clock, at, record>>
  BY <1>1 DEF ArchiveInv, Unarchived, Sorted, Anchored, Grown
<1> QED BY <1>1, ArchiveStep DEF Next, Create, vars

\* Read at one moment, the pages of any size put together are the archive, in order and
\* without a gap or a double, however turns overlapped and whatever part of them was archived.
THEOREM PagesPartitionHolds == Spec => []PagesPartition
<1>1. ArchiveInv => PagesPartition
  <2> SUFFICES ASSUME ArchiveInv, NEW size \in PageSizes
               PROVE  AllPages(archive, size, PageCount(Len(UserMessages(archive)), size)) = archive
    BY DEF PagesPartition, AllPages
  <2>1. size \in Nat \ {0}
    BY SessionAssumption
  <2>2. archive \in Seq(Message) /\ Sorted(archive) /\ Anchored(archive)
    BY DEF ArchiveInv
  <2> QED BY <2>1, <2>2, PagesWhole
<1>2. Init => OwnerInv /\ ArchiveInv
  BY InitOK, ArchiveInit
<1>3. OwnerInv /\ ArchiveInv /\ [Next]_vars => (OwnerInv /\ ArchiveInv)'
  BY OwnerNext, ArchiveAlways
<1> QED BY <1>1, <1>2, <1>3, PTL DEF Spec

-----------------------------------------------------------------------------
(* Whoever scrolls.                                                        *)

\* What a client that asks for a page has been shown, u being the user messages, k of them on
\* the pages before: all it is owed down to the k-th.
Reached(v, u, k) ==
    \/ v.page = 1
    \/ v.owed \subseteq v.shown
    \/ k \in 1..Len(u) /\ \A m \in v.owed : m.at >= u[k].at => m \in v.shown

\* And what it will be shown by the window it has found, k user messages being on the pages
\* with this one.
Windowed(v, a, u, k) ==
    /\ PageUsers(v.fetched, v.page) # <<>>
    /\ Last(v.fetched) \in ToSet(a)
    /\ v.page > 1 => /\ Last(v.fetched).at < Head(v.fetched).at
                     /\ \A m \in v.owed : m.at >= Head(v.fetched).at => m \in v.shown
    /\ \/ \A m \in v.owed : m.at >= Last(v.fetched).at
       \/ k \in 1..Len(u) /\ u[k].at >= Last(v.fetched).at

Scrolling(t) ==
    \/ at[t] = "check" /\ req[t].op = "scroll"
    \/ at[t] \in {"count", "users", "window", "seen"}

ViewOK(t) ==
    LET v == view[t]
        u == UserMessages(archive)
    IN  /\ v.size \in PageSizes /\ v.page # 0
        /\ v.owed \subseteq ToSet(archive)
        /\ at[t] \in {"check", "count", "users"} => Reached(v, u, (v.page - 1) * v.size)
        /\ at[t] = "window" => Windowed(v, archive, u, v.page * v.size)
        /\ at[t] = "seen" => v.owed \subseteq v.shown

ScrollInv ==
    /\ view \in [Tasks -> View]
    /\ \A t \in Tasks : Scrolling(t) => ViewOK(t)

\* More messages in the archive only move the places of the user messages up.
LEMMA UsersGrow ==
    ASSUME NEW a \in Seq(Message), Sorted(a), NEW b \in Seq(Message), Sorted(b),
           \A m \in ToSet(a) : m \in ToSet(b)
    PROVE  \A k \in 1..Len(UserMessages(a)) :
              /\ k \in 1..Len(UserMessages(b))
              /\ UserMessages(b)[k].at >= UserMessages(a)[k].at
              /\ UserMessages(a)[k].at \in Nat /\ UserMessages(b)[k].at \in Nat
<1> DEFINE u == UserMessages(a)
           w == UserMessages(b)
<1>1. /\ u \in Seq(Message) /\ Falling(u) /\ Len(u) \in Nat
      /\ \A m : m \in ToSet(u) <=> m \in ToSet(a) /\ m.part = 1
  BY UserMessagesAre
<1>2. /\ w \in Seq(Message) /\ Falling(w) /\ Len(w) \in Nat
      /\ \A m : m \in ToSet(w) <=> m \in ToSet(b) /\ m.part = 1
  BY UserMessagesAre
<1> HIDE DEF u, w
<1>3. Len(u) <= Len(w) /\ \A k \in 1..Len(u) : w[k].at >= u[k].at
  <2>1. \A m \in ToSet(u) : m \in ToSet(w)
    BY <1>1, <1>2
  <2> QED BY <1>1, <1>2, <2>1, FallingGrows
<1>4. \A k \in 1..Len(u) : k \in 1..Len(w)
  BY <1>1, <1>2, <1>3
<1>5. \A k \in 1..Len(u) : u[k] \in Message /\ w[k] \in Message
  BY <1>1, <1>2, <1>4
<1>6. \A k \in 1..Len(u) : u[k].at \in Nat /\ w[k].at \in Nat
  BY <1>5 DEF Message
<1> QED BY <1>3, <1>4, <1>6 DEF u, w

LEMMA ReachedGrows ==
    ASSUME NEW a \in Seq(Message), Sorted(a), NEW b \in Seq(Message), Sorted(b),
           \A m \in ToSet(a) : m \in ToSet(b),
           NEW v \in View, NEW k, Reached(v, UserMessages(a), k)
    PROVE  Reached(v, UserMessages(b), k)
<1>1. \A m \in v.owed : m.at \in Nat
  BY DEF View, Message
<1> DEFINE u == UserMessages(a)
           w == UserMessages(b)
<1>2. \A l \in 1..Len(u) : l \in 1..Len(w) /\ w[l].at >= u[l].at /\ u[l].at \in Nat /\ w[l].at \in Nat
  BY UsersGrow
<1>3. Reached(v, u, k)
  OBVIOUS
<1> HIDE DEF u, w
<1>4. ASSUME k \in 1..Len(u), \A m \in v.owed : m.at >= u[k].at => m \in v.shown
      PROVE  k \in 1..Len(w) /\ \A m \in v.owed : m.at >= w[k].at => m \in v.shown
  <2>1. k \in 1..Len(w) /\ w[k].at >= u[k].at /\ u[k].at \in Nat /\ w[k].at \in Nat
    BY <1>2, <1>4
  <2>2. \A m \in v.owed : m.at >= w[k].at => m.at >= u[k].at
    BY <1>1, <2>1
  <2> QED BY <1>4, <2>1, <2>2
<1>5. Reached(v, w, k)
  BY <1>3, <1>4 DEF Reached
<1> QED BY <1>5 DEF w

LEMMA WindowedGrows ==
    ASSUME NEW a \in Seq(Message), Sorted(a), NEW b \in Seq(Message), Sorted(b),
           \A m \in ToSet(a) : m \in ToSet(b),
           NEW v \in View, NEW k, Windowed(v, a, UserMessages(a), k)
    PROVE  Windowed(v, b, UserMessages(b), k)
<1> DEFINE u == UserMessages(a)
           w == UserMessages(b)
<1>1. \A l \in 1..Len(u) : l \in 1..Len(w) /\ w[l].at >= u[l].at /\ u[l].at \in Nat /\ w[l].at \in Nat
  BY UsersGrow
<1>2. Windowed(v, a, u, k)
  OBVIOUS
<1>3. Last(v.fetched).at \in Nat
  <2>1. Last(v.fetched) \in Message
    BY <1>2 DEF Windowed, ToSet
  <2> QED BY <2>1 DEF Message
<1> HIDE DEF u, w
<1>4. ASSUME k \in 1..Len(u), u[k].at >= Last(v.fetched).at
      PROVE  k \in 1..Len(w) /\ w[k].at >= Last(v.fetched).at
  BY <1>1, <1>3, <1>4
<1>5. Windowed(v, b, w, k)
  BY <1>2, <1>4 DEF Windowed
<1> QED BY <1>5 DEF w

-----------------------------------------------------------------------------
(* One query of a client.                                                  *)

\* An empty page is the end: everything owed was shown.
LEMMA EndReached ==
    ASSUME ArchiveInv, NEW v \in View, v.page # 0, v.owed \subseteq ToSet(archive),
           NEW x \in Nat, v.page = 1 => x = 0,
           Reached(v, UserMessages(archive), x), x >= Len(UserMessages(archive))
    PROVE  v.owed \subseteq v.shown
<1> DEFINE u == UserMessages(archive)
<1>1. \A m \in ToSet(archive) : Len(u) \in 1..Len(u) /\ m.at >= u[Len(u)].at
  BY OldestUser DEF ArchiveInv
<1>2. u \in Seq(Message) /\ Len(u) \in Nat
  BY UserMessagesAre DEF ArchiveInv
<1>3. Reached(v, u, x) /\ x >= Len(u)
  OBVIOUS
<1> HIDE DEF u
<1>4. CASE v.page = 1
  <2>1. Len(u) = 0
    BY <1>2, <1>3, <1>4
  <2>2. ToSet(archive) = {}
    BY <1>1, <2>1
  <2> QED BY <2>2
<1>5. CASE x \in 1..Len(u) /\ \A m \in v.owed : m.at >= u[x].at => m \in v.shown
  <2>1. x = Len(u)
    BY <1>2, <1>3, <1>5
  <2> QED BY <1>1, <1>5, <2>1
<1> QED BY <1>3, <1>4, <1>5 DEF Reached

\* A query for user messages that finds some of the page knows its window.
LEMMA WindowFound ==
    ASSUME ArchiveInv, NEW v \in View, v.page # 0, v.size # 0, v.owed \subseteq ToSet(archive),
           Reached(v, UserMessages(archive), (v.page - 1) * v.size),
           NEW f, f = Fetched(archive, v.page, v.size), PageUsers(f, v.page) # <<>>
    PROVE  LET w == [v EXCEPT !.fetched = f]
           IN  w \in View /\ Windowed(w, archive, UserMessages(archive), v.page * v.size)
<1> DEFINE u == UserMessages(archive)
           x == (v.page - 1) * v.size
           y == v.page * v.size
           w == [v EXCEPT !.fetched = f]
<1>1. /\ u \in Seq(Message) /\ Falling(u) /\ Len(u) \in Nat
      /\ \A k : k \in ToSet(u) <=> k \in ToSet(archive) /\ k.part = 1
  BY UserMessagesAre DEF ArchiveInv
<1>2. v.page \in Nat \ {0} /\ v.size \in Nat \ {0}
  BY DEF View
<1>3. FetchOK(u, x, v.page, v.size, f)
  BY <1>1, <1>2, FetchedIs DEF ArchiveInv
<1>4. Reached(v, u, x)
  OBVIOUS
<1>5. \A m \in ToSet(archive) : Len(u) \in 1..Len(u) /\ m.at >= u[Len(u)].at
  BY OldestUser DEF ArchiveInv
<1> HIDE DEF u, x, y
<1>6. /\ x \in Nat /\ y = x + v.size /\ (v.page = 1 => x = 0) /\ (v.page > 1 => x >= 1)
      /\ f \in Seq(Message) /\ x < Len(u)
      /\ f # <<>>
      /\ \A m \in ToSet(f) : m \in ToSet(u)
      /\ x + v.size <= Len(u) => Last(f) = u[x + v.size]
      /\ x + v.size >= Len(u) => Last(f) = u[Len(u)]
      /\ v.page > 1 => Head(f) = u[x] /\ Last(f).at < Head(f).at
  BY <1>1, <1>3 DEF FetchOK, y
<1>12. f \in Seq({m \in Message : m.part = 1})
  <2>1. \A i \in 1..Len(f) : f[i] \in {m \in Message : m.part = 1}
    BY <1>1, <1>6 DEF ToSet
  <2> QED BY <1>6, <2>1, SeqDef
<1>7. /\ w \in View /\ w.fetched = f /\ w.page = v.page /\ w.owed = v.owed /\ w.shown = v.shown
  BY <1>12 DEF View
<1>8. Last(f) \in ToSet(archive) /\ Last(f) \in Message
  <2>1. Last(f) \in ToSet(f)
    <3>1. Len(f) \in DOMAIN f
      BY <1>6
    <3> QED BY <3>1 DEF Last, ToSet
  <2>2. Last(f) \in ToSet(archive)
    BY <1>1, <1>6, <2>1
  <2> QED BY <2>2 DEF ToSet, ArchiveInv
<1>9. v.page > 1 => \A m \in v.owed : m.at >= Head(f).at => m \in v.shown
  BY <1>4, <1>6 DEF Reached
<1>10. \/ \A m \in v.owed : m.at >= Last(f).at
       \/ y \in 1..Len(u) /\ u[y].at >= Last(f).at
  <2>1. CASE x + v.size <= Len(u)
    <3>1. y \in 1..Len(u) /\ u[y] = Last(f)
      BY <1>1, <1>2, <1>6, <2>1
    <3>2. Last(f).at \in Nat
      BY <1>8 DEF Message
    <3> QED BY <3>1, <3>2
  <2>2. CASE ~(x + v.size <= Len(u))
    <3>1. Last(f) = u[Len(u)]
      BY <1>1, <1>2, <1>6, <2>2
    <3> QED BY <1>5, <3>1
  <2> QED BY <2>1, <2>2
<1> HIDE DEF w
<1>11. Windowed(w, archive, u, y)
  BY <1>6, <1>7, <1>8, <1>9, <1>10 DEF Windowed
<1> QED BY <1>7, <1>11 DEF u, w, y

\* The query for the window shows the rest of what is owed down to the end of the page.
LEMMA WindowShown ==
    ASSUME ArchiveInv, NEW v \in View, v.owed \subseteq ToSet(archive), v.page # 0,
           NEW k, Windowed(v, archive, UserMessages(archive), k),
           NEW shown, shown = ToSet(Window(archive, v.fetched, v.page))
    PROVE  LET w == [v EXCEPT !.page = @ + 1, !.fetched = <<>>, !.shown = @ \cup shown]
           IN  shown # {} /\ w \in View /\ Reached(w, UserMessages(archive), k)
<1> DEFINE u == UserMessages(archive)
           w == [v EXCEPT !.page = @ + 1, !.fetched = <<>>, !.shown = @ \cup shown]
           last == Last(v.fetched)
<1>1. /\ PageUsers(v.fetched, v.page) # <<>> /\ last \in ToSet(archive)
      /\ v.page > 1 => /\ last.at < Head(v.fetched).at
                       /\ \A m \in v.owed : m.at >= Head(v.fetched).at => m \in v.shown
      /\ \/ \A m \in v.owed : m.at >= last.at
         \/ k \in 1..Len(u) /\ u[k].at >= last.at
  BY DEF Windowed
<1>2. \A m : m \in shown <=> m \in ToSet(archive) /\ InWindow(m, v.fetched, v.page)
  BY <1>1, WindowIs DEF ArchiveInv
<1>3. \A m \in ToSet(archive) : m \in Message /\ m.at \in Nat
  <2>1. \A m \in ToSet(archive) : m \in Message
    BY DEF ToSet, ArchiveInv
  <2> QED BY <2>1 DEF Message
<1>4. last \in shown
  BY <1>1, <1>2, <1>3 DEF InWindow
<1>5. shown \subseteq Message
  BY <1>2, <1>3
<1>6. w \in View /\ w.owed = v.owed /\ w.shown = v.shown \cup shown
  <2>1. <<>> \in Seq({m \in Message : m.part = 1}) /\ v.page + 1 \in Nat /\ v.shown \cup shown \in SUBSET Message
    BY <1>5 DEF View
  <2> QED BY <2>1 DEF View
<1>7. \A m \in v.owed : m.at >= last.at => m \in v.shown \cup shown
  <2> SUFFICES ASSUME NEW m \in v.owed, m.at >= last.at, m \notin v.shown PROVE m \in shown
    OBVIOUS
  <2>1. m \in ToSet(archive) /\ m.at \in Nat
    BY <1>3
  <2>2. v.page > 1 => m.at < Head(v.fetched).at
    <3>1. v.page > 1 => ~(m.at >= Head(v.fetched).at)
      BY <1>1
    <3>2. v.page > 1 => v.fetched \in Seq(Message) /\ v.fetched # <<>>
      BY <1>1 DEF View, PageUsers
    <3>3. v.page > 1 => Head(v.fetched) \in Message
      BY <3>2
    <3> QED BY <2>1, <3>1, <3>3 DEF Message
  <2> QED BY <1>2, <2>1, <2>2 DEF InWindow
<1>8. u \in Seq(Message)
  BY UserMessagesAre DEF ArchiveInv
<1> HIDE DEF u, w, last
<1>9. Reached(w, u, k)
  <2>1. CASE \A m \in v.owed : m.at >= last.at
    BY <1>6, <1>7, <2>1 DEF Reached
  <2>2. CASE k \in 1..Len(u) /\ u[k].at >= last.at
    <3>1. u[k].at \in Nat /\ last.at \in Nat
      <4>1. u[k] \in Message
        BY <1>8, <2>2
      <4> QED BY <1>1, <1>3, <4>1 DEF Message
    <3>2. \A m \in v.owed : m.at >= u[k].at => m.at >= last.at
      BY <1>3, <2>2, <3>1
    <3> QED BY <1>6, <1>7, <2>2, <3>2 DEF Reached
  <2> QED BY <1>1, <2>1, <2>2
<1> QED BY <1>4, <1>6, <1>9 DEF u, w

-----------------------------------------------------------------------------
(* One step of a client.                                                   *)

Opens(t) ==
    /\ at'[t] = "check"
    /\ \E size \in PageSizes :
           view' = [view EXCEPT ![t] = [NoView EXCEPT !.size = size, !.page = 1,
                                        !.owed = ToSet(archive)]]
    /\ archive' = archive

\* The session was found for the client.
Admitted(t) == at[t] = "check" /\ req[t].op = "scroll" /\ at'[t] = "count" /\ UNCHANGED <<archive, view>>

LEMMA StepViews ==
    ASSUME OwnerInv, NEW t \in Tasks, TaskStep(t)
    PROVE  \/ view' \in {view, [view EXCEPT ![t] = NoView]} /\ ~Scrolling(t)'
           \/ Opens(t) \/ Admitted(t)
           \/ CountTurns(t) \/ FetchUsers(t) \/ FetchWindow(t)
<1>1. /\ at \in [Tasks -> Place] /\ req \in [Tasks -> [op : Ops, user : Users \cup {None}]]
      /\ Suits(at[t], req[t].op)
  BY DEF OwnerInv, TypesOK, TaskOK
<1> DEFINE Unseen == view' \in {view, [view EXCEPT ![t] = NoView]} /\ ~Scrolling(t)'
<1>2. CASE Finish(t)
  BY <1>1, <1>2 DEF Finish, Goto, Scrolling
<1>3. ASSUME NEW place, place \notin {"check", "count", "users", "window", "seen"},
             view' = view, Goto(t, place)
      PROVE  Unseen
  BY <1>1, <1>3 DEF Goto, Scrolling
<1>4. ASSUME NEW op \in Ops, NEW user \in Users, Begin(t, op, user)
      PROVE  Unseen \/ Opens(t)
  <2>1. /\ at'[t] = IF op \in {"delete", "rename", "pin"} THEN "find" ELSE "check"
        /\ req'[t].op = op /\ archive' = archive
    BY <1>1, <1>4 DEF Begin, Goto, KeepStores
  <2>2. CASE op = "scroll"
    BY <1>4, <2>1, <2>2 DEF Begin, Opens
  <2>3. CASE op # "scroll"
    BY <1>4, <2>1, <2>3 DEF Begin, Scrolling
  <2> QED BY <2>2, <2>3
<1>5. CASE Check(t)
  <2>1. CASE req[t].op = "scroll"
    BY <1>1, <1>2, <1>5, <2>1 DEF Check, GoOn, Goto, KeepStores, AfterCheck, Admitted
  <2>2. CASE req[t].op # "scroll"
    <3>1. AfterCheck[req[t].op] \in {"messages", "agent"}
      BY <1>1, <1>5, <2>2 DEF Check, AfterCheck, Suits
    <3> QED BY <1>2, <1>3, <1>5, <3>1 DEF Check, GoOn
  <2> QED BY <2>1, <2>2
<1>6. CASE CheckMessages(t) \/ ReadAgent(t) \/ Generate(t)
  BY <1>2, <1>3, <1>6 DEF CheckMessages, ReadAgent, Generate, GoOn
<1>7. CASE Find(t)
  BY <1>2, <1>3, <1>7 DEF Find, GoOn
<1>8. CASE FindForSummary(t) \/ SaveSummary(t) \/ ReadTitle(t)
  BY <1>2, <1>3, <1>8 DEF FindForSummary, SaveSummary, ReadTitle, GoOn
<1>9. CASE Save(t) \/ Delete(t) \/ Close(t) \/ Abort(t)
  BY <1>2, <1>9 DEF Save, Delete, Close, Abort
<1>10. CASE Ask(t) \/ Answer(t)
  BY <1>3, <1>10 DEF Ask, Answer
<1>11. CASE ArchiveNext(t)
  BY <1>1, <1>3, <1>11 DEF ArchiveNext, Scrolling
<1> QED BY <1>4, <1>5, <1>6, <1>7, <1>8, <1>9, <1>10, <1>11 DEF TaskStep

\* What holds for a client that is not served now is not spoilt by what is archived.
LEMMA ViewKept ==
    ASSUME ArchiveInv, ArchiveInv', Grown, NEW s \in Tasks, view[s] \in View,
           view'[s] = view[s], at'[s] = at[s], ViewOK(s)
    PROVE  ViewOK(s)'
<1> DEFINE v == view[s]
           u == UserMessages(archive)
           w == UserMessages(archive')
<1>1. /\ v.size \in PageSizes /\ v.page # 0
      /\ v.owed \subseteq ToSet(archive)
      /\ at[s] \in {"check", "count", "users"} => Reached(v, u, (v.page - 1) * v.size)
      /\ at[s] = "window" => Windowed(v, archive, u, v.page * v.size)
      /\ at[s] = "seen" => v.owed \subseteq v.shown
  BY DEF ViewOK
<1>2. /\ archive \in Seq(Message) /\ Sorted(archive)
      /\ archive' \in Seq(Message) /\ Sorted(archive')
      /\ \A m \in ToSet(archive) : m \in ToSet(archive')
  BY DEF ArchiveInv, Grown
<1>3. at[s] \in {"check", "count", "users"} => Reached(v, w, (v.page - 1) * v.size)
  BY <1>1, <1>2, ReachedGrows
<1>4. at[s] = "window" => Windowed(v, archive', w, v.page * v.size)
  BY <1>1, <1>2, WindowedGrows
<1> HIDE DEF u
<1> QED BY <1>1, <1>2, <1>3, <1>4 DEF ViewOK

\* The client's own step.
LEMMA ViewMoves ==
    ASSUME OwnerInv, ArchiveInv, ScrollInv, NEW t \in Tasks, TaskStep(t)
    PROVE  /\ view' \in [Tasks -> View]
           /\ \A s \in Tasks \ {t} : view'[s] = view[s]
           /\ Scrolling(t)' => ViewOK(t)'
<1> DEFINE v == view[t]
           u == UserMessages(archive)
           x == (v.page - 1) * v.size
           Moved(place, new) == at'[t] = place /\ view' = [view EXCEPT ![t] = new]
           Result == /\ view' \in [Tasks -> View]
                     /\ \A s \in Tasks \ {t} : view'[s] = view[s]
                     /\ Scrolling(t)' => ViewOK(t)'
<1>1. /\ at \in [Tasks -> Place] /\ view \in [Tasks -> View] /\ v \in View
      /\ v.page \in Nat /\ v.size \in Nat
      /\ Scrolling(t) => ViewOK(t)
  BY DEF OwnerInv, TypesOK, ScrollInv, View
<1>2. \A size \in PageSizes : size \in Nat /\ size # 0
  BY SessionAssumption
<1>3. ASSUME NEW new \in View, view' = [view EXCEPT ![t] = new]
      PROVE  /\ view' \in [Tasks -> View] /\ view'[t] = new
             /\ \A s \in Tasks \ {t} : view'[s] = view[s]
  BY <1>1, <1>3
<1>4. CASE view' \in {view, [view EXCEPT ![t] = NoView]} /\ ~Scrolling(t)'
  <2>1. NoView \in View
    <3>1. <<>> \in Seq({m \in Message : m.part = 1})
      OBVIOUS
    <3> QED BY <3>1 DEF NoView, View
  <2> QED BY <1>1, <1>3, <1>4, <2>1
<1>5. CASE Opens(t)
  <2>1. PICK size \in PageSizes :
            view' = [view EXCEPT ![t] = [NoView EXCEPT !.size = size, !.page = 1,
                                         !.owed = ToSet(archive)]]
    BY <1>5 DEF Opens
  <2> DEFINE new == [NoView EXCEPT !.size = size, !.page = 1, !.owed = ToSet(archive)]
  <2>2. new.size = size /\ new.page = 1 /\ new.owed = ToSet(archive)
    BY DEF NoView
  <2>3. new \in View
    <3>1. <<>> \in Seq({m \in Message : m.part = 1})
      OBVIOUS
    <3>2. ToSet(archive) \subseteq Message
      BY DEF ArchiveInv, ToSet
    <3> QED BY <1>2, <3>1, <3>2 DEF NoView, View
  <2> HIDE DEF new
  <2>4. view' = [view EXCEPT ![t] = new]
    BY <2>1 DEF new
  <2>5. view'[t] = new /\ at'[t] = "check" /\ archive' = archive
    BY <1>3, <1>5, <2>3, <2>4 DEF Opens
  <2>6. ViewOK(t)'
    BY <2>2, <2>5 DEF ViewOK, Reached
  <2> QED BY <1>3, <2>3, <2>4, <2>6
<1>6. CASE Admitted(t)
  <2>1. ViewOK(t)
    BY <1>1, <1>6 DEF Admitted, Scrolling
  <2>2. ViewOK(t)'
    BY <1>6, <2>1 DEF Admitted, ViewOK
  <2> QED BY <1>1, <1>6, <2>2 DEF Admitted
<1>7. CASE CountTurns(t) \/ FetchUsers(t) \/ FetchWindow(t)
  <2>1. ViewOK(t) /\ archive' = archive
    BY <1>1, <1>7 DEF CountTurns, FetchUsers, FetchWindow, Scrolling, KeepStores
  <2>2. /\ v.size \in PageSizes /\ v.page # 0 /\ v.size # 0
        /\ v.owed \subseteq ToSet(archive)
        /\ at[t] \in {"count", "users"} => Reached(v, u, x)
        /\ at[t] = "window" => Windowed(v, archive, u, v.page * v.size)
    BY <1>2, <2>1 DEF ViewOK
  <2>3. x \in Nat /\ (v.page = 1 => x = 0)
    <3>1. v.page - 1 \in Nat
      BY <1>1, <2>2
    <3> QED BY <1>1, <3>1
  <2>4. Len(u) \in Nat /\ u \in Seq(Message) /\ archive \in Seq(Message) /\ Sorted(archive)
    BY UserMessagesAre DEF ArchiveInv
  <2>5. ASSUME NEW place, NEW new, NextCall(t, new, place)
        PROVE  at'[t] = place /\ view' = [view EXCEPT ![t] = new]
    BY <1>1, <2>5 DEF NextCall, Goto
  <2>6. ASSUME Respond(t, {}), x >= Len(u), Reached(v, u, x)
        PROVE  Result
    <3>1. v.owed \subseteq v.shown
      BY <1>1, <2>2, <2>3, <2>6, EndReached
    <3>2. at'[t] = "seen" /\ view' = view
      BY <1>1, <2>5, <2>6 DEF Respond
    <3>3. ViewOK(t)'
      BY <2>1, <2>2, <3>1, <3>2 DEF ViewOK
    <3> QED BY <1>1, <3>2, <3>3
  <2>7. CASE CountTurns(t)
    <3>1. CASE u = <<>>
      BY <2>2, <2>3, <2>6, <2>7, <3>1 DEF CountTurns
    <3>2. CASE u # <<>>
      <4>1. at'[t] = "users" /\ view' = view
        BY <1>1, <2>5, <2>7, <3>2 DEF CountTurns
      <4>2. at[t] = "count"
        BY <2>7 DEF CountTurns
      <4>3. ViewOK(t)'
        BY <2>1, <2>2, <4>1, <4>2 DEF ViewOK
      <4> QED BY <1>1, <4>1, <4>3
    <3> QED BY <3>1, <3>2
  <2>8. CASE FetchUsers(t)
    <3> DEFINE f == Fetched(archive, v.page, v.size)
               new == [v EXCEPT !.fetched = f]
    <3>1. at[t] = "users" /\ Reached(v, u, x)
      BY <2>2, <2>8 DEF FetchUsers
    <3>2. CASE PageUsers(f, v.page) = <<>>
      <4>1. FetchOK(u, x, v.page, v.size, f)
        <5>1. u \in Seq(Message) /\ Falling(u) /\ Len(u) \in Nat /\ Sorted(archive)
          BY UserMessagesAre DEF ArchiveInv
        <5>2. v.page \in Nat \ {0} /\ v.size \in Nat \ {0}
          BY <1>1, <2>2
        <5> QED BY <2>4, <5>1, <5>2, FetchedIs
      <4>2. x >= Len(u)
        BY <2>3, <2>4, <3>2, <4>1 DEF FetchOK
      <4>3. Respond(t, {})
        BY <2>8, <3>2 DEF FetchUsers
      <4> QED BY <2>6, <3>1, <4>2, <4>3
    <3>3. CASE PageUsers(f, v.page) # <<>>
      <4>1. new \in View /\ Windowed(new, archive, u, v.page * v.size)
        BY <1>1, <2>2, <3>1, <3>3, WindowFound
      <4>2. at'[t] = "window" /\ view' = [view EXCEPT ![t] = new]
        BY <2>5, <2>8, <3>3 DEF FetchUsers
      <4>3. new.size = v.size /\ new.page = v.page /\ new.owed = v.owed
        BY <1>1 DEF View
      <4> HIDE DEF new
      <4>4. view'[t] = new
        BY <1>3, <4>1, <4>2
      <4>5. ViewOK(t)'
        BY <2>1, <2>2, <4>1, <4>2, <4>3, <4>4 DEF ViewOK
      <4> QED BY <1>3, <4>1, <4>2, <4>5
    <3> QED BY <3>2, <3>3
  <2>9. CASE FetchWindow(t)
    <3> DEFINE shown == ToSet(Window(archive, v.fetched, v.page))
               new == [v EXCEPT !.page = @ + 1, !.fetched = <<>>, !.shown = @ \cup shown]
    <3>1. Windowed(v, archive, u, v.page * v.size)
      BY <2>2, <2>9 DEF FetchWindow
    <3>2. shown # {} /\ new \in View /\ Reached(new, u, v.page * v.size)
      BY <1>1, <2>2, <3>1, WindowShown
    <3>3. at'[t] = "check" /\ view' = [view EXCEPT ![t] = new]
      <4>1. Respond(t, shown)
        BY <2>9 DEF FetchWindow
      <4>2. NextCall(t, new, "check")
        BY <3>2, <4>1 DEF Respond
      <4> QED BY <2>5, <4>2
    <3>4. new.size = v.size /\ new.page = v.page + 1 /\ new.owed = v.owed
      BY <1>1 DEF View
    <3> HIDE DEF new
    <3>5. view'[t] = new
      BY <1>3, <3>2, <3>3
    <3>6. new.page # 0 /\ new.page - 1 = v.page
      BY <1>1, <3>4
    <3>7. ViewOK(t)'
      BY <2>1, <2>2, <3>2, <3>3, <3>4, <3>5, <3>6 DEF ViewOK
    <3> QED BY <1>3, <3>2, <3>3, <3>7
  <2> QED BY <1>7, <2>7, <2>8, <2>9
<1> QED BY <1>4, <1>5, <1>6, <1>7, StepViews

LEMMA ScrollStep ==
    ASSUME OwnerInv, ArchiveInv, ScrollInv, NEW t \in Tasks, TaskStep(t)
    PROVE  ScrollInv'
<1>1. ArchiveInv' /\ Grown
  BY ArchiveStep
<1>2. \A s \in Tasks \ {t} : at'[s] = at[s] /\ req'[s] = req[s]
  BY TaskStepOK DEF StepOK, OthersKept
<1>3. /\ view' \in [Tasks -> View]
      /\ \A s \in Tasks \ {t} : view'[s] = view[s]
      /\ Scrolling(t)' => ViewOK(t)'
  BY ViewMoves
<1>4. ASSUME NEW s \in Tasks \ {t}, Scrolling(s)'
      PROVE  ViewOK(s)'
  <2>1. at'[s] = at[s] /\ req'[s] = req[s] /\ view'[s] = view[s]
    BY <1>2, <1>3
  <2>2. Scrolling(s)
    BY <1>4, <2>1 DEF Scrolling
  <2>3. view[s] \in View /\ ViewOK(s)
    BY <2>2 DEF ScrollInv
  <2> QED BY <1>1, <2>1, <2>3, ViewKept
<1> QED BY <1>3, <1>4 DEF ScrollInv

LEMMA ScrollInit == Init => ScrollInv
<1>1. <<>> \in Seq({m \in Message : m.part = 1})
  OBVIOUS
<1> QED BY <1>1 DEF Init, ScrollInv, Scrolling, NoView, View

LEMMA ScrollAlways ==
    ASSUME OwnerInv, ArchiveInv, ScrollInv, [Next]_vars
    PROVE  ScrollInv'
<1>1. CASE UNCHANGED <<archive, at, req, view>>
  BY <1>1 DEF ScrollInv, Scrolling, ViewOK
<1> QED BY <1>1, ScrollStep DEF Next, Create, vars

\* Whoever scrolls until a page is empty is shown every message that was archived when they
\* began, whatever is archived between two pages or between the queries of one.
THEOREM ScrollMissesNothingHolds == Spec => []ScrollMissesNothing
<1>1. ScrollInv => ScrollMissesNothing
  BY DEF ScrollInv, Scrolling, ViewOK, ScrollMissesNothing
<1>2. Init => OwnerInv /\ ArchiveInv /\ ScrollInv
  BY InitOK, ArchiveInit, ScrollInit
<1>3. OwnerInv /\ ArchiveInv /\ ScrollInv /\ [Next]_vars => (OwnerInv /\ ArchiveInv /\ ScrollInv)'
  BY OwnerNext, ArchiveAlways, ScrollAlways
<1> QED BY <1>1, <1>2, <1>3, PTL DEF Spec
=============================================================================
