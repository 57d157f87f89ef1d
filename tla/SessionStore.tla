---------------------------- MODULE SessionStore ----------------------------
(***************************************************************************)
(* One chat session: its document and its archived messages, under the     *)
(* requests of the session API and the chat turns, which go on working on  *)
(* the document after their answer.  Every operation reads the document,   *)
(* changes its copy and saves all of it; each action below is the code up  *)
(* to its next database or model call.                                     *)
(*                                                                         *)
(* The database is external: save() replaces the document, or inserts it   *)
(* if it is gone, and delete() of a missing document does nothing.  The    *)
(* messages of a deleted session stay.  What a turn does to Redis, to its  *)
(* summary's text and to long-term memory is in TurnMemory.                *)
(***************************************************************************)
EXTENDS TurnPager, FiniteSets

CONSTANTS
    Users,
    Tasks,          \* requests and turns being served
    None,           \* no document, no agent, no user
    PageSizes,      \* the page sizes of clients
    Workloads       \* bounds: the operations requested, those of them that may overlap,
                    \* whether a save follows its read with no other save between, what
                    \* the agent has made, the titles and agents users ask for, and the
                    \* clock from which no turn begins any more

Ops == {"delete", "rename", "pin", "setAgent", "scroll", "turn"}

\* A title is the default, one a user gave or one a model made.
Title == {"New Chat", "chosen", "generated"}
GivenTitle == {"New Chat", "chosen"}

\* agent_id; agent_version goes with it.  Other ids do not resolve.
Agent == {None, "default-chat-agent"}

ASSUME SessionAssumption ==
    /\ None \notin Users
    /\ PageSizes \subseteq Nat \ {0}
    /\ Workloads \subseteq [offered : SUBSET Ops, together : SUBSET Ops, brief : BOOLEAN,
                            made : SUBSET {"summary", "title"}, titles : SUBSET GivenTitle,
                            agents : SUBSET Agent, until : Nat]

VARIABLES
    doc,            \* the session document, or None
    creator,        \* the user who created the session
    archive,        \* the chat_message documents, in created_at order
    clock,          \* created_at of the newest message made
    at,             \* per task, the call it makes next
    req,            \* per task, its operation and user
    copy,           \* per task, the document it read and may have changed
    record,         \* per turn, the messages it has yet to archive
    view,           \* per client that scrolls, its page and what it was shown
    load            \* the workload of this behaviour

vars == <<doc, creator, archive, clock, at, req, copy, record, view, load>>

\* is_pinned and pinned_at are written together, as are current_summary and
\* summary_updated_at, for which the time stands (0: none).
Document == [owner : Users, title : Title, pinned : BOOLEAN, summary : Nat, agent : Agent]

Message == [user : Users, part : {1, 2}, at : Nat]

View == [size : Nat, page : Nat, fetched : Seq({m \in Message : m.part = 1}),
         shown : SUBSET Message, owed : SUBSET Message]
NoView == [size |-> 0, page |-> 0, fetched |-> <<>>, shown |-> {}, owed |-> {}]
NoCall == [op |-> "turn", user |-> None]

Place == {"idle", "check", "messages", "find", "save", "delete", "agent", "ask", "answer",
          "archive", "summary", "saveSummary", "title", "generate", "count", "users",
          "window", "seen"}

Running(t) == at[t] # "idle"

Init ==
    /\ doc = None
    /\ creator = None
    /\ archive = <<>>
    /\ clock = 0
    /\ at = [t \in Tasks |-> "idle"]
    /\ req = [t \in Tasks |-> NoCall]
    /\ copy = [t \in Tasks |-> None]
    /\ record = [t \in Tasks |-> <<>>]
    /\ view = [t \in Tasks |-> NoView]
    /\ load \in Workloads

Goto(t, place) == at' = [at EXCEPT ![t] = place]

\* The task returns or raises, and what it held is gone with it.
Finish(t) ==
    /\ Goto(t, "idle")
    /\ req' = [req EXCEPT ![t] = NoCall]
    /\ copy' = [copy EXCEPT ![t] = None]
    /\ record' = [record EXCEPT ![t] = <<>>]
    /\ view' = [view EXCEPT ![t] = NoView]

GoOn(t, place) == Goto(t, place) /\ UNCHANGED <<req, copy, record, view>>

KeepLog == UNCHANGED <<archive, clock>>
KeepStores == UNCHANGED <<doc, creator, archive, clock, load>>

\* Mutant: a session is looked up by its id alone.
FoundForAnyone(user) == doc # None

\* get_session_for_user and _safe_get_session: found by id and user_id together.
FoundFor(user) == doc # None /\ doc.owner = user

\* With load.brief, nobody saves between the read and the save of another.
MayHold(t) ==
    load.brief => \A s \in Tasks \ {t} : at[s] \notin {"save", "saveSummary", "delete"}

-----------------------------------------------------------------------------
(* Requests.                                                               *)

\* create_session; the session that is followed is created once.
Create(user) ==
    /\ creator = None
    /\ creator' = user
    /\ \E title \in load.titles, agent \in load.agents :
           doc' = [owner |-> user, title |-> title, pinned |-> FALSE, summary |-> 0,
                   agent |-> agent]
    /\ UNCHANGED <<archive, clock, at, req, copy, record, view, load>>

MayStart(t, op) ==
    /\ op \in load.offered
    /\ op = "turn" => clock < load.until
    /\ \A s \in Tasks \ {t} : Running(s) => {op, req[s].op} \subseteq load.together

Begin(t, op, user) ==
    /\ ~Running(t)
    /\ creator # None
    /\ MayStart(t, op)
    /\ Goto(t, IF op \in {"delete", "rename", "pin"} THEN "find" ELSE "check")
    /\ req' = [req EXCEPT ![t] = [op |-> op, user |-> user]]
    /\ \/ op # "scroll" /\ UNCHANGED view
       \/ /\ op = "scroll"
          /\ \E size \in PageSizes :
                 view' = [view EXCEPT ![t] = [NoView EXCEPT !.size = size, !.page = 1,
                                              !.owed = ToSet(archive)]]
    /\ UNCHANGED <<copy, record>>
    /\ KeepStores

\* Where an operation goes after get_session_for_user.
AfterCheck == [setAgent |-> "messages", scroll |-> "count", turn |-> "agent"]

Check(t) ==
    /\ at[t] = "check"
    /\ IF FoundFor(req[t].user) THEN GoOn(t, AfterCheck[req[t].op]) ELSE Finish(t)
    /\ KeepStores

\* Mutant: the agent may change at any time.
MayChangeAgentAlways == TRUE

\* has_session_messages
MayChangeAgent == archive = <<>>

\* The request for another agent is refused if there are messages; the agent is
\* resolved without a call, or not found.
CheckMessages(t) ==
    /\ at[t] = "messages"
    /\ \/ MayChangeAgent /\ GoOn(t, "find")
       \/ Finish(t)
    /\ KeepStores

\* The documents a save may write, for the argument of the request.
Changed(t) ==
    CASE req[t].op = "rename" -> {[doc EXCEPT !.title = title] : title \in load.titles}
      [] req[t].op = "pin" -> {[doc EXCEPT !.pinned = pin] : pin \in BOOLEAN}
      [] req[t].op = "setAgent" -> {[doc EXCEPT !.agent = agent] : agent \in load.agents}
      [] req[t].op = "turn" -> {[doc EXCEPT !.title = "generated"]}

Find(t) ==
    /\ at[t] = "find"
    /\ MayHold(t)
    /\ \/ ~FoundFor(req[t].user) /\ Finish(t)
       \/ /\ FoundFor(req[t].user)
          /\ req[t].op = "delete"
          /\ GoOn(t, "delete")
       \/ /\ FoundFor(req[t].user)
          /\ req[t].op # "delete"
          /\ \E new \in Changed(t) : copy' = [copy EXCEPT ![t] = new]
          /\ Goto(t, "save")
          /\ UNCHANGED <<req, record, view>>
    /\ KeepStores

Save(t) ==
    /\ at[t] = "save"
    /\ doc' = copy[t]
    /\ Finish(t)
    /\ UNCHANGED <<creator, archive, clock, load>>

Delete(t) ==
    /\ at[t] = "delete"
    /\ doc' = None
    /\ Finish(t)
    /\ UNCHANGED <<creator, archive, clock, load>>

-----------------------------------------------------------------------------
(* A turn: the agent of the session answers, and the background tasks      *)
(* archive the messages, save a summary and generate a title.              *)

\* SessionAgentProvider.resolve reads the session again; no agent means the default one.
ReadAgent(t) ==
    /\ at[t] = "agent"
    /\ IF FoundFor(req[t].user) THEN GoOn(t, "ask") ELSE Finish(t)
    /\ KeepStores

NewMessage(t, part) == [user |-> req[t].user, part |-> part, at |-> clock + 1]

\* The strategy records the user's message, and later its answer.
Ask(t) ==
    /\ at[t] = "ask"
    /\ clock' = clock + 1
    /\ record' = [record EXCEPT ![t] = <<NewMessage(t, 1)>>]
    /\ Goto(t, "answer")
    /\ UNCHANGED <<doc, creator, archive, req, copy, view, load>>

Answer(t) ==
    /\ at[t] = "answer"
    /\ clock' = clock + 1
    /\ record' = [record EXCEPT ![t] = Append(@, NewMessage(t, 2))]
    /\ Goto(t, "archive")
    /\ UNCHANGED <<doc, creator, archive, req, copy, view, load>>

\* The document becomes visible in the (session_id, created_at) index.
Inserted(m) ==
    InsertAt(archive, Cardinality({i \in DOMAIN archive : archive[i].at <= m.at}) + 1, m)

\* insert_many stores the messages one after the other, and may fail half-way; the
\* failure is logged and the next task runs.
ArchiveNext(t) ==
    /\ at[t] = "archive"
    /\ \/ /\ record[t] # <<>>
          /\ archive' = Inserted(Head(record[t]))
          /\ record' = [record EXCEPT ![t] = Tail(@)]
          /\ UNCHANGED at
       \/ /\ record' = [record EXCEPT ![t] = <<>>]
          /\ Goto(t, "summary")
          /\ UNCHANGED archive
    /\ UNCHANGED <<doc, creator, clock, req, copy, view, load>>

\* No compression is due (or enabled), or its model fails; otherwise update_session_summary reads the
\* session by its id alone, and leaves it if it is gone.
FindForSummary(t) ==
    /\ at[t] = "summary"
    /\ \/ GoOn(t, "title")
       \/ /\ "summary" \in load.made
          /\ doc # None
          /\ MayHold(t)
          /\ copy' = [copy EXCEPT ![t] = [doc EXCEPT !.summary = clock]]
          /\ Goto(t, "saveSummary")
          /\ UNCHANGED <<req, record, view>>
    /\ KeepStores

SaveSummary(t) ==
    /\ at[t] = "saveSummary"
    /\ doc' = copy[t]
    /\ GoOn(t, "title")
    /\ UNCHANGED <<creator, archive, clock, load>>

NeedsTitle(session) == session.title = "New Chat"

\* auto_generate_title: the session by its id alone; if it is gone, get_session raises.
ReadTitle(t) ==
    /\ at[t] = "title"
    /\ IF "title" \in load.made /\ doc # None /\ NeedsTitle(doc)
       THEN /\ copy' = [copy EXCEPT ![t] = doc]
            /\ Goto(t, "generate")
            /\ UNCHANGED <<req, record, view>>
       ELSE Finish(t)
    /\ KeepStores

\* Mutant: the session read before the model was asked is saved.
GenerateAndSave(t) ==
    /\ at[t] = "generate"
    /\ MayHold(t)
    /\ copy' = [copy EXCEPT ![t].title = "generated"]
    /\ Goto(t, "save")
    /\ UNCHANGED <<req, record, view>>
    /\ KeepStores

\* The model answers, and rename_session reads the session again.
Generate(t) ==
    /\ at[t] = "generate"
    /\ GoOn(t, "find")
    /\ KeepStores

-----------------------------------------------------------------------------
(* A client reads the pages from the newest on, until one is empty.        *)

NextCall(t, seen, place) == view' = [view EXCEPT ![t] = seen] /\ Goto(t, place)

\* The response with the messages of a page: the client asks for the next page.
Respond(t, messages) ==
    IF messages = {} THEN NextCall(t, view[t], "seen")
    ELSE NextCall(t, [view[t] EXCEPT !.page = @ + 1, !.fetched = <<>>,
                                     !.shown = @ \cup messages], "check")

\* total_turns; a session without turns needs no further query.
CountTurns(t) ==
    /\ at[t] = "count"
    /\ IF UserMessages(archive) = <<>> THEN Respond(t, {}) ELSE NextCall(t, view[t], "users")
    /\ UNCHANGED <<req, copy, record>>
    /\ KeepStores

FetchUsers(t) ==
    LET v == view[t]
        fetched == Fetched(archive, v.page, v.size)
    IN
    /\ at[t] = "users"
    /\ IF PageUsers(fetched, v.page) = <<>>
       THEN Respond(t, {})
       ELSE NextCall(t, [v EXCEPT !.fetched = fetched], "window")
    /\ UNCHANGED <<req, copy, record>>
    /\ KeepStores

FetchWindow(t) ==
    /\ at[t] = "window"
    /\ Respond(t, ToSet(Window(archive, view[t].fetched, view[t].page)))
    /\ UNCHANGED <<req, copy, record>>
    /\ KeepStores

Close(t) == at[t] = "seen" /\ Finish(t) /\ KeepStores

\* A call fails, the client leaves before the answer ends, or the process restarts.
Abort(t) == Running(t) /\ Finish(t) /\ KeepStores

TaskStep(t) ==
    \/ \E op \in Ops, user \in Users : Begin(t, op, user)
    \/ Check(t) \/ CheckMessages(t) \/ Find(t) \/ Save(t) \/ Delete(t)
    \/ ReadAgent(t) \/ Ask(t) \/ Answer(t) \/ ArchiveNext(t) \/ FindForSummary(t)
    \/ SaveSummary(t) \/ ReadTitle(t) \/ Generate(t)
    \/ CountTurns(t) \/ FetchUsers(t) \/ FetchWindow(t) \/ Close(t) \/ Abort(t)

Next ==
    \/ \E user \in Users : Create(user)
    \/ \E t \in Tasks : TaskStep(t)

Spec == Init /\ [][Next]_vars

-----------------------------------------------------------------------------
(* Properties.                                                             *)

\* The task that takes the step.
Steps(t) == at'[t] # at[t] \/ record'[t] # record[t]

\* The document and the archive of a session are changed by the tasks of its creator only,
\* although the background of a turn reads the session by its id alone and archives without
\* reading it: the checks made when the turn began are all there is.
OnlyOwnerWrites ==
    [][<<doc, archive>>' # <<doc, archive>> /\ creator # None =>
           \A t \in Tasks : Steps(t) => req[t].user = creator]_vars

\* Two operations that do not overlap in this workload.
Apart(op1, op2) == ~({op1, op2} \subseteq load.together)

\* What each kind of save is about.
Own(t) ==
    CASE at[t] = "saveSummary" -> {"summary"}
      [] at[t] = "save" ->
           CASE req[t].op = "rename" -> {"title"}
             [] req[t].op = "pin" -> {"pinned"}
             [] req[t].op = "setAgent" -> {"agent"}
             [] req[t].op = "turn" -> {"title"}

\* While a turn's models write a summary and a title, requests change the session: no save
\* undoes what others changed or brings a deleted session back, provided no other save
\* falls between its own last read and its write.
NoUpdateUndone ==
    [][\A t \in Tasks :
           load.brief /\ at[t] \in {"save", "saveSummary"} /\ doc' # doc /\ at'[t] # at[t] =>
               /\ doc # None
               /\ \A field \in DOMAIN doc \ Own(t) : doc'[field] = doc[field]]_vars

\* A session that has messages keeps its agent (SESSION_AGENT_CHANGE_FORBIDDEN), unless its
\* first turn is under way while the agent is changed.
AgentStays ==
    [][Apart("setAgent", "turn") /\ archive # <<>> /\ doc # None /\ doc' # None
           => doc'.agent = doc.agent]_vars

\* Whoever scrolls until a page is empty is shown every message that was archived when they
\* began, whatever turns are archived between two pages or between the queries of one.
ScrollMissesNothing ==
    \A t \in Tasks : at[t] = "seen" => view[t].owed \subseteq view[t].shown

\* Read at one moment, the pages of any size put together are the archive: each message is
\* on one page, in its place, even when turns overlapped or were archived in part.
PagesPartition ==
    \A size \in PageSizes :
        LET n == PageCount(Len(UserMessages(archive)), size) IN
        FlattenSeq([i \in 1..n |-> Page(archive, n + 1 - i, size)]) = archive
=============================================================================
