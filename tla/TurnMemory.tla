---------------------------- MODULE TurnMemory ----------------------------
(***************************************************************************)
(* The short-term memory of one chat session: the Redis hot context, the   *)
(* Mongo message archive and the rolling summary kept on the session       *)
(* document, as they are read and written by the chat turns of that        *)
(* session.  A turn loads its context, streams an answer, and leaves the   *)
(* bookkeeping to a chain of background tasks; every step below ends at an *)
(* await of the code, so turns interleave between any two of them.         *)
(***************************************************************************)
EXTENDS Integers, Sequences, FiniteSets, SequencesExt

CONSTANTS
    Turns,          \* the chat requests made on the session
    Past,           \* owner of the messages archived before the model starts
    Policy,         \* AgentMemoryPolicy: [chat, summary, persist, longTerm]
    Loads           \* the loads to choose from

FaultKind == {"redisRead", "mongoRead", "redisRefill", "mem0", "run", "noUsage",
              "billing", "redisAppend", "mongoSave", "llm", "summarySave",
              "redisReload", "expire", "crash"}

\* The load and the settings a session runs under, fixed once it starts.
Load == [
    legacy   : Seq(Nat),            \* token_count of the messages archived before, oldest first
    replies  : SUBSET (Nat \ {0}),  \* how many messages a turn may record after the user's
    skills   : SUBSET BOOLEAN,      \* outcomes of skill matching
    length   : Nat \ {0},           \* append_messages: max_length (50)
    fallback : Nat \ {0},           \* CTX_FALLBACK_HISTORY_LIMIT (20)
    high     : Nat,                 \* int(prompt_budget_tokens * high_watermark_ratio)
    low      : Nat,                 \* int(prompt_budget_tokens * low_watermark_ratio)
    faults   : SUBSET FaultKind,    \* which calls to other systems may fail
    requests : Nat,                 \* bound: turns that are started
    active   : Nat \ {0}]           \* bound: turns in progress at the same time

ASSUME ConstantsAssumption ==
    /\ Past \notin Turns
    /\ Policy \in [chat : BOOLEAN, summary : BOOLEAN, persist : BOOLEAN, longTerm : BOOLEAN]
    /\ ~Policy.chat => ~Policy.summary /\ ~Policy.persist
    /\ Loads \subseteq Load

VARIABLES
    load,           \* the load and the settings
    hot,            \* the Redis list of the session; <<>> when the key is gone
    archive,        \* the chat_message documents, in (session_id, created_at) order
    summary,        \* current_summary and summary_updated_at of the session document
    memories,       \* turns whose messages reached long-term memory
    ledger,         \* per turn, what token billing did
    clock,          \* datetime.now()
    phase,          \* per turn, where handle_chat is
    history,        \* per turn, history_messages
    seen,           \* per turn, session_summary
    mark,           \* per turn, the timestamp it holds: the one to list after, or to write
    record,         \* per turn, chat_record_messages
    tasks           \* per turn, the background steps still to run

stores == <<hot, archive, summary, memories, ledger>>
locals == <<history, seen, mark, record, tasks>>
vars == <<load, hot, archive, summary, memories, ledger, clock, phase, history, seen, mark,
          record, tasks>>

(***************************************************************************)
(* Data.  A message is known by the turn it belongs to and its place in    *)
(* it; created_at is a tick of the clock, tokens is token_count or 0.      *)
(* A summary is the set of messages its text was generated from; stamp 0   *)
(* stands for no summary.                                                  *)
(***************************************************************************)
Message == [turn : Turns \cup {Past}, part : Nat, at : Nat, tokens : Nat]
Summary == [covers : SUBSET Message, stamp : Nat]
NoSummary == [covers |-> {}, stamp |-> 0]

Phase == {"idle", "redis", "session", "list", "refill", "facts", "summary", "scope",
          "run", "background", "failed"}
Task == {"bill", "append", "archive", "ingest", "summarize", "saveSummary", "reload"}

Legacy(tokens) == [i \in 1..Len(tokens) |->
                      [turn |-> Past, part |-> i, at |-> i, tokens |-> tokens[i]]]

\* The last n elements of a sequence: LTRIM key -n -1, and sort desc, limit n, reverse.
Newest(s, n) == IF Len(s) <= n THEN s ELSE SubSeq(s, Len(s) - n + 1, Len(s))

\* Rank of a document in the created_at index, and its insertion there.
Before(s, at) == Cardinality({i \in DOMAIN s : s[i].at <= at})
Insert(s, m) == InsertAt(s, Before(s, m.at) + 1, m)

\* Mutant: the limit applied to the ascending order, so the oldest are listed.
ListOldest(s, after, limit) ==
    LET later == SubSeq(s, Before(s, after) + 1, Len(s)) IN
    IF Len(later) <= limit THEN later ELSE SubSeq(later, 1, limit)

\* list_session_messages(after, limit): created_at > after, the newest limit, oldest first.
ListAfter(s, after, limit) == Newest(SubSeq(s, Before(s, after) + 1, Len(s)), limit)

\* The compression window: walking back from the newest message, those up to which
\* the running total stays within the low budget are kept; the others are candidates.
TokensFrom(h, i) == FoldLeft(LAMBDA sum, m : sum + m.tokens, 0, SubSeq(h, i, Len(h)))
CandidateCount(h) == Cardinality({i \in DOMAIN h : TokensFrom(h, i) > load.low})
Candidates(h) == SubSeq(h, 1, CandidateCount(h))
Keep(h) == SubSeq(h, CandidateCount(h) + 1, Len(h))
NeedsCompression(h) == TokensFrom(h, 1) >= load.high

\* A message built by the orchestration; no code computes its token_count.
NewMessage(t, part, at) == [turn |-> t, part |-> part, at |-> at, tokens |-> 0]

\* Mutants: the archive written before the hot context; billing as the last step.
PlanArchiveFirst(h) ==
    <<"bill", "archive", "append", "ingest">>
    \o (IF Policy.summary /\ NeedsCompression(h) THEN <<"summarize">> ELSE <<>>)
PlanBillLast(h) == <<"append", "archive", "ingest", "bill">>

\* The steps finalize registers for a turn whose history was h; persist_messages is
\* its three independently guarded parts.
Plan(h) == <<"bill">>
           \o (IF Policy.chat THEN <<"append">> ELSE <<>>)
           \o (IF Policy.persist THEN <<"archive">> ELSE <<>>)
           \o (IF Policy.longTerm THEN <<"ingest">> ELSE <<>>)
           \o (IF Policy.summary /\ NeedsCompression(h) THEN <<"summarize">> ELSE <<>>)

Settled(t) == phase[t] \in {"idle", "failed"} \/ (phase[t] = "background" /\ tasks[t] = <<>>)
Active == {t \in Turns : ~Settled(t)}
Started == {t \in Turns : phase[t] # "idle"}
May(fault) == fault \in load.faults

Init ==
    /\ load \in Loads
    /\ hot \in {<<>>, Newest(Legacy(load.legacy), load.length)}
    /\ archive = Legacy(load.legacy)
    /\ summary = NoSummary
    /\ memories = {}
    /\ ledger = [t \in Turns |-> "open"]
    /\ clock = Len(load.legacy)
    /\ phase = [t \in Turns |-> "idle"]
    /\ history = [t \in Turns |-> <<>>]
    /\ seen = [t \in Turns |-> NoSummary]
    /\ mark = [t \in Turns |-> 0]
    /\ record = [t \in Turns |-> <<>>]
    /\ tasks = [t \in Turns |-> <<>>]

-----------------------------------------------------------------------------
(* Loading the context of a turn.                                          *)

From(t, p) == phase[t] = p
To(t, p) == phase' = [phase EXCEPT ![t] = p]

\* A chat request arrives.
Start(t) ==
    /\ From(t, "idle")
    /\ Cardinality(Active) < load.active
    /\ Cardinality(Started) < load.requests
    /\ To(t, IF Policy.chat THEN "redis" ELSE "facts")
    /\ UNCHANGED <<stores, locals, clock>>

\* get_recent_context: an empty list and a failed read both lead to the archive.
ReadHot(t) ==
    /\ From(t, "redis")
    /\ \/ /\ hot # <<>>
          /\ history' = [history EXCEPT ![t] = hot]
          /\ To(t, "facts")
       \/ /\ hot = <<>> \/ May("redisRead")
          /\ To(t, "session")
          /\ UNCHANGED history
    /\ UNCHANGED <<stores, clock, seen, mark, record, tasks>>

\* Mutant: the message created at the timestamp itself is to be listed too.
ReadStampBefore(t) ==
    /\ From(t, "session")
    /\ mark' = [mark EXCEPT ![t] = summary.stamp - 1]
    /\ To(t, "list")
    /\ UNCHANGED <<stores, clock, history, seen, record, tasks>>

\* get_session: the summary timestamp to list after.
ReadStamp(t) ==
    /\ From(t, "session")
    /\ \/ /\ mark' = [mark EXCEPT ![t] = summary.stamp]
          /\ To(t, "list")
       \/ /\ May("mongoRead")
          /\ To(t, "facts")
          /\ UNCHANGED mark
    /\ UNCHANGED <<stores, clock, history, seen, record, tasks>>

\* list_session_messages.
ListArchive(t) ==
    /\ From(t, "list")
    /\ \/ LET listed == ListAfter(archive, mark[t], load.fallback) IN
          /\ history' = [history EXCEPT ![t] = listed]
          /\ To(t, IF listed = <<>> THEN "facts" ELSE "refill")
       \/ /\ May("mongoRead")
          /\ To(t, "facts")
          /\ UNCHANGED history
    /\ UNCHANGED <<stores, clock, seen, mark, record, tasks>>

\* load_messages: the list replaces whatever the key holds by now; when Redis fails
\* the turn goes on with the empty list of its first read.
Refill(t) ==
    /\ From(t, "refill")
    /\ \/ /\ hot' = history[t]
          /\ UNCHANGED history
       \/ /\ May("redisRefill")
          /\ history' = [history EXCEPT ![t] = <<>>]
          /\ UNCHANGED hot
    /\ To(t, "facts")
    /\ UNCHANGED <<archive, summary, memories, ledger, clock, seen, mark, record, tasks>>

\* memory.search, whose adapter turns every failure into an answer without facts.
SearchMemory(t) ==
    /\ From(t, "facts")
    /\ To(t, IF Policy.summary THEN "summary" ELSE "scope")
    /\ UNCHANGED <<stores, locals, clock>>

\* _get_session_summary: a second read of the session document; a failure is no summary.
ReadSummary(t) ==
    /\ From(t, "summary")
    /\ \/ seen' = [seen EXCEPT ![t] = summary]
       \/ May("mongoRead") /\ UNCHANGED seen
    /\ To(t, "scope")
    /\ UNCHANGED <<stores, clock, history, mark, record, tasks>>

\* ToolScopeProvider.resolve: with a summary the session tools are added to the set of
\* exposed names, which only exists when a skill matched; otherwise the turn dies on it.
\* Then the strategy seeds the record with the user's message.
ResolveTools(t) ==
    /\ From(t, "scope")
    /\ \E skills \in load.skills :
          IF seen[t].stamp # 0 /\ ~skills
          THEN To(t, "failed") /\ UNCHANGED <<record, clock>>
          ELSE /\ clock' = clock + 1
               /\ record' = [record EXCEPT ![t] = <<NewMessage(t, 1, clock')>>]
               /\ To(t, "run")
    /\ UNCHANGED <<stores, history, seen, mark, tasks>>

\* The strategy records the messages of the answer one after the other, as they are made.
Answer(t) ==
    /\ From(t, "run")
    /\ \E n \in load.replies : Len(record[t]) <= n
    /\ clock' = clock + 1
    /\ record' = [record EXCEPT ![t] = Append(@, NewMessage(t, Len(@) + 1, clock'))]
    /\ UNCHANGED <<stores, phase, history, seen, mark, tasks>>

\* The strategy ends: finalize registers the background steps.  An error of the stream,
\* or the client leaving, ends the turn before finalize and its record is dropped.
FinishRun(t) ==
    /\ From(t, "run")
    /\ Len(record[t]) - 1 \in load.replies
    /\ tasks' = [tasks EXCEPT ![t] = Plan(history[t])]
    /\ To(t, "background")
    /\ UNCHANGED <<stores, clock, history, seen, mark, record>>

FailRun(t) ==
    /\ From(t, "run")
    /\ May("run")
    /\ To(t, "failed")
    /\ UNCHANGED <<stores, locals, clock>>

-----------------------------------------------------------------------------
(* The background steps of a turn, run one after the other.                *)

Doing(t, task) == From(t, "background") /\ tasks[t] # <<>> /\ Head(tasks[t]) = task
Pop(t) == tasks' = [tasks EXCEPT ![t] = Tail(@)]

\* send_token_billing: nothing to bill, billed, or an exception that nobody catches
\* and that ends the whole chain.
Bill(t) ==
    /\ Doing(t, "bill")
    /\ \/ ledger' = [ledger EXCEPT ![t] = "charged"] /\ Pop(t)
       \/ May("noUsage") /\ ledger' = [ledger EXCEPT ![t] = "free"] /\ Pop(t)
       \/ May("billing") /\ tasks' = [tasks EXCEPT ![t] = <<>>] /\ UNCHANGED ledger
    /\ UNCHANGED <<hot, archive, summary, memories, clock, phase, history, seen, mark, record>>

\* Mutant: a failing append is not caught and ends the chain.
AppendUnguarded(t) ==
    /\ Doing(t, "append")
    /\ \/ hot' = Newest(hot \o record[t], load.length) /\ Pop(t)
       \/ May("redisAppend") /\ tasks' = [tasks EXCEPT ![t] = <<>>] /\ UNCHANGED hot
    /\ UNCHANGED <<archive, summary, memories, ledger, clock, phase, history, seen, mark, record>>

\* append_messages: RPUSH, LTRIM and EXPIRE in one transaction.
AppendHot(t) ==
    /\ Doing(t, "append")
    /\ \/ hot' = Newest(hot \o record[t], load.length)
       \/ May("redisAppend") /\ UNCHANGED hot
    /\ Pop(t)
    /\ UNCHANGED <<archive, summary, memories, ledger, clock, phase, history, seen, mark, record>>

\* save_messages: insert_many stores the documents one by one, in order; readers may
\* come in between, and a failure leaves the first ones in place.
Archive(t) ==
    /\ Doing(t, "archive")
    /\ \/ \E i \in DOMAIN record[t] :
             /\ record[t][i] \notin ToSet(archive)
             /\ \A j \in 1..(i - 1) : record[t][j] \in ToSet(archive)
             /\ archive' = Insert(archive, record[t][i])
             /\ IF i = Len(record[t]) THEN Pop(t) ELSE UNCHANGED tasks
       \/ May("mongoSave") /\ Pop(t) /\ UNCHANGED archive
    /\ UNCHANGED <<hot, summary, memories, ledger, clock, phase, history, seen, mark, record>>

\* add_interaction.
Ingest(t) ==
    /\ Doing(t, "ingest")
    /\ \/ memories' = memories \cup {t}
       \/ May("mem0") /\ UNCHANGED memories
    /\ Pop(t)
    /\ UNCHANGED <<hot, archive, summary, ledger, clock, phase, history, seen, mark, record>>

\* summarize_and_compress: the model answers and the time is taken, or it fails or
\* answers blank and nothing more is done.
Summarize(t) ==
    /\ Doing(t, "summarize")
    /\ \/ /\ clock' = clock + 1
          /\ mark' = [mark EXCEPT ![t] = clock']
          /\ tasks' = [tasks EXCEPT ![t] = <<"saveSummary", "reload">>]
       \/ May("llm") /\ Pop(t) /\ UNCHANGED <<clock, mark>>
    /\ UNCHANGED <<stores, phase, history, seen, record>>

\* Mutant: the existing summary is left out of the prompt.
SaveFreshSummary(t) ==
    /\ Doing(t, "saveSummary")
    /\ summary' = [covers |-> ToSet(Candidates(history[t])), stamp |-> mark[t]]
    /\ Pop(t)
    /\ UNCHANGED <<hot, archive, memories, ledger, clock, phase, history, seen, mark, record>>

\* update_session_summary.
SaveSummary(t) ==
    /\ Doing(t, "saveSummary")
    /\ \/ summary' = [covers |-> seen[t].covers \cup ToSet(Candidates(history[t])),
                      stamp |-> mark[t]]
       \/ May("summarySave") /\ UNCHANGED summary
    /\ Pop(t)
    /\ UNCHANGED <<hot, archive, memories, ledger, clock, phase, history, seen, mark, record>>

\* Mutant: the turn's own messages are left out of the reload.
ReloadKept(t) ==
    /\ Doing(t, "reload")
    /\ hot' = Keep(history[t])
    /\ Pop(t)
    /\ UNCHANGED <<archive, summary, memories, ledger, clock, phase, history, seen, mark, record>>

\* load_messages(messages_keep + chat_record_messages): replaces the key, without a trim.
Reload(t) ==
    /\ Doing(t, "reload")
    /\ \/ hot' = Keep(history[t]) \o record[t]
       \/ May("redisReload") /\ UNCHANGED hot
    /\ Pop(t)
    /\ UNCHANGED <<archive, summary, memories, ledger, clock, phase, history, seen, mark, record>>

-----------------------------------------------------------------------------
(* The environment.                                                        *)

\* The 24 hours of the key are over.
Expire ==
    /\ May("expire")
    /\ hot # <<>>
    /\ hot' = <<>>
    /\ UNCHANGED <<archive, summary, memories, ledger, clock, phase, locals>>

\* The process dies: turns being answered are gone, and so are the tasks not yet run.
Crash ==
    /\ May("crash")
    /\ Active # {}
    /\ phase' = [t \in Turns |->
                    IF t \in Active /\ phase[t] # "background" THEN "failed" ELSE phase[t]]
    /\ tasks' = [t \in Turns |-> <<>>]
    /\ UNCHANGED <<stores, clock, history, seen, mark, record>>

-----------------------------------------------------------------------------
LoadContext(t) ==
           \/ ReadHot(t) \/ ReadStamp(t) \/ ListArchive(t) \/ Refill(t)
           \/ SearchMemory(t) \/ ReadSummary(t) \/ ResolveTools(t)
Background(t) == \/ Bill(t) \/ AppendHot(t) \/ Archive(t) \/ Ingest(t)
                 \/ Summarize(t) \/ SaveSummary(t) \/ Reload(t)
Step(t) == LoadContext(t) \/ Answer(t) \/ FinishRun(t) \/ FailRun(t) \/ Background(t)

Next == /\ \/ \E t \in Turns : Start(t) \/ Step(t)
           \/ Expire
           \/ Crash
        /\ UNCHANGED load

Spec == Init /\ [][Next]_vars

\* The event loop runs every turn that can go on; nobody has to send a request.
FairSpec == Spec /\ \A t \in Turns : WF_vars(Step(t) /\ UNCHANGED load)
-----------------------------------------------------------------------------
(* Properties.                                                             *)

\* Every variable keeps its type.
TypeOK ==
    /\ load \in Load
    /\ hot \in Seq(Message)
    /\ archive \in Seq(Message)
    /\ summary \in Summary
    /\ memories \subseteq Turns
    /\ ledger \in [Turns -> {"open", "free", "charged"}]
    /\ clock \in Nat
    /\ phase \in [Turns -> Phase]
    /\ history \in [Turns -> Seq(Message)]
    /\ seen \in [Turns -> Summary]
    /\ mark \in [Turns -> Nat]
    /\ record \in [Turns -> Seq(Message)]
    /\ tasks \in [Turns -> Seq(Task)]

\* The messages some turn can read, or already holds.
Exposed == ToSet(hot) \cup ToSet(archive) \cup summary.covers
           \cup UNION {ToSet(history[u]) \cup seen[u].covers : u \in Turns}
Visible(t) == \E m \in Exposed : m.turn = t

\* A turn shows nothing of itself before its append_messages: whatever fails, expires or
\* overlaps, no other turn is prompted with a message whose turn may still fail.
ShownByAppend ==
    \A t \in Turns :
        phase[t] # "background" \/ "append" \in ToSet(tasks[t]) => ~Visible(t)

\* Billing comes first in the background chain: what a turn leaves in Redis, Mongo,
\* the summary or long-term memory has been billed (or had no usage to bill), so an
\* answer is never kept for free because a step of the chain failed.
BilledBeforeKept ==
    \A t \in Turns : Visible(t) \/ t \in memories => ledger[t] # "open"

\* No list of messages ever holds one twice: neither the hot context, nor the archive,
\* nor the history a turn is prompted with, although a refill from Mongo, an append and a
\* reload after compression by several turns may come in any order.
NoMessageTwice ==
    \A q \in {hot, archive} \cup {history[t] : t \in Turns} : IsInjective(q)

\* Turns do not overlap.
OneByOne == load.active = 1

\* The key lives on and the session's messages and summary are read and written without a
\* failure; the rest may fail, and the process may die.
StoresHold ==
    load.faults \subseteq {"redisReload", "mem0", "run", "noUsage", "billing", "llm", "crash"}

\* No list was cut: the messages from before fit a refill, and those of the session the list.
Messages == ToSet(archive) \cup UNION {ToSet(record[t]) : t \in Turns}
Uncut == Len(load.legacy) <= load.fallback /\ Cardinality(Messages) <= load.length

\* Compression forgets nothing: when turns do not overlap and the stores hold, every archived
\* message is in the hot context or covered by the summary, until a list is cut.
NothingForgotten ==
    OneByOne /\ StoresHold /\ Uncut /\ hot # <<>> =>
        ToSet(archive) \subseteq ToSet(hot) \cup summary.covers

\* The messages of t that are in the hot context but not in the archive yet: documents are
\* stored in order, so these are the last of its record.
Saved(t) == {i \in DOMAIN record[t] : record[t][i] \in ToSet(archive)}
Rest(t) == SubSeq(record[t], Cardinality(Saved(t)) + 1, Len(record[t]))
Unsaved(t) == IF "archive" \in ToSet(tasks[t]) /\ "append" \notin ToSet(tasks[t])
              THEN Rest(t) ELSE <<>>

\* What a turn says is written to both stores.
BothWritten ==
    Policy.persist /\ load.faults \cap {"redisAppend", "mongoSave", "crash"} = {}

\* When turns do not overlap and their messages are written to both stores, the hot context
\* is a gapless tail of the conversation, in the order of the archive: no refill, trim, expiry
\* or compression leaves a hole in what the model is shown.
HotIsTailOfArchive ==
    OneByOne /\ BothWritten =>
      \A t \in Turns :
        Active \subseteq {t} => IsSuffix(hot, archive \o Unsaved(t))

\* When turns do not overlap and the stores hold, the summary never covers less than before and
\* its timestamp never moves back, so a later refill is not given what it already covers.
CoverageGrows ==
    [][OneByOne /\ StoresHold =>
           summary.covers \subseteq summary'.covers /\ summary.stamp <= summary'.stamp]_vars

\* A turn whose answer was streamed gets its messages into Mongo, although Redis,
\* long-term memory or the summary model fail.
StreamedIsArchived ==
    \A t \in Turns :
        phase[t] = "background" ~> ToSet(record[t]) \subseteq ToSet(archive)

-----------------------------------------------------------------------------
(* What the documentation says and the code does not do.                   *)

\* context_provider.py: when the cache is gone the most recent messages that are not
\* compressed are read back from Mongo.
RefillIsUncompressed ==
    [][\A t \in Turns :
          phase[t] = "list" /\ phase'[t] # "list" =>
              history'[t] = Newest(SelectSeq(archive, LAMBDA m : m \notin summary.covers),
                                   load.fallback)]_vars

\* tool_scope_provider.py: a turn with a summary is given the session tools, and so
\* gets as far as the model.
SummaryUnlocksSessionTools ==
    [][\A t \in Turns :
          phase[t] = "scope" /\ seen[t].stamp # 0 => phase'[t] \in {"scope", "run"}]_vars
=============================================================================
