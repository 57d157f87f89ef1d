--------------------------- MODULE MCTurnMemory ---------------------------
(* Instances of TurnMemory for TLC. *)
EXTENDS TurnMemory, TLC

CONSTANTS t1, t2, t3, past

FullPolicy == [chat |-> TRUE, summary |-> TRUE, persist |-> TRUE, longTerm |-> TRUE]

TwoTurns == {t1, t2}
ThreeTurns == {t1, t2, t3}
TurnSymmetry == Permutations(Turns)

\* Two turns, one after the other, nothing fails: three archived messages, of which the
\* budgets compress two.
Plain == [legacy |-> <<1, 2, 2>>, replies |-> {1}, skills |-> {TRUE}, length |-> 6,
          fallback |-> 4, high |-> 4, low |-> 2, faults |-> {}, requests |-> 2, active |-> 1]

\* Two overlapping turns; every call may fail, the key expire and the process die.
Overlapping == [Plain EXCEPT !.skills = {TRUE, FALSE}, !.faults = FaultKind, !.active = 2]

\* Three turns one after the other.  What touches the list may fail but for the two writes
\* that carry the messages, and the key may expire; the list is trimmed and refills are cut.
Trimming == [Plain EXCEPT !.replies = {1, 2}, !.length = 4, !.fallback = 3, !.requests = 3,
                          !.faults = FaultKind \ {"redisAppend", "mongoSave", "crash",
                                                  "mem0", "noUsage"}]

\* Three turns one after the other, each of which compresses (the watermarks are equal); the
\* stores hold, but the process may die between any two steps.
Compressing == [Plain EXCEPT !.length = 9, !.high = 2, !.requests = 3,
                             !.faults = {"redisReload", "mem0", "run", "noUsage", "billing",
                                         "llm", "crash"}]

\* Two overlapping turns; Redis, long-term memory, the summary model and reads may fail for
\* ever, Mongo's writes and billing may not, and the process lives.
Lasting == [Plain EXCEPT !.legacy = <<1, 1>>, !.high = 2, !.low = 1, !.active = 2,
                         !.faults = {"redisRead", "mongoRead", "redisRefill", "mem0", "run",
                                     "redisAppend", "llm", "redisReload", "expire"}]

Days == {Overlapping, Trimming, Compressing}
LastingOnly == {Lasting}
ExpiringOnly == {[Plain EXCEPT !.faults = {"expire"}]}
UnskilledOnly == {[Plain EXCEPT !.skills = {TRUE, FALSE}]}
=============================================================================
