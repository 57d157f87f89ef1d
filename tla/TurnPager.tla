------------------------------ MODULE TurnPager ------------------------------
(***************************************************************************)
(* The pages of a session's archived messages.  A page is `size' turns,    *)
(* page 1 the newest; it is cut out of the archive by time, between two    *)
(* user messages, with three queries that each see the archive of their    *)
(* own moment.                                                             *)
(*                                                                         *)
(* An archive is a sequence of messages in the order of created_at; part 1 *)
(* of a turn is the user's message.  System messages are never archived.   *)
(***************************************************************************)
EXTENDS Lists, SequencesExt

\* The user messages, newest first: the anchors of the turns.
UserMessages(archive) == Reverse(At(archive, {i \in DOMAIN archive : archive[i].part = 1}))

\* .skip(n).limit(k)
Slice(s, n, k) ==
    SubSeq(s, n + 1, IF n + k <= Len(s) THEN n + k ELSE Len(s))

\* Mutant: the newer user message that ends the page is not fetched.
FetchSkipAll(page, size) == (page - 1) * size

\* After page 1 one user message more is fetched, the oldest of the page before.
FetchSkip(page, size) == IF page > 1 THEN (page - 1) * size - 1 ELSE 0
FetchLimit(page, size) == IF page > 1 THEN size + 1 ELSE size

Fetched(archive, page, size) ==
    Slice(UserMessages(archive), FetchSkip(page, size), FetchLimit(page, size))

PageUsers(fetched, page) == IF page > 1 /\ fetched # <<>> THEN Tail(fetched) ELSE fetched

\* Mutant: the end of the page belongs to it.
InWindowClosed(m, fetched, page) ==
    /\ m.at >= Last(fetched).at
    /\ page > 1 => m.at <= Head(fetched).at

InWindow(m, fetched, page) ==
    /\ m.at >= Last(fetched).at
    /\ page > 1 => m.at < Head(fetched).at

\* The messages of the page whose user messages were fetched.
Window(archive, fetched, page) ==
    IF PageUsers(fetched, page) = <<>> THEN <<>>
    ELSE At(archive, {i \in DOMAIN archive : InWindow(archive[i], fetched, page)})

\* total_page of PageResult: -(-total // size).
PageCount(total, size) == (total + size - 1) \div size

\* A page all of whose queries see the same archive.
Page(archive, page, size) == Window(archive, Fetched(archive, page, size), page)
=============================================================================
