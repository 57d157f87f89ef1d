------------------------------- MODULE Lists --------------------------------
(***************************************************************************)
(* Picking elements of a sequence by their places.  The code does it with  *)
(* list comprehensions and with queries that filter and sort.              *)
(***************************************************************************)
EXTENDS Naturals, Sequences

\* The members of I up to n, the smallest first.
InOrder(I, n) ==
    LET upTo[k \in 0..n] == IF k = 0 THEN <<>>
                            ELSE IF k \in I THEN Append(upTo[k - 1], k) ELSE upTo[k - 1]
    IN upTo[n]

\* The elements of s at the places of I.
At(s, I) == LET places == InOrder(I, Len(s)) IN [k \in DOMAIN places |-> s[places[k]]]
=============================================================================
