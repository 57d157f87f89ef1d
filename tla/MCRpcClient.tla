--------------------------- MODULE MCRpcClient ---------------------------
(* Instances of RpcClient for TLC. *)
EXTENDS RpcClient

CONSTANTS s1, s2, r1, r2, dev, nobody

TwoServices == {s1, s2}
TwoRequests == {r1, r2}

\* Two instances of nobody, of which the second is drained, and one of a developer.
ThreeAddresses == 1..3
Owners == <<nobody, nobody, dev>>
SecondDrained == {2}

Listed(usable, unusable) ==
    [a \in ThreeAddresses |-> IF a \in usable THEN "usable"
                              ELSE IF a \in unusable THEN "unusable" ELSE "absent"]
All == Listed({1, 2, 3}, {})
OneLeft == Listed({1}, {2})
DevLeft == Listed({1, 3}, {})
NobodyLeft == Listed({}, {1, 2, 3})

Calls(service, ofUser, tag, strategy, lists) ==
    [service |-> [r \in TwoRequests |-> service[r]], ofUser |-> ofUser,
     tag |-> [r \in TwoRequests |-> tag[r]], strategy |-> strategy, lists |-> lists]
Both(x) == [r \in TwoRequests |-> x]
Each(x, y) == [r \in TwoRequests |-> IF r = r1 THEN x ELSE y]

\* Two requests to one service, with and without a developer, while its instances change;
\* in turn to the same instances; to two services that need the naming client; one of a user.
Day == {Calls(Both(s1), {}, Each(dev, nobody), "weighted_random", {All, OneLeft, NobodyLeft}),
        Calls(Both(s1), {}, Both(dev), "random", {All, OneLeft, DevLeft}),
        Calls(Each(s1, s2), {}, Both(nobody), "round_robin", {All}),
        Calls(Both(s1), {}, Both(nobody), "round_robin", {All}),
        Calls(Both(s1), {r2}, Each(dev, nobody), "round_robin", {All, DevLeft})}
=============================================================================
