-------------------------- MODULE MCModelRegistry --------------------------
(* An instance of ModelRegistry for TLC. *)
EXTENDS ModelRegistry, TLC

CONSTANTS m1, p1, p2, p3, r1, r2

OneModel == {m1}
ThreeProviders == {p1, p2, p3}
TwoRequests == {r1, r2}

\* Everything but chats, one request at a time; mappings written by anyone at any time; models and
\* providers changed and deleted at any time, mappings one at a time; chats that overlap
\* each other and the deletions, other writes one at a time; mappings and updates at any time, deletions alone.
Day == {[offered |-> Ops \ {"chat"}, together |-> {}, size |-> 3],
        [offered |-> {"bind", "unbind", "deleteModel"},
         together |-> {"bind", "unbind", "deleteModel"}, size |-> 2],
        [offered |-> Ops \ {"chat"},
         together |-> {"deleteModel", "removeProvider", "updateModel", "updateProvider"}, size |-> 2],
        [offered |-> {"bind", "deleteModel", "removeProvider", "updateProvider", "chat"},
         together |-> {"deleteModel", "removeProvider", "chat"}, size |-> 2],
        [offered |-> {"bind", "unbind", "updateProvider", "removeProvider"},
         together |-> {"bind", "unbind", "updateProvider"}, size |-> 2]}

RegistrySymmetry == Permutations(ThreeProviders) \cup Permutations(TwoRequests)
=============================================================================
