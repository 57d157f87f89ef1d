--------------------------- MODULE MCSkillAssets ---------------------------
(* Instances of SkillAssets for TLC. *)
EXTENDS SkillAssets

CONSTANTS c1, c2, c3, s1, s2, o1, o2

ThreeCalls == {c1, c2, c3}
TwoSkills == {s1, s2}
TwoObjects == {o1, o2}

Files(skillMd, asset) == [p \in Path |-> IF p = "SKILL.md" THEN skillMd ELSE asset]
Want(s, p) == [skill |-> s, path |-> p]
All(want) == [c \in Calls |-> want]

\* Shared: three calls of the same object.  Mixed: calls of two objects and of one that is
\* not declared.  Denied: skills that are not matched, not granted, or corrupted.
Shared == [wants |-> All(Want(s1, "SKILL.md")), allowed |-> {s1}, viewable |-> {s1},
           manifest |-> [s \in Skills |-> Files(o1, o2)],
           binary |-> {}, malformed |-> {}, ttl |-> 1, interval |-> 1, days |-> 4, restarts |-> 1, faults |-> FaultKind]
Mixed == [Shared EXCEPT !.wants = [@ EXCEPT ![c2] = Want(s1, "asset"), ![c3] = Want(s2, "asset")],
                        !.allowed = Skills, !.viewable = Skills,
                        !.manifest = [@ EXCEPT ![s2] = Files(o1, "none")]]
Denied == [Mixed EXCEPT !.wants = [@ EXCEPT ![c2] = Want(s2, "SKILL.md")],
                        !.viewable = {s1}, !.binary = {o1},
                        !.manifest = [@ EXCEPT ![s1] = Files("blank", o1)]]
Unmatched == [Shared EXCEPT !.allowed = {s2}, !.malformed = {c1}]

CacheLoads == {Shared, Mixed, Denied, Unmatched}
=============================================================================
