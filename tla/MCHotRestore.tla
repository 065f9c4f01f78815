---------------------------- MODULE MCHotRestore ----------------------------
EXTENDS HotRestore

CONSTANTS o1, o2, c1, c2, w1, w2

MCOps == {o1, o2}
MCConfigs == {c1, c2}
MCWorlds == {w1, w2}
\* Operations, configurations and worlds are alike: the first operation may take the first
\* of each, and has the job that comes first in this order.  For two worlds it is the same
\* whether they belong to one configuration or two.
Rank(j) == CASE j.kind = "backup" -> 0 [] j.kind = "user" -> 1 [] j.kind = "command" -> 2
Order(j) == 2 * Rank(j) + IF j.safe THEN 1 ELSE 0

MCDemands ==
    {d \in [MCOps -> Jobs] :
        /\ d[o1].config = c1 /\ d[o1].world = w1 /\ Order(d[o1]) <= Order(d[o2])
        /\ d[o2].world = w2 => d[o2].config = c1}

=============================================================================
