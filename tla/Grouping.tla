------------------------------ MODULE Grouping ------------------------------
(***************************************************************************)
(* Records that share a key, or nearly a text, belong to one group         *)
(* (data/grouping.py).  A node is the position of a record in its list;    *)
(* keys[i] is the set of keys of node i, near a set of pairs of nodes.     *)
(***************************************************************************)
EXTENDS Naturals, FiniteSets, FiniteSetsExt

\* class Union: every node points to itself or to a smaller one.  The halving
\* of paths on the way changes no root.
Singletons(n) == [i \in 1..n |-> i]

Root(parents, i) ==
  LET up[j \in DOMAIN parents] == IF parents[j] = j THEN j ELSE up[parents[j]]
  IN up[i]

Join(parents, a, b) ==
  LET ends == {Root(parents, a), Root(parents, b)}
  IN [parents EXCEPT ![Max(ends)] = Min(ends)]

\* The inverted index: a key belongs to the first node that has it, and every
\* later node with it is joined to that one.
Owner(keys, k) == Min({i \in DOMAIN keys : k \in keys[i]})
KeyEdges(keys) == UNION {{<<i, Owner(keys, k)>> : k \in keys[i]} : i \in DOMAIN keys}

JoinEdge(e, parents) == Join(parents, e[1], e[2])

\* The root of every node once all edges are joined.
Grouped(keys, near) ==
  LET parents == FoldSet(JoinEdge, Singletons(Cardinality(DOMAIN keys)), KeyEdges(keys) \cup near)
  IN [i \in DOMAIN keys |-> Root(parents, i)]

\* validate_isolation: no key has owners in two splits.
Isolated(keys, split) ==
  \A i, j \in DOMAIN keys : keys[i] \cap keys[j] # {} => split[i] = split[j]

\* normalized_group_guard: what shares a normalized key with another group.
Bridges(normal, group) ==
  {i \in DOMAIN normal : \E j \in DOMAIN normal : normal[i] \cap normal[j] # {} /\ group[i] # group[j]}
=============================================================================
