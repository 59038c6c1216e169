----------------------------- MODULE WaitForest -----------------------------
(***************************************************************************)
(* graph.Build: the wait-for forest of one poll, from the sessions (each   *)
(* with the pids pg_blocking_pids gave for it, possibly repeated, possibly *)
(* of backends outside the session set) and the labels of a second, later  *)
(* query.  The two loops of Build range over Go maps, so they visit the    *)
(* pids in any order; what comes out must not depend on it.                *)
(***************************************************************************)
EXTENDS Integers, Sequences, FiniteSets, SequencesExt, Ordering

CONSTANTS Pids,       \* pids of backends
          MaxBlockers \* bound: length of a session's BlockedBy

ASSUME PidsAssumption == Pids \subseteq Nat /\ IsFiniteSet(Pids) /\ MaxBlockers \in Nat

VARIABLES
    at,         \* "none", then "edges" and "roots", Build's loops, then "built"
    blockedBy,  \* BlockedBy of every session; its domain is the session set
    labels,     \* the keys (waiter, blocker) of the labels map
    todo,       \* pids the current loop has still to visit
    edges,      \* edges so far
    isBlocker,  \* keys of the map isBlocker
    roots,      \* roots so far
    isRoot      \* sessions whose IsRoot is set

forestVars == <<at, blockedBy, labels, todo, edges, isBlocker, roots, isRoot>>

Sessions == DOMAIN blockedBy

Edge == [waiter : Pids, blocker : Pids, labelled : BOOLEAN]

\* BlockedBy of session p: no backend waits for itself.
Blockers(p) == BoundedSeq(Pids \ {p}, MaxBlockers)

ForestTypeOK == /\ at \in {"none", "edges", "roots", "built"}
                /\ Sessions \subseteq Pids /\ \A p \in Sessions : blockedBy[p] \in Blockers(p)
                /\ labels \subseteq Pids \X Pids
                /\ todo \subseteq Pids
                /\ edges \in Seq(Edge) /\ roots \in Seq(Pids)
                /\ isBlocker \subseteq Pids /\ isRoot \subseteq Sessions

\* What Build starts from.
NoForest == edges = << >> /\ isBlocker = {} /\ roots = << >> /\ isRoot = {}

\* Any result of the two queries.  The second may label pairs the first did not
\* report.
ForestInit == /\ \E S \in SUBSET Pids :
                    /\ blockedBy \in {f \in [S -> UNION {Blockers(p) : p \in S}] :
                                          \A p \in S : f[p] \in Blockers(p)}
                    /\ todo = S
              /\ labels \in SUBSET {k \in Pids \X Pids : k[1] # k[2]}
              /\ at = "edges"
              /\ NoForest

-----------------------------------------------------------------------------
(* Faulty variants, for the mutants of PROJECT.json *)

\* Only the blockers of labelled edges can be heads.
IsHeadLabelled(p) ==
    p \in Sessions /\ blockedBy[p] = << >> /\ \E q \in Pids : <<q, p>> \in labels

\* The label looked up by the waiter alone.
EdgesByWaiter(p) ==
    [i \in 1..Len(blockedBy[p]) |->
        [waiter |-> p, blocker |-> blockedBy[p][i], labelled |-> \E q \in Pids : <<p, q>> \in labels]]

-----------------------------------------------------------------------------
(* Build *)

\* The edges of one session, with the label of the pair where there is one.
EdgesOf(p) ==
    [i \in 1..Len(blockedBy[p]) |->
        [waiter |-> p, blocker |-> blockedBy[p][i],
         labelled |-> <<p, blockedBy[p][i]>> \in labels]]

\* A round of the loop over the sessions.
VisitSession(p) == /\ at = "edges" /\ p \in todo
                   /\ edges' = edges \o EdgesOf(p)
                   /\ isBlocker' = isBlocker \cup Range(blockedBy[p])
                   /\ todo' = todo \ {p}
                   /\ UNCHANGED <<at, blockedBy, labels, roots, isRoot>>

StartRoots == /\ at = "edges" /\ todo = {}
              /\ at' = "roots" /\ todo' = isBlocker
              /\ UNCHANGED <<blockedBy, labels, edges, isBlocker, roots, isRoot>>

\* Whether a blocker is a head blocker: in the session set and waiting for nobody.
IsHead(p) == p \in Sessions /\ blockedBy[p] = << >>

\* A round of the loop over isBlocker.
VisitBlocker(p) == /\ at = "roots" /\ p \in todo
                   /\ roots' = IF IsHead(p) THEN Append(roots, p) ELSE roots
                   /\ isRoot' = IF IsHead(p) THEN isRoot \cup {p} ELSE isRoot
                   /\ todo' = todo \ {p}
                   /\ UNCHANGED <<at, blockedBy, labels, edges, isBlocker>>

\* The order of the edges, and sort.Slice and sort.Ints at the end of Build.
Less(e, f) == \/ e.waiter < f.waiter
              \/ e.waiter = f.waiter /\ e.blocker < f.blocker
SortEdges(s) == Sorted(s, Less)
SortInts(s) == Sorted(s, <)

Finish == /\ at = "roots" /\ todo = {}
          /\ edges' = SortEdges(edges) /\ roots' = SortInts(roots)
          /\ at' = "built"
          /\ UNCHANGED <<blockedBy, labels, todo, isBlocker, isRoot>>

ForestNext == \/ StartRoots \/ Finish
              \/ \E p \in Pids : VisitSession(p) \/ VisitBlocker(p)

ForestSpec == ForestInit /\ [][ForestNext]_forestVars

-----------------------------------------------------------------------------
(* Properties *)

Confirmed == {k \in Pids \X Pids : k[1] \in Sessions /\ k[2] \in Range(blockedBy[k[1]])}

\* The edges are the pairs pg_blocking_pids confirmed, once per report, and carry
\* a label exactly if the second query had one for that pair: a label alone
\* never makes an edge.  Whatever order the maps were visited in, edges and roots
\* come out in the order of their pids.
EdgesAreConfirmed ==
    at = "built" =>
        /\ {<<edges[i].waiter, edges[i].blocker>> : i \in 1..Len(edges)} = Confirmed
        /\ \A k \in Confirmed :
              Cardinality({i \in 1..Len(edges) : edges[i].waiter = k[1] /\ edges[i].blocker = k[2]})
                  = Cardinality({i \in 1..Len(blockedBy[k[1]]) : blockedBy[k[1]][i] = k[2]})
        /\ \A i \in 1..Len(edges) :
              edges[i].labelled <=> <<edges[i].waiter, edges[i].blocker>> \in labels
        /\ \A i, j \in 1..Len(edges) : i < j => ~Less(edges[j], edges[i])
        /\ \A i, j \in 1..Len(roots) : i < j => roots[i] < roots[j]
        /\ Range(roots) = isRoot

\* The blockers of p, and all whom p waits for directly or through others: what is in
\* every set that has the blockers of p and those of its members.
BlockersOf(p) == {q \in Pids : <<p, q>> \in Confirmed}
Above(p) == {q \in Pids : \A C \in SUBSET Pids :
                BlockersOf(p) \cup UNION {BlockersOf(c) : c \in C} \subseteq C => q \in C}

\* Every waiter has a root above it, unless its blockers lead into a deadlock
\* cycle or to a backend outside the session set.  No root waits.
WaitersHaveRoots ==
    at = "built" =>
        LET offForest == {q \in Pids : q \in Above(q) \/ q \notin Sessions}
        IN  \A p \in Sessions : blockedBy[p] # << >> =>
                /\ p \notin Range(roots)
                /\ \E q \in Range(roots) \cup offForest : q \in Above(p)
=============================================================================
