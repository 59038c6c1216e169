------------------------------- MODULE Ingest -------------------------------
(***************************************************************************)
(* pollOnce from the database to the forest: what Client.Snapshot has read *)
(* of the lock table (LockQueries) is handed to graph.Build (WaitForest),  *)
(* and some time later the next poll starts over.                          *)
(***************************************************************************)
EXTENDS LockQueries, WaitForest

ASSUME BackendsHavePids == Backends \subseteq Pids

ingestVars == <<lockVars, forestVars>>

NoBuild == at = "none" /\ blockedBy = Empty /\ labels = {} /\ todo = {} /\ NoForest

IngestInit == LockInit /\ NoBuild

\* Build is called with what Snapshot returned.
HandOver == /\ step = "done" /\ at = "none" /\ at' = "edges"
            /\ blockedBy' = sessions /\ todo' = Clients
            /\ labels' = {<<r.waiter, r.blocker>> : r \in labelRows}
            /\ UNCHANGED <<edges, isBlocker, roots, isRoot>>

NextPoll == /\ at = "built" /\ at' = "none"
            /\ blockedBy' = Empty /\ labels' = {} /\ todo' = {}
            /\ edges' = << >> /\ isBlocker' = {} /\ roots' = << >> /\ isRoot' = {}

\* The lock table changes while the forest is built, too, but nothing reads it then.
Reading == at = "none" /\ LockNext /\ UNCHANGED forestVars
Building == (HandOver \/ ForestNext \/ NextPoll) /\ UNCHANGED lockVars

IngestNext == Reading \/ Building

IngestSpec == IngestInit /\ [][IngestNext]_ingestVars

-----------------------------------------------------------------------------
(* Properties *)

\* queries.go:96: the hot objects and the forest are two views of the same waits.  If the
\* lock table stood still while it was read, the forest has an edge from every waiting
\* session to each of its blockers, a session without an edge does not wait, and the
\* roots are the sessions that block and do not wait.  The hot objects list exactly the
\* waits for a relation, each once and the relation with the most first; who waits for
\* a transaction, as for a row that another has updated, has an edge and is not listed.
ViewsAgree ==
    at = "built" /\ Quiet =>
        LET hot == HotObjects
            waiters == {p \in Backends : Waits(p)}
            heads == (UNION {Blocking(w) : w \in Clients}) \ waiters
            onRelation == {l \in Waiting : RelationOf[l.object] # NoRelation}
            atRelation(g) == {l.pid : l \in {k \in onRelation : RelationOf[k.object] = g.object}}
        IN  /\ {<<e.waiter, e.blocker>> : e \in Range(edges)} =
                   {x \in Clients \X Backends : x[2] \in Blocking(x[1])}
            /\ {e.waiter : e \in Range(edges)} = Clients \cap waiters
            /\ Range(roots) = heads \cap Clients
            /\ UNION {atRelation(g) : g \in Range(hot)} = {l.pid : l \in onRelation}
            /\ \A g \in Range(hot) : g.waiters = Cardinality(atRelation(g))
            /\ \A a, b \in 1..Len(hot) : a < b => hot[a].waiters >= hot[b].waiters
=============================================================================
