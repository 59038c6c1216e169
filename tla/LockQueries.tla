---------------------------- MODULE LockQueries ----------------------------
(***************************************************************************)
(* The queries of the PostgreSQL client against a lock table that changes  *)
(* under them: Client.Snapshot, which reads the sessions with their        *)
(* blockers row by row and, in a second statement, the labels of the edges *)
(* by a join of pg_locks with itself; and the ranking of HotObjects.       *)
(*                                                                         *)
(* The lock table stands for PostgreSQL: who holds what, and who waits for *)
(* what in which order.  An object is a relation, a part of one, or none   *)
(* of a relation: the transaction that a session waits for when it wants a *)
(* row another one has updated.                                            *)
(***************************************************************************)
EXTENDS Integers, Sequences, FiniteSets, SequencesExt, Ordering

CONSTANTS Backends,   \* pids of the cluster's backends
          Clients,    \* those in the session set: client backends but the poll's own
          Objects,    \* what can be locked
          Relations,  \* the relations
          NoRelation, \* NULL
          RelationOf, \* pg_locks.relation of every object
          Modes,      \* lock modes
          Conflicts,  \* pairs of modes that conflict
          MaxLocks,   \* bound: rows of pg_locks
          MaxChanges  \* bound: changes of the lock table during a poll

ASSUME LocksAssumption ==
    /\ Backends \subseteq Nat /\ IsFiniteSet(Backends) /\ Clients \subseteq Backends
    /\ IsFiniteSet(Objects) /\ MaxChanges \in Nat
    /\ IsFiniteSet(Relations) /\ NoRelation \notin Relations
    /\ RelationOf \in [Objects -> Relations \cup {NoRelation}]
    /\ Conflicts \subseteq Modes \X Modes
    /\ \A a, b \in Modes : <<a, b>> \in Conflicts => <<b, a>> \in Conflicts

VARIABLES
    held,       \* granted rows of pg_locks: [pid, object, mode]
    queue,      \* waiting rows of every object, first come first
    step,       \* Snapshot: "idle", "sessions", "holders" or "done"
    unread,     \* rows of the first statement that are still to come
    sessions,   \* BlockedBy of the sessions so far
    waiting,    \* w of the join: waiting rows, when they were read
    labelRows,  \* the rows of the second statement; the labels map keeps one for a pair
    changes     \* changes of the lock table since Snapshot began

tableVars == <<held, queue>>
pollVars == <<step, unread, sessions, waiting, labelRows>>
lockVars == <<tableVars, pollVars, changes>>

Lock == [pid : Backends, object : Objects, mode : Modes]
Label == [waiter : Backends, blocker : Backends, object : Objects,
          waiterMode : Modes, blockerMode : Modes]
Empty == [x \in {} |-> 0]

LockTypeOK == /\ held \subseteq Lock
              /\ \A o \in Objects : Range(queue[o]) \subseteq {l \in Lock : l.object = o}
              /\ step \in {"idle", "sessions", "holders", "done"}
              /\ unread \subseteq Clients
              /\ DOMAIN sessions \subseteq Clients /\ Range(sessions) \subseteq Seq(Backends)
              /\ waiting \subseteq Lock
              /\ labelRows \subseteq Label
              /\ changes \in 0..MaxChanges

LockInit == /\ held = {} /\ queue = [o \in Objects |-> << >>]
            /\ step = "idle" /\ unread = {} /\ sessions = Empty /\ waiting = {}
            /\ labelRows = {} /\ changes = 0

-----------------------------------------------------------------------------
(* PostgreSQL *)

Clash(l, k) == l.pid # k.pid /\ l.object = k.object /\ <<l.mode, k.mode>> \in Conflicts

\* The waiting rows, those of object o ahead of row l, and whether p waits.
Waiting == UNION {Range(queue[o]) : o \in Objects}
Ahead(q, l) == {q[a] : a \in {b \in 1..Len(q) : \A c \in 1..b : q[c] # l}}
Waits(p) == \E l \in Waiting : l.pid = p

\* pg_blocking_pids: holders of a lock in the way, and those who wait ahead for one.
Blocking(p) == {k.pid : k \in {h \in Lock : \E l \in Waiting :
                    /\ l.pid = p /\ Clash(l, h)
                    /\ h \in held \cup Ahead(queue[l.object], l)}}

Changed == IF step = "idle" THEN UNCHANGED changes
           ELSE changes < MaxChanges /\ changes' = changes + 1

\* A backend asks for a lock: it gets it, or joins the queue.
Request(l) == /\ ~Waits(l.pid) /\ l \notin held
              /\ Cardinality(held \cup Waiting) < MaxLocks
              /\ Changed
              /\ IF \E k \in held \cup Range(queue[l.object]) : Clash(l, k)
                 THEN queue' = [queue EXCEPT ![l.object] = Append(@, l)] /\ UNCHANGED held
                 ELSE held' = held \cup {l} /\ UNCHANGED queue
              /\ UNCHANGED pollVars

\* Those of queue q who need not wait once only H is held.
Woken(q, H) == {l \in Range(q) : \A k \in H \cup Ahead(q, l) : ~Clash(l, k)}

\* The transaction of p ends, by itself or by a signal, and others get their locks.
EndOf(p) ==
    LET rest == [o \in Objects |-> Filtered(queue[o], {l \in Waiting : l.pid # p})]
        kept == {l \in held : l.pid # p}
        up == UNION {Woken(rest[o], kept) : o \in Objects}
    IN  /\ (\E l \in held : l.pid = p) \/ Waits(p)
        /\ Changed
        /\ held' = kept \cup up
        /\ queue' = [o \in Objects |-> Filtered(rest[o], Waiting \ up)]
        /\ UNCHANGED pollVars

-----------------------------------------------------------------------------
(* Client.Snapshot *)

StartPoll == /\ step \in {"idle", "done"} /\ step' = "sessions"
             /\ unread' = Clients /\ sessions' = Empty /\ waiting' = {} /\ labelRows' = {}
             /\ changes' = 0 /\ UNCHANGED tableVars

\* A row of the first statement: pg_blocking_pids is called for it when it is read.
ReadSession(p) ==
    /\ step = "sessions" /\ p \in unread
    /\ unread' = unread \ {p}
    /\ sessions' = [s \in DOMAIN sessions \cup {p} |->
                        IF s = p THEN Ascending(Blocking(p)) ELSE sessions[s]]
    /\ UNCHANGED <<tableVars, step, waiting, labelRows, changes>>

\* The second statement reads pg_locks once for each side of the join.
ReadWaiters == /\ step = "sessions" /\ unread = {} /\ step' = "holders"
               /\ waiting' = Waiting
               /\ UNCHANGED <<tableVars, unread, sessions, labelRows, changes>>

\* Faulty variant: rows of any object.
JoinedLoosely(w, b) == w.pid # b.pid

\* Whether the rows w and b are joined.
Joined(w, b) == w.object = b.object /\ w.pid # b.pid

\* Whichever row of a pair comes last stays in the map: the order is not determined.
ReadHolders ==
    /\ step = "holders" /\ step' = "done"
    /\ labelRows' = {[waiter |-> r[1].pid, blocker |-> r[2].pid, object |-> r[1].object,
                   waiterMode |-> r[1].mode, blockerMode |-> r[2].mode] :
                      r \in {x \in waiting \X held : Joined(x[1], x[2])}}
    /\ UNCHANGED <<tableVars, unread, sessions, waiting, changes>>

\* A statement fails or times out, and the poll with it.
PollFails == /\ step \in {"sessions", "holders"} /\ step' = "idle"
             /\ unread' = {} /\ sessions' = Empty /\ waiting' = {} /\ labelRows' = {}
             /\ changes' = 0 /\ UNCHANGED tableVars

LockNext == \/ StartPoll \/ ReadWaiters \/ ReadHolders \/ PollFails
            \/ \E p \in Backends : ReadSession(p) \/ EndOf(p)
            \/ \E l \in Lock : Request(l)

LockSpec == LockInit /\ [][LockNext]_lockVars

-----------------------------------------------------------------------------
(* Client.HotObjects *)

RowsOn(rows, r) == Cardinality({l \in rows : RelationOf[l.object] = r})

\* Faulty variant: relations with a queue only.
HavingMany(r) == RowsOn(Waiting, r) > 1

\* The GROUP BY, with a row for every relation that somebody waits for, or for a part
\* of.  Rows without a relation are left out.
Having(r) == RowsOn(Waiting, r) > 0
Groups == {[object |-> r, waiters |-> RowsOn(Waiting, r), holders |-> RowsOn(held, r)] :
              r \in {x \in Relations : Having(x)}}
HotBefore(g, h) == \/ g.waiters > h.waiters
                   \/ g.waiters = h.waiters /\ g.holders > h.holders
HotObjects == Sorted(SetToSeq(Groups), HotBefore)

-----------------------------------------------------------------------------
(* Properties *)

Quiet == step = "done" /\ changes = 0

\* queries.go:45: if the lock table stood still, the label of an edge is the lock
\* that the edge is about: the object the waiter waits for, the mode it asked for and
\* a mode the blocker holds there.  Only an edge to one who merely waits ahead has
\* none.  Modes that conflict are among the rows, but the join does not ask for a
\* conflict: with several locks of the blocker on the object others may stay.
LabelsExplainEdges ==
    Quiet => \A w \in Clients : \A b \in Range(sessions[w]) : \E l \in Waiting :
        LET there == {h \in held : h.pid = b /\ h.object = l.object}
            rows == {r \in labelRows : r.waiter = w /\ r.blocker = b}
        IN  /\ l.pid = w
            /\ rows = {} => b \in {k.pid : k \in Ahead(queue[l.object], l)}
            /\ \A r \in rows :
                  /\ r.object = l.object /\ r.waiterMode = l.mode
                  /\ r.blockerMode \in {h.mode : h \in there}
            /\ (\E h \in there : Clash(l, h)) =>
                  \E r \in rows : <<r.waiterMode, r.blockerMode>> \in Conflicts
=============================================================================
