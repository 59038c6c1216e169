---------------------------- MODULE IngestProofs ----------------------------
(***************************************************************************)
(* What a poll brings in, for every set of backends, objects, modes and    *)
(* conflicts: the labels explain the edges, the forest has the confirmed   *)
(* edges and a root above every waiter that can have one, and the hot      *)
(* objects and the forest are views of the same waits.  And Mask, for      *)
(* every text that is a row of lexemes: no value comes through, and the    *)
(* structure of the query does.                                            *)
(***************************************************************************)
EXTENDS Redaction, Ingest, FiniteSetTheorems, FunctionTheorems, SequenceTheorems, TLAPS

-----------------------------------------------------------------------------
(* The inductive invariant of Build *)

\* Types, without the bound on the number of blockers.
ForestTyped == /\ at \in {"none", "edges", "roots", "built"}
               /\ Sessions \subseteq Pids /\ \A p \in Sessions : blockedBy[p] \in Seq(Pids)
               /\ edges \in Seq(Edge) /\ roots \in Seq(Pids)

\* The loop over the sessions has visited all but those in todo.  The loop over the
\* blockers comes after it, has found nothing before, and has nothing left at the end.
LoopsInOrder == /\ at \in {"none", "edges"} => todo \subseteq Sessions /\ roots = << >> /\ isRoot = {}
                /\ at = "roots" => todo \subseteq isBlocker
                /\ at = "built" => todo = {}
Visited == IF at \in {"none", "edges"} THEN Sessions \ todo ELSE Sessions

\* A pair has as many edges as the visited waiter reported it, others have none.
EdgesAt(w, b) == {u \in 1..Len(edges) : edges[u].waiter = w /\ edges[u].blocker = b}
Reports(w, b) == {u \in 1..Len(blockedBy[w]) : blockedBy[w][u] = b}
EdgesCounted ==
    \A w, b \in Pids :
        Cardinality(EdgesAt(w, b)) = IF w \in Visited THEN Cardinality(Reports(w, b)) ELSE 0

EdgesLabelled == \A u \in 1..Len(edges) :
                    edges[u].labelled <=> <<edges[u].waiter, edges[u].blocker>> \in labels

BlockersKnown == isBlocker = UNION {Range(blockedBy[p]) : p \in Visited}

\* The roots are the heads among the blockers that were visited, each once.
RootsKnown ==
    /\ at \in {"roots", "built"} => Range(roots) = {p \in isBlocker \ todo : IsHead(p)}
    /\ isRoot = Range(roots)
    /\ \A u, j \in 1..Len(roots) : roots[u] = roots[j] => u = j

\* What the two sorts at the end leave.
SortedAtEnd ==
    at = "built" => /\ \A u, j \in 1..Len(edges) : u < j => ~Less(edges[j], edges[u])
                    /\ \A u, j \in 1..Len(roots) : u < j => roots[u] < roots[j]

ForestInv == /\ ForestTyped /\ LoopsInOrder
             /\ EdgesCounted /\ EdgesLabelled /\ BlockersKnown /\ RootsKnown
             /\ SortedAtEnd

-----------------------------------------------------------------------------
(* The inductive invariant of Snapshot and the lock table *)

LockTyped == /\ held \subseteq Lock /\ IsFiniteSet(held)
             /\ queue \in [Objects -> Seq(Lock)]
             /\ \A o \in Objects : \A u \in 1..Len(queue[o]) : queue[o][u].object = o
             /\ changes \in Nat

\* A row stands in its queue once, and a backend waits for one lock at a time.
QueuedOnce == \A o \in Objects : \A u, j \in 1..Len(queue[o]) : queue[o][u] = queue[o][j] => u = j
OneWait == \A l, k \in Waiting : l.pid = k.pid => l = k

\* Nobody waits without a reason: a held lock, or one asked for earlier, is in the way.
WaitsForSomebody == \A l \in Waiting : \E k \in held \cup Ahead(queue[l.object], l) : Clash(l, k)

\* The first statement has a row for every session that is not still to be read.
SessionsRead ==
    step # "idle" => /\ unread \subseteq Clients
                     /\ DOMAIN sessions = Clients \ unread
                     /\ \A p \in DOMAIN sessions : sessions[p] \in Seq(Backends)
                     /\ step \in {"holders", "done"} => unread = {}

\* While the lock table stands still, everything read so far is still so.
JoinOf(W, H) == {[waiter |-> r[1].pid, blocker |-> r[2].pid, object |-> r[1].object,
                  waiterMode |-> r[1].mode, blockerMode |-> r[2].mode] :
                     r \in {x \in W \X H : Joined(x[1], x[2])}}
ReadIsCurrent ==
    step # "idle" /\ changes = 0 =>
        /\ \A p \in DOMAIN sessions : sessions[p] = Ascending(Blocking(p))
        /\ step \in {"holders", "done"} => waiting = Waiting
        /\ step = "done" => labelRows = JoinOf(Waiting, held)

LockInv == LockTyped /\ QueuedOnce /\ OneWait /\ WaitsForSomebody /\ SessionsRead /\ ReadIsCurrent

\* Build works on what Snapshot has returned.
HandedOver == at # "none" => step = "done" /\ blockedBy = sessions

NothingBuilt == at = "none" => NoBuild

IngestInv == LockInv /\ ForestInv /\ HandedOver /\ NothingBuilt


-----------------------------------------------------------------------------
(* Sorting *)

\* R is a strict total order on S.
Orders(R, S) == /\ \A x \in S : <<x, x>> \notin R
                /\ \A x, y \in S : x # y => <<x, y>> \in R \/ <<y, x>> \in R
                /\ \A x, y, z \in S : <<x, y>> \in R /\ <<y, z>> \in R => <<x, z>> \in R

\* InOrder lists a finite set: every member once, in the order given.  Two members
\* never have equally many before them, so with N members there is one for each of
\* the numbers from 0 to N - 1.
LEMMA InOrderLists ==
    ASSUME NEW S, IsFiniteSet(S), NEW R, Orders(R, S)
    PROVE  /\ Cardinality(S) \in Nat
           /\ InOrder(S, R) \in [1..Cardinality(S) -> S]
           /\ \A k, m \in 1..Cardinality(S) :
                 k < m => <<InOrder(S, R)[k], InOrder(S, R)[m]>> \in R
           /\ \A x \in S : \E k \in 1..Cardinality(S) : InOrder(S, R)[k] = x
<1> DEFINE N == Cardinality(S)
           before(x) == {y \in S : <<y, x>> \in R}
           T == 0..N-1
           f == [x \in S |-> Cardinality(before(x))]
           s == InOrder(S, R)
<1>1. N \in Nat BY FS_CardinalityType
<1>2. ASSUME NEW x \in S PROVE IsFiniteSet(before(x)) /\ Cardinality(before(x)) \in T
  <2>1. before(x) \in SUBSET S /\ x \notin before(x) BY DEF Orders
  <2>2. IsFiniteSet(before(x)) /\ Cardinality(before(x)) <= N /\ Cardinality(before(x)) # N
    BY <2>1, FS_Subset
  <2>3. Cardinality(before(x)) \in Nat BY <2>2, FS_CardinalityType
  <2> QED BY <1>1, <2>2, <2>3
<1>3. ASSUME NEW x \in S, NEW y \in S, <<x, y>> \in R PROVE f[x] < f[y]
  <2>1. before(x) \in SUBSET before(y) /\ x \in before(y) /\ x \notin before(x)
    BY <1>3 DEF Orders
  <2>2. IsFiniteSet(before(y)) /\ Cardinality(before(x)) \in Nat /\ Cardinality(before(y)) \in Nat
    <3>1. \A z \in S : IsFiniteSet(before(z)) /\ Cardinality(before(z)) \in T BY <1>2
    <3>2. T \subseteq Nat BY <1>1
    <3> HIDE DEF before, T
    <3> QED BY <3>1, <3>2
  <2>3. /\ Cardinality(before(x)) <= Cardinality(before(y))
        /\ Cardinality(before(x)) # Cardinality(before(y))
    <3> HIDE DEF before
    <3> QED BY <2>1, <2>2, FS_Subset
  <2>4. f[x] = Cardinality(before(x)) /\ f[y] = Cardinality(before(y)) OBVIOUS
  <2> HIDE DEF before, f
  <2> QED BY <2>2, <2>3, <2>4
<1>4. f \in [S -> T]
  <2>1. \A x \in S : Cardinality(before(x)) \in T BY <1>2
  <2> HIDE DEF before, T
  <2> QED BY <2>1
<1>5. \A x, y \in S : f[x] = f[y] => x = y
  <2> SUFFICES ASSUME NEW x \in S, NEW y \in S, x # y PROVE f[x] # f[y] OBVIOUS
  <2>1. f[x] \in Nat /\ f[y] \in Nat
    <3> HIDE DEF f
    <3> QED BY <1>1, <1>4
  <2>2. f[x] < f[y] \/ f[y] < f[x]
    <3>1. <<x, y>> \in R \/ <<y, x>> \in R BY DEF Orders
    <3> HIDE DEF f
    <3> QED BY <1>3, <3>1
  <2> HIDE DEF f
  <2> QED BY <2>1, <2>2
<1>6. IsFiniteSet(T) /\ Cardinality(T) = N BY <1>1, FS_Interval
<1>7. f \in Surjection(S, T)
  <2> HIDE DEF f, T
  <2>1. f \in Injection(S, T) BY <1>4, <1>5, Fun_IsInj
  <2> QED BY <2>1, <1>6, FS_Injection
<1>8. \A t \in T : \E x \in S : f[x] = t
  <2> HIDE DEF f, T
  <2> QED BY <1>7, Fun_SurjectionProperties
<1>9. \A k \in 1..N : s[k] \in S /\ f[s[k]] = k - 1
  <2> SUFFICES ASSUME NEW k \in 1..N PROVE s[k] \in S /\ f[s[k]] = k - 1 OBVIOUS
  <2>1. k - 1 \in T BY <1>1
  <2>2. \E x \in S : Cardinality(before(x)) = k - 1 BY <2>1, <1>8
  <2>3. s[k] = CHOOSE x \in S : Cardinality(before(x)) = k - 1 BY DEF InOrder
  <2> HIDE DEF before, s
  <2>4. s[k] \in S /\ Cardinality(before(s[k])) = k - 1 BY <2>2, <2>3
  <2> QED BY <2>4
<1>10. s \in [1..N -> S]
  <2> DEFINE g(k) == CHOOSE x \in S : Cardinality(before(x)) = k - 1
  <2>1. s = [k \in 1..N |-> g(k)] BY DEF InOrder
  <2> HIDE DEF g, s
  <2> QED BY <2>1, <1>9
<1>11. ASSUME NEW k \in 1..N, NEW m \in 1..N, k < m PROVE <<s[k], s[m]>> \in R
  <2>1. s[k] \in S /\ s[m] \in S /\ f[s[k]] = k - 1 /\ f[s[m]] = m - 1 BY <1>9
  <2> HIDE DEF s, f
  <2>2. s[k] # s[m] BY <1>11, <2>1
  <2>3. <<s[m], s[k]>> \notin R
    <3> SUFFICES ASSUME <<s[m], s[k]>> \in R PROVE FALSE OBVIOUS
    <3>1. f[s[m]] < f[s[k]] BY <2>1, <1>3
    <3>2. k \in Nat /\ m \in Nat BY <1>1
    <3> QED BY <1>11, <2>1, <3>1, <3>2
  <2> QED BY <2>1, <2>2, <2>3 DEF Orders
<1>12. ASSUME NEW x \in S PROVE \E k \in 1..N : s[k] = x
  <2> HIDE DEF s, f
  <2>1. f[x] \in T BY <1>4
  <2>2. PICK k \in 1..N : k - 1 = f[x]
    <3>1. f[x] + 1 \in 1..N /\ (f[x] + 1) - 1 = f[x] BY <1>1, <2>1
    <3> QED BY <3>1
  <2>3. s[k] \in S /\ f[s[k]] = f[x] BY <1>9, <2>2
  <2> QED BY <1>5, <2>3
<1> QED
  <2> HIDE DEF s
  <2> QED BY <1>1, <1>10, <1>11, <1>12 DEF s

\* A set of naturals is listed in ascending order, every member once.
LEMMA AscendingLists ==
    ASSUME NEW S \in SUBSET Nat, IsFiniteSet(S)
    PROVE  /\ Cardinality(S) \in Nat
           /\ Ascending(S) \in [1..Cardinality(S) -> S]
           /\ \A k, m \in 1..Cardinality(S) : k < m => Ascending(S)[k] < Ascending(S)[m]
           /\ Range(Ascending(S)) = S
<1> DEFINE R == {x \in S \X S : x[1] < x[2]}
           N == Cardinality(S)
           s == InOrder(S, R)
<1>1. \A x, y \in S : <<x, y>> \in R <=> x < y OBVIOUS
<1>2. Orders(R, S)
  <2> HIDE DEF R
  <2> QED BY <1>1 DEF Orders
<1>3. /\ N \in Nat /\ s \in [1..N -> S]
      /\ \A k, m \in 1..N : k < m => <<s[k], s[m]>> \in R
      /\ \A x \in S : \E k \in 1..N : s[k] = x
  <2> HIDE DEF R
  <2> QED BY <1>2, InOrderLists
<1>4. Ascending(S) = s BY DEF Ascending
<1> HIDE DEF R, s, N
<1>5. \A k, m \in 1..N : k < m => s[k] < s[m] BY <1>1, <1>3
<1>6. Range(s) = S BY <1>3 DEF Range
<1> QED BY <1>3, <1>4, <1>5, <1>6 DEF N

\* An order of N positions that leaves some of them untold, and the one that Sorted
\* makes of it.
Weak(W, N) == /\ \A u, j \in 1..N : <<u, j>> \in W => <<j, u>> \notin W
              /\ \A u, j, k \in 1..N : <<u, j>> \in W => <<u, k>> \in W \/ <<k, j>> \in W
Stable(R, W, N) == \A u, j \in 1..N :
                      <<u, j>> \in R <=> \/ <<u, j>> \in W
                                         \/ <<j, u>> \notin W /\ u < j

\* The positions Sorted takes the elements from: each position once, and none after one
\* it precedes.
LEMMA SortedPositions ==
    ASSUME NEW N \in Nat, NEW W, Weak(W, N), NEW R, Stable(R, W, N)
    PROVE  LET pos == InOrder(1..N, R)
           IN  /\ pos \in Bijection(1..N, 1..N)
               /\ \A k \in 1..N : pos[k] \in 1..N
               /\ \A k, m \in 1..N : k < m => <<pos[m], pos[k]>> \notin W
<1> DEFINE I == 1..N
           pos == InOrder(I, R)
<1>2. Orders(R, I)
  <2>1. \A u \in I : <<u, u>> \notin R BY DEF Stable, Weak
  <2>2. ASSUME NEW u \in I, NEW j \in I, u # j PROVE <<u, j>> \in R \/ <<j, u>> \in R
    <3>1. u < j \/ j < u BY <2>2
    <3> QED BY <3>1 DEF Stable, Weak
  <2>3. ASSUME NEW u \in I, NEW j \in I, NEW k \in I, <<u, j>> \in R, <<j, k>> \in R
        PROVE  <<u, k>> \in R
    <3>1. CASE <<u, k>> \in W BY <3>1 DEF Stable
    <3>2. CASE <<u, k>> \notin W
      <4>1. <<k, u>> \notin W
        <5> SUFFICES ASSUME <<k, u>> \in W PROVE FALSE OBVIOUS
        <5>1. <<k, j>> \in W \/ <<j, u>> \in W BY DEF Weak
        <5> QED BY <5>1, <2>3 DEF Stable, Weak
      <4>2. <<u, j>> \notin W /\ <<j, k>> \notin W
        <5>1. <<u, j>> \in W => <<k, j>> \in W BY <3>2 DEF Weak
        <5>2. <<j, k>> \in W => <<j, u>> \in W BY <3>2 DEF Weak
        <5> QED BY <5>1, <5>2, <2>3 DEF Stable, Weak
      <4>3. u < j /\ j < k BY <4>2, <2>3 DEF Stable
      <4>4. u < k BY <4>3
      <4> QED BY <4>1, <4>4 DEF Stable
    <3> QED BY <3>1, <3>2
  <2> QED BY <2>1, <2>2, <2>3 DEF Orders
<1>3. IsFiniteSet(I) /\ Cardinality(I) = N
  <2>1. 1 \in Int /\ N \in Int /\ (IF 1 > N THEN 0 ELSE N - 1 + 1) = N OBVIOUS
  <2> QED BY <2>1, FS_Interval
<1>4. /\ pos \in [I -> I]
      /\ \A k, m \in I : k < m => <<pos[k], pos[m]>> \in R
      /\ \A x \in I : \E k \in I : pos[k] = x
  <2> HIDE DEF I
  <2>1. /\ pos \in [1..Cardinality(I) -> I]
        /\ \A k, m \in 1..Cardinality(I) : k < m => <<pos[k], pos[m]>> \in R
        /\ \A x \in I : \E k \in 1..Cardinality(I) : pos[k] = x
    BY <1>2, <1>3, InOrderLists
  <2> HIDE DEF pos
  <2> QED BY <1>3, <2>1 DEF I
<1> HIDE DEF pos
<1>5. ASSUME NEW k \in I, NEW m \in I, k < m
      PROVE  <<pos[m], pos[k]>> \notin W /\ pos[k] # pos[m]
  <2>1. <<pos[k], pos[m]>> \in R /\ pos[k] \in I /\ pos[m] \in I BY <1>4, <1>5
  <2> QED BY <2>1 DEF Stable, Weak
<1>6. \A k, m \in I : pos[k] = pos[m] => k = m
  <2> SUFFICES ASSUME NEW k \in I, NEW m \in I, k # m PROVE pos[k] # pos[m] OBVIOUS
  <2>1. k < m \/ m < k OBVIOUS
  <2> QED BY <1>5, <2>1
<1>7. pos \in Bijection(I, I)
  <2> HIDE DEF I
  <2> QED BY <1>4, <1>6, Fun_IsBij
<1> QED BY <1>4, <1>5, <1>7 DEF pos

\* sort.Slice at the end of Build: the edges in another order, and in that of Less.
LEMMA SortEdgesIs ==
    ASSUME NEW s \in Seq(Edge)
    PROVE  \E pos \in Bijection(1..Len(s), 1..Len(s)) :
              /\ SortEdges(s) = [k \in 1..Len(s) |-> s[pos[k]]]
              /\ \A k \in 1..Len(s) : pos[k] \in 1..Len(s)
              /\ \A k, m \in 1..Len(s) : k < m => ~Less(s[pos[m]], s[pos[k]])
<1> DEFINE N == Len(s)
           W == {x \in (1..N) \X (1..N) : Less(s[x[1]], s[x[2]])}
           R == {x \in (1..N) \X (1..N) : \/ Less(s[x[1]], s[x[2]])
                                          \/ ~Less(s[x[2]], s[x[1]]) /\ x[1] < x[2]}
           pos == InOrder(1..N, R)
<1>1. N \in Nat OBVIOUS
<1>2. \A u, j \in 1..N : <<u, j>> \in W <=> Less(s[u], s[j]) OBVIOUS
<1>3. \A u \in 1..N : s[u].waiter \in Nat /\ s[u].blocker \in Nat
  <2>1. \A u \in 1..N : s[u] \in Edge OBVIOUS
  <2> QED BY <2>1, PidsAssumption DEF Edge
<1>4. Stable(R, W, N)
  <2>1. \A u, j \in 1..N : <<u, j>> \in R <=> \/ Less(s[u], s[j])
                                              \/ ~Less(s[j], s[u]) /\ u < j
    OBVIOUS
  <2> HIDE DEF R, W
  <2> QED BY <1>2, <2>1 DEF Stable
<1>5. SortEdges(s) = [k \in 1..N |-> s[pos[k]]] BY DEF SortEdges, Sorted
<1> HIDE DEF W, R, N
<1>6. Weak(W, N)
  <2>1. ASSUME NEW u \in 1..N, NEW j \in 1..N, <<u, j>> \in W PROVE <<j, u>> \notin W
    BY <1>2, <1>3, <2>1 DEF Less
  <2>2. ASSUME NEW u \in 1..N, NEW j \in 1..N, NEW k \in 1..N, <<u, j>> \in W
        PROVE  <<u, k>> \in W \/ <<k, j>> \in W
    <3>1. \A a, b, c, d, e, f \in Nat :
              (a < c \/ (a = c /\ b < d)) =>
                  \/ a < e \/ (a = e /\ b < f)
                  \/ e < c \/ (e = c /\ f < d)
      OBVIOUS
    <3>2. s[u].waiter < s[j].waiter \/ (s[u].waiter = s[j].waiter /\ s[u].blocker < s[j].blocker)
      BY <1>2, <2>2 DEF Less
    <3>3. \/ s[u].waiter < s[k].waiter \/ (s[u].waiter = s[k].waiter /\ s[u].blocker < s[k].blocker)
          \/ s[k].waiter < s[j].waiter \/ (s[k].waiter = s[j].waiter /\ s[k].blocker < s[j].blocker)
      BY <1>3, <3>1, <3>2
    <3> QED BY <1>2, <3>3 DEF Less
  <2> QED BY <2>1, <2>2 DEF Weak
<1>7. /\ pos \in Bijection(1..N, 1..N)
      /\ \A k \in 1..N : pos[k] \in 1..N
      /\ \A k, m \in 1..N : k < m => <<pos[m], pos[k]>> \notin W
  BY <1>1, <1>4, <1>6, SortedPositions
<1> HIDE DEF pos
<1>8. \A k, m \in 1..N : k < m => ~Less(s[pos[m]], s[pos[k]]) BY <1>2, <1>7
<1> QED BY <1>5, <1>7, <1>8 DEF N

\* sort.Ints.
LEMMA SortIntsIs ==
    ASSUME NEW s \in Seq(Nat)
    PROVE  \E pos \in Bijection(1..Len(s), 1..Len(s)) :
              /\ SortInts(s) = [k \in 1..Len(s) |-> s[pos[k]]]
              /\ \A k \in 1..Len(s) : pos[k] \in 1..Len(s)
              /\ \A k, m \in 1..Len(s) : k < m => ~(s[pos[m]] < s[pos[k]])
<1> DEFINE N == Len(s)
           W == {x \in (1..N) \X (1..N) : s[x[1]] < s[x[2]]}
           R == {x \in (1..N) \X (1..N) : \/ s[x[1]] < s[x[2]]
                                          \/ ~(s[x[2]] < s[x[1]]) /\ x[1] < x[2]}
           pos == InOrder(1..N, R)
<1>1. N \in Nat OBVIOUS
<1>2. \A u, j \in 1..N : <<u, j>> \in W <=> s[u] < s[j] OBVIOUS
<1>3. \A u \in 1..N : s[u] \in Nat OBVIOUS
<1>4. Stable(R, W, N)
  <2>1. \A u, j \in 1..N : <<u, j>> \in R <=> \/ s[u] < s[j]
                                              \/ ~(s[j] < s[u]) /\ u < j
    OBVIOUS
  <2> HIDE DEF R, W
  <2> QED BY <1>2, <2>1 DEF Stable
<1>5. SortInts(s) = [k \in 1..N |-> s[pos[k]]] BY DEF SortInts, Sorted
<1> HIDE DEF W, R, N
<1>6. Weak(W, N)
  <2>1. ASSUME NEW u \in 1..N, NEW j \in 1..N, <<u, j>> \in W PROVE <<j, u>> \notin W
    BY <1>2, <1>3, <2>1
  <2>2. ASSUME NEW u \in 1..N, NEW j \in 1..N, NEW k \in 1..N, <<u, j>> \in W
        PROVE  <<u, k>> \in W \/ <<k, j>> \in W
    BY <1>2, <1>3, <2>2
  <2> QED BY <2>1, <2>2 DEF Weak
<1>7. /\ pos \in Bijection(1..N, 1..N)
      /\ \A k \in 1..N : pos[k] \in 1..N
      /\ \A k, m \in 1..N : k < m => <<pos[m], pos[k]>> \notin W
  BY <1>1, <1>4, <1>6, SortedPositions
<1> HIDE DEF pos
<1>8. \A k, m \in 1..N : k < m => ~(s[pos[m]] < s[pos[k]]) BY <1>2, <1>7
<1> QED BY <1>5, <1>7, <1>8 DEF N

-----------------------------------------------------------------------------
(* Build keeps its invariant *)

\* Before the first round of the first loop.
LEMMA ForestStarts ==
    ASSUME NoForest, at \in {"none", "edges"}, Sessions \subseteq Pids,
           \A p \in Sessions : blockedBy[p] \in Seq(Pids), todo = Sessions
    PROVE  ForestInv
<1> USE DEF NoForest
<1>1. ForestTyped BY DEF ForestTyped
<1>2. LoopsInOrder BY DEF LoopsInOrder
<1>3. Visited = {} BY DEF Visited
<1>4. EdgesCounted
  <2>1. \A w, b \in Pids : EdgesAt(w, b) = {} BY DEF EdgesAt
  <2> QED BY <1>3, <2>1, FS_EmptySet DEF EdgesCounted
<1>5. EdgesLabelled BY DEF EdgesLabelled
<1>6. BlockersKnown BY <1>3 DEF BlockersKnown
<1>7. RootsKnown BY DEF RootsKnown, Range
<1>8. SortedAtEnd BY DEF SortedAtEnd
<1> QED BY <1>1, <1>2, <1>4, <1>5, <1>6, <1>7, <1>8 DEF ForestInv

\* The edges of one session are as many as it has blockers.
LEMMA EdgesOfIs ==
    ASSUME ForestTyped, NEW p \in Sessions
    PROVE  /\ EdgesOf(p) \in Seq(Edge) /\ Len(EdgesOf(p)) = Len(blockedBy[p])
           /\ Len(blockedBy[p]) \in Nat
           /\ \A u \in 1..Len(blockedBy[p]) :
                 /\ blockedBy[p][u] \in Pids
                 /\ EdgesOf(p)[u].waiter = p /\ EdgesOf(p)[u].blocker = blockedBy[p][u]
                 /\ EdgesOf(p)[u].labelled <=> <<p, blockedBy[p][u]>> \in labels
<1> DEFINE N == Len(blockedBy[p])
<1>1. N \in Nat /\ p \in Pids /\ \A u \in 1..N : blockedBy[p][u] \in Pids BY DEF ForestTyped
<1>2. EdgesOf(p) = [u \in 1..N |-> [waiter |-> p, blocker |-> blockedBy[p][u],
                                    labelled |-> <<p, blockedBy[p][u]>> \in labels]]
  BY DEF EdgesOf
<1> HIDE DEF N
<1>3. \A u \in 1..N : [waiter |-> p, blocker |-> blockedBy[p][u],
                       labelled |-> <<p, blockedBy[p][u]>> \in labels] \in Edge
  BY <1>1 DEF Edge
<1>4. EdgesOf(p) \in [1..N -> Edge] BY <1>2, <1>3
<1>5. EdgesOf(p) \in Seq(Edge) /\ Len(EdgesOf(p)) = N BY <1>1, <1>4
<1>6. ASSUME NEW u \in 1..N
      PROVE  /\ EdgesOf(p)[u].waiter = p /\ EdgesOf(p)[u].blocker = blockedBy[p][u]
             /\ EdgesOf(p)[u].labelled <=> <<p, blockedBy[p][u]>> \in labels
  <2>1. EdgesOf(p)[u].waiter = p BY <1>2
  <2>2. EdgesOf(p)[u].blocker = blockedBy[p][u] BY <1>2
  <2>3. EdgesOf(p)[u].labelled <=> <<p, blockedBy[p][u]>> \in labels
    <3> DEFINE x == <<p, blockedBy[p][u]>> \in labels
    <3>1. EdgesOf(p)[u] = [waiter |-> p, blocker |-> blockedBy[p][u], labelled |-> x]
      BY <1>2, Zenon
    <3> HIDE DEF x
    <3>2. EdgesOf(p)[u].labelled = x BY <3>1
    <3> QED BY <3>2, Zenon DEF x
  <2> QED BY <2>1, <2>2, <2>3
<1> QED BY <1>1, <1>5, <1>6 DEF N

\* A round of the first loop: the edges of its session come behind those so far.
LEMMA VisitSessionEdges ==
    ASSUME ForestTyped, NEW p \in Sessions, VisitSession(p)
    PROVE  LET N == Len(edges)
               m == Len(blockedBy[p])
           IN  /\ N \in Nat /\ m \in Nat
               /\ edges' \in Seq(Edge) /\ Len(edges') = N + m
               /\ \A u \in 1..N : edges'[u] = edges[u]
               /\ \A j \in 1..m : edges'[N + j] = EdgesOf(p)[j]
<1> DEFINE e == EdgesOf(p)
<1>1. edges \in Seq(Edge) /\ e \in Seq(Edge) /\ Len(e) = Len(blockedBy[p])
  BY EdgesOfIs DEF ForestTyped
<1>2. edges' = edges \o e BY DEF VisitSession
<1> HIDE DEF e
<1>3. /\ Len(edges) \in Nat /\ Len(e) \in Nat
      /\ edges' \in Seq(Edge) /\ Len(edges') = Len(edges) + Len(e)
  <2>1. Len(edges) \in Nat /\ Len(e) \in Nat BY <1>1
  <2>2. edges' \in Seq(Edge) /\ Len(edges') = Len(edges) + Len(e)
    BY <1>1, <1>2, ConcatProperties, Zenon
  <2> QED BY <2>1, <2>2
<1>4. \A u \in 1..Len(edges) : edges'[u] = edges[u] BY <1>1, <1>2
<1>5. \A j \in 1..Len(e) : edges'[Len(edges) + j] = e[j] BY <1>1, <1>2
<1> QED BY <1>1, <1>3, <1>4, <1>5 DEF e

\* The loop over the sessions.
LEMMA VisitSessionStep ==
    ASSUME ForestInv, NEW p \in Pids, VisitSession(p)
    PROVE  ForestInv'
<1> DEFINE N == Len(edges)
           m == Len(blockedBy[p])
           e == EdgesOf(p)
<1>1. /\ ForestTyped /\ LoopsInOrder /\ at = "edges" /\ p \in todo /\ p \in Sessions
      /\ at' = at /\ blockedBy' = blockedBy /\ labels' = labels /\ roots' = roots
      /\ isRoot' = isRoot /\ todo' = todo \ {p} /\ Sessions' = Sessions
      /\ isBlocker' = isBlocker \cup Range(blockedBy[p])
  BY DEF ForestInv, LoopsInOrder, VisitSession, Sessions
<1>2. /\ N \in Nat /\ m \in Nat /\ edges' \in Seq(Edge) /\ Len(edges') = N + m
      /\ \A u \in 1..N : edges'[u] = edges[u]
      /\ \A j \in 1..m : edges'[N + j] = e[j]
  BY <1>1, VisitSessionEdges
<1>3. \A j \in 1..m : /\ e[j].waiter = p /\ e[j].blocker = blockedBy[p][j]
                      /\ e[j].labelled <=> <<p, blockedBy[p][j]>> \in labels
  BY <1>1, EdgesOfIs
<1>4. Visited' = Visited \cup {p} /\ p \notin Visited BY <1>1 DEF Visited, LoopsInOrder
<1> HIDE DEF N, m, e
<1>5. \A u \in 1..N+m : u \in 1..N \/ \E j \in 1..m : u = N + j
  <2> SUFFICES ASSUME NEW u \in 1..N+m, u \notin 1..N PROVE \E j \in 1..m : u = N + j OBVIOUS
  <2>1. u - N \in 1..m /\ u = N + (u - N) BY <1>2
  <2> QED BY <2>1
<1>6. ForestTyped' BY <1>1, <1>2 DEF ForestTyped
<1>7. LoopsInOrder' BY <1>1 DEF LoopsInOrder
<1>8. EdgesCounted'
  <2> SUFFICES ASSUME NEW w \in Pids, NEW b \in Pids
               PROVE  Cardinality(EdgesAt(w, b)') =
                          IF w \in Visited' THEN Cardinality(Reports(w, b)) ELSE 0
    BY <1>1 DEF EdgesCounted, Reports
  <2>1. Cardinality(EdgesAt(w, b)) = IF w \in Visited THEN Cardinality(Reports(w, b)) ELSE 0
    BY DEF ForestInv, EdgesCounted
  <2>2. CASE w # p
    <3>1. EdgesAt(w, b)' = EdgesAt(w, b)
      <4>1. ASSUME NEW u \in 1..N+m, edges'[u].waiter = w PROVE u \in 1..N
        <5> SUFFICES ASSUME u \notin 1..N PROVE FALSE OBVIOUS
        <5>1. PICK j \in 1..m : u = N + j BY <1>5
        <5>2. edges'[u] = e[j] BY <1>2, <5>1
        <5> QED BY <1>3, <2>2, <4>1, <5>2
      <4>2. \A u \in 1..N : u \in 1..N+m BY <1>2
      <4>3. EdgesAt(w, b)' = {u \in 1..N+m : edges'[u].waiter = w /\ edges'[u].blocker = b}
        BY <1>2 DEF EdgesAt
      <4>4. EdgesAt(w, b) = {u \in 1..N : edges[u].waiter = w /\ edges[u].blocker = b}
        BY DEF EdgesAt, N
      <4> QED BY <1>2, <4>1, <4>2, <4>3, <4>4
    <3> QED BY <1>4, <2>1, <2>2, <3>1
  <2>3. CASE w = p
    <3>1. EdgesAt(p, b) = {}
      <4>1. EdgesAt(p, b) \in SUBSET (1..N) /\ IsFiniteSet(1..N)
        BY <1>2, FS_Interval DEF EdgesAt, N
      <4>2. IsFiniteSet(EdgesAt(p, b)) BY <4>1, FS_Subset
      <4> QED BY <1>4, <2>1, <2>3, <4>2, FS_EmptySet
    <3> DEFINE f == [j \in Reports(p, b) |-> N + j]
    <3>2. \A u \in EdgesAt(p, b)' : \E j \in Reports(p, b) : u = N + j
      <4> SUFFICES ASSUME NEW u \in EdgesAt(p, b)' PROVE \E j \in Reports(p, b) : u = N + j
        OBVIOUS
      <4>1. u \in 1..N+m /\ edges'[u].waiter = p /\ edges'[u].blocker = b BY <1>2 DEF EdgesAt
      <4>2. u \notin 1..N
        <5> SUFFICES ASSUME u \in 1..N PROVE FALSE OBVIOUS
        <5>1. edges[u].waiter = p /\ edges[u].blocker = b BY <1>2, <4>1
        <5> QED BY <3>1, <5>1 DEF EdgesAt, N
      <4>3. PICK j \in 1..m : u = N + j BY <1>5, <4>1, <4>2
      <4>4. blockedBy[p][j] = b BY <1>2, <1>3, <4>1, <4>3
      <4> QED BY <4>3, <4>4 DEF Reports, m
    <3>3. \A j \in Reports(p, b) : j \in Nat /\ N + j \in EdgesAt(p, b)'
      <4> SUFFICES ASSUME NEW j \in Reports(p, b) PROVE j \in Nat /\ N + j \in EdgesAt(p, b)'
        OBVIOUS
      <4>1. j \in 1..m /\ blockedBy[p][j] = b BY DEF Reports, m
      <4>2. edges'[N + j].waiter = p /\ edges'[N + j].blocker = b BY <1>2, <1>3, <4>1
      <4>3. j \in Nat /\ N + j \in 1..N+m BY <1>2, <4>1
      <4>4. N + j \in 1..Len(edges') BY <1>2, <4>3
      <4> QED BY <4>2, <4>3, <4>4 DEF EdgesAt
    <3>4. f \in Bijection(Reports(p, b), EdgesAt(p, b)')
      <4>1. f \in [Reports(p, b) -> EdgesAt(p, b)'] BY <3>3
      <4>2. \A u, j \in Reports(p, b) : f[u] = f[j] => u = j BY <1>2, <3>3
      <4>3. \A u \in EdgesAt(p, b)' : \E j \in Reports(p, b) : f[j] = u BY <3>2
      <4> HIDE DEF f
      <4> QED BY <4>1, <4>2, <4>3, Fun_IsBij
    <3>5. IsFiniteSet(Reports(p, b))
      <4>1. IsFiniteSet(1..m)
        <5>1. 1 \in Int /\ m \in Int BY <1>2
        <5> QED BY <5>1, FS_Interval
      <4>2. Reports(p, b) \in SUBSET (1..m) BY DEF Reports, m
      <4> QED BY <4>1, <4>2, FS_Subset
    <3>6. Cardinality(EdgesAt(p, b)') = Cardinality(Reports(p, b))
      <4> HIDE DEF f
      <4> QED BY <3>4, <3>5, FS_Bijection DEF ExistsBijection
    <3> QED BY <1>4, <2>3, <3>6
  <2> QED BY <2>2, <2>3
<1>9. EdgesLabelled'
  <2> SUFFICES ASSUME NEW u \in 1..N+m
               PROVE  edges'[u].labelled <=> <<edges'[u].waiter, edges'[u].blocker>> \in labels
    BY <1>1, <1>2 DEF EdgesLabelled
  <2>1. CASE u \in 1..N
    <3>1. edges[u].labelled <=> <<edges[u].waiter, edges[u].blocker>> \in labels
      BY <2>1 DEF ForestInv, EdgesLabelled, N
    <3> QED BY <1>2, <2>1, <3>1
  <2>2. CASE u \notin 1..N
    <3>1. PICK j \in 1..m : u = N + j BY <1>5, <2>2
    <3> QED BY <1>2, <1>3, <3>1
  <2> QED BY <2>1, <2>2
<1>10. BlockersKnown'
  <2>1. isBlocker = UNION {Range(blockedBy[q]) : q \in Visited} BY DEF ForestInv, BlockersKnown
  <2> QED BY <1>1, <1>4, <2>1 DEF BlockersKnown
<1>11. RootsKnown' BY <1>1 DEF ForestInv, RootsKnown
<1>12. SortedAtEnd' BY <1>1 DEF SortedAtEnd
<1> QED BY <1>6, <1>7, <1>8, <1>9, <1>10, <1>11, <1>12 DEF ForestInv

\* Between the loops.
LEMMA StartRootsStep == ASSUME ForestInv, StartRoots PROVE ForestInv'
<1> USE DEF ForestInv
<1>1. /\ at = "edges" /\ todo = {} /\ at' = "roots" /\ todo' = isBlocker /\ Sessions' = Sessions
      /\ UNCHANGED <<blockedBy, labels, edges, isBlocker, roots, isRoot>>
  BY DEF StartRoots, Sessions
<1>2. Visited' = Visited BY <1>1 DEF Visited
<1>3. ForestTyped' BY <1>1 DEF ForestTyped
<1>4. LoopsInOrder' BY <1>1 DEF LoopsInOrder
<1>5. EdgesCounted'
  <2>1. \A w, b \in Pids : EdgesAt(w, b)' = EdgesAt(w, b) /\ Reports(w, b)' = Reports(w, b)
    BY <1>1 DEF EdgesAt, Reports
  <2> QED BY <1>2, <2>1 DEF EdgesCounted
<1>6. EdgesLabelled' BY <1>1 DEF EdgesLabelled
<1>7. BlockersKnown' BY <1>1, <1>2 DEF BlockersKnown
<1>8. RootsKnown'
  <2>1. roots = << >> /\ isRoot = {} BY <1>1 DEF LoopsInOrder
  <2> QED BY <1>1, <2>1 DEF RootsKnown, Range
<1>9. SortedAtEnd' BY <1>1 DEF SortedAtEnd
<1> QED BY <1>3, <1>4, <1>5, <1>6, <1>7, <1>8, <1>9

\* The loop over the blockers.
LEMMA VisitBlockerStep == ASSUME ForestInv, NEW p \in Pids, VisitBlocker(p) PROVE ForestInv'
<1> USE DEF ForestInv
<1>1. /\ at = "roots" /\ p \in todo /\ at' = at /\ todo' = todo \ {p} /\ Sessions' = Sessions
      /\ UNCHANGED <<blockedBy, labels, edges, isBlocker>>
  BY DEF VisitBlocker, Sessions
<1>2. Visited' = Visited BY <1>1 DEF Visited
<1>3. roots \in Seq(Pids) BY DEF ForestTyped
<1>4. ForestTyped'
  <2>1. roots' \in Seq(Pids) BY <1>3 DEF VisitBlocker
  <2> QED BY <1>1, <2>1 DEF ForestTyped
<1>5. LoopsInOrder' BY <1>1 DEF LoopsInOrder
<1>6. EdgesCounted'
  <2>1. \A w, b \in Pids : EdgesAt(w, b)' = EdgesAt(w, b) /\ Reports(w, b)' = Reports(w, b)
    BY <1>1 DEF EdgesAt, Reports
  <2> QED BY <1>2, <2>1 DEF EdgesCounted
<1>7. EdgesLabelled' BY <1>1 DEF EdgesLabelled
<1>8. BlockersKnown' BY <1>1, <1>2 DEF BlockersKnown
<1>9. \A q : IsHead(q)' <=> IsHead(q) BY <1>1 DEF IsHead
<1>10. p \in isBlocker BY <1>1 DEF LoopsInOrder
<1>11. Range(roots) = {q \in isBlocker \ todo : IsHead(q)} BY <1>1 DEF RootsKnown
<1>12. RootsKnown'
  <2>1. CASE IsHead(p)
    <3>1. roots' = Append(roots, p) /\ isRoot' = isRoot \cup {p} BY <2>1 DEF VisitBlocker
    <3>2. /\ Len(roots) \in Nat /\ Len(roots') = Len(roots) + 1
          /\ \A u \in 1..Len(roots) : roots'[u] = roots[u]
          /\ roots'[Len(roots) + 1] = p
      BY <1>3, <3>1
    <3>3. DOMAIN roots = 1..Len(roots) /\ DOMAIN roots' = 1..Len(roots)+1 BY <1>3, <3>1
    <3>4. \A u \in 1..Len(roots)+1 : u \in 1..Len(roots) \/ u = Len(roots) + 1 BY <3>2
    <3>5. Range(roots') = Range(roots) \cup {p}
      <4>1. \A u \in 1..Len(roots) : u \in 1..Len(roots)+1 BY <3>2
      <4>2. Len(roots) + 1 \in 1..Len(roots)+1 BY <3>2
      <4> QED BY <3>2, <3>3, <3>4, <4>1, <4>2 DEF Range
    <3>6. Range(roots') = {q \in isBlocker \ todo' : IsHead(q)}
      BY <1>1, <1>10, <1>11, <2>1, <3>5
    <3>7. \A u \in 1..Len(roots) : roots[u] # p
      <4>1. p \notin Range(roots) BY <1>1, <1>11
      <4> QED BY <3>3, <4>1 DEF Range
    <3>8. ASSUME NEW u \in 1..Len(roots'), NEW j \in 1..Len(roots'), roots'[u] = roots'[j]
          PROVE  u = j
      <4>1. u \in 1..Len(roots) \/ u = Len(roots) + 1 BY <3>2, <3>4
      <4>2. j \in 1..Len(roots) \/ j = Len(roots) + 1 BY <3>2, <3>4
      <4> QED BY <3>2, <3>7, <3>8, <4>1, <4>2 DEF RootsKnown
    <3>9. isRoot' = Range(roots') BY <3>1, <3>5 DEF RootsKnown
    <3>10. Range(roots)' = {q \in isBlocker' \ todo' : IsHead(q)'}
      BY <1>1, <1>9, <3>6 DEF Range
    <3> QED BY <3>8, <3>9, <3>10 DEF RootsKnown
  <2>2. CASE ~IsHead(p)
    <3>1. roots' = roots /\ isRoot' = isRoot BY <2>2 DEF VisitBlocker
    <3>2. Range(roots) = {q \in isBlocker \ todo' : IsHead(q)} BY <1>1, <1>11, <2>2
    <3> QED BY <1>1, <1>9, <3>1, <3>2 DEF RootsKnown
  <2> QED BY <2>1, <2>2
<1>13. SortedAtEnd' BY <1>1 DEF SortedAtEnd
<1> QED BY <1>4, <1>5, <1>6, <1>7, <1>8, <1>12, <1>13

\* Positions of some elements of a sequence before and after it is put into another order.
LEMMA PermutedPositions ==
    ASSUME NEW N \in Nat, NEW pos \in Bijection(1..N, 1..N), NEW A \in SUBSET (1..N)
    PROVE  /\ IsFiniteSet(A)
           /\ Cardinality({k \in 1..N : pos[k] \in A}) = Cardinality(A)
<1> DEFINE B == {k \in 1..N : pos[k] \in A}
           f == [k \in B |-> pos[k]]
<1>1. /\ \A k \in 1..N : pos[k] \in 1..N
      /\ \A k, m \in 1..N : pos[k] = pos[m] => k = m
      /\ \A u \in 1..N : \E k \in 1..N : pos[k] = u
  <2> DEFINE I == 1..N
  <2> HIDE DEF I
  <2>1. /\ pos \in [I -> I]
        /\ \A k, m \in I : pos[k] = pos[m] => k = m
        /\ \A u \in I : \E k \in I : pos[k] = u
    <3>1. pos \in Bijection(I, I) BY DEF I
    <3> QED BY <3>1, Fun_BijectionProperties
  <2>2. \A k \in I : pos[k] \in I BY <2>1
  <2> QED BY <2>1, <2>2 DEF I
<1>2. IsFiniteSet(1..N) BY FS_Interval
<1>3. IsFiniteSet(A) /\ IsFiniteSet(B) BY <1>2, FS_Subset
<1>4. f \in Bijection(B, A)
  <2>1. f \in [B -> A] OBVIOUS
  <2>2. \A k, m \in B : f[k] = f[m] => k = m BY <1>1
  <2>3. \A u \in A : \E k \in B : f[k] = u BY <1>1
  <2> HIDE DEF f, B
  <2> QED BY <2>1, <2>2, <2>3, Fun_IsBij
<1> HIDE DEF f, B
<1>5. Cardinality(A) = Cardinality(B) BY <1>3, <1>4, FS_Bijection DEF ExistsBijection
<1> QED BY <1>3, <1>5 DEF B

\* The sorts.
LEMMA FinishStep == ASSUME ForestInv, Finish PROVE ForestInv'
<1> USE DEF ForestInv
<1>1. /\ at = "roots" /\ todo = {} /\ at' = "built" /\ Sessions' = Sessions
      /\ edges' = SortEdges(edges) /\ roots' = SortInts(roots)
      /\ UNCHANGED <<blockedBy, labels, todo, isBlocker, isRoot>>
  BY DEF Finish, Sessions
<1> DEFINE N == Len(edges)
           z == Len(roots)
<1>2. edges \in Seq(Edge) /\ roots \in Seq(Pids) /\ roots \in Seq(Nat) /\ N \in Nat /\ z \in Nat
  <2>1. edges \in Seq(Edge) /\ roots \in Seq(Pids) BY DEF ForestTyped
  <2>2. roots \in Seq(Nat)
    <3>1. z \in Nat /\ roots \in [1..z -> Pids] BY <2>1
    <3>2. roots \in [1..z -> Nat] BY <3>1, PidsAssumption
    <3> QED BY <3>1, <3>2
  <2> QED BY <2>1, <2>2
<1>3. PICK ep \in Bijection(1..N, 1..N) :
              /\ edges' = [k \in 1..N |-> edges[ep[k]]]
              /\ \A k \in 1..N : ep[k] \in 1..N
              /\ \A k, m \in 1..N : k < m => ~Less(edges[ep[m]], edges[ep[k]])
  BY <1>1, <1>2, SortEdgesIs
<1>4. PICK rp \in Bijection(1..z, 1..z) :
              /\ roots' = [k \in 1..z |-> roots[rp[k]]]
              /\ \A k \in 1..z : rp[k] \in 1..z
              /\ \A k, m \in 1..z : k < m => ~(roots[rp[m]] < roots[rp[k]])
  BY <1>1, <1>2, SortIntsIs
<1>5. DOMAIN edges = 1..N /\ DOMAIN roots = 1..z
      /\ (\A u \in 1..N : edges[u] \in Edge) /\ \A u \in 1..z : roots[u] \in Pids
  BY <1>2
<1> HIDE DEF N, z
<1>6. /\ edges' \in Seq(Edge) /\ Len(edges') = N
      /\ \A k \in 1..N : edges'[k] = edges[ep[k]]
  <2>1. edges' \in [1..N -> Edge] BY <1>3, <1>5
  <2> QED BY <1>2, <1>3, <2>1
<1>7. /\ roots' \in Seq(Pids) /\ Len(roots') = z
      /\ \A k \in 1..z : roots'[k] = roots[rp[k]]
  <2>1. roots' \in [1..z -> Pids] BY <1>4, <1>5
  <2> QED BY <1>2, <1>4, <2>1
<1>8. ForestTyped' BY <1>1, <1>6, <1>7 DEF ForestTyped
<1>9. LoopsInOrder' BY <1>1 DEF LoopsInOrder
<1>10. Visited' = Visited BY <1>1 DEF Visited
<1>11. EdgesCounted'
  <2> SUFFICES ASSUME NEW w \in Pids, NEW b \in Pids
               PROVE  Cardinality(EdgesAt(w, b)') = Cardinality(EdgesAt(w, b))
    BY <1>1, <1>10 DEF EdgesCounted, Reports
  <2>1. EdgesAt(w, b) \in SUBSET (1..N) BY DEF EdgesAt, N
  <2>2. EdgesAt(w, b)' = {k \in 1..N : ep[k] \in EdgesAt(w, b)}
    <3>1. EdgesAt(w, b)' = {k \in 1..N : edges'[k].waiter = w /\ edges'[k].blocker = b}
      BY <1>6 DEF EdgesAt
    <3>2. \A u \in 1..N : u \in EdgesAt(w, b) <=> edges[u].waiter = w /\ edges[u].blocker = b
      BY DEF EdgesAt, N
    <3> QED BY <1>3, <1>6, <3>1, <3>2
  <2> DEFINE A == EdgesAt(w, b)
  <2> HIDE DEF A
  <2>3. A \in SUBSET (1..N) BY <2>1 DEF A
  <2>4. Cardinality({k \in 1..N : ep[k] \in A}) = Cardinality(A)
    BY <1>2, <2>3, PermutedPositions
  <2> QED BY <2>2, <2>4 DEF A
<1>12. EdgesLabelled'
  <2> SUFFICES ASSUME NEW u \in 1..N
               PROVE  edges'[u].labelled <=> <<edges'[u].waiter, edges'[u].blocker>> \in labels
    BY <1>1, <1>6 DEF EdgesLabelled
  <2>1. edges'[u] = edges[ep[u]] /\ ep[u] \in 1..N BY <1>3, <1>6
  <2>2. edges[ep[u]].labelled <=> <<edges[ep[u]].waiter, edges[ep[u]].blocker>> \in labels
    BY <2>1 DEF EdgesLabelled, N
  <2> QED BY <2>1, <2>2, Zenon
<1>13. BlockersKnown' BY <1>1, <1>10 DEF BlockersKnown
<1>14. /\ \A k, m \in 1..z : rp[k] = rp[m] => k = m
       /\ \A u \in 1..z : \E k \in 1..z : rp[k] = u
  <2> DEFINE I == 1..z
  <2> HIDE DEF I
  <2>1. rp \in Bijection(I, I) BY DEF I
  <2>2. (\A k, m \in I : rp[k] = rp[m] => k = m) /\ \A u \in I : \E k \in I : rp[k] = u
    BY <2>1, Fun_BijectionProperties
  <2> QED BY <2>2 DEF I
<1>15. \A u, j \in 1..z : roots[u] = roots[j] => u = j BY DEF RootsKnown, z
<1>16. \A u, j \in 1..z : roots'[u] = roots'[j] => u = j
  <2> SUFFICES ASSUME NEW u \in 1..z, NEW j \in 1..z, roots'[u] = roots'[j] PROVE u = j
    OBVIOUS
  <2>1. roots[rp[u]] = roots[rp[j]] /\ rp[u] \in 1..z /\ rp[j] \in 1..z BY <1>4, <1>7
  <2>2. rp[u] = rp[j] BY <1>15, <2>1
  <2> QED BY <1>14, <2>2
<1>17. RootsKnown'
  <2>1. Range(roots') = Range(roots)
    <3>1. Range(roots') = {roots[rp[k]] : k \in 1..z} BY <1>4 DEF Range
    <3>2. Range(roots) = {roots[u] : u \in 1..z} BY <1>5 DEF Range
    <3> QED BY <1>4, <1>14, <3>1, <3>2
  <2>2. \A q : IsHead(q)' <=> IsHead(q) BY <1>1 DEF IsHead
  <2>3. Range(roots)' = {q \in isBlocker' \ todo' : IsHead(q)'}
    <3>1. Range(roots) = {q \in isBlocker \ todo : IsHead(q)} BY <1>1 DEF RootsKnown
    <3> QED BY <1>1, <2>1, <2>2, <3>1 DEF Range
  <2>4. isRoot' = Range(roots') BY <1>1, <2>1 DEF RootsKnown
  <2> QED BY <1>7, <1>16, <2>3, <2>4 DEF RootsKnown
<1>18. SortedAtEnd'
  <2>1. \A u, j \in 1..N : u < j => ~Less(edges'[j], edges'[u]) BY <1>3, <1>6
  <2>2. ASSUME NEW u \in 1..z, NEW j \in 1..z, u < j PROVE roots'[u] < roots'[j]
    <3>1. ~(roots'[j] < roots'[u]) BY <1>4, <1>7, <2>2
    <3>2. roots'[u] # roots'[j] BY <1>16, <2>2
    <3>3. roots'[u] \in Nat /\ roots'[j] \in Nat
      <4>1. roots'[u] \in Pids /\ roots'[j] \in Pids BY <1>4, <1>5, <1>7
      <4> QED BY <4>1, PidsAssumption
    <3> QED BY <3>1, <3>2, <3>3
  <2> QED BY <1>6, <1>7, <2>1, <2>2 DEF SortedAtEnd, Less
<1> QED BY <1>8, <1>9, <1>11, <1>12, <1>13, <1>17, <1>18

\* Build keeps its invariant.
LEMMA ForestStep == ASSUME ForestInv, [ForestNext]_forestVars PROVE ForestInv'
<1>1. CASE StartRoots BY <1>1, StartRootsStep
<1>2. CASE Finish BY <1>2, FinishStep
<1>3. ASSUME NEW p \in Pids, VisitSession(p) PROVE ForestInv' BY <1>3, VisitSessionStep
<1>4. ASSUME NEW p \in Pids, VisitBlocker(p) PROVE ForestInv' BY <1>4, VisitBlockerStep
<1>5. CASE UNCHANGED forestVars
  <2> USE <1>5 DEF forestVars
  <2>1. ForestTyped' BY DEF ForestInv, ForestTyped, Sessions
  <2>2. LoopsInOrder' BY DEF ForestInv, LoopsInOrder, Sessions
  <2>3. Visited' = Visited BY DEF Visited, Sessions
  <2>4. EdgesCounted'
    <3>1. \A p, b : EdgesAt(p, b)' = EdgesAt(p, b) BY DEF EdgesAt
    <3>2. \A p, b : Reports(p, b)' = Reports(p, b) BY DEF Reports
    <3> QED BY <2>3, <3>1, <3>2 DEF ForestInv, EdgesCounted
  <2>5. EdgesLabelled' BY DEF ForestInv, EdgesLabelled
  <2>6. BlockersKnown' BY <2>3 DEF ForestInv, BlockersKnown
  <2>7. RootsKnown' BY DEF ForestInv, RootsKnown, IsHead, Sessions
  <2>8. SortedAtEnd' BY DEF ForestInv, SortedAtEnd
  <2> QED BY <2>1, <2>2, <2>4, <2>5, <2>6, <2>7, <2>8 DEF ForestInv
<1> QED BY <1>1, <1>2, <1>3, <1>4, <1>5 DEF ForestNext

-----------------------------------------------------------------------------
(* What Build returns *)

\* A pair has an edge exactly if the waiter reported the blocker.
LEMMA EdgeIffReport ==
    ASSUME ForestInv, at = "built", NEW w \in Pids, NEW b \in Pids
    PROVE  EdgesAt(w, b) # {} <=> <<w, b>> \in Confirmed
<1>1. edges \in Seq(Edge) /\ Len(edges) \in Nat BY DEF ForestInv, ForestTyped
<1>2. IsFiniteSet(EdgesAt(w, b))
  <2>1. EdgesAt(w, b) \in SUBSET (1..Len(edges)) BY DEF EdgesAt
  <2>2. IsFiniteSet(1..Len(edges)) BY <1>1, FS_Interval
  <2> QED BY <2>1, <2>2, FS_Subset
<1>3. Visited = Sessions BY DEF Visited
<1>4. Cardinality(EdgesAt(w, b)) = IF w \in Sessions THEN Cardinality(Reports(w, b)) ELSE 0
  BY <1>3 DEF ForestInv, EdgesCounted
<1>5. CASE w \in Sessions
  <2>1. blockedBy[w] \in Seq(Pids) BY <1>5 DEF ForestInv, ForestTyped
  <2>2. Len(blockedBy[w]) \in Nat /\ DOMAIN blockedBy[w] = 1..Len(blockedBy[w]) BY <2>1
  <2>3. IsFiniteSet(Reports(w, b))
    <3>1. Reports(w, b) \in SUBSET (1..Len(blockedBy[w])) BY DEF Reports
    <3>2. IsFiniteSet(1..Len(blockedBy[w])) BY <2>2, FS_Interval
    <3> QED BY <3>1, <3>2, FS_Subset
  <2>4. Reports(w, b) # {} <=> b \in Range(blockedBy[w]) BY <2>2 DEF Reports, Range
  <2>5. <<w, b>> \in Confirmed <=> b \in Range(blockedBy[w]) BY <1>5 DEF Confirmed
  <2>6. EdgesAt(w, b) # {} <=> Reports(w, b) # {} BY <1>2, <1>4, <1>5, <2>3, FS_EmptySet
  <2> QED BY <2>4, <2>5, <2>6
<1>6. CASE w \notin Sessions
  <2>1. EdgesAt(w, b) = {} BY <1>2, <1>4, <1>6, FS_EmptySet
  <2>2. <<w, b>> \notin Confirmed BY <1>6 DEF Confirmed
  <2> QED BY <2>1, <2>2
<1> QED BY <1>5, <1>6

\* The pairs that have an edge are the confirmed ones.
LEMMA EdgePairs ==
    ASSUME ForestInv, at = "built"
    PROVE  {<<edges[u].waiter, edges[u].blocker>> : u \in 1..Len(edges)} = Confirmed
<1>1. \A u \in 1..Len(edges) : edges[u].waiter \in Pids /\ edges[u].blocker \in Pids
  <2>1. \A u \in 1..Len(edges) : edges[u] \in Edge BY DEF ForestInv, ForestTyped
  <2> QED BY <2>1 DEF Edge
<1>2. ASSUME NEW u \in 1..Len(edges) PROVE <<edges[u].waiter, edges[u].blocker>> \in Confirmed
  <2>1. u \in EdgesAt(edges[u].waiter, edges[u].blocker) BY DEF EdgesAt
  <2> QED BY <1>1, <2>1, EdgeIffReport
<1>3. ASSUME NEW k \in Confirmed
      PROVE  k \in {<<edges[u].waiter, edges[u].blocker>> : u \in 1..Len(edges)}
  <2>1. PICK w \in Pids, b \in Pids : k = <<w, b>> BY DEF Confirmed
  <2>2. PICK u \in EdgesAt(w, b) : TRUE BY <2>1, EdgeIffReport
  <2>3. u \in 1..Len(edges) /\ edges[u].waiter = w /\ edges[u].blocker = b BY <2>2 DEF EdgesAt
  <2> QED BY <2>1, <2>3
<1> QED BY <1>2, <1>3

\* What Build returns has the edges and roots it should have.
LEMMA InvConfirms == ASSUME ForestInv PROVE EdgesAreConfirmed
<1> SUFFICES ASSUME at = "built"
             PROVE  /\ {<<edges[u].waiter, edges[u].blocker>> : u \in 1..Len(edges)} = Confirmed
                    /\ \A k \in Confirmed :
                          Cardinality({u \in 1..Len(edges) : edges[u].waiter = k[1]
                                                             /\ edges[u].blocker = k[2]})
                          = Cardinality({u \in 1..Len(blockedBy[k[1]]) : blockedBy[k[1]][u] = k[2]})
                    /\ \A u \in 1..Len(edges) :
                          edges[u].labelled <=> <<edges[u].waiter, edges[u].blocker>> \in labels
                    /\ \A u, j \in 1..Len(edges) : u < j => ~Less(edges[j], edges[u])
                    /\ \A u, j \in 1..Len(roots) : u < j => roots[u] < roots[j]
                    /\ Range(roots) = isRoot
  BY Zenon DEF EdgesAreConfirmed
<1>1. ASSUME NEW k \in Confirmed
      PROVE  Cardinality({u \in 1..Len(edges) : edges[u].waiter = k[1] /\ edges[u].blocker = k[2]})
                 = Cardinality({u \in 1..Len(blockedBy[k[1]]) : blockedBy[k[1]][u] = k[2]})
  <2>1. k[1] \in Pids /\ k[2] \in Pids /\ k[1] \in Sessions BY DEF Confirmed
  <2>2. k[1] \in Visited BY <2>1 DEF Visited
  <2>3. Cardinality(EdgesAt(k[1], k[2])) = Cardinality(Reports(k[1], k[2]))
    BY <2>1, <2>2 DEF ForestInv, EdgesCounted
  <2> QED BY <2>3 DEF EdgesAt, Reports
<1>2. \A u \in 1..Len(edges) :
          edges[u].labelled <=> <<edges[u].waiter, edges[u].blocker>> \in labels
  BY Zenon DEF ForestInv, EdgesLabelled
<1>3. /\ \A u, j \in 1..Len(edges) : u < j => ~Less(edges[j], edges[u])
      /\ \A u, j \in 1..Len(roots) : u < j => roots[u] < roots[j]
  BY DEF ForestInv, SortedAtEnd
<1>4. Range(roots) = isRoot BY DEF ForestInv, RootsKnown
<1> QED BY <1>1, <1>2, <1>3, <1>4, EdgePairs, Zenon

\* Above is closed: it has the blockers of p and those of its members; and it is the
\* least such set.
LEMMA AboveCloses ==
    ASSUME NEW p
    PROVE  /\ Above(p) \in SUBSET Pids
           /\ BlockersOf(p) \subseteq Above(p)
           /\ \A q \in Above(p) : BlockersOf(q) \subseteq Above(p)
           /\ \A C \in SUBSET Pids :
                 BlockersOf(p) \subseteq C /\ (\A c \in C : BlockersOf(c) \subseteq C) => Above(p) \subseteq C
<1> DEFINE Closed(C) == BlockersOf(p) \cup UNION {BlockersOf(c) : c \in C} \subseteq C
<1>1. \A q : BlockersOf(q) \subseteq Pids BY DEF BlockersOf
<1>2. Above(p) = {q \in Pids : \A C \in SUBSET Pids : Closed(C) => q \in C} BY DEF Above
<1>3. \A C \in SUBSET Pids :
          Closed(C) <=> BlockersOf(p) \subseteq C /\ \A c \in C : BlockersOf(c) \subseteq C
  OBVIOUS
<1> HIDE DEF Closed
<1>4. BlockersOf(p) \subseteq Above(p) BY <1>1, <1>2, <1>3
<1>5. ASSUME NEW q \in Above(p), NEW r \in BlockersOf(q) PROVE r \in Above(p)
  <2>1. r \in Pids BY <1>1
  <2>2. ASSUME NEW C \in SUBSET Pids, Closed(C) PROVE r \in C
    <3>1. q \in C BY <1>2, <2>2
    <3> QED BY <1>3, <2>2, <3>1
  <2> QED BY <1>2, <2>1, <2>2
<1>6. ASSUME NEW C \in SUBSET Pids, BlockersOf(p) \subseteq C, \A c \in C : BlockersOf(c) \subseteq C
      PROVE  Above(p) \subseteq C
  BY <1>2, <1>3, <1>6
<1> QED BY <1>2, <1>4, <1>5, <1>6

\* Whoever is above somebody above p is above p.
LEMMA AboveTransitive == ASSUME NEW p, NEW q \in Above(p) PROVE Above(q) \subseteq Above(p)
  BY AboveCloses

\* A nonempty set of naturals has a least element.
LEMMA Least == ASSUME NEW S \in SUBSET Nat, S # {} PROVE \E m \in S : \A k \in S : m <= k
<1>1. \E x \in S : \A y \in S : ~(<<y, x>> \in OpToRel(<, Nat))
  BY NatLessThanWellFounded, WFMin
<1>2. \E x \in S : \A y \in S : ~(y < x) BY <1>1 DEF OpToRel
<1> QED BY <1>2

\* If nobody above p is above himself, one of them has nobody above himself: the one
\* with the fewest.
LEMMA TopOfChain ==
    ASSUME NEW p, Above(p) # {}, \A q \in Above(p) : q \notin Above(q)
    PROVE  \E q \in Above(p) : Above(q) = {}
<1> DEFINE size(q) == Cardinality(Above(q))
           S == {size(q) : q \in Above(p)}
<1>1. \A q : IsFiniteSet(Above(q)) /\ size(q) \in Nat
  <2>1. \A q : Above(q) \in SUBSET Pids BY AboveCloses
  <2>2. \A q : IsFiniteSet(Above(q)) BY <2>1, PidsAssumption, FS_Subset
  <2> QED BY <2>2, FS_CardinalityType
<1>2. S \in SUBSET Nat /\ S # {}
  <2> HIDE DEF size
  <2> QED BY <1>1
<1>3. PICK m \in S : \A k \in S : m <= k
  <2> HIDE DEF S
  <2> QED BY <1>2, Least
<1>4. PICK q \in Above(p) : size(q) = m BY <1>3
<1> SUFFICES ASSUME NEW r \in Above(q) PROVE FALSE BY <1>4
<1>5. r \in Above(p) BY <1>4, AboveTransitive
<1>6. Above(r) \in SUBSET Above(q) /\ r \notin Above(r) BY <1>5, AboveTransitive
<1>7. size(r) <= size(q) /\ size(r) # size(q) BY <1>1, <1>6, FS_Subset
<1>8. size(r) \in S BY <1>5
<1> HIDE DEF size, S
<1>9. size(q) <= size(r) BY <1>3, <1>4, <1>8
<1> QED BY <1>1, <1>7, <1>9

\* Every waiter has a root above it, or leads into a cycle or off the session set.
LEMMA InvRoots == ASSUME ForestInv PROVE WaitersHaveRoots
<1> SUFFICES ASSUME at = "built", NEW p \in Sessions, blockedBy[p] # << >>
             PROVE  /\ p \notin Range(roots)
                    /\ \E q \in Range(roots) \cup {x \in Pids : x \in Above(x) \/ x \notin Sessions} :
                          q \in Above(p)
  BY DEF WaitersHaveRoots
<1>1. Range(roots) = {q \in isBlocker : IsHead(q)}
  BY DEF ForestInv, RootsKnown, LoopsInOrder
<1>2. p \notin Range(roots) BY <1>1 DEF IsHead
<1>3. Visited = Sessions BY DEF Visited
<1>4. \A q \in Sessions : BlockersOf(q) = Range(blockedBy[q])
  <2> SUFFICES ASSUME NEW q \in Sessions PROVE BlockersOf(q) = Range(blockedBy[q]) OBVIOUS
  <2>1. q \in Pids /\ blockedBy[q] \in Seq(Pids) BY DEF ForestInv, ForestTyped
  <2>2. Range(blockedBy[q]) \subseteq Pids BY <2>1 DEF Range
  <2> QED BY <2>1, <2>2 DEF BlockersOf, Confirmed
<1>5. \A q : q \notin Sessions => BlockersOf(q) = {} BY DEF BlockersOf, Confirmed
<1>6. \A q \in Sessions : blockedBy[q] # << >> => BlockersOf(q) # {}
  <2> SUFFICES ASSUME NEW q \in Sessions, blockedBy[q] # << >> PROVE Range(blockedBy[q]) # {}
    BY <1>4
  <2>1. blockedBy[q] \in Seq(Pids) BY DEF ForestInv, ForestTyped
  <2>2. 1 \in DOMAIN blockedBy[q] BY <2>1
  <2> QED BY <2>2 DEF Range
<1>7. isBlocker = UNION {BlockersOf(q) : q \in Sessions}
  <2>1. isBlocker = UNION {Range(blockedBy[q]) : q \in Sessions} BY <1>3 DEF ForestInv, BlockersKnown
  <2> QED BY <1>4, <2>1
<1>8. Above(p) \subseteq isBlocker
  <2>1. isBlocker \in SUBSET Pids BY <1>7 DEF BlockersOf
  <2>2. \A q : BlockersOf(q) \subseteq isBlocker BY <1>5, <1>7
  <2> QED BY <2>1, <2>2, AboveCloses
<1>9. \E q \in Range(roots) \cup {x \in Pids : x \in Above(x) \/ x \notin Sessions} : q \in Above(p)
  <2> SUFFICES ASSUME \A q \in Above(p) : q \notin Range(roots) /\ q \notin Above(q) /\ q \in Sessions
               PROVE  FALSE
    <3>1. Above(p) \subseteq Pids BY AboveCloses
    <3> QED BY <3>1
  <2>1. Above(p) # {} BY <1>6, AboveCloses
  <2>2. PICK q \in Above(p) : Above(q) = {} BY <2>1, TopOfChain
  <2>3. q \in Sessions /\ q \in isBlocker /\ q \notin Range(roots) BY <1>8
  <2>4. blockedBy[q] # << >> BY <1>1, <2>3 DEF IsHead
  <2>5. BlockersOf(q) # {} BY <1>6, <2>3, <2>4
  <2> QED BY <2>2, <2>5, AboveCloses
<1> QED BY <1>2, <1>9

\* ForestInit is a start of Build.
LEMMA ForestInitInv == ASSUME ForestInit PROVE ForestInv
<1>1. PICK S \in SUBSET Pids :
              /\ blockedBy \in {f \in [S -> UNION {Blockers(p) : p \in S}] :
                                    \A p \in S : f[p] \in Blockers(p)}
              /\ todo = S
  BY DEF ForestInit
<1>2. Sessions = S BY <1>1 DEF Sessions
<1>3. ASSUME NEW p \in S PROVE blockedBy[p] \in Seq(Pids)
  <2>1. blockedBy[p] \in BoundedSeq(Pids \ {p}, MaxBlockers) BY <1>1 DEF Blockers
  <2>2. PICK k \in Nat : blockedBy[p] \in [1..k -> Pids \ {p}]
    <3>1. PICK k \in 0..MaxBlockers : blockedBy[p] \in [1..k -> Pids \ {p}]
      BY <2>1, Zenon DEF BoundedSeq, SeqOf
    <3> QED BY <3>1, PidsAssumption
  <2>3. blockedBy[p] \in [1..k -> Pids] BY <2>2
  <2> QED BY <2>3
<1> QED BY <1>1, <1>2, <1>3, ForestStarts DEF ForestInit

\* Build on any result of the two queries, its loops in any order: its edges are the
\* confirmed pairs, once per report and with their labels, and edges and roots come
\* out sorted.
THEOREM EdgesConfirmed == ForestSpec => []EdgesAreConfirmed
<1>1. ForestInv => EdgesAreConfirmed BY InvConfirms
<1>2. ForestInit => ForestInv BY ForestInitInv
<1>3. ForestInv /\ [ForestNext]_forestVars => ForestInv' BY ForestStep
<1> QED BY <1>1, <1>2, <1>3, PTL DEF ForestSpec

\* Build never leaves a waiter without a root above it, unless there can be none.
THEOREM WaitersRooted == ForestSpec => []WaitersHaveRoots
<1>1. ForestInv => WaitersHaveRoots BY InvRoots
<1>2. ForestInit => ForestInv BY ForestInitInv
<1>3. ForestInv /\ [ForestNext]_forestVars => ForestInv' BY ForestStep
<1> QED BY <1>1, <1>2, <1>3, PTL DEF ForestSpec

-----------------------------------------------------------------------------
(* The lock table keeps its invariant *)

TableInv == LockTyped /\ QueuedOnce /\ OneWait /\ WaitsForSomebody
Once(q) == \A u, j \in 1..Len(q) : q[u] = q[j] => u = j

\* Those ahead of a row that stands in the queue once are the rows at lower positions.
LEMMA AheadIs ==
    ASSUME NEW S, NEW q \in Seq(S), Once(q), NEW u \in 1..Len(q)
    PROVE  Ahead(q, q[u]) = {q[a] : a \in 1..u-1}
<1>1. Len(q) \in Nat OBVIOUS
<1>2. {b \in 1..Len(q) : \A c \in 1..b : q[c] # q[u]} = 1..u-1
  <2>1. ASSUME NEW b \in 1..Len(q), \A c \in 1..b : q[c] # q[u] PROVE b \in 1..u-1
    <3>1. u \notin 1..b BY <2>1
    <3> QED BY <1>1, <3>1
  <2>2. ASSUME NEW b \in 1..u-1 PROVE b \in 1..Len(q) /\ \A c \in 1..b : q[c] # q[u]
    <3>1. b \in 1..Len(q) BY <1>1
    <3>2. ASSUME NEW c \in 1..b, q[c] = q[u] PROVE FALSE
      <4>1. c \in 1..Len(q) /\ c # u BY <1>1
      <4> QED BY <3>2, <4>1 DEF Once
    <3> QED BY <3>1, <3>2
  <2> QED BY <2>1, <2>2
<1> QED BY <1>2 DEF Ahead

\* The z elements of f are those of s in L, from ascending positions.
Picked(f, s, L, z, pos) ==
    /\ f = [k \in 1..z |-> s[pos[k]]]
    /\ \A k \in 1..z : pos[k] \in 1..Len(s) /\ s[pos[k]] \in L
    /\ \A k, m \in 1..z : k < m => pos[k] < pos[m]
    /\ \A u \in 1..Len(s) : s[u] \in L => \E k \in 1..z : pos[k] = u

\* Filtered takes the elements in L from ascending positions.
LEMMA FilteredPositions ==
    ASSUME NEW S, NEW s \in Seq(S), NEW L
    PROVE  \E z \in Nat : \E pos : Picked(Filtered(s, L), s, L, z, pos)
<1> DEFINE I == {u \in 1..Len(s) : s[u] \in L}
           z == Cardinality(I)
           pos == Ascending(I)
<1>1. I \in SUBSET Nat /\ IsFiniteSet(I)
  <2>1. Len(s) \in Nat OBVIOUS
  <2>2. IsFiniteSet(1..Len(s)) BY <2>1, FS_Interval
  <2>3. I \in SUBSET (1..Len(s)) OBVIOUS
  <2> QED BY <2>1, <2>2, <2>3, FS_Subset
<1>2. Filtered(s, L) = [k \in 1..z |-> s[pos[k]]] BY DEF Filtered
<1>3. /\ z \in Nat /\ pos \in [1..z -> I]
      /\ \A k, m \in 1..z : k < m => pos[k] < pos[m]
      /\ Range(pos) = I
  <2> HIDE DEF I
  <2> QED BY <1>1, AscendingLists
<1>4. \A u \in 1..Len(s) : s[u] \in L <=> u \in I OBVIOUS
<1>5. I \subseteq 1..Len(s) OBVIOUS
<1> HIDE DEF I, z, pos
<1>6. \A k \in 1..z : pos[k] \in I BY <1>3
<1>7. \A u \in I : \E k \in 1..z : pos[k] = u BY <1>3 DEF Range
<1>8. \A k \in 1..z : pos[k] \in 1..Len(s) /\ s[pos[k]] \in L BY <1>4, <1>5, <1>6
<1>9. \A u \in 1..Len(s) : s[u] \in L => \E k \in 1..z : pos[k] = u BY <1>4, <1>7
<1>10. Picked(Filtered(s, L), s, L, z, pos) BY <1>2, <1>3, <1>8, <1>9 DEF Picked
<1> QED BY <1>3, <1>10

\* A queue without some of its rows: the others are all there, each once, and those
\* that were ahead of a row still are.
LEMMA FilteredIs ==
    ASSUME NEW S, NEW s \in Seq(S), Once(s), NEW L
    PROVE  /\ Filtered(s, L) \in Seq(S) /\ Once(Filtered(s, L))
           /\ Range(Filtered(s, L)) = Range(s) \cap L
           /\ \A l \in Range(Filtered(s, L)) : Ahead(s, l) \cap L \subseteq Ahead(Filtered(s, L), l)
<1> DEFINE f == Filtered(s, L)
<1>0. PICK z \in Nat : \E pos : Picked(f, s, L, z, pos) BY FilteredPositions
<1>1. PICK pos : Picked(f, s, L, z, pos) BY <1>0
<1> HIDE DEF f
<1> USE DEF Picked
<1>2. Len(s) \in Nat /\ DOMAIN s = 1..Len(s) /\ \A u \in 1..Len(s) : s[u] \in S OBVIOUS
<1>3. f \in [1..z -> S] BY <1>1, <1>2
<1>4. f \in Seq(S) /\ Len(f) = z /\ DOMAIN f = 1..z BY <1>3
<1>5. \A k \in 1..z : f[k] = s[pos[k]] BY <1>1
<1>6. Once(f)
  <2> SUFFICES ASSUME NEW k \in 1..z, NEW m \in 1..z, f[k] = f[m] PROVE k = m
    BY <1>4 DEF Once
  <2>1. pos[k] = pos[m] BY <1>1, <1>5 DEF Once
  <2>2. ~(pos[k] < pos[m]) /\ ~(pos[m] < pos[k]) BY <1>1, <1>2, <2>1
  <2>3. ~(k < m) /\ ~(m < k) BY <1>1, <2>2
  <2> QED BY <2>3
<1>7. Range(f) = Range(s) \cap L
  <2>1. \A k \in 1..z : f[k] \in Range(s) \cap L BY <1>1, <1>2, <1>5 DEF Range
  <2>2. ASSUME NEW x \in Range(s) \cap L PROVE x \in Range(f)
    <3>1. PICK u \in 1..Len(s) : x = s[u] BY <1>2 DEF Range
    <3>2. PICK k \in 1..z : pos[k] = u BY <1>1, <3>1
    <3> QED BY <1>4, <1>5, <3>1, <3>2 DEF Range
  <2>3. \A x \in Range(f) : \E k \in 1..z : x = f[k] BY <1>4 DEF Range
  <2> QED BY <2>1, <2>2, <2>3
<1>8. ASSUME NEW l \in Range(f), NEW k \in Ahead(s, l) \cap L PROVE k \in Ahead(f, l)
  <2>1. PICK m \in 1..z : l = f[m] BY <1>4 DEF Range
  <2>2. pos[m] \in 1..Len(s) /\ l = s[pos[m]] BY <1>1, <1>5, <2>1
  <2>3. Ahead(s, l) = {s[a] : a \in 1..pos[m]-1} BY <2>2, AheadIs
  <2>4. PICK a \in 1..pos[m]-1 : k = s[a] BY <1>8, <2>3
  <2>5. a \in 1..Len(s) BY <1>2, <2>2
  <2>6. PICK j \in 1..z : pos[j] = a BY <1>1, <1>8, <2>4, <2>5
  <2>7. j < m
    <3>1. pos[j] < pos[m] BY <1>2, <2>2, <2>5, <2>6
    <3>2. j # m BY <1>2, <2>2, <3>1
    <3>3. ~(m < j)
      <4> SUFFICES ASSUME m < j PROVE FALSE OBVIOUS
      <4>1. pos[m] < pos[j] BY <1>1
      <4> QED BY <1>2, <2>2, <2>5, <2>6, <3>1, <4>1
    <3> QED BY <3>2, <3>3
  <2>8. j \in 1..m-1 /\ k = f[j] BY <1>5, <2>4, <2>6, <2>7
  <2>9. m \in 1..Len(f) BY <1>4
  <2>10. Ahead(f, l) = {f[b] : b \in 1..m-1} BY <1>4, <1>6, <2>1, <2>9, AheadIs
  <2> QED BY <2>8, <2>10
<1> QED BY <1>4, <1>6, <1>7, <1>8 DEF f

\* The rows of the queues, and what LockTyped says of them.
LEMMA WaitingRows ==
    ASSUME LockTyped
    PROVE  /\ Waiting \subseteq Lock
           /\ \A o \in Objects : Range(queue[o]) \subseteq Waiting
           /\ \A l \in Waiting : l.object \in Objects /\ l \in Range(queue[l.object])
<1>1. \A o \in Objects : queue[o] \in Seq(Lock) BY DEF LockTyped
<1>2. ASSUME NEW o \in Objects, NEW l \in Range(queue[o]) PROVE l \in Lock /\ l.object = o
  <2>1. PICK u \in 1..Len(queue[o]) : l = queue[o][u] BY <1>1 DEF Range
  <2> QED BY <1>1, <2>1 DEF LockTyped
<1>3. \A l \in Waiting : \E o \in Objects : l \in Range(queue[o]) BY DEF Waiting
<1> QED BY <1>2, <1>3 DEF Waiting

\* A backend waits once, so no more rows wait than there are backends.
LEMMA WaitingFinite == ASSUME LockTyped, OneWait PROVE IsFiniteSet(Waiting)
<1> DEFINE f == [l \in Waiting |-> l.pid]
<1>1. \A l \in Waiting : l.pid \in Backends BY WaitingRows DEF Lock
<1>2. f \in [Waiting -> Backends] BY <1>1
<1>3. \A l, k \in Waiting : f[l] = f[k] => l = k BY DEF OneWait
<1> HIDE DEF f
<1>4. f \in Injection(Waiting, Backends) BY <1>2, <1>3, Fun_IsInj
<1> QED BY <1>4, LocksAssumption, FS_Injection

\* A request is granted, or waits for those it clashes with.
LEMMA RequestStep == ASSUME TableInv, NEW l \in Lock, Request(l) PROVE TableInv'
<1> USE DEF TableInv
<1>0. changes' \in Nat BY LocksAssumption DEF Request, Changed, LockTyped
<1>1. l.object \in Objects /\ l.pid \in Backends BY DEF Lock
<1>2. ~Waits(l.pid) BY DEF Request
<1>3. \A k \in Waiting : k.pid # l.pid BY <1>2 DEF Waits
<1>4. CASE \E k \in held \cup Range(queue[l.object]) : Clash(l, k)
  <2> DEFINE o == l.object
             q == queue[o]
  <2>1. queue' = [queue EXCEPT ![o] = Append(q, l)] /\ held' = held BY <1>4 DEF Request
  <2>2. queue \in [Objects -> Seq(Lock)] /\ q \in Seq(Lock) BY <1>1 DEF LockTyped
  <2>3. queue'[o] = Append(q, l) /\ \A x \in Objects : x # o => queue'[x] = queue[x]
    BY <1>1, <2>1, <2>2
  <2>4. /\ Append(q, l) \in Seq(Lock) /\ Len(q) \in Nat /\ Len(Append(q, l)) = Len(q) + 1
        /\ DOMAIN q = 1..Len(q) /\ DOMAIN Append(q, l) = 1..Len(q)+1
        /\ \A u \in 1..Len(q) : Append(q, l)[u] = q[u]
        /\ Append(q, l)[Len(q) + 1] = l
    <3> HIDE DEF q
    <3> QED BY <2>2
  <2>5. \A u \in 1..Len(q)+1 : u \in 1..Len(q) \/ u = Len(q) + 1 BY <2>4
  <2>6. Range(Append(q, l)) = Range(q) \cup {l}
    <3> HIDE DEF q
    <3>1. \A u \in 1..Len(q) : u \in 1..Len(q)+1 BY <2>4
    <3>2. Len(q) + 1 \in 1..Len(q)+1 BY <2>4
    <3> QED BY <2>4, <2>5, <3>1, <3>2 DEF Range
  <2>7. l \notin Range(q) BY <1>1, <1>3, WaitingRows
  <2>8. Waiting' = Waiting \cup {l}
    <3>1. Waiting' = UNION {Range(queue'[x]) : x \in Objects} BY DEF Waiting, Range
    <3>2. \A x \in Objects : Range(queue'[x]) = IF x = o THEN Range(q) \cup {l} ELSE Range(queue[x])
      BY <2>3, <2>6
    <3> QED BY <1>1, <3>1, <3>2 DEF Waiting
  <2>9. LockTyped'
    <3>1. queue' \in [Objects -> Seq(Lock)] BY <2>1, <2>2, <2>4
    <3>2. ASSUME NEW x \in Objects, NEW u \in 1..Len(queue'[x]) PROVE queue'[x][u].object = x
      <4>1. CASE x # o BY <2>3, <4>1 DEF LockTyped
      <4>2. CASE x = o
        <5>1. u \in 1..Len(q) \/ u = Len(q) + 1 BY <2>3, <2>4, <2>5, <4>2
        <5>2. \A j \in 1..Len(q) : q[j].object = o BY <1>1 DEF LockTyped
        <5> QED BY <2>3, <2>4, <4>2, <5>1, <5>2
      <4> QED BY <4>1, <4>2
    <3> QED BY <1>0, <2>1, <3>1, <3>2 DEF LockTyped
  <2>10. Once(Append(q, l))
    <3>1. \A u \in 1..Len(q) : q[u] # l BY <2>4, <2>7 DEF Range
    <3>2. \A u, j \in 1..Len(q) : q[u] = q[j] => u = j BY <1>1 DEF QueuedOnce
    <3> HIDE DEF q
    <3> QED BY <2>4, <2>5, <3>1, <3>2 DEF Once
  <2>11. QueuedOnce'
    <3>1. \A x \in Objects : Once(queue'[x])
      <4>1. ASSUME NEW x \in Objects, x # o PROVE Once(queue'[x])
        BY <2>3, <4>1 DEF QueuedOnce, Once
      <4> QED BY <2>3, <2>10, <4>1
    <3> QED BY <3>1 DEF QueuedOnce, Once
  <2>12. OneWait' BY <1>3, <2>8 DEF OneWait
  <2>13. WaitsForSomebody'
    <3> SUFFICES ASSUME NEW w \in Waiting'
                 PROVE  \E k \in held' \cup Ahead(queue'[w.object], w) : Clash(w, k)
      BY DEF WaitsForSomebody, Clash, Ahead
    <3>1. CASE w = l
      <4>1. Len(q) + 1 \in 1..Len(Append(q, l)) /\ (Len(q) + 1) - 1 = Len(q) BY <2>4
      <4>2. Ahead(Append(q, l), Append(q, l)[Len(q) + 1]) =
                {Append(q, l)[a] : a \in 1..(Len(q)+1)-1}
        BY <2>4, <2>10, <4>1, AheadIs
      <4>3. Ahead(Append(q, l), l) = {Append(q, l)[a] : a \in 1..Len(q)}
        <5> HIDE DEF q
        <5> QED BY <2>4, <4>1, <4>2
      <4>4. Range(q) \subseteq Ahead(Append(q, l), l)
        <5> HIDE DEF q
        <5> QED BY <2>4, <4>3 DEF Range
      <4> QED BY <1>4, <2>1, <2>3, <3>1, <4>4
    <3>2. CASE w # l
      <4>1. w \in Waiting BY <2>8, <3>2
      <4>2. w.object \in Objects /\ w \in Range(queue[w.object]) BY <4>1, WaitingRows
      <4>3. PICK k \in held \cup Ahead(queue[w.object], w) : Clash(w, k)
        BY <4>1 DEF WaitsForSomebody
      <4>4. CASE w.object # o BY <2>1, <2>3, <4>2, <4>3, <4>4
      <4>5. CASE w.object = o
        <5>1. PICK u \in 1..Len(q) : w = q[u] BY <2>4, <4>2, <4>5 DEF Range
        <5>2. Once(q) BY <1>1 DEF QueuedOnce, Once
        <5>3. Ahead(q, w) = {q[a] : a \in 1..u-1} BY <2>2, <5>1, <5>2, AheadIs
        <5>4. u \in 1..Len(Append(q, l)) /\ w = Append(q, l)[u] BY <2>4, <5>1
        <5>5. Ahead(Append(q, l), w) = {Append(q, l)[a] : a \in 1..u-1}
          BY <2>4, <2>10, <5>4, AheadIs
        <5>6. \A a \in 1..u-1 : a \in 1..Len(q) BY <2>4, <5>1
        <5>7. Ahead(Append(q, l), w) = Ahead(q, w) BY <2>4, <5>3, <5>5, <5>6
        <5> QED BY <2>1, <2>3, <4>3, <4>5, <5>7
      <4> QED BY <4>4, <4>5
    <3> QED BY <3>1, <3>2
  <2> QED BY <2>9, <2>11, <2>12, <2>13
<1>5. CASE ~\E k \in held \cup Range(queue[l.object]) : Clash(l, k)
  <2>1. held' = held \cup {l} /\ queue' = queue BY <1>5 DEF Request
  <2>2. Waiting' = Waiting BY <2>1 DEF Waiting, Range
  <2>3. LockTyped' BY <1>0, <2>1, FS_AddElement DEF LockTyped
  <2>4. QueuedOnce' BY <2>1 DEF QueuedOnce
  <2>5. OneWait' BY <2>2 DEF OneWait
  <2>6. WaitsForSomebody' BY <2>1, <2>2 DEF WaitsForSomebody, Ahead, Clash
  <2> QED BY <2>3, <2>4, <2>5, <2>6
<1> QED BY <1>4, <1>5

\* The end of a transaction takes its rows away and grants those that nothing is in
\* the way of any more; everybody left in a queue still has a reason to wait.
LEMMA EndOfStep == ASSUME TableInv, NEW p, EndOf(p) PROVE TableInv'
<1> USE DEF TableInv
<1> DEFINE L == {l \in Waiting : l.pid # p}
           rest == [o \in Objects |-> Filtered(queue[o], L)]
           kept == {l \in held : l.pid # p}
           up == UNION {Woken(rest[o], kept) : o \in Objects}
<1>1. changes' \in Nat BY LocksAssumption DEF EndOf, Changed, LockTyped
<1>2. held' = kept \cup up /\ queue' = [o \in Objects |-> Filtered(rest[o], Waiting \ up)]
  BY DEF EndOf
<1>3. /\ \A o \in Objects : queue[o] \in Seq(Lock) /\ Once(queue[o])
      /\ L \subseteq Waiting /\ Waiting \subseteq Lock /\ kept \subseteq held
  BY WaitingRows DEF LockTyped, QueuedOnce, Once
<1>4. \A o \in Objects : rest[o] = Filtered(queue[o], L) OBVIOUS
<1>5. \A o \in Objects : Woken(rest[o], kept) \subseteq up OBVIOUS
<1>6. \A l \in up : \E o \in Objects : l \in Woken(rest[o], kept) OBVIOUS
<1> HIDE DEF L, rest, up
<1>7. ASSUME NEW o \in Objects
      PROVE  rest[o] \in Seq(Lock) /\ Once(rest[o]) /\ Range(rest[o]) = Range(queue[o]) \cap L
  BY <1>3, <1>4, FilteredIs
<1>8. ASSUME NEW o \in Objects
      PROVE  /\ queue'[o] \in Seq(Lock) /\ Once(queue'[o])
             /\ Range(queue'[o]) = Range(rest[o]) \cap (Waiting \ up)
             /\ \A l \in Range(queue'[o]) :
                   Ahead(rest[o], l) \cap (Waiting \ up) \subseteq Ahead(queue'[o], l)
  <2>1. queue'[o] = Filtered(rest[o], Waiting \ up) BY <1>2
  <2>2. rest[o] \in Seq(Lock) /\ Once(rest[o]) BY <1>7
  <2> QED BY <2>1, <2>2, FilteredIs
<1>9. \A o \in Objects : Range(queue'[o]) \subseteq Range(queue[o]) \cap (Waiting \ up)
  BY <1>7, <1>8
<1>10. Waiting' = UNION {Range(queue'[o]) : o \in Objects} BY DEF Waiting, Range
<1>11. Waiting' \subseteq Waiting \ up BY <1>9, <1>10
<1>12. up \subseteq Waiting
  <2>1. \A o \in Objects : Woken(rest[o], kept) \subseteq Range(rest[o]) BY DEF Woken
  <2> QED BY <1>3, <1>6, <1>7, <2>1
<1>13. \A o \in Objects : \A l \in Range(queue[o]) : l.object = o
  <2>1. \A o \in Objects : \A l \in Range(queue[o]) : \E u \in 1..Len(queue[o]) : l = queue[o][u]
    BY <1>3 DEF Range
  <2> QED BY <2>1 DEF LockTyped
<1>14. LockTyped'
  <2>1. held' \subseteq Lock BY <1>2, <1>3, <1>12 DEF LockTyped
  <2>2. IsFiniteSet(held')
    <3>1. IsFiniteSet(kept) BY <1>3, FS_Subset DEF LockTyped
    <3>2. IsFiniteSet(up) BY <1>12, WaitingFinite, FS_Subset
    <3> QED BY <1>2, <3>1, <3>2, FS_Union
  <2>3. queue' \in [Objects -> Seq(Lock)] BY <1>2, <1>8
  <2>4. ASSUME NEW o \in Objects, NEW u \in 1..Len(queue'[o]) PROVE queue'[o][u].object = o
    <3>1. queue'[o] \in Seq(Lock) BY <1>8
    <3>2. queue'[o][u] \in Range(queue'[o]) BY <3>1 DEF Range
    <3> QED BY <1>9, <1>13, <3>2
  <2> QED BY <1>1, <2>1, <2>2, <2>3, <2>4 DEF LockTyped
<1>15. QueuedOnce' BY <1>8 DEF QueuedOnce, Once
<1>16. OneWait' BY <1>11 DEF OneWait
<1>17. WaitsForSomebody'
  <2> SUFFICES ASSUME NEW w \in Waiting'
               PROVE  \E k \in held' \cup Ahead(queue'[w.object], w) : Clash(w, k)
    BY DEF WaitsForSomebody, Clash, Ahead
  <2>1. PICK o \in Objects : w \in Range(queue'[o]) BY <1>10
  <2>2. w.object = o /\ w \in Range(rest[o]) /\ w \notin up BY <1>8, <1>9, <1>13, <2>1
  <2>3. w \notin Woken(rest[o], kept) BY <1>5, <2>2
  <2>4. PICK k \in kept \cup Ahead(rest[o], w) : Clash(w, k) BY <2>2, <2>3 DEF Woken
  <2>5. CASE k \in held' BY <2>4, <2>5
  <2>6. CASE k \notin held'
    <3>1. k \in Ahead(rest[o], w) /\ k \notin up BY <1>2, <2>4, <2>6
    <3>2. k \in Range(rest[o])
      <4>1. rest[o] \in Seq(Lock) BY <1>7
      <4> QED BY <3>1, <4>1 DEF Ahead, Range
    <3>3. k \in Waiting BY <1>3, <1>7, <3>2
    <3>4. k \in Ahead(queue'[o], w) BY <1>8, <2>1, <3>1, <3>3
    <3> QED BY <2>2, <2>4, <3>4
  <2> QED BY <2>5, <2>6
<1> QED BY <1>14, <1>15, <1>16, <1>17

-----------------------------------------------------------------------------
(* What Snapshot has read *)

\* The blockers of p are finitely many backends, and listed each once.
LEMMA BlockersListed ==
    ASSUME NEW p
    PROVE  /\ Blocking(p) \subseteq Backends
           /\ Ascending(Blocking(p)) \in Seq(Backends)
           /\ Range(Ascending(Blocking(p))) = Blocking(p)
<1>1. Blocking(p) \subseteq Backends BY DEF Blocking, Lock
<1> DEFINE B == Blocking(p)
<1> HIDE DEF B
<1>2. B \subseteq Backends BY <1>1 DEF B
<1>3. B \in SUBSET Nat /\ IsFiniteSet(B) BY <1>2, LocksAssumption, FS_Subset
<1>4. /\ Cardinality(B) \in Nat /\ Ascending(B) \in [1..Cardinality(B) -> B]
      /\ Range(Ascending(B)) = B
  BY <1>3, AscendingLists
<1>5. Ascending(B) \in Seq(Backends) BY <1>2, <1>4
<1> QED BY <1>2, <1>4, <1>5 DEF B

\* While the table stays as it is, so does all that is computed from it.
LEMMA TableSame ==
    ASSUME UNCHANGED tableVars
    PROVE  Waiting' = Waiting /\ \A p : Blocking(p)' = Blocking(p)
<1>1. held' = held /\ queue' = queue BY DEF tableVars
<1> QED BY <1>1 DEF Waiting, Blocking, Ahead, Clash, Range

\* So does the list of the blockers.
LEMMA ListSame ==
    ASSUME UNCHANGED tableVars
    PROVE  \A p : Ascending(Blocking(p))' = Ascending(Blocking(p))
<1>1. held' = held /\ queue' = queue BY DEF tableVars
<1> QED BY <1>1 DEF Ascending, InOrder, Waiting, Blocking, Ahead, Clash, Range

\* A change of the table during a poll is counted, so nothing is claimed of the rows.
LEMMA ChangedStep ==
    ASSUME LockInv, TableInv', Changed, UNCHANGED pollVars
    PROVE  LockInv'
<1>1. /\ step' = step /\ unread' = unread /\ sessions' = sessions
      /\ waiting' = waiting /\ labelRows' = labelRows
  BY DEF pollVars
<1>2. SessionsRead' BY <1>1 DEF LockInv, SessionsRead
<1>3. step' # "idle" => changes' # 0 BY <1>1 DEF LockInv, LockTyped, Changed
<1>4. ReadIsCurrent' BY <1>3 DEF ReadIsCurrent
<1> QED BY <1>2, <1>4 DEF LockInv, TableInv

\* Every step of the database and of Snapshot keeps the invariant.
LEMMA LockStep == ASSUME LockInv, [LockNext]_lockVars PROVE LockInv'
<1>1. TableInv BY DEF LockInv, TableInv
<1>2. ASSUME UNCHANGED tableVars, changes' \in Nat PROVE TableInv'
  <2>1. held' = held /\ queue' = queue BY <1>2 DEF tableVars
  <2>2. LockTyped' BY <1>1, <1>2, <2>1 DEF TableInv, LockTyped
  <2>3. QueuedOnce' BY <1>1, <2>1 DEF TableInv, QueuedOnce
  <2>4. OneWait' BY <1>1, <1>2, TableSame DEF TableInv, OneWait
  <2>5. WaitsForSomebody'
    BY <1>1, <1>2, <2>1, TableSame DEF TableInv, WaitsForSomebody, Ahead, Clash
  <2> QED BY <2>2, <2>3, <2>4, <2>5 DEF TableInv
<1>3. changes \in Nat BY DEF LockInv, LockTyped
<1>4. CASE UNCHANGED lockVars
  <2>1. /\ UNCHANGED tableVars /\ UNCHANGED pollVars /\ changes' = changes
        /\ step' = step /\ unread' = unread /\ sessions' = sessions
        /\ waiting' = waiting /\ labelRows' = labelRows /\ held' = held
    BY <1>4 DEF lockVars, pollVars, tableVars
  <2>2. TableInv' BY <1>2, <1>3, <2>1
  <2>3. SessionsRead' BY <2>1 DEF LockInv, SessionsRead
  <2>4. ReadIsCurrent'
    <3>1. Waiting' = Waiting /\ \A p : Blocking(p)' = Blocking(p) BY <2>1, TableSame
    <3>2. JoinOf(Waiting, held)' = JoinOf(Waiting, held) BY <2>1, <3>1 DEF JoinOf
    <3>3. \A p : Ascending(Blocking(p))' = Ascending(Blocking(p)) BY <2>1, ListSame
    <3> QED BY <2>1, <3>1, <3>2, <3>3 DEF LockInv, ReadIsCurrent
  <2> QED BY <2>2, <2>3, <2>4 DEF LockInv, TableInv
<1>5. CASE StartPoll
  <2>1. TableInv' BY <1>2, <1>5 DEF StartPoll
  <2>2. step' = "sessions" /\ unread' = Clients /\ sessions' = Empty BY <1>5 DEF StartPoll
  <2>3. DOMAIN sessions' = {} BY <2>2 DEF Empty
  <2>4. SessionsRead' BY <2>2, <2>3 DEF SessionsRead
  <2>5. ReadIsCurrent' BY <2>2, <2>3 DEF ReadIsCurrent
  <2> QED BY <2>1, <2>4, <2>5 DEF LockInv, TableInv
<1>6. CASE PollFails
  <2>1. TableInv' BY <1>2, <1>6 DEF PollFails
  <2>2. step' = "idle" BY <1>6 DEF PollFails
  <2>3. SessionsRead' BY <2>2 DEF SessionsRead
  <2>4. ReadIsCurrent' BY <2>2 DEF ReadIsCurrent
  <2> QED BY <2>1, <2>3, <2>4 DEF LockInv, TableInv
<1>7. ASSUME NEW p \in Backends, ReadSession(p) PROVE LockInv'
  <2>1. /\ step = "sessions" /\ step' = "sessions" /\ p \in unread /\ unread' = unread \ {p}
        /\ UNCHANGED tableVars /\ changes' = changes
        /\ sessions' = [s \in DOMAIN sessions \cup {p} |->
                           IF s = p THEN Ascending(Blocking(p)) ELSE sessions[s]]
    BY <1>7 DEF ReadSession
  <2>2. TableInv' BY <1>2, <1>3, <2>1
  <2>3. /\ unread \subseteq Clients /\ DOMAIN sessions = Clients \ unread
        /\ \A s \in DOMAIN sessions : sessions[s] \in Seq(Backends)
    BY <2>1 DEF LockInv, SessionsRead
  <2>4. DOMAIN sessions' = DOMAIN sessions \cup {p} BY <2>1
  <2>5. \A s \in DOMAIN sessions' :
           sessions'[s] = IF s = p THEN Ascending(Blocking(p)) ELSE sessions[s]
    BY <2>1
  <2>6. SessionsRead'
    <3>1. unread' \subseteq Clients BY <2>1, <2>3
    <3>2. DOMAIN sessions' = Clients \ unread' BY <2>1, <2>3, <2>4
    <3>3. \A s \in DOMAIN sessions' : sessions'[s] \in Seq(Backends)
      BY <2>3, <2>4, <2>5, BlockersListed
    <3> QED BY <2>1, <3>1, <3>2, <3>3 DEF SessionsRead
  <2>7. ReadIsCurrent'
    <3>1. \A s : Blocking(s)' = Blocking(s) BY <2>1, TableSame
    <3>2. \A s : Ascending(Blocking(s))' = Ascending(Blocking(s)) BY <2>1, ListSame
    <3>3. changes = 0 => \A s \in DOMAIN sessions' : sessions'[s] = Ascending(Blocking(s))
      BY <2>1, <2>4, <2>5 DEF LockInv, ReadIsCurrent
    <3> QED BY <2>1, <3>2, <3>3 DEF ReadIsCurrent
  <2> QED BY <2>2, <2>6, <2>7 DEF LockInv, TableInv
<1>8. CASE ReadWaiters
  <2>1. /\ step = "sessions" /\ step' = "holders" /\ unread = {} /\ unread' = unread
        /\ sessions' = sessions /\ waiting' = Waiting
        /\ UNCHANGED tableVars /\ changes' = changes
    BY <1>8 DEF ReadWaiters
  <2>2. TableInv' BY <1>2, <1>3, <2>1
  <2>3. SessionsRead' BY <2>1 DEF LockInv, SessionsRead
  <2>4. ReadIsCurrent'
    <3>1. Waiting' = Waiting /\ \A s : Blocking(s)' = Blocking(s) BY <2>1, TableSame
    <3>2. \A s : Ascending(Blocking(s))' = Ascending(Blocking(s)) BY <2>1, ListSame
    <3> QED BY <2>1, <3>1, <3>2 DEF LockInv, ReadIsCurrent
  <2> QED BY <2>2, <2>3, <2>4 DEF LockInv, TableInv
<1>9. CASE ReadHolders
  <2>1. /\ step = "holders" /\ step' = "done" /\ unread' = unread
        /\ sessions' = sessions /\ waiting' = waiting /\ labelRows' = JoinOf(waiting, held)
        /\ UNCHANGED tableVars /\ changes' = changes /\ held' = held
    BY <1>9 DEF ReadHolders, JoinOf, tableVars
  <2>2. TableInv' BY <1>2, <1>3, <2>1
  <2>3. SessionsRead' BY <2>1 DEF LockInv, SessionsRead
  <2>4. ReadIsCurrent'
    <3>1. Waiting' = Waiting /\ \A s : Blocking(s)' = Blocking(s) BY <2>1, TableSame
    <3>2. \A s : Ascending(Blocking(s))' = Ascending(Blocking(s)) BY <2>1, ListSame
    <3>3. changes = 0 => waiting = Waiting BY <2>1 DEF LockInv, ReadIsCurrent
    <3>4. JoinOf(Waiting, held)' = JoinOf(Waiting, held) BY <2>1, <3>1 DEF JoinOf
    <3> QED BY <2>1, <3>1, <3>2, <3>3, <3>4 DEF LockInv, ReadIsCurrent
  <2> QED BY <2>2, <2>3, <2>4 DEF LockInv, TableInv
<1>10. ASSUME NEW p \in Backends, EndOf(p) PROVE LockInv'
  <2>1. Changed /\ UNCHANGED pollVars BY <1>10 DEF EndOf
  <2>2. TableInv' BY <1>1, <1>10, EndOfStep
  <2> QED BY <2>1, <2>2, ChangedStep
<1>11. ASSUME NEW l \in Lock, Request(l) PROVE LockInv'
  <2>1. Changed /\ UNCHANGED pollVars BY <1>11 DEF Request
  <2>2. TableInv' BY <1>1, <1>11, RequestStep
  <2> QED BY <2>1, <2>2, ChangedStep
<1> QED BY <1>4, <1>5, <1>6, <1>7, <1>8, <1>9, <1>10, <1>11 DEF LockNext

\* With no locks and no poll the invariant holds.
LEMMA LockInitInv == ASSUME LockInit PROVE LockInv
<1>1. \A o \in Objects : queue[o] = << >> BY DEF LockInit
<1>2. Waiting = {} BY <1>1 DEF Waiting, Range
<1>3. LockTyped
  <2>1. IsFiniteSet(held) BY FS_EmptySet DEF LockInit
  <2>2. queue \in [Objects -> Seq(Lock)] BY DEF LockInit
  <2> QED BY <1>1, <2>1, <2>2 DEF LockTyped, LockInit
<1>4. QueuedOnce BY <1>1 DEF QueuedOnce
<1>5. OneWait /\ WaitsForSomebody BY <1>2 DEF OneWait, WaitsForSomebody
<1>6. SessionsRead /\ ReadIsCurrent BY DEF LockInit, SessionsRead, ReadIsCurrent
<1> QED BY <1>3, <1>4, <1>5, <1>6 DEF LockInv

\* A blocker is in the way of the lock that the session waits for.
LEMMA WhyBlocking ==
    ASSUME NEW p, NEW b \in Blocking(p)
    PROVE  \E l \in Waiting : \E h \in Lock :
              /\ l.pid = p /\ h.pid = b /\ Clash(l, h)
              /\ h \in held \cup Ahead(queue[l.object], l)
BY DEF Blocking

\* If nothing changed, the rows are the join of the table as it is, and the label of an
\* edge is about the one lock the session waits for.
LEMMA InvLabels == ASSUME LockInv PROVE LabelsExplainEdges
<1> SUFFICES ASSUME Quiet, NEW w \in Clients, NEW b \in Range(sessions[w])
             PROVE  \E l \in Waiting :
                       LET there == {h \in held : h.pid = b /\ h.object = l.object}
                           rows == {r \in labelRows : r.waiter = w /\ r.blocker = b}
                       IN  /\ l.pid = w
                           /\ rows = {} => b \in {k.pid : k \in Ahead(queue[l.object], l)}
                           /\ \A r \in rows :
                                 /\ r.object = l.object /\ r.waiterMode = l.mode
                                 /\ r.blockerMode \in {h.mode : h \in there}
                           /\ (\E h \in there : Clash(l, h)) =>
                                 \E r \in rows : <<r.waiterMode, r.blockerMode>> \in Conflicts
  BY DEF LabelsExplainEdges
<1>1. /\ sessions[w] = Ascending(Blocking(w))
      /\ labelRows = JoinOf(Waiting, held)
  BY DEF LockInv, SessionsRead, ReadIsCurrent, Quiet
<1>2. b \in Blocking(w) BY <1>1, BlockersListed
<1>3. PICK l \in Waiting : \E h \in Lock :
         /\ l.pid = w /\ h.pid = b /\ Clash(l, h)
         /\ h \in held \cup Ahead(queue[l.object], l)
  BY <1>2, WhyBlocking
<1>4. PICK h \in Lock : /\ l.pid = w /\ h.pid = b /\ Clash(l, h)
                        /\ h \in held \cup Ahead(queue[l.object], l)
  BY <1>3
<1> DEFINE there == {g \in held : g.pid = b /\ g.object = l.object}
           rows == {r \in labelRows : r.waiter = w /\ r.blocker = b}
           row(x, y) == [waiter |-> x.pid, blocker |-> y.pid, object |-> x.object,
                         waiterMode |-> x.mode, blockerMode |-> y.mode]
<1>5. ASSUME NEW g \in there, Clash(l, g) PROVE row(l, g) \in rows
  <2>1. g \in held /\ Joined(l, g) BY <1>5 DEF Clash, Joined
  <2>2. <<l, g>> \in {x \in Waiting \X held : Joined(x[1], x[2])} BY <2>1
  <2>3. row(l, g) \in JoinOf(Waiting, held) BY <2>2 DEF JoinOf
  <2> QED BY <1>1, <1>4, <2>3
<1>6. rows = {} => b \in {k.pid : k \in Ahead(queue[l.object], l)}
  <2> SUFFICES ASSUME h \in held PROVE rows # {} BY <1>4
  <2>1. h \in there BY <1>4 DEF Clash
  <2> HIDE DEF there, rows, row
  <2> QED BY <1>4, <1>5, <2>1
<1>7. ASSUME NEW r \in rows
      PROVE  /\ r.object = l.object /\ r.waiterMode = l.mode
             /\ r.blockerMode \in {g.mode : g \in there}
  <2>1. PICK x \in Waiting \X held : Joined(x[1], x[2]) /\ r = row(x[1], x[2])
    <3>1. r \in JoinOf(Waiting, held) BY <1>1
    <3> QED BY <3>1 DEF JoinOf
  <2>2. x[1] = l
    <3>1. x[1] \in Waiting /\ x[1].pid = w BY <2>1
    <3> QED BY <1>4, <3>1 DEF LockInv, OneWait
  <2>3. x[2] \in there BY <2>1, <2>2 DEF Joined
  <2> QED BY <2>1, <2>2, <2>3
<1>8. (\E g \in there : Clash(l, g)) =>
         \E r \in rows : <<r.waiterMode, r.blockerMode>> \in Conflicts
  <2> SUFFICES ASSUME NEW g \in there, Clash(l, g)
               PROVE  \E r \in rows : <<r.waiterMode, r.blockerMode>> \in Conflicts
    OBVIOUS
  <2>1. row(l, g).waiterMode = l.mode /\ row(l, g).blockerMode = g.mode OBVIOUS
  <2>2. <<l.mode, g.mode>> \in Conflicts BY DEF Clash
  <2>3. row(l, g) \in rows BY <1>5
  <2> HIDE DEF row, rows
  <2> QED BY <2>1, <2>2, <2>3
<1> HIDE DEF rows, there
<1> QED BY <1>4, <1>6, <1>7, <1>8 DEF rows, there

\* If the lock table stood still while it was read, the label of every edge is about the
\* lock the waiter waits for and a lock of the blocker on the same object, and only an
\* edge to one who merely waits ahead has none (queries.go:45), for every set of
\* backends, objects, modes and conflicts.
THEOREM LabelsExplained == LockSpec => []LabelsExplainEdges
<1>1. LockInit => LockInv BY LockInitInv
<1>2. LockInv /\ [LockNext]_lockVars => LockInv' BY LockStep
<1>3. LockInv => LabelsExplainEdges BY InvLabels
<1> QED BY <1>1, <1>2, <1>3, PTL DEF LockSpec

-----------------------------------------------------------------------------
(* The poll as a whole *)

\* Where Build starts, and where it stands between two polls.
Starts == /\ NoForest /\ at \in {"none", "edges"} /\ Sessions \subseteq Pids
          /\ \A p \in Sessions : blockedBy[p] \in Seq(Pids)
          /\ todo = Sessions

\* A step to a start of Build establishes its invariant.
LEMMA StartsNext == Starts' => ForestInv'
<1>1. Starts => ForestInv BY ForestStarts DEF Starts
<1> QED BY <1>1, PTL

\* The sessions of a poll that is done, as Build takes them.
LEMMA SessionsDone ==
    ASSUME LockInv, step = "done"
    PROVE  DOMAIN sessions = Clients /\ \A p \in Clients : sessions[p] \in Seq(Pids)
<1>1. DOMAIN sessions = Clients /\ \A p \in Clients : sessions[p] \in Seq(Backends)
  BY DEF LockInv, SessionsRead
<1>2. ASSUME NEW p \in Clients PROVE sessions[p] \in Seq(Pids)
  <2>1. sessions[p] \in Seq(Backends) BY <1>1
  <2>2. Len(sessions[p]) \in Nat /\ sessions[p] \in [1..Len(sessions[p]) -> Backends] BY <2>1
  <2>3. sessions[p] \in [1..Len(sessions[p]) -> Pids] BY <2>2, BackendsHavePids
  <2> QED BY <2>2, <2>3
<1> QED BY <1>1, <1>2

\* Build begins with what Snapshot returned, and with nothing built.
LEMMA HandOverStep == ASSUME IngestInv, HandOver PROVE ForestInv'
<1>1. /\ step = "done" /\ at = "none" /\ at' = "edges" /\ blockedBy' = sessions /\ todo' = Clients
      /\ UNCHANGED <<edges, isBlocker, roots, isRoot>>
  BY DEF HandOver
<1>2. NoForest' BY <1>1 DEF IngestInv, NothingBuilt, NoBuild, NoForest
<1>3. DOMAIN sessions = Clients /\ \A p \in Clients : sessions[p] \in Seq(Pids)
  BY <1>1, SessionsDone DEF IngestInv
<1>4. Sessions' = Clients BY <1>1, <1>3 DEF Sessions
<1>5. Clients \subseteq Pids BY LocksAssumption, BackendsHavePids
<1>6. Starts' BY <1>1, <1>2, <1>3, <1>4, <1>5 DEF Starts
<1> QED BY <1>6, StartsNext

\* The next poll begins with nothing built.
LEMMA NextPollStep == ASSUME NextPoll PROVE ForestInv' /\ NoBuild'
<1>1. NoBuild' BY DEF NextPoll, NoBuild, NoForest
<1>2. Sessions' = {} BY DEF NextPoll, Sessions, Empty
<1>3. Starts' BY <1>1, <1>2 DEF Starts, NoBuild
<1> QED BY <1>1, <1>3, StartsNext

\* Every step of a poll keeps the invariant.
LEMMA IngestStep == ASSUME IngestInv, [IngestNext]_ingestVars PROVE IngestInv'
<1>1. CASE Reading
  <2>1. at = "none" /\ LockNext /\ UNCHANGED forestVars BY <1>1 DEF Reading
  <2>2. LockInv' BY <2>1, LockStep DEF IngestInv
  <2>3. ForestInv' BY <2>1, ForestStep DEF IngestInv
  <2>4. HandedOver' BY <2>1 DEF HandedOver, forestVars
  <2>5. NothingBuilt' BY <2>1 DEF IngestInv, NothingBuilt, NoBuild, NoForest, forestVars
  <2> QED BY <2>2, <2>3, <2>4, <2>5 DEF IngestInv
<1>2. CASE Building
  <2>0. UNCHANGED lockVars BY <1>2 DEF Building
  <2>1. step' = step /\ sessions' = sessions BY <2>0 DEF lockVars, pollVars
  <2>2. LockInv' BY <2>0, LockStep DEF IngestInv
  <2>3. CASE HandOver
    <3>1. ForestInv' BY <2>3, HandOverStep
    <3>2. HandedOver' /\ NothingBuilt' BY <2>1, <2>3 DEF HandOver, HandedOver, NothingBuilt
    <3> QED BY <2>2, <3>1, <3>2 DEF IngestInv
  <2>4. CASE ForestNext
    <3>1. ForestInv' BY <2>4, ForestStep DEF IngestInv
    <3>2. at # "none" /\ at' # "none" /\ blockedBy' = blockedBy
      BY <2>4 DEF ForestNext, StartRoots, Finish, VisitSession, VisitBlocker
    <3>3. HandedOver' /\ NothingBuilt' BY <2>1, <3>2 DEF IngestInv, HandedOver, NothingBuilt
    <3> QED BY <2>2, <3>1, <3>3 DEF IngestInv
  <2>5. CASE NextPoll
    <3>1. ForestInv' /\ NoBuild' BY <2>5, NextPollStep
    <3>2. HandedOver' /\ NothingBuilt' BY <3>1 DEF HandedOver, NothingBuilt, NoBuild
    <3> QED BY <2>2, <3>1, <3>2 DEF IngestInv
  <2> QED BY <1>2, <2>3, <2>4, <2>5 DEF Building
<1>3. CASE UNCHANGED ingestVars
  <2>1. UNCHANGED lockVars /\ UNCHANGED forestVars BY <1>3 DEF ingestVars
  <2>2. LockInv' BY <2>1, LockStep DEF IngestInv
  <2>3. ForestInv' BY <2>1, ForestStep DEF IngestInv
  <2>4. HandedOver' BY <2>1 DEF IngestInv, HandedOver, forestVars, lockVars, pollVars
  <2>5. NothingBuilt' BY <2>1 DEF IngestInv, NothingBuilt, NoBuild, NoForest, forestVars
  <2> QED BY <2>2, <2>3, <2>4, <2>5 DEF IngestInv
<1> QED BY <1>1, <1>2, <1>3 DEF IngestNext

\* Before the first poll the invariant holds.
LEMMA IngestInitInv == ASSUME IngestInit PROVE IngestInv
<1>1. LockInit /\ NoBuild BY DEF IngestInit
<1>2. Sessions = {} BY <1>1 DEF Sessions, NoBuild, Empty
<1>3. ForestInv BY <1>1, <1>2, ForestStarts DEF NoBuild
<1> QED BY <1>1, <1>3, LockInitInv DEF IngestInv, HandedOver, NothingBuilt, NoBuild

\* While the database, Snapshot and Build take turns, poll after poll, what Snapshot
\* claims of the labels and Build of edges and roots holds of every poll.
THEOREM PollsExplained ==
    IngestSpec => [](LabelsExplainEdges /\ EdgesAreConfirmed /\ WaitersHaveRoots)
<1>1. IngestInit => IngestInv BY IngestInitInv
<1>2. IngestInv /\ [IngestNext]_ingestVars => IngestInv' BY IngestStep
<1>3. IngestInv => LabelsExplainEdges /\ EdgesAreConfirmed /\ WaitersHaveRoots
  BY InvLabels, InvConfirms, InvRoots DEF IngestInv
<1> QED BY <1>1, <1>2, <1>3, PTL DEF IngestSpec

-----------------------------------------------------------------------------
(* The hot objects *)

\* A finite set as a sequence: every member, and nothing else.
LEMMA SetToSeqIs ==
    ASSUME NEW S, IsFiniteSet(S)
    PROVE  SetToSeq(S) \in Seq(S) /\ Range(SetToSeq(S)) = S
<1> DEFINE N == Cardinality(S)
           I == 1..N
           s == SetToSeq(S)
<1>1. N \in Nat /\ ExistsBijection(I, S) BY FS_CardinalityType
<1>2. IsFiniteSet(I) /\ Cardinality(I) = N
  <2>1. 1 \in Int /\ N \in Int /\ (IF 1 > N THEN 0 ELSE N - 1 + 1) = N BY <1>1
  <2> HIDE DEF N
  <2> QED BY <2>1, FS_Interval
<1>3. s = CHOOSE f \in [I -> S] : IsInjective(f) BY DEF SetToSeq
<1> HIDE DEF I, s
<1>4. PICK f : f \in Bijection(I, S) BY <1>1 DEF ExistsBijection
<1>5. f \in [I -> S] /\ \A a, b \in I : f[a] = f[b] => a = b BY <1>4, Fun_BijectionProperties
<1>6. IsInjective(f) BY <1>5 DEF IsInjective
<1>7. s \in [I -> S] /\ IsInjective(s) BY <1>3, <1>5, <1>6
<1>8. \A a, b \in I : s[a] = s[b] => a = b BY <1>7 DEF IsInjective
<1>9. s \in Injection(I, S) BY <1>7, <1>8, Fun_IsInj
<1>10. s \in Surjection(I, S) BY <1>2, <1>9, FS_Injection
<1>11. \A x \in S : \E k \in I : s[k] = x BY <1>10, Fun_SurjectionProperties
<1>12. Range(s) = S BY <1>7, <1>11 DEF Range
<1>13. s \in Seq(S)
  <2> HIDE DEF N
  <2> QED BY <1>1, <1>7 DEF I
<1> QED BY <1>12, <1>13 DEF s

Group == [object : Relations, waiters : Nat, holders : Nat]

\* There is one group for every relation that somebody waits for, and no other.
LEMMA GroupsAre ==
    ASSUME TableInv
    PROVE  /\ IsFiniteSet(Groups) /\ Groups \subseteq Group
           /\ \A g \in Groups : g.waiters = RowsOn(Waiting, g.object)
           /\ \A l \in Waiting : RelationOf[l.object] # NoRelation =>
                 \E g \in Groups : g.object = RelationOf[l.object]
<1> USE DEF TableInv
<1> DEFINE X == {r \in Relations : Having(r)}
           group(r) == [object |-> r, waiters |-> RowsOn(Waiting, r), holders |-> RowsOn(held, r)]
           f == [r \in X |-> group(r)]
<1>1. Groups = {group(r) : r \in X} BY DEF Groups
<1>2. IsFiniteSet(X)
  <2>1. X \in SUBSET Relations OBVIOUS
  <2> HIDE DEF X
  <2> QED BY <2>1, LocksAssumption, FS_Subset
<1>3. \A rows : IsFiniteSet(rows) => \A r :
         IsFiniteSet({l \in rows : RelationOf[l.object] = r}) /\ RowsOn(rows, r) \in Nat
  <2> SUFFICES ASSUME NEW rows, IsFiniteSet(rows), NEW r
               PROVE  IsFiniteSet({l \in rows : RelationOf[l.object] = r}) /\ RowsOn(rows, r) \in Nat
    OBVIOUS
  <2> DEFINE on == {l \in rows : RelationOf[l.object] = r}
  <2>1. on \in SUBSET rows OBVIOUS
  <2> HIDE DEF on
  <2>2. IsFiniteSet(on) /\ Cardinality(on) \in Nat BY <2>1, FS_Subset, FS_CardinalityType
  <2> QED BY <2>2 DEF on, RowsOn
<1>4. IsFiniteSet(Waiting) /\ IsFiniteSet(held) BY WaitingFinite DEF LockTyped
<1>5. \A r \in X : group(r) \in Group
  <2>1. \A r \in X : RowsOn(Waiting, r) \in Nat /\ RowsOn(held, r) \in Nat BY <1>3, <1>4
  <2> QED BY <2>1 DEF Group
<1>6. IsFiniteSet(Groups)
  <2>1. f \in [X -> Groups] BY <1>1
  <2>2. \A g \in Groups : \E r \in X : f[r] = g BY <1>1
  <2> HIDE DEF f, X
  <2>3. f \in Surjection(X, Groups) BY <2>1, <2>2, Fun_IsSurj
  <2> QED BY <1>2, <2>3, FS_Surjection
<1>7. \A g \in Groups : g.waiters = RowsOn(Waiting, g.object) BY <1>1
<1>8. ASSUME NEW l \in Waiting, RelationOf[l.object] # NoRelation
      PROVE  \E g \in Groups : g.object = RelationOf[l.object]
  <2> DEFINE r == RelationOf[l.object]
             on == {k \in Waiting : RelationOf[k.object] = r}
  <2>1. r \in Relations
    <3>1. l.object \in Objects BY WaitingRows
    <3> QED BY <1>8, <3>1, LocksAssumption
  <2>2. on # {} OBVIOUS
  <2> HIDE DEF r
  <2>3. IsFiniteSet(on) /\ RowsOn(Waiting, r) \in Nat BY <1>3, <1>4
  <2>4. RowsOn(Waiting, r) = Cardinality(on) BY DEF RowsOn
  <2> HIDE DEF on
  <2>5. RowsOn(Waiting, r) # 0 BY <2>2, <2>3, <2>4, FS_EmptySet
  <2>6. Having(r) BY <2>3, <2>5 DEF Having
  <2>7. r \in X BY <2>1, <2>6
  <2>8. group(r) \in Groups /\ group(r).object = r BY <1>1, <2>7
  <2> HIDE DEF group
  <2> QED BY <2>8 DEF r
<1> HIDE DEF group, X
<1>9. Groups \subseteq Group BY <1>1, <1>5
<1> QED BY <1>6, <1>7, <1>8, <1>9

\* ORDER BY of the hot objects: the groups in another order, and in that of HotBefore.
LEMMA SortHotIs ==
    ASSUME NEW s \in Seq(Group)
    PROVE  \E pos \in Bijection(1..Len(s), 1..Len(s)) :
              /\ Sorted(s, HotBefore) = [k \in 1..Len(s) |-> s[pos[k]]]
              /\ \A k \in 1..Len(s) : pos[k] \in 1..Len(s)
              /\ \A k, m \in 1..Len(s) : k < m => ~HotBefore(s[pos[m]], s[pos[k]])
<1> DEFINE N == Len(s)
           W == {x \in (1..N) \X (1..N) : HotBefore(s[x[1]], s[x[2]])}
           R == {x \in (1..N) \X (1..N) : \/ HotBefore(s[x[1]], s[x[2]])
                                          \/ ~HotBefore(s[x[2]], s[x[1]]) /\ x[1] < x[2]}
           pos == InOrder(1..N, R)
<1>1. N \in Nat OBVIOUS
<1>2. \A u, j \in 1..N : <<u, j>> \in W <=> HotBefore(s[u], s[j]) OBVIOUS
<1>3. \A u \in 1..N : s[u].waiters \in Nat /\ s[u].holders \in Nat
  <2>1. \A u \in 1..N : s[u] \in Group OBVIOUS
  <2> QED BY <2>1 DEF Group
<1>4. Stable(R, W, N)
  <2>1. \A u, j \in 1..N : <<u, j>> \in R <=> \/ HotBefore(s[u], s[j])
                                              \/ ~HotBefore(s[j], s[u]) /\ u < j
    OBVIOUS
  <2> HIDE DEF R, W
  <2> QED BY <1>2, <2>1 DEF Stable
<1>5. Sorted(s, HotBefore) = [k \in 1..N |-> s[pos[k]]] BY DEF Sorted
<1> HIDE DEF W, R, N
<1>6. Weak(W, N)
  <2>1. ASSUME NEW u \in 1..N, NEW j \in 1..N, <<u, j>> \in W PROVE <<j, u>> \notin W
    BY <1>2, <1>3, <2>1 DEF HotBefore
  <2>2. ASSUME NEW u \in 1..N, NEW j \in 1..N, NEW k \in 1..N, <<u, j>> \in W
        PROVE  <<u, k>> \in W \/ <<k, j>> \in W
    <3>1. \A a, b, c, d, e, f \in Nat :
              (a > c \/ (a = c /\ b > d)) =>
                  \/ a > e \/ (a = e /\ b > f)
                  \/ e > c \/ (e = c /\ f > d)
      OBVIOUS
    <3>2. s[u].waiters > s[j].waiters \/ (s[u].waiters = s[j].waiters /\ s[u].holders > s[j].holders)
      BY <1>2, <2>2 DEF HotBefore
    <3>3. \/ s[u].waiters > s[k].waiters \/ (s[u].waiters = s[k].waiters /\ s[u].holders > s[k].holders)
          \/ s[k].waiters > s[j].waiters \/ (s[k].waiters = s[j].waiters /\ s[k].holders > s[j].holders)
      BY <1>3, <3>1, <3>2
    <3> QED BY <1>2, <3>3 DEF HotBefore
  <2> QED BY <2>1, <2>2 DEF Weak
<1>7. /\ pos \in Bijection(1..N, 1..N)
      /\ \A k \in 1..N : pos[k] \in 1..N
      /\ \A k, m \in 1..N : k < m => <<pos[m], pos[k]>> \notin W
  BY <1>1, <1>4, <1>6, SortedPositions
<1> HIDE DEF pos
<1>8. \A k, m \in 1..N : k < m => ~HotBefore(s[pos[m]], s[pos[k]]) BY <1>2, <1>7
<1> QED BY <1>5, <1>7, <1>8 DEF N

\* The list of hot objects has the groups, those with the most waiters first.
LEMMA HotObjectsAre ==
    ASSUME TableInv
    PROVE  /\ Range(HotObjects) = Groups
           /\ \A a, b \in 1..Len(HotObjects) :
                 a < b => HotObjects[a].waiters >= HotObjects[b].waiters
<1> DEFINE s == SetToSeq(Groups)
           N == Len(s)
           I == 1..N
           hot == HotObjects
<1>1. s \in Seq(Groups) /\ Range(s) = Groups BY GroupsAre, SetToSeqIs
<1>2. Groups \subseteq Group BY GroupsAre
<1>3. hot = Sorted(s, HotBefore) BY DEF HotObjects
<1> HIDE DEF s, hot
<1>4. N \in Nat /\ DOMAIN s = 1..N /\ \A k \in 1..N : s[k] \in Groups BY <1>1
<1>5. s \in Seq(Group)
  <2>1. s \in [1..N -> Group] BY <1>1, <1>2, <1>4
  <2> HIDE DEF N
  <2> QED BY <1>4, <2>1
<1>6. PICK pos \in Bijection(I, I) :
              /\ Sorted(s, HotBefore) = [k \in 1..N |-> s[pos[k]]]
              /\ \A k \in 1..N : pos[k] \in 1..N
              /\ \A k, m \in 1..N : k < m => ~HotBefore(s[pos[m]], s[pos[k]])
  BY <1>5, SortHotIs
<1>7. hot = [k \in 1..N |-> s[pos[k]]] BY <1>3, <1>6
<1>8. \A x \in 1..N : \E k \in 1..N : pos[k] = x
  <2> HIDE DEF I
  <2>1. \A x \in I : \E k \in I : pos[k] = x BY <1>6, Fun_BijectionProperties
  <2> QED BY <2>1 DEF I
<1> HIDE DEF N
<1>9. DOMAIN hot = 1..N /\ Len(hot) = N BY <1>4, <1>7
<1>10. \A k \in 1..N : hot[k] = s[pos[k]] BY <1>7
<1>11. Range(hot) = Groups
  <2>1. \A k \in 1..N : hot[k] \in Groups BY <1>4, <1>6, <1>10
  <2>2. ASSUME NEW g \in Groups PROVE g \in Range(hot)
    <3>1. PICK x \in 1..N : g = s[x] BY <1>1, <1>4 DEF Range
    <3>2. PICK k \in 1..N : pos[k] = x BY <1>8
    <3> QED BY <1>9, <1>10, <3>1, <3>2 DEF Range
  <2> QED BY <1>9, <2>1, <2>2 DEF Range
<1>12. ASSUME NEW a \in 1..N, NEW b \in 1..N, a < b PROVE hot[a].waiters >= hot[b].waiters
  <2>1. ~HotBefore(hot[b], hot[a]) BY <1>6, <1>10, <1>12
  <2>2. hot[a] \in Group /\ hot[b] \in Group BY <1>2, <1>4, <1>6, <1>10
  <2>3. hot[a].waiters \in Nat /\ hot[b].waiters \in Nat BY <2>2 DEF Group
  <2> QED BY <2>1, <2>3 DEF HotBefore
<1> QED BY <1>9, <1>11, <1>12 DEF hot

-----------------------------------------------------------------------------
(* Two views of the same waits *)

\* A backend waits exactly if somebody blocks it.
LEMMA WaitsIffBlocked == ASSUME TableInv, NEW p PROVE Waits(p) <=> Blocking(p) # {}
<1>1. ASSUME NEW l \in Waiting, l.pid = p PROVE Blocking(p) # {}
  <2>1. PICK k \in held \cup Ahead(queue[l.object], l) : Clash(l, k)
    BY DEF TableInv, WaitsForSomebody
  <2>2. k \in Lock
    <3>1. l.object \in Objects BY WaitingRows DEF TableInv
    <3>2. queue[l.object] \in Seq(Lock) /\ held \subseteq Lock BY <3>1 DEF TableInv, LockTyped
    <3> QED BY <2>1, <3>2 DEF Ahead
  <2> QED BY <1>1, <2>1, <2>2 DEF Blocking
<1>2. ASSUME NEW b \in Blocking(p) PROVE Waits(p) BY <1>2, WhyBlocking DEF Waits
<1> QED BY <1>1, <1>2 DEF Waits

\* As many backends wait for a relation as rows wait for it, for each waits once.
LEMMA WaitersCounted ==
    ASSUME TableInv, NEW r
    PROVE  RowsOn(Waiting, r) = Cardinality({l.pid : l \in {k \in Waiting : RelationOf[k.object] = r}})
<1> DEFINE A == {k \in Waiting : RelationOf[k.object] = r}
           B == {l.pid : l \in A}
           f == [l \in A |-> l.pid]
<1>1. f \in [A -> B] OBVIOUS
<1>2. \A l, k \in A : f[l] = f[k] => l = k BY DEF TableInv, OneWait
<1>3. \A p \in B : \E l \in A : f[l] = p OBVIOUS
<1>4. IsFiniteSet(A)
  <2>1. A \in SUBSET Waiting OBVIOUS
  <2> HIDE DEF A
  <2> QED BY <2>1, WaitingFinite, FS_Subset DEF TableInv
<1>5. Cardinality(A) = Cardinality(B)
  <2> HIDE DEF A, B, f
  <2>1. f \in Bijection(A, B) BY <1>1, <1>2, <1>3, Fun_IsBij
  <2>2. ExistsBijection(A, B) BY <2>1 DEF ExistsBijection
  <2> QED BY <1>4, <2>2, FS_Bijection
<1> QED BY <1>5 DEF RowsOn

\* If nothing changed, Build worked on the blockers as they are.
LEMMA BuiltFrom ==
    ASSUME IngestInv, at = "built", Quiet
    PROVE  /\ Sessions = Clients
           /\ \A p \in Clients : /\ blockedBy[p] \in Seq(Pids)
                                 /\ Range(blockedBy[p]) = Blocking(p)
<1>1. step = "done" /\ blockedBy = sessions /\ changes = 0 BY DEF IngestInv, HandedOver, Quiet
<1>2. DOMAIN sessions = Clients /\ \A p \in Clients : sessions[p] \in Seq(Pids)
  BY <1>1, SessionsDone DEF IngestInv
<1>3. \A p \in Clients : sessions[p] = Ascending(Blocking(p))
  BY <1>1, <1>2 DEF IngestInv, LockInv, ReadIsCurrent
<1>4. \A p \in Clients : Range(sessions[p]) = Blocking(p) BY <1>3, BlockersListed
<1> QED BY <1>1, <1>2, <1>4 DEF Sessions

\* The forest has an edge for every waiting session and each of its blockers.
LEMMA EdgesAreWaits ==
    ASSUME IngestInv, at = "built", Quiet
    PROVE  {<<e.waiter, e.blocker>> : e \in Range(edges)} =
               {x \in Clients \X Backends : x[2] \in Blocking(x[1])}
<1>1. edges \in Seq(Edge) BY DEF IngestInv, ForestInv, ForestTyped
<1>2. {<<e.waiter, e.blocker>> : e \in Range(edges)} =
          {<<edges[u].waiter, edges[u].blocker>> : u \in 1..Len(edges)}
  BY <1>1 DEF Range
<1>3. {<<e.waiter, e.blocker>> : e \in Range(edges)} = Confirmed
  BY <1>2, EdgePairs DEF IngestInv
<1>4. Clients \subseteq Pids /\ Backends \subseteq Pids BY LocksAssumption, BackendsHavePids
<1>5. \A p : Blocking(p) \subseteq Backends BY BlockersListed
<1>6. ASSUME NEW k PROVE k \in Confirmed <=> k \in {x \in Clients \X Backends : x[2] \in Blocking(x[1])}
  BY <1>4, <1>5, BuiltFrom DEF Confirmed
<1> QED BY <1>3, <1>6

\* Its roots are the sessions that block somebody and wait for nobody.
LEMMA RootsAreHeads ==
    ASSUME IngestInv, at = "built", Quiet
    PROVE  Range(roots) =
               ((UNION {Blocking(w) : w \in Clients}) \ {p \in Backends : Waits(p)}) \cap Clients
<1> DEFINE above == UNION {Blocking(w) : w \in Clients}
           waiters == {p \in Backends : Waits(p)}
<1> SUFFICES Range(roots) = (above \ waiters) \cap Clients OBVIOUS
<1>1. TableInv BY DEF IngestInv, LockInv, TableInv
<1>2. Range(roots) = {p \in isBlocker : IsHead(p)}
  BY DEF IngestInv, ForestInv, RootsKnown, LoopsInOrder
<1>3. Visited = Clients BY BuiltFrom DEF Visited
<1>4. isBlocker = UNION {Range(blockedBy[w]) : w \in Clients}
  BY <1>3 DEF IngestInv, ForestInv, BlockersKnown
<1>5. isBlocker = above BY <1>4, BuiltFrom
<1>6. \A p \in Clients : blockedBy[p] = << >> <=> Blocking(p) = {}
  <2> SUFFICES ASSUME NEW p \in Clients PROVE blockedBy[p] = << >> <=> Blocking(p) = {} OBVIOUS
  <2>1. blockedBy[p] \in Seq(Pids) /\ Range(blockedBy[p]) = Blocking(p) BY BuiltFrom
  <2>2. blockedBy[p] # << >> => 1 \in DOMAIN blockedBy[p] BY <2>1
  <2>3. blockedBy[p] = << >> => DOMAIN blockedBy[p] = {} OBVIOUS
  <2> QED BY <2>1, <2>2, <2>3 DEF Range
<1>7. \A p \in Clients : IsHead(p) <=> ~Waits(p)
  BY <1>1, <1>6, BuiltFrom, WaitsIffBlocked DEF IsHead
<1>8. \A p : IsHead(p) => p \in Clients BY BuiltFrom DEF IsHead
<1>9. Clients \subseteq Backends BY LocksAssumption
<1>10. \A p \in Clients : p \in waiters <=> Waits(p) BY <1>9
<1> HIDE DEF above, waiters
<1>11. ASSUME NEW p PROVE p \in Range(roots) <=> p \in (above \ waiters) \cap Clients
  BY <1>2, <1>5, <1>7, <1>8, <1>10
<1> QED BY <1>11

\* The forest and the hot objects agree on who waits.
LEMMA InvViews == ASSUME IngestInv PROVE ViewsAgree
<1> DEFINE hot == HotObjects
           waiters == {p \in Backends : Waits(p)}
           heads == (UNION {Blocking(w) : w \in Clients}) \ waiters
           onRelation == {l \in Waiting : RelationOf[l.object] # NoRelation}
           atRelation(g) == {l.pid : l \in {k \in onRelation : RelationOf[k.object] = g.object}}
<1> SUFFICES ASSUME at = "built", Quiet
             PROVE  /\ {<<e.waiter, e.blocker>> : e \in Range(edges)} =
                           {x \in Clients \X Backends : x[2] \in Blocking(x[1])}
                    /\ {e.waiter : e \in Range(edges)} = Clients \cap waiters
                    /\ Range(roots) = heads \cap Clients
                    /\ UNION {atRelation(g) : g \in Range(hot)} = {l.pid : l \in onRelation}
                    /\ \A g \in Range(hot) : g.waiters = Cardinality(atRelation(g))
                    /\ \A a, b \in 1..Len(hot) : a < b => hot[a].waiters >= hot[b].waiters
  BY DEF ViewsAgree
<1>1. TableInv BY DEF IngestInv, LockInv, TableInv
<1>2. {<<e.waiter, e.blocker>> : e \in Range(edges)} =
          {x \in Clients \X Backends : x[2] \in Blocking(x[1])}
  BY EdgesAreWaits
<1>3. Range(roots) = heads \cap Clients BY RootsAreHeads
<1>4. Range(hot) = Groups BY <1>1, HotObjectsAre
<1>5. {e.waiter : e \in Range(edges)} = Clients \cap waiters
  <2>1. ASSUME NEW e \in Range(edges) PROVE e.waiter \in Clients /\ Blocking(e.waiter) # {}
    <3>1. <<e.waiter, e.blocker>> \in {x \in Clients \X Backends : x[2] \in Blocking(x[1])}
      BY <1>2
    <3> QED BY <3>1
  <2>2. ASSUME NEW p \in Clients, Blocking(p) # {} PROVE \E e \in Range(edges) : e.waiter = p
    <3>1. PICK b \in Blocking(p) : TRUE BY <2>2
    <3>2. b \in Backends BY BlockersListed
    <3>3. <<p, b>> \in {<<e.waiter, e.blocker>> : e \in Range(edges)} BY <1>2, <3>1, <3>2
    <3> QED BY <3>3
  <2>3. \A p \in Clients : p \in waiters <=> Blocking(p) # {}
    BY <1>1, LocksAssumption, WaitsIffBlocked
  <2> HIDE DEF waiters
  <2> QED BY <2>1, <2>2, <2>3
<1>6. UNION {atRelation(g) : g \in Range(hot)} = {l.pid : l \in onRelation}
  <2>1. ASSUME NEW l \in onRelation PROVE \E g \in Groups : l.pid \in atRelation(g)
    <3>1. PICK g \in Groups : g.object = RelationOf[l.object] BY <1>1, GroupsAre
    <3> QED BY <3>1
  <2>2. \A g \in Groups : atRelation(g) \subseteq {l.pid : l \in onRelation} OBVIOUS
  <2> HIDE DEF atRelation, onRelation, hot
  <2> QED BY <1>4, <2>1, <2>2
<1>7. ASSUME NEW g \in Range(hot) PROVE g.waiters = Cardinality(atRelation(g))
  <2>1. g.waiters = RowsOn(Waiting, g.object) BY <1>1, <1>4, GroupsAre
  <2>2. g.object \in Relations BY <1>1, <1>4, GroupsAre DEF Group
  <2>3. {k \in onRelation : RelationOf[k.object] = g.object} =
            {k \in Waiting : RelationOf[k.object] = g.object}
    BY <2>2, LocksAssumption
  <2> QED BY <1>1, <2>1, <2>3, WaitersCounted
<1>8. \A a, b \in 1..Len(hot) : a < b => hot[a].waiters >= hot[b].waiters
  BY <1>1, HotObjectsAre
<1> HIDE DEF hot, heads, atRelation, onRelation, waiters
<1> QED BY <1>2, <1>3, <1>5, <1>6, <1>7, <1>8

\* If the lock table stood still while it was read, the hot objects and the forest are
\* views of the same waits: an edge from every waiting session to each of its blockers,
\* a root for every session that blocks without waiting, and every wait for a relation
\* counted once at that relation, the most crowded first.
THEOREM ViewsOfTheSameWaits == IngestSpec => []ViewsAgree
<1>1. IngestInit => IngestInv BY IngestInitInv
<1>2. IngestInv /\ [IngestNext]_ingestVars => IngestInv' BY IngestStep
<1>3. IngestInv => ViewsAgree BY InvViews
<1> QED BY <1>1, <1>2, <1>3, PTL DEF IngestSpec

-----------------------------------------------------------------------------
(* The inductive invariant of Mask *)

\* What has been written is right for the text before j: nothing of a value, and all
\* that is plain, in its order.
IsPlain(p) == p \in 1..n /\ role[p] = "plain"
Good(o, j) == /\ o \in Seq(-1..n)
              /\ \A k \in 1..Len(o) : o[k] > 0 => role[o[k]] # "value"
              /\ \A k \in 1..Len(o) : IsPlain(o[k]) => o[k] < j
              /\ \A p \in 1..n : IsPlain(p) /\ p < j => \E k \in 1..Len(o) : o[k] = p
              /\ \A h, k \in 1..Len(o) : h < k /\ IsPlain(o[h]) /\ IsPlain(o[k]) => o[h] < o[k]

\* What Mask takes a lexeme for, from b up to before c.  A parameter is a word to it.
Skipped(b, c) == \A j \in b..c-1 : role[j] # "plain"
AsWord(b, c) == /\ \A j \in b..c-1 : OfWord(text[j]) /\ role[j] # "value"
                /\ \A j \in b..c-1 : \A k \in 1..n : ~IsTag(j, k)
                /\ \A j \in b+1..c-1 : text[j] = "d" => text[j - 1] \notin Wide
                /\ text[b] # "d" /\ At(c) # "d"
AsSymbol(b, c) == Symbol(b, c) /\ role[b] # "value"
AsIdent(b, c) == Quoting(b, c, "\"") /\ \A j \in b..c-1 : role[j] # "value"
AsString(b, c) == Quoting(b, c, "q") /\ Skipped(b, c)
AsQuote(b, c) ==
    /\ \E k \in 1..n :
          /\ IsTag(b, k)
          /\ \/ c = n + 1 /\ \A m \in 1..n : ~Repeats(b, k, m)
             \/ \E m \in 1..n : /\ Repeats(b, k, m) /\ \A h \in 1..m-1 : ~Repeats(b, k, h)
                                /\ c = m + (k - b) + 1
    /\ \A j \in b..c-1 : Bytes[text[j]] = 1
    /\ Skipped(b, c)
AsNumber(b, c) == /\ text[b] = "d" /\ ~isWord(At(b - 1))
                  /\ \A j \in b+1..c-1 : Continues(j)
                  /\ ~Continues(c) /\ Skipped(b, c)
AsLine(b, c) == /\ IsLine(b) /\ b + 1 < c /\ \A j \in b..c-1 : text[j] # "nl"
                /\ At(c) \in {"nl", "end"}
                /\ role[b] = "mark" /\ role[b + 1] = "mark" /\ Skipped(b, c)
AsBlock(b, c) == /\ IsBlock(b) /\ b + 1 < c /\ \A j \in b+2..c-3 : ~IsBlockEnd(j)
                 /\ c = n + 1 \/ (b + 4 <= c /\ IsBlockEnd(c - 2))
                 /\ role[b] = "mark" /\ role[b + 1] = "mark" /\ Skipped(b, c)

\* A text of which it takes every lexeme for what it is.
TakenRight(b, c) == \/ AsWord(b, c) \/ AsSymbol(b, c) \/ AsIdent(b, c) \/ AsString(b, c)
                    \/ AsQuote(b, c) \/ AsNumber(b, c) \/ AsLine(b, c) \/ AsBlock(b, c)
Taken == /\ n > 0 => \E l \in lexemes : l[1] = 1
         /\ \A l \in lexemes : /\ l[1] \in 1..n /\ l[2] \in l[1]+1..n+1
                               /\ l[2] <= n => \E k \in lexemes : k[1] = l[2]
                               /\ TakenRight(l[1], l[2])

\* Position j is inside the lexeme from b up to before c, where the loop m goes through
\* it; the switch does so with words.
Inside(b, c, m, j) ==
    \/ m = "switch" /\ AsWord(b, c) /\ b < j /\ j < c /\ (text[j] = "d" => isWord(At(j - 1)))
    \/ m = "line" /\ AsLine(b, c) /\ j \in b..c
    \/ m = "block" /\ AsBlock(b, c) /\ j \in b+2..c /\ (c <= n => j <= c - 2)
    \/ m = "string" /\ AsString(b, c) /\ j \in b+1..c /\ (j = c => c = n + 1)
    \/ m = "param" /\ AsWord(b, c) /\ j \in b+1..c
    \/ m = "ident" /\ AsIdent(b, c) /\ j \in b+1..c /\ (j = c => c = n + 1)
    \/ m = "number" /\ AsNumber(b, c) /\ j \in b..c

\* Mask is where a lexeme starts or inside of one.
Where(m, j) == \/ m = "switch" /\ (j = n + 1 \/ \E l \in lexemes : l[1] = j)
               \/ \E l \in lexemes : Inside(l[1], l[2], m, j)

TextTyped == /\ text \in Seq(Chars) /\ role \in [1..n -> {"value", "plain", "mark"}]
             /\ lexemes \subseteq Nat \X Nat

MaskInv == TextTyped /\ Taken /\ i \in 1..n+1 /\ Where(mode, i) /\ Good(out, i)

-----------------------------------------------------------------------------
(* What Mask has written *)

\* Nothing plain was skipped.
LEMMA GoodSkip ==
    ASSUME n \in Nat, NEW o, NEW j \in Nat, NEW m \in Nat, Good(o, j), j <= m,
           \A p \in 1..n : j <= p /\ p < m => ~IsPlain(p)
    PROVE  Good(o, m)
<1>1. \A k \in 1..Len(o) : IsPlain(o[k]) => o[k] < m
  <2> SUFFICES ASSUME NEW k \in 1..Len(o), IsPlain(o[k]) PROVE o[k] < m OBVIOUS
  <2>1. o[k] < j /\ o[k] \in 1..n BY DEF Good, IsPlain
  <2> QED BY <2>1
<1>2. \A p \in 1..n : IsPlain(p) /\ p < m => p < j OBVIOUS
<1> QED BY <1>1, <1>2 DEF Good

\* Marks and holes may be written at any time.
LEMMA GoodMarks ==
    ASSUME n \in Nat, NEW o, NEW j, Good(o, j), NEW s \in Seq(-1..n),
           \A k \in 1..Len(s) : s[k] > 0 => role[s[k]] = "mark"
    PROVE  Good(o \o s, j)
<1> DEFINE t == o \o s
<1>1. o \in Seq(-1..n) /\ Len(o) \in Nat /\ Len(s) \in Nat BY DEF Good
<1>2. t \in Seq(-1..n) /\ Len(t) = Len(o) + Len(s) BY <1>1
<1>3. \A k \in 1..Len(t) : t[k] = IF k <= Len(o) THEN o[k] ELSE s[k - Len(o)]
  BY <1>1, ConcatProperties, Zenon
<1> HIDE DEF t
<1>4. \A k \in 1..Len(t) : \/ k \in 1..Len(o) /\ t[k] = o[k]
                           \/ k - Len(o) \in 1..Len(s) /\ t[k] = s[k - Len(o)]
  BY <1>1, <1>2, <1>3
<1>5. \A k \in 1..Len(s) : ~IsPlain(s[k])
  <2> SUFFICES ASSUME NEW k \in 1..Len(s), IsPlain(s[k]) PROVE FALSE OBVIOUS
  <2>1. s[k] > 0 /\ role[s[k]] = "plain" BY DEF IsPlain
  <2> QED BY <2>1
<1>6. \A k \in 1..Len(t) : IsPlain(t[k]) => k \in 1..Len(o) /\ t[k] = o[k] BY <1>4, <1>5
<1>7. \A k \in 1..Len(o) : k \in 1..Len(t) /\ t[k] = o[k] BY <1>1, <1>2, <1>3
<1>8. \A k \in 1..Len(t) : t[k] > 0 => role[t[k]] # "value"
  <2> SUFFICES ASSUME NEW k \in 1..Len(t), t[k] > 0 PROVE role[t[k]] # "value" OBVIOUS
  <2>1. CASE k \in 1..Len(o) /\ t[k] = o[k] BY <2>1 DEF Good
  <2>2. CASE k - Len(o) \in 1..Len(s) /\ t[k] = s[k - Len(o)]
    <3>1. role[t[k]] = "mark" BY <2>2
    <3> QED BY <3>1
  <2> QED BY <1>4, <2>1, <2>2
<1>9. \A k \in 1..Len(t) : IsPlain(t[k]) => t[k] < j BY <1>6 DEF Good
<1>10. \A p \in 1..n : IsPlain(p) /\ p < j => \E k \in 1..Len(t) : t[k] = p BY <1>7 DEF Good
<1>11. \A h, k \in 1..Len(t) : h < k /\ IsPlain(t[h]) /\ IsPlain(t[k]) => t[h] < t[k]
  BY <1>6 DEF Good
<1>12. Good(t, j) BY <1>2, <1>8, <1>9, <1>10, <1>11 DEF Good
<1> QED BY <1>12 DEF t

\* A character that is no value may be copied when it is its turn.
LEMMA GoodCopy ==
    ASSUME n \in Nat, NEW o, NEW j \in 1..n, Good(o, j), role[j] # "value"
    PROVE  Good(o \o <<j>>, j + 1)
<1> DEFINE t == o \o <<j>>
<1>1. o \in Seq(-1..n) /\ Len(o) \in Nat BY DEF Good
<1>2. t \in Seq(-1..n) /\ Len(t) = Len(o) + 1 BY <1>1
<1>3. (\A k \in 1..Len(o) : t[k] = o[k]) /\ t[Len(o) + 1] = j BY <1>1
<1> HIDE DEF t
<1>4. \A k \in 1..Len(t) : k \in 1..Len(o) \/ k = Len(o) + 1 BY <1>1, <1>2
<1>5. \A k \in 1..Len(o) : k \in 1..Len(t) BY <1>1, <1>2
<1>6. Len(o) + 1 \in 1..Len(t) BY <1>1, <1>2
<1>7. \A k \in 1..Len(t) : t[k] > 0 => role[t[k]] # "value" BY <1>3, <1>4 DEF Good
<1>8. \A k \in 1..Len(o) : IsPlain(o[k]) => o[k] < j BY DEF Good
<1>9. \A k \in 1..Len(t) : IsPlain(t[k]) => t[k] < j + 1
  <2> SUFFICES ASSUME NEW k \in 1..Len(t), IsPlain(t[k]) PROVE t[k] < j + 1 OBVIOUS
  <2>1. t[k] \in Nat BY DEF IsPlain
  <2>2. t[k] < j \/ t[k] = j BY <1>3, <1>4, <1>8
  <2> QED BY <2>1, <2>2
<1>10. ASSUME NEW p \in 1..n, IsPlain(p), p < j + 1 PROVE \E k \in 1..Len(t) : t[k] = p
  <2>1. p = j \/ p < j BY <1>10
  <2>2. CASE p = j BY <1>3, <1>6, <2>2
  <2>3. CASE p < j
    <3>1. PICK k \in 1..Len(o) : o[k] = p BY <1>10, <2>3 DEF Good
    <3> QED BY <1>3, <1>5, <3>1
  <2> QED BY <2>1, <2>2, <2>3
<1>11. ASSUME NEW h \in 1..Len(t), NEW k \in 1..Len(t), h < k, IsPlain(t[h]), IsPlain(t[k])
       PROVE  t[h] < t[k]
  <2>1. h \in 1..Len(o) BY <1>1, <1>2, <1>4, <1>11
  <2>2. CASE k \in 1..Len(o) BY <1>3, <1>11, <2>1, <2>2 DEF Good
  <2>3. CASE k = Len(o) + 1 BY <1>3, <1>8, <1>11, <2>1, <2>3
  <2> QED BY <1>4, <2>2, <2>3
<1>12. Good(t, j + 1) BY <1>2, <1>7, <1>9, <1>10, <1>11 DEF Good
<1> QED BY <1>12 DEF t

-----------------------------------------------------------------------------
(* Where Mask is *)

\* The marks are no characters of several bytes.
LEMMA MarksNarrow == {"q", "-", "/", "d", "nl"} \cap Wide = {} /\ "\"" \notin Wide
<1>1. {"q", "-", "/", "d", "nl"} \subseteq Marks /\ "\"" \in Marks BY Zenon DEF Marks
<1>2. \A c \in Marks : Bytes[c] = 1 BY RedactionAssumption, Zenon
<1>3. \A c \in Marks : c \notin Wide BY <1>2 DEF Wide
<1> QED BY <1>1, <1>3, Zenon

\* They are no part of a word.
LEMMA NoWords == ~OfWord("q") /\ ~OfWord("-") /\ ~OfWord("/")
<1>1. "q" \notin Wide /\ "-" \notin Wide /\ "/" \notin Wide BY MarksNarrow
<1> QED BY <1>1 DEF OfWord, isWord

\* Nor is a double quote.
LEMMA NoWordQuote == ~OfWord("\"")
<1>1. "\"" \notin Wide BY MarksNarrow
<1> QED BY <1>1, Zenon DEF OfWord, isWord

\* What a lexeme is can be told from its first characters.
LEMMA Kinds ==
    ASSUME TextTyped, Taken, NEW l \in lexemes
    PROVE  LET b == l[1]
               c == l[2]
           IN  /\ b \in 1..n /\ c \in b+1..n+1 /\ At(b) = text[b]
               /\ text[b] = "q" => AsString(b, c)
               /\ text[b] = "\"" => AsIdent(b, c)
               /\ text[b] = "d" => AsNumber(b, c)
               /\ IsLine(b) => AsLine(b, c)
               /\ IsBlock(b) => AsBlock(b, c)
               /\ text[b] = "$" /\ (\A k \in 1..n : ~IsTag(b, k)) => AsWord(b, c)
               /\ \A k \in 1..n : IsTag(b, k) => AsQuote(b, c)
               /\ text[b] \notin {"q", "\"", "d", "$"} /\ ~IsLine(b) /\ ~IsBlock(b) =>
                     AsWord(b, c) \/ AsSymbol(b, c)
<1> DEFINE b == l[1]
           c == l[2]
<1>1. /\ b \in 1..n /\ c \in b+1..n+1
      /\ \/ AsWord(b, c) \/ AsSymbol(b, c) \/ AsIdent(b, c) \/ AsString(b, c)
         \/ AsQuote(b, c) \/ AsNumber(b, c) \/ AsLine(b, c) \/ AsBlock(b, c)
  BY DEF Taken, TakenRight
<1>2. At(b) = text[b] /\ n \in Nat BY <1>1 DEF At, TextTyped, n
<1> HIDE DEF b, c
<1>3. /\ AsWord(b, c) => OfWord(text[b]) /\ text[b] # "d" /\ \A k \in 1..n : ~IsTag(b, k)
      /\ AsSymbol(b, c) => ~OfWord(text[b]) /\ text[b] # "q" /\ ~IsLine(b) /\ ~IsBlock(b)
      /\ AsSymbol(b, c) => text[b] # "\""
  <2>1. b \in b..c-1 BY <1>1, <1>2
  <2>2. AsWord(b, c) => OfWord(text[b]) /\ text[b] # "d" /\ \A k \in 1..n : ~IsTag(b, k)
    BY <2>1 DEF AsWord
  <2>3. AsSymbol(b, c) => ~OfWord(text[b]) /\ text[b] # "q" /\ ~IsLine(b) /\ ~IsBlock(b)
    BY Zenon DEF AsSymbol, Symbol
  <2>4. AsSymbol(b, c) => text[b] # "\"" BY Zenon DEF AsSymbol, Symbol
  <2> QED BY <2>2, <2>3, <2>4
<1>4. /\ AsIdent(b, c) => text[b] = "\""
      /\ AsString(b, c) => text[b] = "q"
      /\ AsQuote(b, c) => text[b] = "$" /\ \E k \in 1..n : IsTag(b, k)
      /\ AsNumber(b, c) => text[b] = "d"
  <2>1. AsIdent(b, c) => text[b] = "\"" BY Zenon DEF AsIdent, Quoting
  <2>2. AsString(b, c) => text[b] = "q" BY Zenon DEF AsString, Quoting
  <2>3. AsQuote(b, c) => text[b] = "$" /\ \E k \in 1..n : IsTag(b, k) BY <1>2, Zenon DEF AsQuote, IsTag
  <2>4. AsNumber(b, c) => text[b] = "d" BY DEF AsNumber
  <2> QED BY <2>1, <2>2, <2>3, <2>4
<1>5. /\ AsLine(b, c) => IsLine(b)
      /\ AsBlock(b, c) => IsBlock(b)
  BY DEF AsLine, AsBlock
<1>6. /\ IsLine(b) => text[b] = "-"
      /\ IsBlock(b) => text[b] = "/"
      /\ \A k \in 1..n : IsTag(b, k) => text[b] = "$"
  BY <1>2 DEF IsLine, IsBlock, IsTag
<1>7. /\ ~OfWord("q") /\ ~OfWord("-") /\ ~OfWord("/") /\ ~OfWord("\"")
      /\ OfWord("$") /\ OfWord("d")
  BY NoWords, NoWordQuote DEF OfWord, isWord
<1>8. text[b] = "q" => AsString(b, c) BY <1>1, <1>3, <1>4, <1>5, <1>6, <1>7
<1>9. text[b] = "\"" => AsIdent(b, c) BY <1>1, <1>3, <1>4, <1>5, <1>6, <1>7
<1>10. text[b] = "d" => AsNumber(b, c) BY <1>1, <1>3, <1>4, <1>5, <1>6, <1>7
<1>11. IsLine(b) => AsLine(b, c) BY <1>1, <1>3, <1>4, <1>5, <1>6, <1>7
<1>12. IsBlock(b) => AsBlock(b, c) BY <1>1, <1>3, <1>4, <1>5, <1>6, <1>7
<1>13. text[b] = "$" /\ (\A k \in 1..n : ~IsTag(b, k)) => AsWord(b, c)
  BY <1>1, <1>3, <1>4, <1>5, <1>6, <1>7
<1>14. \A k \in 1..n : IsTag(b, k) => AsQuote(b, c) BY <1>1, <1>3, <1>4, <1>5, <1>6, <1>7
<1>15. text[b] \notin {"q", "\"", "d", "$"} /\ ~IsLine(b) /\ ~IsBlock(b) =>
          AsWord(b, c) \/ AsSymbol(b, c)
  BY <1>1, <1>3, <1>4, <1>5, <1>6, <1>7
<1> QED BY <1>1, <1>2, <1>8, <1>9, <1>10, <1>11, <1>12, <1>13, <1>14, <1>15 DEF b, c

\* Past a lexeme there is the next one or the end.
LEMMA PastLexeme ==
    ASSUME TextTyped, Taken, NEW l \in lexemes
    PROVE  Where("switch", l[2]) /\ l[2] \in 1..n+1
<1>1. /\ l[1] \in 1..n /\ l[2] \in l[1]+1..n+1 /\ n \in Nat
      /\ l[2] <= n => \E k \in lexemes : k[1] = l[2]
  BY DEF Taken, TextTyped, n
<1>2. l[2] = n + 1 \/ l[2] <= n BY <1>1
<1> QED BY <1>1, <1>2 DEF Where

\* When the switch is reached inside a word it stays there.
LEMMA AtSwitch ==
    ASSUME MaskInv, mode = "switch", i <= n
    PROVE  \/ \E l \in lexemes : l[1] = i
           \/ \E l \in lexemes : /\ AsWord(l[1], l[2]) /\ l[1] < i /\ i < l[2]
                                 /\ OfWord(text[i]) /\ ~StartsNumber(i) /\ role[i] # "value"
                                 /\ \A k \in 1..n : ~IsTag(i, k)
<1>1. n \in Nat /\ i \in 1..n /\ At(i) = text[i] BY DEF MaskInv, TextTyped, n, At
<1> SUFFICES ASSUME NEW l \in lexemes, Inside(l[1], l[2], "switch", i)
             PROVE  /\ AsWord(l[1], l[2]) /\ l[1] < i /\ i < l[2]
                    /\ OfWord(text[i]) /\ ~StartsNumber(i) /\ role[i] # "value"
                    /\ \A k \in 1..n : ~IsTag(i, k)
  BY <1>1 DEF MaskInv, Where
<1> DEFINE b == l[1]
           c == l[2]
<1>2. AsWord(b, c) /\ b < i /\ i < c /\ (text[i] = "d" => isWord(At(i - 1))) BY DEF Inside
<1>3. b \in Nat /\ c \in Nat BY DEF MaskInv, TextTyped
<1> HIDE DEF b, c
<1>4. i \in b..c-1 BY <1>1, <1>2, <1>3
<1>5. OfWord(text[i]) /\ role[i] # "value" /\ \A k \in 1..n : ~IsTag(i, k) BY <1>2, <1>4 DEF AsWord
<1>6. ~StartsNumber(i) BY <1>1, <1>2 DEF StartsNumber
<1> QED BY <1>2, <1>5, <1>6 DEF b, c

-----------------------------------------------------------------------------
(* No step changes the text *)

\* What the text is read as depends on the text alone.
LEMMA SameText ==
    ASSUME UNCHANGED <<text, role, lexemes>>
    PROVE  /\ n' = n /\ TextTyped' = TextTyped /\ (Legible' <=> Legible) /\ (Taken' <=> Taken)
           /\ \A b, c : /\ AsWord(b, c)' <=> AsWord(b, c)
                        /\ AsIdent(b, c)' <=> AsIdent(b, c)
                        /\ AsString(b, c)' <=> AsString(b, c)
                        /\ AsNumber(b, c)' <=> AsNumber(b, c)
                        /\ AsLine(b, c)' <=> AsLine(b, c)
                        /\ AsBlock(b, c)' <=> AsBlock(b, c)
           /\ \A j : At(j)' = At(j)
<1>1. text' = text /\ role' = role /\ lexemes' = lexemes OBVIOUS
<1>2. n' = n BY <1>1 DEF n
<1>3. \A j : At(j)' = At(j) BY <1>1, <1>2 DEF At
<1>4. \A j : /\ IsLine(j)' <=> IsLine(j)
             /\ IsBlock(j)' <=> IsBlock(j)
             /\ IsBlockEnd(j)' <=> IsBlockEnd(j)
             /\ Continues(j)' <=> Continues(j)
  BY <1>3 DEF IsLine, IsBlock, IsBlockEnd, Continues
<1>5. \A j, k : IsTag(j, k)' <=> IsTag(j, k) BY <1>1, <1>3 DEF IsTag
<1>6. \A j, k, m : Repeats(j, k, m)' <=> Repeats(j, k, m) BY <1>1, <1>2 DEF Repeats
<1>7. \A b, c : Symbol(b, c)' <=> Symbol(b, c) BY <1>1, <1>4, Zenon DEF Symbol
<1>8. \A b, c, q : Quoting(b, c, q)' <=> Quoting(b, c, q) BY <1>1, <1>2 DEF Quoting
<1>9. \A b, c : Skipped(b, c)' <=> Skipped(b, c) BY <1>1 DEF Skipped
<1>10. \A b, c : AsWord(b, c)' <=> AsWord(b, c) BY <1>1, <1>2, <1>3, <1>5, Zenon DEF AsWord
<1>11. \A b, c : AsSymbol(b, c)' <=> AsSymbol(b, c) BY <1>1, <1>7 DEF AsSymbol
<1>12. \A b, c : AsIdent(b, c)' <=> AsIdent(b, c) BY <1>1, <1>8 DEF AsIdent
<1>13. \A b, c : AsString(b, c)' <=> AsString(b, c) BY <1>8, <1>9 DEF AsString
<1>14. \A b, c : AsQuote(b, c)' <=> AsQuote(b, c)
  BY <1>1, <1>2, <1>5, <1>6, <1>9, Zenon DEF AsQuote
<1>15. \A b, c : AsNumber(b, c)' <=> AsNumber(b, c) BY <1>1, <1>3, <1>4, <1>9 DEF AsNumber
<1>16. \A b, c : AsLine(b, c)' <=> AsLine(b, c) BY <1>1, <1>3, <1>4, <1>9 DEF AsLine
<1>17. \A b, c : AsBlock(b, c)' <=> AsBlock(b, c) BY <1>1, <1>2, <1>4, <1>9 DEF AsBlock
<1>18. \A b, c : TakenRight(b, c)' <=> TakenRight(b, c)
  BY <1>10, <1>11, <1>12, <1>13, <1>14, <1>15, <1>16, <1>17 DEF TakenRight
<1>19. Taken' <=> Taken BY <1>1, <1>2, <1>18, Zenon DEF Taken
<1>20. TextTyped' = TextTyped BY <1>1, <1>2 DEF TextTyped
<1>21. Legible' <=> Legible
  <2>1. \A b, c : Word(b, c)' <=> Word(b, c) BY <1>1, <1>3 DEF Word
  <2>2. \A j, k : OpensQuote(j, k)' <=> OpensQuote(j, k) BY <1>1, <1>3 DEF OpensQuote
  <2>3. \A b, c : Dollar(b, c)' <=> Dollar(b, c) BY <1>1, <1>2, <1>3, <2>2, Zenon DEF Dollar
  <2>4. \A b, c : DollarQuoted(b, c)' <=> DollarQuoted(b, c)
    BY <1>2, <1>6, <2>2, Zenon DEF DollarQuoted
  <2>5. \A b, c : Number(b, c)' <=> Number(b, c) BY <1>1, <1>3, <1>4, Zenon DEF Number
  <2>6. \A b, c : Line(b, c)' <=> Line(b, c) BY <1>1, <1>3, <1>4 DEF Line
  <2>7. \A b, c : /\ EscapesQuote(b, c)' <=> EscapesQuote(b, c)
                  /\ Nests(b, c)' <=> Nests(b, c)
                  /\ Returns(b, c)' <=> Returns(b, c)
    BY <1>1, <1>3, <1>4, <2>6, Zenon DEF EscapesQuote, Nests, Returns
  <2>8. \A b, c : HoldsTag(b, c)' <=> HoldsTag(b, c)
    BY <1>2, <1>5, <2>1, <2>3, Zenon DEF HoldsTag
  <2>9. \A b, c : HoldsNumber(b, c)' <=> HoldsNumber(b, c)
    BY <1>1, <2>1, <2>3, Zenon DEF HoldsNumber
  <2>10. \A b, c : OddNumber(b, c)' <=> OddNumber(b, c) BY <1>1, <1>4, <2>5, Zenon DEF OddNumber
  <2>11. \A b, c : WideQuote(b, c)' <=> WideQuote(b, c) BY <1>1, <2>4, Zenon DEF WideQuote
  <2>12. \A b, c : Misread(b, c)' <=> Misread(b, c)
    BY <2>7, <2>8, <2>9, <2>10, <2>11, Zenon DEF Misread
  <2> QED BY <1>1, <2>12, Zenon DEF Legible
<1> QED BY <1>2, <1>3, <1>10, <1>12, <1>13, <1>15, <1>16, <1>17, <1>19, <1>20, <1>21

\* A step keeps the invariant when, in the text as it was, Mask is where it may be and
\* has written what it must.
LEMMA Keeps ==
    ASSUME MaskInv, UNCHANGED <<text, role, lexemes>>,
           NEW m, NEW j \in 1..n+1, NEW o, mode' = m, i' = j, out' = o,
           Where(m, j), Good(o, j)
    PROVE  MaskInv'
<1>1. text' = text /\ role' = role /\ lexemes' = lexemes OBVIOUS
<1>2. n' = n /\ TextTyped' = TextTyped BY SameText
<1>3. Taken' BY SameText DEF MaskInv
<1>4. \A b, c : /\ AsWord(b, c)' <=> AsWord(b, c)
                /\ AsIdent(b, c)' <=> AsIdent(b, c)
                /\ AsString(b, c)' <=> AsString(b, c)
                /\ AsNumber(b, c)' <=> AsNumber(b, c)
                /\ AsLine(b, c)' <=> AsLine(b, c)
                /\ AsBlock(b, c)' <=> AsBlock(b, c)
  BY SameText
<1>5. \A h : At(h)' = At(h) BY SameText
<1>6. \A b, c : Inside(b, c, m, j)' <=> Inside(b, c, m, j)
  <2> SUFFICES ASSUME NEW b, NEW c PROVE Inside(b, c, m, j)' <=> Inside(b, c, m, j) OBVIOUS
  <2>1. (text[j])' = text[j] BY <1>1
  <2>2. isWord(At(j - 1))' <=> isWord(At(j - 1)) BY <1>5 DEF isWord
  <2>3. (j \in b+2..c /\ (c <= n => j <= c - 2))' <=> (j \in b+2..c /\ (c <= n => j <= c - 2))
    BY <1>2
  <2>4. (j \in b+1..c /\ (j = c => c = n + 1))' <=> (j \in b+1..c /\ (j = c => c = n + 1)) BY <1>2
  <2> QED BY <1>4, <2>1, <2>2, <2>3, <2>4, Zenon DEF Inside
<1>7. Where(m, j)' BY <1>1, <1>2, <1>6 DEF Where
<1>8. \A p : IsPlain(p)' <=> IsPlain(p) BY <1>1, <1>2 DEF IsPlain
<1>9. Good(o, j)' BY <1>1, <1>2, <1>8 DEF Good
<1> QED BY <1>2, <1>3, <1>7, <1>9 DEF MaskInv

-----------------------------------------------------------------------------
(* The steps of Mask *)

\* The parts of the invariant that a step starts from.
LEMMA Parts ==
    ASSUME MaskInv
    PROVE  /\ TextTyped /\ Taken /\ n \in Nat /\ i \in 1..n+1 /\ Good(out, i)
           /\ \A j : At(j) # "end" => j \in 1..n /\ At(j) = text[j]
           /\ \A j \in 1..n : At(j) = text[j] /\ text[j] \in Chars
           /\ \A j : j \notin 1..n => At(j) = "end"
<1>1. TextTyped /\ Taken /\ n \in Nat /\ i \in 1..n+1 /\ Good(out, i) BY DEF MaskInv, TextTyped, n
<1>2. \A j \in 1..n : text[j] \in Chars BY <1>1 DEF TextTyped, n
<1> QED BY <1>1, <1>2 DEF At

\* Any case of the switch but that of words begins at a lexeme.
LEMMA AtLexeme ==
    ASSUME MaskInv, mode = "switch", i <= n,
           ~OfWord(At(i)) \/ StartsNumber(i) \/ \E k \in 1..n : IsTag(i, k)
    PROVE  \E l \in lexemes : l[1] = i
<1>1. i \in 1..n /\ At(i) = text[i] BY Parts
<1> QED BY <1>1, AtSwitch

\* A loop of Mask goes through a lexeme.
LEMMA InLexeme ==
    ASSUME MaskInv, mode # "switch"
    PROVE  \E l \in lexemes : /\ Inside(l[1], l[2], mode, i)
                              /\ l[1] \in 1..n /\ l[2] \in l[1]+1..n+1
BY DEF MaskInv, Where, Taken

\* Mask passes over what is left of a lexeme of which nothing is to be kept.
LEMMA Passes ==
    ASSUME MaskInv, NEW l \in lexemes, NEW o, NEW j \in Nat, NEW m \in Nat,
           \A h \in l[1]..l[2]-1 : role[h] # "plain",
           l[1] <= j, j <= m, m <= l[2], Good(o, j)
    PROVE  Good(o, m)
<1>1. n \in Nat /\ l[1] \in Nat /\ l[2] \in Nat BY Parts DEF TextTyped
<1>2. ASSUME NEW p \in 1..n, j <= p, p < m PROVE ~IsPlain(p)
  <2>1. p \in l[1]..l[2]-1 BY <1>1, <1>2
  <2> QED BY <2>1 DEF IsPlain
<1> QED BY <1>1, <1>2, GoodSkip

\* Mask writes a hole.
LEMMA WritesHole ==
    ASSUME MaskInv PROVE Good(out \o <<Hole>>, i)
<1>1. n \in Nat /\ Good(out, i) BY Parts
<1>2. <<Hole>> \in Seq(-1..n) BY <1>1 DEF Hole
<1>3. \A k \in 1..Len(<<Hole>>) : <<Hole>>[k] > 0 => role[<<Hole>>[k]] = "mark" BY DEF Hole
<1> QED BY <1>1, <1>2, <1>3, GoodMarks

\* A comment at the end of a line.
LEMMA LineCommentKeeps == ASSUME MaskInv, LineComment PROVE MaskInv'
<1>1. At(i) = "-" /\ At(i + 1) = "-" /\ mode = "switch" /\ IsLine(i) BY DEF LineComment, IsLine
<1>2. i \in 1..n /\ i + 1 \in 1..n /\ n \in Nat BY <1>1, Parts
<1>3. PICK l \in lexemes : l[1] = i BY <1>1, <1>2, AtLexeme, NoWords
<1>4. AsLine(i, l[2]) /\ l[2] \in i+1..n+1 BY <1>1, <1>3, Parts, Kinds
<1>5. role[i] = "mark" /\ role[i + 1] = "mark" BY <1>4 DEF AsLine
<1> DEFINE s == <<i, i + 1, Hole>>
<1>6. s \in Seq(-1..n) /\ \A k \in 1..Len(s) : s[k] > 0 => role[s[k]] = "mark"
  BY <1>2, <1>5 DEF Hole
<1> HIDE DEF s
<1>7. Good(out \o s, i) BY <1>2, <1>6, Parts, GoodMarks
<1>8. Where("line", i) BY <1>2, <1>3, <1>4 DEF Where, Inside
<1>9. mode' = "line" /\ i' = i /\ out' = out \o s /\ UNCHANGED <<text, role, lexemes>>
  BY DEF LineComment, Write, Goto, s
<1>10. i \in 1..n+1 BY <1>2
<1> QED BY <1>7, <1>8, <1>9, <1>10, Keeps

\* Its body, up to before the end of the line.
LEMMA InLineKeeps == ASSUME MaskInv, InLine PROVE MaskInv'
<1>1. PICK l \in lexemes : /\ Inside(l[1], l[2], "line", i)
                           /\ l[1] \in 1..n /\ l[2] \in l[1]+1..n+1
  BY InLexeme DEF InLine
<1>2. AsLine(l[1], l[2]) /\ i \in l[1]..l[2] BY <1>1 DEF Inside
<1>3. out' = out /\ n \in Nat /\ Good(out, i) BY Parts DEF InLine
<1>4. CASE At(i) \in {"nl", "end"}
  <2>1. mode' = "switch" /\ i' = i /\ UNCHANGED <<text, role, lexemes>> BY <1>4 DEF InLine, Goto
  <2>2. ASSUME i # l[2] PROVE FALSE
    <3>1. i \in l[1]..l[2]-1 /\ i \in 1..n BY <1>1, <1>2, <1>3, <2>2
    <3>2. text[i] # "nl" BY <1>2, <3>1 DEF AsLine
    <3>3. text[i] \in Chars /\ At(i) = text[i] BY <3>1, Parts
    <3> QED BY <1>4, <3>2, <3>3, RedactionAssumption
  <2>3. Where("switch", i) /\ i \in 1..n+1 BY <2>2, Parts, PastLexeme
  <2> QED BY <1>3, <2>1, <2>3, Keeps
<1>5. CASE At(i) \notin {"nl", "end"}
  <2>1. mode' = "line" /\ i' = i + 1 /\ UNCHANGED <<text, role, lexemes>> BY <1>5 DEF InLine, Goto
  <2>2. i # l[2] BY <1>2, <1>5 DEF AsLine
  <2>3. i \in Nat /\ i + 1 \in 1..n+1 /\ i + 1 \in l[1]..l[2] /\ i >= l[1] BY <1>1, <1>2, <1>3, <2>2
  <2>4. Where("line", i + 1) BY <1>2, <2>3 DEF Where, Inside
  <2>5. \A h \in l[1]..l[2]-1 : role[h] # "plain" BY <1>2 DEF AsLine, Skipped
  <2>6. i + 1 \in Nat /\ i <= i + 1 /\ i + 1 <= l[2] BY <1>1, <2>3
  <2>7. Good(out, i + 1) BY <1>3, <2>3, <2>5, <2>6, Passes
  <2> QED BY <1>3, <2>1, <2>3, <2>4, <2>7, Keeps
<1> QED BY <1>4, <1>5

\* A comment in a block.
LEMMA BlockCommentKeeps == ASSUME MaskInv, BlockComment PROVE MaskInv'
<1>1. At(i) = "/" /\ At(i + 1) = "*" /\ mode = "switch" /\ IsBlock(i) BY DEF BlockComment, IsBlock
<1>2. i \in 1..n /\ i + 1 \in 1..n /\ n \in Nat BY <1>1, Parts
<1>3. PICK l \in lexemes : l[1] = i BY <1>1, <1>2, AtLexeme, NoWords
<1>4. AsBlock(i, l[2]) /\ l[2] \in i+1..n+1 BY <1>1, <1>3, Parts, Kinds
<1>5. role[i] = "mark" /\ role[i + 1] = "mark" /\ \A h \in i..l[2]-1 : role[h] # "plain"
  BY <1>4 DEF AsBlock, Skipped
<1> DEFINE s == <<i, i + 1, Hole, Close>>
<1>6. s \in Seq(-1..n) /\ \A k \in 1..Len(s) : s[k] > 0 => role[s[k]] = "mark"
  BY <1>2, <1>5 DEF Hole, Close
<1> HIDE DEF s
<1>7. Good(out \o s, i) BY <1>2, <1>6, Parts, GoodMarks
<1>8. i + 2 <= l[2] /\ (l[2] <= n => i + 2 <= l[2] - 2) BY <1>2, <1>4 DEF AsBlock
<1>9. i + 2 \in 1..n+1 /\ i + 2 \in i+2..l[2] /\ i <= i + 2 /\ i + 2 \in Nat /\ i \in Nat
  BY <1>2, <1>4, <1>8
<1>10. Where("block", i + 2)
  <2>1. Inside(i, l[2], "block", i + 2) BY <1>4, <1>8, <1>9 DEF Inside
  <2> QED BY <1>3, <2>1 DEF Where
<1>11. l[1] <= i BY <1>2, <1>3
<1>12. Good(out \o s, i + 2) BY <1>3, <1>5, <1>7, <1>8, <1>9, <1>11, Passes
<1>13. mode' = "block" /\ i' = i + 2 /\ out' = out \o s /\ UNCHANGED <<text, role, lexemes>>
  BY DEF BlockComment, Write, Goto, s
<1> QED BY <1>9, <1>10, <1>12, <1>13, Keeps

\* Its body, up to its end or that of the text.
LEMMA InBlockKeeps == ASSUME MaskInv, InBlock PROVE MaskInv'
<1>1. PICK l \in lexemes : /\ Inside(l[1], l[2], "block", i)
                           /\ l[1] \in 1..n /\ l[2] \in l[1]+1..n+1
  BY InLexeme DEF InBlock
<1>2. /\ AsBlock(l[1], l[2])
      /\ i \in l[1]+2..l[2] /\ (l[2] <= n => i <= l[2] - 2)
  BY <1>1 DEF Inside
<1>3. out' = out /\ n \in Nat /\ Good(out, i) /\ i \in 1..n+1 BY Parts DEF InBlock
<1>4. \A h \in l[1]..l[2]-1 : role[h] # "plain" BY <1>2 DEF AsBlock, Skipped
<1>5. i \in Nat /\ l[1] <= i BY <1>1, <1>2
<1>6. CASE i + 1 > n
  <2>1. mode' = "switch" /\ i' = n + 1 /\ UNCHANGED <<text, role, lexemes>>
    BY <1>6 DEF InBlock, Goto
  <2>2. l[2] = n + 1 BY <1>1, <1>2, <1>3, <1>6
  <2>3. i <= n + 1 /\ n + 1 <= l[2] /\ n + 1 \in Nat /\ n + 1 \in 1..n+1 BY <1>3, <2>2
  <2>4. Good(out, n + 1) BY <1>3, <1>4, <1>5, <2>3, Passes
  <2>5. Where("switch", n + 1) BY DEF Where
  <2> QED BY <1>3, <2>1, <2>3, <2>4, <2>5, Keeps
<1>7. CASE ~(i + 1 > n) /\ IsBlockEnd(i)
  <2>1. mode' = "switch" /\ i' = i + 2 /\ UNCHANGED <<text, role, lexemes>>
    BY <1>7 DEF InBlock, Goto
  <2>2. i \notin l[1]+2..l[2]-3 BY <1>2, <1>7 DEF AsBlock
  <2>3. i + 2 = l[2] BY <1>1, <1>2, <1>3, <1>7, <2>2
  <2>4. i <= i + 2 /\ i + 2 <= l[2] /\ i + 2 \in Nat BY <1>5, <2>3
  <2>5. Good(out, i + 2) BY <1>3, <1>4, <1>5, <2>4, Passes
  <2>6. Where("switch", i + 2) /\ i + 2 \in 1..n+1 BY <2>3, Parts, PastLexeme
  <2> QED BY <1>3, <2>1, <2>5, <2>6, Keeps
<1>8. CASE ~(i + 1 > n) /\ ~IsBlockEnd(i)
  <2>1. mode' = "block" /\ i' = i + 1 /\ UNCHANGED <<text, role, lexemes>>
    BY <1>8 DEF InBlock, Goto
  <2>2. l[2] <= n => IsBlockEnd(l[2] - 2) BY <1>1, <1>2, <1>3 DEF AsBlock
  <2>3. l[2] <= n => i # l[2] - 2 BY <1>8, <2>2
  <2>4. i + 1 \in l[1]+2..l[2] /\ (l[2] <= n => i + 1 <= l[2] - 2) BY <1>1, <1>2, <1>3, <1>8, <2>3
  <2>5. i <= i + 1 /\ i + 1 <= l[2] /\ i + 1 \in Nat /\ i + 1 \in 1..n+1 BY <1>1, <1>3, <2>4
  <2>6. Good(out, i + 1) BY <1>3, <1>4, <1>5, <2>5, Passes
  <2>7. Where("block", i + 1)
    <3>1. Inside(l[1], l[2], "block", i + 1) BY <1>2, <2>4 DEF Inside
    <3> QED BY <3>1 DEF Where
  <2> QED BY <1>3, <2>1, <2>5, <2>6, <2>7, Keeps
<1> QED BY <1>6, <1>7, <1>8

\* A string.
LEMMA StringLiteralKeeps == ASSUME MaskInv, StringLiteral PROVE MaskInv'
<1>1. At(i) = "q" /\ mode = "switch" BY DEF StringLiteral
<1>2. i \in 1..n /\ n \in Nat /\ text[i] = "q" BY <1>1, Parts
<1>3. PICK l \in lexemes : l[1] = i BY <1>1, <1>2, AtLexeme, NoWords
<1>4. AsString(i, l[2]) /\ l[2] \in i+1..n+1
  BY <1>2, <1>3, Parts, Kinds
<1>5. \A h \in l[1]..l[2]-1 : role[h] # "plain" BY <1>3, <1>4 DEF AsString, Skipped
<1>6. i + 1 \in 1..n+1 /\ i + 1 \in i+1..l[2] /\ (i + 1 = l[2] => l[2] = n + 1)
  BY <1>2, <1>4 DEF AsString, Quoting
<1>7. i \in Nat /\ i + 1 \in Nat /\ l[1] <= i /\ i <= i + 1 /\ i + 1 <= l[2] BY <1>2, <1>3, <1>4
<1>8. Good(out \o <<Hole>>, i + 1) BY <1>5, <1>7, WritesHole, Passes
<1>9. Where("string", i + 1)
  <2>1. Inside(i, l[2], "string", i + 1) BY <1>4, <1>6 DEF Inside
  <2> QED BY <1>3, <2>1 DEF Where
<1>10. mode' = "string" /\ i' = i + 1 /\ out' = out \o <<Hole>> /\ UNCHANGED <<text, role, lexemes>>
  BY DEF StringLiteral, Write, Goto
<1> QED BY <1>6, <1>8, <1>9, <1>10, Keeps

\* Two quotes end one lexeme and start the next, which is a string again.
LEMMA InStringKeeps == ASSUME MaskInv, InString PROVE MaskInv'
<1>1. PICK l \in lexemes : /\ Inside(l[1], l[2], "string", i)
                           /\ l[1] \in 1..n /\ l[2] \in l[1]+1..n+1
  BY InLexeme DEF InString
<1>2. /\ AsString(l[1], l[2])
      /\ i \in l[1]+1..l[2] /\ (i = l[2] => l[2] = n + 1)
  BY <1>1 DEF Inside
<1>3. out' = out /\ n \in Nat /\ Good(out, i) /\ i \in 1..n+1 BY Parts DEF InString
<1>4. \A h \in l[1]..l[2]-1 : role[h] # "plain" BY <1>2 DEF AsString, Skipped
<1>5. CASE i > n
  <2>1. mode' = "switch" /\ i' = i /\ UNCHANGED <<text, role, lexemes>> BY <1>5 DEF InString, Goto
  <2>2. i = n + 1 BY <1>3, <1>5
  <2>3. Where("switch", i) BY <2>2 DEF Where
  <2> QED BY <1>3, <2>1, <2>3, Keeps
<1>6. ASSUME ~(i > n)
      PROVE  /\ i \in Nat /\ i + 1 \in Nat /\ l[1] <= i /\ i <= i + 1 /\ i + 1 <= l[2]
             /\ i \in 1..n /\ At(i) = text[i] /\ i + 1 \in 1..n+1 /\ Good(out, i + 1)
  <2>1. i \in Nat /\ i + 1 \in Nat /\ l[1] <= i /\ i <= i + 1 /\ i + 1 <= l[2]
    BY <1>1, <1>2, <1>3, <1>6
  <2>2. i \in 1..n /\ i + 1 \in 1..n+1 BY <1>3, <1>6
  <2>3. Good(out, i + 1) BY <1>3, <1>4, <2>1, Passes
  <2> QED BY <2>1, <2>2, <2>3, Parts
<1>7. CASE ~(i > n) /\ At(i) # "q"
  <2>1. mode' = "string" /\ i' = i + 1 /\ UNCHANGED <<text, role, lexemes>>
    BY <1>7 DEF InString, Goto
  <2>2. l[2] # n + 1 => text[l[2] - 1] = "q" BY <1>2 DEF AsString, Quoting
  <2>3. i + 1 = l[2] => text[l[2] - 1] = text[i] BY <1>3
  <2>4. i + 1 = l[2] => l[2] = n + 1 BY <1>6, <1>7, <2>2, <2>3
  <2>5. i + 1 \in l[1]+1..l[2] BY <1>1, <1>2, <1>6, <1>7
  <2>6. Where("string", i + 1)
    <3>1. Inside(l[1], l[2], "string", i + 1) BY <1>2, <2>4, <2>5 DEF Inside
    <3> QED BY <3>1 DEF Where
  <2> QED BY <1>3, <1>6, <1>7, <2>1, <2>6, Keeps
<1>8. ASSUME ~(i > n), At(i) = "q" PROVE i + 1 = l[2]
  <2>1. i \notin l[1]+1..l[2]-2 BY <1>2, <1>6, <1>8 DEF AsString, Quoting
  <2> QED BY <1>1, <1>2, <1>6, <1>8, <2>1
<1>9. CASE ~(i > n) /\ At(i) = "q" /\ At(i + 1) = "q"
  <2>1. mode' = "string" /\ i' = i + 2 /\ UNCHANGED <<text, role, lexemes>>
    BY <1>9 DEF InString, Goto
  <2>2. i + 1 = l[2] /\ i + 1 \in 1..n /\ text[i + 1] = "q" BY <1>8, <1>9, Parts
  <2>3. PICK k \in lexemes : k[1] = i + 1 BY <1>3, <2>2 DEF Taken, MaskInv
  <2>4. AsString(i + 1, k[2]) /\ k[2] \in (i+1)+1..n+1
    BY <2>2, <2>3, Parts, Kinds
  <2>5. \A h \in k[1]..k[2]-1 : role[h] # "plain" BY <2>3, <2>4 DEF AsString, Skipped
  <2>6. i + 2 \in 1..n+1 /\ i + 2 \in (i+1)+1..k[2] /\ (i + 2 = k[2] => k[2] = n + 1)
    BY <1>3, <2>4 DEF AsString, Quoting
  <2>7. i + 2 \in Nat /\ k[1] <= i + 1 /\ i + 1 <= i + 2 /\ i + 2 <= k[2] /\ i + 1 \in Nat
    BY <1>3, <2>3, <2>4
  <2>8. Good(out, i + 1) BY <1>6, <1>9
  <2>9. Good(out, i + 2) BY <2>5, <2>7, <2>8, Passes
  <2>10. Where("string", i + 2)
    <3>1. Inside(i + 1, k[2], "string", i + 2) BY <2>4, <2>6 DEF Inside
    <3> QED BY <2>3, <3>1 DEF Where
  <2> QED BY <1>3, <2>1, <2>6, <2>9, <2>10, Keeps
<1>10. CASE ~(i > n) /\ At(i) = "q" /\ At(i + 1) # "q"
  <2>1. mode' = "switch" /\ i' = i + 1 /\ UNCHANGED <<text, role, lexemes>>
    BY <1>10 DEF InString, Goto
  <2>2. Where("switch", i + 1) BY <1>8, <1>10, Parts, PastLexeme
  <2> QED BY <1>3, <1>6, <1>10, <2>1, <2>2, Keeps
<1> QED BY <1>5, <1>7, <1>9, <1>10

\* A text has at most one opening tag at a place.
LEMMA OneTag ==
    ASSUME MaskInv, NEW j \in Nat, NEW k \in 1..n, NEW m \in 1..n, IsTag(j, k), IsTag(j, m)
    PROVE  k = m
<1>1. n \in Nat /\ j < k /\ j < m /\ text[k] = "$" /\ text[m] = "$" BY Parts DEF IsTag
<1>2. k \notin j+1..m-1 /\ m \notin j+1..k-1 BY <1>1 DEF IsTag, isWord
<1> QED BY <1>1, <1>2

\* Where every character is one byte, bytes and characters count alike.
LEMMA NoExtra ==
    ASSUME NEW k, NEW m, \A j \in k+1..m-1 : Bytes[text[j]] = 1
    PROVE  Extra(k, m) = 0
<1> DEFINE S == {x \in (k+1..m-1) \X (2..4) : x[2] <= Bytes[text[x[1]]]}
<1>1. ASSUME NEW x \in S PROVE FALSE
  <2>1. x[1] \in k+1..m-1 /\ x[2] \in 2..4 /\ x[2] <= Bytes[text[x[1]]] OBVIOUS
  <2> QED BY <2>1
<1>2. S = {} BY <1>1
<1> QED BY <1>2, FS_EmptySet DEF Extra

\* A dollar-quoted string, which is passed over in one step.
LEMMA DollarQuoteKeeps == ASSUME MaskInv, NEW k \in 1..n, DollarQuote(k) PROVE MaskInv'
<1>1. IsTag(i, k) /\ mode = "switch" /\ At(i) = "$" BY DEF DollarQuote, IsTag
<1>2. i \in 1..n /\ n \in Nat BY <1>1, Parts
<1>3. PICK l \in lexemes : l[1] = i BY <1>1, <1>2, AtLexeme
<1>4. AsQuote(i, l[2]) /\ l[2] \in i+1..n+1
  BY <1>1, <1>3, Parts, Kinds
<1>5. \A h \in l[1]..l[2]-1 : role[h] # "plain" BY <1>3, <1>4 DEF AsQuote, Skipped
<1>6. \/ l[2] = n + 1 /\ \A m \in 1..n : ~Repeats(i, k, m)
      \/ \E m \in 1..n : /\ Repeats(i, k, m) /\ \A h \in 1..m-1 : ~Repeats(i, k, h)
                         /\ l[2] = m + (k - i) + 1
  <2>1. PICK g \in 1..n :
            /\ IsTag(i, g)
            /\ \/ l[2] = n + 1 /\ \A m \in 1..n : ~Repeats(i, g, m)
               \/ \E m \in 1..n : /\ Repeats(i, g, m) /\ \A h \in 1..m-1 : ~Repeats(i, g, h)
                                  /\ l[2] = m + (g - i) + 1
    BY <1>4, Zenon DEF AsQuote
  <2>2. i \in Nat BY <1>2
  <2>3. g = k BY <1>1, <2>1, <2>2, OneTag
  <2> QED BY <2>1, <2>3
<1>7. out' = out \o <<Hole>> /\ mode' = "switch" /\ UNCHANGED <<text, role, lexemes>>
  BY DEF DollarQuote, Write, Goto
<1>8. i' = l[2]
  <2>1. CASE \A m \in 1..n : ~Repeats(i, k, m)
    <3>1. i' = n + 1 BY <2>1 DEF DollarQuote, Goto
    <3> QED BY <1>6, <2>1, <3>1
  <2>2. CASE \E m \in 1..n : Repeats(i, k, m)
    <3>1. PICK m \in 1..n : /\ Repeats(i, k, m) /\ \A h \in 1..m-1 : ~Repeats(i, k, h)
                            /\ i' = m + Extra(k, m) + (k - i) + 1
      BY <2>2 DEF DollarQuote, Goto
    <3>2. PICK g \in 1..n : /\ Repeats(i, k, g) /\ \A h \in 1..g-1 : ~Repeats(i, k, h)
                            /\ l[2] = g + (k - i) + 1
      BY <1>6, <2>2
    <3>3. m \notin 1..g-1 /\ g \notin 1..m-1 BY <3>1, <3>2
    <3>4. m = g BY <1>2, <3>3
    <3>5. ASSUME NEW j \in k+1..m-1 PROVE Bytes[text[j]] = 1
      <4>1. i < k BY <1>1 DEF IsTag
      <4>2. j \in i..l[2]-1 BY <1>2, <1>4, <3>2, <3>4, <4>1
      <4> QED BY <1>4, <4>2 DEF AsQuote
    <3>6. Extra(k, m) = 0 BY <3>5, NoExtra
    <3> QED BY <1>2, <3>1, <3>2, <3>4, <3>6
  <2> QED BY <2>1, <2>2
<1>9. i \in Nat /\ l[2] \in Nat /\ l[1] <= i /\ i <= l[2] /\ l[2] <= l[2] BY <1>2, <1>3, <1>4
<1>10. Good(out \o <<Hole>>, l[2]) BY <1>5, <1>9, WritesHole, Passes
<1>11. Where("switch", l[2]) /\ l[2] \in 1..n+1 BY Parts, PastLexeme
<1> QED BY <1>7, <1>8, <1>10, <1>11, Keeps

\* Mask copies a character that is not a value.
LEMMA Copies ==
    ASSUME MaskInv, i <= n, role[i] # "value"
    PROVE  Good(out \o <<i>>, i + 1) /\ i + 1 \in 1..n+1 /\ i \in 1..n
<1>1. n \in Nat /\ i \in 1..n /\ Good(out, i) BY Parts
<1>2. Good(out \o <<i>>, i + 1) BY <1>1, GoodCopy
<1> QED BY <1>1, <1>2

\* Where there is a $ that opens no string, it is part of a word.
LEMMA DollarInWord ==
    ASSUME MaskInv, mode = "switch", At(i) = "$", \A k \in 1..n : ~IsTag(i, k)
    PROVE  \E l \in lexemes : AsWord(l[1], l[2]) /\ l[1] <= i /\ i < l[2] /\ l[2] \in 1..n+1
<1>1. i \in 1..n /\ n \in Nat /\ text[i] = "$" BY Parts
<1>2. CASE \E l \in lexemes : l[1] = i
  <2>1. PICK l \in lexemes : l[1] = i BY <1>2
  <2>2. AsWord(i, l[2]) /\ l[2] \in i+1..n+1 BY <1>1, <2>1, Parts, Kinds
  <2>3. l[1] <= i /\ i < l[2] /\ l[2] \in 1..n+1 BY <1>1, <2>1, <2>2
  <2> QED BY <2>1, <2>2, <2>3
<1>3. CASE ~\E l \in lexemes : l[1] = i
  <2>1. i <= n BY <1>1
  <2>2. PICK l \in lexemes : AsWord(l[1], l[2]) /\ l[1] < i /\ i < l[2] BY <1>3, <2>1, AtSwitch
  <2>3. l[1] \in 1..n /\ l[2] \in l[1]+1..n+1 BY Parts DEF Taken
  <2>4. l[1] <= i /\ l[2] \in 1..n+1 BY <1>1, <2>2, <2>3
  <2> QED BY <2>2, <2>4
<1> QED BY <1>2, <1>3

\* A parameter, or a $ in a word.
LEMMA ParamKeeps == ASSUME MaskInv, Param PROVE MaskInv'
<1>1. At(i) = "$" /\ mode = "switch" /\ \A k \in 1..n : ~IsTag(i, k) BY DEF Param
<1>2. i \in 1..n /\ n \in Nat BY <1>1, Parts
<1>3. PICK l \in lexemes : AsWord(l[1], l[2]) /\ l[1] <= i /\ i < l[2] /\ l[2] \in 1..n+1
  BY <1>1, DollarInWord
<1>4. l[1] \in Nat /\ l[2] \in Nat BY Parts DEF TextTyped
<1>5. i \in l[1]..l[2]-1 /\ i + 1 \in l[1]+1..l[2] /\ i <= n BY <1>2, <1>3, <1>4
<1>6. role[i] # "value" BY <1>3, <1>5 DEF AsWord
<1>7. Good(out \o <<i>>, i + 1) /\ i + 1 \in 1..n+1 BY <1>5, <1>6, Copies
<1>8. Where("param", i + 1)
  <2>1. Inside(l[1], l[2], "param", i + 1) BY <1>3, <1>5 DEF Inside
  <2> QED BY <2>1 DEF Where
<1>9. mode' = "param" /\ i' = i + 1 /\ out' = out \o <<i>> /\ UNCHANGED <<text, role, lexemes>>
  BY DEF Param, Write, Goto
<1> QED BY <1>7, <1>8, <1>9, Keeps

\* After its digits the switch goes on with the rest of the word.
LEMMA InParamKeeps == ASSUME MaskInv, InParam PROVE MaskInv'
<1>1. PICK l \in lexemes : /\ Inside(l[1], l[2], "param", i)
                           /\ l[1] \in 1..n /\ l[2] \in l[1]+1..n+1
  BY InLexeme DEF InParam
<1>2. AsWord(l[1], l[2]) /\ i \in l[1]+1..l[2] BY <1>1 DEF Inside
<1>3. n \in Nat /\ Good(out, i) /\ i \in 1..n+1 BY Parts
<1>4. CASE At(i) = "d"
  <2>1. mode' = "param" /\ i' = i + 1 /\ out' = out \o <<i>> /\ UNCHANGED <<text, role, lexemes>>
    BY <1>4 DEF InParam, Write, Goto
  <2>2. i # l[2] BY <1>2, <1>4 DEF AsWord
  <2>3. i \in l[1]..l[2]-1 /\ i + 1 \in l[1]+1..l[2] /\ i <= n
    BY <1>1, <1>2, <1>3, <2>2
  <2>4. role[i] # "value" BY <1>2, <2>3 DEF AsWord
  <2>5. Good(out \o <<i>>, i + 1) /\ i + 1 \in 1..n+1 BY <2>3, <2>4, Copies
  <2>6. Where("param", i + 1)
    <3>1. Inside(l[1], l[2], "param", i + 1) BY <1>2, <2>3 DEF Inside
    <3> QED BY <3>1 DEF Where
  <2> QED BY <2>1, <2>5, <2>6, Keeps
<1>5. CASE At(i) # "d"
  <2>1. mode' = "switch" /\ i' = i /\ out' = out /\ UNCHANGED <<text, role, lexemes>>
    BY <1>5 DEF InParam, Goto
  <2>2. CASE i = l[2]
    <3>1. Where("switch", i) BY <2>2, Parts, PastLexeme
    <3> QED BY <1>3, <2>1, <3>1, Keeps
  <2>3. CASE i # l[2]
    <3>1. l[1] < i /\ i < l[2] /\ i \in 1..n BY <1>1, <1>2, <1>3, <2>3
    <3>2. text[i] # "d" BY <1>5, <3>1, Parts
    <3>3. Inside(l[1], l[2], "switch", i) BY <1>2, <3>1, <3>2 DEF Inside
    <3>4. Where("switch", i) BY <3>3 DEF Where
    <3> QED BY <1>3, <2>1, <3>4, Keeps
  <2> QED BY <2>2, <2>3
<1> QED BY <1>4, <1>5

\* A quoted identifier.
LEMMA QuotedIdentKeeps == ASSUME MaskInv, QuotedIdent PROVE MaskInv'
<1>1. At(i) = "\"" /\ mode = "switch" BY DEF QuotedIdent
<1>2. mode = "switch" /\ At(i) # "end" /\ ~OfWord(At(i))
  BY <1>1, NoWordQuote
<1>3. i \in 1..n /\ n \in Nat /\ i <= n /\ At(i) = text[i] BY <1>2, Parts
<1>4. PICK l \in lexemes : l[1] = i BY <1>2, <1>3, AtLexeme
<1>5. AsIdent(i, l[2])
  <2>1. text[l[1]] = "\"" BY <1>1, <1>3, <1>4
  <2> QED BY <1>4, <2>1, Parts, Kinds
<1>6. l[2] \in i+1..n+1 BY <1>4, Parts DEF Taken
<1>7. l[2] = n + 1 \/ i + 1 < l[2] BY <1>5 DEF AsIdent, Quoting
<1>8. i \in i..l[2]-1 /\ i + 1 \in i+1..l[2] /\ (i + 1 = l[2] => l[2] = n + 1)
  BY <1>3, <1>6, <1>7
<1>9. role[i] # "value" BY <1>5, <1>8 DEF AsIdent
<1>10. Good(out \o <<i>>, i + 1) /\ i + 1 \in 1..n+1 BY <1>3, <1>9, Copies
<1>11. Where("ident", i + 1)
  <2>1. Inside(i, l[2], "ident", i + 1) BY <1>5, <1>8 DEF Inside
  <2> QED BY <1>4, <2>1 DEF Where
<1>12. mode' = "ident" /\ i' = i + 1 /\ out' = out \o <<i>> /\ UNCHANGED <<text, role, lexemes>>
  BY DEF QuotedIdent, Write, Goto
<1> QED BY <1>10, <1>11, <1>12, Keeps

\* Its body, up to the next quote or the end of the text.
LEMMA InIdentKeeps == ASSUME MaskInv, InIdent PROVE MaskInv'
<1>1. PICK l \in lexemes : /\ Inside(l[1], l[2], "ident", i)
                           /\ l[1] \in 1..n /\ l[2] \in l[1]+1..n+1
  BY InLexeme DEF InIdent
<1>2. AsIdent(l[1], l[2]) BY <1>1 DEF Inside
<1>3. i \in l[1]+1..l[2] /\ (i = l[2] => l[2] = n + 1) BY <1>1 DEF Inside
<1>4. n \in Nat /\ Good(out, i) /\ i \in 1..n+1 BY Parts
<1>5. CASE i > n
  <2>1. mode' = "switch" /\ i' = i /\ out' = out /\ UNCHANGED <<text, role, lexemes>>
    BY <1>5 DEF InIdent, Goto
  <2>2. i = n + 1 BY <1>4, <1>5
  <2>3. Where("switch", i) BY <2>2 DEF Where
  <2> QED BY <1>4, <2>1, <2>3, Keeps
<1>6. CASE ~(i > n)
  <2>1. i' = i + 1 /\ out' = out \o <<i>> /\ UNCHANGED <<text, role, lexemes>>
    BY <1>6 DEF InIdent, Write, Goto
  <2>2. i \in l[1]..l[2]-1 /\ i <= n /\ i \in 1..n /\ i + 1 \in l[1]+1..l[2]
    BY <1>1, <1>3, <1>4, <1>6
  <2>3. role[i] # "value" BY <1>2, <2>2 DEF AsIdent
  <2>4. Good(out \o <<i>>, i + 1) /\ i + 1 \in 1..n+1 BY <2>2, <2>3, Copies
  <2>5. At(i) = text[i] BY <2>2, Parts
  <2>6. CASE At(i) = "\""
    <3>1. mode' = "switch" BY <1>6, <2>6 DEF InIdent, Goto
    <3>2. i \notin l[1]+1..l[2]-2 BY <1>2, <2>5, <2>6 DEF AsIdent, Quoting
    <3>3. i + 1 = l[2] BY <1>1, <1>3, <2>2, <3>2
    <3>4. Where("switch", i + 1) BY <3>3, Parts, PastLexeme
    <3> QED BY <2>1, <2>4, <3>1, <3>4, Keeps
  <2>7. CASE At(i) # "\""
    <3>1. mode' = "ident" BY <1>6, <2>7 DEF InIdent, Goto
    <3>2. l[2] # n + 1 => text[l[2] - 1] = "\"" BY <1>2 DEF AsIdent, Quoting
    <3>3. i + 1 = l[2] => l[2] - 1 = i BY <1>4
    <3>4. i + 1 = l[2] => l[2] = n + 1 BY <2>5, <2>7, <3>2, <3>3
    <3>5. Where("ident", i + 1)
      <4>1. Inside(l[1], l[2], "ident", i + 1) BY <1>2, <2>2, <3>4 DEF Inside
      <4> QED BY <4>1 DEF Where
    <3> QED BY <2>1, <2>4, <3>1, <3>5, Keeps
  <2> QED BY <2>6, <2>7
<1> QED BY <1>5, <1>6

\* A number.
LEMMA NumericKeeps == ASSUME MaskInv, Numeric PROVE MaskInv'
<1>1. StartsNumber(i) /\ At(i) = "d" /\ mode = "switch" BY DEF Numeric, StartsNumber
<1>2. i \in 1..n /\ n \in Nat /\ text[i] = "d" BY <1>1, Parts
<1>3. PICK l \in lexemes : l[1] = i BY <1>1, <1>2, AtLexeme
<1>4. AsNumber(i, l[2]) /\ l[2] \in i+1..n+1 BY <1>2, <1>3, Parts, Kinds
<1>5. i \in i..l[2] /\ i \in 1..n+1 BY <1>2, <1>4
<1>6. Where("number", i)
  <2>1. Inside(i, l[2], "number", i) BY <1>4, <1>5 DEF Inside
  <2> QED BY <1>3, <2>1 DEF Where
<1>7. mode' = "number" /\ i' = i /\ out' = out \o <<Hole>> /\ UNCHANGED <<text, role, lexemes>>
  BY DEF Numeric, Write, Goto
<1> QED BY <1>5, <1>6, <1>7, WritesHole, Keeps

\* Its digits, point and exponent.
LEMMA InNumberKeeps == ASSUME MaskInv, InNumber PROVE MaskInv'
<1>1. PICK l \in lexemes : /\ Inside(l[1], l[2], "number", i)
                           /\ l[1] \in 1..n /\ l[2] \in l[1]+1..n+1
  BY InLexeme DEF InNumber
<1>2. AsNumber(l[1], l[2]) /\ i \in l[1]..l[2] BY <1>1 DEF Inside
<1>3. out' = out /\ n \in Nat /\ Good(out, i) /\ i \in 1..n+1 BY Parts DEF InNumber
<1>4. CASE Continues(i)
  <2>1. mode' = "number" /\ i' = i + 1 /\ UNCHANGED <<text, role, lexemes>>
    BY <1>4 DEF InNumber, Goto
  <2>2. i # l[2] BY <1>2, <1>4 DEF AsNumber
  <2>3. i + 1 \in 1..n+1 /\ i + 1 \in l[1]..l[2] BY <1>1, <1>2, <1>3, <2>2
  <2>4. i \in Nat /\ i + 1 \in Nat /\ l[1] <= i /\ i <= i + 1 /\ i + 1 <= l[2]
    BY <1>1, <1>2, <2>2
  <2>5. \A h \in l[1]..l[2]-1 : role[h] # "plain" BY <1>2 DEF AsNumber, Skipped
  <2>6. Good(out, i + 1) BY <1>3, <2>4, <2>5, Passes
  <2>7. Where("number", i + 1)
    <3>1. Inside(l[1], l[2], "number", i + 1) BY <1>2, <2>3 DEF Inside
    <3> QED BY <3>1 DEF Where
  <2> QED BY <1>3, <2>1, <2>3, <2>6, <2>7, Keeps
<1>5. CASE ~Continues(i)
  <2>1. mode' = "switch" /\ i' = i /\ UNCHANGED <<text, role, lexemes>> BY <1>5 DEF InNumber, Goto
  <2>2. i \notin l[1]+1..l[2]-1 BY <1>2, <1>5 DEF AsNumber
  <2>3. i # l[1]
    <3>1. text[l[1]] = "d" BY <1>2 DEF AsNumber
    <3>2. At(l[1]) = "d" BY <1>1, <3>1, Parts
    <3> QED BY <1>5, <3>2 DEF Continues
  <2>4. i = l[2] BY <1>1, <1>2, <2>2, <2>3
  <2>5. Where("switch", i) BY <2>4, Parts, PastLexeme
  <2> QED BY <1>3, <2>1, <2>5, Keeps
<1> QED BY <1>4, <1>5

\* Inside a word the switch goes on to its end.
LEMMA WordGoesOn ==
    ASSUME MaskInv, NEW l \in lexemes, AsWord(l[1], l[2]), l[1] <= i, i < l[2], At(i) # "$"
    PROVE  Where("switch", i + 1)
<1>1. /\ l[1] \in 1..n /\ l[2] \in l[1]+1..n+1 /\ n \in Nat /\ i \in 1..n+1
  BY Parts DEF Taken
<1>2. i \in 1..n /\ At(i) = text[i] /\ (i + 1) - 1 = i BY <1>1, Parts
<1>3. CASE i + 1 = l[2] BY <1>3, Parts, PastLexeme
<1>4. CASE i + 1 # l[2]
  <2>1. l[1] < i + 1 /\ i + 1 < l[2] /\ i + 1 \in l[1]+1..l[2]-1 /\ i \in l[1]..l[2]-1 BY <1>1, <1>4
  <2>2. isWord(text[i]) \/ text[i] \in Wide BY <1>2, <2>1 DEF AsWord, OfWord
  <2>3. text[i + 1] = "d" => text[(i + 1) - 1] \notin Wide BY <2>1 DEF AsWord
  <2>4. text[i + 1] = "d" => isWord(At((i + 1) - 1)) BY <1>2, <2>2, <2>3
  <2>5. Inside(l[1], l[2], "switch", i + 1) BY <2>1, <2>4 DEF Inside
  <2> QED BY <2>5 DEF Where
<1> QED BY <1>3, <1>4

\* What is neither of these is copied.
LEMMA DefaultKeeps == ASSUME MaskInv, Default PROVE MaskInv'
<1>1. /\ mode = "switch" /\ i <= n /\ ~IsLine(i) /\ ~IsBlock(i)
      /\ At(i) \notin {"q", "$", "\""} /\ ~StartsNumber(i)
  BY DEF Default
<1>2. i \in 1..n /\ n \in Nat /\ At(i) = text[i]
  <2>1. i <= n BY DEF Default
  <2> QED BY <2>1, Parts
<1>3. mode' = "switch" /\ i' = i + 1 /\ out' = out \o <<i>> /\ UNCHANGED <<text, role, lexemes>>
  BY DEF Default, Write, Goto
<1>4. ASSUME role[i] # "value", Where("switch", i + 1) PROVE MaskInv'
  BY <1>1, <1>3, <1>4, Copies, Keeps
<1>5. At(i) # "$" BY <1>1
<1>6. CASE \E l \in lexemes : l[1] = i
  <2>1. PICK l \in lexemes : l[1] = i BY <1>6
  <2>2. text[i] # "d"
    <3> SUFFICES ASSUME text[i] = "d" PROVE FALSE OBVIOUS
    <3>1. AsNumber(i, l[2]) BY <2>1, Parts, Kinds
    <3> QED BY <1>1, <1>2, <3>1 DEF AsNumber, StartsNumber
  <2>3. (AsWord(i, l[2]) \/ AsSymbol(i, l[2])) /\ l[2] \in i+1..n+1
    BY <1>1, <1>2, <2>1, <2>2, Parts, Kinds
  <2>4. i \in i..l[2]-1 /\ i <= i /\ i < l[2] BY <1>2, <2>3
  <2>5. CASE AsSymbol(i, l[2])
    <3>1. l[2] = i + 1 /\ role[i] # "value" BY <2>5, Zenon DEF AsSymbol, Symbol
    <3>2. Where("switch", i + 1) BY <3>1, Parts, PastLexeme
    <3> QED BY <1>4, <3>1, <3>2
  <2>6. CASE AsWord(i, l[2])
    <3>1. role[i] # "value" BY <2>4, <2>6 DEF AsWord
    <3>2. Where("switch", i + 1) BY <1>5, <2>1, <2>4, <2>6, WordGoesOn
    <3> QED BY <1>4, <3>1, <3>2
  <2> QED BY <2>3, <2>5, <2>6
<1>7. CASE ~\E l \in lexemes : l[1] = i
  <2>1. i <= n BY <1>2
  <2>2. PICK l \in lexemes : /\ AsWord(l[1], l[2]) /\ l[1] < i /\ i < l[2]
                             /\ role[i] # "value"
    BY <1>1, <1>7, <2>1, AtSwitch
  <2>3. l[1] <= i BY <1>2, <2>2, Parts DEF TextTyped
  <2>4. Where("switch", i + 1) BY <1>5, <2>2, <2>3, WordGoesOn
  <2> QED BY <1>4, <2>2, <2>4
<1> QED BY <1>6, <1>7

-----------------------------------------------------------------------------
(* What Mask lets through *)

\* A comment in which none is opened ends at the first mark that ends one.
LEMMA FlatBlock ==
    ASSUME TextTyped, NEW b \in 1..n, NEW c \in b+1..n+1, Block(b, c), ~Nests(b, c)
    PROVE  /\ \A j \in b+2..c-3 : ~IsBlockEnd(j)
           /\ c = n + 1 \/ (b + 4 <= c /\ IsBlockEnd(c - 2))
<1> DEFINE opened(k) == {j \in b..k : IsBlock(j)}
           closed(k) == {j \in b+2..k : IsBlockEnd(j)}
<1>1. n \in Nat /\ b \in Nat /\ c \in Nat BY DEF TextTyped, n
<1>2. IsBlock(b) /\ b + 1 < c /\ \A k \in b..c-3 : Depth(b, k) > 0 BY DEF Block
<1>3. ~IsBlock(b + 1) BY <1>2 DEF IsBlock
<1>4. \A j \in b+2..c-3 : ~IsBlock(j) BY <1>2 DEF Nests
<1>5. \A k \in Nat : Depth(b, k) = Cardinality(opened(k)) - Cardinality(closed(k)) BY DEF Depth
<1>6. \A k \in Nat : /\ IsFiniteSet(opened(k)) /\ Cardinality(opened(k)) \in Nat
                     /\ IsFiniteSet(closed(k)) /\ Cardinality(closed(k)) \in Nat
  <2> SUFFICES ASSUME NEW k \in Nat
               PROVE  /\ IsFiniteSet(opened(k)) /\ Cardinality(opened(k)) \in Nat
                      /\ IsFiniteSet(closed(k)) /\ Cardinality(closed(k)) \in Nat
    OBVIOUS
  <2>1. IsFiniteSet(b..k) /\ IsFiniteSet(b+2..k)
    <3>1. b \in Int /\ b + 2 \in Int /\ k \in Int BY <1>1
    <3> QED BY <3>1, FS_Interval
  <2>2. opened(k) \in SUBSET (b..k) /\ closed(k) \in SUBSET (b+2..k) OBVIOUS
  <2> HIDE DEF opened, closed
  <2> QED BY <2>1, <2>2, FS_Subset, FS_CardinalityType
<1>7. ASSUME NEW k \in b..c-3 PROVE opened(k) = {b} /\ closed(k) = {}
  <2>1. ASSUME NEW j PROVE j \in opened(k) <=> j = b
    <3>1. CASE j \in b..k
      <4>1. j = b \/ j = b + 1 \/ j \in b+2..c-3 BY <1>1, <3>1
      <4> QED BY <1>2, <1>3, <1>4, <3>1, <4>1
    <3>2. CASE j \notin b..k BY <1>1, <3>2
    <3> QED BY <3>1, <3>2
  <2>2. opened(k) = {b} BY <2>1
  <2>3. k \in Nat BY <1>1
  <2> HIDE DEF opened, closed
  <2>4. Cardinality(opened(k)) = 1 BY <2>2, FS_Singleton
  <2>5. Cardinality(opened(k)) - Cardinality(closed(k)) > 0 BY <1>2, <1>5, <2>3
  <2>6. Cardinality(closed(k)) = 0 BY <1>6, <2>3, <2>4, <2>5
  <2>7. closed(k) = {} BY <1>6, <2>3, <2>6, FS_EmptySet
  <2> QED BY <2>2, <2>7
<1>8. ASSUME NEW j \in b+2..c-3 PROVE ~IsBlockEnd(j)
  <2>1. j \in b..c-3 BY <1>1
  <2>2. closed(j) = {} BY <1>7, <2>1
  <2>3. j \in b+2..j BY <1>1
  <2> QED BY <2>2, <2>3
<1>9. ASSUME c # n + 1 PROVE b + 4 <= c /\ IsBlockEnd(c - 2)
  <2>1. b + 4 <= c /\ Depth(b, c - 2) = 0 BY <1>9 DEF Block
  <2>2. c - 2 \in Nat /\ c - 3 \in b..c-3 BY <1>1, <2>1
  <2> SUFFICES ASSUME ~IsBlockEnd(c - 2) PROVE FALSE BY <2>1
  <2>3. closed(c - 2) = {}
    <3> SUFFICES ASSUME NEW j \in closed(c - 2) PROVE FALSE OBVIOUS
    <3>1. j \in b+2..c-2 /\ IsBlockEnd(j) OBVIOUS
    <3>2. j = c - 2 \/ j \in b+2..c-3 BY <1>1, <3>1
    <3> QED BY <1>8, <3>1, <3>2
  <2>4. b \in opened(c - 2) BY <1>1, <1>2, <2>1
  <2> HIDE DEF opened, closed
  <2>5. Cardinality(closed(c - 2)) = 0 BY <2>3, FS_EmptySet
  <2>6. Cardinality(opened(c - 2)) # 0 BY <1>6, <2>2, <2>4, FS_EmptySet
  <2>7. Cardinality(opened(c - 2)) - Cardinality(closed(c - 2)) = 0 BY <1>5, <2>1, <2>2
  <2> QED BY <1>6, <2>2, <2>5, <2>6, <2>7
<1> QED BY <1>8, <1>9

\* What Mask does not misread it takes for what it is.
LEMMA ReadAlike == ASSUME TextTyped, Lexed, Legible PROVE Taken
<1>1. n \in Nat BY DEF TextTyped, n
<1>2. ASSUME NEW l \in lexemes PROVE TakenRight(l[1], l[2])
  <2> DEFINE b == l[1]
             c == l[2]
  <2>1. /\ b \in 1..n /\ c \in b+1..n+1
        /\ IsKept(b, c) \/ IsLiteral(b, c) \/ IsComment(b, c)
    BY DEF Lexed
  <2>2. ~Misread(b, c) BY DEF Legible
  <2> HIDE DEF b, c
  <2>3. \A j \in b..c-1 : j \in 1..n /\ At(j) = text[j] /\ text[j] \in Chars
    BY <1>1, <2>1 DEF TextTyped, At, n
  <2>4. IsLiteral(b, c) => Skipped(b, c) BY DEF IsLiteral, Skipped
  <2>5. CASE IsKept(b, c)
    <3>1. \A j \in b..c-1 : role[j] # "value" BY <2>5, Zenon DEF IsKept
    <3>2. b \in b..c-1 BY <1>1, <2>1
    <3>3. ASSUME Word(b, c) \/ Dollar(b, c)
          PROVE  /\ \A j \in b..c-1 : \A k \in 1..n : ~IsTag(j, k)
                 /\ \A j \in b+1..c-1 : text[j] = "d" => text[j - 1] \notin Wide
      <4>1. ~HoldsTag(b, c) /\ ~HoldsNumber(b, c) BY <2>2, Zenon DEF Misread
      <4> QED BY <3>3, <4>1, Zenon DEF HoldsTag, HoldsNumber
    <3>4. CASE Word(b, c)
      <4>1. At(c) # "d" BY <3>4 DEF Word, OfWord, isWord
      <4>2. text[b] # "d" /\ \A j \in b..c-1 : OfWord(text[j]) BY <3>4 DEF Word
      <4>3. AsWord(b, c) BY <3>1, <3>3, <3>4, <4>1, <4>2, Zenon DEF AsWord
      <4> QED BY <4>3 DEF TakenRight, b, c
    <3>5. CASE Dollar(b, c)
      <4>1. At(c) # "d" /\ text[b] = "$" BY <3>5 DEF Dollar
      <4>2. \A j \in b+1..c-1 : OfWord(text[j]) BY <3>5 DEF Dollar, OfWord
      <4>3. \A j \in b..c-1 : j = b \/ j \in b+1..c-1 BY <1>1, <2>1
      <4>4. \A j \in b..c-1 : OfWord(text[j]) BY <4>1, <4>2, <4>3 DEF OfWord
      <4>5. text[b] # "d" BY <4>1
      <4>6. AsWord(b, c) BY <3>1, <3>3, <3>5, <4>1, <4>4, <4>5, Zenon DEF AsWord
      <4> QED BY <4>6 DEF TakenRight, b, c
    <3>6. CASE Symbol(b, c)
      <4>1. AsSymbol(b, c) BY <3>1, <3>2, <3>6 DEF AsSymbol
      <4> QED BY <4>1 DEF TakenRight, b, c
    <3>7. CASE Quoting(b, c, "\"")
      <4>1. AsIdent(b, c) BY <3>1, <3>7 DEF AsIdent
      <4> QED BY <4>1 DEF TakenRight, b, c
    <3> QED BY <2>5, <3>4, <3>5, <3>6, <3>7, Zenon DEF IsKept
  <2>6. CASE IsLiteral(b, c)
    <3>1. CASE Quoting(b, c, "q")
      <4>1. AsString(b, c) BY <2>4, <2>6, <3>1 DEF AsString
      <4> QED BY <4>1 DEF TakenRight, b, c
    <3>2. CASE Escaping(b, c)
      <4>1. ~EscapesQuote(b, c) BY <2>2, Zenon DEF Misread
      <4>2. Quoting(b, c, "q") BY <3>2, <4>1 DEF EscapesQuote, Escaping, Quoting
      <4>3. AsString(b, c) BY <2>4, <2>6, <4>2 DEF AsString
      <4> QED BY <4>3 DEF TakenRight, b, c
    <3>3. CASE DollarQuoted(b, c)
      <4>1. ~WideQuote(b, c) BY <2>2, Zenon DEF Misread
      <4>2. \A j \in b..c-1 : text[j] \notin Wide BY <3>3, <4>1 DEF WideQuote
      <4>3. \A j \in b..c-1 : Bytes[text[j]] = 1
        <5>1. Bytes \in [Chars -> 1..4] BY RedactionAssumption, Zenon
        <5> QED BY <2>3, <4>2, <5>1 DEF Wide
      <4>4. PICK k \in 1..n :
                /\ OpensQuote(b, k)
                /\ \/ c = n + 1 /\ \A m \in 1..n : ~Repeats(b, k, m)
                   \/ \E m \in 1..n : /\ Repeats(b, k, m) /\ \A h \in 1..m-1 : ~Repeats(b, k, h)
                                      /\ c = m + (k - b) + 1
        BY <3>3, Zenon DEF DollarQuoted
      <4>5. b < k BY <4>4 DEF OpensQuote
      <4>6. k < c
        <5>1. CASE c = n + 1 BY <1>1, <5>1
        <5>2. ASSUME NEW m \in 1..n, Repeats(b, k, m), c = m + (k - b) + 1 PROVE k < c
          <6>1. m > k BY <5>2 DEF Repeats
          <6> QED BY <1>1, <2>1, <4>5, <5>2, <6>1
        <5> QED BY <4>4, <5>1, <5>2
      <4>7. \A m \in b+1..k-1 : m \in b..c-1 BY <1>1, <2>1, <4>6
      <4>8. IsTag(b, k) BY <4>2, <4>4, <4>7 DEF OpensQuote, IsTag
      <4>9. AsQuote(b, c) BY <2>4, <2>6, <4>3, <4>4, <4>8, Zenon DEF AsQuote
      <4> QED BY <4>9 DEF TakenRight, b, c
    <3>4. CASE Number(b, c)
      <4>1. ~OddNumber(b, c) BY <2>2, Zenon DEF Misread
      <4>2. ~Continues(c) /\ \A j \in b+1..c-1 : text[j] # "l" BY <3>4, <4>1 DEF OddNumber
      <4>3. text[b] = "d" /\ ~isWord(At(b - 1)) BY <3>4 DEF Number
      <4>4. \A j \in b+1..c-1 : j \in b..c-1 BY <1>1, <2>1
      <4>5. \A j \in b+1..c-1 : Continues(j)
        <5>1. \A j \in b+1..c-1 : isWord(text[j]) \/ text[j] = "." => Continues(j)
          BY <2>3, <4>2, <4>4 DEF isWord, Continues
        <5> QED BY <3>4, <5>1 DEF Number
      <4>6. AsNumber(b, c) BY <2>4, <2>6, <4>2, <4>3, <4>5 DEF AsNumber
      <4> QED BY <4>6 DEF TakenRight, b, c
    <3> QED BY <2>6, <3>1, <3>2, <3>3, <3>4 DEF IsLiteral
  <2>7. CASE IsComment(b, c)
    <3>1. Skipped(b, c) /\ role[b] = "mark" /\ role[b + 1] = "mark" BY <2>7 DEF IsComment, Skipped
    <3>2. CASE Line(b, c)
      <4>1. ~Returns(b, c) BY <2>2, Zenon DEF Misread
      <4>2. At(c) # "cr" BY <3>2, <4>1 DEF Returns
      <4>3. AsLine(b, c) BY <3>1, <3>2, <4>2 DEF Line, AsLine
      <4> QED BY <4>3 DEF TakenRight, b, c
    <3>3. CASE Block(b, c)
      <4>1. ~Nests(b, c) BY <2>2, Zenon DEF Misread
      <4>2. /\ \A j \in b+2..c-3 : ~IsBlockEnd(j)
            /\ c = n + 1 \/ (b + 4 <= c /\ IsBlockEnd(c - 2))
        BY <2>1, <3>3, <4>1, FlatBlock
      <4>3. IsBlock(b) /\ b + 1 < c BY <3>3 DEF Block
      <4>4. AsBlock(b, c) BY <3>1, <4>2, <4>3 DEF AsBlock
      <4> QED BY <4>4 DEF TakenRight, b, c
    <3> QED BY <2>7, <3>2, <3>3 DEF IsComment
  <2> QED BY <2>1, <2>5, <2>6, <2>7
<1> QED BY <1>2 DEF Lexed, Taken

\* Mask starts at the first lexeme, with nothing written.
LEMMA MaskStarts == Init => (Legible => MaskInv)
<1> SUFFICES ASSUME Init, Legible PROVE MaskInv OBVIOUS
<1>1. PICK x \in Inputs : text = x.text /\ role = x.role /\ lexemes = x.lexemes BY DEF Init
<1>2. /\ x.text \in Seq(Chars) /\ x.lexemes \subseteq Nat \X Nat
      /\ x.role \in [DOMAIN x.text -> {"value", "plain", "mark"}]
  BY RedactionAssumption, Zenon
<1>3. TextTyped
  <2>1. DOMAIN text = 1..n BY <1>1, <1>2 DEF n
  <2> QED BY <1>1, <1>2, <2>1 DEF TextTyped
<1>4. n \in Nat /\ Lexed /\ mode = "switch" /\ i = 1 /\ out = << >> BY <1>3 DEF Init, TextTyped, n
<1>5. Taken BY <1>3, <1>4, ReadAlike
<1>6. Where("switch", 1)
  <2>1. CASE n = 0 BY <2>1 DEF Where
  <2>2. CASE n # 0 BY <1>4, <1>5, <2>2 DEF Where, Taken
  <2> QED BY <2>1, <2>2
<1>7. Good(<< >>, 1)
  <2>1. << >> \in Seq(-1..n) /\ Len(<< >>) = 0 /\ 1..0 = {} OBVIOUS
  <2>2. \A p \in 1..n : ~(p < 1) BY <1>4
  <2> QED BY <2>1, <2>2 DEF Good
<1>8. i \in 1..n+1 BY <1>4
<1> QED BY <1>3, <1>4, <1>5, <1>6, <1>7, <1>8 DEF MaskInv

\* Every step of Mask keeps the invariant.
LEMMA MaskSteps == ASSUME MaskInv, [Next]_vars PROVE MaskInv'
<1>1. CASE UNCHANGED vars
  <2>1. /\ UNCHANGED <<text, role, lexemes>> /\ mode' = mode /\ i' = i /\ out' = out
    BY <1>1 DEF vars
  <2> QED BY <2>1, Keeps DEF MaskInv
<1>2. CASE Next
  BY <1>2, LineCommentKeeps, InLineKeeps, BlockCommentKeeps, InBlockKeeps, StringLiteralKeeps,
     InStringKeeps, DollarQuoteKeeps, ParamKeeps, InParamKeeps, QuotedIdentKeeps, InIdentKeeps,
     NumericKeeps, InNumberKeeps, DefaultKeeps DEF Next
<1> QED BY <1>1, <1>2

\* A text that Mask reads right was so from the start.
LEMMA StaysLegible == ASSUME [Next]_vars PROVE Legible' <=> Legible
<1>1. UNCHANGED <<text, role, lexemes>>
  BY DEF vars, Next, LineComment, InLine, BlockComment, InBlock, StringLiteral, InString, DollarQuote,
         Param, InParam, QuotedIdent, InIdent, Numeric, InNumber, Default, Goto
<1> QED BY <1>1, SameText

\* The invariant of Mask on the texts it reads right.
LEMMA Masks == Spec => [](Legible => MaskInv)
<1>1. (Legible => MaskInv) /\ [Next]_vars => (Legible => MaskInv)' BY MaskSteps, StaysLegible
<1> QED BY <1>1, MaskStarts, PTL DEF Spec

\* Wherever Mask is in a text, and however it was cut off, it has copied no character of a
\* literal or of the body of a comment (redact.go:1), unless one of the lexemes that Misread
\* lists is in it.
THEOREM NoValueCopied == Spec => []ValuesMasked
<1>1. (Legible => MaskInv) => ValuesMasked BY DEF MaskInv, Good, ValuesMasked
<1> QED BY <1>1, Masks, PTL

\* When Mask returns from such a text, the keywords, identifiers, parameters and the
\* structure of the query are all there, in their order (redact.go:8).
THEOREM StructureStays == Spec => []StructureKept
<1>1. (Legible => MaskInv) => StructureKept
  <2> SUFFICES ASSUME MaskInv, i > n PROVE Readable BY DEF StructureKept, Returned
  <2>1. i = n + 1 /\ n \in Nat /\ Good(out, i) BY Parts
  <2> DEFINE plain == {p \in 1..n : role[p] = "plain"}
  <2>2. \A p : p \in plain <=> IsPlain(p) BY DEF IsPlain
  <2>3. \A p \in plain : p < i BY <2>1
  <2> HIDE DEF plain
  <2>4. \A p \in plain : p \in 1..n BY <2>2 DEF IsPlain
  <2>5. \A p \in plain : \E k \in 1..Len(out) : out[k] = p BY <2>1, <2>2, <2>3, <2>4 DEF Good
  <2>6. \A j, k \in 1..Len(out) : j < k /\ out[j] \in plain /\ out[k] \in plain => out[j] < out[k]
    BY <2>1, <2>2 DEF Good
  <2> QED BY <2>5, <2>6 DEF Readable, plain
<1> QED BY <1>1, Masks, PTL
=============================================================================
