------------------------- MODULE SnapshotRingProofs -------------------------
(***************************************************************************)
(* Facts about the ring for every ring size: where the modular indices of  *)
(* Put, Latest, At and History point, that Put slides the window of        *)
(* retained snapshots by one, what the loop of History lists and which     *)
(* snapshot the loop of At finds.                                          *)
(***************************************************************************)
EXTENDS SnapshotRing, WellFoundedInduction, TLAPS

\* What the ring looks like between two operations of the store.
RingType(S) == /\ buf \in [0..Cap-1 -> S]
               /\ head \in 0..Cap-1
               /\ size \in 0..Cap

\* The last Cap elements of s (Newest of module SlidingWindow).
LastOf(s) == IF Len(s) <= Cap THEN s
             ELSE [i \in 1..Cap |-> s[i + Len(s) - Cap]]

\* New never makes an empty ring.
LEMMA CapPositive == Cap \in Nat /\ Cap >= 1
  BY RingSizeAssumption DEF Cap

\* An index that is at most one lap off is brought back into the ring.
LEMMA Wrap == ASSUME NEW c \in Nat, c >= 1, NEW x \in (-c)..(c-1)
              PROVE  (x + c * 2) % c = IF x < 0 THEN x + c ELSE x
  OBVIOUS

\* head + 1 and head - 1, as Put and Latest take them.
LEMMA Neighbours == ASSUME NEW c \in Nat, c >= 1, NEW h \in 0..c-1
                    PROVE  /\ (h + 1) % c = IF h = c - 1 THEN 0 ELSE h + 1
                           /\ (h - 1 + c) % c = IF h = 0 THEN c - 1 ELSE h - 1
  OBVIOUS

\* The slot of the k-th oldest of z snapshots, with the head at h.
LEMMA WrapSlot ==
    ASSUME NEW c \in Nat, c >= 1, NEW h \in 0..c-1, NEW z \in 0..c, NEW k \in 0..z-1
    PROVE  (h - z + k + c * 2) % c = IF h - z + k < 0 THEN h - z + k + c ELSE h - z + k
  <1>1. h - z + k \in (-c)..(c-1) OBVIOUS
  <1> QED BY <1>1, Wrap

\* The k-th oldest snapshot is at the slot History reads.
LEMMA OldestSlot ==
    ASSUME head \in 0..Cap-1, size \in 0..Cap, NEW k \in 0..size-1
    PROVE  Oldest(k) = buf[IF head - size + k < 0 THEN head - size + k + Cap
                           ELSE head - size + k]
  BY CapPositive, WrapSlot DEF Oldest

\* Latest reads the newest of the retained snapshots, and so does the first
\* round of At.
LEMMA LatestIsNewest ==
    ASSUME head \in 0..Cap-1, size \in 0..Cap, HasLatest
    PROVE  Latest = Retained[size] /\ Newest(0) = Latest
  <1>1. Latest = buf[IF head = 0 THEN Cap - 1 ELSE head - 1]
    BY CapPositive, Neighbours DEF Latest
  <1>2. Oldest(size - 1) = buf[IF head - 1 < 0 THEN head - 1 + Cap ELSE head - 1]
    <2>1. size - 1 \in 0..size-1 /\ head - size + (size - 1) = head - 1
      BY CapPositive DEF HasLatest
    <2> QED BY <2>1, OldestSlot, CapPositive
  <1>3. Retained[size] = Oldest(size - 1)
    BY CapPositive DEF Retained, HasLatest
  <1>4. Newest(0) = buf[IF head - 1 < 0 THEN head - 1 + Cap ELSE head - 1]
    <2>1. head - 1 - 0 + Cap * 2 = (head - 1) + Cap * 2 /\ head - 1 \in (-Cap)..(Cap-1)
      BY CapPositive
    <2>2. ((head - 1) + Cap * 2) % Cap = IF head - 1 < 0 THEN head - 1 + Cap ELSE head - 1
      BY <2>1, CapPositive, Wrap
    <2> QED BY <2>1, <2>2 DEF Newest
  <1> QED BY <1>1, <1>2, <1>3, <1>4, CapPositive

\* What is retained is a sequence of size snapshots.
LEMMA RetainedType ==
    ASSUME NEW S, RingType(S)
    PROVE  Retained \in Seq(S) /\ Len(Retained) = size /\ DOMAIN Retained = 1..size
  <1>1. ASSUME NEW i \in 1..size PROVE Oldest(i - 1) \in S
    <2>1. i - 1 \in 0..size-1 BY CapPositive DEF RingType
    <2> QED BY <2>1, OldestSlot, CapPositive DEF RingType
  <1>2. Retained \in [1..size -> S] BY <1>1 DEF Retained
  <1>3. size \in Nat BY CapPositive DEF RingType
  <1> QED BY <1>2, <1>3

\* Put keeps the ring a ring.
LEMMA PutType ==
    ASSUME NEW S, RingType(S), NEW s \in S, RingPut(s)
    PROVE  RingType(S)'
  <1>1. head' \in 0..Cap-1 BY CapPositive, Neighbours DEF RingType, RingPut
  <1>2. size' \in 0..Cap BY CapPositive DEF RingType, RingPut
  <1> QED BY <1>1, <1>2 DEF RingType, RingPut, Cap

\* A sequence is the function of its elements.
LEMMA SeqAsFunction ==
    ASSUME NEW S, NEW q \in Seq(S), NEW n \in Nat, Len(q) = n
    PROVE  q = [i \in 1..n |-> q[i]]
  OBVIOUS

\* A sequence one longer than the ring loses its first element.
LEMMA LastOfLonger ==
    ASSUME NEW q, Len(q) = Cap + 1
    PROVE  LastOf(q) = [i \in 1..Cap |-> q[i + 1]]
  <1>1. Cap \in Nat BY CapPositive
  <1>2. ~(Len(q) <= Cap) BY <1>1
  <1>3. LastOf(q) = [i \in 1..Cap |-> q[i + Len(q) - Cap]] BY <1>2 DEF LastOf
  <1>4. \A i \in 1..Cap : i + Len(q) - Cap = i + 1 BY <1>1
  <1> QED BY <1>3, <1>4

\* Put slides the window: what the ring retains after it is what it retained
\* before and the new snapshot, without the oldest when the ring was full.
LEMMA PutSlides ==
    ASSUME NEW S, RingType(S), NEW s \in S, RingPut(s)
    PROVE  Retained' = LastOf(Append(Retained, s))
  <1> DEFINE slot(h, z, k) == IF h - z + k < 0 THEN h - z + k + Cap ELSE h - z + k
             old == Append(Retained, s)
  <1>t. RingType(S)' BY PutType
  <1>c. Cap \in Nat /\ Cap >= 1 /\ head \in 0..Cap-1 /\ size \in 0..Cap
    BY CapPositive DEF RingType
  <1>h. head' = IF head = Cap - 1 THEN 0 ELSE head + 1
    BY <1>c, Neighbours DEF RingPut
  <1>o. \A k \in 0..size-1 : Oldest(k) = buf[slot(head, size, k)]
    <2>1. ASSUME NEW k \in 0..size-1 PROVE Oldest(k) = buf[slot(head, size, k)]
      BY <1>c, OldestSlot
    <2> QED BY <2>1
  <1>n. \A k \in 0..size'-1 : Oldest(k)' = buf'[slot(head', size', k)]
    <2>1. \A k \in 0..size'-1 :
              (head' - size' + k + Cap * 2) % Cap = slot(head', size', k)
      BY <1>t, <1>c, WrapSlot DEF RingType, Cap
    <2> QED BY <2>1 DEF Oldest, Cap
  <1>b. \A x \in 0..Cap-1 : buf'[x] = IF x = head THEN s ELSE buf[x]
    BY <1>c DEF RingPut, RingType
  <1>r. /\ Retained \in Seq(S) /\ Len(Retained) = size
        /\ Len(old) = size + 1
        /\ \A i \in 1..size : old[i] = Oldest(i - 1)
        /\ old[size + 1] = s
    <2>1. Retained \in Seq(S) /\ Len(Retained) = size BY RetainedType
    <2>2. \A i \in 1..size : Retained[i] = Oldest(i - 1) BY DEF Retained
    <2> QED BY <2>1, <2>2, <1>c
  <1>1. CASE size < Cap
    <2>1. size' = size + 1 BY <1>1 DEF RingPut
    <2>2. ASSUME NEW i \in 1..size+1 PROVE Oldest(i - 1)' = old[i]
      <3>1. Oldest(i - 1)' = buf'[slot(head', size', i - 1)] BY <1>n, <2>1, <1>c
      <3>2. CASE i = size + 1
        <4>1. slot(head', size', i - 1) = head BY <3>2, <2>1, <1>h, <1>c
        <4> QED BY <3>1, <3>2, <4>1, <1>b, <1>r, <1>c
      <3>3. CASE i # size + 1
        <4>1. /\ slot(head', size', i - 1) = slot(head, size, i - 1)
              /\ slot(head, size, i - 1) # head /\ slot(head, size, i - 1) \in 0..Cap-1
          BY <3>3, <2>1, <1>h, <1>c, <1>1
        <4>2. i \in 1..size /\ i - 1 \in 0..size-1 BY <3>3, <1>c
        <4> QED BY <3>1, <4>1, <4>2, <1>b, <1>o, <1>r
      <3> QED BY <3>2, <3>3
    <2>3. Retained' = [i \in 1..size+1 |-> old[i]] BY <2>1, <2>2 DEF Retained
    <2>4. old \in Seq(S) BY <1>r
    <2>5. old = [i \in 1..size+1 |-> old[i]]
      <3>1. Len(old) = size + 1 /\ size + 1 \in Nat BY <1>r, <1>c
      <3> HIDE DEF old
      <3> QED BY <2>4, <3>1, SeqAsFunction
    <2>6. LastOf(old) = old BY <1>r, <1>1, <1>c DEF LastOf
    <2> QED BY <2>3, <2>5, <2>6
  <1>2. CASE size = Cap
    <2>1. size' = Cap BY <1>2, <1>c DEF RingPut
    <2>2. ASSUME NEW i \in 1..Cap PROVE Oldest(i - 1)' = old[i + 1]
      <3>1. Oldest(i - 1)' = buf'[slot(head', size', i - 1)] BY <1>n, <2>1, <1>c
      <3>2. CASE i = Cap
        <4>1. slot(head', size', i - 1) = head BY <3>2, <2>1, <1>h, <1>c
        <4> QED BY <3>1, <3>2, <4>1, <1>b, <1>r, <1>c, <1>2
      <3>3. CASE i # Cap
        <4>1. /\ slot(head', size', i - 1) = slot(head, size, i)
              /\ slot(head, size, i) # head /\ slot(head, size, i) \in 0..Cap-1
          BY <3>3, <2>1, <1>h, <1>c, <1>2
        <4>2. i + 1 \in 1..size /\ i \in 0..size-1 /\ (i + 1) - 1 = i BY <3>3, <1>c, <1>2
        <4> QED BY <3>1, <4>1, <4>2, <1>b, <1>o, <1>r
      <3> QED BY <3>2, <3>3
    <2>3. Retained' = [i \in 1..Cap |-> old[i + 1]] BY <2>1, <2>2 DEF Retained
    <2>4. LastOf(old) = [i \in 1..Cap |-> old[i + 1]]
      <3>1. Len(old) = Cap + 1 BY <1>r, <1>2
      <3> HIDE DEF old
      <3> QED BY <3>1, LastOfLonger
    <2> QED BY <2>3, <2>4
  <1> QED BY <1>1, <1>2, <1>c

-----------------------------------------------------------------------------
(* The loops of History and At *)

\* A nonempty set of naturals has a least element: what an induction over the rounds
\* of a loop comes down to.
LEMMA Least == ASSUME NEW S \in SUBSET Nat, S # {} PROVE \E m \in S : \A k \in S : m <= k
  <1>1. \E x \in S : \A y \in S : ~(y < x)
    <2>1. \E x \in S : \A y \in S : ~(<<y, x>> \in OpToRel(<, Nat))
      BY NatLessThanWellFounded, WFMin
    <2> QED BY <2>1 DEF OpToRel
  <1> QED BY <1>1

\* A set of naturals with 0 and the successors of its members is all of them.
LEMMA AllNaturals ==
    ASSUME NEW S, 0 \in S, \A n \in Nat : n \in S => n + 1 \in S
    PROVE  \A n \in Nat : n \in S
  <1> DEFINE bad == {n \in Nat : n \notin S}
  <1> SUFFICES ASSUME bad # {} PROVE FALSE OBVIOUS
  <1>1. PICK m \in bad : \A k \in bad : m <= k BY Least
  <1>2. m \in Nat /\ m # 0 BY <1>1
  <1>3. m - 1 \in Nat /\ m - 1 \in S BY <1>1, <1>2
  <1>4. (m - 1) + 1 \in S BY <1>3
  <1> QED BY <1>1, <1>2, <1>4

\* One round of History's loop, after the rounds g has.
HistoryRound(g, k, from, to) ==
    IF k = 0 THEN << >>
    ELSE IF InRange(Oldest(k - 1), from, to) THEN Append(g[k - 1], Oldest(k - 1))
    ELSE g[k - 1]

\* There is a function that takes the rounds one after the other.
LEMMA HistoryLoopExists ==
    ASSUME NEW from, NEW to, NEW z \in Nat
    PROVE  \E g : g = [k \in 0..z |-> HistoryRound(g, k, from, to)]
  <1> DEFINE Loops(n) == \E g : g = [k \in 0..n |-> HistoryRound(g, k, from, to)]
             S == {n \in Nat : Loops(n)}
  <1>1. Loops(0)
    <2> DEFINE g == [k \in 0..0 |-> << >>]
    <2>1. \A k \in 0..0 : HistoryRound(g, k, from, to) = << >> BY DEF HistoryRound
    <2>2. g = [k \in 0..0 |-> HistoryRound(g, k, from, to)] BY <2>1
    <2> QED BY <2>2
  <1>2. ASSUME NEW n \in Nat, Loops(n) PROVE Loops(n + 1)
    <2>1. PICK g : g = [k \in 0..n |-> HistoryRound(g, k, from, to)] BY <1>2
    <2> DEFINE h == [k \in 0..n+1 |-> IF k = n + 1 THEN HistoryRound(g, n + 1, from, to)
                                     ELSE g[k]]
    <2>2. ASSUME NEW k \in 0..n+1 PROVE h[k] = HistoryRound(h, k, from, to)
      <3>1. \A j \in 0..n : h[j] = g[j] BY <2>1
      <3>2. k = 0 \/ (k - 1 \in 0..n /\ h[k - 1] = g[k - 1]) BY <3>1
      <3>3. HistoryRound(h, k, from, to) = HistoryRound(g, k, from, to)
        BY <3>2 DEF HistoryRound
      <3>4. CASE k = n + 1 BY <3>3, <3>4
      <3>5. CASE k # n + 1
        <4>1. k \in 0..n BY <3>5
        <4>2. g[k] = HistoryRound(g, k, from, to) BY <2>1, <4>1
        <4> QED BY <3>1, <3>3, <4>1, <4>2
      <3> QED BY <3>4, <3>5
    <2>3. h = [k \in 0..n+1 |-> HistoryRound(h, k, from, to)] BY <2>2
    <2> QED BY <2>3
  <1> HIDE DEF Loops
  <1>3. 0 \in S /\ \A n \in Nat : n \in S => n + 1 \in S BY <1>1, <1>2
  <1> HIDE DEF S
  <1>4. z \in S BY <1>3, AllNaturals
  <1> QED BY <1>4 DEF S, Loops

\* History lists what the rounds have collected.
LEMMA HistoryLoop ==
    ASSUME NEW from, NEW to, size \in Nat
    PROVE  \E g : /\ g = [k \in 0..size |-> HistoryRound(g, k, from, to)]
                  /\ RingHistory(from, to) = g[size]
  <1> DEFINE F == CHOOSE g : g = [k \in 0..size |-> HistoryRound(g, k, from, to)]
  <1>1. F = [k \in 0..size |-> HistoryRound(F, k, from, to)] BY HistoryLoopExists
  <1>2. RingHistory(from, to) = F[size] BY DEF RingHistory, HistoryRound
  <1> HIDE DEF F
  <1> QED BY <1>1, <1>2

\* History lists the retained snapshots of the interval, all of them and nothing else.
LEMMA HistoryLists ==
    ASSUME NEW S, RingType(S), NEW from, NEW to
    PROVE  /\ RingHistory(from, to) \in Seq(S)
           /\ \A i \in 1..Len(RingHistory(from, to)) : \E j \in 1..size :
                 RingHistory(from, to)[i] = Retained[j] /\ InRange(Retained[j], from, to)
           /\ \A j \in 1..size : InRange(Retained[j], from, to) =>
                 \E i \in 1..Len(RingHistory(from, to)) : RingHistory(from, to)[i] = Retained[j]
  <1> DEFINE Listed(q, n) ==
                 /\ q \in Seq(S)
                 /\ \A i \in 1..Len(q) : \E j \in 1..n :
                       q[i] = Retained[j] /\ InRange(Retained[j], from, to)
                 /\ \A j \in 1..n : InRange(Retained[j], from, to) =>
                       \E i \in 1..Len(q) : q[i] = Retained[j]
  <1>0. size \in Nat /\ \A j \in 1..size : Retained[j] \in S /\ Retained[j] = Oldest(j - 1)
    BY CapPositive, RetainedType DEF RingType, Retained
  <1>1. PICK g : /\ g = [k \in 0..size |-> HistoryRound(g, k, from, to)]
                 /\ RingHistory(from, to) = g[size]
    BY <1>0, HistoryLoop
  <1> DEFINE T == {n \in Nat : n <= size => Listed(g[n], n)}
  <1>2. 0 \in T
    <2>1. g[0] = << >> BY <1>0, <1>1 DEF HistoryRound
    <2>2. Listed(<< >>, 0) OBVIOUS
    <2> HIDE DEF Listed
    <2> QED BY <2>1, <2>2
  <1>3. ASSUME NEW n \in Nat, n \in T PROVE n + 1 \in T
    <2> SUFFICES ASSUME n + 1 <= size PROVE Listed(g[n + 1], n + 1) OBVIOUS
    <2>1. Listed(g[n], n) BY <1>0, <1>3
    <2>2. n + 1 \in 1..size /\ n + 1 \in 0..size /\ (n + 1) - 1 = n /\ n + 1 # 0 BY <1>0
    <2>3. Retained[n + 1] \in S /\ Retained[n + 1] = Oldest(n) BY <1>0, <2>2
    <2>4. g[n + 1] = IF InRange(Oldest(n), from, to) THEN Append(g[n], Oldest(n)) ELSE g[n]
      BY <1>1, <2>2 DEF HistoryRound
    <2>5. CASE InRange(Oldest(n), from, to)
      <3>1. g[n + 1] = Append(g[n], Retained[n + 1]) BY <2>3, <2>4, <2>5
      <3>2. /\ g[n] \in Seq(S) /\ g[n + 1] \in Seq(S) /\ Len(g[n + 1]) = Len(g[n]) + 1
            /\ \A i \in 1..Len(g[n]) : g[n + 1][i] = g[n][i]
            /\ g[n + 1][Len(g[n]) + 1] = Retained[n + 1]
        BY <2>1, <2>3, <3>1
      <3>3. ASSUME NEW i \in 1..Len(g[n + 1])
            PROVE  \E j \in 1..n+1 :
                      g[n + 1][i] = Retained[j] /\ InRange(Retained[j], from, to)
        <4>1. CASE i = Len(g[n]) + 1 BY <4>1, <3>2, <2>3, <2>5
        <4>2. CASE i # Len(g[n]) + 1
          <5>1. i \in 1..Len(g[n]) BY <3>2, <4>2
          <5>2. PICK j \in 1..n : g[n][i] = Retained[j] /\ InRange(Retained[j], from, to)
            BY <2>1, <5>1
          <5>3. j \in 1..n+1 OBVIOUS
          <5> QED BY <3>2, <5>1, <5>2, <5>3
        <4> QED BY <4>1, <4>2
      <3>4. ASSUME NEW j \in 1..n+1, InRange(Retained[j], from, to)
            PROVE  \E i \in 1..Len(g[n + 1]) : g[n + 1][i] = Retained[j]
        <4>1. CASE j = n + 1
          <5>1. Len(g[n]) + 1 \in 1..Len(g[n + 1]) BY <3>2
          <5> QED BY <4>1, <3>2, <5>1
        <4>2. CASE j # n + 1
          <5>1. j \in 1..n BY <4>2
          <5>2. PICK i \in 1..Len(g[n]) : g[n][i] = Retained[j] BY <2>1, <3>4, <5>1
          <5>3. i \in 1..Len(g[n + 1]) BY <3>2
          <5> QED BY <3>2, <5>2, <5>3
        <4> QED BY <4>1, <4>2
      <3> QED BY <3>2, <3>3, <3>4
    <2>6. CASE ~InRange(Oldest(n), from, to)
      <3>1. g[n + 1] = g[n] BY <2>4, <2>6
      <3>2. ~InRange(Retained[n + 1], from, to) BY <2>3, <2>6
      <3>3. \A j \in 1..n+1 : j \in 1..n \/ j = n + 1 OBVIOUS
      <3>4. \A j \in 1..n : j \in 1..n+1 OBVIOUS
      <3> QED BY <2>1, <3>1, <3>2, <3>3, <3>4
    <2> QED BY <2>5, <2>6
  <1>4. size \in T
    <2>1. \A n \in Nat : n \in T => n + 1 \in T BY <1>3
    <2> HIDE DEF T
    <2> QED BY <1>0, <1>2, <2>1, AllNaturals
  <1>5. Listed(g[size], size)
    <2> HIDE DEF Listed
    <2> QED BY <1>0, <1>4
  <1> QED BY <1>1, <1>5

\* The walk of At from the newest back meets the retained snapshots.
LEMMA NewestIsRetained ==
    ASSUME head \in 0..Cap-1, size \in 0..Cap, NEW k \in 0..size-1
    PROVE  Newest(k) = Retained[size - k] /\ size - k \in 1..size
  <1>1. size - k \in 1..size BY CapPositive
  <1>2. head - size + ((size - k) - 1) + Cap * 2 = head - 1 - k + Cap * 2 BY CapPositive
  <1> QED BY <1>1, <1>2 DEF Newest, Retained, Oldest

\* Between times less than the largest Duration apart Distance is the distance; any
\* distance is at least the least Duration.
LEMMA DistanceIs ==
    ASSUME NEW t \in Int, NEW u \in Int
    PROVE  /\ Distance(t, u) \in Int /\ Distance(t, u) >= -MaxDur - 1
           /\ (IF t < u THEN u - t ELSE t - u) < MaxDur =>
                  Distance(t, u) = IF t < u THEN u - t ELSE t - u
  BY MaxDurAssumption DEF Distance, Sub

\* If a snapshot of the walk is near at all, At's loop ends with the first of the
\* nearest.
LEMMA NearestFound ==
    ASSUME NEW t \in Int, NEW ks \in SUBSET Nat, \A k \in ks : Newest(k) \in Int,
           NEW one \in ks, Distance(t, Newest(one)) < MaxDur
    PROVE  \E k \in ks : /\ NearestOf(t, ks) = Newest(k)
                         /\ Distance(t, Newest(k)) < MaxDur
                         /\ \A j \in ks : Distance(t, Newest(j)) < MaxDur =>
                               Distance(t, Newest(k)) <= Distance(t, Newest(j))
  <1> DEFINE dist(k) == Distance(t, Newest(k))
             near == {k \in ks : dist(k) < MaxDur}
             First(k) == \A j \in near : dist(k) < dist(j) \/ (dist(k) = dist(j) /\ k <= j)
             best == CHOOSE k \in near : First(k)
  <1>0. \A k \in near : dist(k) \in Int /\ dist(k) + MaxDur + 1 \in Nat
    <2>1. ASSUME NEW k \in near PROVE dist(k) \in Int /\ dist(k) >= -MaxDur - 1
      BY DistanceIs
    <2> HIDE DEF dist, near
    <2> QED BY <2>1, MaxDurAssumption
  <1>1. one \in near OBVIOUS
  <1>2. PICK d \in {dist(k) + MaxDur + 1 : k \in near} :
            \A e \in {dist(k) + MaxDur + 1 : k \in near} : d <= e
    <2> DEFINE D == {dist(k) + MaxDur + 1 : k \in near}
    <2>1. D \in SUBSET Nat /\ D # {} BY <1>0, <1>1
    <2> HIDE DEF D
    <2>2. \E d \in D : \A e \in D : d <= e BY <2>1, Least
    <2> QED BY <2>2 DEF D
  <1>3. PICK k \in {j \in near : dist(j) + MaxDur + 1 = d} :
            \A i \in {j \in near : dist(j) + MaxDur + 1 = d} : k <= i
    <2> DEFINE K == {j \in near : dist(j) + MaxDur + 1 = d}
    <2>1. K \in SUBSET Nat /\ K # {} BY <1>2
    <2> HIDE DEF K
    <2>2. \E i \in K : \A j \in K : i <= j BY <2>1, Least
    <2> QED BY <2>2 DEF K
  <1>4. k \in near /\ First(k)
    <2>1. k \in near /\ dist(k) + MaxDur + 1 = d BY <1>3
    <2>2. ASSUME NEW j \in near PROVE dist(k) < dist(j) \/ (dist(k) = dist(j) /\ k <= j)
      <3>1. d <= dist(j) + MaxDur + 1 BY <1>2
      <3>2. dist(j) + MaxDur + 1 = d => k <= j BY <1>3
      <3>3. dist(k) \in Int /\ dist(j) \in Int /\ MaxDur \in Nat BY <1>0, <2>1, MaxDurAssumption
      <3> HIDE DEF dist
      <3> QED BY <2>1, <3>1, <3>2, <3>3
    <2> QED BY <2>1, <2>2
  <1>5. best \in near /\ First(best)
    <2> HIDE DEF First, near
    <2> QED BY <1>4
  <1>6. NearestOf(t, ks) = Newest(best) BY <1>1 DEF NearestOf
  <1> HIDE DEF best
  <1>7. ASSUME NEW j \in ks, dist(j) < MaxDur PROVE dist(best) <= dist(j)
    <2>1. j \in near BY <1>7
    <2>2. dist(best) < dist(j) \/ dist(best) = dist(j) BY <1>5, <2>1
    <2>3. dist(best) \in Int /\ dist(j) \in Int BY <1>0, <1>5, <2>1
    <2> HIDE DEF dist
    <2> QED BY <2>2, <2>3
  <1> QED BY <1>5, <1>6, <1>7

=============================================================================
