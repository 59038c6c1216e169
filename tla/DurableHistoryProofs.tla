------------------------ MODULE DurableHistoryProofs ------------------------
(***************************************************************************)
(* What the durable history promises beside the ring, for every ring size, *)
(* retention, pruning interval and duration of a Save, through failed      *)
(* statements, restarts and reads that interleave with all of them.        *)
(***************************************************************************)
EXTENDS DurableHistory, SnapshotRingProofs

-----------------------------------------------------------------------------
(* The inductive invariant *)

\* Save has its time from the context, its row is not there before it succeeds,
\* and the row is there when maybePrune decides to delete.
SaveInTime ==
    /\ put # "idle" => taken >= 1 /\ now <= taken + SaveTime
    /\ put = "save" => taken \notin rows /\ lastPrune <= taken
    /\ put = "prune" => Retention > 0 /\ taken \in rows

\* What the ring retains was saved, or its Save failed or is still to come, or
\* it has expired.
RetainedIsSaved ==
    \A i \in 1..size :
        /\ Retained[i] \in 1..taken
        /\ \/ Retained[i] \in rows \cup lost
           \/ put = "save" /\ Retained[i] = taken
           \/ Retention > 0 /\ Retained[i] < now - Retention

\* What the last DELETE that succeeded has left, and how long ago it was when the
\* last row was inserted.
PrunedUpTo ==
    /\ (pruned /\ Retention > 0 /\ lastPrune # Never /\ put # "prune") =>
           \A r \in rows : r >= lastPrune - Retention
    /\ (Retention > 0 /\ lastPrune # Never /\ taken \in rows) =>
           taken <= lastPrune + PruneEvery

\* Between its two SELECTs a request knows what the first one found, and no row of
\* then is later than all rows of now.
ReadInProgress ==
    rd.at = "above" => /\ rd.t \in Asked /\ rd.had \subseteq Times
                       /\ rd.below = Below(rd.had, UnixNano(rd.t))
                       /\ \A h \in rd.had : \E r \in rows : h <= r

Inv == TypeOK /\ SaveInTime /\ RetainedIsSaved /\ PrunedUpTo /\ ReadInProgress

-----------------------------------------------------------------------------
(* The two SELECTs of At *)

USE DEF NoSnap

\* An int64 is an integer, and a number that fits is kept as it is.
LEMMA Int64Is ==
    ASSUME NEW n \in Int
    PROVE  /\ Int64(n) \in Int
           /\ -MaxDur - 1 <= n /\ n <= MaxDur => Int64(n) = n
  <1> DEFINE m == 2 * (MaxDur + 1)
             x == n + MaxDur + 1
  <1>1. m \in Nat /\ m >= 1 /\ x \in Int BY MaxDurAssumption
  <1>2. Int64(n) = (x % m) - (MaxDur + 1) BY DEF Int64
  <1>3. (-MaxDur - 1 <= n /\ n <= MaxDur) => (0 <= x /\ x < m) BY MaxDurAssumption
  <1>4. x - (MaxDur + 1) = n BY MaxDurAssumption
  <1> HIDE DEF m, x
  <1>5. x % m \in Int BY <1>1
  <1>6. 0 <= x /\ x < m => x % m = x BY <1>1
  <1> QED BY <1>2, <1>3, <1>4, <1>5, <1>6, MaxDurAssumption

\* The first SELECT finds the latest of the rows up to t, if there is one.
LEMMA BelowIs ==
    ASSUME NEW R \in SUBSET Times, NEW t \in Int
    PROVE  \/ Below(R, t) = NoSnap /\ \A r \in R : r > t
           \/ /\ Below(R, t) \in R /\ Below(R, t) <= t
              /\ \A r \in R : r <= t => r <= Below(R, t)
  <1> USE TimesAssumption DEF Times
  <1> DEFINE S == {r \in R : r <= t}
             D == {MaxTime - r : r \in S}
             last == CHOOSE r \in S : \A q \in S : q <= r
  <1>1. CASE S = {} BY <1>1 DEF Below
  <1>2. CASE S # {}
    <2>1. D \in SUBSET Nat /\ D # {}
      <3>1. \A r \in S : MaxTime - r \in Nat OBVIOUS
      <3> HIDE DEF S
      <3> QED BY <1>2, <3>1
    <2> HIDE DEF D
    <2>2. PICK d \in D : \A e \in D : d <= e BY <2>1, Least
    <2>3. PICK m \in S : d = MaxTime - m BY <2>2 DEF D
    <2>4. \A q \in S : MaxTime - q \in D BY DEF D
    <2>5. \A q \in S : q <= m BY <2>2, <2>3, <2>4
    <2>6. last \in S /\ \A q \in S : q <= last
      <3> HIDE DEF S
      <3> QED BY <2>5
    <2>7. Below(R, t) = last BY <1>2 DEF Below
    <2> HIDE DEF last
    <2> QED BY <2>6, <2>7
  <1> QED BY <1>1, <1>2

\* The second SELECT finds the earliest of the rows from t on, if there is one.
LEMMA AboveIs ==
    ASSUME NEW R \in SUBSET Times, NEW t \in Int
    PROVE  \/ Above(R, t) = NoSnap /\ \A r \in R : r < t
           \/ /\ Above(R, t) \in R /\ Above(R, t) >= t
              /\ \A r \in R : r >= t => r >= Above(R, t)
  <1> USE TimesAssumption DEF Times
  <1> DEFINE S == {r \in R : r >= t}
             next == CHOOSE r \in S : \A q \in S : r <= q
  <1>1. CASE S = {} BY <1>1 DEF Above
  <1>2. CASE S # {}
    <2>0. \A r \in R : r \in Nat OBVIOUS
    <2>1. S \in SUBSET Nat BY <2>0
    <2>2. next \in S /\ \A q \in S : next <= q
      <3> HIDE DEF S
      <3>1. \E m \in S : \A q \in S : m <= q BY <1>2, <2>1, Least
      <3> QED BY <3>1
    <2>3. Above(R, t) = next BY <1>2 DEF Above
    <2> HIDE DEF next
    <2> QED BY <2>2, <2>3
  <1> QED BY <1>1, <1>2

\* Both answer a time or nothing, and so does the ring.
LEMMA ReadsTyped ==
    ASSUME TypeOK, NEW t \in Int
    PROVE  /\ Below(rows, t) \in 0..MaxTime /\ Above(rows, t) \in 0..MaxTime
           /\ RingAt(t) \in 0..MaxTime
  <1> USE TimesAssumption DEF Times
  <1>1. rows \in SUBSET Times BY DEF TypeOK
  <1>2. RingAt(t) \in 0..MaxTime
    <2> DEFINE near == {k \in 0..size-1 : Distance(t, Newest(k)) < MaxDur}
    <2>0. RingType(0..MaxTime) BY DEF TypeOK, RingType
    <2>1. \A k \in 0..size-1 : Newest(k) \in 0..MaxTime
      <3> SUFFICES ASSUME NEW k \in 0..size-1 PROVE Newest(k) \in 0..MaxTime OBVIOUS
      <3>1. Newest(k) = Retained[size - k] /\ size - k \in 1..size
        BY NewestIsRetained DEF TypeOK
      <3> QED BY <2>0, <3>1, RetainedType
    <2>2. CASE near = {} BY <2>2 DEF RingAt, NearestOf
    <2>3. CASE near # {}
      <3>1. PICK one \in near : TRUE BY <2>3
      <3>2. 0..size-1 \in SUBSET Nat BY CapPositive DEF TypeOK
      <3>3. \E k \in 0..size-1 : NearestOf(t, 0..size-1) = Newest(k)
        <4>1. \A k \in 0..size-1 : Newest(k) \in Int BY <2>1
        <4>2. one \in 0..size-1 /\ Distance(t, Newest(one)) < MaxDur BY <3>1
        <4>3. t \in Int OBVIOUS
        <4> QED BY <4>1, <4>2, <4>3, <3>2, NearestFound
      <3> QED BY <2>1, <3>3 DEF RingAt
    <2> QED BY <2>2, <2>3
  <1>3. Below(rows, t) = NoSnap \/ Below(rows, t) \in rows BY <1>1, BelowIs
  <1>4. Above(rows, t) = NoSnap \/ Above(rows, t) \in rows BY <1>1, AboveIs
  <1>5. \A r \in rows : r \in 0..MaxTime BY <1>1
  <1> QED BY <1>2, <1>3, <1>4, <1>5

-----------------------------------------------------------------------------
(* Every step keeps the invariant *)

\* A step keeps the types.
LEMMA TypeStep == ASSUME TypeOK, SaveInTime, [Next]_vars PROVE TypeOK'
  <1> USE TimesAssumption, CapPositive DEF ringVars, diskVars, Times, Cap
  <1>1. CASE Tick
    BY <1>1 DEF Tick, TypeOK
  <1>2. CASE PutRing
    <2>1. RingType(0..MaxTime) /\ now \in 0..MaxTime /\ RingPut(now)
      BY <1>2 DEF PutRing, TypeOK, RingType
    <2>2. RingType(0..MaxTime)' BY <2>1, PutType
    <2> QED BY <1>2, <2>2 DEF PutRing, TypeOK, RingType
  <1>3. CASE SaveOK
    BY <1>3 DEF SaveOK, TypeOK, Never, SaveInTime
  <1>4. CASE SaveFails
    BY <1>4 DEF SaveFails, TypeOK, SaveInTime
  <1>5. CASE Prune
    BY <1>5 DEF Prune, TypeOK
  <1>6. CASE PruneFails
    BY <1>6 DEF PruneFails, TypeOK
  <1>7. CASE Restart
    BY <1>7 DEF Restart, TypeOK, NoRead, Never, SaveInTime
  <1>8. CASE AtAbove
    <2>0. rd.t \in Asked \cup {NoSnap} /\ rd.below \in 0..MaxTime BY DEF TypeOK
    <2>1. rd.t \in Int /\ rd.below \in 0..MaxTime
      <3>1. \A t \in Asked \cup {NoSnap} : t \in Int BY AskedAssumption
      <3> QED BY <2>0, <3>1, Zenon
    <2>2. Above(rows, UnixNano(rd.t)) \in 0..MaxTime BY <2>1, Int64Is, ReadsTyped DEF UnixNano
    <2>3. Closer(rd.below, Above(rows, UnixNano(rd.t)), UnixNano(rd.t)) \in 0..MaxTime
      BY <2>1, <2>2 DEF Closer
    <2> QED BY <1>8, <2>3 DEF AtAbove, TypeOK
  <1>9. CASE AtReturns
    BY <1>9 DEF AtReturns, TypeOK, NoRead
  <1>10. ASSUME NEW t \in Asked, AtBelow(t) PROVE TypeOK'
    <2>0. rows \subseteq 1..MaxTime BY DEF TypeOK
    <2>1. Below(rows, UnixNano(t)) \in 0..MaxTime
      BY AskedAssumption, Int64Is, ReadsTyped DEF UnixNano
    <2> QED BY <1>10, <2>0, <2>1 DEF AtBelow, TypeOK
  <1>11. ASSUME NEW t \in Asked, AtFallsBack(t) PROVE TypeOK'
    <2>1. RingAt(t) \in 0..MaxTime BY AskedAssumption, ReadsTyped
    <2>2. rd' \in [at : {"none", "above", "done", "ring"}, t : Asked \cup {NoSnap},
                    below : 0..MaxTime, had : SUBSET Times, ans : 0..MaxTime]
      <3>1. rd' = [at |-> "ring", t |-> t, below |-> 0, had |-> {}, ans |-> RingAt(t)]
        BY <1>11 DEF AtFallsBack, NoRead
      <3> QED BY <2>1, <3>1
    <2> QED BY <1>11, <2>2 DEF AtFallsBack, TypeOK
  <1>12. CASE UNCHANGED vars
    BY <1>12 DEF vars, TypeOK
  <1> QED BY <1>1, <1>2, <1>3, <1>4, <1>5, <1>6, <1>7, <1>8, <1>9, <1>10, <1>11, <1>12 DEF Next

\* A step keeps Save within its time, and the row it is about.
LEMMA SaveStep == ASSUME TypeOK, SaveInTime, [Next]_vars PROVE SaveInTime'
  <1> USE TimesAssumption DEF diskVars, SaveInTime, TypeOK, Times, Never
  <1>1. CASE Tick
    BY <1>1 DEF Tick
  <1>2. CASE PutRing
    BY <1>2 DEF PutRing
  <1>3. CASE SaveOK
    BY <1>3 DEF SaveOK
  <1>4. CASE SaveFails
    BY <1>4 DEF SaveFails
  <1>5. CASE Prune
    BY <1>5 DEF Prune
  <1>6. CASE PruneFails
    BY <1>6 DEF PruneFails
  <1>7. CASE Restart
    BY <1>7 DEF Restart
  <1>8. CASE AtAbove
    BY <1>8 DEF AtAbove
  <1>9. CASE AtReturns
    BY <1>9 DEF AtReturns
  <1>10. ASSUME NEW t \in Asked, AtBelow(t) PROVE SaveInTime'
    BY <1>10 DEF AtBelow
  <1>11. ASSUME NEW t \in Asked, AtFallsBack(t) PROVE SaveInTime'
    BY <1>11 DEF AtFallsBack
  <1>12. CASE UNCHANGED vars
    BY <1>12 DEF vars
  <1> QED BY <1>1, <1>2, <1>3, <1>4, <1>5, <1>6, <1>7, <1>8, <1>9, <1>10, <1>11, <1>12 DEF Next

\* A step that leaves the ring alone leaves alone what it retains.
LEMMA RingKept == ASSUME UNCHANGED ringVars PROVE Retained' = Retained /\ size' = size
  BY DEF ringVars, Retained, Oldest, Cap

\* A step takes nothing from the table that the ring retains and that has not expired.
LEMMA RetainedStep ==
    ASSUME TypeOK, SaveInTime, RetainedIsSaved, [Next]_vars PROVE RetainedIsSaved'
  <1> USE TimesAssumption, RetentionAssumption DEF TypeOK, Times
  <1>1. CASE Tick
    <2>1. Retained' = Retained /\ size' = size BY <1>1, RingKept DEF Tick
    <2> QED BY <1>1, <2>1 DEF Tick, diskVars, RetainedIsSaved
  <1>2. CASE PutRing
    <2> DEFINE old == Append(Retained, now)
    <2>1. RingType(0..MaxTime) /\ now \in 0..MaxTime /\ RingPut(now)
      BY <1>2 DEF PutRing, RingType
    <2>2. Retained' = LastOf(old) /\ RingType(0..MaxTime)' BY <2>1, PutSlides, PutType
    <2>3. /\ Retained \in Seq(0..MaxTime) /\ Len(Retained) = size
          /\ Len(Retained') = size' /\ size' \in Nat
      <3>1. Retained \in Seq(0..MaxTime) /\ Len(Retained) = size BY <2>1, RetainedType
      <3>2. size' \in Nat BY <2>2, CapPositive DEF RingType, Cap
      <3> QED BY <3>1, <3>2 DEF Retained
    <2>4. ASSUME NEW i \in 1..size'
          PROVE  Retained'[i] = now \/ \E j \in 1..size : Retained'[i] = Retained[j]
      <3>1. Len(old) = size + 1 /\ \A k \in 1..size+1 : old[k] = now \/
                \E j \in 1..size : old[k] = Retained[j]
        BY <2>1, <2>3
      <3>2. i \in 1..Len(LastOf(old)) BY <2>2, <2>3
      <3>3. \E k \in 1..size+1 : LastOf(old)[i] = old[k]
        <4>0. Len(LastOf(old)) = size' BY <2>2, <2>3
        <4> HIDE DEF old
        <4>1. CASE Len(old) <= Cap BY <3>1, <3>2, <4>1 DEF LastOf
        <4>2. CASE ~(Len(old) <= Cap)
          <5>1. LastOf(old) = [k \in 1..Cap |-> old[k + Len(old) - Cap]] BY <4>2 DEF LastOf
          <5>2. i \in 1..Cap BY <2>2, CapPositive DEF RingType, Cap
          <5>3. i + Len(old) - Cap \in 1..size+1 BY <3>1, <4>2, <5>2, CapPositive
          <5> QED BY <5>1, <5>2, <5>3
        <4> QED BY <4>1, <4>2
      <3> QED BY <2>2, <3>1, <3>3
    <2>5. put = "idle" /\ put' = "save" /\ taken' = now /\ taken < now
          /\ rows' = rows /\ lost' = lost /\ now' = now
      BY <1>2 DEF PutRing, diskVars
    <2> QED BY <2>4, <2>5 DEF RetainedIsSaved
  <1>3. CASE SaveOK
    <2>1. Retained' = Retained /\ size' = size BY <1>3, RingKept DEF SaveOK
    <2> QED BY <1>3, <2>1 DEF SaveOK, diskVars, RetainedIsSaved
  <1>4. CASE SaveFails
    <2>1. Retained' = Retained /\ size' = size BY <1>4, RingKept DEF SaveFails
    <2> QED BY <1>4, <2>1 DEF SaveFails, diskVars, RetainedIsSaved
  <1>5. CASE Prune
    <2>1. Retained' = Retained /\ size' = size BY <1>5, RingKept DEF Prune
    <2> QED BY <1>5, <2>1 DEF Prune, RetainedIsSaved, SaveInTime
  <1>6. CASE PruneFails
    <2>1. Retained' = Retained /\ size' = size BY <1>6, RingKept DEF PruneFails
    <2> QED BY <1>6, <2>1 DEF PruneFails, diskVars, RetainedIsSaved
  <1>7. CASE Restart
    BY <1>7 DEF Restart, RetainedIsSaved
  <1>8. CASE AtAbove
    <2>1. Retained' = Retained /\ size' = size BY <1>8, RingKept DEF AtAbove
    <2> QED BY <1>8, <2>1 DEF AtAbove, diskVars, RetainedIsSaved
  <1>9. CASE AtReturns
    <2>1. Retained' = Retained /\ size' = size BY <1>9, RingKept DEF AtReturns
    <2> QED BY <1>9, <2>1 DEF AtReturns, diskVars, RetainedIsSaved
  <1>10. ASSUME NEW t \in Asked, AtBelow(t) PROVE RetainedIsSaved'
    <2>1. Retained' = Retained /\ size' = size BY <1>10, RingKept DEF AtBelow
    <2> QED BY <1>10, <2>1 DEF AtBelow, diskVars, RetainedIsSaved
  <1>11. ASSUME NEW t \in Asked, AtFallsBack(t) PROVE RetainedIsSaved'
    <2>1. Retained' = Retained /\ size' = size BY <1>11, RingKept DEF AtFallsBack
    <2> QED BY <1>11, <2>1 DEF AtFallsBack, diskVars, RetainedIsSaved
  <1>12. CASE UNCHANGED vars
    <2>1. Retained' = Retained /\ size' = size BY <1>12, RingKept DEF vars
    <2> QED BY <1>12, <2>1 DEF vars, diskVars, RetainedIsSaved
  <1> QED BY <1>1, <1>2, <1>3, <1>4, <1>5, <1>6, <1>7, <1>8, <1>9, <1>10, <1>11, <1>12 DEF Next

\* A step keeps the bounds that the last DELETE has established.
LEMMA PrunedStep ==
    ASSUME TypeOK, SaveInTime, PrunedUpTo, [Next]_vars PROVE PrunedUpTo'
  <1> USE TimesAssumption, RetentionAssumption DEF diskVars, SaveInTime, TypeOK, Times, Never, PrunedUpTo
  <1>1. CASE Tick
    BY <1>1 DEF Tick
  <1>2. CASE PutRing
    BY <1>2 DEF PutRing
  <1>3. CASE SaveOK
    BY <1>3 DEF SaveOK
  <1>4. CASE SaveFails
    BY <1>4 DEF SaveFails
  <1>5. CASE Prune
    BY <1>5 DEF Prune
  <1>6. CASE PruneFails
    BY <1>6 DEF PruneFails
  <1>7. CASE Restart
    BY <1>7 DEF Restart
  <1>8. CASE AtAbove
    BY <1>8 DEF AtAbove
  <1>9. CASE AtReturns
    BY <1>9 DEF AtReturns
  <1>10. ASSUME NEW t \in Asked, AtBelow(t) PROVE PrunedUpTo'
    BY <1>10 DEF AtBelow
  <1>11. ASSUME NEW t \in Asked, AtFallsBack(t) PROVE PrunedUpTo'
    BY <1>11 DEF AtFallsBack
  <1>12. CASE UNCHANGED vars
    BY <1>12 DEF vars
  <1> QED BY <1>1, <1>2, <1>3, <1>4, <1>5, <1>6, <1>7, <1>8, <1>9, <1>10, <1>11, <1>12 DEF Next

\* A step keeps what a request in At knows of the table.
LEMMA ReadStep ==
    ASSUME TypeOK, SaveInTime, ReadInProgress, [Next]_vars PROVE ReadInProgress'
  <1> USE TimesAssumption, RetentionAssumption DEF diskVars, SaveInTime, TypeOK, ReadInProgress
  <1>1. CASE Tick
    BY <1>1 DEF Tick
  <1>2. CASE PutRing
    BY <1>2 DEF PutRing
  <1>3. CASE SaveOK
    <2>1. rows \subseteq rows' /\ rd' = rd BY <1>3 DEF SaveOK
    <2> QED BY <2>1
  <1>4. CASE SaveFails
    BY <1>4 DEF SaveFails
  <1>5. CASE Prune
    <2>1. taken \in rows' /\ rd' = rd BY <1>5 DEF Prune, Times
    <2>2. taken \in Nat /\ \A r \in rows : r \in 1..taken BY DEF Times
    <2>3. ASSUME NEW h \in rd.had, rd.at = "above" PROVE \E r \in rows' : h <= r
      <3>1. h \in Times BY <2>3
      <3>2. PICK r \in rows : h <= r BY <2>3
      <3>3. h <= taken BY <2>2, <3>1, <3>2 DEF Times
      <3> QED BY <2>1, <3>3
    <2> QED BY <2>1, <2>3
  <1>6. CASE PruneFails
    BY <1>6 DEF PruneFails
  <1>7. CASE Restart
    BY <1>7 DEF Restart, NoRead
  <1>8. CASE AtAbove
    BY <1>8 DEF AtAbove
  <1>9. CASE AtReturns
    BY <1>9 DEF AtReturns, NoRead
  <1>10. ASSUME NEW t \in Asked, AtBelow(t) PROVE ReadInProgress'
    <2>1. /\ rd'.at = "above" /\ rd'.t = t /\ rd'.had = rows /\ rd'.below = Below(rows, UnixNano(t))
          /\ rows' = rows
      BY <1>10 DEF AtBelow
    <2>2. rows \subseteq Times /\ \A r \in rows : r <= r BY DEF Times
    <2> QED BY <2>1, <2>2
  <1>11. ASSUME NEW t \in Asked, AtFallsBack(t) PROVE ReadInProgress'
    BY <1>11 DEF AtFallsBack, NoRead
  <1>12. CASE UNCHANGED vars
    BY <1>12 DEF vars
  <1> QED BY <1>1, <1>2, <1>3, <1>4, <1>5, <1>6, <1>7, <1>8, <1>9, <1>10, <1>11, <1>12 DEF Next

-----------------------------------------------------------------------------
(* Theorems *)

\* The initial states have the inductive invariant.
LEMMA InvInit == Init => Inv
  BY TimesAssumption, CapPositive
  DEF Init, Inv, RingInit, TypeOK, SaveInTime, RetainedIsSaved, PrunedUpTo, ReadInProgress,
      NoRead, Never, Times

\* Every step keeps it.
LEMMA InvStep == Inv /\ [Next]_vars => Inv'
  BY TypeStep, SaveStep, RetainedStep, PrunedStep, ReadStep DEF Inv

\* Put, Save, maybePrune, a restart and the reads keep the inductive invariant.
THEOREM Invariance == Spec => []Inv
  <1> QED BY InvInit, InvStep, PTL DEF Spec

\* The types: no row and no lost snapshot is later than the last one taken.
THEOREM TypeCorrect == Spec => []TypeOK
  <1>1. Inv => TypeOK BY DEF Inv
  <1> QED BY <1>1, Invariance, PTL

\* maybePrune deletes only what has expired, and never the whole history.
THEOREM PrunesExpired == Spec => OnlyExpiredPruned
  <1> DEFINE Kept == /\ \A r \in rows \ rows' : Retention > 0 /\ r < now - Retention
                     /\ rows # {} => rows' # {}
  <1>1. Inv /\ [Next]_vars => [Kept]_vars
    <2> SUFFICES ASSUME Inv, [Next]_vars PROVE Kept OBVIOUS
    <2> USE TimesAssumption, RetentionAssumption DEF Inv
    <2>1. CASE Prune
      <3>1. rows' = {r \in rows : r >= now - Retention} /\ put = "prune" BY <2>1 DEF Prune
      <3>2. taken \in rows' /\ Retention > 0 BY <3>1 DEF SaveInTime, TypeOK, Times
      <3>3. \A r \in rows : r \in Int /\ now - Retention \in Int BY DEF TypeOK, Times
      <3> QED BY <3>1, <3>2, <3>3
    <2>2. CASE rows \subseteq rows' BY <2>2
    <2> QED BY <2>1, <2>2 DEF Next, Tick, PutRing, SaveOK, SaveFails, PruneFails, Restart,
                              AtAbove, AtReturns, AtBelow, AtFallsBack, vars, diskVars
  <1> QED BY <1>1, Invariance, PTL DEF Spec, OnlyExpiredPruned

\* Between two Puts the durable history has what the ring lists of any interval.
THEOREM DurableHasRing == Spec => []RingWithinDurable
  <1>1. Inv => RingWithinDurable
    <2> SUFFICES ASSUME Inv, put = "idle",
                        NEW from \in {t \in Asked \cup {NoSnap} : Expressible(t)},
                        NEW to \in {t \in Asked \cup {NoSnap} : Expressible(t)},
                        NEW i \in 1..Len(RingHistory(from, to)),
                        NEW s, s = RingHistory(from, to)[i]
                 PROVE  \/ s \in RowsHistory(from, to) \cup lost
                        \/ Retention > 0 /\ s < now - Retention
      BY DEF RingWithinDurable
    <2>1. RingType(0..MaxTime) BY DEF Inv, TypeOK, RingType
    <2>2. PICK j \in 1..size : s = Retained[j] /\ InRange(Retained[j], from, to)
      BY <2>1, HistoryLists
    <2>3. Retained[j] \in 1..taken /\ taken \in 0..MaxTime
      BY TimesAssumption DEF Inv, RetainedIsSaved, TypeOK, Times
    <2>4. s \in Nat /\ s <= MaxDur BY <2>2, <2>3, TimesAssumption, ClockAssumption, MaxDurAssumption
    <2>5. from \in Int /\ to \in Int /\ UnixNano(from) = from /\ UnixNano(to) = to
      BY AskedAssumption, Int64Is DEF Expressible, UnixNano
    <2>6. s \in rows => s \in RowsHistory(from, to)
      BY <2>2, <2>4, <2>5, MaxDurAssumption DEF RowsHistory, InRange
    <2> QED BY <2>2, <2>6 DEF Inv, RetainedIsSaved
  <1> QED BY <1>1, Invariance, PTL

\* No row outlives the retention by more than the pruning interval.
THEOREM RetentionKept == Spec => []RetentionHeld
  <1>1. Inv => RetentionHeld
    BY TimesAssumption, RetentionAssumption
    DEF Inv, TypeOK, PrunedUpTo, RetentionHeld, Times, Never
  <1> QED BY <1>1, Invariance, PTL

\* A difference below the largest int64 is the distance.
LEMMA DiffIs ==
    ASSUME NEW u \in Int, NEW t \in Int, Gap(t, u) < MaxDur
    PROVE  Diff(u, t) = Gap(t, u)
  <1>1. u - t \in Int /\ -MaxDur - 1 <= u - t /\ u - t <= MaxDur BY MaxDurAssumption DEF Gap
  <1>2. Int64(u - t) = u - t BY <1>1, Int64Is
  <1>3. CASE u - t < 0
    <2>1. -(u - t) \in Int /\ -MaxDur - 1 <= -(u - t) /\ -(u - t) <= MaxDur
      BY <1>3, MaxDurAssumption DEF Gap
    <2>2. Int64(-(u - t)) = -(u - t) BY <2>1, Int64Is
    <2> QED BY <1>2, <1>3, <2>2 DEF Diff, Gap
  <1>4. CASE ~(u - t < 0) BY <1>2, <1>4 DEF Diff, Gap
  <1> QED BY <1>3, <1>4

\* Within reach the choice between two rows around t is the closer one, the earlier if
\* they are equally close.
LEMMA CloserIs ==
    ASSUME NEW t \in Int, NEW b \in Nat, NEW a \in Nat,
           b # NoSnap => b <= t /\ Gap(t, b) < MaxDur, a # NoSnap => a >= t /\ Gap(t, a) < MaxDur
    PROVE  Closer(b, a, t) = IF a # NoSnap /\ (b = NoSnap \/ a - t < t - b) THEN a ELSE b
  <1>1. a # NoSnap => Diff(a, t) = a - t /\ Diff(a, t) < MaxDur BY DiffIs DEF Gap
  <1>2. b # NoSnap => Diff(b, t) = t - b /\ Diff(b, t) < MaxDur
    <2> SUFFICES ASSUME b # NoSnap PROVE Diff(b, t) = t - b /\ Diff(b, t) < MaxDur OBVIOUS
    <2>1. Gap(t, b) = t - b BY DEF Gap
    <2>2. Diff(b, t) = Gap(t, b) BY DiffIs
    <2> QED BY <2>1, <2>2
  <1> QED BY <1>1, <1>2, MaxDurAssumption DEF Closer

\* The choice between two rows around t is a nearest of the rows below and above, the
\* older one when they are equally near.
LEMMA CloserIsNearest ==
    ASSUME NEW R \in SUBSET Times, NEW t \in Int, \A r \in R : Gap(t, r) < MaxDur,
           NEW c, c = Closer(Below(R, t), Above(R, t), t)
    PROVE  \A r \in R : /\ c \in R
                        /\ Gap(t, c) <= Gap(t, r)
                        /\ Gap(t, c) = Gap(t, r) => c <= r
  <1> USE TimesAssumption DEF Times
  <1> DEFINE b == Below(R, t)
             a == Above(R, t)
  <1>1. \/ b = NoSnap /\ \A r \in R : r > t
        \/ b \in R /\ b <= t /\ \A r \in R : r <= t => r <= b
    BY BelowIs
  <1>2. \/ a = NoSnap /\ \A r \in R : r < t
        \/ a \in R /\ a >= t /\ \A r \in R : r >= t => r >= a
    BY AboveIs
  <1>0. \A q \in R : q \in Nat /\ q >= 1 OBVIOUS
  <1>5. (a \in R => a \in Nat /\ a >= 1) /\ (b \in R => b \in Nat /\ b >= 1) BY <1>0
  <1>3. c = IF a # NoSnap /\ (b = NoSnap \/ a - t < t - b) THEN a ELSE b
    <2> HIDE DEF a, b
    <2>1. a \in Nat /\ b \in Nat BY <1>1, <1>2, <1>5
    <2>2. b # NoSnap => b <= t /\ Gap(t, b) < MaxDur BY <1>1
    <2>3. a # NoSnap => a >= t /\ Gap(t, a) < MaxDur BY <1>2
    <2>4. c = Closer(b, a, t) BY DEF a, b
    <2> QED BY <2>1, <2>2, <2>3, <2>4, CloserIs
  <1> SUFFICES ASSUME NEW r \in R
               PROVE  c \in R /\ Gap(t, c) <= Gap(t, r) /\ (Gap(t, c) = Gap(t, r) => c <= r)
    OBVIOUS
  <1>4. r \in Nat /\ t \in Int /\ r >= 1 OBVIOUS
  <1> HIDE DEF a, b
  <1>6. CASE r <= t
    <2>1. b \in R /\ b <= t /\ r <= b /\ b # NoSnap BY <1>1, <1>4, <1>5, <1>6
    <2> QED BY <1>2, <1>3, <1>4, <1>5, <1>6, <2>1 DEF Gap
  <1>7. CASE r > t
    <2>1. a \in R /\ a >= t /\ r >= a /\ a # NoSnap BY <1>2, <1>4, <1>5, <1>7
    <2> QED BY <1>1, <1>3, <1>4, <1>5, <1>7, <2>1 DEF Gap
  <1> QED BY <1>4, <1>6, <1>7

\* At, whatever time it is asked for, answers only what was in the table at one of its two
\* SELECTs; for a time within the reach of an int64 it answers if there was anything, and
\* with a nearest row if the table did not change between them.
THEOREM AtAnswersNearest == Spec => AtIsNearest
  <1> DEFINE Answered ==
          rd.at = "above" /\ rd'.at = "done" =>
              /\ rd'.ans # NoSnap => rd'.ans \in rd.had \cup rows
              /\ Reaches(rd.t, rd.had \cup rows) =>
                    /\ rd.had # {} => rd'.ans # NoSnap
                    /\ rd.had = rows =>
                          \A r \in rows : /\ Gap(rd.t, rd'.ans) <= Gap(rd.t, r)
                                          /\ Gap(rd.t, rd'.ans) = Gap(rd.t, r) => rd'.ans <= r
  <1>1. Inv /\ [Next]_vars => [Answered]_vars
    <2> SUFFICES ASSUME Inv, [Next]_vars, rd.at = "above", rd'.at = "done"
                 PROVE  /\ rd'.ans # NoSnap => rd'.ans \in rd.had \cup rows
                        /\ Reaches(rd.t, rd.had \cup rows) =>
                              /\ rd.had # {} => rd'.ans # NoSnap
                              /\ rd.had = rows =>
                                    \A r \in rows : /\ Gap(rd.t, rd'.ans) <= Gap(rd.t, r)
                                                    /\ Gap(rd.t, rd'.ans) = Gap(rd.t, r) => rd'.ans <= r
      OBVIOUS
    <2>1. AtAbove
      <3>1. rd' # rd OBVIOUS
      <3>2. ASSUME NEW t \in Asked PROVE ~AtBelow(t) /\ ~AtFallsBack(t)
        BY DEF AtBelow, AtFallsBack, NoRead
      <3>3. ~Restart /\ ~AtReturns BY DEF Restart, AtReturns, NoRead
      <3> QED BY <3>1, <3>2, <3>3
              DEF Next, Tick, PutRing, SaveOK, SaveFails, Prune, PruneFails, vars
    <2> DEFINE t == UnixNano(rd.t)
    <2>2. /\ rd.t \in Int /\ rd.had \in SUBSET Times /\ rows \in SUBSET Times
          /\ rd.below = Below(rd.had, t) /\ \A h \in rd.had : \E r \in rows : h <= r
      <3>1. rd.t \in Asked /\ rd.had \subseteq Times BY DEF Inv, ReadInProgress
      <3>2. rd.t \in Int
        <4>1. \A q \in Asked : q \in Int BY AskedAssumption
        <4> QED BY <3>1, <4>1, Zenon
      <3>3. rows \in SUBSET Times BY TimesAssumption DEF Inv, TypeOK, Times
      <3>4. rd.below = Below(rd.had, t) /\ \A h \in rd.had : \E r \in rows : h <= r
        BY DEF Inv, ReadInProgress
      <3> QED BY <3>1, <3>2, <3>3, <3>4
    <2>0. t \in Int BY <2>2, Int64Is DEF UnixNano
    <2> DEFINE a == Above(rows, t)
               b == Below(rd.had, t)
    <2>3. rd'.ans = Closer(b, a, t) BY <2>1, <2>2 DEF AtAbove, Inv, TypeOK
    <2>4. \/ b = NoSnap /\ \A r \in rd.had : r > t
          \/ b \in rd.had /\ b <= t
      BY <2>0, <2>2, BelowIs
    <2>5. \/ a = NoSnap /\ \A r \in rows : r < t
          \/ a \in rows /\ a >= t
      BY <2>0, <2>2, AboveIs
    <2>6. rd'.ans \in {a, b, NoSnap}
      <3> HIDE DEF a, b, t
      <3> QED BY <2>3 DEF Closer
    <2>8. rd'.ans # NoSnap => rd'.ans \in rd.had \cup rows
      <3> HIDE DEF a, b, t
      <3> QED BY <2>4, <2>5, <2>6
    <2> SUFFICES ASSUME Reaches(rd.t, rd.had \cup rows)
                 PROVE  /\ rd.had # {} => rd'.ans # NoSnap
                        /\ rd.had = rows =>
                              \A r \in rows : /\ Gap(rd.t, rd'.ans) <= Gap(rd.t, r)
                                              /\ Gap(rd.t, rd'.ans) = Gap(rd.t, r) => rd'.ans <= r
      BY <2>8
    <2>10. t = rd.t /\ \A r \in rd.had \cup rows : Gap(t, r) < MaxDur
      <3>1. t = rd.t BY <2>2, Int64Is DEF Reaches, Expressible, UnixNano
      <3> QED BY <3>1 DEF Reaches
    <2>11. /\ a \in Nat /\ b \in Nat /\ NoSnap \notin rd.had /\ NoSnap \notin rows
           /\ b # NoSnap => b <= t /\ Gap(t, b) < MaxDur
           /\ a # NoSnap => a >= t /\ Gap(t, a) < MaxDur
      <3>1. \A r \in rd.had \cup rows : r \in Nat /\ r # NoSnap
        BY <2>2, TimesAssumption DEF Times
      <3> HIDE DEF a, b, t
      <3> QED BY <2>4, <2>5, <2>10, <3>1
    <2>12. rd'.ans = NoSnap => a = NoSnap /\ b = NoSnap
      <3> HIDE DEF a, b, t
      <3>1. Closer(b, a, t) = IF a # NoSnap /\ (b = NoSnap \/ a - t < t - b) THEN a ELSE b
        BY <2>0, <2>11, CloserIs
      <3> QED BY <2>3, <3>1
    <2>7. rd.had # {} => rd'.ans # NoSnap
      <3> SUFFICES ASSUME NEW h \in rd.had, a = NoSnap, b = NoSnap PROVE FALSE BY <2>12
      <3>1. h > t /\ h \in Times
        <4> HIDE DEF a, b, t
        <4> QED BY <2>2, <2>4, <2>11
      <3>2. PICK r \in rows : h <= r BY <2>2
      <3>3. r < t /\ r \in Times
        <4> HIDE DEF a, b, t
        <4> QED BY <2>2, <2>5, <2>11
      <3> HIDE DEF t
      <3> QED BY <3>1, <3>2, <3>3, <2>0, TimesAssumption DEF Times
    <2>9. ASSUME rd.had = rows, NEW r \in rows
          PROVE  Gap(rd.t, rd'.ans) <= Gap(rd.t, r)
                 /\ (Gap(rd.t, rd'.ans) = Gap(rd.t, r) => rd'.ans <= r)
      <3>1. rd'.ans = Closer(Below(rows, t), Above(rows, t), t) BY <2>3, <2>9
      <3>2. \A q \in rows : Gap(t, q) < MaxDur BY <2>10
      <3> HIDE DEF t
      <3>3. Gap(t, rd'.ans) <= Gap(t, r) /\ (Gap(t, rd'.ans) = Gap(t, r) => rd'.ans <= r)
        BY <2>0, <2>2, <3>1, <3>2, CloserIsNearest
      <3> QED BY <2>10, <3>3
    <2> QED BY <2>7, <2>9
  <1> QED BY <1>1, Invariance, PTL DEF Spec, AtIsNearest

\* The ring's At, as long as every retained snapshot is less than the largest Duration
\* away, answers with a nearest one.
THEOREM RingAnswersNearest == Spec => []RingAtIsNearest
  <1>1. Inv => RingAtIsNearest
    <2> SUFFICES ASSUME Inv, NEW t \in Asked,
                        \A i \in 1..size : Gap(t, Retained[i]) < MaxDur,
                        NEW i \in 1..size
                 PROVE  /\ RingAt(t) # NoSnap
                        /\ Gap(t, RingAt(t)) <= Gap(t, Retained[i])
      BY DEF RingAtIsNearest
    <2>0. /\ head \in 0..Cap-1 /\ size \in 0..Cap /\ size \in Nat /\ t \in Int
          /\ \A j \in 1..size : Retained[j] \in Nat /\ Retained[j] # NoSnap
      BY CapPositive, TimesAssumption, AskedAssumption DEF Inv, TypeOK, RetainedIsSaved, Times
    <2>1. \A k \in 0..size-1 : Newest(k) = Retained[size - k] /\ size - k \in 1..size
      BY <2>0, NewestIsRetained
    <2>2. \A j \in 1..size : Distance(t, Retained[j]) = Gap(t, Retained[j])
      <3>1. ASSUME NEW u \in Int, Gap(t, u) < MaxDur PROVE Distance(t, u) = Gap(t, u)
        BY <2>0, <3>1, DistanceIs DEF Gap
      <3> QED BY <2>0, <3>1
    <2>3. /\ size - i \in 0..size-1 /\ Newest(size - i) = Retained[i]
          /\ 0..size-1 \in SUBSET Nat /\ \A k \in 0..size-1 : Newest(k) \in Int
      <3>1. size - i \in 0..size-1 /\ size - (size - i) = i BY <2>0
      <3> QED BY <2>0, <2>1, <3>1
    <2>4. Distance(t, Newest(size - i)) < MaxDur BY <2>2, <2>3
    <2>5. PICK k \in 0..size-1 :
              /\ NearestOf(t, 0..size-1) = Newest(k)
              /\ \A j \in 0..size-1 : Distance(t, Newest(j)) < MaxDur =>
                    Distance(t, Newest(k)) <= Distance(t, Newest(j))
      BY <2>0, <2>3, <2>4, NearestFound
    <2>6. RingAt(t) = Retained[size - k] /\ size - k \in 1..size BY <2>1, <2>5 DEF RingAt
    <2>7. Distance(t, RingAt(t)) <= Distance(t, Retained[i]) BY <2>3, <2>4, <2>5 DEF RingAt
    <2> QED BY <2>0, <2>2, <2>6, <2>7
  <1> QED BY <1>1, Invariance, PTL
=============================================================================
