---------------------------- MODULE SnapshotRing ----------------------------
(***************************************************************************)
(* The in-memory ring of internal/store: the fields buf, head and size of  *)
(* Store, the part of Put that runs under the lock, and the reads Latest,  *)
(* At and History make of the ring.  A snapshot is its TakenAt, a positive *)
(* number; the zero graph.Snapshot (and the zero time.Time) is NoSnap.     *)
(***************************************************************************)
EXTENDS Integers, Sequences

CONSTANT RingSize   \* the argument of New, poll.ring_size of the config
CONSTANT MaxDur     \* the largest time.Duration, 2^63 - 1 in the code

ASSUME RingSizeAssumption == RingSize \in Int
ASSUME MaxDurAssumption == MaxDur \in Nat

VARIABLES buf, head, size

ringVars == <<buf, head, size>>

NoSnap == 0

\* New: a ring of less than one snapshot becomes a ring of one.
Cap == IF RingSize < 1 THEN 1 ELSE RingSize

RingInit == /\ buf = [i \in 0..Cap-1 |-> NoSnap]
            /\ head = 0
            /\ size = 0

\* Faulty variants of RingPut, for the mutants of PROJECT.json: the head moves
\* before the write; the ring is never allowed to fill.
RingPutAfterMove(s) == /\ buf' = [buf EXCEPT ![(head + 1) % Cap] = s]
                       /\ head' = (head + 1) % Cap
                       /\ size' = IF size < Cap THEN size + 1 ELSE size
RingPutShort(s) == /\ buf' = [buf EXCEPT ![head] = s]
                   /\ head' = (head + 1) % Cap
                   /\ size' = IF size < Cap - 1 THEN size + 1 ELSE size

\* Put, up to the copy of the subscriber channels.
RingPut(s) == /\ buf' = [buf EXCEPT ![head] = s]
              /\ head' = (head + 1) % Cap
              /\ size' = IF size < Cap THEN size + 1 ELSE size

\* Latest: meaningful only when HasLatest.
HasLatest == size > 0
Latest == buf[(head - 1 + Cap) % Cap]

\* The walks over the ring, oldest first (History) and newest first (At).
Oldest(k) == buf[(head - size + k + Cap * 2) % Cap]
Newest(k) == buf[(head - 1 - k + Cap * 2) % Cap]

\* The snapshots the ring retains, oldest first.
Retained == [i \in 1..size |-> Oldest(i - 1)]

\* History: the retained snapshots of [from, to], a zero bound is no bound.
InRange(s, from, to) == /\ from # NoSnap => s >= from
                        /\ to # NoSnap => s <= to
RingHistory(from, to) ==
    LET out[k \in 0..size] ==
            IF k = 0 THEN << >>
            ELSE IF InRange(Oldest(k - 1), from, to) THEN Append(out[k - 1], Oldest(k - 1))
            ELSE out[k - 1]
    IN  out[size]

\* time.Time.Sub saturates at both ends of Duration; negating the least
\* Duration overflows to itself.
Sub(t, u) == IF t - u > MaxDur THEN MaxDur
             ELSE IF t - u < -MaxDur - 1 THEN -MaxDur - 1 ELSE t - u
Distance(t, u) == IF Sub(t, u) < 0 /\ Sub(t, u) # -MaxDur - 1
                  THEN -Sub(t, u) ELSE Sub(t, u)

\* The first of the walk's ks, newest first, whose distance is strictly below
\* that of the ones before it and below MaxDur; NoSnap if there is none.
NearestOf(t, ks) ==
    LET near == {k \in ks : Distance(t, Newest(k)) < MaxDur}
        best == CHOOSE k \in near : \A j \in near :
                    \/ Distance(t, Newest(k)) < Distance(t, Newest(j))
                    \/ Distance(t, Newest(k)) = Distance(t, Newest(j)) /\ k <= j
    IN  IF near = {} THEN NoSnap ELSE Newest(best)

\* Faulty variant: the loop leaves out the oldest snapshot.
RingAtShort(t) == NearestOf(t, 0..size-2)

\* At's loop over the ring.
RingAt(t) == NearestOf(t, 0..size-1)
=============================================================================
