--------------------------- MODULE DurableHistory ---------------------------
(***************************************************************************)
(* The store with its durable history (persist.SQLite as store.Persister): *)
(* the poller saves what it has put in the ring and prunes what has        *)
(* expired, while a request reads a point of the history with Store.At and *)
(* the process may be killed and started again at any point.               *)
(*                                                                         *)
(* Time is a counter of nanoseconds since 1970.  Snapshots are taken at    *)
(* distinct times, so that the table snapshots is the set of its taken_at; *)
(* a request may ask for any time.  database/sql has a single connection:  *)
(* statements are atomic, transactions are not used.                       *)
(***************************************************************************)
EXTENDS SnapshotRing

CONSTANTS MaxTime,     \* bound: the clock stops here
          Retention,   \* SQLite.retention
          PruneEvery,  \* a minute in maybePrune
          SaveTime,    \* what Save's context grants: five seconds in the code
          Asked        \* the times requests ask for: whatever RFC 3339 can write

ASSUME TimesAssumption == MaxTime \in Nat \ {0} /\ PruneEvery \in Nat /\ SaveTime \in Nat
\* Retention <= 0 keeps everything; otherwise it is longer than one Save.
ASSUME RetentionAssumption == Retention \in Int /\ (Retention <= 0 \/ Retention >= SaveTime)
\* The clock is before 2262: UnixNano is the identity on what is saved and pruned.
ASSUME ClockAssumption == MaxTime <= MaxDur /\ Retention <= MaxDur
ASSUME AskedAssumption == Asked \subseteq Int

VARIABLES
    now,        \* the clock
    taken,      \* TakenAt of the last snapshot put, NoSnap before the first
    put,        \* where Put is: "idle", "save" or "prune"
    rows,       \* taken_at of the rows of table snapshots
    lastPrune,  \* SQLite.lastPrune
    lost,       \* snapshots whose Save failed
    pruned,     \* whether the last DELETE of this process succeeded
    rd          \* the request in Store.At

diskVars == <<rows, lastPrune, lost, pruned>>
vars == <<ringVars, now, taken, put, diskVars, rd>>

Times == 1..MaxTime

\* The zero time.Time, long before any snapshot.
Never == -PruneEvery

\* A request is not in At; has made the first SELECT; or has its answer.  had
\* is what the table held at the first SELECT.
NoRead == [at |-> "none", t |-> NoSnap, below |-> NoSnap, had |-> {}, ans |-> NoSnap]

TypeOK == /\ buf \in [0..Cap-1 -> 0..MaxTime] /\ head \in 0..Cap-1 /\ size \in 0..Cap
          /\ now \in Times /\ taken \in 0..now
          /\ put \in {"idle", "save", "prune"}
          /\ rows \subseteq 1..taken /\ lost \subseteq 1..taken
          /\ lastPrune \in {Never} \cup 1..now
          /\ pruned \in BOOLEAN
          /\ rd \in [at : {"none", "above", "done", "ring"}, t : Asked \cup {NoSnap},
                     below : 0..MaxTime, had : SUBSET Times, ans : 0..MaxTime]

Init == /\ RingInit
        /\ now = 1 /\ taken = NoSnap /\ put = "idle"
        /\ rows = {} /\ lost = {}
        /\ lastPrune = Never /\ pruned = TRUE
        /\ rd = NoRead

-----------------------------------------------------------------------------
(* Faulty variants, for the mutants of PROJECT.json *)

\* The later row wins whatever its distance.
CloserLater(b, a, target) == IF a # NoSnap THEN a ELSE b

\* The row is inserted only when no pruning is due.
SaveOKForgets == /\ put = "save"
                 /\ IF Retention > 0 /\ now - lastPrune >= PruneEvery
                    THEN put' = "prune" /\ lastPrune' = now /\ UNCHANGED rows
                    ELSE put' = "idle" /\ UNCHANGED lastPrune /\ rows' = rows \cup {taken}
                 /\ UNCHANGED <<ringVars, now, taken, lost, pruned, rd>>

\* lastPrune is set although it is not yet time to prune.
SaveOKPostpones == /\ put = "save"
                   /\ rows' = rows \cup {taken}
                   /\ lastPrune' = now
                   /\ put' = IF Retention > 0 /\ now - lastPrune >= PruneEvery
                             THEN "prune" ELSE "idle"
                   /\ UNCHANGED <<ringVars, now, taken, lost, pruned, rd>>

\* Everything older than the ring is deleted.
PruneToRing == /\ put = "prune" /\ put' = "idle"
               /\ rows' = {r \in rows : r >= Oldest(0)}
               /\ pruned' = TRUE
               /\ UNCHANGED <<ringVars, now, taken, lastPrune, lost, rd>>

-----------------------------------------------------------------------------
(* Reads *)

\* An int64 keeps a number up to a multiple of 2^64.
Int64(n) == ((n + MaxDur + 1) % (2 * (MaxDur + 1))) - (MaxDur + 1)

\* time.Time.UnixNano, which wraps before 1678 and after 2262.
UnixNano(t) == Int64(t)

\* The two SELECTs of SQLite.At; NoSnap when there is no such row.
Below(R, target) == LET S == {r \in R : r <= target}
                    IN IF S = {} THEN NoSnap ELSE CHOOSE r \in S : \A q \in S : q <= r
Above(R, target) == LET S == {r \in R : r >= target}
                    IN IF S = {} THEN NoSnap ELSE CHOOSE r \in S : \A q \in S : r <= q

\* How far At takes a row to be: the difference wraps, and the least int64 is its own
\* negative.
Diff(ts, target) == LET d == Int64(ts - target) IN IF d < 0 THEN Int64(-d) ELSE d

\* At's choice between the two: each must be strictly closer than what there is, and
\* the first than the largest int64.
Closer(b, a, target) ==
    LET found == b # NoSnap /\ Diff(b, target) < MaxDur
        bestDiff == IF found THEN Diff(b, target) ELSE MaxDur
    IN  IF a # NoSnap /\ Diff(a, target) < bestDiff THEN a ELSE IF found THEN b ELSE NoSnap

\* The rows SQLite.History lists (ORDER BY taken_at puts them in order).
RowsHistory(from, to) ==
    LET lo == IF from = NoSnap THEN -MaxDur - 1 ELSE UnixNano(from)
        hi == IF to = NoSnap THEN MaxDur ELSE UnixNano(to)
    IN  {r \in rows : lo <= r /\ r <= hi}

-----------------------------------------------------------------------------
(* The poller *)

\* Time passes, but Save ends in time.
Tick == /\ now < MaxTime
        /\ put # "idle" => now < taken + SaveTime
        /\ now' = now + 1
        /\ UNCHANGED <<ringVars, taken, put, diskVars, rd>>

\* Put, up to its unlock.
PutRing == /\ put = "idle" /\ taken < now
           /\ RingPut(now)
           /\ taken' = now
           /\ put' = "save"
           /\ UNCHANGED <<now, diskVars, rd>>

\* Save: the INSERT succeeds and maybePrune decides; lastPrune is set first.
SaveOK == /\ put = "save"
          /\ rows' = rows \cup {taken}
          /\ IF Retention > 0 /\ now - lastPrune >= PruneEvery
             THEN put' = "prune" /\ lastPrune' = now
             ELSE put' = "idle" /\ UNCHANGED lastPrune
          /\ UNCHANGED <<ringVars, now, taken, lost, pruned, rd>>

\* Save returns an error, which Put only logs.
SaveFails == /\ put = "save"
             /\ put' = "idle"
             /\ lost' = lost \cup {taken}
             /\ UNCHANGED <<ringVars, now, taken, rows, lastPrune, pruned, rd>>

\* maybePrune's DELETE; its error is only logged.
Prune == /\ put = "prune" /\ put' = "idle"
         /\ rows' = {r \in rows : r >= now - Retention}
         /\ pruned' = TRUE
         /\ UNCHANGED <<ringVars, now, taken, lastPrune, lost, rd>>

PruneFails == /\ put = "prune" /\ put' = "idle"
              /\ pruned' = FALSE
              /\ UNCHANGED <<ringVars, now, taken, rows, lastPrune, lost, rd>>

\* The process is killed and started again.  The table stays; a snapshot that
\* was not saved yet is lost with the ring.
Restart == /\ put' = "idle" /\ UNCHANGED <<now, taken, rows>>
           /\ buf' = [i \in 0..Cap-1 |-> NoSnap] /\ head' = 0 /\ size' = 0
           /\ lost' = IF put = "save" THEN lost \cup {taken} ELSE lost
           /\ lastPrune' = Never /\ pruned' = TRUE
           /\ rd' = NoRead

-----------------------------------------------------------------------------
(* A request in Store.At *)

AtBelow(t) == /\ rd.at = "none"
              /\ rd' = [at |-> "above", t |-> t, below |-> Below(rows, UnixNano(t)),
                        had |-> rows, ans |-> NoSnap]
              /\ UNCHANGED <<ringVars, now, taken, put, diskVars>>

AtAbove == /\ rd.at = "above"
           /\ rd' = [rd EXCEPT !.at = "done",
                               !.ans = Closer(rd.below, Above(rows, UnixNano(rd.t)), UnixNano(rd.t))]
           /\ UNCHANGED <<ringVars, now, taken, put, diskVars>>

\* Either SELECT fails: the ring answers.
AtFallsBack(t) == /\ rd.at = "none" \/ (rd.at = "above" /\ rd.t = t)
                  /\ rd' = [NoRead EXCEPT !.at = "ring", !.t = t, !.ans = RingAt(t)]
                  /\ UNCHANGED <<ringVars, now, taken, put, diskVars>>

AtReturns == /\ rd.at \in {"done", "ring"}
             /\ rd' = NoRead
             /\ UNCHANGED <<ringVars, now, taken, put, diskVars>>

Next == \/ Tick \/ PutRing \/ SaveOK \/ SaveFails \/ Prune \/ PruneFails \/ Restart
        \/ AtAbove \/ AtReturns \/ \E t \in Asked : AtBelow(t) \/ AtFallsBack(t)

Spec == Init /\ [][Next]_vars

-----------------------------------------------------------------------------
(* Properties *)

Gap(t, s) == IF t < s THEN s - t ELSE t - s

\* What UnixNano can express, 1678 to 2262 in the code, and what At can tell apart.
Expressible(t) == -MaxDur - 1 <= t /\ t <= MaxDur
Reaches(t, R) == Expressible(t) /\ \A r \in R : Gap(t, r) < MaxDur

\* maybePrune deletes only what is older than the retention, and never with
\* Retention <= 0.  So once a snapshot is saved the history is never empty again,
\* whatever is pruned and however often the process restarts.
OnlyExpiredPruned ==
    [][/\ \A r \in rows \ rows' : Retention > 0 /\ r < now - Retention
       /\ rows # {} => rows' # {}]_vars

\* Between two Puts, what the ring lists of an interval the durable history
\* lists too, except what Save failed for and what has expired.  That is so for bounds
\* that UnixNano can express: beyond 2262 or before 1678 they wrap, and the table lists
\* another interval than the ring.
RingWithinDurable ==
    put = "idle" =>
        \A from, to \in {t \in Asked \cup {NoSnap} : Expressible(t)} :
            \A i \in 1..Len(RingHistory(from, to)) :
                LET s == RingHistory(from, to)[i]
                IN  s \in RowsHistory(from, to) \cup lost \/ (Retention > 0 /\ s < now - Retention)

\* When a Save has just succeeded, no row is older than the retention by more
\* than the pruning interval, unless the last DELETE failed.
RetentionHeld ==
    (put = "idle" /\ taken \in rows /\ pruned /\ Retention > 0 /\ lastPrune # Never) =>
        \A r \in rows : r >= taken - Retention - PruneEvery

\* sqlite.go:100: At answers from the table only what was there at its first or its
\* second SELECT, though rows come and go between the two.  For a time that UnixNano can
\* express and less than the largest int64 away from the rows it answers if there was
\* anything at all, and with nothing saved or pruned meanwhile the answer is a nearest
\* row, of two nearest the older one.  Beyond those limits the target or the difference
\* wraps, and At may take a row that is not nearest, or none.
AtIsNearest ==
    [][rd.at = "above" /\ rd'.at = "done" =>
          /\ rd'.ans # NoSnap => rd'.ans \in rd.had \cup rows
          /\ Reaches(rd.t, rd.had \cup rows) =>
                /\ rd.had # {} => rd'.ans # NoSnap
                /\ rd.had = rows =>
                      \A r \in rows : /\ Gap(rd.t, rd'.ans) <= Gap(rd.t, r)
                                      /\ Gap(rd.t, rd'.ans) = Gap(rd.t, r) => rd'.ans <= r]_vars

\* store.go:106: the ring's answer is a nearest of the snapshots it retains, and it
\* has one as soon as it retains anything.  That is so for times less than the
\* largest Duration away, and only for those: beyond, Sub saturates, and the loop
\* finds nothing (t too late) or takes the newest (t too early).
RingAtIsNearest ==
    \A t \in Asked : (\A i \in 1..size : Gap(t, Retained[i]) < MaxDur) =>
        \A i \in 1..size : /\ RingAt(t) # NoSnap
                           /\ Gap(t, RingAt(t)) <= Gap(t, Retained[i])
=============================================================================
