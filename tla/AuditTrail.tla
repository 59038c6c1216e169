----------------------------- MODULE AuditTrail -----------------------------
(***************************************************************************)
(* Cancel and terminate requests and the trail they leave: signal.Service  *)
(* Do, one goroutine per request, over either audit sink (the bounded      *)
(* audit.Memory or the audit table of persist.SQLite), next to the poller, *)
(* which changes what the latest snapshot shows of the victim, and to the  *)
(* shutdown of cmd/pglockr: the database is closed as soon as the listener *)
(* is, the pool of PostgreSQL connections waits for the calls in progress, *)
(* and the process ends.  The process counts what it did (pglockr_actions_ *)
(* total).  All requests aim at the same backend.                          *)
(***************************************************************************)
EXTENDS Integers, Sequences, SequencesExt, Ordering

CONSTANTS Reqs,       \* the requests of a behaviour
          Queries,    \* texts the latest snapshot can show for the victim
          NoQuery,    \* the victim is not in the latest snapshot
          MemCap,     \* capacity given to NewMemory, 1000 in main.go
          DiskFaults, \* whether Record may fail while the database is open
          MaxPolls    \* bound: snapshots taken while requests run

ASSUME AuditAssumption == /\ NoQuery \notin Queries
                          /\ DiskFaults \in BOOLEAN
                          /\ MemCap \in Int /\ MaxPolls \in Nat
ASSUME ReqsFinite == IsFiniteSet(Reqs)

VARIABLES
    durable,  \* TRUE: the sink is SQLite; FALSE: Memory
    proc,     \* "up", "closing" (database closed) or "down"
    clock,    \* readings of time.Now() so far
    polls,    \* snapshots taken so far
    shown,    \* the victim's query in the latest snapshot
    req,      \* every request's progress through Do
    hit,      \* requests whose signal PostgreSQL sent
    dropped,  \* requests whose Record returned an error
    trail,    \* the sink's entries, oldest record first
    counted,  \* pglockr_actions_total, by delivered
    born      \* the clock when the process started

procVars == <<durable, proc, clock, polls, shown, counted, born>>
vars == <<procVars, req, hit, dropped, trail>>

\* NewMemory: at least one entry.
Cap == IF MemCap < 1 THEN 1 ELSE MemCap

Seen == Queries \cup {NoQuery}

Entry == [by : Reqs, at : 1..Cardinality(Reqs), query : Seen, delivered : BOOLEAN,
          error : BOOLEAN]

\* A request: where Do is, what the call returned, what lookup and time.Now()
\* returned, what the snapshot showed when the request came in, and which it was.
NewReq == [pc |-> "new", result |-> "none", query |-> NoQuery, at |-> 0, aim |-> NoQuery,
           since |-> 0]

TypeOK == /\ durable \in BOOLEAN
          /\ proc \in {"up", "closing", "down"}
          /\ clock \in 0..Cardinality(Reqs) /\ polls \in 0..MaxPolls
          /\ shown \in Seen
          /\ req \in [Reqs -> [pc : {"new", "call", "lookup", "record", "answer", "done", "dead"},
                               result : {"none", "sent", "refused", "error"}, query : Seen,
                               at : 0..Cardinality(Reqs), aim : Seen, since : 0..MaxPolls]]
          /\ hit \subseteq Reqs /\ dropped \subseteq Reqs
          /\ trail \in Seq(Entry)
          /\ ~durable => Len(trail) <= Cap
          /\ counted \in [BOOLEAN -> 0..Cardinality(Reqs)] /\ born \in 0..clock

Init == /\ durable \in BOOLEAN  \* persist.enabled
        /\ proc = "up" /\ clock = 0 /\ polls = 0
        /\ shown \in Seen
        /\ req = [r \in Reqs |-> NewReq]
        /\ hit = {} /\ dropped = {} /\ trail = << >>
        /\ counted = [d \in BOOLEAN |-> 0] /\ born = 0

-----------------------------------------------------------------------------
(* Faulty variants, for the mutants of PROJECT.json *)

\* An eviction one late.
KeepOneMore(s) == IF Len(s) > Cap + 1 THEN SubSeq(s, Len(s) - Cap, Len(s)) ELSE s

\* A failed call returns before Record.
LookupUnlessError(r) ==
    /\ proc # "down" /\ req[r].pc = "lookup"
    /\ clock' = clock + 1
    /\ req' = [req EXCEPT ![r].pc = IF req[r].result = "error" THEN "answer" ELSE "record",
                          ![r].query = shown, ![r].at = clock + 1]
    /\ UNCHANGED <<durable, proc, polls, shown, counted, born, hit, dropped, trail>>

\* PostgreSQL's answer is not looked at; a failed call is made again, which at
\* shutdown fails for ever.
CallReturnsBlind(r, result, reached) ==
    /\ proc # "down" /\ req[r].pc = "call"
    /\ req' = [req EXCEPT ![r].pc = "lookup", ![r].result = result]
    /\ hit' = IF reached THEN hit \cup {r} ELSE hit
    /\ UNCHANGED <<procVars, dropped, trail>>
CallRetries(r, result, reached) ==
    /\ proc # "down" /\ req[r].pc = "call"
    /\ IF result = "error" THEN ~reached /\ UNCHANGED req
       ELSE proc = "up" /\ req' = [req EXCEPT ![r].pc = "lookup", ![r].result = result]
    /\ hit' = IF result = "sent" THEN hit \cup {r} ELSE hit
    /\ UNCHANGED <<procVars, dropped, trail>>

\* A call that failed is counted with the delivered ones.
AnswerCountsErrors(r) ==
    /\ proc # "down" /\ req[r].pc = "answer"
    /\ counted' = [counted EXCEPT ![req[r].result # "refused"] = @ + 1]
    /\ req' = [req EXCEPT ![r].pc = "done"]
    /\ UNCHANGED <<durable, proc, clock, polls, shown, born, hit, dropped, trail>>

-----------------------------------------------------------------------------
(* Service.Do *)

\* The entry Do writes for r.
EntryOf(r) == [by |-> r, at |-> req[r].at, query |-> req[r].query,
               delivered |-> req[r].result = "sent", error |-> req[r].result = "error"]

\* Memory.Record: append, and keep the last Cap.
Keep(s) == IF Len(s) > Cap THEN SubSeq(s, Len(s) - Cap + 1, Len(s)) ELSE s

\* A request comes in and Do calls Cancel or Terminate.
Begin(r) == /\ proc = "up" /\ req[r].pc = "new"
            /\ req' = [req EXCEPT ![r].pc = "call", ![r].aim = shown,
                                  ![r].since = polls]
            /\ UNCHANGED <<procVars, hit, dropped, trail>>

\* The call returns: PostgreSQL sent the signal, or did not, or there is an error
\* (the statement timeout, a lost connection) and either may be the case.
CallReturns(r, result, reached) ==
    /\ proc # "down" /\ req[r].pc = "call"
    /\ result = "sent" => reached
    /\ result = "refused" => ~reached
    /\ req' = [req EXCEPT ![r].pc = "lookup", ![r].result = result]
    /\ hit' = IF reached THEN hit \cup {r} ELSE hit
    /\ UNCHANGED <<procVars, dropped, trail>>

\* The victim's query from the latest snapshot, then time.Now().
Lookup(r) == /\ proc # "down" /\ req[r].pc = "lookup"
             /\ clock' = clock + 1
             /\ req' = [req EXCEPT ![r].pc = "record", ![r].query = shown, ![r].at = clock + 1]
             /\ UNCHANGED <<durable, proc, polls, shown, counted, born, hit, dropped, trail>>

\* What the sink holds after Record of e: a row more, or the last Cap entries.
Stored(e) == IF durable THEN Append(trail, e) ELSE Keep(Append(trail, e))

Record(r) == /\ proc # "down" /\ req[r].pc = "record"
             /\ durable => proc = "up"
             /\ trail' = Stored(EntryOf(r))
             /\ req' = [req EXCEPT ![r].pc = "answer"]
             /\ UNCHANGED <<procVars, hit, dropped>>

\* Record returns an error, which Do only logs: a fault, or a closed database.
RecordFails(r) == /\ proc # "down" /\ req[r].pc = "record"
                  /\ durable /\ (DiskFaults \/ proc = "closing")
                  /\ dropped' = dropped \cup {r}
                  /\ req' = [req EXCEPT ![r].pc = "answer"]
                  /\ UNCHANGED <<procVars, hit, trail>>

\* ObserveAction, and Do returns.
Answer(r) == /\ proc # "down" /\ req[r].pc = "answer"
             /\ counted' = [counted EXCEPT ![req[r].result = "sent"] = @ + 1]
             /\ req' = [req EXCEPT ![r].pc = "done"]
             /\ UNCHANGED <<durable, proc, clock, polls, shown, born, hit, dropped, trail>>

-----------------------------------------------------------------------------
(* The poller, the shutdown and the supervisor *)

\* A new snapshot shows something else of the victim.
Poll == /\ proc = "up" /\ polls < MaxPolls
        /\ polls' = polls + 1
        /\ shown' \in Seen \ {shown}
        /\ UNCHANGED <<durable, proc, clock, counted, born, req, hit, dropped, trail>>

\* SIGTERM: Shutdown closes the listener, ListenAndServe returns at once and the
\* first deferred call closes the database.
Shutdown == /\ proc = "up"
            /\ proc' = "closing"
            /\ UNCHANGED <<durable, clock, polls, shown, counted, born, req, hit, dropped, trail>>

\* The next one closes the pool, which waits for calls in progress; main returns.
Exit == /\ proc = "closing"
        /\ \A r \in Reqs : req[r].pc # "call"
        /\ proc' = "down"
        /\ req' = [r \in Reqs |-> IF req[r].pc \in {"new", "done"} THEN req[r]
                                  ELSE [req[r] EXCEPT !.pc = "dead"]]
        /\ UNCHANGED <<durable, clock, polls, shown, counted, born, hit, dropped, trail>>

\* A new process: the table is still there, the memory and the counters are not.
Restart == /\ proc = "down"
           /\ proc' = "up"
           /\ shown' = NoQuery
           /\ trail' = IF durable THEN trail ELSE << >>
           /\ counted' = [d \in BOOLEAN |-> 0] /\ born' = clock
           /\ UNCHANGED <<durable, clock, polls, req, hit, dropped>>

Return(r) == \E result \in {"sent", "refused", "error"}, reached \in BOOLEAN :
                 CallReturns(r, result, reached)

Do(r) == Begin(r) \/ Return(r) \/ Lookup(r) \/ Record(r) \/ RecordFails(r) \/ Answer(r)

Next == Poll \/ Shutdown \/ Exit \/ Restart \/ \E r \in Reqs : Do(r)

Spec == Init /\ [][Next]_vars

\* A call ends by the statement timeout; a goroutine that can run runs; run
\* returns once its deferred calls have.
Fairness == /\ WF_vars(Exit)
            /\ \A r \in Reqs : /\ WF_vars(Return(r)) /\ WF_vars(Lookup(r))
                               /\ WF_vars(Record(r) \/ RecordFails(r)) /\ WF_vars(Answer(r))

FairSpec == Spec /\ Fairness

-----------------------------------------------------------------------------
(* The trail as the API shows it *)

\* Memory.Recent: in reverse order of Record.
RecentMemory(limit) ==
    LET n == Len(trail)
        m == IF limit <= 0 \/ limit > n THEN n ELSE limit
    IN  [i \in 1..m |-> trail[n - i + 1]]

\* SQLite.Recent: ORDER BY at DESC, id DESC, and at most 1000 rows.
SQLiteMax == 1000
ByTime(i, j) == \/ trail[i].at > trail[j].at
                \/ trail[i].at = trail[j].at /\ i > j
\* Faulty variant: ORDER BY id alone.
RecentById(limit) == RecentMemory(limit)
RecentSQLite(limit) ==
    LET m == IF limit <= 0 \/ limit > SQLiteMax THEN SQLiteMax ELSE limit
        rows == 1..Len(trail)
        ids == InOrder(rows, {x \in rows \X rows : ByTime(x[1], x[2])})
    IN  [k \in 1..Min({m, Len(trail)}) |-> trail[ids[k]]]

Recent(limit) == IF durable THEN RecentSQLite(limit) ELSE RecentMemory(limit)

-----------------------------------------------------------------------------
(* Properties *)

EntriesBy(r) == {i \in 1..Len(trail) : trail[i].by = r}

\* Do answers only after Record: an answered request has one row in the table,
\* with its outcome, or its Record has failed and was logged.  An entry has the
\* victim's query the operator acted on, unless a poll has replaced the snapshot
\* between the request and the lookup, which comes after the signal.
AnsweredIsRecorded ==
    /\ durable => \A r \in Reqs :
          /\ Cardinality(EntriesBy(r)) <= 1
          /\ req[r].pc \in {"answer", "done"} =>
                \/ r \in dropped
                \/ \E i \in EntriesBy(r) : /\ trail[i].delivered = (req[r].result = "sent")
                                         /\ trail[i].error = (req[r].result = "error")
    /\ \A i \in 1..Len(trail) :
          trail[i].query # req[trail[i].by].aim => req[trail[i].by].since < polls

\* The trail never claims a delivery PostgreSQL did not make, though a call that
\* timed out may have reached the backend.
DeliveredIsTrue == \A i \in 1..Len(trail) : trail[i].delivered => trail[i].by \in hit

\* The table only grows, at its end, also by a restart; the memory sink is the
\* sliding window of the last Cap records, which a new process starts empty.
Window == INSTANCE SlidingWindow WITH Width <- Cap, Snapshots <- Entry,
                                      window <- IF durable THEN << >> ELSE trail
TrailKeepsOrder == Window!Spec /\ [][durable => IsPrefix(trail, trail')]_vars

\* audit.go:25: Recent answers newest first, and what the limit cuts off is older
\* than everything it returns.  So does the table, which sorts by time; Memory lists
\* in the order of Record, which two concurrent requests may take the other way.
RecentNewestFirst ==
    durable => \A limit \in 0..Cardinality(Reqs) + 1 :
        LET out == Recent(limit)
        IN  /\ \A i, j \in 1..Len(out) : i < j => out[i].at >= out[j].at
            /\ \A i \in 1..Len(trail), k \in 1..Len(out) :
                  trail[i] \notin Range(out) => trail[i].at <= out[k].at

\* signal.go:99: metrics and trail tell the same story of the life of a process: for
\* each outcome, the rows written and the records that failed are the actions counted
\* and those about to be.
ActionsCounted ==
    durable /\ proc # "down" => \A d \in BOOLEAN :
        LET now == {r \in Reqs : req[r].at > born /\ (req[r].result = "sent") = d}
        IN  Cardinality({k \in 1..Len(trail) : trail[k].at > born /\ trail[k].delivered = d})
                + Cardinality(now \cap dropped)
            = counted[d] + Cardinality({r \in now : req[r].pc = "answer"})

\* Every request in Do ends, in an answer or with the process.
RequestsEnd == \A r \in Reqs : req[r].pc = "call" ~> req[r].pc \in {"done", "dead"}
=============================================================================
