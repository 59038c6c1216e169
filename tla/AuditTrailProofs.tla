-------------------------- MODULE AuditTrailProofs --------------------------
(***************************************************************************)
(* Every entry of the trail is true, every answered request is recorded    *)
(* once, the counters and the table tell the same story, and either sink   *)
(* keeps the order of Record: for every number of requests, every capacity *)
(* and every number of polls, shutdowns and restarts.                      *)
(***************************************************************************)
EXTENDS AuditTrail, FiniteSetTheorems, FunctionTheorems, TLAPS

-----------------------------------------------------------------------------
(* The inductive invariant *)

\* TypeOK without the bounds, which need the counting below.
ReqType == [pc : {"new", "call", "lookup", "record", "answer", "done", "dead"},
            result : {"none", "sent", "refused", "error"}, query : Seen,
            at : Nat, aim : Seen, since : Nat]
EntryType == [by : Reqs, at : Nat, query : Seen, delivered : BOOLEAN, error : BOOLEAN]
Typed == /\ durable \in BOOLEAN
         /\ proc \in {"up", "closing", "down"}
         /\ clock \in Nat /\ polls \in 0..MaxPolls /\ born \in 0..clock
         /\ shown \in Seen
         /\ req \in [Reqs -> ReqType]
         /\ hit \subseteq Reqs /\ dropped \subseteq Reqs
         /\ trail \in Seq(EntryType)
         /\ counted \in [BOOLEAN -> Nat]

\* Where a request is in Do and which process it runs in: the clock it read is
\* later than the start of the process, and no request runs without a process.
Progress == \A r \in Reqs :
    /\ proc = "down" => req[r].pc \in {"new", "done", "dead"}
    /\ req[r].pc \in {"new", "call", "lookup"} => req[r].at = 0
    /\ req[r].pc \in {"record", "answer"} => req[r].at > born
    /\ req[r].at <= clock
    /\ r \in dropped => req[r].pc \in {"answer", "done", "dead"}
    /\ req[r].result = "sent" => r \in hit /\ req[r].pc \notin {"new", "call"}

\* An entry is what its request has recorded, and stays so.
EntriesFaithful == \A i \in 1..Len(trail) :
    /\ req[trail[i].by].pc \in {"answer", "done", "dead"}
    /\ req[trail[i].by].at # 0
    /\ trail[i] = EntryOf(trail[i].by)

\* In the table a request has one entry at most, and if it is past Record it has
\* one or is dropped.
RecordedOnce == durable =>
    /\ \A i, j \in 1..Len(trail) : trail[i].by = trail[j].by => i = j
    /\ \A r \in Reqs : req[r].pc \in {"answer", "done"} =>
          r \in dropped \/ \E i \in 1..Len(trail) : trail[i].by = r

\* Only a poll separates what a request aims at from what is shown until its
\* lookup, and from what its lookup has found.
Aimed == \A r \in Reqs :
    /\ req[r].since <= polls
    /\ req[r].pc \in {"call", "lookup"} /\ shown # req[r].aim => req[r].since < polls
    /\ req[r].at # 0 /\ req[r].query # req[r].aim => req[r].since < polls

\* What each conjunct's preservation may use of the others.
Inv == Typed /\ Progress /\ EntriesFaithful /\ RecordedOnce /\ Aimed

\* A reading of the clock belongs to one request, and only requests that are
\* done were counted.
ClockCounts == clock = Cardinality({r \in Reqs : req[r].at # 0})
DoneBy(d) == {r \in Reqs : req[r].pc = "done" /\ (req[r].result = "sent") = d}
CountedAreDone == \A d \in BOOLEAN : counted[d] <= Cardinality(DoneBy(d))

\* ActionsCounted, with a name for each of the sets it counts.
NowBy(d) == {r \in Reqs : req[r].at > born /\ (req[r].result = "sent") = d}
RowsBy(d) == {k \in 1..Len(trail) : trail[k].at > born /\ trail[k].delivered = d}
PendingBy(d) == {r \in NowBy(d) : req[r].pc = "answer"}
Balance(d) == Cardinality(RowsBy(d)) + Cardinality(NowBy(d) \cap dropped)
                  = counted[d] + Cardinality(PendingBy(d))

\* The memory sink never holds more than its capacity.
MemoryBounded == ~durable => Len(trail) <= Cap

IInv == Inv /\ ClockCounts /\ CountedAreDone /\ ActionsCounted /\ MemoryBounded

-----------------------------------------------------------------------------
(* The invariant holds of every reachable state *)

\* NewMemory never makes a sink without room.
LEMMA CapPositive == Cap \in Nat /\ Cap >= 1
  BY AuditAssumption DEF Cap

\* Either sink holds the entry just recorded, next to entries it held before.
LEMMA StoredEntries ==
    ASSUME NEW S, trail \in Seq(S), NEW e \in S
    PROVE  /\ Stored(e) \in Seq(S)
           /\ \A i \in 1..Len(Stored(e)) :
                 Stored(e)[i] = e \/ \E j \in 1..Len(trail) : Stored(e)[i] = trail[j]
  BY CapPositive DEF Stored, Keep

\* What Do records is an entry.
LEMMA EntryTyped == ASSUME Typed, NEW r \in Reqs PROVE EntryOf(r) \in EntryType
  BY DEF Typed, ReqType, EntryType, EntryOf

\* What the trail holds are entries of requests.
LEMMA EntriesBelong == ASSUME Typed, NEW i \in 1..Len(trail)
                       PROVE  trail[i] \in EntryType /\ trail[i].by \in Reqs
  <1>1. trail[i] \in EntryType BY DEF Typed
  <1> QED BY <1>1 DEF EntryType

\* A step keeps the types.
LEMMA TypedStep == ASSUME Typed, [Next]_vars PROVE Typed'
  <1>1. CASE Poll
    BY <1>1, AuditAssumption DEF Typed, Poll
  <1>2. CASE Shutdown
    BY <1>2 DEF Typed, Shutdown
  <1>3. CASE Exit
    BY <1>3 DEF Typed, ReqType, Exit
  <1>4. CASE Restart
    BY <1>4 DEF Typed, Seen, Restart
  <1>5. ASSUME NEW r \in Reqs, Begin(r) PROVE Typed'
    <2>0. [req[r] EXCEPT !.pc = "call", !.aim = shown, !.since = polls] \in ReqType
      <3>1. req[r] \in ReqType /\ shown \in Seen /\ polls \in Nat BY AuditAssumption DEF Typed
      <3> QED BY <3>1 DEF ReqType
    <2>1. req' \in [Reqs -> ReqType] BY <1>5, <2>0 DEF Typed, Begin
    <2> QED BY <1>5, <2>1 DEF Typed, Begin, procVars
  <1>6. ASSUME NEW r \in Reqs, NEW result \in {"sent", "refused", "error"},
               NEW reached \in BOOLEAN, CallReturns(r, result, reached)
        PROVE  Typed'
    <2>0. [req[r] EXCEPT !.pc = "lookup", !.result = result] \in ReqType
      BY DEF Typed, ReqType
    <2>1. req' \in [Reqs -> ReqType] BY <1>6, <2>0 DEF Typed, CallReturns
    <2> QED BY <1>6, <2>1 DEF Typed, CallReturns, procVars
  <1>7. ASSUME NEW r \in Reqs, Lookup(r) PROVE Typed'
    <2>0. [req[r] EXCEPT !.pc = "record", !.query = shown, !.at = clock + 1] \in ReqType
      <3>1. req[r] \in ReqType /\ shown \in Seen /\ clock + 1 \in Nat BY DEF Typed
      <3> QED BY <3>1 DEF ReqType
    <2>1. req' \in [Reqs -> ReqType] BY <1>7, <2>0 DEF Typed, Lookup
    <2> QED BY <1>7, <2>1 DEF Typed, Lookup
  <1>8. ASSUME NEW r \in Reqs, Record(r) PROVE Typed'
    <2>1. req' \in [Reqs -> ReqType] BY <1>8 DEF Typed, ReqType, Record
    <2>2. trail' \in Seq(EntryType) BY <1>8, StoredEntries, EntryTyped DEF Typed, Record
    <2> QED BY <1>8, <2>1, <2>2 DEF Typed, Record, procVars
  <1>9. ASSUME NEW r \in Reqs, RecordFails(r) PROVE Typed'
    <2>1. req' \in [Reqs -> ReqType] BY <1>9 DEF Typed, ReqType, RecordFails
    <2> QED BY <1>9, <2>1 DEF Typed, RecordFails, procVars
  <1>10. ASSUME NEW r \in Reqs, Answer(r) PROVE Typed'
    <2>1. req' \in [Reqs -> ReqType] BY <1>10 DEF Typed, ReqType, Answer
    <2>2. counted' \in [BOOLEAN -> Nat]
      <3> DEFINE d == req[r].result = "sent"
      <3>1. \A b \in BOOLEAN : counted[b] + 1 \in Nat BY DEF Typed
      <3>2. counted' = [counted EXCEPT ![d] = counted[d] + 1] /\ d \in BOOLEAN
        BY <1>10 DEF Answer
      <3> QED BY <3>1, <3>2, Zenon DEF Typed
    <2> QED BY <1>10, <2>1, <2>2 DEF Typed, Answer
  <1>11. CASE UNCHANGED vars
    BY <1>11 DEF Typed, vars, procVars
  <1> QED BY <1>1, <1>2, <1>3, <1>4, <1>5, <1>6, <1>7, <1>8, <1>9, <1>10, <1>11 DEF Next, Do, Return

\* A step keeps requests inside their process.
LEMMA ProgressStep == ASSUME Typed, Progress, [Next]_vars PROVE Progress'
  <1>1. CASE Poll
    BY <1>1 DEF Typed, ReqType, Progress, Poll
  <1>2. CASE Shutdown
    BY <1>2 DEF Typed, ReqType, Progress, Shutdown
  <1>3. CASE Exit
    BY <1>3 DEF Typed, ReqType, Progress, Exit
  <1>4. CASE Restart
    BY <1>4 DEF Typed, ReqType, Progress, Restart
  <1>5. ASSUME NEW r \in Reqs, Begin(r) PROVE Progress'
    BY <1>5 DEF Typed, ReqType, Progress, Begin, procVars
  <1>6. ASSUME NEW r \in Reqs, NEW result \in {"sent", "refused", "error"},
               NEW reached \in BOOLEAN, CallReturns(r, result, reached)
        PROVE  Progress'
    BY <1>6 DEF Typed, ReqType, Progress, CallReturns, procVars
  <1>7. ASSUME NEW r \in Reqs, Lookup(r) PROVE Progress'
    BY <1>7 DEF Typed, ReqType, Progress, Lookup
  <1>8. ASSUME NEW r \in Reqs, Record(r) PROVE Progress'
    BY <1>8 DEF Typed, ReqType, Progress, Record, procVars
  <1>9. ASSUME NEW r \in Reqs, RecordFails(r) PROVE Progress'
    BY <1>9 DEF Typed, ReqType, Progress, RecordFails, procVars
  <1>10. ASSUME NEW r \in Reqs, Answer(r) PROVE Progress'
    BY <1>10 DEF Typed, ReqType, Progress, Answer
  <1>11. CASE UNCHANGED vars
    BY <1>11 DEF Typed, ReqType, Progress, vars, procVars
  <1> QED BY <1>1, <1>2, <1>3, <1>4, <1>5, <1>6, <1>7, <1>8, <1>9, <1>10, <1>11 DEF Next, Do, Return

\* The entries stay true while the requests they are of keep what they recorded.
LEMMA EntriesKept ==
    ASSUME Typed, EntriesFaithful, trail' = trail,
           \A s \in Reqs : req[s].pc \in {"answer", "done", "dead"} =>
               /\ req'[s].pc \in {"answer", "done", "dead"}
               /\ req'[s].at = req[s].at /\ req'[s].query = req[s].query
               /\ req'[s].result = req[s].result
    PROVE  EntriesFaithful'
  <1> SUFFICES ASSUME NEW i \in 1..Len(trail)
               PROVE  /\ req'[trail[i].by].pc \in {"answer", "done", "dead"}
                      /\ req'[trail[i].by].at # 0
                      /\ trail[i] = EntryOf(trail[i].by)'
    BY DEF EntriesFaithful
  <1>1. trail[i].by \in Reqs BY EntriesBelong
  <1>2. EntryOf(trail[i].by)' = EntryOf(trail[i].by)
    BY <1>1 DEF EntriesFaithful, EntryOf
  <1> QED BY <1>1, <1>2 DEF EntriesFaithful

\* A step changes no request that is in the trail, and records what is so.
LEMMA EntriesStep ==
    ASSUME Typed, Progress, EntriesFaithful, [Next]_vars PROVE EntriesFaithful'
  <1>1. CASE Poll
    BY <1>1, EntriesKept DEF Poll
  <1>2. CASE Shutdown
    BY <1>2, EntriesKept DEF Shutdown
  <1>3. CASE Exit
    BY <1>3, EntriesKept DEF Exit, Typed, ReqType
  <1>4. CASE Restart
    <2>1. CASE durable BY <1>4, <2>1, EntriesKept DEF Restart
    <2>2. CASE ~durable BY <1>4, <2>2 DEF Restart, EntriesFaithful
    <2> QED BY <2>1, <2>2
  <1>5. ASSUME NEW r \in Reqs, Begin(r) PROVE EntriesFaithful'
    BY <1>5, EntriesKept DEF Begin, Typed, ReqType
  <1>6. ASSUME NEW r \in Reqs, NEW result \in {"sent", "refused", "error"},
               NEW reached \in BOOLEAN, CallReturns(r, result, reached)
        PROVE  EntriesFaithful'
    BY <1>6, EntriesKept DEF CallReturns, Typed, ReqType
  <1>7. ASSUME NEW r \in Reqs, Lookup(r) PROVE EntriesFaithful'
    BY <1>7, EntriesKept DEF Lookup, Typed, ReqType
  <1>8. ASSUME NEW r \in Reqs, Record(r) PROVE EntriesFaithful'
    <2>1. EntryOf(r) \in EntryType /\ EntryOf(r).by = r BY EntryTyped DEF EntryOf
    <2>2. \A s \in Reqs : /\ EntryOf(s)' = EntryOf(s) /\ req'[s].at = req[s].at
                          /\ req[s].pc \in {"answer", "done", "dead"} => req'[s].pc = req[s].pc
      BY <1>8 DEF Record, Typed, ReqType, EntryOf
    <2>3. req'[r].pc = "answer" /\ req[r].at # 0
      BY <1>8 DEF Record, Typed, ReqType, Progress
    <2>4. ASSUME NEW i \in 1..Len(trail')
          PROVE  trail'[i] = EntryOf(r) \/ \E j \in 1..Len(trail) : trail'[i] = trail[j]
      BY <1>8, <2>1, StoredEntries DEF Record, Typed
    <2>5. \A j \in 1..Len(trail) : trail[j].by \in Reqs BY EntriesBelong
    <2> QED BY <2>1, <2>2, <2>3, <2>4, <2>5 DEF EntriesFaithful
  <1>9. ASSUME NEW r \in Reqs, RecordFails(r) PROVE EntriesFaithful'
    BY <1>9, EntriesKept DEF RecordFails, Typed, ReqType
  <1>10. ASSUME NEW r \in Reqs, Answer(r) PROVE EntriesFaithful'
    BY <1>10, EntriesKept DEF Answer, Typed, ReqType
  <1>11. CASE UNCHANGED vars
    BY <1>11, EntriesKept DEF vars, procVars
  <1> QED BY <1>1, <1>2, <1>3, <1>4, <1>5, <1>6, <1>7, <1>8, <1>9, <1>10, <1>11 DEF Next, Do, Return

\* A step records a request at most once, and none is answered otherwise.
LEMMA RecordedStep == ASSUME Typed, Progress, EntriesFaithful, RecordedOnce, [Next]_vars PROVE RecordedOnce'
  <1>1. CASE Poll
    BY <1>1 DEF Typed, ReqType, EntryType, Progress, EntriesFaithful, RecordedOnce, Poll
  <1>2. CASE Shutdown
    BY <1>2 DEF Typed, ReqType, EntryType, Progress, EntriesFaithful, RecordedOnce, Shutdown
  <1>3. CASE Exit
    BY <1>3 DEF Typed, ReqType, EntryType, Progress, EntriesFaithful, RecordedOnce, Exit
  <1>4. CASE Restart
    BY <1>4 DEF Typed, ReqType, EntryType, Progress, EntriesFaithful, RecordedOnce, Restart
  <1>5. ASSUME NEW r \in Reqs, Begin(r) PROVE RecordedOnce'
    BY <1>5 DEF Typed, ReqType, EntryType, Progress, EntriesFaithful, RecordedOnce, Begin, procVars
  <1>6. ASSUME NEW r \in Reqs, NEW result \in {"sent", "refused", "error"},
               NEW reached \in BOOLEAN, CallReturns(r, result, reached)
        PROVE  RecordedOnce'
    BY <1>6 DEF Typed, ReqType, EntryType, Progress, EntriesFaithful, RecordedOnce, CallReturns, procVars
  <1>7. ASSUME NEW r \in Reqs, Lookup(r) PROVE RecordedOnce'
    BY <1>7 DEF Typed, ReqType, EntryType, Progress, EntriesFaithful, RecordedOnce, Lookup
  <1>8. ASSUME NEW r \in Reqs, Record(r) PROVE RecordedOnce'
    <2> SUFFICES ASSUME durable PROVE RecordedOnce' BY <1>8 DEF Record, procVars, RecordedOnce
    <2>1. trail' = Append(trail, EntryOf(r)) /\ EntryOf(r) \in EntryType /\ EntryOf(r).by = r
      BY <1>8, EntryTyped DEF Record, Stored, EntryOf
    <2>2. \A i \in 1..Len(trail) : trail[i].by # r BY <1>8 DEF EntriesFaithful, Record
    <2>3. \A s \in Reqs : s # r => req'[s] = req[s] BY <1>8 DEF Record, Typed
    <2>4. /\ Len(trail') = Len(trail) + 1 /\ Len(trail) \in Nat
          /\ \A i \in 1..Len(trail) : trail'[i] = trail[i]
          /\ trail'[Len(trail) + 1] = EntryOf(r)
      BY <2>1 DEF Typed
    <2>5. \A i, j \in 1..Len(trail') : trail'[i].by = trail'[j].by => i = j
      BY <2>1, <2>2, <2>4 DEF RecordedOnce
    <2>6. ASSUME NEW s \in Reqs, req'[s].pc \in {"answer", "done"}
          PROVE  s \in dropped' \/ \E i \in 1..Len(trail') : trail'[i].by = s
      <3>1. CASE s = r BY <3>1, <2>1, <2>4
      <3>2. CASE s # r BY <3>2, <2>3, <2>4, <2>6, <1>8 DEF RecordedOnce, Record
      <3> QED BY <3>1, <3>2
    <2> QED BY <2>5, <2>6 DEF RecordedOnce
  <1>9. ASSUME NEW r \in Reqs, RecordFails(r) PROVE RecordedOnce'
    BY <1>9 DEF Typed, ReqType, EntryType, Progress, EntriesFaithful, RecordedOnce, RecordFails, procVars
  <1>10. ASSUME NEW r \in Reqs, Answer(r) PROVE RecordedOnce'
    BY <1>10 DEF Typed, ReqType, EntryType, Progress, EntriesFaithful, RecordedOnce, Answer
  <1>11. CASE UNCHANGED vars
    BY <1>11 DEF Typed, ReqType, EntryType, Progress, EntriesFaithful, RecordedOnce, vars, procVars
  <1> QED BY <1>1, <1>2, <1>3, <1>4, <1>5, <1>6, <1>7, <1>8, <1>9, <1>10, <1>11 DEF Next, Do, Return

\* A step changes what is shown by a poll or where no request is between its
\* arrival and its lookup.
LEMMA AimedStep == ASSUME Typed, Progress, Aimed, [Next]_vars PROVE Aimed'
  <1>1. CASE Poll
    BY <1>1 DEF Typed, ReqType, Progress, Aimed, Poll
  <1>2. CASE Shutdown
    BY <1>2 DEF Typed, ReqType, Progress, Aimed, Shutdown
  <1>3. CASE Exit
    BY <1>3 DEF Typed, ReqType, Progress, Aimed, Exit
  <1>4. CASE Restart
    BY <1>4 DEF Typed, ReqType, Progress, Aimed, Restart
  <1>5. ASSUME NEW r \in Reqs, Begin(r) PROVE Aimed'
    BY <1>5 DEF Typed, ReqType, Progress, Aimed, Begin, procVars
  <1>6. ASSUME NEW r \in Reqs, NEW result \in {"sent", "refused", "error"},
               NEW reached \in BOOLEAN, CallReturns(r, result, reached)
        PROVE  Aimed'
    BY <1>6 DEF Typed, ReqType, Progress, Aimed, CallReturns, procVars
  <1>7. ASSUME NEW r \in Reqs, Lookup(r) PROVE Aimed'
    BY <1>7 DEF Typed, ReqType, Progress, Aimed, Lookup
  <1>8. ASSUME NEW r \in Reqs, Record(r) PROVE Aimed'
    BY <1>8 DEF Typed, ReqType, Progress, Aimed, Record, procVars
  <1>9. ASSUME NEW r \in Reqs, RecordFails(r) PROVE Aimed'
    BY <1>9 DEF Typed, ReqType, Progress, Aimed, RecordFails, procVars
  <1>10. ASSUME NEW r \in Reqs, Answer(r) PROVE Aimed'
    BY <1>10 DEF Typed, ReqType, Progress, Aimed, Answer
  <1>11. CASE UNCHANGED vars
    BY <1>11 DEF Typed, ReqType, Progress, Aimed, vars, procVars
  <1> QED BY <1>1, <1>2, <1>3, <1>4, <1>5, <1>6, <1>7, <1>8, <1>9, <1>10, <1>11 DEF Next, Do, Return

-----------------------------------------------------------------------------
(* Counting *)

\* Every set of requests that is counted is finite.
LEMMA CountedRequests == ASSUME NEW T \in SUBSET Reqs
                         PROVE  IsFiniteSet(T) /\ Cardinality(T) \in Nat
                                /\ Cardinality(T) <= Cardinality(Reqs)
  BY ReqsFinite, FS_Subset, FS_CardinalityType

\* The clock is read once for each request.
LEMMA ClockStep ==
    ASSUME Typed, Progress, ClockCounts, [Next]_vars PROVE ClockCounts'
  <1> DEFINE read == {r \in Reqs : req[r].at # 0}
  <1>0. ASSUME clock' = clock, \A s \in Reqs : req'[s].at = req[s].at PROVE ClockCounts'
    BY <1>0 DEF ClockCounts
  <1>1. CASE Poll
    BY <1>1, <1>0 DEF Poll
  <1>2. CASE Shutdown
    BY <1>2, <1>0 DEF Shutdown
  <1>3. CASE Exit
    BY <1>3, <1>0 DEF Exit, Typed, ReqType
  <1>4. CASE Restart
    BY <1>4, <1>0 DEF Restart
  <1>5. ASSUME NEW r \in Reqs, Begin(r) PROVE ClockCounts'
    BY <1>5, <1>0 DEF Begin, procVars, Typed, ReqType
  <1>6. ASSUME NEW r \in Reqs, NEW result \in {"sent", "refused", "error"},
               NEW reached \in BOOLEAN, CallReturns(r, result, reached)
        PROVE  ClockCounts'
    BY <1>6, <1>0 DEF CallReturns, procVars, Typed, ReqType
  <1>7. ASSUME NEW r \in Reqs, Lookup(r) PROVE ClockCounts'
    <2>1. read' = read \cup {r} /\ r \notin read
      BY <1>7 DEF Lookup, Typed, ReqType, Progress
    <2>2. IsFiniteSet(read) BY CountedRequests
    <2>3. Cardinality(read') = Cardinality(read) + 1 BY <2>1, <2>2, FS_AddElement
    <2> QED BY <1>7, <2>3 DEF Lookup, ClockCounts
  <1>8. ASSUME NEW r \in Reqs, Record(r) PROVE ClockCounts'
    BY <1>8, <1>0 DEF Record, procVars, Typed, ReqType
  <1>9. ASSUME NEW r \in Reqs, RecordFails(r) PROVE ClockCounts'
    BY <1>9, <1>0 DEF RecordFails, procVars, Typed, ReqType
  <1>10. ASSUME NEW r \in Reqs, Answer(r) PROVE ClockCounts'
    BY <1>10, <1>0 DEF Answer, Typed, ReqType
  <1>11. CASE UNCHANGED vars
    BY <1>11, <1>0 DEF vars, procVars
  <1> QED BY <1>1, <1>2, <1>3, <1>4, <1>5, <1>6, <1>7, <1>8, <1>9, <1>10, <1>11 DEF Next, Do, Return

\* Each request is counted once, when it is done.
LEMMA CountedStep ==
    ASSUME Typed, CountedAreDone, [Next]_vars PROVE CountedAreDone'
  <1>0. ASSUME counted' = counted,
               \A s \in Reqs : /\ (req'[s].pc = "done") = (req[s].pc = "done")
                               /\ req[s].pc = "done" => req'[s].result = req[s].result
        PROVE  CountedAreDone'
    <2>1. \A d \in BOOLEAN : DoneBy(d)' = DoneBy(d) BY <1>0 DEF DoneBy
    <2> QED BY <1>0, <2>1 DEF CountedAreDone
  <1>1. CASE Poll
    BY <1>1, <1>0 DEF Poll
  <1>2. CASE Shutdown
    BY <1>2, <1>0 DEF Shutdown
  <1>3. CASE Exit
    BY <1>3, <1>0 DEF Exit, Typed, ReqType
  <1>4. CASE Restart
    <2>1. ASSUME NEW d \in BOOLEAN PROVE 0 <= Cardinality(DoneBy(d)')
      BY CountedRequests DEF DoneBy
    <2> QED BY <1>4, <2>1 DEF Restart, CountedAreDone
  <1>5. ASSUME NEW r \in Reqs, Begin(r) PROVE CountedAreDone'
    BY <1>5, <1>0 DEF Begin, procVars, Typed, ReqType
  <1>6. ASSUME NEW r \in Reqs, NEW result \in {"sent", "refused", "error"},
               NEW reached \in BOOLEAN, CallReturns(r, result, reached)
        PROVE  CountedAreDone'
    BY <1>6, <1>0 DEF CallReturns, procVars, Typed, ReqType
  <1>7. ASSUME NEW r \in Reqs, Lookup(r) PROVE CountedAreDone'
    BY <1>7, <1>0 DEF Lookup, Typed, ReqType
  <1>8. ASSUME NEW r \in Reqs, Record(r) PROVE CountedAreDone'
    BY <1>8, <1>0 DEF Record, procVars, Typed, ReqType
  <1>9. ASSUME NEW r \in Reqs, RecordFails(r) PROVE CountedAreDone'
    BY <1>9, <1>0 DEF RecordFails, procVars, Typed, ReqType
  <1>10. ASSUME NEW r \in Reqs, Answer(r) PROVE CountedAreDone'
    <2> DEFINE now == req[r].result = "sent"
    <2>1. /\ counted' = [counted EXCEPT ![now] = counted[now] + 1]
          /\ now \in BOOLEAN /\ counted \in [BOOLEAN -> Nat]
      BY <1>10 DEF Answer, Typed
    <2>2. ASSUME NEW d \in BOOLEAN PROVE (counted[d])' <= Cardinality(DoneBy(d)')
      <3>0. IsFiniteSet(DoneBy(d)) /\ Cardinality(DoneBy(d)) \in Nat
        BY CountedRequests DEF DoneBy
      <3>1. CASE d = now
        <4>1. DoneBy(d)' = DoneBy(d) \cup {r} /\ r \notin DoneBy(d)
          BY <1>10, <3>1 DEF Answer, DoneBy, Typed, ReqType
        <4>2. counted'[d] = counted[d] + 1 BY <2>1, <3>1, Zenon
        <4>3. Cardinality(DoneBy(d)') = Cardinality(DoneBy(d)) + 1
          BY <4>1, <3>0, FS_AddElement
        <4>4. counted[d] \in Nat /\ counted[d] <= Cardinality(DoneBy(d))
          BY <2>1 DEF CountedAreDone
        <4> QED BY <4>2, <4>3, <4>4, <3>0
      <3>2. CASE d # now
        <4>1. DoneBy(d)' = DoneBy(d) BY <1>10, <3>2 DEF Answer, DoneBy, Typed, ReqType
        <4>2. counted'[d] = counted[d] BY <2>1, <3>2, Zenon
        <4> QED BY <4>1, <4>2 DEF CountedAreDone
      <3> QED BY <3>1, <3>2
    <2> QED BY <2>2 DEF CountedAreDone
  <1>11. CASE UNCHANGED vars
    BY <1>11, <1>0 DEF vars, procVars
  <1> QED BY <1>1, <1>2, <1>3, <1>4, <1>5, <1>6, <1>7, <1>8, <1>9, <1>10, <1>11 DEF Next, Do, Return

\* The sets of ActionsCounted are finite.
LEMMA BalanceFinite ==
    ASSUME Typed, NEW d \in BOOLEAN
    PROVE  /\ IsFiniteSet(RowsBy(d)) /\ Cardinality(RowsBy(d)) \in Nat
           /\ IsFiniteSet(NowBy(d) \cap dropped) /\ Cardinality(NowBy(d) \cap dropped) \in Nat
           /\ IsFiniteSet(PendingBy(d)) /\ Cardinality(PendingBy(d)) \in Nat
           /\ counted[d] \in Nat
  <1>1. IsFiniteSet(1..Len(trail)) BY FS_Interval DEF Typed
  <1>2. RowsBy(d) \in SUBSET (1..Len(trail)) BY DEF RowsBy
  <1>3. NowBy(d) \cap dropped \in SUBSET Reqs /\ PendingBy(d) \in SUBSET Reqs
    BY DEF NowBy, PendingBy
  <1>4. IsFiniteSet(RowsBy(d)) /\ Cardinality(RowsBy(d)) \in Nat
    BY <1>1, <1>2, FS_Subset, FS_CardinalityType
  <1> QED BY <1>3, <1>4, CountedRequests DEF Typed

\* The table, the failed records and the counters stay in balance: Record and a
\* Record that fails add to both sides, Answer moves a request from one term to the
\* other, and a new process starts with nothing on either side.
LEMMA BalanceStep ==
    ASSUME Inv, ActionsCounted, [Next]_vars PROVE ActionsCounted'
  <1> USE DEF Inv
  <1>a. ActionsCounted = (durable /\ proc # "down" => \A d \in BOOLEAN : Balance(d))
    BY DEF ActionsCounted, Balance, NowBy, RowsBy, PendingBy
  <1>b. ActionsCounted' = (durable' /\ proc' # "down" => \A d \in BOOLEAN : Balance(d)')
    BY DEF ActionsCounted, Balance, NowBy, RowsBy, PendingBy
  <1>c. durable' = durable
    BY DEF Next, Do, Return, Poll, Shutdown, Exit, Restart, Begin, CallReturns, Lookup, Record,
           RecordFails, Answer, vars, procVars
  <1> SUFFICES ASSUME durable, proc' # "down", NEW d \in BOOLEAN PROVE Balance(d)'
    BY <1>b, <1>c
  <1>d. proc # "down" => Balance(d) BY <1>a
  <1>n. NowBy(d) \subseteq Reqs BY DEF NowBy
  <1>k. ASSUME RowsBy(d)' = RowsBy(d), (NowBy(d) \cap dropped)' = NowBy(d) \cap dropped,
               PendingBy(d)' = PendingBy(d), counted' = counted, proc # "down"
        PROVE  Balance(d)'
    BY <1>k, <1>d DEF Balance
  <1>1. CASE Poll
    BY <1>1, <1>k DEF RowsBy, NowBy, PendingBy, Poll
  <1>2. CASE Shutdown
    BY <1>2, <1>k DEF RowsBy, NowBy, PendingBy, Shutdown
  <1>3. CASE Exit
    BY <1>3 DEF Exit
  <1>4. CASE Restart
    <2>1. \A r \in Reqs : req'[r] = req[r] /\ ~(req[r].at > born')
      BY <1>4 DEF Restart, Typed, ReqType, Progress
    <2>2. NowBy(d)' = {} /\ PendingBy(d)' = {} BY <2>1 DEF NowBy, PendingBy
    <2>3. \A k \in 1..Len(trail) : trail[k].at = req[trail[k].by].at
      <3>1. \A q : EntryOf(q).at = req[q].at BY DEF EntryOf
      <3> QED BY <3>1 DEF EntriesFaithful
    <2>4. RowsBy(d)' = {}
      BY <1>4, <2>1, <2>3, EntriesBelong DEF Restart, RowsBy
    <2>5. counted'[d] = 0 BY <1>4 DEF Restart
    <2> QED BY <2>2, <2>4, <2>5, FS_EmptySet DEF Balance
  <1>5. ASSUME NEW r \in Reqs, Begin(r) PROVE Balance(d)'
    <2>1. /\ req[r].at = 0 /\ req'[r].at = 0 /\ born \in Nat
          /\ \A q \in Reqs : q # r => req'[q] = req[q]
      BY <1>5 DEF Begin, Typed, ReqType, Progress
    <2>2. NowBy(d)' = NowBy(d) /\ PendingBy(d)' = PendingBy(d)
      <3>1. born' = born /\ r \notin NowBy(d) /\ r \notin NowBy(d)'
        BY <1>5, <2>1 DEF Begin, procVars, NowBy
      <3>2. NowBy(d)' = NowBy(d) BY <2>1, <3>1 DEF NowBy
      <3> QED BY <2>1, <3>1, <3>2, <1>n DEF PendingBy
    <2> QED BY <1>5, <1>k, <2>2 DEF Begin, procVars, RowsBy
  <1>6. ASSUME NEW r \in Reqs, NEW result \in {"sent", "refused", "error"},
               NEW reached \in BOOLEAN, CallReturns(r, result, reached)
        PROVE  Balance(d)'
    <2>1. /\ req[r].at = 0 /\ req'[r].at = 0 /\ born \in Nat
          /\ \A q \in Reqs : q # r => req'[q] = req[q]
      BY <1>6 DEF CallReturns, Typed, ReqType, Progress
    <2>2. NowBy(d)' = NowBy(d) /\ PendingBy(d)' = PendingBy(d)
      <3>1. born' = born /\ r \notin NowBy(d) /\ r \notin NowBy(d)'
        BY <1>6, <2>1 DEF CallReturns, procVars, NowBy
      <3>2. NowBy(d)' = NowBy(d) BY <2>1, <3>1 DEF NowBy
      <3> QED BY <2>1, <3>1, <3>2, <1>n DEF PendingBy
    <2> QED BY <1>6, <1>k, <2>2 DEF CallReturns, procVars, RowsBy
  <1>7. ASSUME NEW r \in Reqs, Lookup(r) PROVE Balance(d)'
    <2>1. /\ req[r].pc = "lookup" /\ req'[r].pc = "record" /\ r \notin dropped
          /\ \A q \in Reqs : q # r => req'[q] = req[q]
      BY <1>7 DEF Lookup, Typed, ReqType, Progress
    <2>2. (NowBy(d) \cap dropped)' = NowBy(d) \cap dropped /\ PendingBy(d)' = PendingBy(d)
      BY <1>7, <2>1 DEF Lookup, NowBy, PendingBy
    <2> QED BY <1>7, <1>k, <2>2 DEF Lookup, RowsBy
  <1>8. ASSUME NEW r \in Reqs, Record(r) PROVE Balance(d)'
    <2>1. /\ req[r].pc = "record" /\ req'[r].pc = "answer"
          /\ req[r].at > born /\ req[r].at \in Nat /\ r \notin dropped
          /\ \A q \in Reqs : q # r => req'[q] = req[q]
      BY <1>8 DEF Record, Typed, ReqType, Progress
    <2>2. NowBy(d)' = NowBy(d)
      <3>1. \A q \in Reqs : req'[q].at = req[q].at /\ req'[q].result = req[q].result
        BY <1>8 DEF Record, Typed, ReqType
      <3> QED BY <1>8, <3>1 DEF Record, procVars, NowBy
    <2>3. trail' = Append(trail, EntryOf(r)) /\ EntryOf(r) \in EntryType
      BY <1>8, EntryTyped DEF Record, Stored
    <2>4. /\ Len(trail') = Len(trail) + 1 /\ Len(trail) \in Nat
          /\ \A k \in 1..Len(trail) : trail'[k] = trail[k]
          /\ trail'[Len(trail) + 1] = EntryOf(r)
      BY <2>3 DEF Typed
    <2>5. EntryOf(r).at = req[r].at /\ EntryOf(r).delivered = (req[r].result = "sent")
      BY DEF EntryOf
    <2>6. born' = born /\ dropped' = dropped /\ counted' = counted
      BY <1>8 DEF Record, procVars
    <2>7. CASE (req[r].result = "sent") = d
      <3>1. RowsBy(d)' = RowsBy(d) \cup {Len(trail) + 1} /\ Len(trail) + 1 \notin RowsBy(d)
        BY <2>1, <2>4, <2>5, <2>6, <2>7 DEF RowsBy
      <3>2. PendingBy(d)' = PendingBy(d) \cup {r} /\ r \notin PendingBy(d)
        <4>1. r \in NowBy(d) BY <2>1, <2>7 DEF NowBy
        <4> QED BY <2>1, <2>2, <4>1, <1>n DEF PendingBy
      <3>3. /\ Cardinality(RowsBy(d)') = Cardinality(RowsBy(d)) + 1
            /\ Cardinality(PendingBy(d)') = Cardinality(PendingBy(d)) + 1
        BY <3>1, <3>2, BalanceFinite, FS_AddElement
      <3>4. Balance(d) BY <1>8, <1>d DEF Record
      <3> QED BY <2>2, <2>6, <3>3, <3>4, BalanceFinite DEF Balance
    <2>8. CASE (req[r].result = "sent") # d
      <3>1. RowsBy(d)' = RowsBy(d) BY <2>1, <2>4, <2>5, <2>6, <2>8 DEF RowsBy
      <3>2. PendingBy(d)' = PendingBy(d) BY <2>1, <2>2, <2>8 DEF PendingBy, NowBy
      <3> QED BY <1>8, <1>k, <2>2, <2>6, <3>1, <3>2 DEF Record
    <2> QED BY <2>7, <2>8
  <1>9. ASSUME NEW r \in Reqs, RecordFails(r) PROVE Balance(d)'
    <2>1. /\ req[r].pc = "record" /\ req'[r].pc = "answer"
          /\ req[r].at > born /\ r \notin dropped
          /\ \A q \in Reqs : q # r => req'[q] = req[q]
      BY <1>9 DEF RecordFails, Typed, ReqType, Progress
    <2>2. NowBy(d)' = NowBy(d)
      <3>1. \A q \in Reqs : req'[q].at = req[q].at /\ req'[q].result = req[q].result
        BY <1>9 DEF RecordFails, Typed, ReqType
      <3> QED BY <1>9, <3>1 DEF RecordFails, procVars, NowBy
    <2>3. /\ born' = born /\ dropped' = dropped \cup {r} /\ counted' = counted
          /\ RowsBy(d)' = RowsBy(d)
      BY <1>9 DEF RecordFails, procVars, RowsBy
    <2>4. CASE (req[r].result = "sent") = d
      <3>1. /\ (NowBy(d) \cap dropped)' = (NowBy(d) \cap dropped) \cup {r}
            /\ r \notin NowBy(d) \cap dropped
        BY <2>1, <2>2, <2>3, <2>4 DEF NowBy
      <3>2. PendingBy(d)' = PendingBy(d) \cup {r} /\ r \notin PendingBy(d)
        <4>1. r \in NowBy(d) BY <2>1, <2>4 DEF NowBy
        <4> QED BY <2>1, <2>2, <4>1, <1>n DEF PendingBy
      <3>3. /\ Cardinality((NowBy(d) \cap dropped)') = Cardinality(NowBy(d) \cap dropped) + 1
            /\ Cardinality(PendingBy(d)') = Cardinality(PendingBy(d)) + 1
        BY <3>1, <3>2, BalanceFinite, FS_AddElement
      <3>4. Balance(d) BY <1>9, <1>d DEF RecordFails
      <3>5. Cardinality(RowsBy(d)') = Cardinality(RowsBy(d)) /\ counted'[d] = counted[d]
        BY <2>3
      <3> QED BY <3>3, <3>4, <3>5, BalanceFinite DEF Balance
    <2>5. CASE (req[r].result = "sent") # d
      <3>1. (NowBy(d) \cap dropped)' = NowBy(d) \cap dropped
        BY <2>2, <2>3, <2>5 DEF NowBy
      <3>2. PendingBy(d)' = PendingBy(d) BY <2>1, <2>2, <2>5 DEF PendingBy, NowBy
      <3> QED BY <1>9, <1>k, <2>3, <3>1, <3>2 DEF RecordFails
    <2> QED BY <2>4, <2>5
  <1>10. ASSUME NEW r \in Reqs, Answer(r) PROVE Balance(d)'
    <2> DEFINE now == req[r].result = "sent"
    <2>1. /\ req[r].pc = "answer" /\ req'[r].pc = "done"
          /\ req[r].at > born
          /\ \A q \in Reqs : q # r => req'[q] = req[q]
      BY <1>10 DEF Answer, Typed, ReqType, Progress
    <2>2. NowBy(d)' = NowBy(d)
      <3>1. \A q \in Reqs : req'[q].at = req[q].at /\ req'[q].result = req[q].result
        BY <1>10 DEF Answer, Typed, ReqType
      <3> QED BY <1>10, <3>1 DEF Answer, NowBy
    <2>3. /\ counted' = [counted EXCEPT ![now] = counted[now] + 1]
          /\ now \in BOOLEAN /\ counted \in [BOOLEAN -> Nat]
      BY <1>10 DEF Answer, Typed
    <2>4. /\ (NowBy(d) \cap dropped)' = NowBy(d) \cap dropped
          /\ RowsBy(d)' = RowsBy(d)
      BY <1>10, <2>2 DEF Answer, RowsBy
    <2>5. Balance(d) BY <1>10, <1>d DEF Answer
    <2>6. CASE now = d
      <3>1. PendingBy(d)' = PendingBy(d) \ {r} /\ r \in PendingBy(d)
        <4>1. r \in NowBy(d) BY <2>1, <2>6 DEF NowBy
        <4> QED BY <2>1, <2>2, <4>1, <1>n DEF PendingBy
      <3>2. Cardinality(PendingBy(d)') = Cardinality(PendingBy(d)) - 1
        BY <3>1, BalanceFinite, FS_RemoveElement
      <3>3. counted'[d] = counted[d] + 1 BY <2>3, <2>6, Zenon
      <3>4. /\ Cardinality(RowsBy(d)') = Cardinality(RowsBy(d))
            /\ Cardinality((NowBy(d) \cap dropped)') = Cardinality(NowBy(d) \cap dropped)
        BY <2>4
      <3>5. /\ Cardinality(RowsBy(d)) \in Nat /\ Cardinality(NowBy(d) \cap dropped) \in Nat
            /\ Cardinality(PendingBy(d)) \in Nat /\ counted[d] \in Nat
        BY BalanceFinite
      <3>6. Cardinality(RowsBy(d)) + Cardinality(NowBy(d) \cap dropped)
                = (counted[d] + 1) + (Cardinality(PendingBy(d)) - 1)
        <4>1. Cardinality(RowsBy(d)) + Cardinality(NowBy(d) \cap dropped)
                  = counted[d] + Cardinality(PendingBy(d))
          BY <2>5 DEF Balance
        <4>2. \A c, m \in Nat : c + m = (c + 1) + (m - 1) OBVIOUS
        <4>3. counted[d] + Cardinality(PendingBy(d))
                  = (counted[d] + 1) + (Cardinality(PendingBy(d)) - 1)
          BY <4>2, <3>5
        <4> QED BY <4>1, <4>3
      <3> QED BY <3>2, <3>3, <3>4, <3>6 DEF Balance
    <2>7. CASE now # d
      <3>1. PendingBy(d)' = PendingBy(d) BY <2>1, <2>2, <2>7 DEF PendingBy, NowBy
      <3>2. counted'[d] = counted[d] BY <2>3, <2>7, Zenon
      <3> QED BY <2>4, <2>5, <3>1, <3>2 DEF Balance
    <2> QED BY <2>6, <2>7
  <1>11. CASE UNCHANGED vars
    BY <1>11, <1>k DEF RowsBy, NowBy, PendingBy, vars, procVars
  <1> QED BY <1>1, <1>2, <1>3, <1>4, <1>5, <1>6, <1>7, <1>8, <1>9, <1>10, <1>11 DEF Next, Do, Return

\* A step keeps the memory sink within its capacity.
LEMMA BoundedStep == ASSUME Typed, MemoryBounded, [Next]_vars PROVE MemoryBounded'
  <1> USE CapPositive DEF MemoryBounded
  <1>1. ASSUME NEW r \in Reqs, Record(r) PROVE MemoryBounded'
    <2>1. EntryOf(r) \in EntryType BY EntryTyped
    <2>2. ~durable => Len(Stored(EntryOf(r))) <= Cap
      BY <2>1 DEF Typed, Stored, Keep
    <2> QED BY <1>1, <2>2 DEF Record, procVars, Cap
  <1>2. CASE Restart BY <1>2 DEF Restart, Cap
  <1>3. CASE trail' = trail /\ durable' = durable BY <1>3 DEF Cap
  <1> QED
    BY <1>1, <1>2, <1>3 DEF Next, Do, Return, Poll, Shutdown, Exit, Begin, CallReturns, Lookup,
                            RecordFails, Answer, vars, procVars

-----------------------------------------------------------------------------
(* Theorems *)

\* The initial states have the inductive invariant.
LEMMA InvInit == Init => IInv
  <1> SUFFICES ASSUME Init PROVE IInv OBVIOUS
  <1>1. Typed
    <2>1. NewReq \in ReqType BY DEF NewReq, ReqType, Seen
    <2> QED BY <2>1, AuditAssumption DEF Init, Typed
  <1>2. \A r \in Reqs : req[r] = NewReq BY DEF Init
  <1>3. Progress /\ Aimed BY <1>2 DEF Init, Progress, Aimed, NewReq
  <1>4. EntriesFaithful /\ MemoryBounded BY CapPositive DEF Init, EntriesFaithful, MemoryBounded
  <1>5. RecordedOnce BY <1>2 DEF Init, RecordedOnce, NewReq
  <1>6. ClockCounts
    <2>1. {r \in Reqs : req[r].at # 0} = {} BY <1>2 DEF NewReq
    <2> QED BY <2>1, FS_EmptySet DEF Init, ClockCounts
  <1>7. CountedAreDone BY CountedRequests DEF Init, CountedAreDone, DoneBy
  <1>8. ActionsCounted
    <2>1. ASSUME NEW d \in BOOLEAN PROVE Balance(d)
      <3>1. NowBy(d) = {} /\ PendingBy(d) = {} BY <1>2 DEF Init, NowBy, PendingBy, NewReq
      <3>2. RowsBy(d) = {} BY DEF Init, RowsBy
      <3> QED BY <3>1, <3>2, FS_EmptySet DEF Init, Balance
    <2> QED BY <2>1 DEF ActionsCounted, Balance, NowBy, RowsBy, PendingBy
  <1> QED BY <1>1, <1>3, <1>4, <1>5, <1>6, <1>7, <1>8 DEF IInv, Inv

\* Every step keeps it.
LEMMA InvStep == IInv /\ [Next]_vars => IInv'
  BY TypedStep, ProgressStep, EntriesStep, RecordedStep, AimedStep, ClockStep, CountedStep,
     BalanceStep, BoundedStep DEF IInv, Inv

\* Service.Do, the sinks, the poller and the process keep the inductive invariant.
THEOREM Invariance == Spec => []IInv
  <1> QED BY InvInit, InvStep, PTL DEF Spec

\* The clock is read at most once for each request, so that all is bounded as TypeOK
\* says.
LEMMA Bounded ==
    ASSUME IInv
    PROVE  TypeOK /\ \A r \in Reqs : req[r].at # 0 => req[r].at \in 1..Cardinality(Reqs)
  <1> USE DEF IInv, Inv
  <1>1. Cardinality(Reqs) \in Nat /\ clock <= Cardinality(Reqs)
    BY ReqsFinite, FS_CardinalityType, CountedRequests DEF ClockCounts
  <1>2. \A r \in Reqs : req[r] \in ReqType /\ req[r].at \in 0..Cardinality(Reqs)
                         /\ req[r].since \in 0..MaxPolls
    <2>1. \A r \in Reqs : req[r] \in ReqType BY DEF Typed
    <2>2. \A r \in Reqs : req[r].at \in Nat /\ req[r].since \in Nat BY <2>1 DEF ReqType
    <2> QED BY <1>1, <2>1, <2>2, AuditAssumption DEF Typed, Progress, Aimed
  <1>3. req \in [Reqs -> [pc : {"new", "call", "lookup", "record", "answer", "done", "dead"},
                          result : {"none", "sent", "refused", "error"}, query : Seen,
                          at : 0..Cardinality(Reqs), aim : Seen, since : 0..MaxPolls]]
    BY <1>2 DEF Typed, ReqType
  <1>4. trail \in Seq(Entry)
    <2>1. ASSUME NEW i \in 1..Len(trail) PROVE trail[i] \in Entry
      <3>1. trail[i] \in EntryType /\ trail[i].by \in Reqs BY EntriesBelong
      <3>2. \A q : EntryOf(q).at = req[q].at BY DEF EntryOf
      <3>3. trail[i].at = req[trail[i].by].at /\ req[trail[i].by].at # 0
        BY <3>2 DEF EntriesFaithful
      <3>4. trail[i].at \in 1..Cardinality(Reqs) BY <1>2, <3>1, <3>3
      <3> QED BY <3>1, <3>4 DEF EntryType, Entry
    <2> QED BY <2>1 DEF Typed
  <1>5. counted \in [BOOLEAN -> 0..Cardinality(Reqs)]
    <2>1. ASSUME NEW d \in BOOLEAN PROVE counted[d] \in 0..Cardinality(Reqs)
      <3>1. Cardinality(DoneBy(d)) \in Nat /\ Cardinality(DoneBy(d)) <= Cardinality(Reqs)
        BY CountedRequests DEF DoneBy
      <3>2. counted[d] \in Nat /\ counted[d] <= Cardinality(DoneBy(d))
        BY DEF Typed, CountedAreDone
      <3> QED BY <1>1, <3>1, <3>2
    <2> QED BY <2>1 DEF Typed
  <1>6. clock \in 0..Cardinality(Reqs) BY <1>1 DEF Typed
  <1> QED BY <1>2, <1>3, <1>4, <1>5, <1>6 DEF TypeOK, Typed, MemoryBounded

\* The types, and that the clock and both counters stay within the number of requests.
THEOREM TypeCorrect == Spec => []TypeOK
  <1>1. IInv => TypeOK BY Bounded
  <1> QED BY <1>1, Invariance, PTL

\* No entry claims a delivery PostgreSQL did not make.
THEOREM Truthful == Spec => []DeliveredIsTrue
  <1>1. IInv => DeliveredIsTrue
    <2> SUFFICES ASSUME IInv, NEW i \in 1..Len(trail), trail[i].delivered
                 PROVE  trail[i].by \in hit
      BY DEF DeliveredIsTrue
    <2>1. trail[i].by \in Reqs BY EntriesBelong DEF IInv, Inv
    <2>2. EntryOf(trail[i].by).delivered = (req[trail[i].by].result = "sent") BY DEF EntryOf
    <2>3. trail[i] = EntryOf(trail[i].by) BY DEF IInv, Inv, EntriesFaithful
    <2>4. req[trail[i].by].result = "sent" BY <2>2, <2>3
    <2> QED BY <2>1, <2>4 DEF IInv, Inv, Progress
  <1> QED BY <1>1, Invariance, PTL

\* Do answers only what it has recorded, once, and with the query the operator saw
\* unless a poll came between.
THEOREM Recorded == Spec => []AnsweredIsRecorded
  <1>1. IInv => AnsweredIsRecorded
    <2> SUFFICES ASSUME IInv PROVE AnsweredIsRecorded OBVIOUS
    <2> USE DEF IInv, Inv
    <2>0. ASSUME NEW i \in 1..Len(trail)
          PROVE  /\ trail[i].by \in Reqs
                 /\ trail[i].delivered = (req[trail[i].by].result = "sent")
                 /\ trail[i].error = (req[trail[i].by].result = "error")
                 /\ trail[i].query = req[trail[i].by].query
                 /\ req[trail[i].by].at # 0
      <3>1. \A q : /\ EntryOf(q).delivered = (req[q].result = "sent")
                   /\ EntryOf(q).error = (req[q].result = "error")
                   /\ EntryOf(q).query = req[q].query
        BY DEF EntryOf
      <3>2. trail[i] = EntryOf(trail[i].by) /\ req[trail[i].by].at # 0 BY DEF EntriesFaithful
      <3> QED BY <3>1, <3>2, EntriesBelong
    <2>1. ASSUME durable, NEW r \in Reqs PROVE Cardinality(EntriesBy(r)) <= 1
      <3>1. CASE EntriesBy(r) = {} BY <3>1, FS_EmptySet
      <3>2. CASE EntriesBy(r) # {}
        <4>1. PICK i \in EntriesBy(r) : TRUE BY <3>2
        <4>2. EntriesBy(r) = {i} BY <2>1, <4>1 DEF EntriesBy, RecordedOnce
        <4> QED BY <4>2, FS_Singleton
      <3> QED BY <3>1, <3>2
    <2>2. ASSUME durable, NEW r \in Reqs, req[r].pc \in {"answer", "done"}
          PROVE  \/ r \in dropped
                 \/ \E i \in EntriesBy(r) : /\ trail[i].delivered = (req[r].result = "sent")
                                            /\ trail[i].error = (req[r].result = "error")
      BY <2>0, <2>2 DEF RecordedOnce, EntriesBy
    <2>3. ASSUME NEW i \in 1..Len(trail), trail[i].query # req[trail[i].by].aim
          PROVE  req[trail[i].by].since < polls
      BY <2>0, <2>3 DEF Aimed
    <2> QED BY <2>1, <2>2, <2>3 DEF AnsweredIsRecorded
  <1> QED BY <1>1, Invariance, PTL

\* pglockr_actions_total and the table agree in every life of the process.
THEOREM Balanced == Spec => []ActionsCounted
  <1>1. IInv => ActionsCounted BY DEF IInv
  <1> QED BY <1>1, Invariance, PTL

\* Memory.Record keeps what the abstract window keeps.
LEMMA KeepIsNewest ==
    ASSUME NEW S, NEW q \in Seq(S)
    PROVE  Keep(q) = Window!Newest(q)
  <1> USE CapPositive
  <1>1. CASE Len(q) <= Cap BY <1>1 DEF Keep, Window!Newest
  <1>2. CASE Len(q) > Cap
    <2>1. SubSeq(q, Len(q) - Cap + 1, Len(q)) = [i \in 1..Cap |-> q[i + Len(q) - Cap]]
      BY <1>2
    <2> QED BY <1>2, <2>1 DEF Keep, Window!Newest
  <1> QED BY <1>1, <1>2

\* The table only grows at its end; the memory sink implements the sliding window of
\* the last Cap entries, and a restart of the process its restart.
THEOREM KeepsOrder == Spec => TrailKeepsOrder
  <1> DEFINE shadow == IF durable THEN << >> ELSE trail
  <1>1. Init => Window!Init BY DEF Init, Window!Init
  <1>2. IInv /\ [Next]_vars => [Window!Next]_shadow /\ [durable => IsPrefix(trail, trail')]_vars
    <2> SUFFICES ASSUME IInv, [Next]_vars
                 PROVE  /\ Window!Next \/ shadow' = shadow
                        /\ durable => IsPrefix(trail, trail')
      OBVIOUS
    <2>t. trail \in Seq(Entry) BY Bounded DEF TypeOK
    <2>1. CASE trail' = trail /\ durable' = durable
      BY <2>1, <2>t DEF IsPrefix
    <2>2. CASE Restart
      BY <2>2, <2>t DEF Restart, IsPrefix, Window!Next, Window!Restart
    <2>3. ASSUME NEW r \in Reqs, Record(r)
          PROVE  /\ Window!Next \/ shadow' = shadow
                 /\ durable => IsPrefix(trail, trail')
      <3>1. EntryOf(r) \in Entry
        <4>1. req[r] \in ReqType BY DEF IInv, Inv, Typed
        <4>2. req[r].at # 0 BY <2>3 DEF IInv, Inv, Progress, Record, Typed
        <4>3. req[r].at \in 1..Cardinality(Reqs) BY <4>2, Bounded
        <4> QED BY <4>1, <4>3 DEF ReqType, Entry, EntryOf
      <3>2. trail' = Stored(EntryOf(r)) /\ durable' = durable BY <2>3 DEF Record, procVars
      <3>3. CASE durable
        <4>1. trail' = Append(trail, EntryOf(r)) BY <3>2, <3>3 DEF Stored
        <4>2. IsPrefix(trail, trail') BY <4>1, <3>1, <2>t DEF IsPrefix
        <4> QED BY <4>2, <3>2, <3>3
      <3>4. CASE ~durable
        <4>1. trail' = Window!Newest(Append(trail, EntryOf(r)))
          <5>1. Append(trail, EntryOf(r)) \in Seq(Entry) BY <3>1, <2>t
          <5>2. Keep(Append(trail, EntryOf(r))) = Window!Newest(Append(trail, EntryOf(r)))
            BY <5>1, KeepIsNewest
          <5> QED BY <3>2, <3>4, <5>2 DEF Stored
        <4>2. Window!Put(EntryOf(r)) BY <4>1, <3>2, <3>4 DEF Window!Put
        <4> QED BY <3>1, <3>4, <4>2 DEF Window!Next
      <3> QED BY <3>3, <3>4
    <2> QED
      BY <2>1, <2>2, <2>3 DEF Next, Do, Return, Poll, Shutdown, Exit, Begin, CallReturns, Lookup,
                              RecordFails, Answer, vars, procVars
  <1> QED BY <1>1, <1>2, Invariance, PTL DEF Spec, TrailKeepsOrder, Window!Spec
-----------------------------------------------------------------------------
(* The trail as the API shows it *)

\* R is a strict total order on S.
Orders(R, S) == /\ \A x \in S : <<x, x>> \notin R
                /\ \A x, y \in S : x # y => <<x, y>> \in R \/ <<y, x>> \in R
                /\ \A x, y, z \in S : <<x, y>> \in R /\ <<y, z>> \in R => <<x, z>> \in R

\* InOrder lists a finite set: every member once, in the order given.  Two members
\* never have equally many before them, so with n members there is one for each of
\* the numbers from 0 to n - 1.
LEMMA InOrderLists ==
    ASSUME NEW S, IsFiniteSet(S), NEW R, Orders(R, S)
    PROVE  /\ Cardinality(S) \in Nat
           /\ InOrder(S, R) \in [1..Cardinality(S) -> S]
           /\ \A k, m \in 1..Cardinality(S) :
                 k < m => <<InOrder(S, R)[k], InOrder(S, R)[m]>> \in R
           /\ \A x \in S : \E k \in 1..Cardinality(S) : InOrder(S, R)[k] = x
<1> DEFINE n == Cardinality(S)
           before(x) == {y \in S : <<y, x>> \in R}
           T == 0..n-1
           f == [x \in S |-> Cardinality(before(x))]
           s == InOrder(S, R)
<1>1. n \in Nat BY FS_CardinalityType
<1>2. ASSUME NEW x \in S PROVE IsFiniteSet(before(x)) /\ Cardinality(before(x)) \in T
  <2>1. before(x) \in SUBSET S /\ x \notin before(x) BY DEF Orders
  <2>2. IsFiniteSet(before(x)) /\ Cardinality(before(x)) <= n /\ Cardinality(before(x)) # n
    BY <2>1, FS_Subset
  <2>3. Cardinality(before(x)) \in Nat BY <2>2, FS_CardinalityType
  <2> QED BY <1>1, <2>2, <2>3
<1>3. ASSUME NEW x \in S, NEW y \in S, <<x, y>> \in R PROVE f[x] < f[y]
  <2>1. before(x) \in SUBSET before(y) /\ x \in before(y) /\ x \notin before(x)
    BY <1>3 DEF Orders
  <2>2. IsFiniteSet(before(y)) /\ Cardinality(before(x)) \in Nat /\ Cardinality(before(y)) \in Nat
    <3>1. \A z \in S : IsFiniteSet(before(z)) /\ Cardinality(before(z)) \in T BY <1>2
    <3>2. T \subseteq Nat BY <1>1
    <3> HIDE DEF before, T
    <3> QED BY <3>1, <3>2
  <2>3. /\ Cardinality(before(x)) <= Cardinality(before(y))
        /\ Cardinality(before(x)) # Cardinality(before(y))
    <3> HIDE DEF before
    <3> QED BY <2>1, <2>2, FS_Subset
  <2>4. f[x] = Cardinality(before(x)) /\ f[y] = Cardinality(before(y)) OBVIOUS
  <2> HIDE DEF before, f
  <2> QED BY <2>2, <2>3, <2>4
<1>4. f \in [S -> T]
  <2>1. \A x \in S : Cardinality(before(x)) \in T BY <1>2
  <2> HIDE DEF before, T
  <2> QED BY <2>1
<1>5. \A x, y \in S : f[x] = f[y] => x = y
  <2> SUFFICES ASSUME NEW x \in S, NEW y \in S, x # y PROVE f[x] # f[y] OBVIOUS
  <2>1. f[x] \in Nat /\ f[y] \in Nat
    <3> HIDE DEF f
    <3> QED BY <1>1, <1>4
  <2>2. f[x] < f[y] \/ f[y] < f[x]
    <3>1. <<x, y>> \in R \/ <<y, x>> \in R BY DEF Orders
    <3> HIDE DEF f
    <3> QED BY <1>3, <3>1
  <2> HIDE DEF f
  <2> QED BY <2>1, <2>2
<1>6. IsFiniteSet(T) /\ Cardinality(T) = n BY <1>1, FS_Interval
<1>7. f \in Surjection(S, T)
  <2> HIDE DEF f, T
  <2>1. f \in Injection(S, T) BY <1>4, <1>5, Fun_IsInj
  <2> QED BY <2>1, <1>6, FS_Injection
<1>8. \A t \in T : \E x \in S : f[x] = t
  <2> HIDE DEF f, T
  <2> QED BY <1>7, Fun_SurjectionProperties
<1>9. \A k \in 1..n : s[k] \in S /\ f[s[k]] = k - 1
  <2> SUFFICES ASSUME NEW k \in 1..n PROVE s[k] \in S /\ f[s[k]] = k - 1 OBVIOUS
  <2>1. k - 1 \in T BY <1>1
  <2>2. \E x \in S : Cardinality(before(x)) = k - 1 BY <2>1, <1>8
  <2>3. s[k] = CHOOSE x \in S : Cardinality(before(x)) = k - 1 BY DEF InOrder
  <2> HIDE DEF before, s
  <2>4. s[k] \in S /\ Cardinality(before(s[k])) = k - 1 BY <2>2, <2>3
  <2> QED BY <2>4
<1>10. s \in [1..n -> S]
  <2> DEFINE g(k) == CHOOSE x \in S : Cardinality(before(x)) = k - 1
  <2>1. s = [k \in 1..n |-> g(k)] BY DEF InOrder
  <2> HIDE DEF g, s
  <2> QED BY <2>1, <1>9
<1>11. ASSUME NEW k \in 1..n, NEW m \in 1..n, k < m PROVE <<s[k], s[m]>> \in R
  <2>1. s[k] \in S /\ s[m] \in S /\ f[s[k]] = k - 1 /\ f[s[m]] = m - 1 BY <1>9
  <2> HIDE DEF s, f
  <2>2. s[k] # s[m] BY <1>11, <2>1
  <2>3. <<s[m], s[k]>> \notin R
    <3> SUFFICES ASSUME <<s[m], s[k]>> \in R PROVE FALSE OBVIOUS
    <3>1. f[s[m]] < f[s[k]] BY <2>1, <1>3
    <3>2. k \in Nat /\ m \in Nat BY <1>1
    <3> QED BY <1>11, <2>1, <3>1, <3>2
  <2> QED BY <2>1, <2>2, <2>3 DEF Orders
<1>12. ASSUME NEW x \in S PROVE \E k \in 1..n : s[k] = x
  <2> HIDE DEF s, f
  <2>1. f[x] \in T BY <1>4
  <2>2. PICK k \in 1..n : k - 1 = f[x]
    <3>1. f[x] + 1 \in 1..n /\ (f[x] + 1) - 1 = f[x] BY <1>1, <2>1
    <3> QED BY <3>1
  <2>3. s[k] \in S /\ f[s[k]] = f[x] BY <1>9, <2>2
  <2> QED BY <1>5, <2>3
<1> QED
  <2> HIDE DEF s
  <2> QED BY <1>1, <1>10, <1>11, <1>12 DEF s

\* ORDER BY at DESC, id DESC is a strict total order on the rows.
LEMMA ByTimeOrders ==
    ASSUME Typed, NEW rows, rows = 1..Len(trail)
    PROVE  Orders({x \in rows \X rows : ByTime(x[1], x[2])}, rows)
<1> DEFINE R == {x \in rows \X rows : ByTime(x[1], x[2])}
<1>1. \A i \in rows : i \in Nat /\ trail[i].at \in Nat
  <2>1. \A i \in rows : trail[i] \in EntryType BY DEF Typed
  <2> QED BY <2>1 DEF Typed, EntryType
<1>2. \A i, j \in rows :
          <<i, j>> \in R <=> \/ trail[i].at > trail[j].at
                             \/ trail[i].at = trail[j].at /\ i > j
  BY DEF ByTime
<1> HIDE DEF R
<1>3. \A i, j \in rows : i # j => <<i, j>> \in R \/ <<j, i>> \in R BY <1>1, <1>2
<1>4. \A i, j, k \in rows : <<i, j>> \in R /\ <<j, k>> \in R => <<i, k>> \in R BY <1>1, <1>2
<1>5. \A i \in rows : <<i, i>> \notin R BY <1>1, <1>2
<1>6. Orders(R, rows) BY <1>3, <1>4, <1>5 DEF Orders
<1> QED BY <1>6 DEF R

\* What SQLite.Recent answers, for any limit: rows in the order of time, and the rows
\* it leaves out are no newer than any it returns.
LEMMA RecentIs ==
    ASSUME Typed, NEW limit \in Int
    PROVE  LET out == RecentSQLite(limit)
           IN  /\ \A i, j \in 1..Len(out) : i < j => out[i].at >= out[j].at
               /\ \A i \in 1..Len(trail), k \in 1..Len(out) :
                     trail[i] \notin Range(out) => trail[i].at <= out[k].at
<1> DEFINE n == Len(trail)
           rows == 1..n
           R == {x \in rows \X rows : ByTime(x[1], x[2])}
           ids == InOrder(rows, R)
           m == IF limit <= 0 \/ limit > SQLiteMax THEN SQLiteMax ELSE limit
           z == Min({m, n})
           out == RecentSQLite(limit)
<1>1. n \in Nat /\ m \in Nat BY DEF Typed, SQLiteMax
<1>2. z \in 0..n
  <2>1. \E x \in {m, n} : \A y \in {m, n} : x =< y
    <3> HIDE DEF m, n
    <3> QED BY <1>1
  <2>2. z \in {m, n} /\ z =< n
    <3> HIDE DEF m, n
    <3> QED BY <2>1 DEF Min
  <2> QED BY <1>1, <2>2
<1>3. out = [k \in 1..z |-> trail[ids[k]]] BY DEF RecentSQLite
<1>4. IsFiniteSet(rows) /\ Cardinality(rows) = n
  <2> HIDE DEF n
  <2>1. 1 \in Int /\ n \in Int /\ (IF 1 > n THEN 0 ELSE n - 1 + 1) = n BY <1>1
  <2> QED BY <2>1, FS_Interval
<1>5. Orders(R, rows) BY ByTimeOrders
<1>6. /\ \A k \in 1..n : ids[k] \in rows
      /\ \A k, l \in 1..n : k < l => <<ids[k], ids[l]>> \in R
      /\ \A i \in rows : \E k \in 1..n : ids[k] = i
  <2> HIDE DEF n, rows, R
  <2> QED BY <1>4, <1>5, InOrderLists
<1>7. \A i, j \in rows : <<i, j>> \in R => trail[i].at >= trail[j].at
  <2>1. \A i \in rows : trail[i].at \in Nat
    <3>1. \A i \in rows : trail[i] \in EntryType BY DEF Typed
    <3> QED BY <3>1 DEF EntryType
  <2>2. \A i, j \in rows : <<i, j>> \in R => \/ trail[i].at > trail[j].at
                                             \/ trail[i].at = trail[j].at
    BY DEF ByTime
  <2> HIDE DEF R, rows
  <2> QED BY <2>1, <2>2
<1> HIDE DEF n, rows, R, ids, m, z, out
<1>8. DOMAIN out = 1..z /\ Len(out) = z /\ \A k \in 1..z : out[k] = trail[ids[k]]
  BY <1>1, <1>2, <1>3
<1>9. \A k \in 1..z : k \in 1..n BY <1>1, <1>2
<1>10. ASSUME NEW i \in 1..z, NEW j \in 1..z, i < j PROVE out[i].at >= out[j].at
  BY <1>6, <1>7, <1>8, <1>9, <1>10
<1>11. ASSUME NEW i \in rows, NEW k \in 1..z, trail[i] \notin Range(out)
       PROVE  trail[i].at <= out[k].at
  <2>1. PICK l \in 1..n : ids[l] = i BY <1>6
  <2>2. l \notin 1..z BY <1>8, <1>11, <2>1 DEF Range
  <2>3. k < l BY <1>1, <1>2, <2>2
  <2>4. <<ids[k], i>> \in R /\ ids[k] \in rows BY <1>6, <1>9, <2>1, <2>3
  <2>5. trail[ids[k]].at >= trail[i].at BY <1>7, <2>4
  <2>6. out[k].at >= trail[i].at BY <1>8, <2>5
  <2> QED BY <2>6
<1> QED BY <1>8, <1>10, <1>11 DEF rows, n, out

\* The table answers newest first, and what the limit cuts off is no newer than what
\* it returns, whichever order concurrent requests recorded in.
THEOREM NewestFirst == Spec => []RecentNewestFirst
<1>1. IInv => RecentNewestFirst
  <2> SUFFICES ASSUME IInv, durable, NEW limit \in 0..Cardinality(Reqs) + 1
               PROVE  LET out == Recent(limit)
                      IN  /\ \A i, j \in 1..Len(out) : i < j => out[i].at >= out[j].at
                          /\ \A i \in 1..Len(trail), k \in 1..Len(out) :
                                trail[i] \notin Range(out) => trail[i].at <= out[k].at
    BY DEF RecentNewestFirst
  <2>1. limit \in Int BY ReqsFinite, FS_CardinalityType
  <2>2. Recent(limit) = RecentSQLite(limit) BY DEF Recent
  <2> QED BY <2>1, <2>2, RecentIs DEF IInv, Inv
<1> QED BY <1>1, Invariance, PTL
=============================================================================
