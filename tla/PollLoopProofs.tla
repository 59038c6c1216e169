--------------------------- MODULE PollLoopProofs ---------------------------
(***************************************************************************)
(* PollLoop: its pacing, its status and its end, for all intervals, caps   *)
(* and poll lengths; the same within the life of the process that Startup  *)
(* models, and what that process says and returns.                         *)
(***************************************************************************)
EXTENDS Startup, FiniteSetTheorems, FunctionTheorems, TLAPS

\* The backoff stays between the interval and the longest pause.
BackoffBounded == interval <= backoff /\ backoff <= Greater(interval, MaxBackoff)

\* The pause that is running makes up the interval, and is no longer than the
\* longest pause.
NapBounded == pc = "asleep" => /\ length + nap >= interval
                               /\ nap <= Greater(interval, MaxBackoff)

\* A poll succeeds after the cancellation only if it started before; what
\* follows it starts under the cancelled context.
LateOnce == /\ ~ctxDone => late = 0 /\ ~doomed
            /\ late > 0 /\ pc = "poll" => doomed
            /\ doomed => ctxDone

Inv == /\ TypeOK /\ BackoffBounded /\ NapBounded /\ LateOnce
       /\ PollsSpaced /\ StatusHonest /\ OneLatePoll

\* What doubling does: it goes up, by at most a factor, to the cap.
LEMMA NextBackoffBounds ==
    ASSUME NEW b \in Nat \ {0}, NEW i \in Nat \ {0}, i <= b, b <= Greater(i, MaxBackoff)
    PROVE  /\ NextBackoff(b) \in Nat \ {0}
           /\ i <= NextBackoff(b) /\ NextBackoff(b) <= Greater(i, MaxBackoff)
BY MaxBackoffAssumption DEF NextBackoff, Greater, Lesser

\* A loop that has not polled yet satisfies the invariant.
LEMMA InvInit == Init => Inv
<1> SUFFICES ASSUME Init PROVE Inv
  OBVIOUS
<1> USE IntervalsAssumption, MaxBackoffAssumption, MaxPollAssumption, FailsCapAssumption DEF Init
<1>1. TypeOK
  <2>1. /\ ctxDone \in BOOLEAN /\ doomed \in BOOLEAN /\ connected \in BOOLEAN
        /\ hasError \in BOOLEAN /\ lastOK \in BOOLEAN
    BY Zenon
  <2> QED
    BY <2>1 DEF TypeOK
<1>2. BackoffBounded /\ NapBounded /\ LateOnce /\ PollsSpaced /\ OneLatePoll
  BY DEF BackoffBounded, NapBounded, LateOnce, PollsSpaced, OneLatePoll, Greater
<1>3. StatusHonest
  BY DEF StatusHonest
<1> QED
  BY <1>1, <1>2, <1>3 DEF Inv

\* Every step of Run, its polls, failures and sleeps, keeps the invariant.
LEMMA InvStep == Inv /\ [Next]_vars => Inv'
<1> SUFFICES ASSUME Inv, [Next]_vars PROVE Inv'
  OBVIOUS
<1> USE IntervalsAssumption, MaxBackoffAssumption, MaxPollAssumption, FailsCapAssumption
<1> USE DEF Inv, TypeOK, BackoffBounded, NapBounded, LateOnce, PollsSpaced,
            StatusHonest, OneLatePoll
<1>1. ASSUME NEW n \in 0..MaxPoll, PollOK(n) PROVE Inv'
  <2>1. TypeOK'
    <3>1. (connected \in BOOLEAN /\ hasError \in BOOLEAN /\ lastOK \in BOOLEAN)'
      BY <1>1, Zenon DEF PollOK, SetOK
    <3> QED
      BY <1>1, <3>1 DEF PollOK, Remainder, Greater
  <2>2. (BackoffBounded /\ NapBounded /\ PollsSpaced)'
    BY <1>1 DEF PollOK, Remainder, Greater
  <2>3. (LateOnce /\ OneLatePoll)'
    BY <1>1 DEF PollOK
  <2>4. StatusHonest'
    BY <1>1 DEF PollOK, SetOK
  <2> QED
    BY <2>1, <2>2, <2>3, <2>4
<1>2. ASSUME NEW n \in 0..MaxPoll, PollFails(n) PROVE Inv'
  <2>1. /\ NextBackoff(backoff) \in Nat \ {0}
        /\ interval <= NextBackoff(backoff)
        /\ NextBackoff(backoff) <= Greater(interval, MaxBackoff)
    BY NextBackoffBounds
  <2>2. TypeOK'
    <3>1. (connected \in BOOLEAN /\ hasError \in BOOLEAN /\ lastOK \in BOOLEAN)'
      BY <1>2, Zenon DEF PollFails, SetError
    <3> QED
      BY <1>2, <2>1, <3>1 DEF PollFails, Lesser
  <2>3. (BackoffBounded /\ NapBounded /\ PollsSpaced)'
    BY <1>2, <2>1 DEF PollFails, Greater
  <2>4. (LateOnce /\ OneLatePoll)'
    BY <1>2 DEF PollFails
  <2>5. StatusHonest'
    BY <1>2 DEF PollFails, SetError, Lesser
  <2> QED
    BY <2>2, <2>3, <2>4, <2>5
<1>3. ASSUME NEW n \in 0..MaxPoll, PollCutOff(n) PROVE Inv'
  BY <1>3 DEF PollCutOff
<1>4. CASE Wake
  BY <1>4 DEF Wake, Greater
<1>5. CASE WakeToStop
  BY <1>5 DEF WakeToStop
<1>6. CASE Cancel
  BY <1>6 DEF Cancel
<1>7. CASE UNCHANGED vars
  BY <1>7 DEF vars
<1> QED
  BY <1>1, <1>2, <1>3, <1>4, <1>5, <1>6, <1>7 DEF Next, PollEnds, SleepEnds

\* The invariant holds at every point of the poller's loop.
THEOREM Invariance == Spec => []Inv
BY InvInit, InvStep, PTL DEF Spec

\* Run, poller.go:71: polls start an interval apart at least, and a poll and the
\* longest pause apart at most, for every interval and cap.
THEOREM Spacing == Spec => []PollsSpaced
BY Invariance, PTL DEF Inv

\* setOK and setError, poller.go:122-135: the status is that of the last poll.
THEOREM HonestStatus == Spec => []StatusHonest
BY Invariance, PTL DEF Inv

\* Run and sleep, poller.go:81-107: one poll at most succeeds after the
\* cancellation.
THEOREM LatePolls == Spec => []OneLatePoll
BY Invariance, PTL DEF Inv

-----------------------------------------------------------------------------
(* The backoff *)

\* The provers know nothing of powers but that a set of k elements has 2 ^ k
\* subsets; with one element more it has as many again, those with that element.
LEMMA PowersOfTwo ==
    ASSUME NEW k \in Nat
    PROVE  2 ^ 0 = 1 /\ 2 ^ k \in Nat \ {0} /\ 2 ^ (k + 1) = 2 * 2 ^ k
<1> DEFINE S == 1..k
           T == 1..k+1
           A == SUBSET S
           B == (SUBSET T) \ A
           f == [X \in A |-> X \cup {k + 1}]
<1>1. /\ IsFiniteSet(S) /\ Cardinality(S) = k /\ IsFiniteSet(T) /\ Cardinality(T) = k + 1
  BY FS_Interval
<1>2. /\ IsFiniteSet(A) /\ Cardinality(A) = 2 ^ k /\ IsFiniteSet(SUBSET T)
      /\ Cardinality(SUBSET T) = 2 ^ (k + 1)
  BY <1>1, FS_SUBSET
<1>3. f \in Bijection(A, B)
  <2>1. T = S \cup {k + 1} /\ k + 1 \notin S
    OBVIOUS
  <2> HIDE DEF S, T
  <2>2. f \in [A -> B]
    BY <2>1
  <2>3. \A X, Y \in A : f[X] = f[Y] => X = Y
    BY <2>1
  <2>4. ASSUME NEW Y \in B PROVE \E X \in A : f[X] = Y
    <3>1. k + 1 \in Y
      BY <2>1
    <3>2. Y \ {k + 1} \in A /\ (Y \ {k + 1}) \cup {k + 1} = Y
      BY <2>1, <3>1
    <3> QED
      BY <3>2
  <2> HIDE DEF A, B, f
  <2>5. f \in Injection(A, B)
    BY <2>2, <2>3, Fun_IsInj
  <2>6. f \in Surjection(A, B)
    BY <2>2, <2>4, Fun_IsSurj
  <2> QED
    BY <2>5, <2>6, Fun_IsBij
<1>4. IsFiniteSet(B) /\ Cardinality(B) = 2 ^ k
  <2> HIDE DEF A, B, f
  <2> QED
    BY <1>2, <1>3, FS_Bijection DEF ExistsBijection
<1>5. (SUBSET T) \cap A = A
  OBVIOUS
<1>6. 2 ^ k \in Nat /\ 2 ^ (k + 1) \in Nat
  BY <1>2, FS_CardinalityType
<1>7. Cardinality((SUBSET T) \ A) = Cardinality(SUBSET T) - Cardinality((SUBSET T) \cap A)
  <2> HIDE DEF A, T
  <2> QED
    BY <1>2, FS_Difference
<1>8. 2 ^ k = 2 ^ (k + 1) - 2 ^ k
  BY <1>2, <1>4, <1>5, <1>7, Zenon
<1>9. 2 ^ k # 0
  BY <1>2, FS_EmptySet
<1>10. 2 ^ 0 = 1
  <2>1. Cardinality(SUBSET {}) = 2 ^ 0
    BY FS_EmptySet, FS_SUBSET
  <2>2. SUBSET {} = {{}}
    OBVIOUS
  <2> QED BY <2>1, <2>2, FS_Singleton
<1> QED
  BY <1>6, <1>8, <1>9, <1>10

\* The pause that the next failure leads to: the interval doubled once for every
\* failure so far, up to the cap, and the cap is reached before the count is.
BackoffIs == backoff = IF interval >= MaxBackoff THEN interval
                       ELSE Lesser(interval * 2 ^ fails, MaxBackoff)

\* Doubling once more, or having doubled often enough.
LEMMA DoublingIsPower ==
    ASSUME NEW j \in Nat \ {0}, j < MaxBackoff, NEW k \in 0..FailsCap
    PROVE  /\ NextBackoff(Lesser(j * 2 ^ k, MaxBackoff)) =
                  Lesser(j * 2 ^ Lesser(k + 1, FailsCap), MaxBackoff)
           /\ Lesser(j * 2 ^ k, MaxBackoff) =
                  Lesser(j * 2 ^ (Lesser(k + 1, FailsCap) - 1), MaxBackoff)
<1> USE MaxBackoffAssumption, FailsCapAssumption
<1> DEFINE p == 2 ^ k
<1>1. p \in Nat \ {0} /\ 2 ^ (k + 1) = 2 * p
  BY PowersOfTwo
<1>2. CASE k < FailsCap
  <2>1. Lesser(k + 1, FailsCap) = k + 1 /\ Lesser(k + 1, FailsCap) - 1 = k
    BY <1>2 DEF Lesser
  <2> HIDE DEF p
  <2>2. j * p \in Nat /\ j * (2 * p) = 2 * (j * p)
    BY <1>1
  <2>3. NextBackoff(Lesser(j * p, MaxBackoff)) = Lesser(2 * (j * p), MaxBackoff)
    BY <2>2 DEF NextBackoff, Lesser
  <2> QED
    BY <1>1, <2>1, <2>2, <2>3 DEF p
<1>3. CASE k = FailsCap
  <2> DEFINE h == 2 ^ (k - 1)
  <2>1. Lesser(k + 1, FailsCap) = k /\ Lesser(k + 1, FailsCap) - 1 = k - 1
    BY <1>3 DEF Lesser
  <2>2. h >= MaxBackoff /\ h \in Nat \ {0} /\ p = 2 * h
    <3>1. k - 1 \in Nat /\ (k - 1) + 1 = k
      BY <1>3
    <3> QED
      BY <1>3, <3>1, FailsCapEnough, PowersOfTwo
  <2> HIDE DEF p, h
  <2>3. /\ j * h \in Nat /\ j * h >= MaxBackoff
        /\ j * p \in Nat /\ j * p >= MaxBackoff
    BY <2>2
  <2>4. Lesser(j * h, MaxBackoff) = MaxBackoff /\ Lesser(j * p, MaxBackoff) = MaxBackoff
    BY <2>3 DEF Lesser
  <2> QED
    BY <2>1, <2>4 DEF NextBackoff, p, h
<1> QED
  BY <1>2, <1>3

\* The law goes with what the backoff is.
LEMMA BackoffStep ==
    Inv /\ BackoffIs /\ BackoffLaw /\ [Next]_vars => (BackoffIs /\ BackoffLaw)'
<1> SUFFICES ASSUME Inv, BackoffIs, BackoffLaw, [Next]_vars PROVE (BackoffIs /\ BackoffLaw)'
  OBVIOUS
<1> USE IntervalsAssumption, MaxBackoffAssumption, FailsCapAssumption
<1>0. interval \in Nat \ {0} /\ fails \in 0..FailsCap
  BY DEF Inv, TypeOK
<1>1. ASSUME NEW n \in 0..MaxPoll, PollOK(n) PROVE (BackoffIs /\ BackoffLaw)'
  <2>1. 2 ^ 0 = 1
    BY PowersOfTwo
  <2>2. interval * 1 = interval
    BY <1>0
  <2>3. backoff' = interval /\ interval' = interval /\ fails' = 0 /\ lastOK' = TRUE
    BY <1>1 DEF PollOK
  <2> QED
    BY <1>0, <2>1, <2>2, <2>3 DEF BackoffIs, BackoffLaw, Lesser
<1>2. ASSUME NEW n \in 0..MaxPoll, PollFails(n) PROVE (BackoffIs /\ BackoffLaw)'
  <2>1. /\ backoff' = NextBackoff(backoff) /\ interval' = interval /\ nap' = backoff
        /\ fails' = Lesser(fails + 1, FailsCap)
    BY <1>2 DEF PollFails
  <2>2. CASE interval < MaxBackoff
    <3>1. backoff = Lesser(interval * 2 ^ fails, MaxBackoff)
      BY <1>0, <2>2 DEF BackoffIs
    <3>2. /\ NextBackoff(Lesser(interval * 2 ^ fails, MaxBackoff)) =
                Lesser(interval * 2 ^ Lesser(fails + 1, FailsCap), MaxBackoff)
          /\ Lesser(interval * 2 ^ fails, MaxBackoff) =
                Lesser(interval * 2 ^ (Lesser(fails + 1, FailsCap) - 1), MaxBackoff)
      BY <1>0, <2>2, DoublingIsPower
    <3>3. backoff' = Lesser(interval' * 2 ^ fails', MaxBackoff)
      BY <2>1, <3>1, <3>2, Zenon
    <3>4. nap' = Lesser(interval' * 2 ^ (fails' - 1), MaxBackoff)
      BY <2>1, <3>1, <3>2, Zenon
    <3>5. ~(interval' >= MaxBackoff)
      BY <1>0, <2>1, <2>2
    <3> QED
      BY <3>3, <3>4, <3>5, Zenon DEF BackoffIs, BackoffLaw
  <2>3. CASE interval >= MaxBackoff
    BY <1>0, <2>1, <2>3 DEF BackoffIs, BackoffLaw, NextBackoff
  <2> QED
    BY <1>0, <2>2, <2>3
<1>3. ASSUME UNCHANGED <<interval, backoff, nap, lastOK, fails>>,
             pc' = "asleep" => pc = "asleep"
      PROVE  (BackoffIs /\ BackoffLaw)'
  BY <1>3, Zenon DEF BackoffIs, BackoffLaw
<1>4. ASSUME (\E n \in 0..MaxPoll : PollCutOff(n)) \/ Wake \/ WakeToStop \/ Cancel \/ UNCHANGED vars
      PROVE  /\ UNCHANGED <<interval, backoff, nap, lastOK, fails>>
             /\ pc' = "asleep" => pc = "asleep"
  BY <1>4 DEF PollCutOff, Wake, WakeToStop, Cancel, vars
<1> QED
  BY <1>1, <1>2, <1>3, <1>4 DEF Next, PollEnds, SleepEnds

\* It holds before the first poll.
LEMMA BackoffInit == Init => BackoffIs /\ BackoffLaw
<1> SUFFICES ASSUME Init PROVE BackoffIs /\ BackoffLaw
  OBVIOUS
<1>1. interval \in Nat \ {0} /\ interval * 1 = interval /\ 2 ^ 0 = 1
  BY IntervalsAssumption, PowersOfTwo DEF Init
<1> QED
  BY <1>1, MaxBackoffAssumption DEF Init, BackoffIs, BackoffLaw, Lesser

\* Run, poller.go:81-97: the k-th failure in a row is followed by a pause of the
\* interval doubled k - 1 times, up to the cap, for every interval and cap.
THEOREM Backoff == Spec => []BackoffLaw
BY BackoffInit, Invariance, BackoffStep, PTL DEF Spec

-----------------------------------------------------------------------------
(* The loop within the process *)

\* What preflight printed is still what the role lacks: nobody grants while the
\* process runs.
AdviceIsCurrent ==
    advice = Unknown \/ advice = Remediation(~CanReadStats(grants), ~CanSignal(grants))

\* Shutdown is called for a signal only, and run returns without an error for
\* Shutdown only.
ReturnsForSignal == main = "return" /\ ~exitErr => ctxDone
ShutForSignal == shut => ctxDone

StartupInv == Inv /\ BackoffIs /\ BackoffLaw /\ AdviceIsCurrent /\ ReturnsForSignal /\ ShutForSignal

\* A step of the process is one of the loop, or starts the loop, or ends it, or
\* begins it anew, or is not the loop's business.
LEMMA StartupSteps ==
    ASSUME [StartupNext]_allVars
    PROVE  [Next]_vars \/ GoRun \/ Exit \/ Again
<1>1. CASE Loop
  BY <1>1 DEF Loop, Next, PollEnds
<1>2. CASE Signal
  BY <1>2 DEF Signal, Next
<1>3. CASE UNCHANGED allVars
  BY <1>3 DEF allVars
<1>4. ASSUME \/ Connect \/ ConnectFails \/ Preflight \/ PreflightFails \/ Open \/ OpenFails
             \/ Assemble \/ AssembleFails \/ Listen \/ ListenFails \/ ServeReturns
             \/ CloseDB \/ ClosePool \/ PoolClosed \/ CallShutdown
      PROVE  UNCHANGED vars
  BY <1>4 DEF Connect, ConnectFails, Preflight, PreflightFails, Open, OpenFails, Assemble,
              AssembleFails, Listen, ListenFails, ServeReturns, CloseDB, ClosePool, PoolClosed,
              CallShutdown
<1> QED
  BY <1>1, <1>2, <1>3, <1>4 DEF StartupNext, Run

\* The loop's invariant survives the start, the end and the next life.
LEMMA LoopInProcess == Inv /\ [StartupNext]_allVars => Inv'
<1> SUFFICES ASSUME Inv, [StartupNext]_allVars PROVE Inv'
  OBVIOUS
<1> USE IntervalsAssumption, MaxBackoffAssumption, MaxPollAssumption, FailsCapAssumption
<1> USE DEF Inv, TypeOK, BackoffBounded, NapBounded, LateOnce, PollsSpaced,
            StatusHonest, OneLatePoll
<1>1. CASE [Next]_vars
  BY <1>1, InvStep
<1>2. CASE GoRun
  BY <1>2 DEF GoRun
<1>3. CASE Exit
  BY <1>3 DEF Exit
<1>4. CASE Again
  <2>1. (ctxDone \in BOOLEAN /\ doomed \in BOOLEAN /\ connected \in BOOLEAN
         /\ hasError \in BOOLEAN /\ lastOK \in BOOLEAN)'
    BY <1>4, Zenon DEF Again
  <2> QED
    BY <1>4, <2>1 DEF Again, Greater
<1> QED
  BY <1>1, <1>2, <1>3, <1>4, StartupSteps

\* So does the law of its backoff: a new life counts from no failures.
LEMMA BackoffInProcess ==
    Inv /\ BackoffIs /\ BackoffLaw /\ [StartupNext]_allVars => (BackoffIs /\ BackoffLaw)'
<1> SUFFICES ASSUME Inv, BackoffIs, BackoffLaw, [StartupNext]_allVars
             PROVE  (BackoffIs /\ BackoffLaw)'
  OBVIOUS
<1>1. CASE [Next]_vars
  BY <1>1, BackoffStep
<1>2. CASE GoRun \/ Exit
  <2>1. UNCHANGED <<interval, backoff, nap, lastOK, fails>> /\ (pc' = "asleep" => pc = "asleep")
    BY <1>2 DEF GoRun, Exit
  <2> QED
    BY <2>1, Zenon DEF BackoffIs, BackoffLaw
<1>3. CASE Again
  <2>1. interval \in Nat \ {0} /\ interval * 1 = interval /\ 2 ^ 0 = 1
    BY IntervalsAssumption, PowersOfTwo DEF Inv, TypeOK
  <2> QED
    BY <1>3, <2>1, MaxBackoffAssumption DEF Again, BackoffIs, BackoffLaw, Lesser
<1> QED
  BY <1>1, <1>2, <1>3, StartupSteps

\* Only preflight gives advice, and only between two lives of the process do the
\* grants change.
LEMMA AdviceStep == AdviceIsCurrent /\ [StartupNext]_allVars => AdviceIsCurrent'
<1> SUFFICES ASSUME AdviceIsCurrent, [StartupNext]_allVars PROVE AdviceIsCurrent'
  OBVIOUS
<1> USE DEF AdviceIsCurrent
<1>1. CASE Preflight
  BY <1>1 DEF Preflight, CanReadStats, CanSignal, HasRole
<1>2. CASE Again
  BY <1>2 DEF Again
<1>3. ASSUME UNCHANGED roleVars PROVE AdviceIsCurrent'
  BY <1>3 DEF roleVars, CanReadStats, CanSignal, HasRole
<1>4. ASSUME \/ Connect \/ ConnectFails \/ PreflightFails \/ Open \/ OpenFails \/ GoRun
             \/ Assemble \/ AssembleFails \/ Listen \/ ListenFails \/ ServeReturns
             \/ CloseDB \/ ClosePool \/ PoolClosed \/ Exit \/ CallShutdown \/ Loop \/ Signal
             \/ UNCHANGED allVars
      PROVE  UNCHANGED roleVars
  BY <1>4 DEF Connect, ConnectFails, PreflightFails, Open, OpenFails, GoRun, Assemble,
              AssembleFails, Listen, ListenFails, ServeReturns, CloseDB, ClosePool, PoolClosed,
              Exit, CallShutdown, Loop, Signal, allVars
<1> QED
  BY <1>1, <1>2, <1>3, <1>4 DEF StartupNext, Run

\* The context stays cancelled until the process is started again.
LEMMA ReturnStep ==
    ReturnsForSignal /\ ShutForSignal /\ [StartupNext]_allVars => (ReturnsForSignal /\ ShutForSignal)'
<1> SUFFICES ASSUME ReturnsForSignal, ShutForSignal, [StartupNext]_allVars
             PROVE  (ReturnsForSignal /\ ShutForSignal)'
  OBVIOUS
<1> USE DEF ReturnsForSignal, ShutForSignal, serviceVars, runVars, vars
<1>1. CASE Connect \/ ConnectFails \/ Preflight \/ PreflightFails \/ Open \/ OpenFails \/ GoRun
  BY <1>1 DEF Connect, ConnectFails, Preflight, PreflightFails, Open, OpenFails, GoRun, Goto, Fail
<1>2. CASE Assemble \/ AssembleFails \/ Listen \/ ListenFails \/ ServeReturns
  BY <1>2 DEF Assemble, AssembleFails, Listen, ListenFails, ServeReturns, Goto, Fail
<1>3. CASE CloseDB \/ ClosePool \/ PoolClosed \/ Exit \/ CallShutdown
  BY <1>3 DEF CloseDB, ClosePool, PoolClosed, Exit, CallShutdown, Goto
<1>4. CASE Loop
  BY <1>4 DEF Loop, PollOK, PollFails, PollCutOff, SleepEnds, Wake, WakeToStop
<1>5. CASE Signal \/ Again \/ UNCHANGED allVars
  BY <1>5 DEF Signal, Cancel, Again, allVars
<1> QED
  BY <1>1, <1>2, <1>3, <1>4, <1>5 DEF StartupNext, Run

\* The invariant of the process, through any number of starts and ends.
THEOREM StartupInvariance == StartupSpec => []StartupInv
<1>1. StartupInit => StartupInv
  BY InvInit, BackoffInit DEF StartupInit, NoServices, StartupInv, AdviceIsCurrent, ReturnsForSignal,
                 ShutForSignal
<1>2. StartupInv /\ [StartupNext]_allVars => StartupInv'
  BY LoopInProcess, BackoffInProcess, AdviceStep, ReturnStep DEF StartupInv
<1> QED
  BY <1>1, <1>2, PTL DEF StartupSpec

\* run and Run, main.go:160 and poller.go:71: the backoff, the pacing, the status and the
\* one late poll hold in every life of the process, also for a loop that starts under a
\* cancelled context or loses its pool.
THEOREM LoopSafeInProcess ==
    StartupSpec => [](BackoffLaw /\ PollsSpaced /\ StatusHonest /\ OneLatePoll)
<1>1. StartupInv => BackoffLaw /\ PollsSpaced /\ StatusHonest /\ OneLatePoll
  BY DEF StartupInv, Inv
<1> QED
  BY <1>1, StartupInvariance, PTL

\* What the role needs: the texts of others, and their signals.
Able(G) == /\ G \cap {"superuser", "pg_monitor", "pg_read_all_stats"} # {}
           /\ G \cap {"superuser", "pg_signal_backend"} # {}

\* What Capabilities and Remediation say about a set of grants: the advice is empty
\* exactly if nothing is missing, it is enough, and all of it is needed.
LEMMA RemediationIsMinimal ==
    ASSUME NEW G, NEW A, A = Remediation(~CanReadStats(G), ~CanSignal(G))
    PROVE  /\ A = {} <=> Able(G)
           /\ Able(G \cup A)
           /\ \A r \in A : ~Able(G \cup (A \ {r}))
<1> USE DEF Able
<1>1. /\ CanReadStats(G) <=> G \cap {"superuser", "pg_monitor", "pg_read_all_stats"} # {}
      /\ CanSignal(G) <=> G \cap {"superuser", "pg_signal_backend"} # {}
  BY DEF CanReadStats, CanSignal, HasRole
<1>2. \A r : r \in A <=> \/ r = "pg_monitor" /\ ~CanReadStats(G)
                         \/ r = "pg_signal_backend" /\ ~CanSignal(G)
  BY DEF Remediation
<1>3. A = {} <=> Able(G)
  BY <1>1, <1>2
<1>4. Able(G \cup A)
  BY <1>1, <1>2
<1>5. ASSUME NEW r \in A PROVE ~Able(G \cup (A \ {r}))
  BY <1>1, <1>2, <1>5
<1> QED
  BY <1>3, <1>4, <1>5

\* preflight, main.go:271: silent exactly if nothing is missing, and its advice is
\* all that is missing, whatever the grants were and however often it was followed.
THEOREM AdviceSafe == StartupSpec => []AdviceSuffices
<1>1. ASSUME AdviceIsCurrent, advice # Unknown
      PROVE  AdviceSuffices
  <2>1. advice = Remediation(~CanReadStats(grants), ~CanSignal(grants))
    BY <1>1 DEF AdviceIsCurrent
  <2>2. /\ advice = {} <=> Able(grants)
        /\ Able(grants \cup advice)
        /\ \A r \in advice : ~Able(grants \cup (advice \ {r}))
    BY <2>1, RemediationIsMinimal
  <2>3. ASSUME NEW noSignal \in BOOLEAN, grants = RunGrants(noSignal)
        PROVE  advice = RunGrants(FALSE) \ RunGrants(noSignal)
    BY <2>1, <2>3 DEF RunGrants, Script, Remediation, CanReadStats, CanSignal, HasRole
  <2> QED
    BY <2>2, <2>3 DEF AdviceSuffices, Able
<1>2. StartupInv => AdviceSuffices
  BY <1>1 DEF StartupInv, AdviceSuffices
<1> QED
  BY <1>2, StartupInvariance, PTL

\* run, main.go:206: without an error it returns only for a signal, which is the part of
\* SignalEnds that is no matter of fairness.
THEOREM ReturnSafe == StartupSpec => [](main = "return" /\ ~exitErr => ctxDone)
<1>1. StartupInv => (main = "return" /\ ~exitErr => ctxDone)
  BY DEF StartupInv, ReturnsForSignal
<1> QED
  BY <1>1, StartupInvariance, PTL
=============================================================================
