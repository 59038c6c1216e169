------------------------------ MODULE PollLoop ------------------------------
(***************************************************************************)
(* poller.Run: the loop that polls the cluster, with its pacing, its       *)
(* backoff, the Status it publishes and its end at shutdown.  What a       *)
(* successful poll does to the store is LiveStream's; here a poll has an   *)
(* outcome and a length.  Durations are in some common unit of time.       *)
(***************************************************************************)
EXTENDS Integers

CONSTANTS Intervals,  \* the poll intervals considered: config.Load leaves none <= 0
          MaxBackoff, \* maxBackoff of Run
          MaxPoll,    \* bound: longest poll
          FailsCap    \* bound: consecutive failures are counted up to this many

ASSUME IntervalsAssumption == Intervals \subseteq Nat \ {0}
ASSUME MaxBackoffAssumption == MaxBackoff \in Nat \ {0}
ASSUME MaxPollAssumption == MaxPoll \in Nat
ASSUME FailsCapAssumption == FailsCap \in Nat \ {0}
ASSUME FailsCapEnough == 2 ^ (FailsCap - 1) >= MaxBackoff

VARIABLES
    pc,        \* where Run is: "poll", "asleep" or "stopped"
    interval,  \* p.interval
    backoff,   \* backoff, a local of Run
    length,    \* how long the last poll took
    nap,       \* what sleep was last called with
    ctxDone,   \* whether ctx is cancelled
    doomed,    \* whether it was when the current poll started
    connected, \* status.Connected
    hasError,  \* status.LastError # ""
    \* What the properties speak of.
    lastOK,    \* whether the last completed poll succeeded
    fails,     \* failures since the last success, up to FailsCap
    gap,       \* from the start of the poll before to the start of this one
    late       \* polls that succeeded after ctx was cancelled

vars == <<pc, interval, backoff, length, nap, ctxDone, doomed, connected,
          hasError, lastOK, fails, gap, late>>

Lesser(a, b) == IF a < b THEN a ELSE b
Greater(a, b) == IF a < b THEN b ELSE a

TypeOK == /\ pc \in {"poll", "asleep", "stopped"}
          /\ interval \in Intervals /\ backoff \in Nat \ {0}
          /\ length \in 0..MaxPoll /\ nap \in Nat /\ gap \in Nat
          /\ ctxDone \in BOOLEAN /\ doomed \in BOOLEAN /\ connected \in BOOLEAN
          /\ hasError \in BOOLEAN /\ lastOK \in BOOLEAN
          /\ fails \in 0..FailsCap /\ late \in Nat

\* New, and Run up to its loop.  The first poll has none before it: its gap
\* is taken to be the interval.
Init == /\ pc = "poll" /\ interval \in Intervals /\ backoff = interval
        /\ length = 0 /\ nap = 0 /\ ctxDone = FALSE /\ doomed = FALSE
        /\ connected = FALSE /\ hasError = FALSE
        /\ lastOK = FALSE /\ fails = 0 /\ gap = interval /\ late = 0

-----------------------------------------------------------------------------
(* Faulty variants, for the mutants of PROJECT.json *)

\* The doubled backoff capped where the interval is longer.
NextBackoffForced(b) == Lesser(2 * b, MaxBackoff)

\* setOK leaves the last error.
SetOKKeepsError == connected' = TRUE /\ hasError' = hasError

\* The poll taken off the interval twice.
RemainderTwice(n) == Greater(interval - 2 * n, 0)

-----------------------------------------------------------------------------
(* Run *)

SetOK == connected' = TRUE /\ hasError' = FALSE
SetError == connected' = FALSE /\ hasError' = TRUE

\* The backoff after a sleep of b.
NextBackoff(b) == IF b < MaxBackoff THEN Lesser(2 * b, MaxBackoff) ELSE b

\* What is left of the interval after a poll of length n; sleep takes a
\* negative duration as it takes 0.
Remainder(n) == Greater(interval - n, 0)

\* Faulty variant: after a failed poll Run gives up.
PollFailsReturns(n) ==
    /\ pc = "poll" /\ length' = n /\ pc' = "stopped"
    /\ connected' = FALSE /\ hasError' = TRUE
    /\ lastOK' = FALSE /\ fails' = Lesser(fails + 1, FailsCap)
    /\ UNCHANGED <<interval, backoff, nap, ctxDone, doomed, gap, late>>

\* Faulty variant: a failed poll under a cancelled context is retried like any other.
PollCutOffRetries(n) ==
    /\ pc = "poll" /\ ctxDone /\ length' = n /\ SetError
    /\ nap' = backoff /\ pc' = "asleep" /\ backoff' = NextBackoff(backoff)
    /\ lastOK' = FALSE /\ fails' = Lesser(fails + 1, FailsCap)
    /\ UNCHANGED <<interval, ctxDone, doomed, gap, late>>

\* A poll that succeeds.  One started under a cancelled context never does (the
\* pool refuses it); a cancellation that comes later may miss it.
PollOK(n) == /\ pc = "poll" /\ ~doomed
             /\ length' = n /\ SetOK
             /\ backoff' = interval
             /\ nap' = Remainder(n) /\ pc' = "asleep"
             /\ lastOK' = TRUE /\ fails' = 0
             /\ late' = IF ctxDone THEN late + 1 ELSE late
             /\ UNCHANGED <<interval, ctxDone, doomed, gap>>

\* A poll that fails.  The loop ends at once if the context is cancelled, whatever
\* the poll failed of, and the status stays as it was.  The backoff is doubled
\* after the sleep, here with it: nothing else reads it.
PollFails(n) == /\ pc = "poll" /\ ~ctxDone
                /\ length' = n /\ SetError
                /\ nap' = backoff /\ pc' = "asleep"
                /\ backoff' = NextBackoff(backoff)
                /\ lastOK' = FALSE /\ fails' = Lesser(fails + 1, FailsCap)
                /\ UNCHANGED <<interval, ctxDone, doomed, gap, late>>
PollCutOff(n) == /\ pc = "poll" /\ ctxDone
                 /\ length' = n /\ pc' = "stopped"
                 /\ UNCHANGED <<interval, backoff, nap, ctxDone, doomed, connected,
                                hasError, lastOK, fails, gap, late>>

\* sleep returns true.  With a timer it may even if the context is cancelled: the
\* select takes either of two ready cases.  Without one it looks at the context.
Wake == /\ pc = "asleep" /\ (nap > 0 \/ ~ctxDone)
        /\ pc' = "poll" /\ gap' = length + nap /\ doomed' = ctxDone
        /\ UNCHANGED <<interval, backoff, length, nap, ctxDone, connected,
                       hasError, lastOK, fails, late>>

\* sleep returns false.
WakeToStop == /\ pc = "asleep" /\ ctxDone
              /\ pc' = "stopped"
              /\ UNCHANGED <<interval, backoff, length, nap, ctxDone, doomed,
                             connected, hasError, lastOK, fails, gap, late>>

\* SIGINT or SIGTERM.
Cancel == /\ ~ctxDone /\ ctxDone' = TRUE
          /\ UNCHANGED <<pc, interval, backoff, length, nap, doomed, connected,
                         hasError, lastOK, fails, gap, late>>

PollEnds == \E n \in 0..MaxPoll : PollOK(n) \/ PollFails(n) \/ PollCutOff(n)
SleepEnds == Wake \/ WakeToStop
Next == PollEnds \/ SleepEnds \/ Cancel

Spec == Init /\ [][Next]_vars

-----------------------------------------------------------------------------
(* Properties *)

\* The k-th failure in a row is followed by a pause of the interval doubled k - 1
\* times, at most MaxBackoff; an interval beyond MaxBackoff is kept.
BackoffLaw ==
    pc = "asleep" /\ ~lastOK =>
        nap = IF interval >= MaxBackoff THEN interval
              ELSE Lesser(interval * 2 ^ (fails - 1), MaxBackoff)

\* Polls start at least an interval apart, whatever their outcomes and however
\* long they take, and never more than a poll and the longest pause apart.
PollsSpaced == interval <= gap /\ gap <= MaxPoll + Greater(interval, MaxBackoff)

\* What Status says is what the last poll found: connected if it succeeded, an
\* error exactly if it failed.  The poll that shutdown cuts off leaves no trace.
StatusHonest == (connected <=> lastOK) /\ (hasError <=> fails > 0)

\* At most one poll still succeeds (and is stored) after the context is cancelled.
OneLatePoll == late <= 1
=============================================================================
