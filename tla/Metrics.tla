------------------------------ MODULE Metrics ------------------------------
(***************************************************************************)
(* What monitoring sees of the live path: the counters that Poller.Run     *)
(* updates after every poll (Metrics.ObservePoll), and a reader that takes *)
(* the status of the poller first and the latest snapshot next: a scrape   *)
(* of /metrics (liveCollector.Collect), or a client that asks /healthz and *)
(* then for the snapshot.  LiveStream runs on between the two.             *)
(***************************************************************************)
EXTENDS LiveStream

CONSTANT MaxErrors  \* bound: failed polls of one life of the process

ASSUME MaxErrorsAssumption == MaxErrors \in Nat

VARIABLES
    run,         \* Run: "poll", or after pollOnce "ok" (not yet observed), "counted" (a failed
                 \* poll, between the two counters) or "failed" (observed, status not yet set)
    pollsTotal,  \* pglockr_polls_total
    pollErrors,  \* pglockr_poll_errors_total
    reader       \* [by, at, connected, since, snap]: who reads and how far it is, what
                 \* the status said, the poll behind it, and the snapshot

observed == <<run, pollsTotal, pollErrors>>
allVars == <<vars, observed, reader>>

Idle == [by |-> "collect", at |-> "status", connected |-> FALSE, since |-> 0, snap |-> NoSnap]

MetricsTypeOK ==
    /\ TypeOK
    /\ run \in {"poll", "ok", "counted", "failed"}
    /\ pollsTotal \in 0..MaxPolls + MaxErrors /\ pollErrors \in 0..MaxErrors
    /\ reader \in [by : {"collect", "client"}, at : {"status", "latest", "done"},
                   connected : BOOLEAN, since : 0..MaxPolls, snap : 0..MaxPolls]

MetricsInit == /\ Init
               /\ run = "poll" /\ pollsTotal = 0 /\ pollErrors = 0
               /\ reader = Idle

-----------------------------------------------------------------------------
(* Poller.Run around pollOnce *)

\* pollOnce fails, and the observer is told before the status is set.  It counts the
\* poll and the error one after the other; anyone may read the counters in between.
ObserveError == /\ proc = "up" /\ put = "idle" /\ run = "poll" /\ pollErrors < MaxErrors
                /\ pollsTotal' = pollsTotal + 1 /\ UNCHANGED pollErrors
                /\ run' = "counted"
                /\ UNCHANGED <<vars, reader>>

CountError == /\ proc = "up" /\ run = "counted"
              /\ pollErrors' = pollErrors + 1 /\ UNCHANGED pollsTotal
              /\ run' = "failed"
              /\ UNCHANGED <<vars, reader>>

SetError == /\ run = "failed" /\ PollFails
            /\ run' = "poll"
            /\ UNCHANGED <<pollsTotal, pollErrors, reader>>

\* pollOnce succeeds, and has set the status by then.
Succeeds == /\ PutReturns
            /\ run' = "ok"
            /\ UNCHANGED <<pollsTotal, pollErrors, reader>>

ObserveOK == /\ proc = "up" /\ run = "ok" /\ run' = "poll"
             /\ pollsTotal' = pollsTotal + 1 /\ UNCHANGED pollErrors
             /\ UNCHANGED <<vars, reader>>

Starts == /\ run = "poll" /\ PutRing
          /\ UNCHANGED <<observed, reader>>

-----------------------------------------------------------------------------
(* The reader *)

LastEnded == IF put = "idle" THEN polls ELSE polls - 1

ReadStatus(who) == /\ proc = "up" /\ reader.at # "latest"
                   /\ reader' = [by |-> who, at |-> "latest", connected |-> connected,
                                 since |-> IF connected THEN LastEnded ELSE 0, snap |-> NoSnap]
                   /\ UNCHANGED <<vars, observed>>

ReadSnapshot(who) == /\ proc = "up" /\ reader.at = "latest" /\ reader.by = who
                     /\ reader' = [reader EXCEPT !.at = "done",
                                                 !.snap = IF HasLatest THEN Latest ELSE NoSnap]
                     /\ UNCHANGED <<vars, observed>>

CollectStatus == ReadStatus("collect")
CollectLatest == ReadSnapshot("collect")
Healthz == ReadStatus("client")
GetSnapshot == ReadSnapshot("client")

-----------------------------------------------------------------------------

\* A new process, with new counters; requests to the old one are lost.
NewProcess == /\ Restart
              /\ run' = "poll" /\ pollsTotal' = 0 /\ pollErrors' = 0
              /\ reader' = Idle

\* The rest of the live path.
Others == /\ \/ PutSaved \/ Subscribe
             \/ \E c \in Conns : PutSend(c) \/ PutPanics(c) \/ Stream(c) \/ Leave(c)
          /\ UNCHANGED <<observed, reader>>

MetricsNext == \/ ObserveError \/ CountError \/ SetError \/ Starts \/ Succeeds \/ ObserveOK
               \/ CollectStatus \/ CollectLatest \/ Healthz \/ GetSnapshot
               \/ NewProcess \/ Others

MetricsSpec == MetricsInit /\ [][MetricsNext]_allVars /\ PollerFairness

-----------------------------------------------------------------------------
(* Properties *)

\* poller.go:118: the status is set after Put and read before the latest snapshot, so
\* whoever is told connected, by pglockr_connected or by /healthz, is given a snapshot
\* next, at least as new as the poll behind that answer.  Not so the other way round.
\* metrics.go:82: the polls counted less the failed ones are those whose snapshot the
\* process has put.  Whoever reads the counters while a poll is being reported is off by
\* that one: short of it when its snapshot is put and it is not counted yet, and one too
\* many when it has failed and only the first of the two counters is raised.
Reporting == CASE put # "idle" \/ run = "ok" -> 1
               [] run = "counted"             -> -1
               [] OTHER                       -> 0

MonitoringAgrees ==
    /\ reader.at = "done" /\ reader.connected => reader.snap # NoSnap /\ reader.snap >= reader.since
    /\ LET good == pollsTotal - pollErrors + Reporting
       IN  size = IF good < Cap THEN good ELSE Cap
=============================================================================
