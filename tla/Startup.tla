------------------------------ MODULE Startup ------------------------------
(***************************************************************************)
(* run of cmd/pglockr, from the loaded configuration to the end of the     *)
(* process: the services are opened one after the other, the poller        *)
(* (PollLoop) is started, a goroutine waits for the signal to shut the     *)
(* HTTP server down, and the deferred calls close what was opened.         *)
(* Between two runs an operator may follow the advice that preflight       *)
(* prints about the privileges of the role.                                *)
(*                                                                         *)
(* PostgreSQL is external: a role has another's privileges if it is a      *)
(* member of it, directly or not (roles inherit, as CREATE ROLE has it).   *)
(***************************************************************************)
EXTENDS PollLoop

VARIABLES
    main,     \* where run is
    exitErr,  \* whether it is returning an error
    pool,     \* the connection pool: "none", "open", "closing" or "closed"
    db,       \* the history database: "none", "open" or "closed"
    persist,  \* cfg.Persist.Enabled
    started,  \* whether the poller's goroutine runs
    busy,     \* whether a poll uses a connection of a pool that is closing
    watcher,  \* the goroutine that waits for ctx: "none", "waiting" or "done"
    shut,     \* whether Shutdown has been called on the HTTP server
    grants,   \* what the role is a member of, with "superuser" for the attribute
    advice    \* the roles preflight says to grant, Unknown if it has not or could not

serviceVars == <<pool, db, started, busy, watcher, shut>>
runVars == <<main, exitErr, serviceVars, persist>>
roleVars == <<grants, advice>>
allVars == <<vars, runVars, roleVars>>

Unknown == {"unknown"}
Roles == {"pg_monitor", "pg_read_all_stats", "pg_signal_backend"}

StartupTypeOK ==
    /\ TypeOK
    /\ main \in {"connect", "preflight", "open", "poller", "assemble", "listen", "serve",
                 "return", "exited"}
    /\ exitErr \in BOOLEAN /\ persist \in BOOLEAN /\ started \in BOOLEAN /\ busy \in BOOLEAN
    /\ pool \in {"none", "open", "closing", "closed"} /\ db \in {"none", "open", "closed"}
    /\ watcher \in {"none", "waiting", "done"} /\ shut \in BOOLEAN
    /\ grants \subseteq Roles \cup {"superuser"}
    /\ advice = Unknown \/ advice \subseteq Roles

\* The grants of the script that pglockr grants prints.
Script(signal) == IF signal THEN {"pg_monitor", "pg_signal_backend"} ELSE {"pg_monitor"}

NoServices == /\ main = "connect" /\ exitErr = FALSE /\ pool = "none" /\ db = "none"
              /\ started = FALSE /\ busy = FALSE /\ watcher = "none" /\ shut = FALSE
              /\ advice = Unknown

\* pglockr grants, with or without --no-signal.
RunGrants(noSignal) == Script(~noSignal)

\* The role was made by one of the scripts, or by hand.
StartupInit == /\ Init /\ NoServices
               /\ persist \in BOOLEAN
               /\ grants \in {RunGrants(FALSE), RunGrants(TRUE), {}, {"superuser"},
                              {"pg_read_all_stats"}}

-----------------------------------------------------------------------------
(* Privileges *)

\* pg_has_role, by membership of any depth: pg_monitor is a member of pg_read_all_stats.
HasRole(G, r) == r \in G \/ (r = "pg_read_all_stats" /\ "pg_monitor" \in G)

\* Faulty variant: direct membership only.
CanReadStatsDirectly(G) == "superuser" \in G \/ "pg_read_all_stats" \in G

\* Capabilities.
CanReadStats(G) == "superuser" \in G \/ HasRole(G, "pg_read_all_stats")
CanSignal(G) == "superuser" \in G \/ HasRole(G, "pg_signal_backend")

Remediation(needStats, needSignal) ==
    (IF needStats THEN {"pg_monitor"} ELSE {}) \cup (IF needSignal THEN {"pg_signal_backend"} ELSE {})

-----------------------------------------------------------------------------
(* run *)

Goto(place) == main' = place /\ UNCHANGED exitErr
Fail == main' = "return" /\ exitErr' = TRUE

\* Connect closes its pool again if the version cannot be read; under a cancelled
\* context it fails.
Connect == /\ main = "connect" /\ ~ctxDone /\ Goto("preflight")
           /\ pool' = "open"
           /\ UNCHANGED <<vars, db, started, busy, watcher, shut, persist, roleVars>>
ConnectFails == /\ main = "connect" /\ Fail
                /\ UNCHANGED <<vars, serviceVars, persist, roleVars>>

Preflight == /\ main = "preflight" /\ ~ctxDone /\ Goto("open")
             /\ advice' = Remediation(~CanReadStats(grants), ~CanSignal(grants))
             /\ UNCHANGED <<vars, serviceVars, persist, grants>>
PreflightFails == /\ main = "preflight" /\ Goto("open")
                  /\ UNCHANGED <<vars, serviceVars, persist, roleVars>>

\* Open does not look at the context.
Open == /\ main = "open" /\ Goto("poller")
        /\ db' = IF persist THEN "open" ELSE db
        /\ UNCHANGED <<vars, pool, started, busy, watcher, shut, persist, roleVars>>
OpenFails == /\ main = "open" /\ persist /\ Fail
             /\ UNCHANGED <<vars, serviceVars, persist, roleVars>>

GoRun == /\ main = "poller" /\ Goto("assemble")
         /\ started' = TRUE /\ doomed' = ctxDone
         /\ UNCHANGED <<pc, interval, backoff, length, nap, ctxDone, connected, hasError,
                        lastOK, fails, gap, late>>
         /\ UNCHANGED <<pool, db, busy, watcher, shut, persist, roleVars>>

\* The UI, the identity and the router; the goroutine of the shutdown.
Assemble == /\ main = "assemble" /\ Goto("listen")
            /\ watcher' = "waiting"
            /\ UNCHANGED <<vars, pool, db, started, busy, shut, persist, roleVars>>
AssembleFails == /\ main = "assemble" /\ Fail
                 /\ UNCHANGED <<vars, serviceVars, persist, roleVars>>

\* ListenAndServe: the address is taken, or requests are served.
Listen == /\ main = "listen" /\ Goto("serve")
          /\ UNCHANGED <<vars, serviceVars, persist, roleVars>>
ListenFails == /\ main = "listen" /\ Fail
               /\ UNCHANGED <<vars, serviceVars, persist, roleVars>>

\* Shutdown marks the server, so that a later ListenAndServe returns as well.
CallShutdown == /\ watcher = "waiting" /\ ctxDone /\ main # "exited"
                /\ watcher' = "done" /\ shut' = TRUE
                /\ UNCHANGED <<vars, main, exitErr, pool, db, started, busy, persist, roleVars>>

\* Faulty variant: the listener is opened again, whatever it ended of.
ServeReturnsRetries == /\ main = "serve" /\ shut /\ Goto("listen")
                       /\ UNCHANGED <<vars, serviceVars, persist, roleVars>>

\* ErrServerClosed is no error.
ServeReturns == /\ main = "serve" /\ shut /\ Goto("return")
                /\ UNCHANGED <<vars, serviceVars, persist, roleVars>>

\* The deferred calls, the last first.  The pool waits for the connections in use.
CloseDB == /\ main = "return" /\ db = "open" /\ db' = "closed"
           /\ UNCHANGED <<vars, main, exitErr, pool, started, busy, watcher, shut, persist,
                          roleVars>>
ClosePool == /\ main = "return" /\ db # "open" /\ pool = "open" /\ pool' = "closing"
             /\ busy' = (started /\ pc = "poll")
             /\ UNCHANGED <<vars, main, exitErr, db, started, watcher, shut, persist, roleVars>>
PoolClosed == /\ pool = "closing" /\ ~busy /\ pool' = "closed"
              /\ UNCHANGED <<vars, main, exitErr, db, started, busy, watcher, shut, persist,
                             roleVars>>

\* stop cancels ctx, main returns, and the process ends with its goroutines where they are.
Exit == /\ main = "return" /\ db # "open" /\ pool \in {"none", "closed"} /\ Goto("exited")
        /\ ctxDone' = TRUE
        /\ UNCHANGED <<pc, interval, backoff, length, nap, doomed, connected, hasError, lastOK,
                       fails, gap, late>>
        /\ UNCHANGED <<serviceVars, persist, roleVars>>

-----------------------------------------------------------------------------
(* The other goroutines, and the operator *)

\* A poll that began before the pool was closed may still succeed.
Loop == /\ started /\ main # "exited"
        /\ \/ (pool = "open" \/ busy) /\ \E n \in 0..MaxPoll : PollOK(n)
           \/ \E n \in 0..MaxPoll : PollFails(n) \/ PollCutOff(n)
           \/ SleepEnds
        /\ busy' = (busy /\ pc' = "poll")
        /\ UNCHANGED <<main, exitErr, pool, db, started, watcher, shut, persist, roleVars>>

Signal == main # "exited" /\ Cancel /\ UNCHANGED <<runVars, roleVars>>

\* The process is started again, after the operator has applied the advice, or not.
Again == /\ main = "exited" /\ main' = "connect" /\ exitErr' = FALSE
         /\ pool' = "none" /\ db' = "none" /\ started' = FALSE /\ busy' = FALSE
         /\ watcher' = "none" /\ shut' = FALSE /\ advice' = Unknown
         /\ grants' \in {grants} \cup (IF advice = Unknown THEN {} ELSE {grants \cup advice})
         /\ pc' = "poll" /\ backoff' = interval /\ length' = 0 /\ nap' = 0
         /\ ctxDone' = FALSE /\ doomed' = FALSE /\ connected' = FALSE /\ hasError' = FALSE
         /\ lastOK' = FALSE /\ fails' = 0 /\ gap' = interval /\ late' = 0
         /\ UNCHANGED <<interval, persist>>

Run == \/ Connect \/ ConnectFails \/ Preflight \/ PreflightFails \/ Open \/ OpenFails \/ GoRun
       \/ Assemble \/ AssembleFails \/ Listen \/ ListenFails \/ ServeReturns
       \/ CloseDB \/ ClosePool \/ PoolClosed \/ Exit

StartupNext == Run \/ CallShutdown \/ Loop \/ Signal \/ Again

\* The goroutines run: a poll ends (its queries have the statement timeout as deadline,
\* and Put does not wait for anybody, PutEnds in LiveStream) and a timer fires.
StartupSpec == /\ StartupInit /\ [][StartupNext]_allVars
               /\ WF_allVars(CallShutdown) /\ WF_allVars(Loop)

\* run does not wait for anything without a deadline but the server and the pool.
RunFairness == WF_allVars(Run)

-----------------------------------------------------------------------------
(* Properties *)

\* main.go:206: a signal ends the process, wherever it finds the startup: also one
\* between the start of the goroutine and ListenAndServe, or with a poll in progress.
\* Without an error run returns only for a signal.
SignalEnds == /\ RunFairness => (ctxDone ~> main = "exited")
              /\ [](main = "return" /\ ~exitErr => ctxDone)

\* poller.go:70: Run polls until the context is cancelled, over and over, and no failure
\* ends it; then it returns by itself.  Nothing but the end of the process can come
\* first, and as nothing here makes run go on, Run does not wait for that.
PollsUntilCancelled ==
    /\ []<>(pc = "poll") \/ <>ctxDone
    /\ ctxDone /\ started ~> pc = "stopped" \/ main = "exited"

\* main.go:271: preflight is silent exactly if the role can read the texts of others
\* and signal them, and what it prints, applied, is all that is missing.  The script of
\* pglockr grants leaves nothing to say but the signals it was told to omit.
AdviceSuffices ==
    advice # Unknown =>
        LET able(G) == /\ G \cap {"superuser", "pg_monitor", "pg_read_all_stats"} # {}
                       /\ G \cap {"superuser", "pg_signal_backend"} # {}
        IN  /\ advice = {} <=> able(grants)
            /\ able(grants \cup advice)
            /\ \A r \in advice : ~able(grants \cup (advice \ {r}))
            /\ \A noSignal \in BOOLEAN :
                  grants = RunGrants(noSignal) => advice = RunGrants(FALSE) \ RunGrants(noSignal)
=============================================================================
