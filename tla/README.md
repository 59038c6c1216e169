# pglockr: a TLA+ model

pglockr polls one PostgreSQL cluster for its lock waits, keeps the snapshots,
pushes them to browsers and lets an operator cancel or terminate a backend. This
directory models the parts of it that run concurrently or fail halfway, checks
them with TLC and proves the central ones with TLAPS. `PROJECT.json` maps every
definition to the lines it models and lists the runs, the mutants, the findings,
the hazards and the theorems.

## The system

| component | state | operations | talks to |
|---|---|---|---|
| `internal/poller` | status, backoff | `Run`, `pollOnce`, `setOK`, `setError` | the pg client, the store |
| `internal/pg` | a connection pool | `Connect`, `Snapshot`, `Cancel`, `Terminate`, `HotObjects`, `Locks`, `Capabilities` | PostgreSQL |
| `internal/graph` | none | `Build` | called by the poller |
| `internal/store` | ring, subscriber map, one channel per subscriber | `Put`, `Latest`, `At`, `History`, `Subscribe` | the persister; handlers |
| `internal/persist` | tables `snapshots` and `audit`, `lastPrune` | `Save`, `At`, `History`, `maybePrune`, `Record`, `Recent` | SQLite |
| `internal/audit` | bounded list | `Record`, `Recent` | called by `signal` and the API |
| `internal/signal` | none | `Do` | the pg client, the store (lookup), a sink |
| `internal/api` | one goroutine per request or stream | the REST handlers, `handleStream` | all of the above |
| `internal/auth`, `internal/config` | fixed at startup | identities, roles, `Load`, `validate` | the router, `main` |
| `internal/redact` | none | `Mask`, `Source.Snapshot` | between the pg client and the poller |
| `internal/setup` | none | `Script`, `Remediation` | `main` |
| `internal/metrics` | counters | `ObservePoll`, `ObserveAction`, `Collect` | the poller, `signal`; reads status and store at a scrape |
| `cmd/pglockr` | the process | startup, shutdown | everything |
| `web/src` | React state of `App`, sockets, timers | `useStream`, `usePolled`, scrubber, views | the API |

What is hard here:

* the poller and any number of handlers meet in the store, which sends outside
  its lock;
* a poll is put in the ring first and on disk later, and either of two disk
  statements may fail, or the process may be killed between them;
* a cancel request does several things in a row (signal, look up, record,
  answer) while polls, other requests and a shutdown go on;
* the browser has several requests, a socket and timers running, whose answers
  set the same state;
* a poll reads the lock table in two statements, row by row, while it changes;
* query texts arrive cut off anywhere, and what Mask takes for a mark decides
  what of the rest is copied;
* a signal may come at any moment of the startup, and nobody waits for the
  poller's goroutine.

## Modules

| module | models | how state and actions correspond |
|---|---|---|
| `SlidingWindow` | what a bounded memory promises (abstract) | `window`; `Put` appends and drops the oldest, `Restart` forgets |
| `SnapshotRing` | the ring of `store.go` | `buf`, `head`, `size` are the fields; `RingPut`, `Latest`, `RingAt`, `RingHistory` the locked parts of the methods |
| `LiveStream` | `Put`, `Subscribe`, `handleStream`, `pollOnce` | one action per critical section, channel operation or network call; `left` is Put's copy of the channels, `at` the place of each handler |
| `Metrics` | `ObservePoll`, a scrape, `/healthz`; extends `LiveStream` | `run` is where `Run` is between `pollOnce` and its observer, which raises its two counters in two steps; `reader` a scrape or a client between its two reads |
| `PollLoop` | `Poller.Run` and `sleep` | one action per outcome of a poll or a sleep; durations are numbers |
| `Startup` | `run` of `main.go`, preflight, the grants; extends `PollLoop` | `main` is where `run` is, with an action per service opened or failing; the poller and the goroutine of the shutdown run beside it; `grants` is the role as PostgreSQL knows it |
| `DurableHistory` | `persist/sqlite.go` behind the store | `rows` is the table, a statement is an action; `rd` is a request inside `Store.At`; a time asked for may be any RFC 3339 has, and `UnixNano` and the differences wrap as an int64 does (`MaxDur`) |
| `AuditTrail` | `signal.Do`, both sinks, shutdown order of `main.go` | `req` is the place of every request in `Do`; `trail` the sink; `proc` the process |
| `Redaction` | `redact.Mask` | one action per case of the switch or round of an inner loop; `out` holds positions of copied characters; `lexemes` and `role` say how PostgreSQL reads the text, by the rules of `Lexed` (external); `Misread` names the lexemes that Mask takes for something else |
| `LockQueries` | `Client.Snapshot` and `HotObjects` against a lock table | `held` and `queue` stand for PostgreSQL (external), over objects that are relations or, as the transaction a row lock waits for, are not (`RelationOf`); one action per row of the first statement and per side of the join |
| `WaitForest` | `graph.Build` on the results of `pg.Client.Snapshot` | the two loops over maps visit in any order |
| `LiveView` | sign-in, `useStream`, the server's end of the stream, the snapshot on display | one action per browser event, effects included, or per step of the handler |
| `Access` | `config.Load`, `buildIdentity`, both identities, the middlewares | `start` is the file and the environment, `cfg` and `identity` what is made of them, `answer` the request in hand; the groups, the Origin and the Host of a request are rows of pieces, split, trimmed and compared as the code does |
| `Scrubber` | `usePolled`, selection, replay, `targetTs` | one action per browser event; `Render` is a rendering with its effects |
| `Ingest` | `pollOnce` from the database to the forest: `LockQueries` handing its result to `WaitForest` | `HandOver` is the call of `Build` |
| `Ordering` | what a sort and a filter result in (external: `sort`, `ORDER BY`) | operators on sets and sequences |
| `MCIngest` | what a poll brings in: `Ingest`; beside it `Redaction`, and `WaitForest` on arbitrary inputs | `part` says which of the three a behaviour is about |
| `MCWebUI` | `LiveView` and `Scrubber` | `part` says which of the two a behaviour is about |
| other `MC...` | values of the constants, and a statement of a comment or doc that a run refutes | |
| `...Proofs` | theorems; see Proofs | `LiveStreamProofs` also covers `Metrics`, `PollLoopProofs` also `Startup`, `WebUIProofs` both `LiveView` and `Scrubber`, `IngestProofs` `WaitForest`, `LockQueries`, `Ingest` and `Redaction` |

`LiveStream` and `DurableHistory` extend `SnapshotRing`; `LiveStream` (ring) and
`AuditTrail` (in-memory sink) are shown to implement `SlidingWindow`. `PollLoop`
and `LiveStream` look at the poller from two sides: one at its pace, with a poll
as a single step, the other at what a poll does, without time. The compositions
are `Startup` (the process around the poll loop), `Metrics` (monitoring beside the
live path), `Ingest` (from the lock table to the forest) and `LiveView` (from the
poll to the screen, with Put as a single step). Definitions under
"Faulty variants" take no part in a specification: they are the mutants
`PROJECT.json` puts in place of an operator to show that a property can fail.

## Runs

| run | shows |
|---|---|
| `live_stream` | all interleavings of the poller and two clients, three polls, a ring of two (so it wraps), clients leaving anywhere, panic and restart |
| `live_stream_fair` | `Metrics` with one client, three polls, one failing: monitoring agrees with what can be served; Put ends without help of any handler; with fair handlers a vanished client is released and a waiting one gets the next frame |
| `startup` | the process with every service failing or not and a signal anywhere, restarted with or without the advised grants; the poll loop with intervals 1, 3 and 9 around a cap of 7 that is not a power of two, polls shorter and longer than the interval. The end of the process leaves `Run` where it is, so that `Run` returns after a cancellation is checked of `Run` itself |
| `durable_history` | five instants, retention 1, pruning every 2, one instant for a Save, an int64 of -6 to 5, requests for times within it and beyond both of its ends: expiry, pruning due and not due, kills, failing statements, saturated distances, wrapped times and wrapped differences all occur within it |
| `audit_trail` | either sink, two concurrent requests, one poll meanwhile, disk faults, shutdown and restart; capacity 0 (which is 1) for the memory sink |
| `ingest` | `Mask` on every two of 54 lexemes and every three of 12 that could mislead it, each cut off at every character (11,584 texts, with the forms it misreads among them); `Snapshot` on three backends (one not in the session set), two relations and a transaction, shared and exclusive locks, up to four of them, and one change of the lock table during a poll, then `Build` on its result; `Build` on all assignments of blocker lists (repeats included) over three pids and all label sets |
| `web_ui` | the stream: an SSO proxy or tokens, reconnects up to the longest delay, signing out and in and reloading with two requests in flight, two frames on the wire; polls go on for ever and one of them is singled out. The scrubber: a timeline of three, four polls so that it slides, two overlapping requests, four clicks; a replay ends |
| `access` | 18,816 configurations: lists of up to two principals or group mappings with missing and invalid parts and repeated tokens and groups, and the settings at -1, 0 and 2; requests with bearer token and cookie, or with the proxy's secret, user and up to two groups, between blanks or other delimiters than the configured one; mapped groups with a delimiter or outer blanks; the Origin of the UI, of another host, of one whose name ends in the Host, `null` or none |

The other runs expect a violation; see Findings. The bounds (`MaxPolls`,
`MaxConns`, `MaxTime`, `MaxClicks`, ...) are constants with the word bound in
their comment. They are enough in the sense that every action of every module
fires, the ring, the window and the channels reach their limits and go beyond,
and every mutant is caught. What is proved does not depend on them. The
`TypeOK` of a module states the types of its variables. Where a module has an
inductive invariant it is proved as a part of it; none is spent a run on.

Deadlock is checked except where the program really ends: `Mask` and `Build`
return, and a process whose configuration is refused exits. Two bounds deserve a
word. `MaxChanges` is one: what is said of labels and views is about a poll during
which nothing changed, and with one change the statements still have to be
consistent with themselves (`EdgesAreConfirmed`). The lexemes of `ingest` hold
everything the switch of `Mask` tells apart, inside and outside of each other, and
one of each form of `Misread`.

## Fairness

* `LiveStream`: the poller inside Put (Save has a five-second context; a send
  never blocks) and each handler (writes and pings have ten-second contexts) are
  weakly fair. Receiving and the ping ticker are strongly fair: `select` draws at
  random among ready cases. Nothing makes a client read, come or leave, or a poll
  succeed, and no fairness is assumed for `CtxDone`: once `websocket.Accept` has
  hijacked the connection, the client's leaving no longer cancels `r.Context()`.
  `MetricsSpec` assumes the poller's part only, which is all `PutEnds`
  needs; the two other liveness properties have the handlers' part as a premise.
* `PollLoop`, `Startup`: a poll ends (statement timeout, and Put ends), a timer
  fires, and the goroutines of `run` go on. `run` itself waits without a deadline for
  nothing but the server and the pool; that it goes on (`RunFairness`) is a premise of
  `SignalEnds` only, so that `PollsUntilCancelled` does not get the end of `Run` from
  the end of the process. Nothing makes a signal come or a service start.
* `Redaction`: `Mask` runs, as any sequential code does.
* `LiveView`: polls succeed again and again, the handler runs and the browser reads
  its socket. Nothing makes a connection last or a REST request come back;
  `DisplayFollows` has the open stream as its premise, which a reader should not take
  for longer than the code keeps one open; see the ping under Abstractions.
* `AuditTrail`: calls end by the statement timeout, goroutines run, deferred
  calls of `run` are executed.
* `Scrubber`: the interval timer of a replay fires.

## Proofs

For every value of the constants, and any number of polls, connections, requests or
configurations. An invariant below is inductive, was checked by TLC on the run of its
module first, and is the conjunction of the properties it is for with what they need.

* `SnapshotRingProofs`: the ring for every size. `PutSlides`: `RingPut` appends to the
  retained snapshots and drops the oldest when full. `HistoryLists`: the loop of
  History lists what is retained of an interval and nothing else. `NearestFound`: what
  the loop of At finds with distances that saturate.
* `LiveStreamProofs`: besides the type invariant and the four safety properties `Inv`
  says that connection ids are handed out in order (`IdsInOrder`), that Put works on a
  copy of former subscribers with the newest snapshot in hand (`PutInProgress`) and
  how what was shown relates to what was pushed and read first (`ShownSoFar`). The
  properties alone are not inductive: a state could have a channel open that was
  never given out, or a copy in `left` that predates the last receive. From `Inv`
  follow the safety theorems, the action property `BackOnlyFromFirst` and, with
  `PutSlides`, the refinement `RingIsWindow`. `WatchedImplementsStream`: the system
  with its monitoring implements the live path, so that all this holds of it;
  `MonitoringAgrees` adds that Put runs only while `Run` waits for it (`RunWaits`) and
  that a failed poll is between its two counters nowhere else than at `Reporting`,
  that the good polls fill the ring (`GoodFillRing`) and that a reader who was told
  connected has a snapshot to find (`ReaderServed`).
* `PollLoopProofs`: the invariant bounds the backoff and the running pause from
  below by the interval and from above by the cap, and says that a poll succeeds
  after the cancellation only if it started before it. `PollsSpaced`,
  `StatusHonest` and `OneLatePoll` follow. For `BackoffLaw` the local variable of
  `Run` is the doubled interval at every point of the loop, also between a failure
  and the pause (`BackoffIs`). `LoopSafeInProcess` has the same laws in the whole
  process, where `StartupSteps` says what a step of the process is to the loop;
  `AdviceSuffices` and the safety half of `SignalEnds` (`ReturnSafe`) are about the
  process itself.
* `DurableHistoryProofs`: `Inv` says that a Save ends in its time (`SaveInTime`), where
  a retained snapshot can have gone (`RetainedIsSaved`), up to what time the table was
  pruned (`PrunedUpTo`) and what a request inside At has read so far
  (`ReadInProgress`). That a history is never emptied needs the first: the row just
  saved must not expire before the DELETE that follows it. `AtAnswersNearest` is for
  times an int64 can express and rows nearer than the largest Duration (`Expressible`,
  `Reaches`): there `UnixNano` is exact and no difference wraps. Both action properties
  follow, and both statements about the ring, with the lemmas of `SnapshotRingProofs`.
* `AuditTrailProofs`: `Progress` says how far each request is and what PostgreSQL has
  done for it, `EntriesFaithful` and `RecordedOnce` tie an entry of the trail to the
  one request it is from, `Aimed` the query on record to the polls since. For
  `ActionsCounted`, an equation of cardinalities, also: every reading of the clock
  belongs to one request, and only those that are done are counted. `TrailKeepsOrder`
  holds the refinement of `SlidingWindow`.
* `WebUIProofs`: `LiveView`, where the wire of a new connection is empty and the delay
  between two attempts is what the count of them says (`BackoffIs`); and `Scrubber`,
  where every fetch is for a snapshot that was there, `targetTs` is the selection as
  rendered last, and a request that is not abandoned is one for it.
* `AccessProofs`: the invariant says that what is served is what `Load` accepted, and
  the identity what was built from it. `HighestIs` is what the loop of `highestRole`
  finds, `GroupsListed` that splitting and trimming a header gives the groups listed in
  it (`TrimIs`), `SuffixIs` and `OriginsChecked` what the two origin checks let pass,
  `ByHash` and `GroupToRole` what remains in the maps of repeated keys,
  `TokenGrants` and `ProxyGrants` whom a request is taken for, `RolesAllowed` that
  ranks, middlewares and the README's table of roles agree.
* `IngestProofs`, about sorting (`Ordering`): in a strict total order the members of a
  finite set have 0, 1, 2, ... before them, so there is one for each position
  (`InOrderLists`); a sort is that order of the positions (`SortedPositions`), which
  permutes the sequence and leaves no pair the wrong way round. `AuditTrailProofs` uses
  the same for `RecentNewestFirst`.
* `IngestProofs`, about `Build`: `ForestInv` says which sessions and blockers the two
  loops have visited, that a pair has as many edges as its visited waiter reported
  (`EdgesCounted`) and that the roots are the heads among the blockers visited, each
  once (`RootsKnown`). `EdgesAreConfirmed` is what that comes to at the end.
  `WaitersHaveRoots` takes no path: if there were neither root, cycle nor absent
  backend above a waiter, a session above it with the fewest above itself would be no
  head, and a blocker of it has fewer (`TopOfChain`).
* `IngestProofs`, about the poll: `LockInv` says that a backend waits for one lock at a
  time and for a reason (`WaitsForSomebody`: somebody holds or asked earlier), and that
  while nothing changes, what was read is what the lock table says (`ReadIsCurrent`).
  `LabelsExplainEdges` alone is not inductive, as it speaks of the end of a poll only.
  `IngestInv` joins both invariants across the hand-over (`HandedOver`); from it follow
  the three properties of the poll as a whole, and `ViewsAgree`, which also counts the
  rows of the hot objects, of waits for a relation and of no others.
* `IngestProofs`, about `Mask`: `MaskInv` says that Mask is at the start of a lexeme, or
  inside of one in the loop for its kind (`Where`), and that what it wrote is right for
  the text before that place (`Good`): nothing of a value, all that is plain, in order.
  `Kinds` is why the switch is not misled in a text that is `Legible`: a lexeme's first
  characters tell its kind. There is one lemma for each action. The texts are any row of
  lexemes of PostgreSQL (`Lexed`, each possibly cut off by the end of the text), of any
  length; all 11,584 texts of the run are such. What follows from `MaskInv`,
  `ValuesMasked` and `StructureKept`, is about those with no lexeme that is `Misread`;
  the forms are listed under Findings. That they are the only ones is what is proved.

What a loop computes is proved for every number of rounds. The prover cannot apply the
library's induction theorems, whose parameter is an operator; but it can apply the
one that says that a nonempty set of numbers has a least element, and a least round
at which a statement fails is all an induction needs (`Least`, `AllNaturals`). Those
loops are written as recursive functions for that reason. The laws of the two backoffs
have a power of two, of which the provers know nothing: `PowersOfTwo` obtains
2^(k+1) = 2 * 2^k from the library's count of the subsets of a finite set.

Assumptions are the named ASSUMEs of the modules: ring size any integer (New
makes it positive), bounds natural numbers, intervals positive as `config.Load`
leaves them, a retention that outlasts a Save (see below), finitely many requests for
counting them, finitely many pids, backends and objects, every backend having a pid, at
least one instant of time, at most four bytes to a character, caps of the counters of failures that
reach the longest delay, and for `Access` the types the YAML decoder gives and an Origin
of the form the standard has: a scheme, `://` and a host, or `null` (`HeadersTyped`).

Model-checked only:

* liveness, which is out of the prover's reach: `PutEnds`, `GoneIsReleased`,
  `NextFrameArrives`, `PollsUntilCancelled`, the first half of `SignalEnds`,
  `RequestsEnd`, `MaskEnds`, `ReplayEnds`, `DisplayFollows`.

`OneLatePoll`, `TypeCorrect` and `ConnectedSafe` are only proved; `MonitoringAgrees`
states what follows from the last for a reader.

## Findings

Each is a run that expects a violation, with the sentence of the repository it
refutes in `PROJECT.json`.

| run | what happens |
|---|---|
| `concurrency_safe` | `Put` sends on a channel closed by a client that has just left: panic |
| `every_attempt_recorded` | shutdown closes the database under a request that has signalled |
| `readable` | the offset of the closing tag of a dollar-quoted string is counted in bytes and added to a position in runes: with a character of several bytes in the string, Mask goes on too far and what follows is missing; and of a string with an escaped quote, `E'\'a'`, the part after that quote is copied (`MasksExactly`) |
| `zero_retention` | a retention of 0, documented to keep forever, becomes 24 hours, with persistence on as well (in YAML it is `0s` or `"0"` that gets there; a plain `0` is refused by the decoder) |

Some properties of the passing runs have an exception in their statement because
the code has one, which a reader of the comments may not expect:

* `ValuesMasked`, `StructureKept`: said of texts with no lexeme that Mask misreads
  (`Misread`). There are seven forms, and with any of them a part of a value may be copied
  or structure be lost: a quote escaped by a backslash, `E'\''`, which ends the string
  early; a block comment inside another, which ends both; a line comment ended by a
  carriage return, which does not end for Mask; `a$b$c` or `$1$2`, where `$b$` is
  taken for an opening tag; a digit after a letter outside ASCII, `é1`, taken for a
  number; a number such as `0xFF`, `1_000` or the first of `1..2`; and a
  dollar-quoted string with a character of several bytes in its tag or body;
* `BackOnlyFromFirst`: a new client may see the newest snapshot from Latest and an
  older one from its channel next;
* `PushesAdvance`, `NextFrameArrives`: the frame dropped at a full channel is the
  newest, so a client behind by one stays so until the next poll;
* `RingWithinDurable`: a snapshot whose Save failed is in the ring but not in the
  history that is served;
* `RingAtIsNearest`: it stops at distances of the largest Duration;
* `AtIsNearest`: said of times an int64 of nanoseconds can express (1678 to 2262) and rows
  less than the largest Duration away. The API accepts any RFC 3339 time; of others
  `UnixNano` wraps (`sqlite.go:102`) and the answer is an existing row, but any;
  `RingWithinDurable` is said of such bounds of an interval, too;
* `AnsweredIsRecorded`: the query on record is looked up after the signal, so a poll
  in between changes it;
* `ActionsCounted`: an action whose Record failed is counted all the same;
* `MonitoringAgrees`: holds because the status is read before the snapshot; `setOK`
  precedes `ObservePoll`, so connected may be reported with no poll counted yet, and
  the counters of a scrape are read apart from the gauges. Between the two increments of
  `metrics.go:83` and `:85` a failed poll counts as a good one (`Reporting`);
* `LabelsExplainEdges`: the join does not ask for a conflict, so with several locks of
  the blocker on the object the label may name modes that do not conflict
  (`queries.go:49` says "conflicting modes"), and an edge to one who only waits ahead
  in the queue has no label;
* `ViewsAgree`: a wait for a row is one for a transaction, which has no relation: it has an
  edge and no hot object (`queries.go:101`). The holders of a hot object are lock rows,
  not backends, so nothing is said about their number. This and `LabelsExplainEdges`
  are about polls during which the lock table did not change;
* `DisplayFollows`: a late REST answer does replace a newer frame, until the next frame;
* `RecentNewestFirst`: of the table only; the in-memory trail lists in the order of
  Record;
* `PausedViewSettles`: the view shows the selected entry, but the selection is an
  index: once the timeline slides the paused view moves on with it;
* `StreamWhileSignedIn`: a user whom an SSO proxy signs in has no token, and the UI
  never opens the stream for them;
* `HandledIffGranted`: for a token or group that is listed twice
  the last entry counts, be it the higher role or the lower. On the actions an Origin of
  another host passes if its name ends in the Host (`auth.go:181`, where `auth.go:174`
  speaks of a matching one); `EndsInHost` says so. A group that is mapped under a name
  with the delimiter in it, or with blanks around it, never matches a listed one, for
  `config.go:288` takes it as it is and `proxy.go:93` splits and trims the header.

## Abstractions to know of

* A snapshot is its number or its time; sessions and edges appear in `LockQueries`
  and `WaitForest`, where a label is present or not, texts in `Redaction`.
* `Redaction` has classes of characters. `Lexed` is a set of rules for a row of lexemes, not
  PostgreSQL's scanner: it leaves open which strings have escapes (`E'...'`, and all of
  them with `standard_conforming_strings` off), and what is proved holds of either reading.
  Of `/*/` inside a comment it counts both marks; such a comment is misread anyway.
* A sort is given by its result (`Ordering`), rows that compare equal in the order they
  were in. `sort.Slice` promises less; nothing is stated about such rows.
* The lock table of `LockQueries` is external: conflicts, a queue per object,
  `pg_blocking_pids` as holders in the way and waiters ahead. An object has one relation or
  none, and the columns of the join other than object and pid are left out.
* `Startup` takes roles to inherit. `pg_has_role(..., 'MEMBER')` does not ask for it, so
  preflight would be silent about a `NOINHERIT` role.
* `HTTP`'s Shutdown is external: it marks the server, so that ListenAndServe returns
  whether it was called before or after. Requests in flight are `AuditTrail`'s.
* `database/sql` has one connection (`SetMaxOpenConns(1)`), so a statement is
  atomic; there are no transactions, so two statements are not.
* The half of `OnlyExpiredPruned` that a row remains needs a retention no shorter than the time one Save may take
  (24h against five seconds by default); `RetentionAssumption` says so.
* The network under a WebSocket is external: a write may succeed although the
  peer is gone, a ping to a live peer may time out. In the code as it is each does:
  `stream.go` never reads its socket, and the library's `Ping` needs a reader to see the
  pong, so a stream is dropped some 40 seconds after it opened and the UI reconnects.
  `PingOK` allows more than that; no safety property depends on it, and no liveness
  property asks for it. `CtxDone` likewise allows more than a hijacked connection does.
* In `PollLoop` a query under a context that was cancelled before it started
  fails, as the pool checks the context first (external).
* In `LiveView` Put is one step and the panic of `concurrency_safe` does not occur.
* The effect of App.tsx:99-103 restarts the timer of a replay when the length of the
  timeline changes; `ReplayTick` leaves that out. The timer has one second and the
  timeline is polled every second and a half, so it fires all the same.
* In `Access` net/http has trimmed a header already, and `NewProxyIdentity`'s own checks of
  the header names cannot fail, as `Load` has filled them in.
* Restarts of the server are not part of `Scrubber`: its timeline only slides.

## Not modelled

* Snapshot diff: a pure function that no other code calls.
* The inspector view `Locks`, `handleMe`, `handleClusters` and the embedded UI: they
  hold no state and pass on what they read.
* The rendering of the views, quoting and the random password of the grants, the
  duration histogram and the text format of the metrics, logging, packaging.

## Plan

Done: ring, live stream, poll loop, durable history, audit trail, wait-for forest,
live view, scrubber, configuration and access, redaction, the lock queries, metrics,
startup and shutdown, and their compositions; the proofs of all safety properties.

Next, in this order:

1. The forest layout (`layout.ts`): every session of a snapshot is placed, cycles and
   absent blockers included.
2. `DurableHistory` with several readers.
