---------------------------- MODULE WebUIProofs ----------------------------
(***************************************************************************)
(* The two parts of the web UI that keep state of their own, proved for    *)
(* every delay and every number of requests in flight, polls and clicks:   *)
(* the stream of LiveView, and the history scrubber.                       *)
(***************************************************************************)
EXTENDS LiveView, Scrubber, FiniteSetTheorems, FunctionTheorems, TLAPS

-----------------------------------------------------------------------------
(* The stream *)

\* Nothing is on its way before handleStream has written the first frame.
WireStartsEmpty == srv # "loop" => wire = << >>

\* The delay of the next reconnect: the first one doubled once for every connection
\* that ended, and the longest delay is reached before the count is.
BackoffIs == backoff = Shorter(2 ^ tries, MaxDelay)

Inv == TypeOK /\ WireStartsEmpty /\ StreamWhileSignedIn /\ BackoffIs /\ ReconnectLaw

USE DEF NoSnap, Old, New, Unused, Sent

\* The types are kept; only the handler's first frame needs to know the wire empty.
LEMMA TypeStep == ASSUME TypeOK, WireStartsEmpty, [Next]_vars PROVE TypeOK' /\ WireStartsEmpty'
<1> USE LiveViewAssumption DEF TypeOK, WireStartsEmpty
<1>1. CASE Poll
  BY <1>1 DEF Poll, retryVars
<1>2. CASE Accept
  BY <1>2 DEF Accept, retryVars
<1>3. CASE WriteLatest
  <2>1. wire = << >> /\ srv' = "loop" /\ UNCHANGED <<newest, chan, auth, token, ws, retryVars, seeds, live>>
    BY <1>3 DEF WriteLatest
  <2>2. CASE newest = NoSnap
    BY <1>3, <2>1, <2>2 DEF WriteLatest, retryVars
  <2>3. CASE newest # NoSnap
    <3>1. newest \in {Old, New} /\ wire' = <<newest>>
      BY <1>3, <2>1, <2>3 DEF WriteLatest
    <3>2. wire' \in Seq({Old, New}) /\ Len(wire') <= MaxWire
      BY <3>1
    <3> QED
      BY <2>1, <3>2 DEF retryVars
  <2> QED
    BY <2>2, <2>3
<1>4. CASE Push
  BY <1>4 DEF Push, retryVars
<1>5. CASE MeFails \/ SignIn \/ SignOut \/ Reload
  <2>1. (token \in BOOLEAN)'
    BY <1>5, Zenon DEF MeFails, SignIn, SignOut, Reload
  <2>2. /\ newest' = newest /\ auth' \in {"checking", "needauth"}
        /\ UNCHANGED <<srv, chan, wire, ws>> \/ (srv' = "none" /\ chan' = NoSnap /\ wire' = << >> /\ ws' = "off")
        /\ UNCHANGED retryVars \/ (backoff' = 1 /\ delay' = 0 /\ tries' = 0)
        /\ UNCHANGED <<seeds, live>> \/ (seeds' = [s \in 1..MaxSeeds |-> Unused] /\ live' = NoSnap)
    BY <1>5 DEF MeFails, SignIn, SignOut, Reload, CloseStream, Drop, serverVars
  <2>3. (srv \in {"none", "latest", "loop"} /\ chan \in NoSnap..New /\ wire \in Seq({Old, New})
         /\ Len(wire) <= MaxWire /\ WireStartsEmpty /\ ws \in {"off", "connecting", "open", "retry"})'
    <3>1. << >> \in Seq({Old, New}) /\ Len(<< >>) = 0
      OBVIOUS
    <3>2. CASE UNCHANGED <<srv, chan, wire, ws>>
      BY <3>2
    <3>3. CASE srv' = "none" /\ chan' = NoSnap /\ wire' = << >> /\ ws' = "off"
      BY <3>1, <3>3
    <3> QED
      BY <2>2, <3>2, <3>3
  <2>4. (backoff \in 1..MaxDelay /\ delay \in 0..MaxDelay /\ tries \in 0..TriesCap)'
    BY <2>2 DEF retryVars
  <2>5. (seeds \in [1..MaxSeeds -> {Unused, Sent, Old, New}] /\ live \in NoSnap..New)'
    BY <2>2
  <2> QED
    BY <2>1, <2>2, <2>3, <2>4, <2>5
<1>6. CASE WsOpens \/ Retry
  BY <1>6 DEF WsOpens, Retry, serverVars, retryVars
<1>7. CASE WsFrame
  BY <1>7 DEF WsFrame, retryVars
<1>8. CASE WsCloses
  BY <1>8 DEF WsCloses, Drop, Doubled, Shorter
<1>9. ASSUME NEW s \in 1..MaxSeeds, MeOK(s) PROVE TypeOK' /\ WireStartsEmpty'
  <2>1. /\ auth' = "authed" /\ seeds' = [seeds EXCEPT ![s] = Sent]
        /\ UNCHANGED <<newest, srv, chan, wire, token, delay, live>>
        /\ \/ ws' = "connecting" /\ backoff' = 1 /\ tries' = 0
           \/ UNCHANGED <<ws, backoff, tries>>
    BY <1>9 DEF MeOK, OpenStream, serverVars
  <2>2. seeds' \in [1..MaxSeeds -> {Unused, Sent, Old, New}]
    BY <2>1
  <2>3. (ws \in {"off", "connecting", "open", "retry"} /\ backoff \in 1..MaxDelay
         /\ tries \in 0..TriesCap)'
    BY <2>1
  <2> QED
    BY <2>1, <2>2, <2>3
<1>10. ASSUME NEW s \in 1..MaxSeeds, ServeSeed(s) \/ SeedArrives(s) \/ SeedFails(s)
       PROVE  TypeOK' /\ WireStartsEmpty'
  <2>1. \E x \in {Unused, Sent, Old, New} : seeds' = [seeds EXCEPT ![s] = x]
    BY <1>10 DEF ServeSeed, SeedArrives, SeedFails
  <2>2. seeds' \in [1..MaxSeeds -> {Unused, Sent, Old, New}]
    BY <2>1
  <2>3. live' \in NoSnap..New
    BY <1>10 DEF ServeSeed, SeedArrives, SeedFails
  <2>4. UNCHANGED <<serverVars, auth, token, ws, retryVars>>
    BY <1>10 DEF ServeSeed, SeedArrives, SeedFails
  <2> QED
    BY <2>2, <2>3, <2>4 DEF serverVars, retryVars
<1>11. CASE UNCHANGED vars
  BY <1>11 DEF vars, serverVars, retryVars
<1> QED
  BY <1>1, <1>2, <1>3, <1>4, <1>5, <1>6, <1>7, <1>8, <1>9, <1>10, <1>11 DEF Next

\* The stream starts with the session and ends with it, and with nothing else.
LEMMA StreamStep == StreamWhileSignedIn /\ [Next]_vars => StreamWhileSignedIn'
<1> SUFFICES ASSUME StreamWhileSignedIn, [Next]_vars PROVE StreamWhileSignedIn'
  OBVIOUS
<1> USE DEF StreamWhileSignedIn
<1>1. ASSUME NEW s \in 1..MaxSeeds, MeOK(s) PROVE StreamWhileSignedIn'
  BY <1>1 DEF MeOK, OpenStream
<1>2. CASE MeFails \/ SignIn \/ SignOut \/ Reload
  BY <1>2 DEF MeFails, SignIn, SignOut, Reload, CloseStream
<1>3. CASE WsOpens \/ WsCloses \/ Retry
  BY <1>3 DEF WsOpens, WsCloses, Retry
<1>4. ASSUME \/ Poll \/ Accept \/ WriteLatest \/ Push \/ WsFrame \/ UNCHANGED vars
             \/ \E s \in 1..MaxSeeds : ServeSeed(s) \/ SeedArrives(s) \/ SeedFails(s)
      PROVE  UNCHANGED <<auth, token, ws>>
  BY <1>4 DEF Poll, Accept, WriteLatest, Push, WsFrame, vars, ServeSeed, SeedArrives, SeedFails
<1>5. ASSUME UNCHANGED <<auth, token, ws>> PROVE StreamWhileSignedIn'
  BY <1>5
<1> QED
  BY <1>1, <1>2, <1>3, <1>4, <1>5 DEF Next

\* The provers know nothing of powers but that a set of k elements has 2 ^ k
\* subsets; with one element more it has as many again, those with that element.
LEMMA PowersOfTwo ==
    ASSUME NEW k \in Nat
    PROVE  2 ^ 0 = 1 /\ 2 ^ k \in Nat \ {0} /\ 2 ^ (k + 1) = 2 * 2 ^ k
<1> DEFINE S == 1..k
           T == 1..k+1
           A == SUBSET S
           B == (SUBSET T) \ A
           f == [X \in A |-> X \cup {k + 1}]
<1>1. /\ IsFiniteSet(S) /\ Cardinality(S) = k /\ IsFiniteSet(T) /\ Cardinality(T) = k + 1
  BY FS_Interval
<1>2. /\ IsFiniteSet(A) /\ Cardinality(A) = 2 ^ k /\ IsFiniteSet(SUBSET T)
      /\ Cardinality(SUBSET T) = 2 ^ (k + 1)
  BY <1>1, FS_SUBSET
<1>3. f \in Bijection(A, B)
  <2>1. T = S \cup {k + 1} /\ k + 1 \notin S
    OBVIOUS
  <2> HIDE DEF S, T
  <2>2. f \in [A -> B]
    BY <2>1
  <2>3. \A X, Y \in A : f[X] = f[Y] => X = Y
    BY <2>1
  <2>4. ASSUME NEW Y \in B PROVE \E X \in A : f[X] = Y
    <3>1. k + 1 \in Y
      BY <2>1
    <3>2. Y \ {k + 1} \in A /\ (Y \ {k + 1}) \cup {k + 1} = Y
      BY <2>1, <3>1
    <3> QED
      BY <3>2
  <2> HIDE DEF A, B, f
  <2>5. f \in Injection(A, B)
    BY <2>2, <2>3, Fun_IsInj
  <2>6. f \in Surjection(A, B)
    BY <2>2, <2>4, Fun_IsSurj
  <2> QED
    BY <2>5, <2>6, Fun_IsBij
<1>4. IsFiniteSet(B) /\ Cardinality(B) = 2 ^ k
  <2> HIDE DEF A, B, f
  <2> QED
    BY <1>2, <1>3, FS_Bijection DEF ExistsBijection
<1>5. (SUBSET T) \cap A = A
  OBVIOUS
<1>6. 2 ^ k \in Nat /\ 2 ^ (k + 1) \in Nat
  BY <1>2, FS_CardinalityType
<1>7. Cardinality((SUBSET T) \ A) = Cardinality(SUBSET T) - Cardinality((SUBSET T) \cap A)
  <2> HIDE DEF A, T
  <2> QED
    BY <1>2, FS_Difference
<1>8. 2 ^ k = 2 ^ (k + 1) - 2 ^ k
  BY <1>2, <1>4, <1>5, <1>7, Zenon
<1>9. 2 ^ k # 0
  BY <1>2, FS_EmptySet
<1>10. 2 ^ 0 = 1
  <2>1. Cardinality(SUBSET {}) = 2 ^ 0
    BY FS_EmptySet, FS_SUBSET
  <2>2. SUBSET {} = {{}}
    OBVIOUS
  <2> QED BY <2>1, <2>2, FS_Singleton
<1> QED
  BY <1>6, <1>8, <1>9, <1>10

\* Doubling once more, or having doubled often enough.
LEMMA DoublingIsPower ==
    ASSUME NEW k \in 0..TriesCap
    PROVE  /\ Doubled(Shorter(2 ^ k, MaxDelay)) = Shorter(2 ^ Shorter(k + 1, TriesCap), MaxDelay)
           /\ Shorter(2 ^ k, MaxDelay) = Shorter(2 ^ (Shorter(k + 1, TriesCap) - 1), MaxDelay)
<1> USE LiveViewAssumption
<1> DEFINE p == 2 ^ k
<1>1. p \in Nat \ {0} /\ 2 ^ (k + 1) = 2 * p
  BY PowersOfTwo
<1>2. CASE k < TriesCap
  <2>1. Shorter(k + 1, TriesCap) = k + 1 /\ Shorter(k + 1, TriesCap) - 1 = k
    BY <1>2 DEF Shorter
  <2> HIDE DEF p
  <2>2. Doubled(Shorter(p, MaxDelay)) = Shorter(2 * p, MaxDelay)
    BY <1>1 DEF Doubled, Shorter
  <2> QED
    BY <1>1, <2>1, <2>2 DEF p
<1>3. CASE k = TriesCap
  <2> DEFINE h == 2 ^ (k - 1)
  <2>1. Shorter(k + 1, TriesCap) = k /\ Shorter(k + 1, TriesCap) - 1 = k - 1
    BY <1>3 DEF Shorter
  <2>2. h >= MaxDelay /\ h \in Nat \ {0} /\ p = 2 * h
    <3>1. k - 1 \in Nat /\ (k - 1) + 1 = k
      BY <1>3
    <3> QED
      BY <1>3, <3>1, PowersOfTwo
  <2> HIDE DEF p, h
  <2>3. Shorter(h, MaxDelay) = MaxDelay /\ Shorter(p, MaxDelay) = MaxDelay
    BY <2>2 DEF Shorter
  <2>4. Doubled(MaxDelay) = MaxDelay
    BY DEF Doubled, Shorter
  <2> QED
    BY <2>1, <2>3, <2>4 DEF p, h
<1> QED
  BY <1>2, <1>3

\* onclose waits the delay and doubles it; a new start, or a connection that opens,
\* starts over.
LEMMA DelayStep ==
    TypeOK /\ BackoffIs /\ ReconnectLaw /\ [Next]_vars => (BackoffIs /\ ReconnectLaw)'
<1> SUFFICES ASSUME TypeOK, BackoffIs, ReconnectLaw, [Next]_vars PROVE (BackoffIs /\ ReconnectLaw)'
  OBVIOUS
<1>1. CASE WsCloses
  <2>1. /\ delay' = backoff /\ backoff' = Doubled(backoff) /\ tries' = Shorter(tries + 1, TriesCap)
    BY <1>1 DEF WsCloses
  <2>2. tries \in 0..TriesCap
    BY DEF TypeOK
  <2>3. backoff' = Shorter(2 ^ tries', MaxDelay)
    BY <2>1, <2>2, DoublingIsPower DEF BackoffIs
  <2>4. delay' = Shorter(2 ^ (tries' - 1), MaxDelay)
    BY <2>1, <2>2, DoublingIsPower DEF BackoffIs
  <2> QED
    BY <2>3, <2>4 DEF BackoffIs, ReconnectLaw
<1>2. ASSUME backoff' = 1, tries' = 0, ws' # "retry" PROVE (BackoffIs /\ ReconnectLaw)'
  <2>1. 1 = Shorter(2 ^ 0, MaxDelay)
    BY LiveViewAssumption, PowersOfTwo DEF Shorter
  <2> QED
    BY <1>2, <2>1, Zenon DEF BackoffIs, ReconnectLaw
<1>3. ASSUME UNCHANGED <<backoff, delay, tries>>, ws' = "retry" => ws = "retry"
      PROVE  (BackoffIs /\ ReconnectLaw)'
  BY <1>3, Zenon DEF BackoffIs, ReconnectLaw
<1>4. CASE WsOpens \/ Reload
  <2>1. backoff' = 1 /\ tries' = 0 /\ ws' # "retry"
    BY <1>4 DEF WsOpens, Reload, CloseStream
  <2> QED
    BY <1>2, <2>1
<1>5. ASSUME NEW s \in 1..MaxSeeds, MeOK(s) PROVE (BackoffIs /\ ReconnectLaw)'
  <2>1. \/ backoff' = 1 /\ tries' = 0 /\ ws' # "retry"
        \/ UNCHANGED <<backoff, delay, tries, ws>>
    BY <1>5 DEF MeOK, OpenStream
  <2> QED
    BY <1>2, <1>3, <2>1
<1>6. ASSUME \/ Poll \/ Accept \/ WriteLatest \/ Push \/ MeFails \/ SignIn \/ SignOut \/ WsFrame
             \/ Retry \/ UNCHANGED vars
             \/ \E s \in 1..MaxSeeds : ServeSeed(s) \/ SeedArrives(s) \/ SeedFails(s)
      PROVE  UNCHANGED <<backoff, delay, tries>> /\ (ws' = "retry" => ws = "retry")
  BY <1>6 DEF Poll, Accept, WriteLatest, Push, MeFails, SignIn, SignOut, CloseStream, WsFrame, Retry,
              vars, retryVars, ServeSeed, SeedArrives, SeedFails
<1> QED
  BY <1>1, <1>3, <1>4, <1>5, <1>6 DEF Next

\* The invariant of the stream holds from the loading of the page.
THEOREM LiveViewInvariance == Spec => []Inv
<1>1. Init => Inv
  <2> SUFFICES ASSUME Init PROVE Inv
    OBVIOUS
  <2> USE LiveViewAssumption DEF Init
  <2>1. TypeOK /\ WireStartsEmpty
    BY DEF TypeOK, WireStartsEmpty
  <2>2. StreamWhileSignedIn /\ ReconnectLaw
    BY DEF StreamWhileSignedIn, ReconnectLaw
  <2>3. 1 = Shorter(2 ^ 0, MaxDelay)
    BY PowersOfTwo DEF Shorter
  <2>4. BackoffIs
    BY <2>3, Zenon DEF BackoffIs
  <2> QED
    BY <2>1, <2>2, <2>4 DEF Inv
<1>2. Inv /\ [Next]_vars => Inv'
  BY TypeStep, StreamStep, DelayStep DEF Inv
<1> QED
  BY <1>1, <1>2, PTL DEF Spec

\* useStream, useStream.ts:14-56: there is a stream exactly while the user is signed in
\* with a token, in any order of answers, closes, sign-outs and reloads.
THEOREM StreamSafe == Spec => []StreamWhileSignedIn
<1>1. Inv => StreamWhileSignedIn
  BY DEF Inv
<1> QED
  BY <1>1, LiveViewInvariance, PTL

\* useStream, useStream.ts:40-46: the k-th reconnect in a row waits the first delay
\* doubled k - 1 times, up to the longest, for every longest delay.
THEOREM ReconnectSafe == Spec => []ReconnectLaw
<1>1. Inv => ReconnectLaw
  BY DEF Inv
<1> QED
  BY <1>1, LiveViewInvariance, PTL

-----------------------------------------------------------------------------
(* The scrubber *)

\* A timeline on its way is one the server had.
FetchesArePast == \A f \in 1..MaxFetch : fetches[f] <= polled

\* targetTs is that of the selection, and only requests for it are not cancelled.
TargetIsSelection == target = TargetOf(metas, paused, index)
RequestsForTarget == \A q \in reqs : q.ts = target /\ q.since <= polled

ScrubberInv == ScrubberTypeOK /\ FetchesArePast /\ TargetIsSelection /\ RequestsForTarget
               /\ PausedViewSettles

USE DEF None, Free, Asked

\* An entry of a timeline is one of its snapshots.
LEMMA MetaIsSnapshot ==
    ASSUME NEW m \in Nat \ {0}, NEW j \in Nat
    PROVE  /\ Length(m) \in 1..m /\ Length(m) <= Width
           /\ Meta(m, Lesser(j, Length(m) - 1)) \in 1..m
           /\ Meta(m, 0) \in 1..m
BY ScrubberAssumption DEF Meta, Length, Lesser

\* targetTs is no time, or that of a snapshot of the timeline.
LEMMA TargetIsSnapshot ==
    ASSUME NEW m \in Nat, NEW p, NEW j \in Nat
    PROVE  TargetOf(m, p, j) = None \/ (p /\ m # None /\ TargetOf(m, p, j) \in 1..m)
BY MetaIsSnapshot DEF TargetOf

\* A rendering keeps all of it, if it shows the snapshot it had while paused and none
\* otherwise: a new targetTs leaves one request, its own.
LEMMA RenderStep ==
    ASSUME ScrubberInv,
           NEW m \in 0..polled, NEW p \in BOOLEAN, NEW j \in 0..Width-1, NEW y \in BOOLEAN,
           NEW h, h = hist \/ (h = None /\ ~p), ~p => h = None,
           Render(m, p, j, y, h), polled' = polled, histFor' = histFor,
           forest' \in BOOLEAN, clicks' \in 0..MaxClicks,
           fetches' \in [1..MaxFetch -> {Free, Asked} \cup 0..MaxPolls], FetchesArePast'
    PROVE  ScrubberInv'
<1> USE ScrubberAssumption
<1> DEFINE over == y /\ p /\ AtEnd(m, j)
           ts == TargetOf(m, p /\ ~over, j)
<1>1. /\ metas' = m /\ index' = j /\ paused' = (p /\ ~over) /\ playing' = (y /\ ~over)
      /\ hist' = IF over THEN None ELSE h
      /\ target' = ts
      /\ IF ts = target THEN UNCHANGED <<reqs, failed>>
         ELSE reqs' = (IF ts = None THEN {} ELSE {[ts |-> ts, since |-> polled]}) /\ failed' = FALSE
  BY DEF Render, Abandon
<1> HIDE DEF over
<1>2. /\ polled \in 0..MaxPolls /\ polled \in Nat /\ m \in Nat /\ j \in Nat
      /\ hist \in 0..polled /\ histFor \in 0..polled /\ target \in 0..polled
  BY DEF ScrubberInv, ScrubberTypeOK
<1>3. ts = None \/ (p /\ ~over /\ ts \in 1..m)
  BY <1>2, TargetIsSnapshot
<1>4. TargetIsSelection'
  BY <1>1 DEF TargetIsSelection, TargetOf
<1> HIDE DEF ts
<1>5. RequestsForTarget' /\ reqs' \subseteq Requests
  <2>1. CASE ts = target
    BY <1>1, <2>1 DEF ScrubberInv, ScrubberTypeOK, RequestsForTarget
  <2>2. CASE ts # target /\ ts = None
    BY <1>1, <2>2 DEF RequestsForTarget
  <2>3. CASE ts # target /\ ts # None
    <3>1. reqs' = {[ts |-> ts, since |-> polled]}
      BY <1>1, <2>3
    <3>2. ts \in Snaps /\ polled \in Snaps
      BY <1>2, <1>3, <2>3 DEF Snaps
    <3> QED
      BY <1>1, <1>2, <3>1, <3>2 DEF RequestsForTarget, Requests
  <2> QED
    BY <2>1, <2>2, <2>3
<1>6. PausedViewSettles'
  <2>1. CASE ts = None
    <3>1. reqs' = {}
      <4>1. CASE target = None
        <5>1. reqs' = reqs
          BY <1>1, <2>1, <4>1
        <5>2. \A q \in reqs : q.ts \in 1..MaxPolls /\ q.ts = target
          BY DEF ScrubberInv, ScrubberTypeOK, RequestsForTarget, Requests, Snaps
        <5> QED
          BY <4>1, <5>1, <5>2
      <4>2. CASE target # None
        BY <1>1, <2>1, <4>2
      <4> QED
        BY <4>1, <4>2
    <3>2. ~paused' => hist' = None
      BY <1>1
    <3> QED
      BY <1>1, <2>1, <3>1, <3>2 DEF PausedViewSettles
  <2>2. CASE ts # None
    <3>1. p /\ ~over /\ paused' /\ hist' = hist
      BY <1>1, <1>3, <2>2
    <3>2. CASE ts = target
      BY <1>1, <3>1, <3>2 DEF ScrubberInv, PausedViewSettles
    <3>3. CASE ts # target
      BY <1>1, <2>2, <3>1, <3>3 DEF PausedViewSettles
    <3> QED
      BY <3>2, <3>3
  <2> QED
    BY <2>1, <2>2
<1>7. ScrubberTypeOK'
  <2>1. paused' \in BOOLEAN /\ playing' \in BOOLEAN /\ failed' \in BOOLEAN
    BY <1>1, Zenon DEF ScrubberInv, ScrubberTypeOK
  <2>2. hist' \in 0..polled /\ target' \in 0..polled
    BY <1>1, <1>2, <1>3
  <2> QED
    BY <1>1, <1>2, <1>5, <2>1, <2>2 DEF ScrubberTypeOK
<1> QED
  BY <1>4, <1>5, <1>6, <1>7 DEF ScrubberInv

\* The inductive step, action by action.
LEMMA ScrubberStep == ASSUME ScrubberInv, [ScrubberNext]_scrubberVars PROVE ScrubberInv'
<1> USE ScrubberAssumption
<1>0. /\ ScrubberTypeOK /\ polled \in 0..MaxPolls /\ (~paused => hist = None)
      /\ metas \in 0..polled /\ index \in 0..Width-1 /\ paused \in BOOLEAN /\ playing \in BOOLEAN
      /\ \A f \in 1..MaxFetch : fetches[f] \in {Free, Asked} \cup 0..MaxPolls /\ fetches[f] <= polled
  BY DEF ScrubberInv, ScrubberTypeOK, PausedViewSettles, FetchesArePast
<1>1. CASE TakeSnapshot
  <2>1. /\ polled' = polled + 1 /\ polled' \in 0..MaxPolls
        /\ UNCHANGED <<forest, clicks, fetches, uiVars, histFor, failed>>
    BY <1>0, <1>1 DEF TakeSnapshot
  <2>2. ScrubberTypeOK'
    BY <1>0, <2>1 DEF ScrubberTypeOK, uiVars
  <2>3. FetchesArePast'
    BY <1>0, <2>1 DEF FetchesArePast
  <2>4. TargetIsSelection' /\ PausedViewSettles'
    BY <2>1 DEF ScrubberInv, uiVars, TargetIsSelection, TargetOf, PausedViewSettles
  <2>5. RequestsForTarget'
    <3>1. \A q \in reqs : q.since \in Nat
      BY <1>0 DEF ScrubberTypeOK, Requests, Snaps
    <3> QED
      BY <1>0, <2>1, <3>1 DEF ScrubberInv, uiVars, RequestsForTarget
  <2> QED
    BY <2>2, <2>3, <2>4, <2>5 DEF ScrubberInv
<1>2. ASSUME UNCHANGED <<polled, uiVars, histFor, failed>>, forest' \in BOOLEAN,
             clicks' \in 0..MaxClicks,
             fetches' \in [1..MaxFetch -> {Free, Asked} \cup 0..polled]
      PROVE  ScrubberInv'
  <2>1. fetches' \in [1..MaxFetch -> {Free, Asked} \cup 0..MaxPolls] /\ FetchesArePast'
    BY <1>0, <1>2 DEF FetchesArePast
  <2>2. TargetIsSelection' /\ RequestsForTarget' /\ PausedViewSettles'
    BY <1>2 DEF ScrubberInv, uiVars, TargetIsSelection, TargetOf, RequestsForTarget,
                PausedViewSettles
  <2>3. ScrubberTypeOK'
    BY <1>0, <1>2, <2>1 DEF ScrubberTypeOK, uiVars
  <2> QED
    BY <2>1, <2>2, <2>3 DEF ScrubberInv
<1>3. ASSUME NEW f \in 1..MaxFetch, AskMetas(f) \/ ServeMetas(f) \/ MetasFail(f)
      PROVE  ScrubberInv'
  <2>1. \E x \in {Free, Asked} \cup 0..polled : fetches' = [fetches EXCEPT ![f] = x]
    BY <1>0, <1>3 DEF AskMetas, ServeMetas, MetasFail
  <2>2. fetches \in [1..MaxFetch -> {Free, Asked} \cup 0..polled]
    BY <1>0 DEF ScrubberTypeOK
  <2>3. fetches' \in [1..MaxFetch -> {Free, Asked} \cup 0..polled]
    BY <2>1, <2>2
  <2>4. UNCHANGED <<polled, forest, clicks, uiVars, histFor, failed>>
    BY <1>3 DEF AskMetas, ServeMetas, MetasFail
  <2> QED
    BY <1>0, <1>2, <2>3, <2>4 DEF ScrubberTypeOK
<1>4. CASE SwitchView
  <2>1. fetches' \in [1..MaxFetch -> {Free, Asked} \cup 0..polled]
    BY <1>4 DEF SwitchView
  <2>2. forest' \in BOOLEAN /\ clicks' \in 0..MaxClicks
    BY <1>0, <1>4 DEF SwitchView, ScrubberTypeOK
  <2>3. UNCHANGED <<polled, uiVars, histFor, failed>>
    BY <1>4 DEF SwitchView
  <2> QED
    BY <1>2, <2>1, <2>2, <2>3
<1>5. ASSUME NEW f \in 1..MaxFetch, MetasArrive(f) PROVE ScrubberInv'
  <2>1. fetches[f] \in 0..polled
    BY <1>0, <1>5 DEF MetasArrive
  <2>2. /\ fetches' \in [1..MaxFetch -> {Free, Asked} \cup 0..MaxPolls] /\ FetchesArePast'
        /\ forest' \in BOOLEAN /\ clicks' \in 0..MaxClicks
    BY <1>0, <1>5 DEF MetasArrive, ScrubberTypeOK, FetchesArePast
  <2>3. Render(fetches[f], paused, index, playing, hist) /\ polled' = polled /\ histFor' = histFor
    BY <1>5 DEF MetasArrive
  <2> QED
    BY <1>0, <2>1, <2>2, <2>3, RenderStep
<1>6. ASSUME NEW p \in BOOLEAN, NEW j \in 0..Width-1, NEW y \in BOOLEAN, NEW h,
             h = hist \/ (h = None /\ ~p), ~p => h = None,
             Render(metas, p, j, y, h), UNCHANGED <<polled, forest, fetches, histFor>>,
             UNCHANGED clicks \/ Click
      PROVE  ScrubberInv'
  <2>1. /\ fetches' \in [1..MaxFetch -> {Free, Asked} \cup 0..MaxPolls] /\ FetchesArePast'
        /\ forest' \in BOOLEAN /\ clicks' \in 0..MaxClicks
    BY <1>0, <1>6 DEF Click, ScrubberTypeOK, FetchesArePast
  <2> QED
    BY <1>0, <1>6, <2>1, RenderStep
<1>7. ASSUME NEW j \in 0..Width-1, Seek(j) PROVE ScrubberInv'
  BY <1>0, <1>6, <1>7 DEF Seek
<1>8. CASE GoLive
  BY <1>0, <1>6, <1>8 DEF GoLive
<1>9. CASE TogglePlay
  <2>1. (IF AtEnd(metas, index) THEN 0 ELSE index) \in 0..Width-1
    BY <1>0
  <2>2. CASE playing
    BY <1>0, <1>6, <1>9, <2>2 DEF TogglePlay
  <2>3. CASE ~playing
    BY <1>0, <1>6, <1>9, <2>1, <2>3 DEF TogglePlay
  <2> QED
    BY <2>2, <2>3
<1>10. CASE ReplayTick
  <2>1. Length(metas) \in Int /\ Length(metas) <= Width
    BY <1>0 DEF Length, Lesser
  <2>2. NextIndex(index) \in 0..Width-1
    BY <1>0, <2>1 DEF NextIndex, Lesser, Greater
  <2> QED
    BY <1>0, <1>6, <1>10, <2>2 DEF ReplayTick
<1>11. ASSUME NEW q \in reqs, HistArrives(q) PROVE ScrubberInv'
  <2>1. q.ts = target /\ q.ts \in 1..MaxPolls /\ q.since \in 1..MaxPolls /\ q.since <= polled
    BY <1>0 DEF ScrubberInv, RequestsForTarget, ScrubberTypeOK, Requests, Snaps
  <2>2. PICK k \in q.since..polled : hist' = Nearest(q.ts, k)
    BY <1>11 DEF HistArrives
  <2>3. k \in Nat \ {0} /\ k <= polled
    BY <1>0, <2>1
  <2>4. Meta(k, 0) \in 1..k
    BY <2>3, MetaIsSnapshot
  <2>5. target \in 0..polled
    BY <1>0 DEF ScrubberTypeOK
  <2>6. hist' \in 0..polled /\ hist' >= target
    BY <1>0, <2>1, <2>2, <2>3, <2>4, <2>5 DEF Nearest, Greater
  <2>7. paused /\ target # None
    BY <1>0, <2>1 DEF ScrubberInv, PausedViewSettles
  <2>8. /\ histFor' = target /\ reqs' = reqs \ {q}
        /\ UNCHANGED <<polled, forest, clicks, fetches, metas, paused, index, playing, target, failed>>
    BY <1>11, <2>1 DEF HistArrives
  <2>9. ScrubberTypeOK'
    BY <1>0, <2>5, <2>6, <2>8 DEF ScrubberTypeOK
  <2>10. FetchesArePast' /\ TargetIsSelection' /\ RequestsForTarget'
    BY <2>8 DEF ScrubberInv, FetchesArePast, TargetIsSelection, TargetOf, RequestsForTarget
  <2>11. PausedViewSettles'
    BY <2>6, <2>7, <2>8 DEF PausedViewSettles
  <2> QED
    BY <2>9, <2>10, <2>11 DEF ScrubberInv
<1>12. ASSUME NEW q \in reqs, HistFails(q) PROVE ScrubberInv'
  <2>1. /\ failed' = TRUE /\ reqs' = reqs \ {q}
        /\ UNCHANGED <<polled, forest, clicks, fetches, metas, paused, index, playing, target, hist, histFor>>
    BY <1>12 DEF HistFails
  <2>2. failed' \in BOOLEAN
    BY <2>1, Zenon
  <2>3. ScrubberTypeOK'
    BY <1>0, <2>1, <2>2 DEF ScrubberTypeOK
  <2>4. FetchesArePast' /\ TargetIsSelection' /\ RequestsForTarget'
    BY <2>1 DEF ScrubberInv, FetchesArePast, TargetIsSelection, TargetOf, RequestsForTarget
  <2>5. PausedViewSettles'
    BY <2>1 DEF ScrubberInv, PausedViewSettles
  <2> QED
    BY <2>3, <2>4, <2>5 DEF ScrubberInv
<1>13. CASE UNCHANGED scrubberVars
  <2>1. fetches \in [1..MaxFetch -> {Free, Asked} \cup 0..polled]
    BY <1>0 DEF ScrubberTypeOK
  <2> QED
    BY <1>0, <1>2, <1>13, <2>1 DEF scrubberVars, ScrubberTypeOK
<1> QED
  BY <1>1, <1>3, <1>4, <1>5, <1>7, <1>8, <1>9, <1>10, <1>11, <1>12, <1>13 DEF ScrubberNext

\* The invariant of the scrubber.
THEOREM ScrubberInvariance == ScrubberSpec => []ScrubberInv
<1>1. ScrubberInit => ScrubberInv
  <2> SUFFICES ASSUME ScrubberInit PROVE ScrubberInv
    OBVIOUS
  <2> USE ScrubberAssumption DEF ScrubberInit
  <2>1. forest \in BOOLEAN /\ paused \in BOOLEAN /\ playing \in BOOLEAN /\ failed \in BOOLEAN
    BY Zenon
  <2>2. ScrubberTypeOK
    BY <2>1 DEF ScrubberTypeOK
  <2>3. FetchesArePast /\ RequestsForTarget /\ PausedViewSettles
    BY DEF FetchesArePast, RequestsForTarget, PausedViewSettles
  <2>4. TargetIsSelection
    BY DEF TargetIsSelection, TargetOf
  <2> QED
    BY <2>2, <2>3, <2>4 DEF ScrubberInv
<1>2. ScrubberInv /\ [ScrubberNext]_scrubberVars => ScrubberInv'
  BY ScrubberStep
<1> QED
  BY <1>1, <1>2, PTL DEF ScrubberSpec

\* App, App.tsx:85-125: what is on display while paused is what is selected, and live
\* nothing of it is left, for every order in which answers to overlapping requests
\* come back, get lost or are overtaken by clicks.
THEOREM ScrubberSettles == ScrubberSpec => []PausedViewSettles
<1>1. ScrubberInv => PausedViewSettles
  BY DEF ScrubberInv
<1> QED
  BY <1>1, ScrubberInvariance, PTL
=============================================================================
