------------------------------ MODULE Scrubber ------------------------------
(***************************************************************************)
(* The history scrubber of the web UI: the timeline polled by usePolled,   *)
(* the selection, its replay, and the fetch of the selected snapshot       *)
(* (App.tsx).  An action is one event of the browser (a click, a timer, a  *)
(* response) with the renderings and effects it leads to.                  *)
(*                                                                         *)
(* Snapshots are numbered as polled; the server retains the last Width of  *)
(* them.  So a timeline is known by the newest snapshot it lists (0: none) *)
(***************************************************************************)
EXTENDS Integers

CONSTANTS Width,     \* snapshots the server retains
          MaxPolls,  \* bound: snapshots taken in a behaviour
          MaxFetch,  \* bound: requests for the timeline in flight
          MaxClicks  \* bound: clicks in a behaviour, those back to the forest not counted

ASSUME ScrubberAssumption == /\ Width \in Nat \ {0} /\ MaxPolls \in Nat
                             /\ MaxFetch \in Nat /\ MaxClicks \in Nat

VARIABLES
    polled,   \* the server's newest snapshot
    forest,   \* whether the view is the forest, where the scrubber is
    clicks,   \* clicks so far
    fetches,  \* requests for the timeline: Free, Asked, or the response on its way
    metas,    \* the timeline
    paused, index, playing,
    target,   \* targetTs
    reqs,     \* requests for the snapshot at targetTs that are not cancelled
    hist,     \* histSnapshot
    \* What the properties speak of.
    histFor,  \* the timestamp hist was fetched for
    failed    \* whether the request for target failed

uiVars == <<metas, paused, index, playing, target, reqs, hist>>
scrubberVars == <<polled, forest, clicks, fetches, uiVars, histFor, failed>>

None == 0
Free == -2
Asked == -1

Lesser(a, b) == IF a < b THEN a ELSE b
Greater(a, b) == IF a < b THEN b ELSE a

\* The length of timeline k, and its i-th entry, counted from 0.
Length(k) == Lesser(k, Width)
Meta(k, i) == k - Length(k) + 1 + i

\* The snapshot the server answers for ts while k is its newest.
Nearest(ts, k) == Greater(ts, Meta(k, 0))

Snaps == 1..MaxPolls
Requests == [ts : Snaps, since : Snaps]

ScrubberTypeOK == /\ polled \in 0..MaxPolls /\ forest \in BOOLEAN /\ clicks \in 0..MaxClicks
                  /\ fetches \in [1..MaxFetch -> {Free, Asked} \cup 0..MaxPolls]
                  /\ metas \in 0..polled
                  /\ paused \in BOOLEAN /\ playing \in BOOLEAN /\ failed \in BOOLEAN
                  /\ index \in 0..Width-1
                  /\ target \in 0..polled
                  /\ reqs \subseteq Requests
                  /\ hist \in 0..polled /\ histFor \in 0..polled

\* The signed-in App: usePolled asks for the timeline at once.
ScrubberInit == /\ polled \in 0..MaxPolls /\ forest = TRUE /\ clicks = 0
                /\ fetches = [f \in 1..MaxFetch |-> IF f = 1 THEN Asked ELSE Free]
                /\ metas = None /\ paused = FALSE /\ index = 0 /\ playing = FALSE
                /\ target = None /\ reqs = {} /\ hist = None
                /\ histFor = None /\ failed = FALSE

-----------------------------------------------------------------------------
(* Faulty variants, for the mutants of PROJECT.json *)

\* Requests are cancelled only when live is back.
AbandonLive(R, ts) == IF ts = None THEN {} ELSE R

\* The replay stops one short of the end.
StepShort(i) == Lesser(i + 1, Greater(0, Length(metas) - 2))

-----------------------------------------------------------------------------
(* Rendering and effects *)

\* What is left of the requests in flight when targetTs becomes ts: the effect
\* that sent them is cleaned up, and their answers are ignored.
Abandon(R, ts) == {}

\* Whether a replay at entry i of timeline m has reached the end.
AtEnd(m, i) == Length(m) > 0 /\ i >= Length(m) - 1

\* targetTs, when App renders with these.
TargetOf(m, p, i) == IF p /\ m # None THEN Meta(m, Lesser(i, Length(m) - 1)) ELSE None

\* App renders timeline m, entry i, paused p, replay y and snapshot h: a replay
\* at the end goes back to live, and a new targetTs is asked for.
Render(m, p, i, y, h) ==
    LET ends == y /\ p /\ AtEnd(m, i)
        ts == TargetOf(m, p /\ ~ends, i)
    IN  /\ metas' = m /\ index' = i
        /\ paused' = (p /\ ~ends) /\ playing' = (y /\ ~ends)
        /\ hist' = IF ends THEN None ELSE h
        /\ target' = ts
        /\ IF ts = target THEN UNCHANGED <<reqs, failed>>
           ELSE /\ reqs' = Abandon(reqs, ts) \cup
                             (IF ts = None THEN {} ELSE {[ts |-> ts, since |-> polled]})
                /\ failed' = FALSE

-----------------------------------------------------------------------------
(* The server and usePolled *)

TakeSnapshot == /\ polled < MaxPolls /\ polled' = polled + 1
                /\ UNCHANGED <<forest, clicks, fetches, uiVars, histFor, failed>>

\* The timer: another request, whether or not the last one is answered.
AskMetas(f) == /\ forest /\ fetches[f] = Free
               /\ fetches' = [fetches EXCEPT ![f] = Asked]
               /\ UNCHANGED <<polled, forest, clicks, uiVars, histFor, failed>>

ServeMetas(f) == /\ fetches[f] = Asked
                 /\ fetches' = [fetches EXCEPT ![f] = polled]
                 /\ UNCHANGED <<polled, forest, clicks, uiVars, histFor, failed>>

\* A response arrives, in any order; or none does, and the timeline stays.
MetasArrive(f) == /\ fetches[f] >= 0
                  /\ fetches' = [fetches EXCEPT ![f] = Free]
                  /\ Render(fetches[f], paused, index, playing, hist)
                  /\ UNCHANGED <<polled, forest, clicks, histFor>>

MetasFail(f) == /\ fetches[f] # Free
                /\ fetches' = [fetches EXCEPT ![f] = Free]
                /\ UNCHANGED <<polled, forest, clicks, uiVars, histFor, failed>>

\* Another tab and back: the effect of usePolled is cleaned up, or starts over.
SwitchView == /\ IF forest THEN clicks < MaxClicks /\ clicks' = clicks + 1
                 ELSE UNCHANGED clicks
              /\ forest' = ~forest
              /\ fetches' = [f \in 1..MaxFetch |-> IF f = 1 /\ ~forest THEN Asked ELSE Free]
              /\ UNCHANGED <<polled, uiVars, histFor, failed>>

-----------------------------------------------------------------------------
(* The selected snapshot *)

\* The server answers the request at any time between its sending and its return.
HistArrives(q) == /\ q \in reqs /\ reqs' = reqs \ {q}
                  /\ \E k \in q.since..polled : hist' = Nearest(q.ts, k)
                  /\ histFor' = q.ts
                  /\ UNCHANGED <<polled, forest, clicks, fetches, metas, paused, index,
                                 playing, target, failed>>

HistFails(q) == /\ q \in reqs /\ reqs' = reqs \ {q}
                /\ failed' = TRUE
                /\ UNCHANGED <<polled, forest, clicks, fetches, metas, paused, index,
                               playing, target, hist, histFor>>

-----------------------------------------------------------------------------
(* The controls *)

Click == forest /\ clicks < MaxClicks /\ clicks' = clicks + 1

Seek(i) == /\ Click /\ i \in 0..Length(metas)-1
           /\ Render(metas, TRUE, i, playing, hist)
           /\ UNCHANGED <<polled, forest, fetches, histFor>>

GoLive == /\ Click
          /\ Render(metas, FALSE, index, FALSE, None)
          /\ UNCHANGED <<polled, forest, fetches, histFor>>

\* The play button: pause the replay where it is, or start it (from the
\* beginning if the selection is at the end).
TogglePlay == /\ Click /\ Length(metas) > 0
              /\ IF playing THEN Render(metas, paused, index, FALSE, hist)
                 ELSE Render(metas, TRUE, IF AtEnd(metas, index) THEN 0 ELSE index, TRUE, hist)
              /\ UNCHANGED <<polled, forest, fetches, histFor>>

\* The timer of the replay.  (The effect starts it anew when the length of the timeline
\* changes; that is left out, for it fires every second and the timeline is polled every
\* second and a half.)
NextIndex(i) == Lesser(i + 1, Greater(0, Length(metas) - 1))
ReplayTick == /\ playing
              /\ Render(metas, paused, NextIndex(index), playing, hist)
              /\ UNCHANGED <<polled, forest, clicks, fetches, histFor>>

ScrubberNext == \/ TakeSnapshot \/ SwitchView \/ GoLive \/ TogglePlay \/ ReplayTick
                \/ \E f \in 1..MaxFetch : \/ AskMetas(f) \/ ServeMetas(f)
                                          \/ MetasArrive(f) \/ MetasFail(f)
                \/ \E q \in reqs : HistArrives(q) \/ HistFails(q)
                \/ \E i \in 0..Width-1 : Seek(i)

ScrubberSpec == ScrubberInit /\ [][ScrubberNext]_scrubberVars

\* setInterval fires as long as the replay is on.
FairScrubber == ScrubberSpec /\ WF_scrubberVars(ReplayTick)

-----------------------------------------------------------------------------
(* Properties *)

\* Paused with no answer outstanding, the forest shown is the one fetched for the
\* selected time, or the oldest still retained, however often the selection
\* changed while answers were on their way; only a failed request leaves
\* another one standing.  Live, nothing of the history is left, in the view or on its
\* way: no old forest shows up at the next pause.
PausedViewSettles ==
    /\ target # None /\ reqs = {} /\ ~failed => histFor = target /\ hist >= target
    /\ ~paused => hist = None /\ reqs = {}

\* A replay comes to its end, unless the timeline is empty, though the timeline
\* changes its length and entries are clicked meanwhile.
ReplayEnds == []<>(~playing \/ metas = None)
=============================================================================
