----------------------------- MODULE LiveStream -----------------------------
(***************************************************************************)
(* The live path of pglockr: the poller goroutine puts every snapshot into *)
(* the store (Poller.pollOnce, Store.Put) while one goroutine per          *)
(* WebSocket client runs Server.handleStream.  They meet in the store: the *)
(* ring, the map of subscribers and one channel of capacity 1 per          *)
(* subscription.  An action is what runs between two points where another  *)
(* goroutine can interleave: a critical section of Store.mu, a channel     *)
(* operation, a network call.                                              *)
(*                                                                         *)
(* A connection is known by the id Subscribe gives it.  The n-th snapshot  *)
(* polled is the number n.                                                 *)
(***************************************************************************)
EXTENDS SnapshotRing

CONSTANTS MaxPolls,  \* bound: snapshots taken in a behaviour
          MaxConns   \* bound: connections of one life of the process

ASSUME MaxPollsAssumption == MaxPolls \in Nat
ASSUME MaxConnsAssumption == MaxConns \in Nat

VARIABLES
    proc,       \* the process: "up", or "panicked" once a goroutine panicked
    polls,      \* number of snapshots taken so far
    connected,  \* Poller.status.Connected
    put,        \* where Put is: "idle" (not in Put), "save" or "send"
    left,       \* Put's copy of the subscriber channels, those not served yet
    nextID,     \* Store.nextID
    subs,       \* ids in Store.subs
    closed,     \* ids whose channel is closed
    chan,       \* the snapshot in every channel (of capacity 1), or NoSnap
    at,         \* where every handleStream is
    peer,       \* TRUE while the client is at the other end
    first,      \* frame handleStream got from Latest, NoSnap if none
    pushed,     \* last frame handleStream took from its channel
    seen        \* last frame writeWS wrote without an error

connVars == <<at, peer, first, pushed, seen>>
hubVars == <<nextID, subs, closed, chan>>
pollVars == <<polls, connected, put, left>>
vars == <<ringVars, proc, pollVars, hubVars, connVars>>

Conns == 0..MaxConns-1
Places == {"none", "latest", "first", "loop", "write", "ping", "exit", "done"}

TypeOK == /\ buf \in [0..Cap-1 -> 0..MaxPolls]
          /\ head \in 0..Cap-1
          /\ size \in 0..Cap
          /\ proc \in {"up", "panicked"}
          /\ polls \in 0..MaxPolls
          /\ connected \in BOOLEAN
          /\ put \in {"idle", "save", "send"}
          /\ left \in SUBSET Conns
          /\ nextID \in 0..MaxConns
          /\ subs \in SUBSET Conns
          /\ closed \in SUBSET Conns
          /\ chan \in [Conns -> 0..MaxPolls]
          /\ at \in [Conns -> Places]
          /\ peer \in [Conns -> BOOLEAN]
          /\ first \in [Conns -> 0..MaxPolls]
          /\ pushed \in [Conns -> 0..MaxPolls]
          /\ seen \in [Conns -> 0..MaxPolls]

\* Everything but the number of snapshots taken, as a new process finds it.
Fresh(x) == [c \in Conns |-> x]

Init == /\ RingInit
        /\ proc = "up"
        /\ polls = 0 /\ connected = FALSE /\ put = "idle" /\ left = {}
        /\ nextID = 0 /\ subs = {} /\ closed = {} /\ chan = Fresh(NoSnap)
        /\ at = Fresh("none") /\ peer = Fresh(FALSE)
        /\ first = Fresh(NoSnap) /\ pushed = Fresh(NoSnap) /\ seen = Fresh(NoSnap)

-----------------------------------------------------------------------------
(* Faulty variants, for the mutants of PROJECT.json *)

\* setOK before the error is looked at.
PollFailsConnected == /\ proc = "up" /\ put = "idle"
                      /\ connected' = TRUE
                      /\ UNCHANGED <<ringVars, proc, polls, put, left, hubVars, connVars>>

SendVariant(c, slot, rest) ==
    /\ proc = "up" /\ put = "send" /\ c \in left /\ c \notin closed
    /\ chan' = [chan EXCEPT ![c] = slot]
    /\ left' = rest
    /\ UNCHANGED <<ringVars, proc, polls, connected, put, nextID, subs, closed, connVars>>

\* A send that blocks; a subscriber served again and again; a channel without
\* a buffer, where nobody is ever ready to receive.
PutSendBlocking(c) == chan[c] = NoSnap /\ SendVariant(c, polls, left \ {c})
PutSendRepeated(c) == SendVariant(c, IF chan[c] = NoSnap THEN polls ELSE chan[c], left)
PutSendUnbuffered(c) == SendVariant(c, chan[c], left \ {c})

EndVariant(c, place, to) ==
    /\ proc = "up" /\ at[c] \in place
    /\ at' = [at EXCEPT ![c] = to]
    /\ UNCHANGED <<ringVars, proc, pollVars, hubVars, peer, first, pushed, seen>>

\* A failed write tried again with the first frame; a failed ping overlooked.
WriteFailsResends(c) == EndVariant(c, {"first", "write"}, "first")
PingFailsStays(c) == EndVariant(c, {"ping"}, "loop")

\* unsub closes the channel and leaves it in the map.
UnsubscribeKeeps(c) == /\ proc = "up" /\ at[c] = "exit"
                       /\ closed' = closed \cup {c}
                       /\ at' = [at EXCEPT ![c] = "done"]
                       /\ UNCHANGED <<ringVars, proc, pollVars, nextID, subs, chan,
                                      peer, first, pushed, seen>>

-----------------------------------------------------------------------------
(* The poller goroutine *)

\* Source.Snapshot fails: setError.
PollFails == /\ proc = "up" /\ put = "idle"
             /\ connected' = FALSE
             /\ UNCHANGED <<ringVars, proc, polls, put, left, hubVars, connVars>>

\* Source.Snapshot succeeds, Build, and Put up to its unlock.
PutRing == /\ proc = "up" /\ put = "idle" /\ polls < MaxPolls
           /\ polls' = polls + 1
           /\ RingPut(polls + 1)
           /\ left' = subs
           /\ put' = "save"
           /\ UNCHANGED <<proc, connected, hubVars, connVars>>

\* Persister.Save returns, whatever its outcome (see module DurableHistory).
PutSaved == /\ proc = "up" /\ put = "save"
            /\ put' = "send"
            /\ UNCHANGED <<ringVars, proc, polls, connected, left, hubVars, connVars>>

\* One round of Put's last loop: a send that never blocks.
PutSend(c) == /\ proc = "up" /\ put = "send" /\ c \in left
              /\ c \notin closed
              /\ chan' = IF chan[c] = NoSnap THEN [chan EXCEPT ![c] = polls] ELSE chan
              /\ left' = left \ {c}
              /\ UNCHANGED <<ringVars, proc, polls, connected, put, nextID, subs,
                             closed, connVars>>

\* The same round when the subscriber has gone since the copy was made: a send
\* on a closed channel, which ends the process.
PutPanics(c) == /\ proc = "up" /\ put = "send" /\ c \in left
                /\ c \in closed
                /\ proc' = "panicked"
                /\ UNCHANGED <<ringVars, pollVars, hubVars, connVars>>

\* Put returns and pollOnce calls setOK.
PutReturns == /\ proc = "up" /\ put = "send" /\ left = {}
              /\ put' = "idle"
              /\ connected' = TRUE
              /\ UNCHANGED <<ringVars, proc, polls, left, hubVars, connVars>>

-----------------------------------------------------------------------------
(* handleStream, one goroutine per connection *)

\* A client connects and handleStream subscribes.
Subscribe == /\ proc = "up" /\ nextID < MaxConns
             /\ nextID' = nextID + 1
             /\ subs' = subs \cup {nextID}
             /\ at' = [at EXCEPT ![nextID] = "latest"]
             /\ peer' = [peer EXCEPT ![nextID] = TRUE]
             /\ UNCHANGED <<ringVars, proc, pollVars, closed, chan, first, pushed, seen>>

\* Store.Latest, to send the current snapshot right away.
ReadLatest(c) == /\ proc = "up" /\ at[c] = "latest"
                 /\ first' = [first EXCEPT ![c] = IF HasLatest THEN Latest ELSE NoSnap]
                 /\ at' = [at EXCEPT ![c] = IF HasLatest THEN "first" ELSE "loop"]
                 /\ UNCHANGED <<ringVars, proc, pollVars, hubVars, peer, pushed, seen>>

\* The loop's select takes a snapshot from the channel.
Receive(c) == /\ proc = "up" /\ at[c] = "loop" /\ chan[c] # NoSnap
              /\ pushed' = [pushed EXCEPT ![c] = chan[c]]
              /\ chan' = [chan EXCEPT ![c] = NoSnap]
              /\ at' = [at EXCEPT ![c] = "write"]
              /\ UNCHANGED <<ringVars, proc, pollVars, nextID, subs, closed,
                             peer, first, seen>>

\* writeWS returns: nil (even a peer that has gone may leave room in the socket
\* buffer) or an error (the peer is gone, or ten seconds have passed).
WriteOK(c) == /\ proc = "up" /\ at[c] \in {"first", "write"}
              /\ seen' = [seen EXCEPT ![c] = IF at[c] = "first" THEN first[c] ELSE pushed[c]]
              /\ at' = [at EXCEPT ![c] = "loop"]
              /\ UNCHANGED <<ringVars, proc, pollVars, hubVars, peer, first, pushed>>

WriteFails(c) == /\ proc = "up" /\ at[c] \in {"first", "write"}
                 /\ at' = [at EXCEPT ![c] = "exit"]
                 /\ UNCHANGED <<ringVars, proc, pollVars, hubVars, peer, first, pushed, seen>>

\* The select takes the ticker; Ping then returns nil or fails within ten seconds.  The
\* library sees a pong only while someone reads the connection, which handleStream never
\* does: PingOK is the branch the code has for an answer, PingFails the one it takes.
PingStarts(c) == /\ proc = "up" /\ at[c] = "loop"
                 /\ at' = [at EXCEPT ![c] = "ping"]
                 /\ UNCHANGED <<ringVars, proc, pollVars, hubVars, peer, first, pushed, seen>>

PingOK(c) == /\ proc = "up" /\ at[c] = "ping" /\ peer[c]
             /\ at' = [at EXCEPT ![c] = "loop"]
             /\ UNCHANGED <<ringVars, proc, pollVars, hubVars, peer, first, pushed, seen>>

PingFails(c) == /\ proc = "up" /\ at[c] = "ping"
                /\ at' = [at EXCEPT ![c] = "exit"]
                /\ UNCHANGED <<ringVars, proc, pollVars, hubVars, peer, first, pushed, seen>>

\* The select takes ctx.Done().  Nothing depends on it: after the upgrade the server
\* no longer cancels r.Context() for a client that goes away.
CtxDone(c) == /\ proc = "up" /\ at[c] = "loop" /\ ~peer[c]
              /\ at' = [at EXCEPT ![c] = "exit"]
              /\ UNCHANGED <<ringVars, proc, pollVars, hubVars, peer, first, pushed, seen>>

\* The deferred unsub: delete from the map and close the channel.
Unsubscribe(c) == /\ proc = "up" /\ at[c] = "exit"
                  /\ subs' = subs \ {c}
                  /\ closed' = closed \cup {c}
                  /\ at' = [at EXCEPT ![c] = "done"]
                  /\ UNCHANGED <<ringVars, proc, pollVars, nextID, chan,
                                 peer, first, pushed, seen>>

-----------------------------------------------------------------------------
(* Environment *)

\* The client goes away, at any moment.
Leave(c) == /\ peer[c]
            /\ peer' = [peer EXCEPT ![c] = FALSE]
            /\ UNCHANGED <<ringVars, proc, pollVars, hubVars, at, first, pushed, seen>>

\* The supervisor starts the process again: all of its memory is new.
Restart == /\ proc = "panicked"
           /\ proc' = "up" /\ UNCHANGED polls
           /\ buf' = [i \in 0..Cap-1 |-> NoSnap] /\ head' = 0 /\ size' = 0
           /\ connected' = FALSE /\ put' = "idle" /\ left' = {}
           /\ nextID' = 0 /\ subs' = {} /\ closed' = {} /\ chan' = Fresh(NoSnap)
           /\ at' = Fresh("none") /\ peer' = Fresh(FALSE)
           /\ first' = Fresh(NoSnap) /\ pushed' = Fresh(NoSnap) /\ seen' = Fresh(NoSnap)

Poller == \/ PollFails \/ PutRing \/ PutSaved \/ PutReturns
          \/ \E c \in Conns : PutSend(c) \/ PutPanics(c)

Write(c) == WriteOK(c) \/ WriteFails(c)
Ping(c) == PingOK(c) \/ PingFails(c)

Stream(c) == \/ ReadLatest(c) \/ Receive(c) \/ Write(c)
             \/ PingStarts(c) \/ Ping(c) \/ CtxDone(c) \/ Unsubscribe(c)

Next == \/ Poller \/ Subscribe \/ Restart
        \/ \E c \in Conns : Stream(c) \/ Leave(c)

Spec == Init /\ [][Next]_vars

\* A goroutine that can run runs: the poller inside Put (Save ends within five
\* seconds) and every handler (writeWS and Ping end within ten).  Nothing makes
\* clients come, leave or read, or polls succeed.  Between a ticker and a
\* channel that are both ready select draws at random, so neither a snapshot
\* that waits in the channel nor a tick is passed over for ever: strong fairness.
PollerFairness ==
    /\ WF_vars(PutSaved) /\ WF_vars(PutReturns)
    /\ WF_vars(\E c \in Conns : PutSend(c) \/ PutPanics(c))

StreamFairness ==
    \A c \in Conns : /\ WF_vars(ReadLatest(c)) /\ SF_vars(Receive(c))
                     /\ WF_vars(Write(c)) /\ SF_vars(PingStarts(c))
                     /\ WF_vars(Ping(c)) /\ WF_vars(Unsubscribe(c))

PollerSpec == Spec /\ PollerFairness

-----------------------------------------------------------------------------
(* Properties *)

\* Channels open while in use: Store.subs holds exactly the subscriptions whose
\* handler has not run its deferred unsub, and those are the ones whose channel
\* is open.  So a handler in its loop never receives from a closed channel and
\* no handler leaves an entry behind.
SubscribersAreLive ==
    /\ subs = {c \in Conns : at[c] \notin {"none", "done"}}
    /\ closed = {c \in Conns : at[c] = "done"}

\* Store.Put keeps the ring an unbroken run of the latest polls, and no frame
\* held in a channel, being written or already seen is ahead of it: a client
\* that saw a frame finds it, or a newer one, under /snapshot.
RingHasNewest ==
    /\ \A i \in 1..size : Retained[i] = polls - size + i
    /\ size = 0 => \A c \in Conns : first[c] = NoSnap /\ pushed[c] = NoSnap /\ chan[c] = NoSnap
    /\ \A c \in Conns : first[c] <= polls /\ pushed[c] <= polls /\ chan[c] <= polls

\* What waits in a subscriber's channel, and what Put has still to send to it,
\* is newer than everything the handler has taken from that channel.
PushesAdvance ==
    \A c \in Conns :
        /\ chan[c] # NoSnap => pushed[c] < chan[c]
        /\ c \in left => pushed[c] < polls /\ chan[c] < polls

\* Poller.status says Connected only if the ring has a snapshot to show:
\* setOK runs after Put.
ConnectedHasSnapshot == connected => HasLatest

\* stream.go:38: a stream steps back to an older frame only from the frame that Latest
\* gave it on connecting, never from one that was pushed.
BackOnlyFromFirst ==
    [][\A c \in Conns : seen'[c] < seen[c] => proc' # proc \/ seen[c] = first[c]]_vars

\* The ring implements the sliding window of the last Cap snapshots.
Window == INSTANCE SlidingWindow
              WITH Width <- Cap, Snapshots <- 1..MaxPolls, window <- Retained
RingIsWindow == Window!Spec

\* store.go:86: a slow client never stalls the poller.  Put ends whatever the
\* handlers and their clients do or do not do (or the process panics): this one
\* needs the fairness of the poller alone.
PutEnds == put # "idle" ~> (put = "idle" \/ proc = "panicked")

\* stream.go:40: with fair handlers, a connection whose client is gone is found
\* out and released.
GoneIsReleased == StreamFairness => \A c \in Conns :
    (at[c] # "none" /\ ~peer[c]) ~> (c \notin subs \/ proc = "panicked")

\* store.go:87: with fair handlers, a client that waits with an empty channel when
\* Put publishes gets that snapshot or a newer one, unless its connection ends.
NextFrameArrives == StreamFairness => \A c \in Conns, n \in 1..MaxPolls :
    (at[c] = "loop" /\ chan[c] = NoSnap /\ c \in left /\ polls = n)
        ~> (seen[c] >= n \/ at[c] \in {"none", "exit", "done"} \/ proc = "panicked")
=============================================================================
