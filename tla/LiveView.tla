------------------------------ MODULE LiveView ------------------------------
(***************************************************************************)
(* A snapshot on its way from the poll to the screen: sign-in (App.tsx     *)
(* checkAuth, Login), the WebSocket with its reconnects (useStream), the   *)
(* server's side of that connection (Store.Put and Subscribe,              *)
(* handleStream), and the snapshot on display, which both the stream and a *)
(* REST request at sign-in set.  An action is one event of the browser     *)
(* with the effects it leads to, or one step of the server; Put is a       *)
(* single step here, LiveStream takes it apart.                            *)
(*                                                                         *)
(* Polls go on for ever.  One of them is singled out: a snapshot is New    *)
(* from that poll on and Old before, so what holds of New holds of every   *)
(* snapshot.  Delays are in units of the first one.                        *)
(***************************************************************************)
EXTENDS Integers, Sequences

CONSTANTS Proxy,     \* whether an SSO proxy signs the user in without a token
          MaxDelay,  \* longest delay before a reconnect: 20 in the code
          MaxWire,   \* bound: frames in flight; the server's write waits for room
          MaxSeeds,  \* bound: REST requests in flight
          TriesCap   \* bound: failed connections are counted up to this many

ASSUME LiveViewAssumption == /\ Proxy \in BOOLEAN /\ MaxDelay \in Nat \ {0}
                             /\ MaxWire \in Nat \ {0} /\ MaxSeeds \in Nat /\ TriesCap \in Nat \ {0}
                             /\ 2 ^ (TriesCap - 1) >= MaxDelay

VARIABLES
    newest,  \* the server's newest snapshot
    srv,     \* handleStream of the connection: "none", "latest" (subscribed) or "loop"
    chan,    \* the snapshot in its channel
    wire,    \* frames written and not yet delivered
    auth,    \* authState
    token,   \* whether localStorage has a token
    ws,      \* useStream: "off", "connecting", "open" or "retry" (timer running)
    backoff, \* backoff of useStream
    delay,   \* what the timer was last set to
    tries,   \* connections that ended since the last one opened, up to TriesCap
    seeds,   \* REST requests: Unused, Sent, or the response on its way
    live     \* liveSnapshot

serverVars == <<newest, srv, chan, wire>>
retryVars == <<backoff, delay, tries>>
vars == <<serverVars, auth, token, ws, retryVars, seeds, live>>

NoSnap == 0
Old == 1
New == 2
Unused == -2
Sent == -1

Shorter(a, b) == IF a < b THEN a ELSE b

TypeOK == /\ newest \in NoSnap..New /\ token \in BOOLEAN
          /\ srv \in {"none", "latest", "loop"} /\ chan \in NoSnap..New
          /\ wire \in Seq({Old, New}) /\ Len(wire) <= MaxWire
          /\ auth \in {"checking", "needauth", "authed"}
          /\ ws \in {"off", "connecting", "open", "retry"}
          /\ backoff \in 1..MaxDelay /\ delay \in 0..MaxDelay /\ tries \in 0..TriesCap
          /\ live \in NoSnap..New
          /\ seeds \in [1..MaxSeeds -> {Unused, Sent, Old, New}]

\* The page is loaded, with or without a token of an earlier visit.
Init == /\ newest = NoSnap /\ srv = "none" /\ chan = NoSnap /\ wire = << >>
        /\ auth = "checking" /\ token \in BOOLEAN
        /\ ws = "off" /\ backoff = 1 /\ delay = 0 /\ tries = 0
        /\ seeds = [s \in 1..MaxSeeds |-> Unused]
        /\ live = NoSnap

-----------------------------------------------------------------------------
(* Faulty variants, for the mutants of PROJECT.json *)

\* An opened connection that leaves the delay as it is; a cleanup that leaves the
\* timer running; a frame that only seeds the display.
WsOpensPatiently == /\ ws = "connecting" /\ srv # "none" /\ ws' = "open" /\ tries' = 0
                    /\ UNCHANGED <<serverVars, auth, token, backoff, delay, seeds, live>>
CloseStreamOnly == /\ ws' = IF ws = "retry" THEN ws ELSE "off"
                   /\ srv' = "none" /\ chan' = NoSnap /\ wire' = << >>
WsFrameOnce == /\ ws = "open" /\ wire # << >>
               /\ live' = IF live = NoSnap THEN Head(wire) ELSE live
               /\ wire' = Tail(wire)
               /\ UNCHANGED <<newest, srv, chan, auth, token, ws, retryVars, seeds>>

-----------------------------------------------------------------------------
(* The server *)

\* A poll succeeds: Put into the ring, and into the channel unless that is full.
Poll == /\ newest' \in {Old, New} /\ newest' >= newest
        /\ chan' = IF srv # "none" /\ chan = NoSnap THEN newest' ELSE chan
        /\ UNCHANGED <<srv, wire, auth, token, ws, retryVars, seeds, live>>

\* The handshake, and Subscribe.
Accept == /\ ws = "connecting" /\ srv = "none" /\ srv' = "latest"
          /\ UNCHANGED <<newest, chan, wire, auth, token, ws, retryVars, seeds, live>>

\* Latest, and the frame it gives.
WriteLatest == /\ srv = "latest" /\ srv' = "loop"
               /\ wire' = IF newest = NoSnap THEN wire ELSE Append(wire, newest)
               /\ UNCHANGED <<newest, chan, auth, token, ws, retryVars, seeds, live>>

\* What Put left in the channel.
Push == /\ srv = "loop" /\ chan # NoSnap /\ Len(wire) < MaxWire
        /\ wire' = Append(wire, chan) /\ chan' = NoSnap
        /\ UNCHANGED <<newest, srv, auth, token, ws, retryVars, seeds, live>>

\* The connection is no more, and what was under way is lost with it.
Drop == srv' = "none" /\ chan' = NoSnap /\ wire' = << >>

-----------------------------------------------------------------------------
(* Signing in and out *)

\* The effect of useStream when App becomes signed in: connect, given a token.
OpenStream == IF token THEN ws' = "connecting" /\ backoff' = 1 /\ tries' = 0
              ELSE UNCHANGED <<ws, backoff, tries>>

\* Its cleanup: no reconnect, no timer, no socket.
CloseStream == ws' = "off" /\ Drop

\* /api/me succeeds: the stream starts and a snapshot is asked for.
MeOK(s) == /\ auth = "checking" /\ (token \/ Proxy) /\ seeds[s] = Unused
           /\ auth' = "authed"
           /\ OpenStream
           /\ seeds' = [seeds EXCEPT ![s] = Sent]
           /\ UNCHANGED <<serverVars, token, delay, live>>

\* It fails, for whatever reason: the login form is shown.
MeFails == /\ auth = "checking" /\ auth' = "needauth"
           /\ UNCHANGED <<serverVars, token, ws, retryVars, seeds, live>>

\* The user loads the page again: only the token is left of it.
Reload == /\ auth' = "checking"
          /\ CloseStream /\ backoff' = 1 /\ delay' = 0 /\ tries' = 0
          /\ live' = NoSnap /\ seeds' = [s \in 1..MaxSeeds |-> Unused]
          /\ UNCHANGED <<newest, token>>

SignIn == /\ auth = "needauth"
          /\ token' = TRUE /\ auth' = "checking"
          /\ UNCHANGED <<serverVars, ws, retryVars, seeds, live>>

\* Offered only with a token.
SignOut == /\ auth = "authed" /\ token
           /\ token' = FALSE /\ auth' = "checking"
           /\ CloseStream
           /\ UNCHANGED <<newest, retryVars, seeds, live>>

-----------------------------------------------------------------------------
(* The stream *)

WsOpens == /\ ws = "connecting" /\ srv # "none" /\ ws' = "open"
           /\ backoff' = 1 /\ tries' = 0
           /\ UNCHANGED <<serverVars, auth, token, delay, seeds, live>>

WsFrame == /\ ws = "open" /\ wire # << >>
           /\ live' = Head(wire) /\ wire' = Tail(wire)
           /\ UNCHANGED <<newest, srv, chan, auth, token, ws, retryVars, seeds>>

\* The delay after one of d.
Doubled(d) == Shorter(2 * d, MaxDelay)

\* The connection ends, or never came about.
WsCloses == /\ ws \in {"connecting", "open"} /\ ws' = "retry" /\ Drop
            /\ delay' = backoff /\ backoff' = Doubled(backoff)
            /\ tries' = Shorter(tries + 1, TriesCap)
            /\ UNCHANGED <<newest, auth, token, seeds, live>>

Retry == /\ ws = "retry" /\ ws' = "connecting"
         /\ UNCHANGED <<serverVars, auth, token, retryVars, seeds, live>>

-----------------------------------------------------------------------------
(* The snapshot asked for at sign-in; signing out does not cancel it *)

ServeSeed(s) == /\ seeds[s] = Sent /\ newest # NoSnap
                /\ seeds' = [seeds EXCEPT ![s] = newest]
                /\ UNCHANGED <<serverVars, auth, token, ws, retryVars, live>>

SeedArrives(s) == /\ seeds[s] \in {Old, New}
                  /\ live' = seeds[s]
                  /\ seeds' = [seeds EXCEPT ![s] = Unused]
                  /\ UNCHANGED <<serverVars, auth, token, ws, retryVars>>

SeedFails(s) == /\ seeds[s] # Unused
                /\ seeds' = [seeds EXCEPT ![s] = Unused]
                /\ UNCHANGED <<serverVars, auth, token, ws, retryVars, live>>

Next == \/ Poll \/ Accept \/ WriteLatest \/ Push
        \/ MeFails \/ Reload \/ SignIn \/ SignOut
        \/ WsOpens \/ WsFrame \/ WsCloses \/ Retry
        \/ \E s \in 1..MaxSeeds : MeOK(s) \/ ServeSeed(s) \/ SeedArrives(s) \/ SeedFails(s)

\* The cluster answers again and again, the handler runs and the browser reads its
\* socket.  Nothing makes a connection stay or a REST request come back.
Fairness == WF_vars(Poll) /\ WF_vars(WriteLatest) /\ WF_vars(Push) /\ WF_vars(WsFrame)

Spec == Init /\ [][Next]_vars /\ Fairness

-----------------------------------------------------------------------------
(* Properties *)

\* useStream.ts:7: the stream is connected, connecting or about to reconnect for
\* as long as the user is signed in with a token, and not after signing out.  One
\* whom the SSO proxy signs in has no token, and useStream never connects.
StreamWhileSignedIn == auth = "authed" /\ token <=> ws # "off"

\* useStream.ts:8: the k-th reconnect in a row waits the first delay doubled k - 1
\* times, at most MaxDelay; a connection that opens starts over.
ReconnectLaw == ws = "retry" => delay = Shorter(2 ^ (tries - 1), MaxDelay)

\* App.tsx:81: on a stream that stays open the display catches up with every poll
\* and does not fall behind it again: neither an older push still in the channel
\* when Latest was read, nor a late answer to the request of this or an earlier
\* sign-in stays on display.
DisplayFollows == <>[](ws = "open" /\ newest = New) => <>[](live = New)
=============================================================================
