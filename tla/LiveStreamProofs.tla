-------------------------- MODULE LiveStreamProofs --------------------------
(***************************************************************************)
(* The safety of the live path, for every ring size, number of polls and   *)
(* number of connections, and what monitoring is told of it.               *)
(***************************************************************************)
EXTENDS Metrics, SnapshotRingProofs

\* Subscriptions are numbered in the order they are made, one handler each.
IdsInOrder == \A c \in Conns : at[c] = "none" <=> c >= nextID

\* Put works on a ring that has a snapshot, for subscribers that exist.
PutInProgress == /\ put = "idle" => left = {}
                 /\ put # "idle" => size > 0
                 /\ \A c \in left : at[c] # "none"

\* What a handler has shown its client so far, by where it is.
ShownSoFar ==
    \A c \in Conns :
        /\ at[c] = "none" => first[c] = NoSnap /\ chan[c] = NoSnap
        /\ at[c] \in {"none", "latest", "first"} => pushed[c] = NoSnap /\ seen[c] = NoSnap
        /\ at[c] = "latest" => first[c] = NoSnap
        /\ at[c] \in {"loop", "ping"} => seen[c] \in {first[c], pushed[c]}
        /\ at[c] = "write" => seen[c] = first[c] \/ seen[c] < pushed[c]

\* The inductive invariant.
Inv == /\ TypeOK
       /\ SubscribersAreLive
       /\ RingHasNewest
       /\ PushesAdvance
       /\ ConnectedHasSnapshot
       /\ IdsInOrder
       /\ PutInProgress
       /\ ShownSoFar

\* Every step is a step of one of the actions, or leaves everything unchanged.
LEMMA Steps ==
    ASSUME [Next]_vars
    PROVE  \/ PollFails \/ PutRing \/ PutSaved \/ PutReturns \/ Subscribe \/ Restart
           \/ \E c \in Conns : \/ PutSend(c) \/ PutPanics(c) \/ ReadLatest(c)
                               \/ Receive(c) \/ WriteOK(c) \/ WriteFails(c)
                               \/ PingStarts(c) \/ PingOK(c) \/ PingFails(c)
                               \/ CtxDone(c) \/ Unsubscribe(c) \/ Leave(c)
           \/ UNCHANGED vars
  BY DEF Next, Poller, Stream, Write, Ping

USE DEF NoSnap

\* Type correctness is inductive on its own.
LEMMA TypeStep == ASSUME TypeOK, [Next]_vars PROVE TypeOK'
  <1> USE MaxPollsAssumption, MaxConnsAssumption, CapPositive
      DEF vars, ringVars, pollVars, hubVars, connVars
  <1>1. CASE PollFails BY <1>1 DEF PollFails, TypeOK
  <1>2. CASE PutRing
    <2>0. /\ RingType(0..MaxPolls) /\ polls + 1 \in 0..MaxPolls
          /\ RingPut(polls + 1)
      BY <1>2 DEF PutRing, TypeOK, RingType
    <2>1. RingType(0..MaxPolls)' BY <2>0, PutType
    <2> QED BY <1>2, <2>1 DEF PutRing, TypeOK, RingType, Cap
  <1>3. CASE PutSaved BY <1>3 DEF PutSaved, TypeOK
  <1>4. CASE PutReturns BY <1>4 DEF PutReturns, TypeOK
  <1>5. ASSUME NEW c \in Conns, PutSend(c) PROVE TypeOK'
    BY <1>5 DEF PutSend, TypeOK
  <1>6. ASSUME NEW c \in Conns, PutPanics(c) PROVE TypeOK'
    BY <1>6 DEF PutPanics, TypeOK
  <1>7. CASE Subscribe
    <2>1. nextID \in Conns BY <1>7 DEF Subscribe, Conns, TypeOK
    <2>2. peer' \in [Conns -> BOOLEAN] BY <1>7, <2>1 DEF Subscribe, TypeOK
    <2>3. subs' \in SUBSET Conns /\ nextID' \in 0..MaxConns
      BY <1>7, <2>1 DEF Subscribe, TypeOK
    <2>4. at' \in [Conns -> Places] BY <1>7, <2>1 DEF Subscribe, TypeOK, Places
    <2> QED BY <1>7, <2>2, <2>3, <2>4 DEF Subscribe, TypeOK
  <1>8. ASSUME NEW c \in Conns, ReadLatest(c) PROVE TypeOK'
    <2>1. Latest \in 0..MaxPolls BY Neighbours DEF Latest, TypeOK
    <2> QED BY <1>8, <2>1 DEF ReadLatest, TypeOK, Places
  <1>9. ASSUME NEW c \in Conns, Receive(c) PROVE TypeOK'
    BY <1>9 DEF Receive, TypeOK, Places
  <1>10. ASSUME NEW c \in Conns, WriteOK(c) PROVE TypeOK'
    BY <1>10 DEF WriteOK, TypeOK, Places
  <1>11. ASSUME NEW c \in Conns, WriteFails(c) PROVE TypeOK'
    BY <1>11 DEF WriteFails, TypeOK, Places
  <1>12. ASSUME NEW c \in Conns, PingStarts(c) PROVE TypeOK'
    BY <1>12 DEF PingStarts, TypeOK, Places
  <1>13. ASSUME NEW c \in Conns, PingOK(c) PROVE TypeOK'
    BY <1>13 DEF PingOK, TypeOK, Places
  <1>14. ASSUME NEW c \in Conns, PingFails(c) PROVE TypeOK'
    BY <1>14 DEF PingFails, TypeOK, Places
  <1>15. ASSUME NEW c \in Conns, CtxDone(c) PROVE TypeOK'
    BY <1>15 DEF CtxDone, TypeOK, Places
  <1>16. ASSUME NEW c \in Conns, Unsubscribe(c) PROVE TypeOK'
    BY <1>16 DEF Unsubscribe, TypeOK, Places
  <1>17. ASSUME NEW c \in Conns, Leave(c) PROVE TypeOK'
    BY <1>17 DEF Leave, TypeOK
  <1>18. CASE Restart
    <2>1. buf' \in [0..Cap-1 -> 0..MaxPolls] /\ head' \in 0..Cap-1 /\ size' \in 0..Cap
      BY <1>18 DEF Restart
    <2>2. /\ chan' \in [Conns -> 0..MaxPolls] /\ first' \in [Conns -> 0..MaxPolls]
          /\ pushed' \in [Conns -> 0..MaxPolls] /\ seen' \in [Conns -> 0..MaxPolls]
      BY <1>18 DEF Restart, Fresh
    <2>3. peer' \in [Conns -> BOOLEAN] BY <1>18 DEF Restart, Fresh
    <2>4. at' \in [Conns -> Places] BY <1>18 DEF Restart, Fresh, Places
    <2>5. /\ proc' \in {"up", "panicked"} /\ put' \in {"idle", "save", "send"}
          /\ polls' \in 0..MaxPolls /\ nextID' \in 0..MaxConns
      BY <1>18 DEF Restart, TypeOK
    <2>6. /\ connected' \in BOOLEAN
          /\ left' \in SUBSET Conns /\ subs' \in SUBSET Conns /\ closed' \in SUBSET Conns
      BY <1>18, Zenon DEF Restart
    <2> QED BY <2>1, <2>2, <2>3, <2>4, <2>5, <2>6 DEF TypeOK
  <1>19. CASE UNCHANGED vars BY <1>19 DEF TypeOK
  <1> QED BY Steps, <1>1, <1>2, <1>3, <1>4, <1>5, <1>6, <1>7, <1>8, <1>9, <1>10,
             <1>11, <1>12, <1>13, <1>14, <1>15, <1>16, <1>17, <1>18, <1>19

\* A new process has the types.
LEMMA TypeInit == ASSUME Init PROVE TypeOK
  <1> USE MaxPollsAssumption, MaxConnsAssumption, CapPositive DEF Init, Fresh
  <1>1. buf \in [0..Cap-1 -> 0..MaxPolls] /\ head \in 0..Cap-1 /\ size \in 0..Cap
    BY DEF RingInit
  <1>2. /\ chan \in [Conns -> 0..MaxPolls] /\ first \in [Conns -> 0..MaxPolls]
        /\ pushed \in [Conns -> 0..MaxPolls] /\ seen \in [Conns -> 0..MaxPolls]
    OBVIOUS
  <1>3. peer \in [Conns -> BOOLEAN] OBVIOUS
  <1>4. at \in [Conns -> Places] BY DEF Places
  <1>5. /\ proc \in {"up", "panicked"} /\ put \in {"idle", "save", "send"}
        /\ polls \in 0..MaxPolls /\ nextID \in 0..MaxConns
    OBVIOUS
  <1>6. /\ connected \in BOOLEAN
        /\ left \in SUBSET Conns /\ subs \in SUBSET Conns /\ closed \in SUBSET Conns
    BY Zenon
  <1> QED BY <1>1, <1>2, <1>3, <1>4, <1>5, <1>6 DEF TypeOK

\* Everything the process keeps has the type the code gives it.
THEOREM TypeCorrect == Spec => []TypeOK
  <1> QED BY TypeInit, TypeStep, PTL DEF Spec

\* An action that leaves the ring alone leaves what it retains alone.
LEMMA RingSame == ASSUME UNCHANGED ringVars
                  PROVE  Retained' = Retained /\ HasLatest' = HasLatest
  BY DEF ringVars, Retained, Oldest, Cap, HasLatest

\* The handler of c goes from one place of its life to another.
Moves(c) == \E p, q \in Places \ {"none", "done"} :
                at[c] = p /\ at' = [at EXCEPT ![c] = q]

\* Handlers come by Subscribe and end by Unsubscribe; all other steps leave the
\* map of subscribers alone and move at most one handler.
LEMMA HandlerSteps ==
    ASSUME TypeOK, [Next]_vars
    PROVE  \/ Subscribe \/ Restart \/ \E c \in Conns : Unsubscribe(c)
           \/ UNCHANGED <<nextID, subs, closed>> /\ (UNCHANGED at \/ \E c \in Conns : Moves(c))
  <1> USE DEF vars, pollVars, hubVars, connVars
  <1>1. ASSUME NEW c \in Conns,
               \/ ReadLatest(c) \/ Receive(c) \/ WriteOK(c) \/ WriteFails(c)
               \/ PingStarts(c) \/ PingOK(c) \/ PingFails(c) \/ CtxDone(c)
        PROVE  UNCHANGED <<nextID, subs, closed>> /\ Moves(c)
    <2>1. UNCHANGED <<nextID, subs, closed>>
      BY <1>1 DEF ReadLatest, Receive, WriteOK, WriteFails, PingStarts, PingOK,
                  PingFails, CtxDone
    <2>2. /\ at[c] \in {"latest", "first", "loop", "write", "ping"}
          /\ \E q \in {"first", "loop", "write", "ping", "exit"} : at' = [at EXCEPT ![c] = q]
      BY <1>1 DEF ReadLatest, Receive, WriteOK, WriteFails, PingStarts, PingOK,
                  PingFails, CtxDone
    <2> QED BY <2>1, <2>2 DEF Moves, Places
  <1>2. ASSUME \/ PollFails \/ PutRing \/ PutSaved \/ PutReturns \/ UNCHANGED vars
               \/ \E c \in Conns : PutSend(c) \/ PutPanics(c) \/ Leave(c)
        PROVE  UNCHANGED <<nextID, subs, closed, at>>
    BY <1>2 DEF PollFails, PutRing, PutSaved, PutReturns, PutSend, PutPanics, Leave
  <1> QED BY <1>1, <1>2, Steps

\* unsub and Subscribe keep the map, the channels and the handlers in step.
LEMMA SubscribersStep ==
    ASSUME TypeOK, SubscribersAreLive, IdsInOrder, [Next]_vars
    PROVE  SubscribersAreLive' /\ IdsInOrder'
  <1> USE MaxConnsAssumption DEF SubscribersAreLive, IdsInOrder, Conns
  <1>1. CASE Subscribe
    <2>1. nextID \in Conns /\ at[nextID] = "none" BY <1>1 DEF Subscribe, TypeOK
    <2>2. \A c \in Conns : at'[c] = IF c = nextID THEN "latest" ELSE at[c]
      BY <1>1, <2>1 DEF Subscribe, TypeOK
    <2> QED BY <1>1, <2>1, <2>2 DEF Subscribe, TypeOK
  <1>2. CASE Restart BY <1>2 DEF Restart, Fresh
  <1>3. ASSUME NEW c \in Conns, Unsubscribe(c) PROVE SubscribersAreLive' /\ IdsInOrder'
    <2>1. \A d \in Conns : at'[d] = IF d = c THEN "done" ELSE at[d]
      BY <1>3 DEF Unsubscribe, TypeOK
    <2> QED BY <1>3, <2>1 DEF Unsubscribe, TypeOK
  <1>4. ASSUME UNCHANGED <<nextID, subs, closed>>, UNCHANGED at \/ \E c \in Conns : Moves(c)
        PROVE  SubscribersAreLive' /\ IdsInOrder'
    <2>1. \A c \in Conns : /\ at'[c] = "none" <=> at[c] = "none"
                           /\ at'[c] = "done" <=> at[c] = "done"
      BY <1>4 DEF Moves, Places, TypeOK
    <2> QED BY <1>4, <2>1
  <1> QED BY <1>1, <1>2, <1>3, <1>4, HandlerSteps

\* A snapshot enters the ring before it enters a channel.
LEMMA RingStep ==
    ASSUME TypeOK, TypeOK', RingHasNewest, PutInProgress, [Next]_vars
    PROVE  RingHasNewest'
  <1> USE MaxPollsAssumption DEF vars, pollVars, hubVars, connVars
  <1>1. CASE PutRing
    <2>1. Retained' = LastOf(Append(Retained, polls + 1)) /\ RingType(0..MaxPolls)
      BY <1>1, PutSlides DEF PutRing, TypeOK, RingType
    <2>2. /\ Retained \in Seq(0..MaxPolls) /\ Len(Retained) = size
          /\ Cap \in Nat /\ Cap >= 1
      BY <2>1, RetainedType, CapPositive
    <2>3. size' = IF size < Cap THEN size + 1 ELSE size BY <1>1 DEF PutRing, RingPut
    <2>4. \A i \in 1..size' : Retained'[i] = polls' - size' + i
      <3> DEFINE q == Append(Retained, polls + 1)
      <3>1. /\ Len(q) = size + 1 /\ q[size + 1] = polls + 1
            /\ \A i \in 1..size : q[i] = polls - size + i
        <4>1. polls + 1 \in 0..MaxPolls /\ size \in Nat BY <1>1, <2>2 DEF PutRing, TypeOK
        <4>2. \A i \in 1..size : Retained[i] = polls - size + i BY DEF RingHasNewest
        <4> QED BY <4>1, <4>2, <2>2
      <3>2. polls \in Nat /\ size \in 0..Cap /\ polls' = polls + 1 BY <1>1, <2>2 DEF PutRing, TypeOK
      <3>3. Retained' = LastOf(q) BY <2>1
      <3> HIDE DEF q
      <3>4. CASE size < Cap
        <4>1. Retained' = q BY <2>2, <3>1, <3>2, <3>3, <3>4 DEF LastOf
        <4> QED BY <4>1, <2>2, <2>3, <3>1, <3>2, <3>4
      <3>5. CASE size = Cap
        <4>1. Retained' = [i \in 1..Cap |-> q[i + 1]] BY <3>1, <3>3, <3>5, LastOfLonger
        <4>2. size' = Cap /\ \A i \in 1..Cap : q[i + 1] = polls + 1 - Cap + i
          BY <2>2, <2>3, <3>1, <3>2, <3>5
        <4>3. \A i \in 1..Cap : Retained'[i] = polls + 1 - Cap + i BY <4>1, <4>2
        <4> QED BY <4>2, <4>3, <3>2, <2>2
      <3> QED BY <3>2, <3>4, <3>5, <2>2
    <2>5. size' # 0 BY <2>3, <2>2 DEF TypeOK
    <2> QED BY <1>1, <2>4, <2>5 DEF PutRing, RingHasNewest, TypeOK
  <1>2. ASSUME NEW c \in Conns, PutSend(c) PROVE RingHasNewest'
    <2>1. UNCHANGED ringVars /\ size # 0 BY <1>2 DEF PutSend, PutInProgress, TypeOK
    <2> QED BY <1>2, <2>1, RingSame DEF PutSend, RingHasNewest, TypeOK, ringVars
  <1>3. ASSUME NEW c \in Conns, ReadLatest(c) PROVE RingHasNewest'
    <2>1. UNCHANGED ringVars BY <1>3 DEF ReadLatest
    <2>2. HasLatest => Latest = polls
      <3>1. SUFFICES ASSUME HasLatest PROVE Latest = polls OBVIOUS
      <3>2. Latest = Retained[size] BY <3>1, LatestIsNewest DEF TypeOK
      <3>3. size \in 1..size /\ polls \in Nat BY <3>1, CapPositive DEF TypeOK, HasLatest
      <3> QED BY <3>2, <3>3 DEF RingHasNewest
    <2> QED BY <1>3, <2>1, <2>2, RingSame DEF ReadLatest, RingHasNewest, TypeOK, ringVars,
                                               HasLatest
  <1>4. ASSUME NEW c \in Conns, Receive(c) PROVE RingHasNewest'
    <2>1. UNCHANGED ringVars BY <1>4 DEF Receive
    <2> QED BY <1>4, <2>1, RingSame DEF Receive, RingHasNewest, TypeOK, ringVars
  <1>5. CASE Restart
    BY <1>5 DEF Restart, Fresh, RingHasNewest, TypeOK
  <1>6. ASSUME UNCHANGED <<ringVars, polls, first, pushed, chan>> PROVE RingHasNewest'
    BY <1>6, RingSame DEF RingHasNewest, ringVars
  <1>7. ASSUME \/ PollFails \/ PutSaved \/ PutReturns \/ Subscribe \/ UNCHANGED vars
               \/ \E c \in Conns : \/ PutPanics(c) \/ WriteOK(c) \/ WriteFails(c)
                                   \/ PingStarts(c) \/ PingOK(c) \/ PingFails(c)
                                   \/ CtxDone(c) \/ Unsubscribe(c) \/ Leave(c)
        PROVE  UNCHANGED <<ringVars, polls, first, pushed, chan>>
    BY <1>7 DEF PollFails, PutSaved, PutReturns, Subscribe, PutPanics, WriteOK, WriteFails,
                PingStarts, PingOK, PingFails, CtxDone, Unsubscribe, Leave
  <1> QED BY <1>1, <1>2, <1>3, <1>4, <1>5, <1>6, <1>7, Steps

\* A channel never holds, and is never sent, what its handler already took.
LEMMA PushesStep ==
    ASSUME TypeOK, TypeOK', RingHasNewest, PushesAdvance, PutInProgress, [Next]_vars
    PROVE  PushesAdvance'
  <1> USE MaxPollsAssumption DEF vars, pollVars, hubVars, connVars, PushesAdvance
  <1>1. CASE PutRing BY <1>1 DEF PutRing, RingHasNewest, TypeOK
  <1>2. ASSUME NEW c \in Conns, PutSend(c) PROVE PushesAdvance'
    BY <1>2 DEF PutSend, TypeOK
  <1>3. ASSUME NEW c \in Conns, Receive(c) PROVE PushesAdvance'
    BY <1>3 DEF Receive, TypeOK
  <1>4. CASE Restart BY <1>4 DEF Restart, Fresh, TypeOK
  <1>5. CASE PutReturns BY <1>5 DEF PutReturns
  <1>6. ASSUME \/ PollFails \/ PutSaved \/ Subscribe \/ UNCHANGED vars
               \/ \E c \in Conns : \/ PutPanics(c) \/ ReadLatest(c) \/ WriteOK(c)
                                   \/ WriteFails(c) \/ PingStarts(c) \/ PingOK(c)
                                   \/ PingFails(c) \/ CtxDone(c) \/ Unsubscribe(c)
                                   \/ Leave(c)
        PROVE  UNCHANGED <<polls, left, pushed, chan>>
    BY <1>6 DEF PollFails, PutSaved, Subscribe, PutPanics, ReadLatest, WriteOK, WriteFails,
                PingStarts, PingOK, PingFails, CtxDone, Unsubscribe, Leave
  <1>7. ASSUME UNCHANGED <<polls, left, pushed, chan>> PROVE PushesAdvance'
    BY <1>7
  <1> QED BY <1>1, <1>2, <1>3, <1>4, <1>5, <1>6, <1>7, Steps

\* Put fills the ring first, serves existing subscribers, and setOK comes last.
LEMMA PutStep ==
    ASSUME TypeOK, TypeOK', SubscribersAreLive, PutInProgress, ConnectedHasSnapshot,
           [Next]_vars
    PROVE  PutInProgress' /\ ConnectedHasSnapshot'
  <1> USE CapPositive DEF vars, pollVars, hubVars, connVars, HasLatest, ringVars,
                          PutInProgress, ConnectedHasSnapshot
  <1>1. CASE PutRing
    <2>1. size' > 0 BY <1>1 DEF PutRing, RingPut, TypeOK
    <2> QED BY <1>1, <2>1 DEF PutRing, SubscribersAreLive
  <1>2. CASE PollFails BY <1>2 DEF PollFails
  <1>3. CASE PutSaved BY <1>3 DEF PutSaved
  <1>4. CASE PutReturns BY <1>4 DEF PutReturns
  <1>5. ASSUME NEW c \in Conns, PutSend(c) PROVE PutInProgress' /\ ConnectedHasSnapshot'
    BY <1>5 DEF PutSend
  <1>6. CASE Restart BY <1>6 DEF Restart
  <1>7. ASSUME \/ Subscribe \/ UNCHANGED vars
               \/ \E c \in Conns : \/ PutPanics(c) \/ ReadLatest(c) \/ Receive(c) \/ WriteOK(c)
                                   \/ WriteFails(c) \/ PingStarts(c) \/ PingOK(c)
                                   \/ PingFails(c) \/ CtxDone(c) \/ Unsubscribe(c)
                                   \/ Leave(c)
        PROVE  /\ UNCHANGED <<size, put, left, connected>>
               /\ \A d \in Conns : at[d] # "none" => at'[d] # "none"
    <2>1. UNCHANGED <<size, put, left, connected>>
      BY <1>7 DEF Subscribe, PutPanics, ReadLatest, Receive, WriteOK, WriteFails,
                  PingStarts, PingOK, PingFails, CtxDone, Unsubscribe, Leave
    <2>2. \A d \in Conns : at[d] # "none" => at'[d] # "none"
      BY <1>7 DEF Subscribe, PutPanics, ReadLatest, Receive, WriteOK, WriteFails,
                  PingStarts, PingOK, PingFails, CtxDone, Unsubscribe, Leave, TypeOK
    <2> QED BY <2>1, <2>2
  <1>8. ASSUME UNCHANGED <<size, put, left, connected>>,
               \A d \in Conns : at[d] # "none" => at'[d] # "none"
        PROVE  PutInProgress' /\ ConnectedHasSnapshot'
    BY <1>8 DEF TypeOK
  <1> QED BY <1>1, <1>2, <1>3, <1>4, <1>5, <1>6, <1>7, <1>8, Steps

\* What a client was shown last is the first frame or the last push.
LEMMA ShownStep ==
    ASSUME TypeOK, TypeOK', ShownSoFar, PushesAdvance, IdsInOrder, PutInProgress, [Next]_vars
    PROVE  ShownSoFar'
  <1> USE DEF vars, pollVars, hubVars, connVars, ShownSoFar
  <1>1. CASE Subscribe
    <2>1. nextID \in Conns /\ at[nextID] = "none"
      BY <1>1, MaxConnsAssumption DEF Subscribe, Conns, IdsInOrder, TypeOK
    <2> QED BY <1>1, <2>1 DEF Subscribe, TypeOK
  <1>2. ASSUME NEW c \in Conns, ReadLatest(c) PROVE ShownSoFar'
    BY <1>2 DEF ReadLatest, TypeOK
  <1>3. ASSUME NEW c \in Conns, Receive(c) PROVE ShownSoFar'
    BY <1>3 DEF Receive, PushesAdvance, TypeOK
  <1>4. ASSUME NEW c \in Conns, WriteOK(c) PROVE ShownSoFar'
    BY <1>4 DEF WriteOK, TypeOK
  <1>5. ASSUME NEW c \in Conns, WriteFails(c) \/ PingFails(c) \/ CtxDone(c) PROVE ShownSoFar'
    BY <1>5 DEF WriteFails, PingFails, CtxDone, TypeOK
  <1>6. ASSUME NEW c \in Conns, PingStarts(c) \/ PingOK(c) PROVE ShownSoFar'
    BY <1>6 DEF PingStarts, PingOK, TypeOK
  <1>7. ASSUME NEW c \in Conns, Unsubscribe(c) PROVE ShownSoFar'
    BY <1>7 DEF Unsubscribe, TypeOK
  <1>8. ASSUME NEW c \in Conns, PutSend(c) PROVE ShownSoFar'
    BY <1>8 DEF PutSend, PutInProgress, TypeOK
  <1>9. CASE Restart BY <1>9 DEF Restart, Fresh
  <1>10. ASSUME \/ PollFails \/ PutRing \/ PutSaved \/ PutReturns \/ UNCHANGED vars
                \/ \E c \in Conns : PutPanics(c) \/ Leave(c)
         PROVE  UNCHANGED <<at, first, pushed, seen, chan>>
    BY <1>10 DEF PollFails, PutRing, PutSaved, PutReturns, PutPanics, Leave
  <1>11. ASSUME UNCHANGED <<at, first, pushed, seen, chan>> PROVE ShownSoFar' BY <1>11
  <1> QED BY <1>1, <1>2, <1>3, <1>4, <1>5, <1>6, <1>7, <1>8, <1>9, <1>10, <1>11, Steps

\* The inductive step.
LEMMA InvStep == ASSUME Inv, [Next]_vars PROVE Inv'
  BY TypeStep, SubscribersStep, RingStep, PushesStep, PutStep, ShownStep DEF Inv

\* The invariant holds when the process starts.
LEMMA InvInit == ASSUME Init, TypeOK PROVE Inv
  <1> USE DEF Init, Fresh, RingInit
  <1>1. SubscribersAreLive /\ PushesAdvance /\ PutInProgress /\ ShownSoFar
    BY DEF SubscribersAreLive, PushesAdvance, PutInProgress, ShownSoFar
  <1>2. RingHasNewest BY DEF RingHasNewest
  <1>3. ConnectedHasSnapshot BY DEF ConnectedHasSnapshot
  <1>4. IdsInOrder BY MaxConnsAssumption DEF IdsInOrder, Conns
  <1> QED BY <1>1, <1>2, <1>3, <1>4 DEF Inv

\* The invariant holds in every state.
THEOREM Invariance == Spec => []Inv
  <1>1. Spec => []TypeOK BY TypeCorrect
  <1>2. Init /\ TypeOK => Inv BY InvInit
  <1>3. Inv /\ [Next]_vars => Inv' BY InvStep
  <1> QED BY <1>1, <1>2, <1>3, PTL DEF Spec

\* Store.subs, the open channels and the running handlers agree at all times,
\* whatever the number of connections and however they end.
THEOREM SubscribersSafe == Spec => []SubscribersAreLive
  <1>1. Inv => SubscribersAreLive BY DEF Inv
  <1> QED BY <1>1, Invariance, PTL

\* The ring is an unbroken run ending in the newest poll, and no frame is ahead
\* of it, for every ring size.
THEOREM RingSafe == Spec => []RingHasNewest
  <1>1. Inv => RingHasNewest BY DEF Inv
  <1> QED BY <1>1, Invariance, PTL

\* What is pushed to a subscriber only gets newer.
THEOREM PushesSafe == Spec => []PushesAdvance
  <1>1. Inv => PushesAdvance BY DEF Inv
  <1> QED BY <1>1, Invariance, PTL

\* Connected is never reported before there is a snapshot to show.
THEOREM ConnectedSafe == Spec => []ConnectedHasSnapshot
  <1>1. Inv => ConnectedHasSnapshot BY DEF Inv
  <1> QED BY <1>1, Invariance, PTL

\* A stream steps back to an older frame at most from its first frame.
THEOREM StepsBack == Spec => BackOnlyFromFirst
  <1> DEFINE Back == \A c \in Conns : seen'[c] < seen[c] => proc' # proc \/ seen[c] = first[c]
  <1>1. ASSUME Inv, [Next]_vars PROVE [Back]_vars
    <2> USE DEF vars, connVars
    <2>1. ASSUME NEW c \in Conns, WriteOK(c) PROVE Back
      <3>1. \A d \in Conns : seen'[d] = IF d = c THEN (IF at[c] = "first" THEN first[c] ELSE pushed[c])
                                        ELSE seen[d]
        BY <1>1, <2>1 DEF WriteOK, Inv, TypeOK
      <3>2. at[c] = "first" => seen[c] = 0 BY <1>1 DEF Inv, ShownSoFar
      <3>3. at[c] = "write" => seen[c] = first[c] \/ seen[c] < pushed[c]
        BY <1>1 DEF Inv, ShownSoFar
      <3>4. /\ at[c] \in {"first", "write"} /\ first[c] \in 0..MaxPolls
            /\ pushed[c] \in 0..MaxPolls /\ \A d \in Conns : seen[d] \in 0..MaxPolls
        BY <1>1, <2>1 DEF WriteOK, Inv, TypeOK
      <3> QED BY <3>1, <3>2, <3>3, <3>4, MaxPollsAssumption
    <2>2. CASE Restart BY <2>2 DEF Restart
    <2>3. ASSUME UNCHANGED seen PROVE Back
      BY <1>1, <2>3, MaxPollsAssumption DEF Inv, TypeOK
    <2>4. ASSUME \/ PollFails \/ PutRing \/ PutSaved \/ PutReturns \/ Subscribe \/ UNCHANGED vars
                 \/ \E c \in Conns : \/ PutSend(c) \/ PutPanics(c) \/ ReadLatest(c)
                                     \/ Receive(c) \/ WriteFails(c) \/ PingStarts(c)
                                     \/ PingOK(c) \/ PingFails(c) \/ CtxDone(c)
                                     \/ Unsubscribe(c) \/ Leave(c)
          PROVE  UNCHANGED seen
      BY <2>4 DEF PollFails, PutRing, PutSaved, PutReturns, Subscribe, PutSend, PutPanics,
                  ReadLatest, Receive, WriteFails, PingStarts, PingOK, PingFails, CtxDone,
                  Unsubscribe, Leave
    <2> QED BY <1>1, <2>1, <2>2, <2>3, <2>4, Steps
  <1> QED BY <1>1, Invariance, PTL DEF Spec, BackOnlyFromFirst

\* The ring with its wrapping indices implements the sliding window of the last
\* Cap snapshots, across restarts too.
THEOREM RingImplementsWindow == Spec => RingIsWindow
  <1>1. ASSUME Init PROVE Window!Init
    BY <1>1 DEF Init, RingInit, Retained, Window!Init
  <1>2. ASSUME TypeOK, [Next]_vars PROVE [Window!Next]_Retained
    <2>1. CASE PutRing
      <3>1. /\ RingType(0..MaxPolls) /\ polls + 1 \in 0..MaxPolls /\ polls + 1 \in 1..MaxPolls
            /\ RingPut(polls + 1)
        BY <1>2, <2>1, MaxPollsAssumption DEF PutRing, TypeOK, RingType
      <3>2. Retained' = LastOf(Append(Retained, polls + 1)) BY <3>1, PutSlides
      <3>3. Window!Put(polls + 1) BY <3>2 DEF Window!Put, Window!Newest, LastOf
      <3> QED BY <3>1, <3>3 DEF Window!Next
    <2>2. CASE Restart
      <3>1. Retained' = << >> BY <2>2 DEF Restart, Retained
      <3> QED BY <3>1 DEF Window!Next, Window!Restart
    <2>3. ASSUME UNCHANGED ringVars PROVE UNCHANGED Retained
      BY <2>3, RingSame
    <2>4. ASSUME \/ PollFails \/ PutSaved \/ PutReturns \/ Subscribe \/ UNCHANGED vars
                 \/ \E c \in Conns : \/ PutSend(c) \/ PutPanics(c) \/ ReadLatest(c)
                                     \/ Receive(c) \/ WriteOK(c) \/ WriteFails(c)
                                     \/ PingStarts(c) \/ PingOK(c) \/ PingFails(c)
                                     \/ CtxDone(c) \/ Unsubscribe(c) \/ Leave(c)
          PROVE  UNCHANGED ringVars
      BY <2>4 DEF PollFails, PutSaved, PutReturns, Subscribe, PutSend, PutPanics,
                  ReadLatest, Receive, WriteOK, WriteFails, PingStarts, PingOK, PingFails,
                  CtxDone, Unsubscribe, Leave, vars
    <2> QED BY <1>2, <2>1, <2>2, <2>3, <2>4, Steps
  <1> QED BY <1>1, <1>2, TypeCorrect, PTL DEF Spec, RingIsWindow, Window!Spec

-----------------------------------------------------------------------------
(* Monitoring, beside the live path *)

\* Run is in pollOnce while Put is in progress, and an error half counted is within the
\* bound.
RunWaits == /\ run # "poll" => put = "idle"
            /\ run = "counted" => pollErrors < MaxErrors

\* The successful polls of this process are polls, and they fill the ring.
Good == pollsTotal - pollErrors + Reporting
GoodFillRing == /\ Good \in 0..polls
                /\ size = IF Good < Cap THEN Good ELSE Cap

\* Once told connected, a reader finds a snapshot, no older than the poll behind
\* that answer, until the process ends.
ReaderServed ==
    /\ reader.since <= polls
    /\ reader.at # "status" /\ reader.connected => size > 0
    /\ reader.at = "done" /\ reader.connected =>
           reader.snap # NoSnap /\ reader.snap >= reader.since

MetricsInv == Inv /\ MetricsTypeOK /\ RunWaits /\ GoodFillRing /\ ReaderServed

\* Monitoring only watches: a step of the monitored system is a step of the live path
\* or changes nothing of it.
LEMMA WatchedStep == ASSUME [MetricsNext]_allVars PROVE [Next]_vars
  BY DEF MetricsNext, allVars, ObserveError, CountError, SetError, Starts, Succeeds, ObserveOK,
         CollectStatus, CollectLatest, Healthz, GetSnapshot, ReadStatus, ReadSnapshot, NewProcess, Others, Next,
         Poller

\* With the observer, the scrapes and the health checks the live path behaves as
\* without, so all that is proved of it holds with them.
THEOREM WatchedImplementsStream == MetricsSpec => Spec
  <1>1. MetricsInit => Init BY DEF MetricsInit
  <1> QED BY <1>1, WatchedStep, PTL DEF MetricsSpec, Spec

\* The counters keep up with Put and the ring.
LEMMA GoodStep ==
    ASSUME MetricsInv, [MetricsNext]_allVars PROVE RunWaits' /\ GoodFillRing'
  <1> USE CapPositive, MaxPollsAssumption, MaxErrorsAssumption
      DEF MetricsInv, MetricsTypeOK, RunWaits, GoodFillRing, Good, Reporting
  <1>0. TypeOK BY DEF Inv
  <1>1. CASE ObserveError
    <2>1. /\ put = "idle" /\ run = "poll" /\ run' = "counted" /\ UNCHANGED <<put, polls, size>>
          /\ pollsTotal' = pollsTotal + 1 /\ pollErrors' = pollErrors /\ pollErrors < MaxErrors
      BY <1>1 DEF ObserveError, vars, ringVars, pollVars
    <2>2. pollsTotal \in Int /\ pollErrors \in Int OBVIOUS
    <2>3. Good' = Good BY <2>1, <2>2
    <2> QED BY <2>1, <2>3 DEF Cap
  <1>10. CASE CountError
    <2>1. /\ put = "idle" /\ run = "counted" /\ run' = "failed" /\ UNCHANGED <<put, polls, size>>
          /\ pollsTotal' = pollsTotal /\ pollErrors' = pollErrors + 1
      BY <1>10 DEF CountError, vars, ringVars, pollVars
    <2>2. pollsTotal \in Int /\ pollErrors \in Int OBVIOUS
    <2>3. Good' = Good BY <2>1, <2>2
    <2> QED BY <2>1, <2>3 DEF Cap
  <1>2. CASE SetError BY <1>2 DEF SetError, PollFails, ringVars, Cap
  <1>3. CASE Starts
    <2>1. /\ run = "poll" /\ run' = "poll" /\ put = "idle" /\ put' = "save"
          /\ pollsTotal' = pollsTotal /\ pollErrors' = pollErrors /\ polls' = polls + 1
          /\ size' = IF size < Cap THEN size + 1 ELSE size
      BY <1>3 DEF Starts, PutRing, RingPut, observed
    <2>2. polls \in Nat /\ pollsTotal \in Int /\ pollErrors \in Int BY <1>0 DEF TypeOK
    <2>3. Good' = Good + 1 /\ Good \in 0..polls BY <2>1, <2>2
    <2>4. Good' \in 0..polls' BY <2>1, <2>2, <2>3
    <2>5. size = IF Good < Cap THEN Good ELSE Cap OBVIOUS
    <2> HIDE DEF Good, GoodFillRing, MetricsInv
    <2>6. size' = IF Good' < Cap THEN Good' ELSE Cap BY <2>1, <2>2, <2>3, <2>5
    <2> QED BY <2>1, <2>4, <2>6 DEF Cap, GoodFillRing
  <1>4. CASE Succeeds BY <1>4 DEF Succeeds, PutReturns, ringVars, Cap
  <1>5. CASE ObserveOK BY <1>5 DEF ObserveOK, vars, ringVars, pollVars, Cap
  <1>6. CASE CollectStatus \/ CollectLatest \/ Healthz \/ GetSnapshot
    BY <1>6 DEF CollectStatus, CollectLatest, Healthz, GetSnapshot, ReadStatus, ReadSnapshot,
                vars, ringVars, pollVars, observed, Cap
  <1>7. CASE NewProcess BY <1>0, <1>7 DEF NewProcess, Restart, TypeOK, Cap
  <1>8. CASE Others
    <2>1. /\ UNCHANGED <<size, polls, observed>>
          /\ (put' = put \/ (put = "save" /\ put' = "send"))
      BY <1>8 DEF Others, PutSaved, Subscribe, PutSend, PutPanics, Stream, Write, Ping, ReadLatest,
                  Receive, WriteOK, WriteFails, PingStarts, PingOK, PingFails, CtxDone,
                  Unsubscribe, Leave, ringVars, pollVars
    <2> QED BY <2>1 DEF observed, Cap
  <1>9. CASE UNCHANGED allVars
    BY <1>9 DEF allVars, observed, vars, ringVars, pollVars, Cap
  <1> QED BY <1>1, <1>2, <1>3, <1>4, <1>5, <1>6, <1>7, <1>8, <1>9, <1>10 DEF MetricsNext

\* A reader between its two reads loses nothing but to the end of the process.
LEMMA ReaderStep ==
    ASSUME MetricsInv, [MetricsNext]_allVars
    PROVE  ReaderServed' /\ (reader' \in [by : {"collect", "client"}, at : {"status", "latest", "done"},
                             connected : BOOLEAN, since : 0..MaxPolls, snap : 0..MaxPolls])
  <1> DEFINE Readers == [by : {"collect", "client"}, at : {"status", "latest", "done"},
                         connected : BOOLEAN, since : 0..MaxPolls, snap : 0..MaxPolls]
  <1> USE CapPositive, MaxPollsAssumption
  <1>0. TypeOK /\ reader \in Readers BY DEF MetricsInv, Inv, MetricsTypeOK
  <1>1. /\ polls \in 0..MaxPolls /\ size \in Nat /\ size <= polls /\ connected \in BOOLEAN
        /\ reader.since \in 0..MaxPolls /\ reader.snap \in 0..MaxPolls
    BY <1>0 DEF TypeOK, MetricsInv, GoodFillRing
  <1>2. size > 0 => Latest = polls
    <2> SUFFICES ASSUME size > 0 PROVE Latest = polls OBVIOUS
    <2>1. Latest = Retained[size] BY <1>0, LatestIsNewest DEF TypeOK, HasLatest
    <2>2. size \in 1..size BY <1>1
    <2> QED BY <1>1, <2>1, <2>2 DEF MetricsInv, Inv, RingHasNewest
  <1>3. ASSUME NEW who \in {"collect", "client"}, ReadStatus(who)
        PROVE  ReaderServed' /\ reader' \in Readers
    <2>1. connected => size > 0 BY DEF MetricsInv, Inv, ConnectedHasSnapshot, HasLatest
    <2>2. connected => LastEnded \in 0..polls BY <1>1, <2>1 DEF LastEnded
    <2>3. /\ reader' = [by |-> who, at |-> "latest", connected |-> connected,
                        since |-> IF connected THEN LastEnded ELSE 0, snap |-> NoSnap]
          /\ size' = size /\ polls' = polls
      BY <1>3 DEF ReadStatus, vars, ringVars, pollVars
    <2>4. reader' \in Readers BY <1>1, <2>2, <2>3
    <2>5. /\ reader'.since <= polls /\ reader'.at = "latest" /\ reader'.connected = connected
      BY <1>1, <2>2, <2>3
    <2> QED BY <2>1, <2>3, <2>4, <2>5 DEF ReaderServed
  <1>4. ASSUME NEW who \in {"collect", "client"}, ReadSnapshot(who)
        PROVE  ReaderServed' /\ reader' \in Readers
    <2>1. /\ reader' = [reader EXCEPT !.at = "done", !.snap = IF HasLatest THEN Latest ELSE NoSnap]
          /\ reader.at = "latest" /\ size' = size /\ polls' = polls
      BY <1>4 DEF ReadSnapshot, vars, ringVars, pollVars
    <2>2. (IF HasLatest THEN Latest ELSE NoSnap) = IF size > 0 THEN polls ELSE 0
      BY <1>2 DEF HasLatest
    <2> DEFINE snap == IF size > 0 THEN polls ELSE 0
    <2>3. snap \in 0..MaxPolls /\ reader' = [reader EXCEPT !.at = "done", !.snap = snap]
      <3>1. snap \in 0..MaxPolls BY <1>1
      <3>2. (IF HasLatest THEN Latest ELSE NoSnap) = snap BY <2>2
      <3> QED BY <2>1, <3>1, <3>2, Zenon
    <2> HIDE DEF snap
    <2>4. /\ reader' \in Readers /\ reader'.at = "done" /\ reader'.since = reader.since
          /\ reader'.connected = reader.connected /\ reader'.snap = snap
      BY <1>0, <2>3
    <2> QED BY <1>1, <2>1, <2>4 DEF snap, ReaderServed, MetricsInv
  <1>5. CASE NewProcess
    BY <1>5, <1>1 DEF NewProcess, Restart, Idle, ReaderServed
  <1>6. ASSUME reader' = reader, polls' \in Nat, polls' >= polls, size' \in Nat, size' >= size
        PROVE  ReaderServed' /\ reader' \in Readers
    BY <1>6, <1>0, <1>1 DEF ReaderServed, MetricsInv
  <1>7. CASE Starts
    <2>1. /\ reader' = reader /\ polls' = polls + 1
          /\ size' = IF size < Cap THEN size + 1 ELSE size
      BY <1>7 DEF Starts, PutRing, RingPut
    <2> QED BY <1>1, <1>6, <2>1
  <1>8. ASSUME ObserveError \/ CountError \/ SetError \/ Succeeds \/ ObserveOK \/ Others \/ UNCHANGED allVars
        PROVE  reader' = reader /\ polls' = polls /\ size' = size
    BY <1>8 DEF ObserveError, CountError, SetError, Succeeds, ObserveOK, Others, allVars, PollFails, PutReturns,
                PutSaved, Subscribe, PutSend, PutPanics, Stream, Write, Ping, ReadLatest,
                Receive, WriteOK, WriteFails, PingStarts, PingOK, PingFails, CtxDone,
                Unsubscribe, Leave, vars, ringVars, pollVars
  <1> QED BY <1>1, <1>3, <1>4, <1>5, <1>6, <1>7, <1>8
          DEF MetricsNext, CollectStatus, CollectLatest, Healthz, GetSnapshot

\* What monitoring is told is true: connected means a snapshot is there, and the
\* counters are the snapshots put but for a poll being reported, for every interleaving of a scrape with the polls.
THEOREM MonitoringSafe == MetricsSpec => []MonitoringAgrees
  <1>1. ASSUME MetricsInit PROVE MetricsInv
    <2>1. Inv BY <1>1, TypeInit, InvInit DEF MetricsInit
    <2>2. reader \in [by : {"collect", "client"}, at : {"status", "latest", "done"},
                     connected : BOOLEAN, since : 0..MaxPolls, snap : 0..MaxPolls]
      BY <1>1, MaxPollsAssumption DEF MetricsInit, Idle
    <2>3. pollsTotal \in 0..MaxPolls + MaxErrors /\ pollErrors \in 0..MaxErrors
      BY <1>1, MaxErrorsAssumption, MaxPollsAssumption DEF MetricsInit
    <2>4. MetricsTypeOK BY <1>1, <2>1, <2>2, <2>3 DEF MetricsInit, MetricsTypeOK, Inv
    <2>5. RunWaits /\ Good = 0 /\ size = 0 /\ polls = 0
      BY <1>1 DEF MetricsInit, Init, RingInit, RunWaits, Good, Reporting
    <2>6. GoodFillRing BY <2>5, CapPositive DEF GoodFillRing
    <2>7. ReaderServed BY <1>1, <2>5 DEF MetricsInit, ReaderServed, Idle
    <2> QED BY <2>1, <2>4, <2>5, <2>6, <2>7 DEF MetricsInv
  <1>2. ASSUME MetricsInv, [MetricsNext]_allVars PROVE MetricsInv'
    <2>1. Inv' BY <1>2, WatchedStep, InvStep DEF MetricsInv
    <2>2. RunWaits' /\ GoodFillRing' BY <1>2, GoodStep
    <2>3. ReaderServed' /\ (reader' \in [by : {"collect", "client"}, at : {"status", "latest", "done"},
                             connected : BOOLEAN, since : 0..MaxPolls, snap : 0..MaxPolls])
      BY <1>2, ReaderStep
    <2>4. run' \in {"poll", "ok", "counted", "failed"} /\ pollErrors' \in 0..MaxErrors /\ pollsTotal' \in Nat
      BY <1>2, MaxErrorsAssumption, MaxPollsAssumption
      DEF MetricsInv, MetricsTypeOK, MetricsNext, allVars, observed, ObserveError, CountError, SetError,
          RunWaits, Starts,
          Succeeds, ObserveOK, CollectStatus, CollectLatest, Healthz, GetSnapshot, ReadStatus,
          ReadSnapshot, NewProcess, Others
    <2>5. pollsTotal' \in 0..MaxPolls + MaxErrors
      <3>1. Good' <= polls' /\ Good' \in Int /\ polls' \in 0..MaxPolls
        BY <2>1, <2>2 DEF GoodFillRing, Inv, TypeOK
      <3>2. \/ Good' = pollsTotal' - pollErrors' + 1
            \/ Good' = pollsTotal' - pollErrors' + 0
            \/ Good' = pollsTotal' - pollErrors' - 1 /\ pollErrors' < MaxErrors
        BY <2>2, <2>4 DEF Good, Reporting, RunWaits
      <3>3. pollErrors' \in Int /\ 0 <= pollErrors' /\ pollErrors' <= MaxErrors
        BY <2>4, MaxErrorsAssumption
      <3>4. \A t, e, g, p \in Int : g <= p /\ p <= MaxPolls /\ e <= MaxErrors
                                     /\ (g = t - e + 1 \/ g = t - e + 0 \/ (g = t - e - 1 /\ e < MaxErrors))
                                     => t <= MaxPolls + MaxErrors
        BY MaxErrorsAssumption, MaxPollsAssumption
      <3>5. pollsTotal' \in Int /\ polls' \in Int /\ polls' <= MaxPolls
        BY <2>4, <3>1, MaxPollsAssumption
      <3> HIDE DEF Good
      <3>6. pollsTotal' <= MaxPolls + MaxErrors BY <3>1, <3>2, <3>3, <3>4, <3>5
      <3> QED BY <2>4, <3>6, MaxErrorsAssumption, MaxPollsAssumption
    <2> QED BY <2>1, <2>2, <2>3, <2>4, <2>5 DEF MetricsInv, MetricsTypeOK, Inv
  <1>3. MetricsInv => MonitoringAgrees
    BY DEF MetricsInv, ReaderServed, GoodFillRing, Good, MonitoringAgrees
  <1> QED BY <1>1, <1>2, <1>3, PTL DEF MetricsSpec
=============================================================================
