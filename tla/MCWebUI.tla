------------------------------ MODULE MCWebUI ------------------------------
(***************************************************************************)
(* The two parts of the web UI, for TLC: the live view and the history     *)
(* scrubber.  They share no state, so a behaviour is about one of them.    *)
(***************************************************************************)
EXTENDS LiveView, Scrubber

VARIABLE part  \* which of the two it is about

MCVars == <<vars, scrubberVars, part>>

MCInit == \/ part = "stream" /\ Init /\ ScrubberInit /\ polled = 0
          \/ part = "scrubber" /\ Init /\ ~token /\ ScrubberInit

Stream(A) == part = "stream" /\ A /\ UNCHANGED <<scrubberVars, part>>
Scrub(A) == part = "scrubber" /\ A /\ UNCHANGED <<vars, part>>

\* Each with the fairness it has on its own.
MCSpec == /\ MCInit
          /\ [][Stream(Next) \/ Scrub(ScrubberNext)]_MCVars
          /\ WF_MCVars(Stream(Poll)) /\ WF_MCVars(Stream(WriteLatest))
          /\ WF_MCVars(Stream(Push)) /\ WF_MCVars(Stream(WsFrame))
          /\ WF_MCVars(Scrub(ReplayTick))
=============================================================================
