---------------------------- MODULE MCAuditTrail ----------------------------
(***************************************************************************)
(* AuditTrail for TLC, and a statement of the docs about the trail that    *)
(* the model does not bear out.                                            *)
(***************************************************************************)
EXTENDS AuditTrail

\* signal.go:2: an audit record is written for every attempt.  Without disk
\* faults, a signal that was sent by a request that has ended is in the
\* audit table.
EveryAttemptRecorded ==
    durable => \A r \in hit : req[r].pc \in {"done", "dead"} => EntriesBy(r) # {}
=============================================================================
