---------------------------- MODULE MCLiveStream ----------------------------
(***************************************************************************)
(* LiveStream for TLC, and a statement the comments of the code make of    *)
(* the live path that the model does not bear out.                         *)
(***************************************************************************)
EXTENDS LiveStream

\* store.go:22 calls the store concurrency-safe: no interleaving of Put and
\* unsub should end the process.
ConcurrencySafe == proc = "up"
=============================================================================
