--------------------------- MODULE SlidingWindow ---------------------------
(***************************************************************************)
(* What package store promises of its memory: the last Width snapshots     *)
(* put, oldest first, and nothing after a restart of the process.          *)
(***************************************************************************)
EXTENDS Integers, Sequences

CONSTANT Width      \* number of snapshots retained
CONSTANT Snapshots  \* everything that can be put

VARIABLE window     \* the retained snapshots, oldest first

\* The last Width elements of the sequence s.
Newest(s) == IF Len(s) <= Width THEN s
             ELSE [i \in 1..Width |-> s[i + Len(s) - Width]]

Init == window = << >>

Put(s) == window' = Newest(Append(window, s))

Restart == window' = << >>

Next == Restart \/ \E s \in Snapshots : Put(s)

Spec == Init /\ [][Next]_window
=============================================================================
