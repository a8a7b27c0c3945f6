------------------------------- MODULE MCWait -------------------------------
(***************************************************************************)
(* Finite instances of Wait for TLC.                                        *)
(***************************************************************************)
EXTENDS Wait

CONSTANTS s1, s2, g1, g2

MCSources == {s1, s2}
MCGuards == {g1, g2}

\* Waits without a timeout; attachments may fail; attachEvent tests the flag.
Untimed ==
  [timeouts |-> {"infinite"}, attachFails |-> TRUE, attachTests |-> TRUE, takers |-> FALSE]

\* Waits with a timeout, threads that take from the same entities, and guards whose
\* attachment does not tell of earlier triggers.
Timed ==
  [timeouts |-> {"finite"}, attachFails |-> FALSE, attachTests |-> FALSE, takers |-> TRUE]

\* Waits without a timeout on such guards.
Sleeping == [Untimed EXCEPT !.attachTests = FALSE]

MCSettings == {Untimed, Timed, Sleeping}
=============================================================================
