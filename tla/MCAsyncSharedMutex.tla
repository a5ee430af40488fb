------------------------- MODULE MCAsyncSharedMutex -------------------------
(***************************************************************************)
(* TLC instances of AsyncSharedMutex: two shared and two unique requests,  *)
(* one of each kind on either of two IO loops, so that a reader and a      *)
(* writer contend both across threads and on one thread.                   *)
(***************************************************************************)
EXTENDS AsyncSharedMutex

CONSTANTS r1, r2, w1, w2, t1, t2

MCCoro == {r1, r2, w1, w2}
MCThread == {t1, t2}
MCHome == [c \in MCCoro |-> IF c \in {r1, w1} THEN t1 ELSE t2]
MCMode == [c \in MCCoro |-> IF c \in {r1, r2} THEN "shared" ELSE "unique"]

\* Exchanging the two loops together with their requests changes nothing.
\* (TLC's SYMMETRY takes permutations of a set of model values; the loops and
\* the requests would have to move together, so no symmetry is declared.)

=============================================================================
