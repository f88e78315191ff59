--------------------------- MODULE MCCaracalProber ---------------------------
(* Instances of CaracalProber for TLC. *)
EXTENDS CaracalProber, TLC

NoSkew   == {0}
SlowClock == {-1, 0}

\* Calls differ only in their names.
CallSymmetry == Permutations(Calls)
=============================================================================
