----------------------------- MODULE MCEntrySite -----------------------------
(* A site that is recorded after one observation and compiled after another. *)
EXTENDS EntrySite, TLC

CONSTANTS t1, t2
MCThread2 == {t1, t2}
MCCase == {"integer", "boolean", "none"}
MCBaseline == {"interpreter", "cranelift"}
MCEvery == MCBaseline \cup {"tiered"}
MCSymmetry == Permutations(MCThread2)
=============================================================================
