-------------------------- MODULE MCTimedGenerator ---------------------------
(* An instance of TimedGenerator for TLC: see MCGenerator. *)
EXTENDS TimedGenerator

MCWorks == {1, 2}
==============================================================================
