----------------------------- MODULE MCGenerator -----------------------------
(***************************************************************************)
(* Instances of Generator for TLC: two works, one on each side of the      *)
(* target, so that a capture can miss or meet it; two workers; two to four *)
(* attempts.  Where --max-attempts is a safety property's business, there  *)
(* is room for one attempt more than it allows.                            *)
(***************************************************************************)
EXTENDS Generator

MCWorks == {1, 2}
==============================================================================
