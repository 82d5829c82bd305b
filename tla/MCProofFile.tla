----------------------------- MODULE MCProofFile -----------------------------
(***************************************************************************)
(* Instances of ProofFile for TLC: two or three concurrent calls, one with *)
(* --overwrite; every fault with fresh staging names, or few names, drawn  *)
(* again and again, without interrupts.                                    *)
(***************************************************************************)
EXTENDS ProofFile

CONSTANTS w1, w2, w3, t1, t2, t3

MCFaultsAll == {"io", "unlink", "interrupt", "kill", "power"}
MCFaultsReuse == {"io", "kill", "reuse"}
==============================================================================
