------------------------------ MODULE MCVerify -------------------------------
(***************************************************************************)
(* An instance of Verify for TLC: the pinned bundle, a custom one, and one *)
(* bundle for each way of being unusable; proofs with at most one flaw.    *)
(* Bytes have four values: the target is 6, and the works are 6, 9 and 3,  *)
(* the last two on the other side of it when they are read backwards.      *)
(***************************************************************************)
EXTENDS Verify, FiniteSets

MCBundles == {"pinned", "custom", "missing", "garbled", "versioned", "empty",
              "oversized"}
MCBundleFlaw ==
    [b \in MCBundles |->
        CASE b = "missing" -> "missing"
          [] b = "garbled" -> "pem"
          [] b = "versioned" -> "version"
          [] b = "empty" -> "empty"
          [] b = "oversized" -> "exponents"
          [] OTHER -> "none"]
MCTarget == <<0, 1, 1, 0>>
MCProofs ==
    [flaws : {f \in SUBSET Own : Cardinality(f) <= 1},
     work : {<<2, 1>>, <<1, 2>>, <<3, 0>>},
     paths : SUBSET {"pinned", "custom"}]
==============================================================================
