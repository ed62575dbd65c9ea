----------------------------- MODULE MCHarness -----------------------------
(* Three tests of one package, two of them with the same scenario. *)
EXTENDS Harness, TLC

CONSTANTS t1, t2, t3

ThreeTests == {t1, t2, t3}

TwoNames == t1 :> "intra_node" @@ t2 :> "intra_node" @@ t3 :> "other"
=============================================================================
