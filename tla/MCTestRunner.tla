--------------------------- MODULE MCTestRunner ---------------------------
(* A command that passes, fails or panics, and up to three signals. *)
EXTENDS TestRunner

CONSTANTS killed, running, noCode

SomeCodes == {0, 1, 2}
=============================================================================
