------------------------- MODULE MCDocumentWorkflow -------------------------
(***************************************************************************)
(* Values of the constants of DocumentWorkflow for TLC.                    *)
(***************************************************************************)
EXTENDS DocumentWorkflow

CONSTANTS w1, w2, t1, t2, b1, b2

TwoWorkflows == {w1, w2}
OneWorkflow == {w1}
TwoAttempts == {t1, t2}
TwoBatches == {b1, b2}
=============================================================================
