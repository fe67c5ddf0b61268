------------------------- MODULE MCDocumentPipeline -------------------------
(***************************************************************************)
(* Values of the constants of DocumentPipeline for TLC: documents d1 and   *)
(* d2, runs f1 and f2 started by their uploads, runs a1 and a2 started by  *)
(* analyze.                                                                *)
(***************************************************************************)
EXTENDS DocumentPipeline

CONSTANTS d1, d2, m1, f1, f2, a1, a2

OneDoc == {d1}
OneMatterOnly == {m1}
TwoRuns == {f1, a1}
ThreeRuns == {f1, a1, a2}
BothDocs == {d1, d2}
BothUploadsOneAnalyze == {f1, f2, a1}

InOneMatter == [d \in Docs |-> m1]
FirstRuns == [d \in Docs |-> IF d = d1 THEN f1 ELSE f2]

\* A page without text and a page of two chunks; d2 has no page at all.
SomePages == [d \in Docs |-> IF d = d1 THEN <<0, 2>> ELSE <<>>]
=============================================================================
