------------------------- MODULE DocumentLifecycle -------------------------
(***************************************************************************)
(* What a client of the documents API is promised about one document, as  *)
(* GET /documents/{id}/status shows it: a submitted document is PROCESSING *)
(* until it is READY or ERROR, READY is reached only once all of its text  *)
(* can be retrieved by the vector search, and a settled document moves     *)
(* again only because somebody asked for another analysis.                 *)
(***************************************************************************)
CONSTANTS
  Docs,         \* the documents
  Blank         \* those without any text: nothing to retrieve

VARIABLES
  phase,        \* phase[d]: the status column, "absent" before the row exists
  searchable    \* the documents every piece of which has a stored embedding

vars == <<phase, searchable>>

Phases == {"absent", "PROCESSING", "READY", "ERROR"}

TypeOK ==
  /\ phase \in [Docs -> Phases]
  /\ searchable \subseteq Docs

Init ==
  /\ phase = [d \in Docs |-> "absent"]
  /\ searchable = Blank

Move(d, from, to) ==
  /\ phase[d] \in from
  /\ phase' = [phase EXCEPT ![d] = to]
  /\ UNCHANGED searchable

\* The upload is answered: the row is committed and processing was dispatched.
Submit(d) == Move(d, {"absent"}, "PROCESSING")

\* Somebody calls POST /documents/{id}/analyze on a settled document.
Reprocess(d) == Move(d, {"READY", "ERROR"}, "PROCESSING")

\* The text becomes retrievable, all of it in one step, while processing.
MakeSearchable(d) ==
  /\ phase[d] = "PROCESSING"
  /\ searchable' = searchable \union {d}
  /\ UNCHANGED phase

Succeed(d) == d \in searchable /\ Move(d, {"PROCESSING"}, "READY")

Fail(d) == Move(d, {"PROCESSING"}, "ERROR")

Next == \E d \in Docs :
  Submit(d) \/ Reprocess(d) \/ MakeSearchable(d) \/ Succeed(d) \/ Fail(d)

Spec == Init /\ [][Next]_vars
=============================================================================
