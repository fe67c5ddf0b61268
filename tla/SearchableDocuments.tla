------------------------ MODULE SearchableDocuments ------------------------
(***************************************************************************)
(* What those who search documents may rely on, however the documents are  *)
(* processed: in process, where runs of one document may overlap, or by    *)
(* Temporal workflows.  Any status may follow any other, but READY is      *)
(* written only for a document all of whose text can be found through the  *)
(* embeddings, and what can be found stays so.                             *)
(***************************************************************************)
CONSTANT Docs

VARIABLES
  phase,        \* phase[d]: the status column, "absent" before the row exists
  searchable    \* the documents every piece of which has a stored embedding

vars == <<phase, searchable>>

Phases == {"absent", "PROCESSING", "READY", "ERROR"}

TypeOK ==
  /\ phase \in [Docs -> Phases]
  /\ searchable \subseteq Docs

\* A document without text has nothing that must be found.
Init ==
  /\ phase = [d \in Docs |-> "absent"]
  /\ searchable \subseteq Docs

Move(d, from, to) ==
  /\ phase[d] \in from
  /\ phase' = [phase EXCEPT ![d] = to]
  /\ UNCHANGED searchable

\* The upload, another analysis, or a stage that stores the pages.
Process(d) == Move(d, Phases, "PROCESSING")

Fail(d) == Move(d, Phases \ {"absent"}, "ERROR")

\* Broken variant: READY without a look at the embeddings.
SucceedUnembedded(d) == Move(d, Phases \ {"absent"}, "READY")

Succeed(d) == d \in searchable /\ Move(d, Phases \ {"absent"}, "READY")

\* The text becomes retrievable, all of it in one step.
MakeSearchable(d) ==
  /\ phase[d] # "absent"
  /\ searchable' = searchable \union {d}
  /\ UNCHANGED phase

Next == \E d \in Docs : Process(d) \/ Fail(d) \/ Succeed(d) \/ MakeSearchable(d)

Spec == Init /\ [][Next]_vars
=============================================================================
