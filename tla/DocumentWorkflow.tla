-------------------------- MODULE DocumentWorkflow --------------------------
(***************************************************************************)
(* DocumentProcessingWorkflow, the Temporal path of document processing    *)
(* (DOCUMENT_PROCESSING_MODE = "temporal"): the workflow, its seven         *)
(* activities, and what Temporal does with an attempt that fails, is lost   *)
(* with its worker or outlives start_to_close_timeout.  An attempt given up *)
(* that way goes on running: the activities send no heartbeats, so nothing  *)
(* tells them to stop.                                                     *)
(*                                                                         *)
(* The rows are those of one document.  An activity writes either all of a *)
(* stage's rows or none, in one transaction at READ COMMITTED, so the chunk *)
(* rows of one commit are one batch here.  The steps of the endpoints and   *)
(* the matter's metadata are those of DocumentPipeline and left out.        *)
(***************************************************************************)
EXTENDS Integers

CONSTANTS
  Workflows,    \* the workflows dispatched for the document
  Attempts,     \* names for the activity attempts that run at a time
  Batches,      \* names for the sets of chunk rows that exist at a time
  Failing,      \* the stages whose attempts may fail
  Slow,         \* the stages whose attempts may outlive their timeout
  Overlap       \* may a workflow be dispatched before the last one has ended

Stages == {"validate", "checksum", "extract", "quality", "chunks", "embed", "index"}

ASSUME WorkflowAssumption ==
  /\ "none" \notin Attempts
  /\ Failing \subseteq Stages
  /\ Slow \subseteq Stages
  /\ Overlap \in BOOLEAN

VARIABLES
  text,         \* does the file have any text
  \* The database.
  status,       \* Document.status
  pages,        \* are there DocumentPage rows
  chunks,       \* the batches of DocumentChunk rows
  embedded,     \* those with Embedding rows
  \* The Temporal server.
  stage,        \* stage[w]: the stage of workflow w
  tries,        \* tries[w]: attempts of it that were started, where they count
  current,      \* current[w]: the attempt the server waits for, or "none"
  \* The worker.
  job, step,    \* job[a], step[a]: the workflow and the next step of attempt a
  held,         \* held[a]: the batches it has loaded or is deleting
  dirty,        \* dirty[a]: will its flush UPDATE the document's status
  \* History.
  spoiled,      \* has an attempt of extract_text that was given up written the
                \* status since the last dispatch
  torn          \* has an attempt of create_chunks that was given up written

dbVars == <<text, status, pages, chunks, embedded, spoiled, torn>>
serverVars == <<stage, tries, current>>
vars == <<text, status, pages, chunks, embedded, stage, tries, current,
          job, step, held, dirty, spoiled, torn>>

-----------------------------------------------------------------------------
Ended == {"completed", "failed", "unstarted"}
Steps == {"idle", "validating", "summing", "assessing", "checkingPages", "writingPages",
          "checkingChunks", "deletingChunks", "writingChunks", "loadingChunks",
          "checkingVectors", "embedding", "analyzing", "saving", "committing",
          "marking", "markingError", "reporting", "raising"}

\* Broken variant: the retries of index_document are not bounded.
LimitForgotten(s) == IF s = "validate" THEN 3 ELSE IF s = "extract" THEN 2 ELSE 0

\* maximum_attempts, 0 where the retry policy is left at its default.
Limit(s) == CASE s \in {"validate", "index"} -> 3
              [] s = "extract" -> 2
              [] OTHER -> 0

\* Broken variant: the document is indexed before its vectors are made.
AfterSwapped(s) == CASE s = "validate" -> "checksum"
                     [] s = "checksum" -> "extract"
                     [] s = "extract"  -> "quality"
                     [] s = "quality"  -> "chunks"
                     [] s = "chunks"   -> "index"
                     [] s = "index"    -> "embed"
                     [] OTHER          -> "completed"

After(s) == CASE s = "validate" -> "checksum"
              [] s = "checksum" -> "extract"
              [] s = "extract"  -> "quality"
              [] s = "quality"  -> "chunks"
              [] s = "chunks"   -> "embed"
              [] s = "embed"    -> "index"
              [] OTHER          -> "completed"

\* The first step of the activity of a stage.
FirstStep(s) == CASE s = "validate" -> "validating"
                  [] s = "checksum" -> "summing"
                  [] s = "extract"  -> "checkingPages"
                  [] s = "quality"  -> "assessing"
                  [] s = "chunks"   -> "checkingChunks"
                  [] s = "embed"    -> "loadingChunks"
                  [] OTHER          -> "analyzing"

\* The steps of the activity of a stage before it reports or raises.
StepsOf(s) == CASE s = "extract" -> {"checkingPages", "writingPages"}
                [] s = "chunks"  -> {"checkingChunks", "deletingChunks", "writingChunks"}
                [] s = "embed"   -> {"loadingChunks", "checkingVectors", "embedding"}
                [] s = "index"   -> {"analyzing", "saving", "committing", "marking",
                                     "markingError"}
                [] OTHER         -> {FirstStep(s)}

Searchable == text => embedded # {}

TypeOK ==
  /\ text \in BOOLEAN
  /\ status \in {"absent", "PROCESSING", "READY", "ERROR"}
  /\ pages \in BOOLEAN
  /\ chunks \subseteq Batches
  /\ embedded \subseteq chunks
  /\ stage \in [Workflows -> Stages \union Ended \union {"none", "submitted"}]
  /\ tries \in [Workflows -> 0..3]
  /\ current \in [Workflows -> Attempts \union {"none"}]
  /\ job \in [Attempts -> Workflows \union {"none"}]
  /\ step \in [Attempts -> Steps]
  /\ held \in [Attempts -> SUBSET Batches]
  /\ dirty \in [Attempts -> BOOLEAN]
  /\ spoiled \in BOOLEAN
  /\ torn \in BOOLEAN

Init ==
  /\ text \in BOOLEAN
  /\ status = "absent"
  /\ pages = FALSE
  /\ chunks = {}
  /\ embedded = {}
  /\ stage = [w \in Workflows |-> "none"]
  /\ tries = [w \in Workflows |-> 0]
  /\ current = [w \in Workflows |-> "none"]
  /\ job = [a \in Attempts |-> "none"]
  /\ step = [a \in Attempts |-> "idle"]
  /\ held = [a \in Attempts |-> {}]
  /\ dirty = [a \in Attempts |-> FALSE]
  /\ spoiled = FALSE
  /\ torn = FALSE

\* Names of workflows, attempts and batches are given out in a fixed order:
\* they mean nothing.
First(S) == CHOOSE x \in S : TRUE

-----------------------------------------------------------------------------
(* Dispatch *)

\* The upload, or analyze: the row is committed as PROCESSING.
Submit(w) ==
  /\ stage[w] = "none"
  /\ w = First({v \in Workflows : stage[v] = "none"})
  /\ Overlap \/ \A v \in Workflows : stage[v] \in Ended \union {"none"}
  /\ status' = "PROCESSING"
  /\ stage' = [stage EXCEPT ![w] = "submitted"]
  /\ spoiled' = FALSE
  /\ UNCHANGED <<text, pages, chunks, embedded, tries, current, job, step, held,
                 dirty, torn>>

\* _dispatch_temporal fails, or the workflow is started.  If it fails, also
\* because only the server's answer is lost, the request marks the document
\* (at once, although the workflow may be a few steps ahead by then).
Start(w) ==
  /\ stage[w] = "submitted"
  /\ \/ /\ stage' = [stage EXCEPT ![w] = "unstarted"]
        /\ status' = "ERROR"
     \/ /\ stage' = [stage EXCEPT ![w] = "validate"]
        /\ status' \in {status, "ERROR"}
  /\ UNCHANGED <<text, pages, chunks, embedded, tries, current, job, step, held,
                 dirty, spoiled, torn>>

-----------------------------------------------------------------------------
(* The server *)

\* An attempt of the workflow's activity is handed to a worker.
Schedule(w, a) ==
  /\ stage[w] \in Stages
  /\ current[w] = "none"
  /\ step[a] = "idle"
  /\ a = First({o \in Attempts : step[o] = "idle"})
  /\ current' = [current EXCEPT ![w] = a]
  /\ tries' = [tries EXCEPT ![w] = IF Limit(stage[w]) > 0 THEN @ + 1 ELSE @]
  /\ job' = [job EXCEPT ![a] = w]
  /\ step' = [step EXCEPT ![a] = FirstStep(stage[w])]
  /\ UNCHANGED <<dbVars, stage, held, dirty>>

\* Broken variant: one attempt more than maximum_attempts.
ExhaustedLate(w) == Limit(stage[w]) > 0 /\ tries[w] > Limit(stage[w])

\* No attempt is left for the activity of w.
Exhausted(w) == Limit(stage[w]) > 0 /\ tries[w] >= Limit(stage[w])

\* The attempt the server waits for has failed: try again, or raise
\* ActivityError in the workflow, which does not handle it.
Retry(w) ==
  /\ stage' = [stage EXCEPT ![w] = IF Exhausted(w) THEN "failed" ELSE @]
  /\ current' = [current EXCEPT ![w] = "none"]
  /\ UNCHANGED tries

\* start_to_close_timeout; the attempt goes on.
Timeout(w) ==
  /\ current[w] # "none"
  /\ stage[w] \in Slow
  /\ Retry(w)
  /\ UNCHANGED <<dbVars, job, step, held, dirty>>

\* The worker dies and is started again; the server learns of it by timeouts.
Crash ==
  /\ stage' = [w \in Workflows |-> IF current[w] # "none" /\ Exhausted(w)
                                     THEN "failed" ELSE stage[w]]
  /\ current' = [w \in Workflows |-> "none"]
  /\ job' = [a \in Attempts |-> "none"]
  /\ step' = [a \in Attempts |-> "idle"]
  /\ held' = [a \in Attempts |-> {}]
  /\ dirty' = [a \in Attempts |-> FALSE]
  /\ UNCHANGED <<dbVars, tries>>

\* Attempt a is over for the worker.
Free(a) ==
  /\ job' = [job EXCEPT ![a] = "none"]
  /\ step' = [step EXCEPT ![a] = "idle"]
  /\ held' = [held EXCEPT ![a] = {}]
  /\ dirty' = [dirty EXCEPT ![a] = FALSE]

\* Its result reaches the server, which has no use for that of an attempt it
\* has given up.
Report(a) ==
  LET w == job[a] IN
  /\ step[a] = "reporting"
  /\ IF current[w] = a
     THEN /\ stage' = [stage EXCEPT ![w] = After(@)]
          /\ tries' = [tries EXCEPT ![w] = 0]
          /\ current' = [current EXCEPT ![w] = "none"]
     ELSE UNCHANGED serverVars
  /\ Free(a)
  /\ UNCHANGED dbVars

Raise(a) ==
  LET w == job[a] IN
  /\ step[a] = "raising"
  /\ IF current[w] = a THEN Retry(w) ELSE UNCHANGED serverVars
  /\ Free(a)
  /\ UNCHANGED dbVars

-----------------------------------------------------------------------------
(* The activities *)

\* A step of attempt a to `to` that leaves the server alone.
Go(a, from, to) ==
  /\ step[a] = from
  /\ step' = [step EXCEPT ![a] = to]
  /\ UNCHANGED <<serverVars, text, job>>

\* validate_file (whose verdict the workflow ignores), compute_checksum and
\* assess_quality only read.
Read(a) ==
  /\ \E from \in {"validating", "summing", "assessing"} : Go(a, from, "reporting")
  /\ UNCHANGED <<dbVars, held, dirty>>

\* An exception in an activity; its transaction is rolled back.
Fail(a) ==
  /\ \E s \in Failing : step[a] \in StepsOf(s)
  /\ step' = [step EXCEPT ![a] = "raising"]
  /\ held' = [held EXCEPT ![a] = {}]
  /\ dirty' = [dirty EXCEPT ![a] = FALSE]
  /\ UNCHANGED <<dbVars, serverVars, job>>

\* extract_text: download, and see whether there are pages
PagesCheck(a) ==
  /\ Go(a, "checkingPages", IF pages THEN "reporting" ELSE "writingPages")
  /\ UNCHANGED <<dbVars, held, dirty>>

\* extract_text: DELETE, INSERT, UPDATE of the status, commit.  Pages that
\* another attempt committed since the check are replaced.
PagesWrite(a) ==
  /\ Go(a, "writingPages", "reporting")
  /\ pages' = TRUE
  /\ status' = "PROCESSING"
  /\ spoiled' = (spoiled \/ current[job[a]] # a)
  /\ UNCHANGED <<chunks, embedded, held, dirty, torn>>

\* They were committed after the DELETE: uq_doc_page refuses the INSERT.
PagesConflict(a) ==
  /\ Go(a, "writingPages", "raising")
  /\ pages
  /\ UNCHANGED <<dbVars, held, dirty>>

\* Broken variants: no look at the chunks there are; and no DELETE either.
ChunksCheckSkipped(a) ==
  /\ Go(a, "checkingChunks", "deletingChunks")
  /\ UNCHANGED <<dbVars, held, dirty>>
ChunksCheckBlind(a) ==
  /\ Go(a, "checkingChunks", "writingChunks")
  /\ UNCHANGED <<dbVars, held, dirty>>

\* create_chunks: are there chunks already
ChunksCheck(a) ==
  /\ Go(a, "checkingChunks", IF chunks # {} THEN "reporting" ELSE "deletingChunks")
  /\ UNCHANGED <<dbVars, held, dirty>>

\* Batch b is being deleted by a transaction that has not committed.
Deleting(b) == \E a \in Attempts : step[a] = "writingChunks" /\ b \in held[a]

\* create_chunks: DELETE, which sees what was committed since the check, and
\* waits for rows that another transaction is deleting.
ChunksDelete(a) ==
  /\ Go(a, "deletingChunks", "writingChunks")
  /\ \A b \in chunks : ~Deleting(b)
  /\ held' = [held EXCEPT ![a] = chunks]
  /\ UNCHANGED <<dbVars, dirty>>

Unused == Batches \ (chunks \union UNION {held[a] : a \in Attempts})

\* create_chunks: INSERT and commit; the DELETE takes the vectors along
\* (ondelete CASCADE).
ChunksWrite(a) ==
  /\ Go(a, "writingChunks", "reporting")
  /\ IF text /\ pages
     THEN \E b \in Unused : b = First(Unused) /\ chunks' = (chunks \ held[a]) \union {b}
     ELSE chunks' = chunks \ held[a]
  /\ embedded' = embedded \ held[a]
  /\ held' = [held EXCEPT ![a] = {}]
  /\ torn' = (torn \/ current[job[a]] # a)
  /\ UNCHANGED <<status, pages, dirty, spoiled>>

\* generate_embeddings: load the chunks, return if there are none
VectorsLoad(a) ==
  /\ Go(a, "loadingChunks", IF chunks = {} THEN "reporting" ELSE "checkingVectors")
  /\ held' = [held EXCEPT ![a] = chunks]
  /\ UNCHANGED <<dbVars, dirty>>

\* generate_embeddings: return if any of them is embedded
VectorsCheck(a) ==
  /\ Go(a, "checkingVectors", IF held[a] \cap embedded # {} THEN "reporting" ELSE "embedding")
  /\ UNCHANGED <<dbVars, held, dirty>>

\* generate_embeddings: DELETE, the calls of the provider, INSERT and commit.
\* Vectors committed since the check are replaced.  The rows of chunks keep a
\* DELETE of them waiting or wait for it.
VectorsWrite(a) ==
  /\ Go(a, "embedding", "reporting")
  /\ held[a] \subseteq chunks
  /\ \A b \in held[a] : ~Deleting(b)
  /\ embedded' = embedded \union held[a]
  /\ held' = [held EXCEPT ![a] = {}]
  /\ UNCHANGED <<status, pages, chunks, dirty, spoiled, torn>>

\* They were committed after the DELETE, or the chunks are gone.
VectorsConflict(a) ==
  /\ Go(a, "embedding", "raising")
  /\ held[a] \cap embedded # {} \/ ~(held[a] \subseteq chunks)
  /\ held' = [held EXCEPT ![a] = {}]
  /\ UNCHANGED <<dbVars, dirty>>

\* index_document: the analysis; AllProvidersFailedError leads to the marking
\* (any other exception to Fail).
Analyze(a) ==
  /\ \/ Go(a, "analyzing", "saving")
     \/ "index" \in Failing /\ Go(a, "analyzing", "marking")
  /\ UNCHANGED <<dbVars, held, dirty>>

\* Broken variant: the status is written only along with a new analysis.
IndexLoadUnchanged(a) ==
  /\ Go(a, "saving", "committing")
  /\ \E differs \in BOOLEAN : dirty' = [dirty EXCEPT ![a] = differs]
  /\ UNCHANGED <<dbVars, held>>

\* index_document: load the document.  The status is written if it differs.
IndexLoad(a) ==
  /\ Go(a, "saving", "committing")
  /\ dirty' = [dirty EXCEPT ![a] = status # "READY"]
  /\ UNCHANGED <<dbVars, held>>

\* index_document: READY
IndexSave(a) ==
  /\ Go(a, "committing", "reporting")
  /\ status' = IF dirty[a] THEN "READY" ELSE status
  /\ dirty' = [dirty EXCEPT ![a] = FALSE]
  /\ UNCHANGED <<pages, chunks, embedded, held, spoiled, torn>>

\* index_document, every provider is unavailable: load the document
ErrorLoad(a) ==
  /\ Go(a, "marking", "markingError")
  /\ dirty' = [dirty EXCEPT ![a] = status # "ERROR"]
  /\ UNCHANGED <<dbVars, held>>

\* ... mark it ERROR, and raise again, whichever attempt this is
ErrorSave(a) ==
  /\ Go(a, "markingError", "raising")
  /\ status' = IF dirty[a] THEN "ERROR" ELSE status
  /\ dirty' = [dirty EXCEPT ![a] = FALSE]
  /\ UNCHANGED <<pages, chunks, embedded, held, spoiled, torn>>

-----------------------------------------------------------------------------
(* The specification *)

\* What attempt a does next.
Activity(a) ==
  \/ Read(a)
  \/ PagesCheck(a) \/ PagesWrite(a) \/ PagesConflict(a)
  \/ ChunksCheck(a) \/ ChunksDelete(a) \/ ChunksWrite(a)
  \/ VectorsLoad(a) \/ VectorsCheck(a) \/ VectorsWrite(a) \/ VectorsConflict(a)
  \/ Analyze(a) \/ IndexLoad(a) \/ IndexSave(a) \/ ErrorLoad(a) \/ ErrorSave(a)
  \/ Report(a) \/ Raise(a)

Next ==
  \/ \E w \in Workflows : Submit(w) \/ Start(w) \/ Timeout(w)
  \/ \E w \in Workflows, a \in Attempts : Schedule(w, a)
  \/ \E a \in Attempts : Activity(a) \/ Fail(a)
  \/ Crash

Spec == Init /\ [][Next]_vars

\* The server hands out what there is to do, and the event loop of the worker
\* resumes every attempt whose await has completed.
FairSpec ==
  /\ Spec
  /\ \A w \in Workflows : WF_vars(\E a \in Attempts : Schedule(w, a))
  /\ \A a \in Attempts : WF_vars(Activity(a))

-----------------------------------------------------------------------------
(* Properties *)

\* A READY document is searchable, although attempts of extract_text,
\* generate_embeddings and index_document go on after their timeouts: the
\* checks, the constraints and the one commit of each let no such attempt spoil
\* what a later one has done (extraction.py:64-110, embedding.py:24-71).  A late
\* attempt of create_chunks can.
ReadyIsSearchable == status = "READY" => Searchable \/ torn

\* src/README.md:200: "Every step is idempotent and safe to re-run";
\* chunking.py:46: "Delete any existing chunks for idempotency".  Not so when
\* start_to_close_timeout starts an attempt of create_chunks beside one that
\* goes on: both DELETE before either INSERTs, and no constraint refuses the
\* second batch.
ChunksStoredOnce == \A b, c \in chunks : b = c

\* Nothing else stores chunks twice: no crash between the commit of
\* create_chunks and its report, no attempt or workflow after a failed one, and
\* no late attempt of another stage (chunking.py:32-98).
NoDuplicateChunks == ChunksStoredOnce \/ torn

\* The only step that removes vectors is the commit of an attempt of
\* create_chunks that the server has given up: an attempt it waits for finds no
\* chunks with vectors to DELETE, and generate_embeddings, which DELETEs before
\* it INSERTs too, replaces what it deletes (chunking.py:34-48,
\* embedding.py:36-51).
VectorsStay ==
  [][\/ embedded \subseteq embedded'
     \/ \E a \in Attempts : ChunksWrite(a) /\ current[job[a]] # a]_vars

\* Once index_document has done its work for the workflow that waits for it,
\* the document is not PROCESSING any more, whatever earlier attempts of it and
\* of other stages still write; only an attempt of extract_text that outlived
\* its timeout may have put PROCESSING back (indexing.py:74-98,
\* extraction.py:104).
IndexedIsSettled ==
  \A w \in Workflows, a \in Attempts :
    stage[w] = "index" /\ current[w] = a /\ step[a] = "reporting"
      => status # "PROCESSING" \/ spoiled

\* Those who search the document get what SearchableDocuments says, from
\* retries, restarts and late attempts too, up to the first write of a late
\* attempt of create_chunks, after which nothing is said of the vectors.
Document == "document"
Documents == INSTANCE SearchableDocuments WITH
  Docs <- {Document},
  phase <- [d \in {Document} |-> status],
  searchable <- {d \in {Document} : Searchable \/ torn}

ImplementsSearchable == Documents!Spec

\* The stages that are retried for ever (Limit).
Persistent == {"checksum", "quality", "chunks", "embed"}

\* An attempt of such a stage that the server waits for comes to nothing: it
\* fails, is given up after its timeout or dies with the worker.
Setback ==
  \E w \in Workflows :
    /\ stage[w] \in Persistent
    /\ current[w] # "none"
    /\ current'[w] = "none"
    /\ stage'[w] = stage[w]

\* Every workflow ends, unless a stage that is retried for ever comes to
\* nothing again and again: validate_file, extract_text and index_document may,
\* they have maximum_attempts.  While the storage is out, compute_checksum does,
\* while the embedding providers are, generate_embeddings
\* (document_processing.py:50-107).
EveryWorkflowEnds ==
  <>[][~Setback]_vars =>
    \A w \in Workflows : stage[w] \in Stages ~> stage[w] \in Ended
=============================================================================
