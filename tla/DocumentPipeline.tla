-------------------------- MODULE DocumentPipeline --------------------------
(***************************************************************************)
(* The in-process document pipeline of the API (DOCUMENT_PROCESSING_MODE = *)
(* "inline"): the upload endpoints, POST /documents/{id}/analyze, the      *)
(* background task process_document with its four steps, and the two       *)
(* other writers of a matter's title.                                      *)
(*                                                                         *)
(* The API is one asyncio process, so code between two awaits is atomic    *)
(* and an action here is what a handler or a run of the task does from one *)
(* await that other tasks can get into to the next one.  The database is   *)
(* PostgreSQL at READ COMMITTED: a transaction's writes appear at its      *)
(* commit, and an UPDATE of a row waits for the open transaction that has  *)
(* already updated the row.  In that transaction SQLAlchemy emits UPDATEs  *)
(* only for columns whose value differs from the one it loaded.            *)
(***************************************************************************)
EXTENDS Integers, Sequences

CONSTANTS
  Docs,         \* the documents that may be uploaded
  Matters,      \* the matters they belong to
  MatterOf,     \* MatterOf[d]: the matter document d is filed under
  Edited,       \* the matters whose title users type
  Pages,        \* Pages[d]: how many chunks each page of the file d gives
  Readable,     \* the documents the extraction library can open
  Runs,         \* the processing runs (executions of process_document)
  FirstRun,     \* FirstRun[d]: the run the upload of d dispatches; the others
                \* belong to calls of analyze and bound their number
  Faults,       \* what may fail: "store" object storage, "ai" the model
                \* providers, "db" the database
  MaxCrashes,   \* bound on the restarts of the API process
  Overlap       \* may analyze be called while a run of the document is alive

ASSUME ConstantsAssumption ==
  /\ MatterOf \in [Docs -> Matters]
  /\ Pages \in [Docs -> Seq(Nat)]
  /\ Readable \subseteq Docs
  /\ FirstRun \in [Docs -> Runs]
  /\ \A d, e \in Docs : FirstRun[d] = FirstRun[e] => d = e
  /\ Faults \subseteq {"store", "ai", "db"}
  /\ MaxCrashes \in Nat
  /\ Overlap \in BOOLEAN

\* Sentinels used where a document's or a run's name could stand.
ASSUME SentinelsAssumption == {"none", "file", "user"} \cap Docs = {}

VARIABLES
  \* The database and the object store.
  status,       \* status[d]: Document.status, "absent" before the commit
  objects,      \* the documents whose file is in the object store
  paged,        \* the documents with DocumentPage rows
  chunks,       \* chunks[d]: its DocumentChunk rows, <<key, the run that wrote it>>
  embedded,     \* embedded[d]: the chunk rows of d with an Embedding row
  title,        \* title[m]: "none" before the matter exists, "file" the file's
                \* name, "user" typed by a user, or the document whose
                \* analysis proposed it
  autoNamed,    \* autoNamed[m]: the auto_named flag in Matter.metadata
  \* The API process.
  upload,       \* upload[d]: how far the request that uploads d has come
  pc, doc,      \* pc[r], doc[r]: the next step of run r and its document
  snapshot,     \* snapshot[r]: the chunk rows _generate_embeddings loaded
  dirty,        \* dirty[r]: what the flush will write to the document's row
  caption,      \* caption[r]: did the analysis return a case_title
  namedSeen,    \* namedSeen[r]: auto_named as _analyze loaded it
  crashes

dbVars == <<status, objects, paged, chunks, embedded, title, autoNamed>>
runVars == <<pc, doc, snapshot, dirty, caption, namedSeen>>
vars == <<status, objects, paged, chunks, embedded, title, autoNamed, upload,
          pc, doc, snapshot, dirty, caption, namedSeen, crashes>>

-----------------------------------------------------------------------------
(* Helpers *)

\* The page and position of every chunk the file of d is cut into.
Keys(d) == UNION {{p} \X (0..(Pages[d][p] - 1)) : p \in DOMAIN Pages[d]}

\* The chunk keys a set of chunk rows stands for.
KeysOf(rows) == {row[1] : row \in rows}

\* The text of d can be found through the embeddings.
Searchable(d) == Keys(d) \subseteq KeysOf(embedded[d])

Statuses == {"absent", "PROCESSING", "READY", "ERROR"}
\* What an UPDATE of the document's row changes: nothing, so that there is
\* none, the summary or the metadata only, or the status too.
Changes == {"clean", "data", "status"}

UploadSteps == {"none", "ingesting", "stored", "committed", "answered", "failed"}
RequestSteps == {"requested", "accepted"}
TaskSteps == {"queued", "extracting", "inserting", "chunking", "cutting",
              "loadingChunks", "checking", "embedding", "analyzing", "saving",
              "flushing", "committing", "marking"}
RunSteps == {"idle", "done", "marked", "failed", "escaped", "lost"}
              \union RequestSteps \union TaskSteps

Alive(r) == pc[r] \in RequestSteps \union TaskSteps

\* An open transaction that has flushed its UPDATE of a documents row keeps
\* the row locked until it commits or rolls back.
HoldsRow(r) == pc[r] = "committing" /\ dirty[r] # "clean"
RowIsFree(d) == \A r \in Runs : doc[r] = d => ~HoldsRow(r)

Goto(r, step) == pc' = [pc EXCEPT ![r] = step]
SetStatus(d, s) == status' = [status EXCEPT ![d] = s]

-----------------------------------------------------------------------------
TypeOK ==
  /\ status \in [Docs -> Statuses]
  /\ objects \subseteq Docs
  /\ paged \subseteq Docs
  /\ chunks \in [Docs -> SUBSET ((Nat \X Nat) \X Runs)]
  /\ embedded \in [Docs -> SUBSET ((Nat \X Nat) \X Runs)]
  /\ title \in [Matters -> {"none", "file", "user"} \union Docs]
  /\ autoNamed \in [Matters -> BOOLEAN]
  /\ upload \in [Docs -> UploadSteps]
  /\ pc \in [Runs -> RunSteps]
  /\ doc \in [Runs -> Docs \union {"none"}]
  /\ \A r \in Runs : Alive(r) => doc[r] \in Docs
  /\ snapshot \in [Runs -> SUBSET ((Nat \X Nat) \X Runs)]
  /\ dirty \in [Runs -> Changes]
  /\ caption \in [Runs -> BOOLEAN]
  /\ namedSeen \in [Runs -> BOOLEAN]
  /\ crashes \in 0..MaxCrashes

Init ==
  /\ status = [d \in Docs |-> "absent"]
  /\ objects = {}
  /\ paged = {}
  /\ chunks = [d \in Docs |-> {}]
  /\ embedded = [d \in Docs |-> {}]
  /\ title = [m \in Matters |-> "none"]
  /\ autoNamed = [m \in Matters |-> FALSE]
  /\ upload = [d \in Docs |-> "none"]
  /\ pc = [r \in Runs |-> "idle"]
  /\ doc = [r \in Runs |-> "none"]
  /\ snapshot = [r \in Runs |-> {}]
  /\ dirty = [r \in Runs |-> "clean"]
  /\ caption = [r \in Runs |-> FALSE]
  /\ namedSeen = [r \in Runs |-> FALSE]
  /\ crashes = 0

-----------------------------------------------------------------------------
(* Matters: the endpoints that write a title. *)

\* POST /matters
CreateMatter(m) ==
  /\ m \in Edited
  /\ title[m] = "none"
  /\ title' = [title EXCEPT ![m] = "user"]
  /\ UNCHANGED <<status, objects, paged, chunks, embedded, autoNamed, upload,
                 runVars, crashes>>

\* PATCH /matters/{id} with a title; the auto_named flag stays as it is.
UpdateMatter(m) ==
  /\ m \in Edited
  /\ title[m] # "none"
  /\ title' = [title EXCEPT ![m] = "user"]
  /\ UNCHANGED <<status, objects, paged, chunks, embedded, autoNamed, upload,
                 runVars, crashes>>

-----------------------------------------------------------------------------
(* Uploads.  The Document row is flushed as PENDING, the file is stored, the *)
(* row is committed as PROCESSING: nobody but the request ever sees PENDING. *)

\* quick_upload up to the commit of the matter it creates for the file.
QuickUpload(d) ==
  LET m == MatterOf[d] IN
  /\ upload[d] = "none"
  /\ title[m] = "none"
  /\ title' = [title EXCEPT ![m] = "file"]
  /\ autoNamed' = [autoNamed EXCEPT ![m] = TRUE]
  /\ upload' = [upload EXCEPT ![d] = "ingesting"]
  /\ UNCHANGED <<status, objects, paged, chunks, embedded, runVars, crashes>>

\* upload_document up to _ingest_document: the matter has to exist.
UploadDocument(d) ==
  /\ upload[d] = "none"
  /\ title[MatterOf[d]] # "none"
  /\ upload' = [upload EXCEPT ![d] = "ingesting"]
  /\ UNCHANGED <<dbVars, runVars, crashes>>

\* _ingest_document: storage.upload
IngestStore(d) ==
  /\ upload[d] = "ingesting"
  /\ objects' = objects \union {d}
  /\ upload' = [upload EXCEPT ![d] = "stored"]
  /\ UNCHANGED <<status, paged, chunks, embedded, title, autoNamed, runVars, crashes>>

\* Broken variant: the row is committed before the file is stored.
IngestCommitEarly(d) ==
  /\ upload[d] \in {"ingesting", "stored"}
  /\ SetStatus(d, "PROCESSING")
  /\ upload' = [upload EXCEPT ![d] = IF @ = "stored" THEN "committed" ELSE @]
  /\ UNCHANGED <<objects, paged, chunks, embedded, title, autoNamed, runVars, crashes>>

\* Broken variant: the commit keeps the PENDING of the flushed row.
IngestCommitPending(d) ==
  /\ upload[d] = "stored"
  /\ SetStatus(d, "PENDING")
  /\ upload' = [upload EXCEPT ![d] = "committed"]
  /\ UNCHANGED <<objects, paged, chunks, embedded, title, autoNamed, runVars, crashes>>

\* _ingest_document: the commit that makes the row visible
IngestCommit(d) ==
  /\ upload[d] = "stored"
  /\ SetStatus(d, "PROCESSING")
  /\ upload' = [upload EXCEPT ![d] = "committed"]
  /\ UNCHANGED <<objects, paged, chunks, embedded, title, autoNamed, runVars, crashes>>

\* _ingest_document: refresh and dispatch_processing, which in inline mode is
\* BackgroundTasks.add_task and cannot fail.
IngestDispatch(d) ==
  /\ upload[d] = "committed"
  /\ Goto(FirstRun[d], "queued")
  /\ doc' = [doc EXCEPT ![FirstRun[d]] = d]
  /\ upload' = [upload EXCEPT ![d] = "answered"]
  /\ UNCHANGED <<dbVars, snapshot, dirty, caption, namedSeen, crashes>>

\* An exception out of the upload request: its open transaction is rolled
\* back, what it committed or stored before stays.
UploadFails(d) ==
  /\ \/ "store" \in Faults /\ upload[d] = "ingesting"
     \/ "db" \in Faults /\ upload[d] \in {"ingesting", "stored", "committed"}
  /\ upload' = [upload EXCEPT ![d] = "failed"]
  /\ UNCHANGED <<dbVars, runVars, crashes>>

-----------------------------------------------------------------------------
(* POST /documents/{id}/analyze *)

\* The document is loaded; any status will do.  Without Overlap the clients
\* wait for the run before.
AnalyzeLoad(r, d) ==
  /\ pc[r] = "idle"
  /\ \A e \in Docs : r # FirstRun[e]
  /\ status[d] # "absent"
  /\ Overlap \/ (upload[d] # "committed"
                   /\ \A q \in Runs : Alive(q) => doc[q] # d)
  /\ Goto(r, "requested")
  /\ doc' = [doc EXCEPT ![r] = d]
  /\ dirty' = [dirty EXCEPT ![r] = IF status[d] = "PROCESSING" THEN "clean" ELSE "status"]
  /\ UNCHANGED <<dbVars, upload, snapshot, caption, namedSeen, crashes>>

\* Broken variant: analyze clears the embeddings so that they are made anew.
AnalyzeCommitClearing(r) ==
  LET d == doc[r] IN
  /\ pc[r] = "requested"
  /\ dirty[r] # "clean" => RowIsFree(d)
  /\ status' = IF dirty[r] = "status" THEN [status EXCEPT ![d] = "PROCESSING"] ELSE status
  /\ embedded' = [embedded EXCEPT ![d] = {}]
  /\ Goto(r, "accepted")
  /\ dirty' = [dirty EXCEPT ![r] = "clean"]
  /\ UNCHANGED <<objects, paged, chunks, title, autoNamed, upload, doc, snapshot,
                 caption, namedSeen, crashes>>

\* doc.status = PROCESSING and commit: no UPDATE if it was loaded as such.
AnalyzeCommit(r) ==
  LET d == doc[r] IN
  /\ pc[r] = "requested"
  /\ dirty[r] # "clean" => RowIsFree(d)
  /\ status' = IF dirty[r] = "status" THEN [status EXCEPT ![d] = "PROCESSING"] ELSE status
  /\ Goto(r, "accepted")
  /\ dirty' = [dirty EXCEPT ![r] = "clean"]
  /\ UNCHANGED <<objects, paged, chunks, embedded, title, autoNamed, upload,
                 doc, snapshot, caption, namedSeen, crashes>>

\* refresh and dispatch
AnalyzeDispatch(r) ==
  /\ pc[r] = "accepted"
  /\ Goto(r, "queued")
  /\ UNCHANGED <<dbVars, upload, doc, snapshot, dirty, caption, namedSeen, crashes>>

\* An exception out of the analyze request before it has dispatched anything.
AnalyzeFails(r) ==
  /\ "db" \in Faults
  /\ pc[r] \in RequestSteps
  /\ Goto(r, "failed")
  /\ dirty' = [dirty EXCEPT ![r] = "clean"]
  /\ UNCHANGED <<dbVars, upload, doc, snapshot, caption, namedSeen, crashes>>

-----------------------------------------------------------------------------
(* process_document: the steps of one run *)

\* A step of run r that moves on to `step` and touches none of the run's
\* other variables.
Step(r, from, step) ==
  /\ pc[r] = from
  /\ Goto(r, step)
  /\ UNCHANGED <<upload, doc, crashes>>

\* _storage_key_for, then the download and the parsing: these two block the
\* event loop, so nothing comes between them.
ExtractRead(r) ==
  LET d == doc[r] IN
  /\ Step(r, "queued", IF d \in objects /\ d \in Readable THEN "extracting" ELSE "marking")
  /\ UNCHANGED <<dbVars, snapshot, dirty, caption, namedSeen>>

\* _extract_text: are there pages already
ExtractCheck(r) ==
  /\ Step(r, "extracting", IF doc[r] \in paged THEN "chunking" ELSE "inserting")
  /\ UNCHANGED <<dbVars, snapshot, dirty, caption, namedSeen>>

\* _extract_text: INSERT the pages, UPDATE the document, commit.  A file
\* without pages inserts nothing and still writes the status.
ExtractInsert(r) ==
  LET d == doc[r] IN
  /\ Step(r, "inserting", "chunking")
  /\ d \notin paged
  /\ RowIsFree(d)
  /\ paged' = IF Pages[d] = <<>> THEN paged ELSE paged \union {d}
  /\ SetStatus(d, "PROCESSING")
  /\ UNCHANGED <<objects, chunks, embedded, title, autoNamed, snapshot, dirty,
                 caption, namedSeen>>

\* The pages came from another run since: uq_doc_page refuses the INSERT.
ExtractConflict(r) ==
  /\ Step(r, "inserting", "marking")
  /\ doc[r] \in paged
  /\ UNCHANGED <<dbVars, snapshot, dirty, caption, namedSeen>>

\* Broken variant: no look at the chunks an earlier run has left.
ChunksCheckSkipped(r) ==
  /\ Step(r, "chunking", "cutting")
  /\ UNCHANGED <<dbVars, snapshot, dirty, caption, namedSeen>>

\* _create_chunks: are there chunks already
ChunksCheck(r) ==
  /\ Step(r, "chunking", IF chunks[doc[r]] # {} THEN "loadingChunks" ELSE "cutting")
  /\ UNCHANGED <<dbVars, snapshot, dirty, caption, namedSeen>>

\* _create_chunks: cut the stored pages and commit.  No constraint keeps a
\* second set of rows for the same keys out of the table.
ChunksInsert(r) ==
  LET d == doc[r] IN
  /\ Step(r, "cutting", "loadingChunks")
  /\ chunks' = [chunks EXCEPT ![d] = @ \union
                  (IF d \in paged THEN Keys(d) \X {r} ELSE {})]
  /\ UNCHANGED <<status, objects, paged, embedded, title, autoNamed, snapshot,
                 dirty, caption, namedSeen>>

\* _generate_embeddings: load the chunks, return if there are none
EmbeddingsLoad(r) ==
  LET rows == chunks[doc[r]] IN
  /\ Step(r, "loadingChunks", IF rows = {} THEN "analyzing" ELSE "checking")
  /\ snapshot' = [snapshot EXCEPT ![r] = rows]
  /\ UNCHANGED <<dbVars, dirty, caption, namedSeen>>

\* _generate_embeddings: return if any of them is embedded
EmbeddingsCheck(r) ==
  /\ Step(r, "checking", IF snapshot[r] \cap embedded[doc[r]] # {}
                         THEN "analyzing" ELSE "embedding")
  /\ snapshot' = IF snapshot[r] \cap embedded[doc[r]] # {}
                    THEN [snapshot EXCEPT ![r] = {}] ELSE snapshot
  /\ UNCHANGED <<dbVars, dirty, caption, namedSeen>>

\* Broken variant: only the first batch of the chunks gets its vectors.
EmbeddingsInsertFirst(r) ==
  LET d == doc[r] IN
  /\ Step(r, "embedding", "analyzing")
  /\ snapshot[r] \cap embedded[d] = {}
  /\ embedded' = [embedded EXCEPT ![d] = @ \union {row \in snapshot[r] : row[1][2] = 0}]
  /\ snapshot' = [snapshot EXCEPT ![r] = {}]
  /\ UNCHANGED <<status, objects, paged, chunks, title, autoNamed, dirty, caption,
                 namedSeen>>

\* Broken variant: each batch is committed, and a later one may fail.
EmbeddingsInsertBatches(r) ==
  LET d == doc[r] IN
  /\ pc[r] = "embedding"
  /\ snapshot[r] \cap embedded[d] = {}
  /\ \E all \in BOOLEAN :
       /\ Step(r, "embedding", IF all THEN "analyzing" ELSE "marking")
       /\ embedded' = [embedded EXCEPT ![d] = @ \union
                         {row \in snapshot[r] : all \/ row[1][2] = 0}]
  /\ snapshot' = [snapshot EXCEPT ![r] = {}]
  /\ UNCHANGED <<status, objects, paged, chunks, title, autoNamed, dirty, caption,
                 namedSeen>>

\* _generate_embeddings: the batches, one vector for each chunk, one commit
EmbeddingsInsert(r) ==
  LET d == doc[r] IN
  /\ Step(r, "embedding", "analyzing")
  /\ snapshot[r] \cap embedded[d] = {}
  /\ embedded' = [embedded EXCEPT ![d] = @ \union snapshot[r]]
  /\ snapshot' = [snapshot EXCEPT ![r] = {}]
  /\ UNCHANGED <<status, objects, paged, chunks, title, autoNamed, dirty, caption,
                 namedSeen>>

\* Another run embedded one of them meanwhile: uq_embedding_chunk_model
\* refuses the whole transaction.
EmbeddingsConflict(r) ==
  /\ Step(r, "embedding", "marking")
  /\ snapshot[r] \cap embedded[doc[r]] # {}
  /\ snapshot' = [snapshot EXCEPT ![r] = {}]
  /\ UNCHANGED <<dbVars, dirty, caption, namedSeen>>

\* _analyze: read the chunks' text and ask the model.  A blank document gets
\* FALLBACK_METADATA, which proposes no case_title.
AnalyzeText(r) ==
  /\ Step(r, "analyzing", "saving")
  /\ \E proposed \in BOOLEAN :
       /\ proposed => chunks[doc[r]] # {}
       /\ caption' = [caption EXCEPT ![r] = proposed]
  /\ UNCHANGED <<dbVars, snapshot, dirty, namedSeen>>

\* Broken variant: the status is written only along with a new summary.
AnalyzeLoadDocumentUnchanged(r) ==
  /\ Step(r, "saving", "flushing")
  /\ \E change \in {"clean", "status"} : dirty' = [dirty EXCEPT ![r] = change]
  /\ UNCHANGED <<dbVars, snapshot, caption, namedSeen>>

\* _analyze, second session: load the document.  Its row will be updated if
\* it was not READY, and without the status if it was and the summary or the
\* metadata came out differently.
AnalyzeLoadDocument(r) ==
  /\ Step(r, "saving", "flushing")
  /\ \E change \in Changes :
       /\ change = "status" <=> status[doc[r]] # "READY"
       /\ dirty' = [dirty EXCEPT ![r] = change]
  /\ UNCHANGED <<dbVars, snapshot, caption, namedSeen>>

\* Broken variant: the matter is loaded without the flush before it.
AnalyzeLoadMatterUnlocked(r) ==
  /\ Step(r, "flushing", "committing")
  /\ namedSeen' = [namedSeen EXCEPT ![r] = autoNamed[MatterOf[doc[r]]]]
  /\ UNCHANGED <<dbVars, snapshot, dirty, caption>>

\* Broken variant: every analysis acts as if the flag were set.
AnalyzeLoadMatterAny(r) ==
  /\ Step(r, "flushing", "committing")
  /\ dirty[r] # "clean" => RowIsFree(doc[r])
  /\ namedSeen' = [namedSeen EXCEPT ![r] = TRUE]
  /\ UNCHANGED <<dbVars, snapshot, dirty, caption>>

\* _analyze: the SELECT of the matter flushes the document's UPDATE first,
\* which waits for the row, and then loads the matter.
AnalyzeLoadMatter(r) ==
  /\ Step(r, "flushing", "committing")
  /\ dirty[r] # "clean" => RowIsFree(doc[r])
  /\ namedSeen' = [namedSeen EXCEPT ![r] = autoNamed[MatterOf[doc[r]]]]
  /\ UNCHANGED <<dbVars, snapshot, dirty, caption>>

\* _analyze: merge_matter_metadata and the commit of document and matter
AnalyzeSave(r) ==
  LET d == doc[r]
      m == MatterOf[d] IN
  /\ Step(r, "committing", "done")
  /\ status' = IF dirty[r] = "status" THEN [status EXCEPT ![d] = "READY"] ELSE status
  /\ title' = IF namedSeen[r] /\ caption[r] THEN [title EXCEPT ![m] = d] ELSE title
  /\ autoNamed' = IF namedSeen[r] THEN [autoNamed EXCEPT ![m] = FALSE] ELSE autoNamed
  /\ dirty' = [dirty EXCEPT ![r] = "clean"]
  /\ caption' = [caption EXCEPT ![r] = FALSE]
  /\ namedSeen' = [namedSeen EXCEPT ![r] = FALSE]
  /\ UNCHANGED <<objects, paged, chunks, embedded, snapshot>>

\* Broken variant: the exception is logged and the document left as it is.
RunFailsUnmarked(r) ==
  /\ \/ "store" \in Faults /\ pc[r] = "queued"
     \/ "ai" \in Faults /\ pc[r] \in {"embedding", "analyzing"}
  /\ Goto(r, "done")
  /\ snapshot' = [snapshot EXCEPT ![r] = {}]
  /\ UNCHANGED <<dbVars, upload, doc, dirty, caption, namedSeen, crashes>>

\* An exception inside the try of process_document: the step's session is
\* rolled back and closed.
RunFails(r) ==
  /\ \/ "store" \in Faults /\ pc[r] = "queued"
     \/ "ai" \in Faults /\ pc[r] \in {"embedding", "analyzing"}
     \/ "db" \in Faults /\ pc[r] \in TaskSteps \ {"marking"}
  /\ Goto(r, "marking")
  /\ dirty' = [dirty EXCEPT ![r] = "clean"]
  /\ caption' = [caption EXCEPT ![r] = FALSE]
  /\ namedSeen' = [namedSeen EXCEPT ![r] = FALSE]
  /\ snapshot' = [snapshot EXCEPT ![r] = {}]
  /\ UNCHANGED <<dbVars, upload, doc, crashes>>

\* _mark_error
MarkError(r) ==
  LET d == doc[r] IN
  /\ Step(r, "marking", "marked")
  /\ RowIsFree(d)
  /\ SetStatus(d, "ERROR")
  /\ UNCHANGED <<objects, paged, chunks, embedded, title, autoNamed, snapshot,
                 dirty, caption, namedSeen>>

\* _mark_error is itself a transaction; its exception leaves process_document
\* because nothing catches it there.
MarkErrorFails(r) ==
  /\ "db" \in Faults
  /\ Step(r, "marking", "escaped")
  /\ UNCHANGED <<dbVars, snapshot, dirty, caption, namedSeen>>

-----------------------------------------------------------------------------
\* The API process dies and is started again.  lifespan looks for no document
\* left in PROCESSING.
Crash ==
  /\ crashes < MaxCrashes
  /\ crashes' = crashes + 1
  /\ upload' = [d \in Docs |-> IF upload[d] \in {"none", "answered"}
                                 THEN upload[d] ELSE "failed"]
  /\ pc' = [r \in Runs |-> IF Alive(r) THEN "lost" ELSE pc[r]]
  /\ dirty' = [r \in Runs |-> "clean"]
  /\ caption' = [r \in Runs |-> FALSE]
  /\ namedSeen' = [r \in Runs |-> FALSE]
  /\ snapshot' = [r \in Runs |-> {}]
  /\ UNCHANGED <<dbVars, doc>>

-----------------------------------------------------------------------------
(* The specification *)

\* What the clients do.
Request ==
  \/ \E m \in Matters : CreateMatter(m) \/ UpdateMatter(m)
  \/ \E d \in Docs : QuickUpload(d) \/ UploadDocument(d)
  \/ \E r \in Runs, d \in Docs : AnalyzeLoad(r, d)

\* How an upload goes on once it has been received.
Ingest(d) == IngestStore(d) \/ IngestCommit(d) \/ IngestDispatch(d)

AnalyzeRequest(r) == AnalyzeCommit(r) \/ AnalyzeDispatch(r)

\* The task of run r: process_document.
ProcessDocument(r) ==
  \/ ExtractRead(r) \/ ExtractCheck(r) \/ ExtractInsert(r) \/ ExtractConflict(r)
  \/ ChunksCheck(r) \/ ChunksInsert(r)
  \/ EmbeddingsLoad(r) \/ EmbeddingsCheck(r) \/ EmbeddingsInsert(r) \/ EmbeddingsConflict(r)
  \/ AnalyzeText(r) \/ AnalyzeLoadDocument(r) \/ AnalyzeLoadMatter(r) \/ AnalyzeSave(r)
  \/ MarkError(r)

Fault ==
  \/ \E d \in Docs : UploadFails(d)
  \/ \E r \in Runs : AnalyzeFails(r) \/ RunFails(r) \/ MarkErrorFails(r)
  \/ Crash

Next ==
  \/ Request
  \/ \E d \in Docs : Ingest(d)
  \/ \E r \in Runs : AnalyzeRequest(r) \/ ProcessDocument(r)
  \/ Fault

Spec == Init /\ [][Next]_vars

\* The event loop resumes every task whose await has completed, so a request
\* or a run that can go on does.  Clients and faults promise nothing.
Fairness ==
  /\ \A d \in Docs : WF_vars(Ingest(d))
  /\ \A r \in Runs : WF_vars(AnalyzeRequest(r) \/ ProcessDocument(r))

FairSpec == Spec /\ Fairness

-----------------------------------------------------------------------------
(* Properties *)

\* A READY document can be found by the vector search through all of its
\* text, whatever runs of the pipeline overlapped, failed or were cut off on
\* the way: the early returns of _create_chunks and _generate_embeddings never
\* let a run pass a half-written stage (pipeline.py:124-128, 184-189).
ReadyIsSearchable == \A d \in Docs : status[d] = "READY" => Searchable(d)

\* A document row that clients can see has its file in the object store, so
\* download and analyze find it; a crash between the two writes loses the row,
\* never the file (upload.py:87-96).
RowHasObject == \A d \in Docs : status[d] # "absent" => d \in objects

\* Run r is going to write the status of its document before it ends: it
\* marks an error, or it has yet to load the document, or it loaded another
\* status than READY.
WillSettle(r) ==
  \/ pc[r] \in {"accepted"} \union (TaskSteps \ {"flushing", "committing"})
  \/ pc[r] \in {"flushing", "committing"} /\ dirty[r] = "status"

\* A document shown as PROCESSING is being processed, by a request that is
\* about to dispatch a run or by a run that has yet to write the status; a
\* document nobody works on would spin in the client for ever.  This rests on
\* a run skipping its status write only when it loaded READY
\* (pipeline.py:230-247, router.py:237-250).
ProcessingIsOwned ==
  \A d \in Docs : status[d] = "PROCESSING" =>
    \/ upload[d] = "committed"
    \/ \E r \in Runs : doc[r] = d /\ WillSettle(r)

\* A request or a run of d ended without a status: the upload's request after
\* its commit, an analyze request before its dispatch, _mark_error itself, or
\* the process.
CutOff(d) ==
  \/ upload[d] = "failed"
  \/ \E r \in Runs : doc[r] = d /\ pc[r] \in {"failed", "escaped", "lost"}

\* Nothing else leaves a document in PROCESSING for good: no overlap of runs and
\* no failure that process_document catches.
StrandedOnlyByCutOff ==
  \A d \in Docs : status[d] = "PROCESSING" =>
    \/ upload[d] = "committed"
    \/ \E r \in Runs : doc[r] = d /\ WillSettle(r)
    \/ CutOff(d)

\* Every PROCESSING document is READY or ERROR in the end, also when runs of
\* it overlap and whatever fails, unless a request or a run of it is cut off
\* (pipeline.py:258-277).
Settles ==
  \A d \in Docs :
    status[d] = "PROCESSING" ~> status[d] \in {"READY", "ERROR"} \/ CutOff(d)

\* An analysis gives a matter a new title only while the matter still carries
\* auto_named: later analyses, of this or another document, leave the title
\* alone (analysis.py merge_matter_metadata; pipeline.py:239-247).
RenamedOnlyWhileAutoNamed ==
  [][\A m \in Matters :
       title'[m] # title[m] /\ title'[m] \in Docs => autoNamed[m]]_vars

\* With several documents in a matter, an analysis gives it a new title while
\* the flag is not set only if one of another document has been saved: what a
\* run has read of the flag goes stale in no other way, whatever users, failures
\* and restarts do between its read and its commit (pipeline.py:239-247).
RenamedLateOnlyByAnother ==
  [][\A m \in Matters :
       title'[m] # title[m] /\ title'[m] \in Docs =>
         \/ autoNamed[m]
         \/ \E q \in Runs : /\ pc[q] = "done" /\ doc[q] # title'[m]
                            /\ MatterOf[doc[q]] = m]_vars

\* Once an analysis of a document has been saved, no analysis of it may act on
\* auto_named any more: "later re-analysis never renames a user's matter"
\* (analysis.py:367), however the runs of this and of other documents of the
\* matter overlap.  Acting on it means a rename where a title is proposed.
ReanalysisLeavesTitle ==
  \A q, r \in Runs :
    doc[q] = doc[r] /\ pc[q] = "done" /\ pc[r] = "committing" => ~namedSeen[r]

\* No piece of a document's text is stored twice as a chunk.
NoDuplicateChunks ==
  \A d \in Docs : \A row, other \in chunks[d] : row[1] = other[1] => row = other

\* With one run of a document at a time, crashes included, READY means that
\* every chunk row has its embedding: a run that was cut off after either
\* commit is taken up exactly there by the next one.
ReadyIsComplete == \A d \in Docs : status[d] = "READY" => embedded[d] = chunks[d]

\* The status clients poll behaves as DocumentLifecycle says, as long as one
\* run of a document is alive at a time.
Lifecycle == INSTANCE DocumentLifecycle WITH
  phase <- status,
  searchable <- {d \in Docs : Searchable(d)},
  Blank <- {d \in Docs : Keys(d) = {}}

ImplementsLifecycle == Lifecycle!Spec

\* Those who search documents get what SearchableDocuments says whatever
\* overlaps, fails or is cut off: READY comes after all of the text can be
\* found, and no later run takes an embedding away.
Documents == INSTANCE SearchableDocuments WITH
  phase <- status,
  searchable <- {d \in Docs : Searchable(d)}

ImplementsSearchable == Documents!Spec
=============================================================================
