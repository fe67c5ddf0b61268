# CaseLens: specifications, model checking and proofs

CaseLens lets the members of a law firm upload PDF files into matters, extracts
and embeds their text, has language models analyse them, and answers questions
with citations. This directory holds TLA+ modules of the parts whose behaviour
depends on order, overlap or failure, the TLC configurations that check them on
small instances, and TLAPS proofs about them for all values of the constants.

Paths below are relative to `src/apps/api/src/caselens` unless they begin with
`src/`.

## 1. The system

### Components

| component | code | state | operations |
|---|---|---|---|
| Document pipeline, in process | `documents/pipeline.py` | rows of `documents`, `document_pages`, `document_chunks`, `embeddings`; the background tasks of the process | `process_document` = `_extract_text`, `_create_chunks`, `_generate_embeddings`, `_analyze`, `_mark_error`; `dispatch_processing` |
| Upload and analyze endpoints | `documents/upload.py`, `documents/router.py` | a new document (and matter), the stored file | `quick_upload`, `upload_document`, `analyze_document`, read-only GETs |
| Chunking | `documents/pipeline.py`, worker `activities/chunking.py` | none beyond the loop | cut a page into overlapping chunks with positions |
| AI provider chains | `ai_gateway/chain.py`, `providers.py` | the circuit breaker: one cooldown per provider, shared by the whole process | `generate`, `generate_structured`, `embed`; retry, trip, fail over, mock |
| Provider adapters | `ai_gateway/gemini.py`, `openai_compatible.py`, ... | none | one HTTP request, JSON repair |
| Case analysis | `documents/analysis.py` | the metadata of document and matter | `run_case_analysis` (three LLM calls), `merge_matter_metadata` |
| Matters | `matters/router.py` | `matters`, `matter_members` | create, list, update, access check |
| Temporal worker | `src/apps/worker` | the same tables, workflow histories at the Temporal server | the workflow and its seven activities with retries and timeouts |
| Question answering and review | `rag/router.py` | conversations, messages, retrieval runs, model runs, citations | ask, review |
| Search, letters | `search/router.py`, `rag/router.py` | none kept | hybrid, full-text and vector search, letter drafts |
| Accounts | `auth/`, `organizations/`, `dependencies.py` | users, organizations, memberships, JWTs | register, login, refresh, create organization, add member |
| Practice records, audit | `practice/router.py`, `audit/router.py` | contacts, events, filings; audit events (never written) | single inserts and lists |
| Object storage | `storage/backend.py` | S3 objects | upload, download, exists (blocking calls) |
| Database | `db/` | PostgreSQL at READ COMMITTED, a pool of connections | a session per request or per pipeline step |
| Web client | `src/apps/web` | the status it polled last | upload, poll a document's status, ask |

### How they interact

An upload endpoint stores the file, commits the document as PROCESSING and
calls `dispatch_processing`. In the `inline` mode that adds a background task to
the API process; otherwise it starts a Temporal workflow. The task opens a
session of its own for each step, so each step commits by itself and later
steps, other runs and the clients see its rows. The last step asks the analysis
chain and writes the status together with the metadata and the title of the
matter, which the endpoints of `matters/router.py` write as well. Clients poll
the status and may call `POST /documents/{id}/analyze` at any time, which starts
another run; nothing looks whether one is alive already. All language-model and
embedding calls of a process go through the chains, which share one breaker.

Questions, searches and letters read what the pipeline has stored, with one
statement after another in a transaction of the request. Every endpoint but those
of authentication starts from a token and, mostly, from a look-up of its user's
membership. `db/session.py` commits the session of a request after its response
was sent (that is where the FastAPI of the lock file, 0.139, ends a dependency),
and after the background task, if the request has one. All sessions, those of
requests and those of runs, take their connections from one pool.

### What is hard

* Runs of one document overlap, and so do analyses of two documents in one
  matter: each `await` inside a step lets the others in between a check and the
  insert that relies on it.
* A step is skipped when the first row of its output exists. That is only right
  if no step can leave its output half written.
* A status is written only if it differs from the loaded one, and the UPDATE
  happens at the next autoflush, where it also takes the row's lock. Whether a
  run writes the status at the end, and in which order overlapping analyses
  save, both hang on that.
* A run may fail at any step, and the process may die at any `await`; nothing
  looks for documents left in PROCESSING at start-up.
* Calls of the chains overlap: the breaker is read before a call and written
  after it, so a call acts on an old reading and overwrites others' cooldowns.
* The cutting loop ends by a test in its middle, where an off-by-one loses the
  end of a page or stores it twice. It cuts between tokens, not between
  characters, and looks for the decoded piece in the text.
* Activities of the worker are retried after a timeout while the attempt that
  timed out may go on running; some are retried for ever.
* The two retrieval queries of a question see two states of the documents, and
  the model answers seconds later.
* A response is out before its rows are committed: the client may act on them,
  and the commit may still fail.
* A handler's look-up and its INSERT are two statements; unique keys and foreign
  keys stop the second of two requests, with a server error.
* A request that dispatches a run keeps a connection until the run is over, and
  the run needs another one.

`PROJECT.json` lists these as hazards, each with its line and the properties
that would catch it going wrong.

### What makes each component correct

* Pipeline: a READY document is searchable through all of its text; a visible
  row has its file; PROCESSING is always somebody's business and ends; serial
  re-runs repeat nothing and repair what a crash has left; an analysis never
  renames a matter that is not auto-named any more.
* Chains: a provider is passed over only because it was failing; a provider that
  has just failed is left alone for a while; a call ends.
* Chunking: nothing is lost, neighbours share the overlap, nothing is only
  repeated.
* Worker: READY means searchable here too; retries repeat nothing; attempts that
  outlive their timeout do no harm, those of `create_chunks` excepted, which do;
  a workflow ends unless a stage that is retried for ever never succeeds.
* Question answering: what is READY is found; answers rest only on documents that
  were READY; a question is recorded whole or not at all; an answer and its model
  run carry the same review status.
* Accounts: an organization has an owner; access to matters and filings stays
  inside an organization; tokens stand for users; server errors have known causes.
* Connections: somebody can always go on, and a run leaves its document unsettled
  only where the pool is short.
* Web client: polling stops once a status is final.

## 2. The modules

| module | role |
|---|---|
| `DocumentLifecycle` | abstract specification: what a client that waits for one run before the next is promised about a document's status; implemented by `DocumentPipeline` in serial use |
| `SearchableDocuments` | abstract specification: what those who search may rely on, with any overlap; implemented by `DocumentPipeline` and, in serial use and until a late attempt of `create_chunks` writes, by `DocumentWorkflow`; the environment of `Retrieval` |
| `DocumentPipeline` | the inline pipeline with the endpoints around it |
| `MCDocumentPipeline` | its constants for TLC |
| `DocumentPipelineProofs`, `SerialPipelineProofs` | theorems about it; those of its serial use |
| `ProviderChain` | chains, retries and the shared breaker |
| `MCProviderChain`, `ProviderChainProofs` | constants for TLC; theorems |
| `Chunking` | the cutting loop |
| `MCChunking`, `ChunkingProofs` | constants for TLC; theorems |
| `DocumentWorkflow` | the Temporal path: workflow, activities, retries, timeouts |
| `MCDocumentWorkflow`, `DocumentWorkflowProofs` | constants for TLC; theorems |
| `Retrieval` | questions, searches, letters and reviews over documents that move as `SearchableDocuments` says |
| `MCRetrieval`, `RetrievalProofs` | constants for TLC; theorems |
| `Tenancy` | abstract specification: each change of the tenants' data is one move of somebody entitled to it; implemented by `Accounts` |
| `Accounts` | users, tokens, organizations, memberships, matters and filings |
| `MCAccounts`, `AccountsProofs` | constants for TLC; theorems |
| `ConnectionPool` | the connections held by uploads, analyze calls and their runs |
| `MCConnectionPool`, `ConnectionPoolProofs` | constants for TLC; theorems |

A definition whose comment begins with "Broken variant" belongs to no
specification: it is the plausible bug with which the property it is meant for
is tested. Each property that is checked has been seen violated by one.

### DocumentPipeline

One action is what a handler or a run does between two `await`s that let others
in. State:

* `status`, `objects`, `paged`, `chunks`, `embedded`, `title`, `autoNamed`: the
  committed rows and the stored files. A chunk row is a pair of the place in the
  file it stands for and the run that wrote it, so that duplicates are visible.
* `upload[d]`: how far the upload request is; `pc[r]`, `doc[r]`: where run `r`
  is and for which document. A run is one execution of `process_document`; those
  in the range of `FirstRun` are started by uploads, the others by `analyze`.
* `snapshot`, `dirty`, `caption`, `namedSeen`: what a run has read and will act
  on after its next `await`: the chunks it loaded, what its flush will write to
  the document's row (`Changes`: nothing, the summary and metadata only, or the
  status as well, which is left out of the UPDATE when the document was loaded
  READY), whether the model proposed a title, and `auto_named` as it was loaded.

Correspondence:

* `QuickUpload`, `UploadDocument`, `IngestStore`, `IngestCommit`,
  `IngestDispatch`: the two upload endpoints and `_ingest_document`. The row is
  PENDING only inside the request's transaction.
* `AnalyzeLoad`, `AnalyzeCommit`, `AnalyzeDispatch`: `analyze_document`.
* `ExtractRead` to `ExtractConflict`: `_storage_key_for` and `_extract_text`. The
  download and the parsing block the event loop and are one step. The unique
  constraint of the pages makes the later of two inserts fail.
* `ChunksCheck`, `ChunksInsert`: `_create_chunks`. There is no constraint here.
* `EmbeddingsLoad` to `EmbeddingsConflict`: `_generate_embeddings`, one commit
  for all batches, with the unique constraint on chunk and model.
* `AnalyzeText` to `AnalyzeSave`: `_analyze`. `AnalyzeLoadMatter` is the SELECT
  of the matter: it flushes the document's UPDATE first, which waits for the
  row while another open transaction has updated it (`RowIsFree`); that wait is
  what keeps overlapping analyses of one document in order.
* `MarkError`, `MarkErrorFails`, `RunFails`: the `except` blocks and
  `_mark_error`. `Crash`: the process dies; rows and files stay. The end of `pc[r]`
  tells how a run or its request ended: "done" (analysis saved), "marked"
  (`_mark_error`), "escaped" (`_mark_error` failed), "failed" (an `analyze` request
  that failed before its dispatch), "lost" (with the process). `CutOff` is made of
  the last three.
* `CreateMatter`, `UpdateMatter`: the other writers of a title, for the matters
  in `Edited`. PATCH leaves `auto_named` alone, as the code does.

Abstracted: the text itself (a chunk is its place), the summary and the
metadata (whether they differ from the stored ones is a nondeterministic choice
in `AnalyzeLoadDocument`), authorization, the checks that reject a file before
anything is stored.

### ProviderChain

A call runs until it waits for a reply, so `GoOn` passes over providers without
a key or with an open circuit in no time and stops at the first usable one, or
past the last at the mock or at `AllProvidersFailedError`. `ErrorReply` and
`BlipsOut` trip the breaker and go on, `Blip` is a retry of `_call_with_retry`
(which does not look at the breaker again), `Escape` any exception `_run` does
not handle. `failedAt` and `began` are history: when a provider was tripped
last, when a call was made. Chat, analysis and embedding chains have the same
control and differ in `Order`.

### Chunking

One step is one turn of the loop: `Last` is the test in its middle, `Stride` the
increment, `IsStart` the search for `start_char`. A page is its characters and
the map of its tokens to them: how many characters have begun, and how many have
ended, before each token (`IsPage`). A token may hold several characters and a
character several tokens, so a slice may begin or end inside a character
(`WholeAt`). `Decoded` then has U+FFFD in the place of the torn bytes, as
`encoding.decode` has: up to three of them in front and one at the end.
`text.find` does not find such a piece in a page without U+FFFD, and its -1 is
stored as position 0. `PositionsHold` says how far a position can be relied on:
it is right if the slice begins with a character, is longer than `Prefix`, and the
page does not have the slice's first characters earlier. `RowsAreWindows` compares
the rows with what the loop is for, the i-th slice of `Target` tokens every
`Stride`.

### DocumentWorkflow

One document and the workflows dispatched for it one after another (or, with
`Overlap`, side by side). Nothing bounds failures, timeouts and crashes.

* The database: `status`, `pages`, `chunks`, `embedded`. The worker writes all
  rows of a stage in one transaction, so the chunk rows of one commit are one
  *batch*. Names of batches, attempts and workflows are given out in a fixed
  order (`First`); those of batches and attempts are used again once no row and
  no attempt has them.
* The Temporal server: `stage[w]`, `tries[w]`, `current[w]`, the attempt it waits
  for. `Schedule` hands an attempt to the worker; `Report` and `Raise` are its
  end, and the server ignores those of an attempt that is not `current`.
  `Timeout` gives the current attempt up without stopping it: the activities
  send no heartbeats, so any stage that writes may be in `Slow`. `Limit` is
  `maximum_attempts` where the workflow sets it; the other stages (`Persistent`)
  are retried for ever.
  `Crash` loses all attempts with the worker.
* The worker: `job[a]`, `step[a]`, `held[a]` (the batches an attempt has loaded
  or is deleting), `dirty[a]` (whether its flush updates the status). One action
  is one statement or commit of an activity: `PagesCheck`, `PagesWrite`,
  `ChunksCheck`, `ChunksDelete`, `ChunksWrite`, `VectorsLoad`, `VectorsCheck`,
  `VectorsWrite`, `Analyze`, `IndexLoad`, `IndexSave`, `ErrorLoad`, `ErrorSave`.
  Two histories: `spoiled`, an attempt of `extract_text` that had been given up
  has written PROCESSING since the last dispatch; `torn`, an attempt of
  `create_chunks` that had been given up has committed.
  `Read` stands for the three activities that only read. `PagesConflict` and
  `VectorsConflict` are the unique constraints and the foreign key; a DELETE or
  INSERT that meets rows another transaction is deleting waits (`Deleting`).

The steps of the request before the dispatch and the matter's metadata are those
of `DocumentPipeline` and left out; `validate_file` reports an invalid file in a
result nobody reads, and the extraction fails on it later.

### Retrieval

The documents are an instance of `SearchableDocuments`: the variables `phase` and
`searchable` are its own, and `DocumentsMove` is any of its steps. The passages
of a document are its chunk rows, stored once; where overlapping runs have stored
them twice, one of the two copies may lack its vector. A request is
a sequence of steps, each one statement or one call of a provider:

* `step[q]`, `kind[q]`, `thread[q]`: where the request is, which endpoint it is
  for, and who opened its conversation. `AskNew`, `AskMore`, `AskMoreRefused`,
  `Search`, `GenerateLetter` are the beginnings.
* `hits[q]`, `degraded[q]`, `evidence[q]`: what `FullText` and `VectorQuery` have
  returned, whether the question could not be embedded (`EmbedFails`), and what
  `Rank` leaves for citations and prompt. Scores are not modelled: a query with
  ORDER BY and LIMIT may return any passages of the right number (`Best`).
* `written[q]`, `stored[q]`: the rows of the open transaction and those it has
  committed. `Respond` comes before `Commit`; `Break` is any exception from the
  first statement to a commit that fails after the response.
* `review[v]`, `seen[v]`, `seenRun[v]`: a review and the two statuses it has
  loaded. SQLAlchemy emits an UPDATE only for a status that differs, the first
  with the SELECT of the model run (autoflush), the second with `flush`, and an
  UPDATE waits for the row (`HoldsMessage`, `HoldsRun`).
* `steady`, `everReady`, `overlapped`: history for the properties.

A review that waits for another whose transaction breaks may go on; no deadlock
arises, since all take the two rows in the same order.

### Accounts

A row is a table, a unique key and a value; `db` is the set of committed rows. A
call has looked at `db` and knows the rows it will insert (`Begin`), flushes them
(`Write`), is answered (`Answer`) and is committed (`Commit`) or not
(`CommitLost`). `Write` waits while another call has taken one of the keys
(`TakenByOthers`) and fails if a key is stored by then or the foreign key of a
membership is not (`WriteFails`). Since nothing but filings is ever deleted, the
look-ups of one handler are taken together at the last of them. Refusals (401,
403, 404, 409) change nothing and are not steps. Each endpoint is one action up to
its INSERT: `Register`, `GoogleSignUp`, `SignIn` (login, Google with an account,
refresh), `CreateOrganization`, `AddMember`, `CreateMatter`, `CreateFiling`,
`UpdateFiling`, `DeleteFiling`. Two raise before they write anything:
`MembershipFails` is the exception of `get_user_membership`, `AddMemberRaises` the
`ValueError` of `OrgRole(request.role)` for a role that is none.
`actor` is history: who made the last change. `UserTable` to
`FilingTable` read the rows of `db` as the six tables of `Tenancy`. "owner" stands
for the roles that may add members.
Passwords, expiry of tokens and deactivated accounts (nothing in the code
deactivates one) are left out. So are filings without a matter, which
`_validate_matter` lets through unseen, and a PATCH that leaves a filing as it was,
which emits no UPDATE. A user is known by the address: a request begun
with the token of a registration that is lost finds its user in the model if the
address signs up again in between, while in the code its token names an id which
never comes to be stored. Values that a library refuses by itself (a text the driver cannot
encode, a column it does not fit) are not among the requests of the model.

### ConnectionPool

`step[r]` follows one upload or analyze request and its run from connection to
connection: `Arrive` waits for the first; `CommitMatter`, which only a
`quick_upload` without a matter has, gives it back and the INSERT of the document
waits for one again; `CommitRow` gives that back and `db.refresh` waits once more;
from `Dispatch` on the request keeps its connection until `Close`. The run
opens `Last` = 6 sessions, one after the other, each with a connection of its own. `TimeOut` is `pool_timeout`: in a request a server error,
in a run an exception and so `_mark_error`, and in `_mark_error` the end of the
run. Parsing, storage and providers take no connection except that
`_generate_embeddings` keeps its session open across its calls.

## 3. The runs

| configuration | expected | checks |
|---|---|---|
| `PipelineOverlap` | pass | `TypeOK`, `ReadyIsSearchable`, `RowHasObject`, `StrandedOnlyByCutOff`, `ReanalysisLeavesTitle`, `ImplementsSearchable` and, under fairness, `Settles`, for one document, its upload and two `analyze` calls that may overlap in any way, with storage, model and database failures and one restart |
| `PipelineSerial` | pass | `NoDuplicateChunks`, `ReadyIsComplete`, `RenamedLateOnlyByAnother`, `ImplementsLifecycle` for two documents of one matter whose clients wait for a run before the next, with all failures and a restart |
| `PipelineRerun` | violation | `NoDuplicateChunks` when runs of one document overlap |
| `ChainOverlap` | pass | `TypeOK`, `PassesOverOnlyTheFailing`, `RestsAfterFailure`, `CutShortOnlyByOverlap` and, under fairness, `EveryCallEnds` for three overlapping calls on two lanes, one of them with a mock |
| `ChunkingCuts` | pass | `TypeOK`, `NothingLost`, `RowsAreWindows`, `PositionsHold` for every page of up to eight tokens put together from one-token characters, a character of two tokens, two characters in one token, and U+FFFD |
| `WorkflowRetries` | pass | `TypeOK`, `NoDuplicateChunks`, `IndexedIsSettled`, `VectorsStay`, `ImplementsSearchable` and, under fairness, `EveryWorkflowEnds`, for two workflows in a row with any number of failures in every activity, of restarts of the worker, and of attempts of extract, chunks, embed and index that outlive their timeouts |
| `WorkflowLateChunks` | violation | `ChunksStoredOnce` when an attempt of `create_chunks` outlives its timeout |
| `Retrieval` | pass | `TypeOK`, `StayedReadyComesUp`, `GroundedInReady`, `RecordedWhole`, `DisagreeOnlyByOverlap` for a question and a second request of any kind, a document that is processed again and again, and three reviews |
| `Accounts` | pass | `TypeOK`, `MattersStayInside`, `TokensAreBacked`, `ErrorsExplained`, `ImplementsTenancy` for two people and two requests in flight, with commits that are lost |
| `AccountsTwice` | violation | `EveryMemberIsServed` once somebody is in two organizations |
| `Pool` | pass | `TypeOK`, `SomebodyCanGo`, `StrandedOnlyInACrowd` and, under fairness, `EveryRequestEnds` for three requests and four connections, where every wait may time out |
| `PoolExhausted` | violation | `EveryRunSettles` for two requests and two connections |

Some theorems of section 4 have a property that no run checks by itself, since
what a run checks implies it: `RenamedOnlyWhileAutoNamed` is
`RenamedLateOnlyByAnother` for one document per matter, `ProcessingIsOwned` is
`StrandedOnlyByCutOff` where nothing is cut off, `SharesOverlap` and
`NothingRepeated` follow from `RowsAreWindows`, `OrganizationsHaveOwners` from
`ImplementsTenancy`, and `ReadyIsSearchable` of the worker from its
`ImplementsSearchable`. `EveryRunSettles` passes in no run: `SettleSafety` proves it
for pools that are large enough, where it follows from `StrandedOnlyInACrowd`.

### Bounds

* Three runs of one document: two show a race of check and insert, the third
  comes after or between them and meets what they left. `PipelineOverlap` checks
  liveness, so it uses no symmetry, and leaves out the titles users type
  (`Edited`), which its properties do not depend on; it ends when the three runs
  have, so it does not check deadlock.
* The file of `d1` has a page without text and a page with two chunks, so that a
  half-written stage differs both from none and from all; `d2` has no page.
* One restart (`MaxCrashes`): what one leaves behind is the start of the next,
  and the invariants are proved for any number.
* Chains: two providers with a key in opposite orders on the two lanes and one
  without, a mock on one lane; two attempts; three different cooldowns of 1, 2
  and 3 ticks (the code: 45, 60 and 300 s), and a clock of 1 tick (`MaxTime`), so
  that the short cooldown expires in a run and the others do not. A call is made
  once, so this run, like that of the cutting loop, ends: it does not check
  deadlock.
* Chunking: all pages of up to eight tokens with a target of 4 and an overlap of
  1: up to three chunks, every remainder, repeated passages, and slices that
  begin or end inside a character. A prefix of 2 makes the last chunk short in
  some pages.
* Workflow: two workflows, so that an attempt of the first can go on during the
  second; two attempts at a time, one given up and one current; two batches, that
  of the stored rows and that of the rows which are to replace them: an INSERT
  always finds a free one. Failures, timeouts and crashes are not limited: the
  states repeat, and where the workflow sets `maximum_attempts` that is the limit.
  The runs end when the workflows have, so they do not check deadlock.
* Retrieval: one document with two passages and a `TopK` of 1, so that a question
  fetches both and ranks one away while a search fetches one; two requests, the
  second also a follow-up in the first one's conversation; three reviews and two
  verdicts: two that overlap and one before, between or after them.
* Accounts: two people, two slugs, two matters, one filing and two calls in
  flight: two are what a race takes, and after each call the next one begins. With
  two people, nobody but an owner can be the one who adds a member, so that guard
  of `Tenancy` rests on the proof and not on the run.
* Pool: three requests on four connections is the least pool that satisfies the
  condition of `ProgressSafety`, with three runs competing for the one connection
  left; two on two is the least that is exhausted (the code: 20 + 10).

### Fairness

The event loop resumes every task whose `await` has completed, and a database or
storage call completes or raises; hence weak fairness of each upload in
progress, each analyze request and each run. A run that waits for a row's lock
gets it, because its holder is itself such a run and only commits. No fairness
is assumed of clients, of failures or of restarts. In the chains every HTTP
request has a timeout (`AI_PROVIDER_TIMEOUT_SECONDS`), hence weak fairness of
the reply to each call; calls need not be made and the clock need not move. The
Temporal server hands out the attempts there are to make, and the worker's event
loop resumes them: weak fairness of `Schedule` for each workflow and of
`Activity` for each attempt, none of failures, timeouts or crashes.
`EveryWorkflowEnds` has a premise besides: a stage without `maximum_attempts` does
not come to nothing for ever (`Setback`), as it does while the storage or the
providers are out for good. Of the pool:
weak fairness of `GoOn` for each request. A request that waits can go on as long
as a connection is free or its wait may time out, and each is made once, so that
nobody is passed over for ever.

### Where the code and its words differ

1. `documents/pipeline.py:8` calls the steps "idempotent (safe to re-run)". Two
   runs that overlap both pass the check of `_create_chunks` and store every
   chunk twice (`PipelineRerun`). Serial re-runs are safe (`PipelineSerial`).
2. `src/README.md:200`: "Every step is idempotent and safe to re-run", and
   `src/apps/worker/src/caselens_worker/activities/chunking.py:46`: "Delete any
   existing chunks for idempotency". An attempt of `create_chunks` that outlives
   its two minutes and the next one DELETE before either INSERTs, and no
   constraint refuses the second batch (`WorkflowLateChunks`). If it stalls before
   its DELETE instead, it takes the chunks of its successors, with their vectors,
   from a document that may be READY by then. Nothing else does either
   (`NoDuplicateChunks`, `VectorsStay`).
3. `auth/service.py:198`: "Get the first active membership for a user."
   `scalar_one_or_none` raises for a second one, which `add_member` and
   `create_organization` both make possible; from then on every sign-in of the
   user and every endpoint for organization members is a server error
   (`AccountsTwice`).
4. `documents/pipeline.py:261-262`: "On any failure the document is marked ERROR
   ... it never raises out of the background task." With as many uploads in
   flight as connections, every run waits for the connection the others' requests
   keep, and `_mark_error` waits and fails on the same pool
   (`PoolExhausted`). Three requests on four connections are enough too. With two
   connections for each request in flight it holds (`SettleSafety`), and so it
   does with fewer as long as `_mark_error` does not wait in vain
   (`StrandedOnlyInACrowd`, which names the wait of `db.refresh` too: its timeout
   leaves a PROCESSING document without a run). A database failure in
   `_mark_error` has the same effect (action `MarkErrorFails`).

Not the subject of a run:

* `documents/analysis.py:367`: "later re-analysis never renames a user's matter".
  That holds of analyses of the same document, whatever overlaps
  (`ReanalysisLeavesTitle`). Analyses of two documents in one matter read the same
  `auto_named`, and the second renames the matter after the first has cleared the
  flag; this is the only way (`RenamedLateOnlyByAnother`), and why
  `RenamedOnlyWhileAutoNamed` is proved for one document per matter only.
  A user's own title does not clear the flag either (`matters/router.py:189`), so
  a first analysis that failed, a rename and a re-analysis end with the title of
  the model.
* `ai_gateway/chain.py:88` says "callers never see an exception". Only API
  errors, timeouts and connect errors lead to the next provider (action
  `Escape`).
* `src/apps/worker/src/caselens_worker/activities/chunking.py:21`: chunks preserve
  "position metadata". A chunk that begins inside a character is stored with
  position 0 (unless the page has U+FFFD itself), and so is one of at most 30
  characters; one whose first characters occur earlier on the page is stored with
  that earlier position (`PositionsHold`).
* `document_processing.py:101-103` has index_document mark the document ERROR
  "on the final failure". It does so on every failure of all providers, and on
  no other failure; other stages that fail for good leave it in PROCESSING. An
  attempt of `extract_text` that was given up can also put PROCESSING back over
  the READY of a later workflow; nothing else can (`IndexedIsSettled`).
* `src/README.md:164`: every AI call is recorded. The records of a question that
  fails are rolled back with it (`RecordedWhole`), and letters and analyses
  record none.
* `src/README.md:198`: the searches of a question run "in parallel". They are two
  statements one after the other, and the documents may move in between.
* `rag/router.py:350`: access to a review is verified "through conversation →
  matter → member". The query compares the organization only.
* The full-text query of `search/router.py` has no filter on READY, unlike all
  other queries, and an `AllProvidersFailedError` there is a server error while
  `ask` goes on without vectors; `GroundedInReady` therefore speaks of questions
  and letters only.
* `AddMemberRequest.role` is any string, and one that is no `OrgRole` is a server
  error (`organizations/router.py:151`) and not a 422 (`ErrorsExplained`).
* A PATCH of a filing that is deleted meanwhile is a server error and not the 404
  of `practice/router.py:168` (`ErrorsExplained`).

## 4. What is proved

For all values of the constants that satisfy the modules' assumptions; no bound
of section 3 is used.

`DocumentPipelineProofs`

* `TypeCorrect`: `Spec => []TypeOK`.
* `SearchSafety`: `Spec => []ReadyIsSearchable`, any runs, overlaps, faults and
  restarts. READY is written several `await`s after the embeddings were looked
  at, so the property is not inductive. `SearchInv` adds what each step of a run
  has behind it (`StagesDone`) and what the early returns rely on: chunk rows
  and embeddings of a document are there for all of it or not at all
  (`ChunksAllOrNone`, `EmbeddedAllOrNone`).
* `ObjectSafety`: `Spec => []RowHasObject`, from the order of store and commit
  in each upload.
* `SearchableRefinement`: `Spec => ImplementsSearchable`, from `SearchInv`, which
  gives the guard of READY, and from the fact that no step takes a row away.
* `ReanalysisSafety`: `Spec => []ReanalysisLeavesTitle`. `OnceInv` says that one
  open transaction at most has updated a document's row (`RowLock`), that a
  document that is READY, or was when a transaction loaded it, has been analysed
  (`ReadyIsAnalysed`), and that an analysis that was saved, or read the flag as
  gone, finds it gone for ever (`FlagStaysGone`).
* `LateRenameSafety`: `Spec => RenamedLateOnlyByAnother`. `StaleBySave` adds that
  what a transaction has read of the flag goes stale only by a saved analysis of
  the same matter, which `OnceInv` then shows to be one of another document.
* `RenameSafety`: `Spec => RenamedOnlyWhileAutoNamed` if no two documents share
  a matter (`OneDocPerMatter`), a corollary of the two before.
* `StrandedSafety`: `Spec => []StrandedOnlyByCutOff`, any overlaps, faults and
  restarts. `StrandedInv` follows each run that explains why its document is
  PROCESSING until it writes the status or is cut off, and adds that the run an
  upload is going to dispatch has not started.
* `OwnedSafety`: `Spec => []ProcessingIsOwned` if process and database stay up
  (`StaysUp`), since nothing is cut off then.

`SerialPipelineProofs`, when clients wait for a run before the next (`Serial`, that
is `Overlap = FALSE`); all failures and any number of restarts are allowed

* `NoDuplicatesSafety`, `CompleteSafety` (`NoDuplicateChunks`, `ReadyIsComplete`)
  and `LifecycleRefinement` (`Spec => ImplementsLifecycle`). `TurnInv` is about
  control: a document has one live run at most and none before its upload is
  answered, and its status is PROCESSING from the commit of a request to the end
  of the run. `StageInv` builds on it: the chunk rows of a document come from one
  run, none or all of them are embedded, and what a run looked at is still so when
  it acts. The refinement then takes each write of the status to one move of
  `DocumentLifecycle`, `SearchSafety` giving the guard of READY.

`ProviderChainProofs`

* `TypeCorrect`; `PassSafety` (`PassesOverOnlyTheFailing`) with the
  strengthening that no call began in the future; `RestSafety`
  (`RestsAfterFailure`) with the invariant that a breaker stays open for the
  shortest cooldown after the last trip; `ShortSafety`
  (`CutShortOnlyByOverlap`) with the invariant that a waiting call stands at a
  provider whose cooldown is over or was set after the call began.

`ChunkingProofs`

* `TypeCorrect`, `CoverSafety` (`NothingLost`), `OverlapSafety`
  (`SharesOverlap`) and `RepeatSafety` (`NothingRepeated`), for every page, encoding,
  target size and smaller overlap, from an invariant on the last row and the place
  where the next chunk begins. `CoverSafety` is about characters: one that a slice
  tears is whole in the next, since no character has more tokens than two slices
  share (`ChunkingAssumption`; the code: four bytes at most, and 64 tokens).
* `PositionSafety` (`PositionsHold`): a piece that begins with a character is found
  at least where it was cut, and the U+FFFD at the head of any other is found
  nowhere in a page without one, so that the search fails and gives 0.
* `WindowSafety` (`RowsAreWindows`): `WindowInv` says that the loop stands as many
  strides into the page as it has made chunks. The chunks are then a function of
  the page, so that the API, the worker and every retry cut it alike.

`DocumentWorkflowProofs`

* `TypeCorrect`: without any assumption on use. `TypeInv` adds that an attempt at
  work has a workflow and that attempts stay within `maximum_attempts`.
* `SearchSafety`, `ChunksSafety`, `VectorsSafety` (`ReadyIsSearchable`,
  `NoDuplicateChunks`, `VectorsStay`) for workflows one after another (`SerialUse`)
  whose attempts, of every stage, may outlive their timeouts. `create_chunks` does
  not survive that, and the theorems say that nothing else does the same harm:
  chunks are stored twice, and a READY document may lack vectors, only once an attempt of it
  that had been given up has committed (`torn`), and only such a commit takes
  vectors away. The argument has two layers. `ServerInv` is about control only:
  one workflow is active, and the attempt the server waits for is in the activity
  of its stage. `RowsInv` builds on it: what an attempt found when it looked still
  holds when it acts (`ChecksHold`); while an attempt of `create_chunks` that the
  server waits for is past its check nothing is embedded, whatever late attempts
  store (`CurrentIsFirst`); and a stage begins only after its predecessors' rows
  are there (`StagesInOrder`). Every step that leaves `torn` FALSE then only adds
  rows (`Grows`), and that is why a late index_document may write READY safely.
* `SearchableRefinement` (`ImplementsSearchable`) in serial use, from `RowsInv` and
  `Grows`; with `torn` nothing is claimed of the vectors any more.
* `SettledSafety` (`IndexedIsSettled`) in serial use: `SettledInv` begins where an
  attempt of `index_document` has loaded a status it need not change, since
  another attempt may write between that and its report.

`RetrievalProofs`

* `TypeCorrect`: with `TypeInv`, which adds that a review at work has an answer.
* `RecordSafety` (`RecordedWhole`): `RecordInv` says what a question has written
  by each of its steps and that its conversation is stored or its own.
* `ReviewSafety` (`DisagreeOnlyByOverlap`): `ReviewInv` says that on an answer
  without an overlap one review at most is at work, that what it has loaded is
  still what is stored, and that nobody has judged an answer before it is stored.
* `GroundSafety` (`GroundedInReady`): `GroundInv` says that the documents READY now
  are among those READY since the request began, and that hits come from those.
* `ComesUpSafety` (`StayedReadyComesUp`): `SteadyInv` follows the passages of the
  steady documents through vector query and ranking, with the arithmetic of
  cardinalities (any `TopK` passages, or all). It uses that READY documents are
  searchable and stay so, which `SearchableDocuments` says and the two theorems
  `SearchableRefinement` prove of the pipeline and, while `torn` is FALSE, of the
  worker.

`AccountsProofs`

* `TypeCorrect`, `OwnerSafety` (`OrganizationsHaveOwners`) and `InsideSafety`
  (`MattersStayInside`) share one invariant, `Inv`: the rows a call carries are
  those its endpoint makes from what was stored, and what it relied on stays
  stored; memberships have a user and an organization.
* `TokenSafety` (`TokensAreBacked`), from `Inv`: two calls that sign up one address
  never both have its key.
* `ErrorSafety` (`ErrorsExplained`), five causes and no other, for valid requests
  (section 2): `KnownInv` says that what a call inserts had no
  key in the database when it began, what it changes had one, and a filing is the
  same wherever it is at hand.
* `TenancyRefinement` (`ImplementsTenancy`): a handler looks first and writes
  later, without locks, and all the same its commit is one move of `Tenancy`.
  `HeldInv` says that the keys a flush has found free stay free until the commit,
  `EntitledInv` that who was entitled when the handler looked still is, because
  memberships are not taken back, and `AtWorkInv` that what commits has rows.

`ConnectionPoolProofs`

* `TypeCorrect`, which contains that no more connections are out than there are.
* `ProgressSafety` (`SomebodyCanGo`) for fewer requests than connections.
* `StrandedSafety` (`StrandedOnlyInACrowd`) for any requests, pool and timeouts: a
  wait times out only when every connection is out, and those in flight hold two
  each at most, less than two if one of them waits.
* `SettleSafety` (`EveryRunSettles`) if there are two connections for each
  request; `PoolExhausted` shows that one each is too few.

Only model-checked: the liveness properties (`Settles`, `EveryCallEnds`,
`EveryWorkflowEnds`, `EveryRequestEnds`), which the prover does not reach.

## 5. Not modelled

* Prompts, schemas, letter templates and JSON repair of the AI gateway, and the
  request formats of its adapters: the chains see a reply or an error.
* The metadata of an analysis beyond title and flag: no step depends on it.
* Scores and similarity. Chunks and questions may be embedded by different models
  of a chain, which would show only in scores; the default chain has one.
* Special tokens in a page's text (`<|endoftext|>`), which make tiktoken's `encode`
  raise: `_create_chunks` fails on such a page like on any other exception.
* Filings without a matter, a PATCH that changes nothing, requests with values
  that a library or a column refuses, and users as ids apart from their addresses
  (section 2, Accounts).
* Contacts and calendar events, whose handlers are those of filings; names,
  descriptions and numbers; the lists, which change nothing.
* Passwords, the expiry of tokens, deactivated accounts, Google's side of a
  sign-in.
* The audit list: nothing writes an event. Migrations, contracts, deployment,
  buckets and boto.
* The web client: one tab's state, which polls what `DocumentLifecycle` shows and
  stops after 60 ticks without a word.
* The connections of requests other than uploads and analyze calls: they hold one
  from their first statement to their commit and wait for nobody, but a question
  holds it during its calls of providers.
