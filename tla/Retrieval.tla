----------------------------- MODULE Retrieval -----------------------------
(***************************************************************************)
(* What the API does with the passages of a matter's documents: questions  *)
(* (POST /matters/{id}/ask), searches, letters, and the review of an       *)
(* answer.  The documents move as SearchableDocuments says, which both     *)
(* DocumentPipeline and DocumentWorkflow implement.                        *)
(*                                                                         *)
(* A request is one transaction at READ COMMITTED: every statement sees    *)
(* what is committed by then, so its two retrieval queries can see the     *)
(* documents in different states, and what the request writes appears at   *)
(* its commit, which get_db_session makes after the response was sent.     *)
(***************************************************************************)
EXTENDS Integers, FiniteSets

CONSTANTS
  Docs,         \* the documents of the matter
  Passages,     \* their chunks
  DocOf,        \* DocOf[p]: the document p is a chunk of
  Requests,     \* the questions, searches and letters asked for
  Reviews,      \* the calls of review_ai_answer
  TopK,         \* top_k of every request
  Kinds,        \* Kinds[q]: the endpoints and search types q may be for
  Verdicts      \* the statuses reviewers give

\* "ask", "letter", and the three search types of the search endpoint.
AllKinds == {"ask", "letter", "hybrid", "fulltext", "vector"}

Statuses == {"PENDING", "APPROVED", "REJECTED", "REVISED"}

ASSUME ConstantsAssumption ==
  /\ DocOf \in [Passages -> Docs]
  /\ IsFiniteSet(Passages)
  /\ TopK \in Nat \ {0}
  /\ Kinds \in [Requests -> SUBSET AllKinds]
  /\ Verdicts \subseteq Statuses \ {"PENDING"}

VARIABLES
  phase, searchable,   \* the documents, see SearchableDocuments
  step,         \* step[q]: how far request q has come
  kind,         \* kind[q]: which endpoint it is for
  thread,       \* thread[q]: the request that opened the conversation of q
  hits,         \* hits[q]: the passages its queries have returned
  degraded,     \* degraded[q]: no embedding of the question, text search only
  evidence,     \* evidence[q]: the passages that are cited or put in a prompt
  written,      \* written[q]: the rows of its open transaction
  stored,       \* stored[q]: the rows it has committed
  steady,       \* history, steady[q]: READY ever since q began
  everReady,    \* history, everReady[q]: READY at some time since q began
  review, target, verdict,  \* of each review: its step, the answer, the status
  seen, seenRun,            \* the statuses it has loaded
  messageStatus, runStatus, \* review_status of the answer and of its model run
  overlapped    \* history: the answers two reviews were at work on at once

docVars == <<phase, searchable>>
requestVars == <<step, kind, thread, hits, degraded, evidence, written, stored,
                 steady, everReady>>
reviewVars == <<review, target, verdict, seen, seenRun, messageStatus,
                runStatus, overlapped>>
vars == <<docVars, requestVars, reviewVars>>

Documents == INSTANCE SearchableDocuments

-----------------------------------------------------------------------------
Rows == {"conversation", "question", "retrieval", "run", "answer", "citations"}
Working == {"texting", "embedding", "comparing", "ranking", "generating",
            "responding", "committing"}
Over == {"done", "failed"}
Reviewing == {"loaded", "selected", "flushed"}

Ready == {d \in Docs : phase[d] = "READY"}
PassagesOf(ds) == {p \in Passages : DocOf[p] \in ds}

\* LIMIT: ask fetches 2 * top_k passages of each kind to rank them afterwards.
Limit(k) == IF k = "ask" THEN 2 * TopK ELSE TopK

\* What ORDER BY ... LIMIT n may leave of a set of passages: scores are not
\* modelled, so any n of them, or all if they are fewer.
Best(ps, n) == {b \in SUBSET ps : Cardinality(b) = n \/ (b = ps /\ Cardinality(ps) <= n)}

\* The reviews at work on the answer to q.
OpenReviews(q) == {v \in Reviews : review[v] \in Reviewing /\ target[v] = q}

TypeOK ==
  /\ Documents!TypeOK
  /\ step \in [Requests -> {"idle"} \union Working \union Over]
  /\ kind \in [Requests -> AllKinds \union {"none"}]
  /\ thread \in [Requests -> Requests]
  /\ hits \in [Requests -> SUBSET Passages]
  /\ degraded \in [Requests -> BOOLEAN]
  /\ evidence \in [Requests -> SUBSET Passages]
  /\ written \in [Requests -> SUBSET Rows]
  /\ stored \in [Requests -> SUBSET Rows]
  /\ steady \in [Requests -> SUBSET Docs]
  /\ everReady \in [Requests -> SUBSET Docs]
  /\ review \in [Reviews -> {"idle", "over"} \union Reviewing]
  /\ target \in [Reviews -> Requests \union {"none"}]
  /\ verdict \in [Reviews -> Statuses]
  /\ seen \in [Reviews -> Statuses]
  /\ seenRun \in [Reviews -> Statuses]
  /\ messageStatus \in [Requests -> Statuses]
  /\ runStatus \in [Requests -> Statuses]
  /\ overlapped \subseteq Requests

Init ==
  /\ searchable = Docs \ {DocOf[p] : p \in Passages}
  /\ Documents!Init
  /\ step = [q \in Requests |-> "idle"]
  /\ kind = [q \in Requests |-> "none"]
  /\ thread = [q \in Requests |-> q]
  /\ hits = [q \in Requests |-> {}]
  /\ degraded = [q \in Requests |-> FALSE]
  /\ evidence = [q \in Requests |-> {}]
  /\ written = [q \in Requests |-> {}]
  /\ stored = [q \in Requests |-> {}]
  /\ steady = [q \in Requests |-> {}]
  /\ everReady = [q \in Requests |-> {}]
  /\ review = [v \in Reviews |-> "idle"]
  /\ target = [v \in Reviews |-> "none"]
  /\ verdict = [v \in Reviews |-> "PENDING"]
  /\ seen = [v \in Reviews |-> "PENDING"]
  /\ seenRun = [v \in Reviews |-> "PENDING"]
  /\ messageStatus = [q \in Requests |-> "PENDING"]
  /\ runStatus = [q \in Requests |-> "PENDING"]
  /\ overlapped = {}

-----------------------------------------------------------------------------
(* Helpers of the request handlers *)

Goto(q, s) == step' = [step EXCEPT ![q] = s]

\* Request q moves on from one step to the next within its transaction.
Move(q, from, to) ==
  /\ step[q] = from
  /\ Goto(q, to)
  /\ UNCHANGED <<docVars, kind, thread, stored, steady, everReady, reviewVars>>

\* The statements of a request from the first one on.
Opening(k) == IF k = "vector" THEN "embedding" ELSE "texting"

\* The handler has ended: its transaction is closed and its locals are gone.
Leave(q, s, rows) ==
  /\ Goto(q, s)
  /\ stored' = [stored EXCEPT ![q] = rows]
  /\ written' = [written EXCEPT ![q] = {}]
  /\ hits' = [hits EXCEPT ![q] = {}]
  /\ evidence' = [evidence EXCEPT ![q] = {}]
  /\ degraded' = [degraded EXCEPT ![q] = FALSE]
  /\ steady' = [steady EXCEPT ![q] = {}]
  /\ everReady' = [everReady EXCEPT ![q] = {}]
  /\ UNCHANGED <<docVars, kind, thread, reviewVars>>

-----------------------------------------------------------------------------
(* The documents: the pipeline and the clients that start it. *)

DocumentsMove ==
  /\ Documents!Next
  /\ steady' = [q \in Requests |-> steady[q] \intersect Ready']
  /\ everReady' = [q \in Requests |->
                     IF step[q] \in Working THEN everReady[q] \union Ready' ELSE {}]
  /\ UNCHANGED <<step, kind, thread, hits, degraded, evidence, written, stored,
                 reviewVars>>

-----------------------------------------------------------------------------
(* The beginning of a request *)

\* Request q begins; t opened the conversation it belongs to.
Open(q, k, t, rows) ==
  /\ step[q] = "idle"
  /\ Goto(q, Opening(k))
  /\ kind' = [kind EXCEPT ![q] = k]
  /\ thread' = [thread EXCEPT ![q] = t]
  /\ written' = [written EXCEPT ![q] = rows]
  /\ steady' = [steady EXCEPT ![q] = Ready]
  /\ everReady' = [everReady EXCEPT ![q] = Ready]
  /\ UNCHANGED <<docVars, hits, degraded, evidence, stored, reviewVars>>

\* ask without a conversation: it is created, and the question is flushed.
AskNew(q) == "ask" \in Kinds[q] /\ Open(q, "ask", q, {"conversation", "question"})

\* ask in the conversation an earlier answer t has named.  The client can know
\* the conversation before it is committed; then it is not found.
AskMore(q, t) ==
  /\ "ask" \in Kinds[q]
  /\ step[t] \in {"committing", "done"} /\ kind[t] = "ask"
  /\ "conversation" \in stored[thread[t]]
  /\ Open(q, "ask", thread[t], {"question"})

\* 404: the conversation does not exist, or not yet.
AskMoreRefused(q, t) ==
  /\ "ask" \in Kinds[q]
  /\ step[q] = "idle"
  /\ step[t] \in {"committing", "failed"} /\ kind[t] = "ask"
  /\ "conversation" \notin stored[thread[t]]
  /\ Goto(q, "failed")
  /\ UNCHANGED <<docVars, kind, thread, hits, degraded, evidence, written, stored,
                 steady, everReady, reviewVars>>

\* search_matter_documents and generate_letter write nothing.
Search(q) == \E k \in Kinds[q] \ {"ask", "letter"} : Open(q, k, q, {})
GenerateLetter(q) == "letter" \in Kinds[q] /\ Open(q, "letter", q, {})

-----------------------------------------------------------------------------
(* Retrieval *)

\* Broken variant: questions and letters look at documents of any status too.
FullTextAnyStatus(q) ==
  /\ Move(q, "texting", CASE kind[q] \in {"ask", "hybrid"} -> "embedding"
                          [] kind[q] = "letter" -> "generating"
                          [] OTHER -> "ranking")
  /\ \E ps \in SUBSET PassagesOf({d \in Docs : phase[d] # "absent"}) :
       /\ hits' = [hits EXCEPT ![q] = ps]
       /\ evidence' = IF kind[q] = "letter" THEN [evidence EXCEPT ![q] = ps] ELSE evidence
  /\ UNCHANGED <<degraded, written>>

\* The full-text query.  Only search looks at documents of any status; their
\* chunks are there at some time before the end of their processing.
FullText(q) ==
  LET visible == IF kind[q] \in {"ask", "letter"} THEN Ready
                 ELSE {d \in Docs : phase[d] # "absent"} IN
  /\ Move(q, "texting", CASE kind[q] \in {"ask", "hybrid"} -> "embedding"
                          [] kind[q] = "letter" -> "generating"
                          [] OTHER -> "ranking")
  /\ \E ps \in SUBSET PassagesOf(visible) :
       /\ Cardinality(ps) <= Limit(kind[q])
       /\ hits' = [hits EXCEPT ![q] = ps]
       /\ evidence' = IF kind[q] = "letter" THEN [evidence EXCEPT ![q] = ps] ELSE evidence
  /\ UNCHANGED <<degraded, written>>

\* A letter is written without context if its query fails.
FullTextFails(q) ==
  /\ kind[q] = "letter"
  /\ Move(q, "texting", "generating")
  /\ UNCHANGED <<hits, degraded, evidence, written>>

\* The chain has embedded the question.
Embed(q) ==
  /\ Move(q, "embedding", "comparing")
  /\ UNCHANGED <<hits, degraded, evidence, written>>

\* AllProvidersFailedError: ask goes on with what the full-text query found;
\* a search does not catch it, see Break.
EmbedFails(q) ==
  /\ kind[q] = "ask"
  /\ Move(q, "embedding", "ranking")
  /\ degraded' = [degraded EXCEPT ![q] = TRUE]
  /\ UNCHANGED <<hits, evidence, written>>

\* The vector query: the nearest vectors, however far away, of documents that
\* are READY by now, merged with the passages found before.
VectorQuery(q) ==
  /\ Move(q, "comparing", "ranking")
  /\ \E ps \in Best(PassagesOf(Ready \intersect searchable), Limit(kind[q])) :
       hits' = [hits EXCEPT ![q] = @ \union ps]
  /\ UNCHANGED <<degraded, evidence, written>>

\* The best top_k of the merged passages.  A search returns them; ask records
\* the retrieval and abstains if there are none.
Rank(q) ==
  /\ Move(q, "ranking", IF kind[q] = "ask" /\ hits[q] # {} THEN "generating" ELSE "responding")
  /\ \E ps \in Best(hits[q], TopK) : evidence' = [evidence EXCEPT ![q] = ps]
  /\ written' = IF kind[q] # "ask" THEN written
                ELSE [written EXCEPT ![q] = @ \union {"retrieval"}
                        \union (IF hits[q] = {} THEN {"answer"} ELSE {})]
  /\ UNCHANGED <<hits, degraded>>

-----------------------------------------------------------------------------
(* Generation and the end of a request *)

\* The model has answered: model run, answer and citations are flushed.
Generate(q) ==
  /\ Move(q, "generating", "responding")
  /\ written' = IF kind[q] # "ask" THEN written
                ELSE [written EXCEPT ![q] = @ \union {"run", "answer", "citations"}]
  /\ UNCHANGED <<hits, degraded, evidence>>

\* The response is sent; the session is committed afterwards.
Respond(q) ==
  /\ Move(q, "responding", "committing")
  /\ UNCHANGED <<hits, degraded, evidence, written>>

Commit(q) == step[q] = "committing" /\ Leave(q, "done", written[q])

\* Broken variant: the session is committed after an exception, too.
BreakCommitting(q) == step[q] \in Working /\ Leave(q, "failed", written[q])

\* Any exception, of the model providers (503), of the database or of a commit
\* whose response is already out: everything is rolled back.
Break(q) == step[q] \in Working /\ Leave(q, "failed", stored[q])

-----------------------------------------------------------------------------
(* review_ai_answer.  An UPDATE is emitted only for a status that differs   *)
(* from the one loaded, and it waits for the row while another open         *)
(* transaction has updated it.                                              *)

MessageDirty(v) == verdict[v] # seen[v]
RunDirty(v) == "run" \in stored[target[v]] /\ verdict[v] # seenRun[v]

HoldsMessage(v) == review[v] \in {"selected", "flushed"} /\ MessageDirty(v)
HoldsRun(v) == review[v] = "flushed" /\ RunDirty(v)

ReviewGoto(v, s) ==
  /\ review' = [review EXCEPT ![v] = s]
  /\ UNCHANGED <<docVars, requestVars, target, verdict>>

\* Broken variant: the status is stored as the request spells it.
ReviewLoadAsSpelled(v, q, s) ==
  /\ review[v] = "idle"
  /\ "answer" \in stored[q]
  /\ review' = [review EXCEPT ![v] = "loaded"]
  /\ target' = [target EXCEPT ![v] = q]
  /\ verdict' = [verdict EXCEPT ![v] = "approved"]
  /\ UNCHANGED <<docVars, requestVars, seen, seenRun, messageStatus, runStatus, overlapped>>

\* The committed answer is loaded and its status set.
ReviewLoad(v, q, s) ==
  /\ review[v] = "idle"
  /\ "answer" \in stored[q]
  /\ review' = [review EXCEPT ![v] = "loaded"]
  /\ target' = [target EXCEPT ![v] = q]
  /\ verdict' = [verdict EXCEPT ![v] = s]
  /\ seen' = [seen EXCEPT ![v] = messageStatus[q]]
  /\ overlapped' = IF OpenReviews(q) = {} THEN overlapped ELSE overlapped \union {q}
  /\ UNCHANGED <<docVars, requestVars, seenRun, messageStatus, runStatus>>

\* The SELECT of the model run flushes the answer's UPDATE first.
ReviewSelectRun(v) ==
  LET q == target[v] IN
  /\ review[v] = "loaded"
  /\ MessageDirty(v) => \A w \in OpenReviews(q) : ~HoldsMessage(w)
  /\ ReviewGoto(v, "selected")
  /\ seenRun' = IF "run" \in stored[q] THEN [seenRun EXCEPT ![v] = runStatus[q]] ELSE seenRun
  /\ UNCHANGED <<seen, messageStatus, runStatus, overlapped>>

\* flush: the model run's UPDATE
ReviewFlush(v) ==
  /\ review[v] = "selected"
  /\ RunDirty(v) => \A w \in OpenReviews(target[v]) : ~HoldsRun(w)
  /\ ReviewGoto(v, "flushed")
  /\ UNCHANGED <<seen, seenRun, messageStatus, runStatus, overlapped>>

\* A review has ended; its locals are gone.
ReviewLeave(v) ==
  /\ review' = [review EXCEPT ![v] = "over"]
  /\ target' = [target EXCEPT ![v] = "none"]
  /\ verdict' = [verdict EXCEPT ![v] = "PENDING"]
  /\ seen' = [seen EXCEPT ![v] = "PENDING"]
  /\ seenRun' = [seenRun EXCEPT ![v] = "PENDING"]
  /\ UNCHANGED <<docVars, requestVars, overlapped>>

\* Broken variant: the model run is forgotten.
ReviewCommitMessage(v) ==
  /\ review[v] = "flushed"
  /\ messageStatus' = [messageStatus EXCEPT ![target[v]] = verdict[v]]
  /\ ReviewLeave(v)
  /\ UNCHANGED runStatus

ReviewCommit(v) ==
  LET q == target[v] IN
  /\ review[v] = "flushed"
  /\ messageStatus' = IF MessageDirty(v) THEN [messageStatus EXCEPT ![q] = verdict[v]]
                                         ELSE messageStatus
  /\ runStatus' = IF RunDirty(v) THEN [runStatus EXCEPT ![q] = verdict[v]] ELSE runStatus
  /\ ReviewLeave(v)

ReviewBreaks(v) ==
  /\ review[v] \in Reviewing
  /\ ReviewLeave(v)
  /\ UNCHANGED <<messageStatus, runStatus>>

-----------------------------------------------------------------------------
Begin(q) ==
  \/ AskNew(q) \/ Search(q) \/ GenerateLetter(q)
  \/ \E t \in Requests : AskMore(q, t) \/ AskMoreRefused(q, t)

Handle(q) ==
  \/ FullText(q) \/ FullTextFails(q)
  \/ Embed(q) \/ EmbedFails(q)
  \/ VectorQuery(q) \/ Rank(q)
  \/ Generate(q) \/ Respond(q)
  \/ Commit(q) \/ Break(q)

Review(v) == ReviewSelectRun(v) \/ ReviewFlush(v) \/ ReviewCommit(v) \/ ReviewBreaks(v)

Next ==
  \/ DocumentsMove
  \/ \E q \in Requests : Begin(q) \/ Handle(q)
  \/ \E v \in Reviews : \/ Review(v)
                        \/ \E q \in Requests, s \in Verdicts : ReviewLoad(v, q, s)

Spec == Init /\ [][Next]_vars

-----------------------------------------------------------------------------
(* Properties *)

\* A document that was READY during the whole of a request comes up with every
\* passage, unless the answer already has all the passages that were asked for
\* or the question could not be embedded.
StayedReadyComesUp == \A q \in Requests :
  (/\ step[q] \in {"responding", "committing"}
   /\ kind[q] \in {"ask", "hybrid", "vector"}
   /\ ~degraded[q])
    => \/ PassagesOf(steady[q]) \subseteq evidence[q]
       \/ Cardinality(evidence[q]) = TopK

\* What an answer cites and what a letter is grounded on comes from documents
\* that were READY at some time during the request, whatever they are by now.
GroundedInReady == \A q \in Requests :
  (step[q] \in Working /\ kind[q] \in {"ask", "letter"})
    => evidence[q] \subseteq PassagesOf(everReady[q])

\* Of a question either everything is recorded or nothing: its retrieval, its
\* answer, model run and citations together unless it abstained, in a
\* conversation that exists.
RecordedWhole == \A q \in Requests :
  stored[q] # {} =>
    /\ {"question", "retrieval", "answer"} \subseteq stored[q]
    /\ "run" \in stored[q] <=> "citations" \in stored[q]
    /\ "conversation" \in stored[thread[q]]

\* An answer and its model run carry the same review status, except after two
\* reviews of that answer that overlapped.
DisagreeOnlyByOverlap == \A q \in Requests :
  ("run" \in stored[q] /\ q \notin overlapped) => messageStatus[q] = runStatus[q]
=============================================================================
