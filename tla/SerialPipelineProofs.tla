------------------------ MODULE SerialPipelineProofs ------------------------
(***************************************************************************)
(* Theorems about DocumentPipeline when the clients call analyze only once *)
(* the run before has ended (Overlap = FALSE): failures and restarts leave *)
(* no chunk stored twice, READY documents are complete, and the status     *)
(* implements DocumentLifecycle.                                           *)
(***************************************************************************)
EXTENDS DocumentPipelineProofs

Serial == ~Overlap

-----------------------------------------------------------------------------
(* Whose turn it is: nobody but the one run of a document writes to it, and  *)
(* the status says PROCESSING while that run is past its request.            *)

Unanswered == {"none", "ingesting", "stored", "committed"}

OneRunOfADocument ==
  \A q, r \in Runs : Alive(q) /\ Alive(r) /\ doc[q] = doc[r] => q = r

NoRunBeforeTheAnswer ==
  \A d \in Docs : upload[d] \in Unanswered => \A r \in Runs : Alive(r) => doc[r] # d

UploadedStatus == \A d \in Docs :
  /\ upload[d] \in Unanswered \ {"committed"} => status[d] = "absent"
  /\ upload[d] = "committed" => status[d] = "PROCESSING"

StatusOfARun == \A r \in Runs :
  /\ pc[r] \in TaskSteps \union {"accepted"} => status[doc[r]] = "PROCESSING"
  /\ pc[r] = "requested" => \/ dirty[r] = "status" /\ status[doc[r]] \in {"READY", "ERROR"}
                            \/ dirty[r] = "clean" /\ status[doc[r]] = "PROCESSING"

TurnInv ==
  /\ OneRunOfADocument
  /\ NoRunBeforeTheAnswer
  /\ UploadedStatus
  /\ StatusOfARun

\* In serial use a step keeps TurnInv.
LEMMA StepTurn ==
  ASSUME Serial
  PROVE  TypeOK /\ TurnInv /\ [Next]_vars => TurnInv'
<1> SUFFICES ASSUME TypeOK, TurnInv, [Next]_vars PROVE TurnInv'
  OBVIOUS
<1> USE ConstantsAssumption
    DEF Serial, TypeOK, TurnInv, OneRunOfADocument, NoRunBeforeTheAnswer, UploadedStatus,
        StatusOfARun, Unanswered, dbVars, runVars, Goto, SetStatus, Alive, Changes, Statuses,
        RequestSteps, TaskSteps
<1>1. ASSUME NEW m \in Matters, CreateMatter(m) PROVE TurnInv'
  BY <1>1 DEF CreateMatter
<1>2. ASSUME NEW m \in Matters, UpdateMatter(m) PROVE TurnInv'
  BY <1>2 DEF UpdateMatter
<1>3. ASSUME NEW d \in Docs, QuickUpload(d) PROVE TurnInv'
  BY <1>3 DEF QuickUpload
<1>4. ASSUME NEW d \in Docs, UploadDocument(d) PROVE TurnInv'
  BY <1>4 DEF UploadDocument
<1>5. ASSUME NEW d \in Docs, IngestStore(d) PROVE TurnInv'
  BY <1>5 DEF IngestStore
<1>6. ASSUME NEW d \in Docs, IngestCommit(d) PROVE TurnInv'
  BY <1>6 DEF IngestCommit
<1>7. ASSUME NEW d \in Docs, IngestDispatch(d) PROVE TurnInv'
  BY <1>7 DEF IngestDispatch
<1>8. ASSUME NEW d \in Docs, UploadFails(d) PROVE TurnInv'
  BY <1>8 DEF UploadFails
<1>9. ASSUME NEW r \in Runs, NEW d \in Docs, AnalyzeLoad(r, d) PROVE TurnInv'
  <2>1. /\ pc[r] = "idle" /\ pc'[r] = "requested" /\ doc'[r] = d
        /\ dirty'[r] = IF status[d] = "PROCESSING" THEN "clean" ELSE "status"
        /\ status[d] \in {"READY", "ERROR", "PROCESSING"}
    BY <1>9 DEF AnalyzeLoad
  <2>2. \A q \in Runs : q # r => pc'[q] = pc[q] /\ doc'[q] = doc[q] /\ dirty'[q] = dirty[q]
    BY <1>9 DEF AnalyzeLoad
  <2>3. UNCHANGED <<status, upload>>
    BY <1>9 DEF AnalyzeLoad
  <2>4. upload[d] \notin Unanswered /\ \A q \in Runs : Alive(q) => doc[q] # d
    BY <1>9 DEF AnalyzeLoad
  <2>5. OneRunOfADocument' /\ NoRunBeforeTheAnswer' /\ UploadedStatus'
    <3>1. \A q \in Runs : q # r /\ Alive(q)' => Alive(q) /\ doc'[q] # d
      BY <2>2, <2>4
    <3>2. OneRunOfADocument'
      <4>1. SUFFICES ASSUME NEW p \in Runs, NEW q \in Runs, Alive(p)', Alive(q)',
                            doc'[p] = doc'[q]
                     PROVE  p = q
        BY DEF OneRunOfADocument
      <4>2. CASE p # r /\ q # r
        BY <2>2, <3>1, <4>1, <4>2
      <4>3. CASE p = r \/ q = r
        BY <2>1, <3>1, <4>1, <4>3
      <4>4. QED
        BY <4>2, <4>3
    <3>3. NoRunBeforeTheAnswer'
      <4>1. SUFFICES ASSUME NEW e \in Docs, upload'[e] \in Unanswered,
                            NEW q \in Runs, Alive(q)'
                     PROVE  doc'[q] # e
        BY DEF NoRunBeforeTheAnswer
      <4>2. upload[e] \in Unanswered
        BY <2>3, <4>1
      <4>3. CASE q = r
        BY <2>1, <2>4, <4>2, <4>3
      <4>4. CASE q # r
        BY <2>2, <3>1, <4>1, <4>2, <4>4
      <4>5. QED
        BY <4>3, <4>4
    <3>4. UploadedStatus'
      BY <2>3
    <3>5. QED
      BY <3>2, <3>3, <3>4
  <2>6. StatusOfARun'
    <3>1. SUFFICES ASSUME NEW q \in Runs PROVE StatusOfARun!(q)'
      BY DEF StatusOfARun
    <3>2. CASE q = r
      BY <2>1, <2>3, <3>2
    <3>3. CASE q # r
      BY <2>2, <2>3, <3>3
    <3>4. QED
      BY <3>2, <3>3
  <2>7. QED
    BY <2>5, <2>6
<1>10. ASSUME NEW r \in Runs, AnalyzeCommit(r) PROVE TurnInv'
  BY <1>10 DEF AnalyzeCommit, Step
<1>11. ASSUME NEW r \in Runs, AnalyzeDispatch(r) PROVE TurnInv'
  BY <1>11 DEF AnalyzeDispatch, Step
<1>12. ASSUME NEW r \in Runs, AnalyzeFails(r) PROVE TurnInv'
  BY <1>12 DEF AnalyzeFails, Step
<1>13. ASSUME NEW r \in Runs, ExtractRead(r) PROVE TurnInv'
  BY <1>13 DEF ExtractRead, Step
<1>14. ASSUME NEW r \in Runs, ExtractCheck(r) PROVE TurnInv'
  BY <1>14 DEF ExtractCheck, Step
<1>15. ASSUME NEW r \in Runs, ExtractInsert(r) PROVE TurnInv'
  BY <1>15 DEF ExtractInsert, Step
<1>16. ASSUME NEW r \in Runs, ExtractConflict(r) PROVE TurnInv'
  BY <1>16 DEF ExtractConflict, Step
<1>17. ASSUME NEW r \in Runs, ChunksCheck(r) PROVE TurnInv'
  BY <1>17 DEF ChunksCheck, Step
<1>18. ASSUME NEW r \in Runs, ChunksInsert(r) PROVE TurnInv'
  BY <1>18 DEF ChunksInsert, Step
<1>19. ASSUME NEW r \in Runs, EmbeddingsLoad(r) PROVE TurnInv'
  BY <1>19 DEF EmbeddingsLoad, Step
<1>20. ASSUME NEW r \in Runs, EmbeddingsCheck(r) PROVE TurnInv'
  BY <1>20 DEF EmbeddingsCheck, Step
<1>21. ASSUME NEW r \in Runs, EmbeddingsInsert(r) PROVE TurnInv'
  BY <1>21 DEF EmbeddingsInsert, Step
<1>22. ASSUME NEW r \in Runs, EmbeddingsConflict(r) PROVE TurnInv'
  BY <1>22 DEF EmbeddingsConflict, Step
<1>23. ASSUME NEW r \in Runs, AnalyzeText(r) PROVE TurnInv'
  BY <1>23 DEF AnalyzeText, Step
<1>24. ASSUME NEW r \in Runs, AnalyzeLoadDocument(r) PROVE TurnInv'
  BY <1>24 DEF AnalyzeLoadDocument, Step
<1>25. ASSUME NEW r \in Runs, AnalyzeLoadMatter(r) PROVE TurnInv'
  BY <1>25 DEF AnalyzeLoadMatter, Step
<1>26. ASSUME NEW r \in Runs, AnalyzeSave(r) PROVE TurnInv'
  BY <1>26 DEF AnalyzeSave, Step
<1>27. ASSUME NEW r \in Runs, RunFails(r) PROVE TurnInv'
  BY <1>27 DEF RunFails, Step
<1>28. ASSUME NEW r \in Runs, MarkError(r) PROVE TurnInv'
  BY <1>28 DEF MarkError, Step
<1>29. ASSUME NEW r \in Runs, MarkErrorFails(r) PROVE TurnInv'
  BY <1>29 DEF MarkErrorFails, Step
<1>30. CASE Crash
  BY <1>30 DEF Crash
<1>31. CASE UNCHANGED vars
  BY <1>31 DEF vars
<1>32. QED
  BY <1>1, <1>2, <1>3, <1>4, <1>5, <1>6, <1>7, <1>8, <1>9, <1>10, <1>11, <1>12, <1>13, <1>14, <1>15, <1>16, <1>17, <1>18, <1>19, <1>20, <1>21, <1>22, <1>23, <1>24, <1>25, <1>26, <1>27, <1>28, <1>29, <1>30, <1>31
     DEF Next, Request, Ingest, AnalyzeRequest, ProcessDocument, Fault

-----------------------------------------------------------------------------
(* What the run of a document finds: the chunk rows come from one run, and   *)
(* either none of them or all of them are embedded.                          *)

OneWriter == \A d \in Docs : \A row, other \in chunks[d] : row[2] = other[2]

EmbeddedWhole == \A d \in Docs : embedded[d] = {} \/ embedded[d] = chunks[d]

StagesOfARun == \A r \in Runs :
  /\ pc[r] = "cutting" => chunks[doc[r]] = {}
  /\ pc[r] \in SnapshotTaken => snapshot[r] = chunks[doc[r]]
  /\ pc[r] \in EmbeddingsDone => embedded[doc[r]] = chunks[doc[r]]

StageInv == OneWriter /\ EmbeddedWhole /\ StagesOfARun /\ ReadyIsComplete

\* Adding a set to none of it, or to all of it, gives the set.
LEMMA AllOrNothing == \A part, all : part = {} \/ part = all => part \union all = all
OBVIOUS

\* In serial use a step keeps StageInv.
LEMMA StepStages ==
  ASSUME Serial
  PROVE  TypeOK /\ TurnInv /\ StageInv /\ [Next]_vars => StageInv'
<1> SUFFICES ASSUME TypeOK, TurnInv, StageInv, [Next]_vars PROVE StageInv'
  OBVIOUS
<1> USE ConstantsAssumption
    DEF Serial, TypeOK, TurnInv, OneRunOfADocument, StatusOfARun, StageInv, OneWriter,
        EmbeddedWhole, StagesOfARun, ReadyIsComplete, SnapshotTaken, EmbeddingsDone,
        dbVars, runVars, Goto, SetStatus, Alive, Changes, Statuses, RequestSteps, TaskSteps
<1>1. ASSUME NEW m \in Matters, CreateMatter(m) PROVE StageInv'
  BY <1>1 DEF CreateMatter
<1>2. ASSUME NEW m \in Matters, UpdateMatter(m) PROVE StageInv'
  BY <1>2 DEF UpdateMatter
<1>3. ASSUME NEW d \in Docs, QuickUpload(d) PROVE StageInv'
  BY <1>3 DEF QuickUpload
<1>4. ASSUME NEW d \in Docs, UploadDocument(d) PROVE StageInv'
  BY <1>4 DEF UploadDocument
<1>5. ASSUME NEW d \in Docs, IngestStore(d) PROVE StageInv'
  BY <1>5 DEF IngestStore
<1>6. ASSUME NEW d \in Docs, IngestCommit(d) PROVE StageInv'
  BY <1>6 DEF IngestCommit
<1>7. ASSUME NEW d \in Docs, IngestDispatch(d) PROVE StageInv'
  BY <1>7 DEF IngestDispatch
<1>8. ASSUME NEW d \in Docs, UploadFails(d) PROVE StageInv'
  BY <1>8 DEF UploadFails
<1>9. ASSUME NEW r \in Runs, NEW d \in Docs, AnalyzeLoad(r, d) PROVE StageInv'
  BY <1>9 DEF AnalyzeLoad
<1>10. ASSUME NEW r \in Runs, AnalyzeCommit(r) PROVE StageInv'
  BY <1>10 DEF AnalyzeCommit, Step
<1>11. ASSUME NEW r \in Runs, AnalyzeDispatch(r) PROVE StageInv'
  BY <1>11 DEF AnalyzeDispatch, Step
<1>12. ASSUME NEW r \in Runs, AnalyzeFails(r) PROVE StageInv'
  BY <1>12 DEF AnalyzeFails, Step
<1>13. ASSUME NEW r \in Runs, ExtractRead(r) PROVE StageInv'
  BY <1>13 DEF ExtractRead, Step
<1>14. ASSUME NEW r \in Runs, ExtractCheck(r) PROVE StageInv'
  BY <1>14 DEF ExtractCheck, Step
<1>15. ASSUME NEW r \in Runs, ExtractInsert(r) PROVE StageInv'
  BY <1>15 DEF ExtractInsert, Step
<1>16. ASSUME NEW r \in Runs, ExtractConflict(r) PROVE StageInv'
  BY <1>16 DEF ExtractConflict, Step
<1>17. ASSUME NEW r \in Runs, ChunksCheck(r) PROVE StageInv'
  BY <1>17 DEF ChunksCheck, Step
<1>18. ASSUME NEW r \in Runs, ChunksInsert(r) PROVE StageInv'
  BY <1>18 DEF ChunksInsert, Step
<1>19. ASSUME NEW r \in Runs, EmbeddingsLoad(r) PROVE StageInv'
  <2>1. /\ pc[r] = "loadingChunks" /\ doc[r] \in Docs
        /\ UNCHANGED <<status, chunks, embedded, doc>>
    BY <1>19 DEF EmbeddingsLoad, Step
  <2>2. /\ snapshot'[r] = chunks[doc[r]]
        /\ \/ chunks[doc[r]] = {} /\ pc'[r] = "analyzing"
           \/ pc'[r] = "checking"
    BY <1>19 DEF EmbeddingsLoad, Step
  <2>3. \A q \in Runs : q # r => pc'[q] = pc[q] /\ snapshot'[q] = snapshot[q]
    BY <1>19 DEF EmbeddingsLoad, Step
  <2>4. StagesOfARun'
    <3>1. SUFFICES ASSUME NEW q \in Runs PROVE StagesOfARun!(q)'
      BY DEF StagesOfARun
    <3>2. CASE q = r
      BY <2>1, <2>2, <3>2
    <3>3. CASE q # r
      BY <2>1, <2>3, <3>3
    <3>4. QED
      BY <3>2, <3>3
  <2>5. OneWriter' /\ EmbeddedWhole' /\ ReadyIsComplete'
    BY <2>1
  <2>6. QED
    BY <2>4, <2>5
<1>20. ASSUME NEW r \in Runs, EmbeddingsCheck(r) PROVE StageInv'
  BY <1>20 DEF EmbeddingsCheck, Step
<1>21. ASSUME NEW r \in Runs, EmbeddingsInsert(r) PROVE StageInv'
  <2> DEFINE d == doc[r]
  <2>1. /\ pc[r] = "embedding" /\ pc'[r] = "analyzing" /\ d \in Docs
        /\ UNCHANGED <<status, chunks, doc>>
    BY <1>21 DEF EmbeddingsInsert, Step
  <2>2. snapshot[r] = chunks[d]
    BY <2>1
  <2>3. embedded'[d] = chunks[d]
    <3>1. embedded'[d] = embedded[d] \union snapshot[r]
      BY <1>21, <2>1 DEF EmbeddingsInsert
    <3>2. embedded[d] = {} \/ embedded[d] = chunks[d]
      BY <2>1 DEF EmbeddedWhole
    <3>3. embedded[d] \union chunks[d] = chunks[d]
      BY <3>2, AllOrNothing
    <3>4. QED
      BY <2>2, <3>1, <3>3
  <2>4. \A e \in Docs : e # d => embedded'[e] = embedded[e]
    BY <1>21, <2>1 DEF EmbeddingsInsert
  <2>5. \A q \in Runs : q # r => pc'[q] = pc[q] /\ snapshot'[q] = snapshot[q]
    BY <1>21 DEF EmbeddingsInsert, Step
  <2>6. OneWriter' /\ EmbeddedWhole' /\ ReadyIsComplete'
    <3>1. OneWriter'
      BY <2>1
    <3>2. \A e \in Docs : embedded'[e] = embedded[e] \/ embedded'[e] = chunks'[e]
      BY <2>1, <2>3, <2>4
    <3>3. QED
      BY <2>1, <3>1, <3>2
  <2>7. StagesOfARun'
    <3>1. SUFFICES ASSUME NEW q \in Runs PROVE StagesOfARun!(q)'
      BY DEF StagesOfARun
    <3>2. CASE q = r
      BY <2>1, <2>3, <3>2
    <3>3. CASE q # r /\ Alive(q)
      <4>1. doc[q] \in Docs /\ doc[q] # d
        BY <2>1, <3>3
      <4>2. QED
        BY <2>1, <2>4, <2>5, <3>3, <4>1
    <3>4. CASE q # r /\ ~Alive(q)
      BY <2>5, <3>4
    <3>5. QED
      BY <3>2, <3>3, <3>4
  <2>8. QED
    BY <2>6, <2>7
<1>22. ASSUME NEW r \in Runs, EmbeddingsConflict(r) PROVE StageInv'
  BY <1>22 DEF EmbeddingsConflict, Step
<1>23. ASSUME NEW r \in Runs, AnalyzeText(r) PROVE StageInv'
  BY <1>23 DEF AnalyzeText, Step
<1>24. ASSUME NEW r \in Runs, AnalyzeLoadDocument(r) PROVE StageInv'
  BY <1>24 DEF AnalyzeLoadDocument, Step
<1>25. ASSUME NEW r \in Runs, AnalyzeLoadMatter(r) PROVE StageInv'
  BY <1>25 DEF AnalyzeLoadMatter, Step
<1>26. ASSUME NEW r \in Runs, AnalyzeSave(r) PROVE StageInv'
  BY <1>26 DEF AnalyzeSave, Step
<1>27. ASSUME NEW r \in Runs, RunFails(r) PROVE StageInv'
  BY <1>27 DEF RunFails, Step
<1>28. ASSUME NEW r \in Runs, MarkError(r) PROVE StageInv'
  BY <1>28 DEF MarkError, Step
<1>29. ASSUME NEW r \in Runs, MarkErrorFails(r) PROVE StageInv'
  BY <1>29 DEF MarkErrorFails, Step
<1>30. CASE Crash
  BY <1>30 DEF Crash
<1>31. CASE UNCHANGED vars
  BY <1>31 DEF vars
<1>32. QED
  BY <1>1, <1>2, <1>3, <1>4, <1>5, <1>6, <1>7, <1>8, <1>9, <1>10, <1>11, <1>12, <1>13, <1>14, <1>15, <1>16, <1>17, <1>18, <1>19, <1>20, <1>21, <1>22, <1>23, <1>24, <1>25, <1>26, <1>27, <1>28, <1>29, <1>30, <1>31
     DEF Next, Request, Ingest, AnalyzeRequest, ProcessDocument, Fault

\* In serial use the invariants hold in every state.
LEMMA SerialInvariants ==
  ASSUME Serial
  PROVE  Spec => [](TypeOK /\ TurnInv /\ StageInv)
<1>1. Init => TypeOK /\ TurnInv /\ StageInv
  <2>1. Init => TypeOK
    BY ConstantsAssumption
       DEF Init, TypeOK, Alive, Changes, Statuses, UploadSteps, RunSteps, RequestSteps, TaskSteps
  <2>2. Init => TurnInv
    BY DEF Init, TurnInv, OneRunOfADocument, NoRunBeforeTheAnswer, UploadedStatus,
           StatusOfARun, Unanswered, Alive, RequestSteps, TaskSteps
  <2>3. Init => StageInv
    BY DEF Init, StageInv, OneWriter, EmbeddedWhole, StagesOfARun, ReadyIsComplete,
           SnapshotTaken, EmbeddingsDone
  <2>4. QED
    BY <2>1, <2>2, <2>3
<1>2. TypeOK /\ TurnInv /\ StageInv /\ [Next]_vars => (TypeOK /\ TurnInv /\ StageInv)'
  BY StepType, StepTurn, StepStages
<1>3. QED
  BY <1>1, <1>2, PTL DEF Spec

\* No key of a document has two chunk rows in serial use: _create_chunks finds
\* whatever an earlier run committed, crashes and failures included
\* (pipeline.py:124-128).
THEOREM NoDuplicatesSafety ==
  ASSUME Serial
  PROVE  Spec => []NoDuplicateChunks
<1>1. TypeOK /\ StageInv => NoDuplicateChunks
  <2>1. SUFFICES ASSUME TypeOK, StageInv, NEW d \in Docs,
                        NEW row \in chunks[d], NEW other \in chunks[d],
                        row[1] = other[1]
                 PROVE  row = other
    BY DEF NoDuplicateChunks
  <2>2. row \in (Nat \X Nat) \X Runs /\ other \in (Nat \X Nat) \X Runs
    BY <2>1 DEF TypeOK
  <2>3. row[2] = other[2]
    BY <2>1 DEF StageInv, OneWriter
  <2>4. QED
    BY <2>1, <2>2, <2>3
<1>2. QED
  BY <1>1, SerialInvariants, PTL

\* Every chunk row of a READY document has its embedding in serial use
\* (pipeline.py:184-189).
THEOREM CompleteSafety ==
  ASSUME Serial
  PROVE  Spec => []ReadyIsComplete
<1>1. StageInv => ReadyIsComplete
  BY DEF StageInv
<1>2. QED
  BY <1>1, SerialInvariants, PTL

-----------------------------------------------------------------------------
(* The refinement of DocumentLifecycle *)

LifecycleStep == [Lifecycle!Next]_(Lifecycle!vars)

\* In serial use a run's write of a status or of embeddings is a move of the
\* phase of its document.
LEMMA WritesLifecycle ==
  ASSUME Serial, TypeOK, TurnInv, ReadyIsSearchable', NEW r \in Runs, Writes(r)
  PROVE  LifecycleStep
<1> USE DEF Found
<1>1. doc[r] \in Docs
  BY DEF TypeOK, Writes, AnalyzeCommit, ExtractInsert, EmbeddingsInsert, AnalyzeSave,
         MarkError, Step, Alive, RequestSteps, TaskSteps
<1>2. ~AnalyzeCommit(r) => status[doc[r]] = "PROCESSING"
  BY DEF TurnInv, StatusOfARun, Writes, ExtractInsert, EmbeddingsInsert, AnalyzeSave,
         MarkError, Step, TaskSteps
<1>3. CASE UNCHANGED <<status, embedded>>
  BY <1>3, SameFound DEF LifecycleStep, Lifecycle!vars
<1>4. CASE AnalyzeCommit(r) /\ dirty[r] = "status"
  <2>1. /\ status[doc[r]] \in {"READY", "ERROR"}
        /\ status' = [status EXCEPT ![doc[r]] = "PROCESSING"]
        /\ UNCHANGED embedded
    BY <1>4 DEF AnalyzeCommit, TurnInv, StatusOfARun
  <2>2. Lifecycle!Reprocess(doc[r])
    BY <1>1, <2>1, SameFound DEF Lifecycle!Reprocess, Lifecycle!Move
  <2>3. QED
    BY <1>1, <2>2 DEF LifecycleStep, Lifecycle!Next
<1>5. CASE ExtractInsert(r)
  <2>1. UNCHANGED <<status, embedded>>
    BY <1>1, <1>2, <1>5 DEF ExtractInsert, AnalyzeCommit, Step, SetStatus, TypeOK
  <2>2. QED
    BY <1>3, <2>1
<1>6. CASE EmbeddingsInsert(r)
  <2>1. status[doc[r]] = "PROCESSING" /\ UNCHANGED status
    BY <1>2, <1>6 DEF EmbeddingsInsert, AnalyzeCommit, Step
  <2>2. CASE Found' = Found
    BY <2>1, <2>2 DEF LifecycleStep, Lifecycle!vars
  <2>3. CASE Found' = Found \union {doc[r]}
    <3>1. Lifecycle!MakeSearchable(doc[r])
      BY <1>1, <2>1, <2>3 DEF Lifecycle!MakeSearchable
    <3>2. QED
      BY <1>1, <3>1 DEF LifecycleStep, Lifecycle!Next
  <2>4. QED
    BY <1>6, <2>2, <2>3, EmbeddingsAdd
<1>7. CASE AnalyzeSave(r) /\ dirty[r] = "status"
  <2>1. /\ status[doc[r]] = "PROCESSING"
        /\ status' = [status EXCEPT ![doc[r]] = "READY"]
        /\ UNCHANGED embedded
    BY <1>2, <1>7 DEF AnalyzeSave, AnalyzeCommit, Step
  <2>2. status'[doc[r]] = "READY"
    BY <1>1, <2>1 DEF TypeOK
  <2>3. doc[r] \in Found
    BY <1>1, <2>1, <2>2 DEF ReadyIsSearchable, Searchable
  <2>4. Lifecycle!Succeed(doc[r])
    BY <1>1, <2>1, <2>3, SameFound DEF Lifecycle!Succeed, Lifecycle!Move
  <2>5. QED
    BY <1>1, <2>4 DEF LifecycleStep, Lifecycle!Next
<1>8. CASE MarkError(r)
  <2>1. Lifecycle!Fail(doc[r])
    BY <1>1, <1>2, <1>8, SameFound
       DEF MarkError, AnalyzeCommit, Step, SetStatus, Lifecycle!Fail, Lifecycle!Move
  <2>2. QED
    BY <1>1, <2>1 DEF LifecycleStep, Lifecycle!Next
<1>9. QED
  BY <1>3, <1>4, <1>5, <1>6, <1>7, <1>8 DEF Writes, AnalyzeCommit, AnalyzeSave

\* In serial use every step is one of the lifecycle or a stutter.
LEMMA StepLifecycle ==
  ASSUME Serial, TypeOK, TurnInv, ReadyIsSearchable', [Next]_vars
  PROVE  LifecycleStep
<1> USE DEF Found
<1>1. CASE UNCHANGED <<status, embedded>>
  BY <1>1, SameFound DEF LifecycleStep, Lifecycle!vars
<1>2. ASSUME NEW d \in Docs, IngestCommit(d) PROVE LifecycleStep
  <2>1. status[d] = "absent" /\ UNCHANGED embedded
    BY <1>2 DEF IngestCommit, TurnInv, UploadedStatus, Unanswered
  <2>2. Lifecycle!Submit(d)
    BY <1>2, <2>1, SameFound DEF IngestCommit, SetStatus, Lifecycle!Submit, Lifecycle!Move
  <2>3. QED
    BY <2>2 DEF LifecycleStep, Lifecycle!Next
<1>3. QED
  BY <1>1, <1>2, QuietSteps, WritesLifecycle

\* The status clients poll behaves as DocumentLifecycle says in serial use:
\* READY comes only after all of the text can be found, and a settled document
\* moves only because of another analyze (pipeline.py:258-277, router.py:237-250).
THEOREM LifecycleRefinement ==
  ASSUME Serial
  PROVE  Spec => ImplementsLifecycle
<1>1. Init => Lifecycle!Init
  BY DEF Init, Lifecycle!Init, Searchable, KeysOf
<1>2. TypeOK /\ TurnInv /\ StageInv /\ ReadyIsSearchable' /\ [Next]_vars
        => [Lifecycle!Next]_(Lifecycle!vars)
  BY StepLifecycle DEF LifecycleStep
<1>3. QED
  BY <1>1, <1>2, SerialInvariants, SearchSafety, PTL DEF Spec, ImplementsLifecycle, Lifecycle!Spec

=============================================================================
