----------------------- MODULE DocumentPipelineProofs -----------------------
(***************************************************************************)
(* Theorems about DocumentPipeline, for every value of its constants.      *)
(***************************************************************************)
EXTENDS DocumentPipeline, TLAPS

\* The chunk keys of a document are pairs of page and position.
LEMMA KeysType ==
  ASSUME NEW d \in Docs
  PROVE  Keys(d) \subseteq Nat \X Nat
  BY ConstantsAssumption DEF Keys

\* A step keeps the type of every variable: one step of the proof per action.
LEMMA StepType == TypeOK /\ [Next]_vars => TypeOK'
<1> SUFFICES ASSUME TypeOK, [Next]_vars PROVE TypeOK'
  OBVIOUS
<1> USE ConstantsAssumption
    DEF TypeOK, dbVars, runVars, Goto, SetStatus, Alive, Changes, Statuses, UploadSteps,
        RunSteps, RequestSteps, TaskSteps
<1>1. ASSUME NEW m \in Matters, CreateMatter(m) PROVE TypeOK'
  BY <1>1 DEF CreateMatter
<1>2. ASSUME NEW m \in Matters, UpdateMatter(m) PROVE TypeOK'
  BY <1>2 DEF UpdateMatter
<1>3. ASSUME NEW d \in Docs, QuickUpload(d) PROVE TypeOK'
  BY <1>3 DEF QuickUpload
<1>4. ASSUME NEW d \in Docs, UploadDocument(d) PROVE TypeOK'
  BY <1>4 DEF UploadDocument
<1>5. ASSUME NEW d \in Docs, IngestStore(d) PROVE TypeOK'
  BY <1>5 DEF IngestStore
<1>6. ASSUME NEW d \in Docs, IngestCommit(d) PROVE TypeOK'
  BY <1>6 DEF IngestCommit
<1>7. ASSUME NEW d \in Docs, IngestDispatch(d) PROVE TypeOK'
  BY <1>7 DEF IngestDispatch
<1>8. ASSUME NEW d \in Docs, UploadFails(d) PROVE TypeOK'
  BY <1>8 DEF UploadFails
<1>9. ASSUME NEW r \in Runs, NEW d \in Docs, AnalyzeLoad(r, d) PROVE TypeOK'
  BY <1>9 DEF AnalyzeLoad
<1>10. ASSUME NEW r \in Runs, AnalyzeCommit(r) PROVE TypeOK'
  BY <1>10 DEF AnalyzeCommit, Step
<1>11. ASSUME NEW r \in Runs, AnalyzeDispatch(r) PROVE TypeOK'
  BY <1>11 DEF AnalyzeDispatch, Step
<1>12. ASSUME NEW r \in Runs, AnalyzeFails(r) PROVE TypeOK'
  BY <1>12 DEF AnalyzeFails, Step
<1>13. ASSUME NEW r \in Runs, ExtractRead(r) PROVE TypeOK'
  BY <1>13 DEF ExtractRead, Step
<1>14. ASSUME NEW r \in Runs, ExtractCheck(r) PROVE TypeOK'
  BY <1>14 DEF ExtractCheck, Step
<1>15. ASSUME NEW r \in Runs, ExtractInsert(r) PROVE TypeOK'
  BY <1>15 DEF ExtractInsert, Step
<1>16. ASSUME NEW r \in Runs, ExtractConflict(r) PROVE TypeOK'
  BY <1>16 DEF ExtractConflict, Step
<1>17. ASSUME NEW r \in Runs, ChunksCheck(r) PROVE TypeOK'
  BY <1>17 DEF ChunksCheck, Step
<1>18. ASSUME NEW r \in Runs, ChunksInsert(r) PROVE TypeOK'
  BY <1>18, KeysType DEF ChunksInsert, Step
<1>19. ASSUME NEW r \in Runs, EmbeddingsLoad(r) PROVE TypeOK'
  BY <1>19 DEF EmbeddingsLoad, Step
<1>20. ASSUME NEW r \in Runs, EmbeddingsCheck(r) PROVE TypeOK'
  BY <1>20 DEF EmbeddingsCheck, Step
<1>21. ASSUME NEW r \in Runs, EmbeddingsInsert(r) PROVE TypeOK'
  BY <1>21 DEF EmbeddingsInsert, Step
<1>22. ASSUME NEW r \in Runs, EmbeddingsConflict(r) PROVE TypeOK'
  BY <1>22 DEF EmbeddingsConflict, Step
<1>23. ASSUME NEW r \in Runs, AnalyzeText(r) PROVE TypeOK'
  BY <1>23 DEF AnalyzeText, Step
<1>24. ASSUME NEW r \in Runs, AnalyzeLoadDocument(r) PROVE TypeOK'
  BY <1>24 DEF AnalyzeLoadDocument, Step
<1>25. ASSUME NEW r \in Runs, AnalyzeLoadMatter(r) PROVE TypeOK'
  BY <1>25 DEF AnalyzeLoadMatter, Step
<1>26. ASSUME NEW r \in Runs, AnalyzeSave(r) PROVE TypeOK'
  BY <1>26 DEF AnalyzeSave, Step
<1>27. ASSUME NEW r \in Runs, RunFails(r) PROVE TypeOK'
  BY <1>27 DEF RunFails, Step
<1>28. ASSUME NEW r \in Runs, MarkError(r) PROVE TypeOK'
  BY <1>28 DEF MarkError, Step
<1>29. ASSUME NEW r \in Runs, MarkErrorFails(r) PROVE TypeOK'
  BY <1>29 DEF MarkErrorFails, Step
<1>30. CASE Crash
  BY <1>30 DEF Crash
<1>31. CASE UNCHANGED vars
  BY <1>31 DEF vars
<1>32. QED
  BY <1>1, <1>2, <1>3, <1>4, <1>5, <1>6, <1>7, <1>8, <1>9, <1>10, <1>11, <1>12, <1>13, <1>14, <1>15, <1>16, <1>17, <1>18, <1>19, <1>20, <1>21, <1>22, <1>23, <1>24, <1>25, <1>26, <1>27, <1>28, <1>29, <1>30, <1>31
     DEF Next, Request, Ingest, AnalyzeRequest, ProcessDocument, Fault

\* Type correctness, for any documents, matters, runs, faults and crashes.
THEOREM TypeCorrect == Spec => []TypeOK
<1>1. Init => TypeOK
  BY ConstantsAssumption
     DEF Init, TypeOK, Alive, Changes, Statuses, UploadSteps, RunSteps, RequestSteps, TaskSteps
<1>2. QED
  BY <1>1, StepType, PTL DEF Spec

-----------------------------------------------------------------------------
(* ReadyIsSearchable.  The stages commit all or nothing, so a row of a stage *)
(* stands for the whole stage: that is what the early returns rely on.       *)

PagesDone == {"chunking", "cutting"}
ChunksDone == {"loadingChunks", "checking", "embedding"}
SnapshotTaken == {"checking", "embedding"}
EmbeddingsDone == {"analyzing", "saving", "flushing", "committing"}

\* One chunk row means chunk rows for all of the document, and so for embeddings.
ChunksAllOrNone == \A d \in Docs : chunks[d] # {} => Keys(d) \subseteq KeysOf(chunks[d])
EmbeddedAllOrNone == \A d \in Docs : embedded[d] # {} => Searchable(d)

\* What a run has behind it when it is at a step.
StagesDone == \A r \in Runs :
  /\ pc[r] \in PagesDone => doc[r] \in paged \/ Pages[doc[r]] = <<>>
  /\ pc[r] \in ChunksDone => Keys(doc[r]) \subseteq KeysOf(chunks[doc[r]])
  /\ pc[r] \in SnapshotTaken => Keys(doc[r]) \subseteq KeysOf(snapshot[r])
  /\ pc[r] \in EmbeddingsDone => Searchable(doc[r])

SearchInv == ChunksAllOrNone /\ EmbeddedAllOrNone /\ StagesDone /\ ReadyIsSearchable

\* KeysOf distributes over unions of chunk rows.
LEMMA KeysOfUnion ==
  ASSUME NEW A, NEW B
  PROVE  KeysOf(A \union B) = KeysOf(A) \union KeysOf(B)
  BY DEF KeysOf

\* A full set of rows written by one run stands for all its keys.
LEMMA KeysOfProduct ==
  ASSUME NEW K, NEW r
  PROVE  K \subseteq KeysOf(K \X {r})
<1> SUFFICES ASSUME NEW k \in K PROVE k \in KeysOf(K \X {r})
  OBVIOUS
<1>1. <<k, r>> \in K \X {r} /\ <<k, r>>[1] = k
  OBVIOUS
<1>2. QED
  BY <1>1 DEF KeysOf

\* A step keeps the strengthening SearchInv.
LEMMA StepSearch == TypeOK /\ SearchInv /\ [Next]_vars => SearchInv'
<1> SUFFICES ASSUME TypeOK, SearchInv, [Next]_vars PROVE SearchInv'
  OBVIOUS
<1> USE ConstantsAssumption
    DEF TypeOK, SearchInv, ChunksAllOrNone, EmbeddedAllOrNone, StagesDone,
        ReadyIsSearchable, Searchable, PagesDone, ChunksDone, SnapshotTaken,
        EmbeddingsDone, dbVars, runVars, Goto, SetStatus, Alive, RequestSteps, TaskSteps
<1>1. ASSUME NEW m \in Matters, CreateMatter(m) PROVE SearchInv'
  BY <1>1 DEF CreateMatter
<1>2. ASSUME NEW m \in Matters, UpdateMatter(m) PROVE SearchInv'
  BY <1>2 DEF UpdateMatter
<1>3. ASSUME NEW d \in Docs, QuickUpload(d) PROVE SearchInv'
  BY <1>3 DEF QuickUpload
<1>4. ASSUME NEW d \in Docs, UploadDocument(d) PROVE SearchInv'
  BY <1>4 DEF UploadDocument
<1>5. ASSUME NEW d \in Docs, IngestStore(d) PROVE SearchInv'
  BY <1>5 DEF IngestStore
<1>6. ASSUME NEW d \in Docs, IngestCommit(d) PROVE SearchInv'
  BY <1>6 DEF IngestCommit
<1>7. ASSUME NEW d \in Docs, IngestDispatch(d) PROVE SearchInv'
  BY <1>7 DEF IngestDispatch
<1>8. ASSUME NEW d \in Docs, UploadFails(d) PROVE SearchInv'
  BY <1>8 DEF UploadFails
<1>9. ASSUME NEW r \in Runs, NEW d \in Docs, AnalyzeLoad(r, d) PROVE SearchInv'
  BY <1>9 DEF AnalyzeLoad
<1>10. ASSUME NEW r \in Runs, AnalyzeCommit(r) PROVE SearchInv'
  BY <1>10 DEF AnalyzeCommit, Step
<1>11. ASSUME NEW r \in Runs, AnalyzeDispatch(r) PROVE SearchInv'
  BY <1>11 DEF AnalyzeDispatch, Step
<1>12. ASSUME NEW r \in Runs, AnalyzeFails(r) PROVE SearchInv'
  BY <1>12 DEF AnalyzeFails, Step
<1>13. ASSUME NEW r \in Runs, ExtractRead(r) PROVE SearchInv'
  BY <1>13 DEF ExtractRead, Step
<1>14. ASSUME NEW r \in Runs, ExtractCheck(r) PROVE SearchInv'
  BY <1>14 DEF ExtractCheck, Step
<1>15. ASSUME NEW r \in Runs, ExtractInsert(r) PROVE SearchInv'
  BY <1>15 DEF ExtractInsert, Step
<1>16. ASSUME NEW r \in Runs, ExtractConflict(r) PROVE SearchInv'
  BY <1>16 DEF ExtractConflict, Step
<1>17. ASSUME NEW r \in Runs, ChunksCheck(r) PROVE SearchInv'
  BY <1>17 DEF ChunksCheck, Step
<1>18. ASSUME NEW r \in Runs, ChunksInsert(r) PROVE SearchInv'
  <2> DEFINE d == doc[r]
  <2>1. d \in Docs /\ Keys(d) \subseteq KeysOf(chunks'[d])
    <3>1. d \in Docs /\ pc[r] = "cutting"
      BY <1>18 DEF ChunksInsert, Step
    <3>2. CASE d \in paged
      <4>1. chunks'[d] = chunks[d] \union (Keys(d) \X {r})
        BY <1>18, <3>1, <3>2 DEF ChunksInsert
      <4>2. QED
        <5>1. KeysOf(chunks'[d]) = KeysOf(chunks[d]) \union KeysOf(Keys(d) \X {r})
          BY <4>1, KeysOfUnion
        <5>2. Keys(d) \subseteq KeysOf(Keys(d) \X {r})
          BY KeysOfProduct
        <5>3. QED
          BY <3>1, <5>1, <5>2
    <3>3. CASE d \notin paged
      BY <3>1, <3>3 DEF Keys
    <3>4. QED
      BY <3>2, <3>3
  <2>2. \A e \in Docs : e # d => chunks'[e] = chunks[e]
    BY <1>18, <2>1 DEF ChunksInsert
  <2>3. UNCHANGED <<status, embedded, paged, snapshot, doc>>
    BY <1>18 DEF ChunksInsert, Step
  <2>4. \A q \in Runs : pc'[q] = pc[q] \/ (q = r /\ pc'[q] = "loadingChunks")
    BY <1>18 DEF ChunksInsert, Step
  <2>5. ChunksAllOrNone' /\ EmbeddedAllOrNone' /\ ReadyIsSearchable'
    BY <2>1, <2>2, <2>3
  <2>6. StagesDone'
    <3>1. SUFFICES ASSUME NEW q \in Runs PROVE StagesDone!(q)'
      BY DEF StagesDone
    <3>2. CASE q = r
      BY <2>1, <2>3, <2>4, <3>2
    <3>3. CASE q # r /\ doc[q] = d
      BY <2>1, <2>3, <2>4, <3>3
    <3>4. CASE q # r /\ doc[q] # d
      BY <2>2, <2>3, <2>4, <3>4
    <3>5. QED
      BY <3>2, <3>3, <3>4
  <2>7. QED
    BY <2>5, <2>6
<1>19. ASSUME NEW r \in Runs, EmbeddingsLoad(r) PROVE SearchInv'
  BY <1>19 DEF EmbeddingsLoad, Step
<1>20. ASSUME NEW r \in Runs, EmbeddingsCheck(r) PROVE SearchInv'
  BY <1>20 DEF EmbeddingsCheck, Step
<1>21. ASSUME NEW r \in Runs, EmbeddingsInsert(r) PROVE SearchInv'
  <2> DEFINE d == doc[r]
  <2>1. d \in Docs /\ pc[r] = "embedding"
    BY <1>21 DEF EmbeddingsInsert, Step
  <2>2. embedded'[d] = embedded[d] \union snapshot[r]
    BY <1>21, <2>1 DEF EmbeddingsInsert
  <2>3. Keys(d) \subseteq KeysOf(embedded'[d])
    <3>1. KeysOf(embedded'[d]) = KeysOf(embedded[d]) \union KeysOf(snapshot[r])
      BY <2>2, KeysOfUnion
    <3>2. QED
      BY <2>1, <3>1
  <2>4. \A e \in Docs : e # d => embedded'[e] = embedded[e]
    BY <1>21, <2>1 DEF EmbeddingsInsert
  <2>5. UNCHANGED <<status, chunks, paged, doc>>
    BY <1>21 DEF EmbeddingsInsert, Step
  <2>6. \A q \in Runs : \/ pc'[q] = pc[q] /\ snapshot'[q] = snapshot[q]
                        \/ q = r /\ pc'[q] = "analyzing"
    BY <1>21 DEF EmbeddingsInsert, Step
  <2>7. ChunksAllOrNone' /\ EmbeddedAllOrNone' /\ ReadyIsSearchable'
    BY <2>3, <2>4, <2>5
  <2>8. StagesDone'
    <3>1. SUFFICES ASSUME NEW q \in Runs PROVE StagesDone!(q)'
      BY DEF StagesDone
    <3>2. CASE q = r
      BY <2>3, <2>5, <2>6, <3>2
    <3>3. CASE q # r /\ doc[q] = d
      BY <2>3, <2>5, <2>6, <3>3
    <3>4. CASE q # r /\ doc[q] # d
      BY <2>4, <2>5, <2>6, <3>4
    <3>5. QED
      BY <3>2, <3>3, <3>4
  <2>9. QED
    BY <2>7, <2>8
<1>22. ASSUME NEW r \in Runs, EmbeddingsConflict(r) PROVE SearchInv'
  BY <1>22 DEF EmbeddingsConflict, Step
<1>23. ASSUME NEW r \in Runs, AnalyzeText(r) PROVE SearchInv'
  BY <1>23 DEF AnalyzeText, Step
<1>24. ASSUME NEW r \in Runs, AnalyzeLoadDocument(r) PROVE SearchInv'
  BY <1>24 DEF AnalyzeLoadDocument, Step
<1>25. ASSUME NEW r \in Runs, AnalyzeLoadMatter(r) PROVE SearchInv'
  BY <1>25 DEF AnalyzeLoadMatter, Step
<1>26. ASSUME NEW r \in Runs, AnalyzeSave(r) PROVE SearchInv'
  BY <1>26 DEF AnalyzeSave, Step
<1>27. ASSUME NEW r \in Runs, RunFails(r) PROVE SearchInv'
  BY <1>27 DEF RunFails, Step
<1>28. ASSUME NEW r \in Runs, MarkError(r) PROVE SearchInv'
  BY <1>28 DEF MarkError, Step
<1>29. ASSUME NEW r \in Runs, MarkErrorFails(r) PROVE SearchInv'
  BY <1>29 DEF MarkErrorFails, Step
<1>30. CASE Crash
  BY <1>30 DEF Crash
<1>31. CASE UNCHANGED vars
  BY <1>31 DEF vars
<1>32. QED
  BY <1>1, <1>2, <1>3, <1>4, <1>5, <1>6, <1>7, <1>8, <1>9, <1>10, <1>11, <1>12, <1>13, <1>14, <1>15, <1>16, <1>17, <1>18, <1>19, <1>20, <1>21, <1>22, <1>23, <1>24, <1>25, <1>26, <1>27, <1>28, <1>29, <1>30, <1>31
     DEF Next, Request, Ingest, AnalyzeRequest, ProcessDocument, Fault

\* Whatever overlaps, fails or is cut off: READY means searchable.
THEOREM SearchSafety == Spec => []ReadyIsSearchable
<1>1. Init => SearchInv
  BY DEF Init, SearchInv, ChunksAllOrNone, EmbeddedAllOrNone, StagesDone,
         ReadyIsSearchable, PagesDone, ChunksDone, SnapshotTaken, EmbeddingsDone
<1>2. SearchInv => ReadyIsSearchable
  BY DEF SearchInv
<1>3. QED
  BY <1>1, <1>2, TypeCorrect, StepSearch, PTL DEF Spec

-----------------------------------------------------------------------------
(* RowHasObject *)

\* The file is stored before the row is committed, and only a document with a
\* row is ever processed.
ObjectInv ==
  /\ RowHasObject
  /\ \A d \in Docs : upload[d] \in {"stored", "committed"} => d \in objects
  /\ \A d \in Docs : upload[d] = "committed" => status[d] # "absent"
  /\ \A r \in Runs : Alive(r) => status[doc[r]] # "absent"

\* A step keeps ObjectInv.
LEMMA StepObject == TypeOK /\ ObjectInv /\ [Next]_vars => ObjectInv'
<1> SUFFICES ASSUME TypeOK, ObjectInv, [Next]_vars PROVE ObjectInv'
  OBVIOUS
<1> USE ConstantsAssumption
    DEF TypeOK, ObjectInv, RowHasObject, dbVars, runVars, Goto, SetStatus, Alive,
        RequestSteps, TaskSteps
<1>1. ASSUME NEW m \in Matters, CreateMatter(m) PROVE ObjectInv'
  BY <1>1 DEF CreateMatter
<1>2. ASSUME NEW m \in Matters, UpdateMatter(m) PROVE ObjectInv'
  BY <1>2 DEF UpdateMatter
<1>3. ASSUME NEW d \in Docs, QuickUpload(d) PROVE ObjectInv'
  BY <1>3 DEF QuickUpload
<1>4. ASSUME NEW d \in Docs, UploadDocument(d) PROVE ObjectInv'
  BY <1>4 DEF UploadDocument
<1>5. ASSUME NEW d \in Docs, IngestStore(d) PROVE ObjectInv'
  BY <1>5 DEF IngestStore
<1>6. ASSUME NEW d \in Docs, IngestCommit(d) PROVE ObjectInv'
  BY <1>6 DEF IngestCommit
<1>7. ASSUME NEW d \in Docs, IngestDispatch(d) PROVE ObjectInv'
  BY <1>7 DEF IngestDispatch
<1>8. ASSUME NEW d \in Docs, UploadFails(d) PROVE ObjectInv'
  BY <1>8 DEF UploadFails
<1>9. ASSUME NEW r \in Runs, NEW d \in Docs, AnalyzeLoad(r, d) PROVE ObjectInv'
  BY <1>9 DEF AnalyzeLoad
<1>10. ASSUME NEW r \in Runs, AnalyzeCommit(r) PROVE ObjectInv'
  BY <1>10 DEF AnalyzeCommit, Step
<1>11. ASSUME NEW r \in Runs, AnalyzeDispatch(r) PROVE ObjectInv'
  BY <1>11 DEF AnalyzeDispatch, Step
<1>12. ASSUME NEW r \in Runs, AnalyzeFails(r) PROVE ObjectInv'
  BY <1>12 DEF AnalyzeFails, Step
<1>13. ASSUME NEW r \in Runs, ExtractRead(r) PROVE ObjectInv'
  BY <1>13 DEF ExtractRead, Step
<1>14. ASSUME NEW r \in Runs, ExtractCheck(r) PROVE ObjectInv'
  BY <1>14 DEF ExtractCheck, Step
<1>15. ASSUME NEW r \in Runs, ExtractInsert(r) PROVE ObjectInv'
  BY <1>15 DEF ExtractInsert, Step
<1>16. ASSUME NEW r \in Runs, ExtractConflict(r) PROVE ObjectInv'
  BY <1>16 DEF ExtractConflict, Step
<1>17. ASSUME NEW r \in Runs, ChunksCheck(r) PROVE ObjectInv'
  BY <1>17 DEF ChunksCheck, Step
<1>18. ASSUME NEW r \in Runs, ChunksInsert(r) PROVE ObjectInv'
  BY <1>18 DEF ChunksInsert, Step
<1>19. ASSUME NEW r \in Runs, EmbeddingsLoad(r) PROVE ObjectInv'
  BY <1>19 DEF EmbeddingsLoad, Step
<1>20. ASSUME NEW r \in Runs, EmbeddingsCheck(r) PROVE ObjectInv'
  BY <1>20 DEF EmbeddingsCheck, Step
<1>21. ASSUME NEW r \in Runs, EmbeddingsInsert(r) PROVE ObjectInv'
  BY <1>21 DEF EmbeddingsInsert, Step
<1>22. ASSUME NEW r \in Runs, EmbeddingsConflict(r) PROVE ObjectInv'
  BY <1>22 DEF EmbeddingsConflict, Step
<1>23. ASSUME NEW r \in Runs, AnalyzeText(r) PROVE ObjectInv'
  BY <1>23 DEF AnalyzeText, Step
<1>24. ASSUME NEW r \in Runs, AnalyzeLoadDocument(r) PROVE ObjectInv'
  BY <1>24 DEF AnalyzeLoadDocument, Step
<1>25. ASSUME NEW r \in Runs, AnalyzeLoadMatter(r) PROVE ObjectInv'
  BY <1>25 DEF AnalyzeLoadMatter, Step
<1>26. ASSUME NEW r \in Runs, AnalyzeSave(r) PROVE ObjectInv'
  BY <1>26 DEF AnalyzeSave, Step
<1>27. ASSUME NEW r \in Runs, RunFails(r) PROVE ObjectInv'
  BY <1>27 DEF RunFails, Step
<1>28. ASSUME NEW r \in Runs, MarkError(r) PROVE ObjectInv'
  BY <1>28 DEF MarkError, Step
<1>29. ASSUME NEW r \in Runs, MarkErrorFails(r) PROVE ObjectInv'
  BY <1>29 DEF MarkErrorFails, Step
<1>30. CASE Crash
  BY <1>30 DEF Crash
<1>31. CASE UNCHANGED vars
  BY <1>31 DEF vars
<1>32. QED
  BY <1>1, <1>2, <1>3, <1>4, <1>5, <1>6, <1>7, <1>8, <1>9, <1>10, <1>11, <1>12, <1>13, <1>14, <1>15, <1>16, <1>17, <1>18, <1>19, <1>20, <1>21, <1>22, <1>23, <1>24, <1>25, <1>26, <1>27, <1>28, <1>29, <1>30, <1>31
     DEF Next, Request, Ingest, AnalyzeRequest, ProcessDocument, Fault

\* A visible document row always has its file.
THEOREM ObjectSafety == Spec => []RowHasObject
<1>1. Init => ObjectInv
  BY DEF Init, ObjectInv, RowHasObject, Alive, RequestSteps, TaskSteps
<1>2. ObjectInv => RowHasObject
  BY DEF ObjectInv
<1>3. QED
  BY <1>1, <1>2, TypeCorrect, StepObject, PTL DEF Spec

-----------------------------------------------------------------------------
(* FirstRunWaits *)

\* The run an upload is going to dispatch has not started.
FirstRunWaits ==
  \A d \in Docs : upload[d] \in {"none", "ingesting", "stored", "committed"}
                    => pc[FirstRun[d]] = "idle"

\* Only the dispatch of an upload starts the run that belongs to it.
LEMMA StepFirstRunWaits == TypeOK /\ FirstRunWaits /\ [Next]_vars => FirstRunWaits'
<1> SUFFICES ASSUME TypeOK, FirstRunWaits, [Next]_vars,
                    NEW d \in Docs, upload'[d] \in {"none", "ingesting", "stored", "committed"}
             PROVE  pc'[FirstRun[d]] = "idle"
  BY DEF FirstRunWaits
<1> DEFINE Goal == pc'[FirstRun[d]] = "idle"
<1> USE ConstantsAssumption
    DEF TypeOK, FirstRunWaits, dbVars, runVars, Goto, Step, Alive, RequestSteps, TaskSteps
<1>1. CASE Request
  BY <1>1 DEF Request, CreateMatter, UpdateMatter, QuickUpload, UploadDocument, AnalyzeLoad
<1>2. CASE \E e \in Docs : Ingest(e)
  BY <1>2 DEF Ingest, IngestStore, IngestCommit, IngestDispatch
<1>3. CASE \E r \in Runs : AnalyzeRequest(r)
  BY <1>3 DEF AnalyzeRequest, AnalyzeCommit, AnalyzeDispatch
<1>4. ASSUME NEW r \in Runs, ProcessDocument(r) PROVE Goal
  <2>1. UNCHANGED upload /\ pc[r] # "idle" /\ \A q \in Runs : q # r => pc'[q] = pc[q]
    BY <1>4 DEF ProcessDocument, ExtractRead, ExtractCheck, ExtractInsert, ExtractConflict,
                ChunksCheck, ChunksInsert, EmbeddingsLoad, EmbeddingsCheck, EmbeddingsInsert,
                EmbeddingsConflict, AnalyzeText, AnalyzeLoadDocument, AnalyzeLoadMatter,
                AnalyzeSave, MarkError
  <2>2. QED
    BY <2>1
<1>5. CASE Fault
  BY <1>5 DEF Fault, UploadFails, AnalyzeFails, RunFails, MarkErrorFails, Crash
<1>6. CASE UNCHANGED vars
  BY <1>6 DEF vars
<1>7. QED
  BY <1>1, <1>2, <1>3, <1>4, <1>5, <1>6 DEF Next

-----------------------------------------------------------------------------
(* ReanalysisLeavesTitle, for any documents in a matter *)

\* Every run that has begun is of a document whose matter exists.
RunsHaveMatter ==
  /\ \A d \in Docs : upload[d] # "none" \/ status[d] # "absent" => title[MatterOf[d]] # "none"
  /\ \A r \in Runs : pc[r] # "idle" => doc[r] \in Docs /\ title[MatterOf[doc[r]]] # "none"

\* At most one open transaction has updated the row of a document.
RowLock == \A q, r \in Runs : HoldsRow(q) /\ HoldsRow(r) /\ doc[q] = doc[r] => q = r

\* An analysis of document d has been saved.
Analysed(d) == \E q \in Runs : doc[q] = d /\ pc[q] = "done"

\* READY, and a transaction that found no status to change in the document's
\* row, come only after an analysis that was saved.
ReadyIsAnalysed ==
  /\ \A d \in Docs : status[d] = "READY" => Analysed(d)
  /\ \A r \in Runs : pc[r] \in {"flushing", "committing"} /\ dirty[r] # "status" => Analysed(doc[r])

\* The flag does not come back: it is gone once a run was saved or has found
\* it gone.
FlagStaysGone ==
  /\ \A r \in Runs : pc[r] = "done" => ~autoNamed[MatterOf[doc[r]]]
  /\ \A r \in Runs : pc[r] = "committing" /\ ~namedSeen[r] => ~autoNamed[MatterOf[doc[r]]]

OnceInv ==
  /\ FirstRunWaits
  /\ RunsHaveMatter
  /\ RowLock
  /\ ReadyIsAnalysed
  /\ FlagStaysGone
  /\ ReanalysisLeavesTitle

\* The last steps of a run, which OnceInv is about.
Closing(r) == AnalyzeLoadDocument(r) \/ AnalyzeLoadMatter(r) \/ AnalyzeSave(r)

\* All other steps leave the flag alone but for that of a new matter, and take
\* no run to the end of an analysis.
LEMMA NotClosing ==
  ASSUME TypeOK, FirstRunWaits, [Next]_vars, \A r \in Runs : ~Closing(r)
  PROVE  /\ \A r \in Runs : pc'[r] \in {"flushing", "committing"}
              => pc'[r] = pc[r] /\ dirty'[r] = dirty[r] /\ namedSeen'[r] = namedSeen[r]
         /\ \A r \in Runs : pc[r] = "done" <=> pc'[r] = "done"
         /\ \A r \in Runs : pc[r] # "idle" => doc'[r] = doc[r]
         /\ \A d \in Docs : status'[d] = "READY" => status[d] = "READY"
         /\ \/ UNCHANGED autoNamed
            \/ \E d \in Docs : QuickUpload(d)
<1> DEFINE Kept(r) ==
      pc'[r] = pc[r] /\ dirty'[r] = dirty[r] /\ namedSeen'[r] = namedSeen[r]
    Goal ==
      /\ \A r \in Runs : pc'[r] \in {"flushing", "committing"} => Kept(r)
      /\ \A r \in Runs : pc[r] = "done" <=> pc'[r] = "done"
      /\ \A r \in Runs : pc[r] # "idle" => doc'[r] = doc[r]
      /\ \A d \in Docs : status'[d] = "READY" => status[d] = "READY"
      /\ \/ UNCHANGED autoNamed
         \/ \E d \in Docs : QuickUpload(d)
<1> SUFFICES Goal
  OBVIOUS
<1> USE ConstantsAssumption
    DEF TypeOK, dbVars, runVars, Goto, SetStatus, Alive, RequestSteps, TaskSteps, Step
<1>1. CASE Request
  <2>1. CASE \E r \in Runs, d \in Docs : AnalyzeLoad(r, d)
    BY <2>1 DEF AnalyzeLoad
  <2>2. CASE \E d \in Docs : QuickUpload(d)
    BY <2>2 DEF QuickUpload
  <2>3. QED
    BY <1>1, <2>1, <2>2 DEF Request, CreateMatter, UpdateMatter, UploadDocument
<1>2. ASSUME NEW d \in Docs, Ingest(d) PROVE Goal
  <2>1. CASE IngestDispatch(d)
    <3>1. pc[FirstRun[d]] = "idle"
      BY <2>1 DEF IngestDispatch, FirstRunWaits
    <3>2. QED
      BY <2>1, <3>1 DEF IngestDispatch
  <2>2. QED
    BY <1>2, <2>1 DEF Ingest, IngestStore, IngestCommit
<1>3. ASSUME NEW r \in Runs, AnalyzeRequest(r) PROVE Goal
  BY <1>3 DEF AnalyzeRequest, AnalyzeCommit, AnalyzeDispatch
<1>4. ASSUME NEW r \in Runs, ProcessDocument(r) PROVE Goal
  <2>1. CASE ExtractRead(r) \/ ExtractCheck(r) \/ ExtractInsert(r) \/ ExtractConflict(r)
    BY <2>1 DEF ExtractRead, ExtractCheck, ExtractInsert, ExtractConflict
  <2>2. CASE ChunksCheck(r) \/ ChunksInsert(r) \/ AnalyzeText(r) \/ MarkError(r)
    BY <2>2 DEF ChunksCheck, ChunksInsert, AnalyzeText, MarkError
  <2>3. CASE EmbeddingsLoad(r) \/ EmbeddingsCheck(r)
    BY <2>3 DEF EmbeddingsLoad, EmbeddingsCheck
  <2>4. CASE EmbeddingsInsert(r) \/ EmbeddingsConflict(r)
    BY <2>4 DEF EmbeddingsInsert, EmbeddingsConflict
  <2>5. QED
    BY <1>4, <2>1, <2>2, <2>3, <2>4 DEF ProcessDocument, Closing
<1>5. CASE Fault
  <2>1. CASE \E d \in Docs : UploadFails(d)
    BY <2>1 DEF UploadFails
  <2>2. ASSUME NEW r \in Runs, AnalyzeFails(r) \/ RunFails(r) \/ MarkErrorFails(r) PROVE Goal
    BY <2>2 DEF AnalyzeFails, RunFails, MarkErrorFails
  <2>3. CASE Crash
    BY <2>3 DEF Crash
  <2>4. QED
    BY <1>5, <2>1, <2>2, <2>3 DEF Fault
<1>6. CASE UNCHANGED vars
  BY <1>6 DEF vars
<1>7. QED
  BY <1>1, <1>2, <1>3, <1>4, <1>5, <1>6 DEF Next

\* A matter stays, and whoever begins a run of a document has seen its row.
LEMMA StepRunsHaveMatter ==
  TypeOK /\ ObjectInv /\ RunsHaveMatter /\ [Next]_vars => RunsHaveMatter'
<1> SUFFICES ASSUME TypeOK, ObjectInv, RunsHaveMatter, [Next]_vars PROVE RunsHaveMatter'
  OBVIOUS
<1> USE ConstantsAssumption, SentinelsAssumption
    DEF TypeOK, RunsHaveMatter, dbVars, runVars, Goto, SetStatus, Step
<1>1. ASSUME NEW m \in Matters, CreateMatter(m) \/ UpdateMatter(m) PROVE RunsHaveMatter'
  BY <1>1 DEF CreateMatter, UpdateMatter
<1>2. ASSUME NEW d \in Docs, QuickUpload(d) \/ UploadDocument(d) PROVE RunsHaveMatter'
  <2>1. UNCHANGED <<status, pc, doc>> /\ \A e \in Docs : e # d => upload'[e] = upload[e]
    BY <1>2 DEF QuickUpload, UploadDocument
  <2>2. title'[MatterOf[d]] # "none" /\ \A m \in Matters : title[m] # "none" => title'[m] # "none"
    <3>1. CASE QuickUpload(d)
      BY <3>1 DEF QuickUpload
    <3>2. CASE UploadDocument(d)
      BY <3>2 DEF UploadDocument
    <3>3. QED
      BY <1>2, <3>1, <3>2
  <2>3. QED
    BY <2>1, <2>2
<1>3. ASSUME NEW r \in Runs, NEW d \in Docs, AnalyzeLoad(r, d) PROVE RunsHaveMatter'
  BY <1>3 DEF AnalyzeLoad
<1>4. ASSUME NEW d \in Docs, Ingest(d) PROVE RunsHaveMatter'
  <2>1. CASE IngestStore(d)
    BY <2>1 DEF IngestStore
  <2>2. CASE IngestCommit(d)
    BY <2>2 DEF IngestCommit
  <2>3. CASE IngestDispatch(d)
    BY <2>3 DEF IngestDispatch
  <2>4. QED
    BY <1>4, <2>1, <2>2, <2>3 DEF Ingest
<1>5. ASSUME NEW r \in Runs, AnalyzeRequest(r) \/ ProcessDocument(r) PROVE RunsHaveMatter'
  <2>1. UNCHANGED <<upload, doc>> /\ pc[r] # "idle" /\ \A q \in Runs : q # r => pc'[q] = pc[q]
    BY <1>5 DEF AnalyzeRequest, AnalyzeCommit, AnalyzeDispatch,
                ProcessDocument, ExtractRead, ExtractCheck, ExtractInsert, ExtractConflict,
                ChunksCheck, ChunksInsert, EmbeddingsLoad, EmbeddingsCheck, EmbeddingsInsert,
                EmbeddingsConflict, AnalyzeText, AnalyzeLoadDocument, AnalyzeLoadMatter,
                AnalyzeSave, MarkError
  <2>2. \A m \in Matters : title[m] # "none" => title'[m] # "none"
    <3>1. CASE AnalyzeSave(r)
      BY <2>1, <3>1 DEF AnalyzeSave
    <3>2. CASE ~AnalyzeSave(r)
      BY <1>5, <3>2
         DEF AnalyzeRequest, AnalyzeCommit, AnalyzeDispatch,
             ProcessDocument, ExtractRead, ExtractCheck, ExtractInsert, ExtractConflict,
             ChunksCheck, ChunksInsert, EmbeddingsLoad, EmbeddingsCheck, EmbeddingsInsert,
             EmbeddingsConflict, AnalyzeText, AnalyzeLoadDocument, AnalyzeLoadMatter, MarkError
    <3>3. QED
      BY <3>1, <3>2
  <2>3. \A d \in Docs : d # doc[r] => status'[d] = status[d]
    BY <1>5, <2>1
       DEF AnalyzeRequest, AnalyzeCommit, AnalyzeDispatch,
           ProcessDocument, ExtractRead, ExtractCheck, ExtractInsert, ExtractConflict,
           ChunksCheck, ChunksInsert, EmbeddingsLoad, EmbeddingsCheck, EmbeddingsInsert,
           EmbeddingsConflict, AnalyzeText, AnalyzeLoadDocument, AnalyzeLoadMatter,
           AnalyzeSave, MarkError
  <2>4. QED
    BY <2>1, <2>2, <2>3
<1>6. CASE Fault
  <2>1. UNCHANGED <<status, title, doc>> /\ \A r \in Runs : pc'[r] # "idle" => pc[r] # "idle"
    <3>1. CASE Crash
      <4>1. \A r \in Runs : pc'[r] = IF Alive(r) THEN "lost" ELSE pc[r]
        BY <3>1 DEF Crash
      <4>2. UNCHANGED <<status, title, doc>>
        BY <3>1 DEF Crash
      <4>3. QED
        BY <4>1, <4>2 DEF Alive, RequestSteps, TaskSteps
    <3>2. CASE \E d \in Docs : UploadFails(d)
      BY <3>2 DEF UploadFails
    <3>3. ASSUME NEW r \in Runs, AnalyzeFails(r) \/ RunFails(r) \/ MarkErrorFails(r)
          PROVE  /\ UNCHANGED <<status, title, doc>> /\ pc[r] # "idle"
                 /\ \A q \in Runs : q # r => pc'[q] = pc[q]
      BY <3>3 DEF AnalyzeFails, RunFails, MarkErrorFails, RequestSteps, TaskSteps
    <3>4. QED
      BY <1>6, <3>1, <3>2, <3>3 DEF Fault
  <2>2. \A d \in Docs : upload[d] = "none" => upload'[d] = "none"
    BY <1>6 DEF Fault, UploadFails, AnalyzeFails, RunFails, MarkErrorFails, Crash
  <2>3. QED
    BY <2>1, <2>2
<1>7. CASE UNCHANGED vars
  BY <1>7 DEF vars
<1>8. QED
  BY <1>1, <1>2, <1>3, <1>4, <1>5, <1>6, <1>7 DEF Next, Request

\* A step keeps OnceInv, however many documents share the matter.
LEMMA StepOnce == TypeOK /\ ObjectInv /\ OnceInv /\ [Next]_vars => OnceInv'
<1> SUFFICES ASSUME TypeOK, ObjectInv, OnceInv, [Next]_vars PROVE OnceInv'
  OBVIOUS
<1> USE DEF TypeOK, OnceInv
<1>1. FirstRunWaits' /\ RunsHaveMatter'
  BY StepFirstRunWaits, StepRunsHaveMatter
<1>2. CASE \A r \in Runs : ~Closing(r)
  <2>1. \A d \in Docs : Analysed(d) => Analysed(d)'
    BY <1>2, NotClosing DEF Analysed
  <2>2. \A m \in Matters : title[m] # "none" /\ ~autoNamed[m] => ~autoNamed'[m]
    <3>1. CASE UNCHANGED autoNamed
      BY <3>1
    <3>2. ASSUME NEW d \in Docs, QuickUpload(d)
          PROVE  \A m \in Matters : title[m] # "none" => autoNamed'[m] = autoNamed[m]
      BY <3>2, ConstantsAssumption DEF QuickUpload
    <3>3. QED
      BY <1>2, <3>1, <3>2, NotClosing
  <2>3. \A r \in Runs : pc'[r] \in {"flushing", "committing", "done"} =>
          /\ pc[r] = pc'[r]
          /\ pc[r] # "done" => dirty'[r] = dirty[r] /\ namedSeen'[r] = namedSeen[r]
          /\ doc'[r] = doc[r] /\ doc[r] \in Docs /\ title[MatterOf[doc[r]]] # "none"
    BY <1>2, NotClosing DEF RunsHaveMatter
  <2>4. RowLock'
    BY <2>3 DEF RowLock, HoldsRow
  <2>5. ReadyIsAnalysed'
    BY <1>2, <2>1, <2>3, NotClosing DEF ReadyIsAnalysed
  <2>6. FlagStaysGone'
    BY <2>2, <2>3, ConstantsAssumption DEF FlagStaysGone
  <2>7. ReanalysisLeavesTitle'
    BY <2>3 DEF ReanalysisLeavesTitle
  <2>8. QED
    BY <1>1, <2>4, <2>5, <2>6, <2>7
<1>3. ASSUME NEW r \in Runs, Closing(r) PROVE OnceInv'
  <2>1. PICK d \in Docs : d = doc[r]
    BY <1>3 DEF Closing, AnalyzeLoadDocument, AnalyzeLoadMatter, AnalyzeSave, Step, Alive,
                TaskSteps
  <2>2. UNCHANGED doc /\ pc[r] # "done" /\ \A q \in Runs : q # r =>
          pc'[q] = pc[q] /\ dirty'[q] = dirty[q] /\ namedSeen'[q] = namedSeen[q]
    BY <1>3 DEF Closing, AnalyzeLoadDocument, AnalyzeLoadMatter, AnalyzeSave, Step, Goto
  <2>3. \A e \in Docs : Analysed(e) => Analysed(e)'
    BY <2>2 DEF Analysed
  <2>4. \A m \in Matters : ~autoNamed[m] => ~autoNamed'[m]
    BY <1>3, <2>1, ConstantsAssumption
       DEF Closing, AnalyzeLoadDocument, AnalyzeLoadMatter, AnalyzeSave, dbVars
  <2>5. \A q \in Runs : pc[q] # "idle" => doc[q] \in Docs /\ MatterOf[doc[q]] \in Matters
    BY ConstantsAssumption DEF RunsHaveMatter
  <2>6. CASE AnalyzeLoadDocument(r)
    <3>1. pc'[r] = "flushing" /\ UNCHANGED status
      BY <2>6 DEF AnalyzeLoadDocument, Step, Goto, dbVars
    <3>2. dirty'[r] # "status" => status[d] = "READY"
      BY <2>1, <2>6 DEF AnalyzeLoadDocument
    <3>3. RowLock'
      BY <2>2, <3>1 DEF RowLock, HoldsRow
    <3>4. ReadyIsAnalysed'
      BY <2>1, <2>2, <2>3, <2>5, <3>1, <3>2 DEF ReadyIsAnalysed
    <3>5. FlagStaysGone'
      BY <2>2, <2>4, <2>5, <3>1 DEF FlagStaysGone
    <3>6. ReanalysisLeavesTitle'
      BY <2>2, <3>1 DEF ReanalysisLeavesTitle
    <3>7. QED
      BY <1>1, <3>3, <3>4, <3>5, <3>6
  <2>7. CASE AnalyzeLoadMatter(r)
    <3>1. /\ pc[r] = "flushing" /\ pc'[r] = "committing" /\ UNCHANGED <<status, dirty>>
          /\ namedSeen'[r] = autoNamed[MatterOf[d]] /\ UNCHANGED autoNamed
          /\ dirty[r] # "clean" => RowIsFree(d)
      BY <2>1, <2>7 DEF AnalyzeLoadMatter, Step, Goto, dbVars
    <3>2. RowLock'
      BY <2>1, <2>2, <3>1 DEF RowLock, RowIsFree, HoldsRow
    <3>3. ReadyIsAnalysed'
      BY <2>1, <2>2, <2>3, <2>5, <3>1 DEF ReadyIsAnalysed
    <3>4. FlagStaysGone'
      BY <2>1, <2>2, <2>4, <2>5, <3>1 DEF FlagStaysGone
    <3>5. ReanalysisLeavesTitle'
      BY <2>1, <2>2, <3>1 DEF ReanalysisLeavesTitle, FlagStaysGone
    <3>6. QED
      BY <1>1, <3>2, <3>3, <3>4, <3>5
  <2>8. CASE AnalyzeSave(r)
    <3>1. /\ pc[r] = "committing" /\ pc'[r] = "done"
          /\ \A e \in Docs : e # d => status'[e] = status[e]
          /\ namedSeen[r] => ~autoNamed'[MatterOf[d]]
      BY <2>1, <2>8, ConstantsAssumption DEF AnalyzeSave, Step, Goto
    <3>2. RowLock'
      BY <2>2, <3>1 DEF RowLock, HoldsRow
    <3>3. ReadyIsAnalysed'
      <4>1. Analysed(d)'
        BY <2>1, <2>2, <3>1 DEF Analysed
      <4>2. QED
        BY <2>2, <2>3, <2>5, <3>1, <4>1 DEF ReadyIsAnalysed
    <3>4. FlagStaysGone'
      BY <2>1, <2>2, <2>4, <2>5, <3>1 DEF FlagStaysGone
    <3>5. ReanalysisLeavesTitle'
      <4>1. ASSUME NEW q \in Runs, q # r, doc[q] = d, pc[q] = "committing"
            PROVE  ~namedSeen[q]
        <5>1. dirty[q] # "status" \/ dirty[r] # "status"
          BY <2>1, <3>1, <4>1 DEF RowLock, HoldsRow
        <5>2. Analysed(d)
          BY <2>1, <3>1, <4>1, <5>1 DEF ReadyIsAnalysed
        <5>3. QED
          BY <4>1, <5>2 DEF Analysed, ReanalysisLeavesTitle
      <4>2. QED
        BY <2>1, <2>2, <3>1, <4>1 DEF ReanalysisLeavesTitle
    <3>6. QED
      BY <1>1, <3>2, <3>3, <3>4, <3>5
  <2>9. QED
    BY <1>3, <2>6, <2>7, <2>8 DEF Closing
<1>4. QED
  BY <1>2, <1>3

LEMMA InitOnce == Init => TypeOK /\ ObjectInv /\ OnceInv
  BY ConstantsAssumption
     DEF Init, TypeOK, ObjectInv, RowHasObject, Alive, Changes, Statuses, UploadSteps, RunSteps,
         RequestSteps, TaskSteps, OnceInv, FirstRunWaits, RunsHaveMatter, RowLock, HoldsRow,
         ReadyIsAnalysed, FlagStaysGone, ReanalysisLeavesTitle

\* However the runs of this and of other documents overlap, a document that
\* was analysed once never has its matter renamed by an analysis again.
THEOREM ReanalysisSafety == Spec => []ReanalysisLeavesTitle
<1>1. OnceInv => ReanalysisLeavesTitle
  BY DEF OnceInv
<1>2. QED
  BY <1>1, InitOnce, StepOnce, StepType, StepObject, PTL DEF Spec

-----------------------------------------------------------------------------
(* RenamedOnlyWhileAutoNamed, when no two documents share a matter *)

OneDocPerMatter == \A d, e \in Docs : MatterOf[d] = MatterOf[e] => d = e

\* What a transaction has read of the flag goes stale only by an analysis of
\* some document of the matter that was saved meanwhile.
StaleBySave ==
  \A r \in Runs : pc[r] = "committing" /\ namedSeen[r] =>
    \/ autoNamed[MatterOf[doc[r]]]
    \/ \E d \in Docs : Analysed(d) /\ MatterOf[d] = MatterOf[doc[r]]

LEMMA StepStale == TypeOK /\ OnceInv /\ StaleBySave /\ [Next]_vars => StaleBySave'
<1> SUFFICES ASSUME TypeOK, OnceInv, StaleBySave, [Next]_vars,
                    NEW q \in Runs, pc'[q] = "committing", namedSeen'[q],
                    ~autoNamed'[MatterOf[doc'[q]]]
             PROVE  \E d \in Docs : Analysed(d)' /\ MatterOf[d] = MatterOf[doc'[q]]
  BY DEF StaleBySave
<1> USE DEF TypeOK, OnceInv
<1>1. CASE \A r \in Runs : ~Closing(r)
  <2>1. /\ pc[q] = "committing" /\ namedSeen[q] /\ doc'[q] = doc[q]
        /\ doc[q] \in Docs /\ MatterOf[doc[q]] \in Matters
    BY <1>1, NotClosing, ConstantsAssumption DEF RunsHaveMatter
  <2>2. ~autoNamed[MatterOf[doc[q]]]
    <3>1. CASE UNCHANGED autoNamed
      BY <2>1, <3>1
    <3>2. ASSUME NEW d \in Docs, QuickUpload(d) PROVE ~autoNamed[MatterOf[doc[q]]]
      BY <2>1, <3>2, ConstantsAssumption DEF QuickUpload
    <3>3. QED
      BY <1>1, <3>1, <3>2, NotClosing
  <2>3. \A d \in Docs : Analysed(d) => Analysed(d)'
    BY <1>1, NotClosing DEF Analysed
  <2>4. QED
    BY <2>1, <2>2, <2>3 DEF StaleBySave
<1>2. ASSUME NEW r \in Runs, Closing(r)
      PROVE  \E d \in Docs : Analysed(d)' /\ MatterOf[d] = MatterOf[doc'[q]]
  <2>1. PICK e \in Docs : e = doc[r]
    BY <1>2 DEF Closing, AnalyzeLoadDocument, AnalyzeLoadMatter, AnalyzeSave, Step, Alive,
                TaskSteps
  <2>2. UNCHANGED doc /\ pc[r] # "done" /\ \A p \in Runs : p # r =>
          pc'[p] = pc[p] /\ namedSeen'[p] = namedSeen[p]
    BY <1>2 DEF Closing, AnalyzeLoadDocument, AnalyzeLoadMatter, AnalyzeSave, Step, Goto
  <2>3. \A d \in Docs : Analysed(d) => Analysed(d)'
    BY <2>2 DEF Analysed
  <2>4. CASE q = r
    BY <1>2, <2>1, <2>4
       DEF Closing, AnalyzeLoadDocument, AnalyzeLoadMatter, AnalyzeSave, Step, Goto, dbVars
  <2>5. CASE q # r
    <3>1. pc[q] = "committing" /\ namedSeen[q] /\ doc[q] \in Docs
      BY <2>2, <2>5 DEF RunsHaveMatter
    <3>2. CASE ~autoNamed[MatterOf[doc[q]]]
      BY <2>2, <2>3, <3>1, <3>2 DEF StaleBySave
    <3>3. CASE autoNamed[MatterOf[doc[q]]]
      <4>1. AnalyzeSave(r) /\ MatterOf[e] = MatterOf[doc[q]]
        BY <1>2, <2>1, <2>2, <3>1, <3>3, ConstantsAssumption
           DEF Closing, AnalyzeLoadDocument, AnalyzeLoadMatter, AnalyzeSave, dbVars
      <4>2. Analysed(e)'
        BY <2>1, <2>2, <4>1 DEF AnalyzeSave, Step, Goto, Analysed
      <4>3. QED
        BY <2>2, <4>1, <4>2
    <3>4. QED
      BY <3>2, <3>3
  <2>6. QED
    BY <2>4, <2>5
<1>3. QED
  BY <1>1, <1>2

\* A title that comes from an analysis comes while the flag is set, or after
\* an analysis of another document of the matter was saved.
LEMMA RenameCause ==
  ASSUME TypeOK, OnceInv, StaleBySave, [Next]_vars,
         NEW m \in Matters, title'[m] # title[m], title'[m] \in Docs
  PROVE  /\ MatterOf[title'[m]] = m
         /\ \/ autoNamed[m]
            \/ \E d \in Docs : d # title'[m] /\ MatterOf[d] = m /\ Analysed(d)
<1>1. \/ \E r \in Runs : AnalyzeSave(r)
      \/ \E d \in Docs : title' = [title EXCEPT ![MatterOf[d]] = "file"]
      \/ \E n \in Matters : title' = [title EXCEPT ![n] = "user"]
      \/ UNCHANGED title
  BY DEF Next, vars, Request, Ingest, AnalyzeRequest, ProcessDocument, Fault, CreateMatter,
         UpdateMatter, QuickUpload, UploadDocument, AnalyzeLoad, IngestStore, IngestCommit,
         IngestDispatch, AnalyzeCommit, AnalyzeDispatch, ExtractRead, ExtractCheck,
         ExtractInsert, ExtractConflict, ChunksCheck, ChunksInsert, EmbeddingsLoad,
         EmbeddingsCheck, EmbeddingsInsert, EmbeddingsConflict, AnalyzeText,
         AnalyzeLoadDocument, AnalyzeLoadMatter, MarkError, UploadFails, AnalyzeFails,
         RunFails, MarkErrorFails, Crash, dbVars
<1>2. PICK r \in Runs : AnalyzeSave(r)
  BY <1>1, SentinelsAssumption, ConstantsAssumption DEF TypeOK
<1>3. pc[r] = "committing" /\ doc[r] \in Docs
  BY <1>2 DEF AnalyzeSave, Step, TypeOK, Alive, TaskSteps
<1>4. m = MatterOf[doc[r]] /\ namedSeen[r] /\ title'[m] = doc[r]
  BY <1>2, <1>3, ConstantsAssumption DEF AnalyzeSave, TypeOK
<1>5. ~Analysed(doc[r])
  BY <1>3, <1>4 DEF OnceInv, ReanalysisLeavesTitle, Analysed
<1>6. QED
  BY <1>3, <1>4, <1>5 DEF StaleBySave

\* However many documents and runs there are, a rename after the flag is gone
\* takes an analysis of another document that was saved meanwhile.
THEOREM LateRenameSafety == Spec => RenamedLateOnlyByAnother
<1>1. Init => StaleBySave
  BY DEF Init, StaleBySave
<1>2. TypeOK /\ OnceInv /\ StaleBySave /\ [Next]_vars
        => [\A m \in Matters :
              title'[m] # title[m] /\ title'[m] \in Docs =>
                \/ autoNamed[m]
                \/ \E q \in Runs : /\ pc[q] = "done" /\ doc[q] # title'[m]
                                   /\ MatterOf[doc[q]] = m]_vars
  BY RenameCause DEF Analysed
<1>3. QED
  BY <1>1, <1>2, InitOnce, StepOnce, StepStale, StepType, StepObject, PTL
     DEF Spec, RenamedLateOnlyByAnother

\* Hence overlapping runs of one document cannot rename its matter a second
\* time.
THEOREM RenameSafety ==
  ASSUME OneDocPerMatter
  PROVE  Spec => RenamedOnlyWhileAutoNamed
<1>1. Init => StaleBySave
  BY DEF Init, StaleBySave
<1>2. TypeOK /\ OnceInv /\ StaleBySave /\ [Next]_vars
        => [\A m \in Matters : title'[m] # title[m] /\ title'[m] \in Docs => autoNamed[m]]_vars
  <2> SUFFICES ASSUME TypeOK, OnceInv, StaleBySave, [Next]_vars,
                      NEW m \in Matters, title'[m] # title[m], title'[m] \in Docs
               PROVE  autoNamed[m]
    OBVIOUS
  <2> QED
    BY RenameCause DEF OneDocPerMatter
<1>3. QED
  BY <1>1, <1>2, InitOnce, StepOnce, StepStale, StepType, StepObject, PTL
     DEF Spec, RenamedOnlyWhileAutoNamed

-----------------------------------------------------------------------------
(* The refinement of SearchableDocuments *)

\* The documents that can be found: what both refinements map to `searchable`.
Found == {d \in Docs : Searchable(d)}

\* The steps of run r that write a status or embeddings.
Writes(r) ==
  \/ AnalyzeCommit(r) \/ ExtractInsert(r) \/ EmbeddingsInsert(r)
  \/ AnalyzeSave(r) \/ MarkError(r)

\* Every other step, but for the commit of an upload, leaves both alone.
LEMMA QuietSteps ==
  ASSUME [Next]_vars
  PROVE  \/ UNCHANGED <<status, embedded>>
         \/ \E d \in Docs : IngestCommit(d)
         \/ \E r \in Runs : Writes(r)
<1> USE DEF Writes, dbVars, Step
<1>1. CASE Request
  BY <1>1 DEF Request, CreateMatter, UpdateMatter, QuickUpload, UploadDocument, AnalyzeLoad
<1>2. CASE \E d \in Docs : Ingest(d)
  BY <1>2 DEF Ingest, IngestStore, IngestDispatch
<1>3. CASE \E r \in Runs : AnalyzeRequest(r)
  BY <1>3 DEF AnalyzeRequest, AnalyzeDispatch
<1>4. CASE \E r \in Runs : ProcessDocument(r)
  BY <1>4 DEF ProcessDocument, ExtractRead, ExtractCheck, ExtractConflict, ChunksCheck,
              ChunksInsert, EmbeddingsLoad, EmbeddingsCheck, EmbeddingsConflict,
              AnalyzeText, AnalyzeLoadDocument, AnalyzeLoadMatter
<1>5. CASE Fault
  BY <1>5 DEF Fault, UploadFails, AnalyzeFails, RunFails, MarkErrorFails, Crash
<1>6. CASE UNCHANGED vars
  BY <1>6 DEF vars
<1>7. QED
  BY <1>1, <1>2, <1>3, <1>4, <1>5, <1>6 DEF Next

\* Whose text can be found depends on the embeddings alone.
LEMMA SameFound ==
  ASSUME UNCHANGED embedded
  PROVE  UNCHANGED Found
  BY DEF Found, Searchable

\* What _generate_embeddings commits makes its own document searchable, or
\* changes nothing of what can be found.
LEMMA EmbeddingsAdd ==
  ASSUME TypeOK, NEW r \in Runs, EmbeddingsInsert(r)
  PROVE  Found' = Found \/ Found' = Found \union {doc[r]}
<1>1. PICK d \in Docs : d = doc[r]
  BY DEF EmbeddingsInsert, Step, TypeOK, Alive, TaskSteps
<1>2. \A e \in Docs : e # d => (Searchable(e)' <=> Searchable(e))
  BY <1>1 DEF EmbeddingsInsert, Searchable, TypeOK
<1>3. Searchable(d) => Searchable(d)'
  <2>1. embedded'[d] = embedded[d] \union snapshot[r]
    BY <1>1 DEF EmbeddingsInsert, TypeOK
  <2>2. KeysOf(embedded'[d]) = KeysOf(embedded[d]) \union KeysOf(snapshot[r])
    BY <2>1, KeysOfUnion
  <2>3. QED
    BY <2>2 DEF Searchable
<1>4. CASE Searchable(d)' <=> Searchable(d)
  <2>1. \A e \in Docs : Searchable(e)' <=> Searchable(e)
    BY <1>2, <1>4
  <2>2. QED
    BY <2>1 DEF Found
<1>5. CASE Searchable(d)' /\ ~Searchable(d)
  <2>1. \A e \in Docs : Searchable(e)' <=> Searchable(e) \/ e = d
    BY <1>2, <1>5
  <2>2. QED
    BY <1>1, <2>1 DEF Found
<1>6. QED
  BY <1>3, <1>4, <1>5

SearchableStep == [Documents!Next]_(Documents!vars)

\* A run's write of a status or of embeddings is a move of its document.
LEMMA WritesMove ==
  ASSUME TypeOK, ObjectInv, ReadyIsSearchable', NEW r \in Runs, Writes(r)
  PROVE  SearchableStep
<1> USE DEF Found
<1>1. /\ doc[r] \in Docs /\ status[doc[r]] \in Documents!Phases \ {"absent"}
  BY DEF TypeOK, ObjectInv, Writes, AnalyzeCommit, ExtractInsert, EmbeddingsInsert,
         AnalyzeSave, MarkError, Step, Alive, RequestSteps, TaskSteps, Changes, Statuses,
         Documents!Phases
<1>2. CASE UNCHANGED <<status, embedded>>
  BY <1>2, SameFound DEF SearchableStep, Documents!vars
<1>3. CASE UNCHANGED embedded /\ status' = [status EXCEPT ![doc[r]] = "PROCESSING"]
  <2>1. Documents!Process(doc[r])
    BY <1>1, <1>3, SameFound DEF Documents!Process, Documents!Move
  <2>2. QED
    BY <1>1, <2>1 DEF SearchableStep, Documents!Next
<1>4. CASE UNCHANGED embedded /\ status' = [status EXCEPT ![doc[r]] = "ERROR"]
  <2>1. Documents!Fail(doc[r])
    BY <1>1, <1>4, SameFound DEF Documents!Fail, Documents!Move
  <2>2. QED
    BY <1>1, <2>1 DEF SearchableStep, Documents!Next
<1>5. CASE UNCHANGED embedded /\ status' = [status EXCEPT ![doc[r]] = "READY"]
  <2>1. status'[doc[r]] = "READY"
    BY <1>1, <1>5 DEF TypeOK
  <2>2. doc[r] \in Found
    BY <1>1, <1>5, <2>1 DEF ReadyIsSearchable, Searchable
  <2>3. Documents!Succeed(doc[r])
    BY <1>1, <1>5, <2>2, SameFound DEF Documents!Succeed, Documents!Move
  <2>4. QED
    BY <1>1, <2>3 DEF SearchableStep, Documents!Next
<1>6. CASE EmbeddingsInsert(r)
  <2>1. UNCHANGED status
    BY <1>6 DEF EmbeddingsInsert
  <2>2. CASE Found' = Found
    BY <2>1, <2>2 DEF SearchableStep, Documents!vars
  <2>3. CASE Found' = Found \union {doc[r]}
    <3>1. Documents!MakeSearchable(doc[r])
      BY <1>1, <2>1, <2>3 DEF Documents!MakeSearchable
    <3>2. QED
      BY <1>1, <3>1 DEF SearchableStep, Documents!Next
  <2>4. QED
    BY <1>6, <2>2, <2>3, EmbeddingsAdd
<1>7. QED
  BY <1>2, <1>3, <1>4, <1>5, <1>6
     DEF Writes, AnalyzeCommit, ExtractInsert, AnalyzeSave, MarkError, SetStatus

\* Whatever overlaps, fails or is cut off, every step of the pipeline is one
\* that SearchableDocuments allows or changes nothing that it shows.
THEOREM SearchableRefinement == Spec => ImplementsSearchable
<1>1. Init => Documents!Init
  BY DEF Init, Documents!Init
<1>2. TypeOK /\ ObjectInv /\ ReadyIsSearchable' /\ [Next]_vars => SearchableStep
  <2>1. SUFFICES ASSUME TypeOK, ObjectInv, ReadyIsSearchable', [Next]_vars
                 PROVE  SearchableStep
    OBVIOUS
  <2>2. CASE UNCHANGED <<status, embedded>>
    BY <2>2, SameFound DEF SearchableStep, Documents!vars, Found
  <2>3. ASSUME NEW d \in Docs, IngestCommit(d) PROVE SearchableStep
    <3>1. Documents!Process(d)
      BY <2>1, <2>3, SameFound
         DEF IngestCommit, SetStatus, TypeOK, Changes, Statuses, Found, Documents!Process,
             Documents!Move, Documents!Phases
    <3>2. QED
      BY <3>1 DEF SearchableStep, Documents!Next
  <2>4. QED
    BY <2>1, <2>2, <2>3, QuietSteps, WritesMove
<1>3. Init => TypeOK /\ ObjectInv
  BY ConstantsAssumption
     DEF Init, TypeOK, ObjectInv, RowHasObject, Alive, Changes, Statuses, UploadSteps, RunSteps,
         RequestSteps, TaskSteps
<1>4. QED
  BY <1>2, <1>1, <1>3, StepType, StepObject, SearchSafety, PTL
     DEF Spec, SearchableStep, ImplementsSearchable, Documents!Spec

-----------------------------------------------------------------------------
(* StrandedOnlyByCutOff, and ProcessingIsOwned while nothing is cut off *)

\* Run r explains why its document is PROCESSING: it is going to write the
\* status, or it ended without one.
Explains(r) == WillSettle(r) \/ pc[r] \in {"failed", "escaped", "lost"}

\* The request that uploads d, or a run of d, explains why it is PROCESSING.
Attended(d) ==
  \/ upload[d] \in {"committed", "failed"}
  \/ \E r \in Runs : doc[r] = d /\ Explains(r)

StrandedInv ==
  /\ FirstRunWaits
  /\ \A d \in Docs : status[d] = "PROCESSING" => Attended(d)

\* A run that explains PROCESSING goes on to do so, of the same document, or
\* writes the status it has promised.
LEMMA ExplainsOn ==
  ASSUME TypeOK, FirstRunWaits, [Next]_vars,
         NEW q \in Runs, Explains(q)
  PROVE  doc'[q] = doc[q] /\ (Explains(q)' \/ status'[doc[q]] # "PROCESSING")
<1> DEFINE Goal == doc'[q] = doc[q] /\ (Explains(q)' \/ status'[doc[q]] # "PROCESSING")
<1> USE ConstantsAssumption
    DEF TypeOK, Explains, WillSettle, dbVars, runVars, Goto, SetStatus, Alive,
        RequestSteps, TaskSteps, Step
<1>1. CASE Request
  BY <1>1 DEF Request, CreateMatter, UpdateMatter, QuickUpload, UploadDocument, AnalyzeLoad
<1>2. ASSUME NEW d \in Docs, Ingest(d) PROVE Goal
  <2>1. CASE IngestDispatch(d)
    <3>1. FirstRun[d] \in Runs /\ pc[FirstRun[d]] = "idle"
      BY <2>1 DEF IngestDispatch, FirstRunWaits
    <3>2. q # FirstRun[d]
      BY <3>1
    <3>3. QED
      BY <2>1, <3>2 DEF IngestDispatch
  <2>2. QED
    BY <1>2, <2>1 DEF Ingest, IngestStore, IngestCommit
<1>3. ASSUME NEW r \in Runs, AnalyzeRequest(r) PROVE Goal
  BY <1>3 DEF AnalyzeRequest, AnalyzeCommit, AnalyzeDispatch
<1>4. ASSUME NEW r \in Runs, ProcessDocument(r) PROVE Goal
  <2>1. CASE ExtractRead(r)
    BY <2>1 DEF ExtractRead
  <2>2. CASE ExtractCheck(r) \/ ExtractInsert(r) \/ ExtractConflict(r)
    BY <2>2 DEF ExtractCheck, ExtractInsert, ExtractConflict
  <2>3. CASE ChunksCheck(r) \/ ChunksInsert(r)
    BY <2>3 DEF ChunksCheck, ChunksInsert
  <2>4. CASE EmbeddingsLoad(r) \/ EmbeddingsCheck(r)
    BY <2>4 DEF EmbeddingsLoad, EmbeddingsCheck
  <2>5. CASE EmbeddingsInsert(r) \/ EmbeddingsConflict(r) \/ AnalyzeText(r)
    BY <2>5 DEF EmbeddingsInsert, EmbeddingsConflict, AnalyzeText
  <2>6. CASE AnalyzeLoadDocument(r)
    <3>3. status[doc[r]] # "READY" => dirty'[r] = "status"
      BY <2>6 DEF AnalyzeLoadDocument
    <3>4. pc'[r] = "flushing" /\ UNCHANGED <<status, doc>>
      BY <2>6 DEF AnalyzeLoadDocument
    <3>5. CASE q = r
      BY <3>3, <3>4, <3>5
    <3>6. CASE q # r
      BY <2>6, <3>6 DEF AnalyzeLoadDocument
    <3>7. QED
      BY <3>5, <3>6
  <2>7. CASE AnalyzeLoadMatter(r)
    BY <2>7 DEF AnalyzeLoadMatter
  <2>8. CASE AnalyzeSave(r)
    BY <2>8 DEF AnalyzeSave
  <2>9. CASE MarkError(r)
    BY <2>9 DEF MarkError
  <2>10. QED
    BY <1>4, <2>1, <2>2, <2>3, <2>4, <2>5, <2>6, <2>7, <2>8, <2>9 DEF ProcessDocument
<1>5. CASE Fault
  <2>1. CASE \E d \in Docs : UploadFails(d)
    BY <2>1 DEF UploadFails
  <2>2. ASSUME NEW r \in Runs, AnalyzeFails(r) \/ RunFails(r) \/ MarkErrorFails(r) PROVE Goal
    BY <2>2 DEF AnalyzeFails, RunFails, MarkErrorFails
  <2>3. CASE Crash
    BY <2>3 DEF Crash
  <2>4. QED
    BY <1>5, <2>1, <2>2, <2>3 DEF Fault
<1>6. CASE UNCHANGED vars
  BY <1>6 DEF vars
<1>7. QED
  BY <1>1, <1>2, <1>3, <1>4, <1>5, <1>6 DEF Next

\* An upload that explains PROCESSING goes on to do so or hands over to the
\* run it dispatches.
LEMMA UploadExplainsOn ==
  ASSUME TypeOK, [Next]_vars,
         NEW d \in Docs, upload[d] \in {"committed", "failed"}
  PROVE  Attended(d)'
<1>1. CASE IngestDispatch(d)
  BY <1>1, ConstantsAssumption
     DEF IngestDispatch, Goto, TypeOK, Attended, Explains, WillSettle, TaskSteps
<1>2. CASE ~IngestDispatch(d)
  <2>1. upload'[d] \in {"committed", "failed"}
    <3> USE DEF TypeOK, dbVars, runVars, Step
    <3>1. CASE Request
      BY <3>1 DEF Request, CreateMatter, UpdateMatter, QuickUpload, UploadDocument, AnalyzeLoad
    <3>2. CASE \E e \in Docs : Ingest(e)
      BY <1>2, <3>2 DEF Ingest, IngestStore, IngestCommit, IngestDispatch
    <3>3. CASE \E r \in Runs : AnalyzeRequest(r)
      BY <3>3 DEF AnalyzeRequest, AnalyzeCommit, AnalyzeDispatch
    <3>4. CASE \E r \in Runs : ProcessDocument(r)
      BY <3>4 DEF ProcessDocument, ExtractRead, ExtractCheck, ExtractInsert, ExtractConflict,
                  ChunksCheck, ChunksInsert, EmbeddingsLoad, EmbeddingsCheck, EmbeddingsInsert,
                  EmbeddingsConflict, AnalyzeText, AnalyzeLoadDocument, AnalyzeLoadMatter,
                  AnalyzeSave, MarkError
    <3>5. CASE Fault
      BY <3>5 DEF Fault, UploadFails, AnalyzeFails, RunFails, MarkErrorFails, Crash
    <3>6. CASE UNCHANGED vars
      BY <3>6 DEF vars
    <3>7. QED
      BY <3>1, <3>2, <3>3, <3>4, <3>5, <3>6 DEF Next
  <2>2. QED
    BY <2>1 DEF Attended
<1>3. QED
  BY <1>1, <1>2

\* Whoever turns a document to PROCESSING explains it.
LEMMA TurnedIsAttended ==
  ASSUME TypeOK, [Next]_vars,
         NEW d \in Docs, status[d] # "PROCESSING", status'[d] = "PROCESSING"
  PROVE  Attended(d)'
<1> USE DEF TypeOK, Attended
<1>1. CASE \E e \in Docs : IngestCommit(e)
  BY <1>1 DEF IngestCommit, SetStatus
<1>2. ASSUME NEW r \in Runs, Writes(r) PROVE Attended(d)'
  <2>1. doc[r] \in Docs /\ doc'[r] = doc[r]
    BY <1>2 DEF Writes, AnalyzeCommit, ExtractInsert, EmbeddingsInsert, AnalyzeSave, MarkError,
                Step, Alive, RequestSteps, TaskSteps
  <2>2. d = doc[r] /\ pc'[r] \in {"accepted", "chunking"}
    BY <1>2, <2>1 DEF Writes, AnalyzeCommit, ExtractInsert, EmbeddingsInsert, AnalyzeSave,
                      MarkError, Step, Goto, SetStatus
  <2>3. Explains(r)'
    BY <2>2 DEF Explains, WillSettle, TaskSteps
  <2>4. QED
    BY <2>1, <2>2, <2>3
<1>3. QED
  BY <1>1, <1>2, QuietSteps

LEMMA StepStranded == TypeOK /\ StrandedInv /\ [Next]_vars => StrandedInv'
<1> SUFFICES ASSUME TypeOK, StrandedInv, [Next]_vars,
                    NEW d \in Docs, status'[d] = "PROCESSING"
             PROVE  Attended(d)'
  BY StepFirstRunWaits DEF StrandedInv
<1>1. CASE status[d] # "PROCESSING"
  BY <1>1, TurnedIsAttended
<1>2. CASE upload[d] \in {"committed", "failed"}
  BY <1>2, UploadExplainsOn
<1>3. CASE status[d] = "PROCESSING" /\ upload[d] \notin {"committed", "failed"}
  <2>1. PICK q \in Runs : doc[q] = d /\ Explains(q)
    BY <1>3 DEF StrandedInv, Attended
  <2>2. doc'[q] = d /\ Explains(q)'
    BY <2>1, ExplainsOn DEF StrandedInv
  <2>3. QED
    BY <2>2 DEF Attended
<1>4. QED
  BY <1>1, <1>2, <1>3

LEMMA InitStranded == Init => TypeOK /\ ObjectInv /\ StrandedInv
  BY ConstantsAssumption
     DEF Init, TypeOK, ObjectInv, RowHasObject, Alive, Changes, Statuses, UploadSteps, RunSteps,
         RequestSteps, TaskSteps, StrandedInv, FirstRunWaits

\* Whatever overlaps and whatever fails, a document that stays in PROCESSING
\* was cut off at one of the four places CutOff names.
THEOREM StrandedSafety == Spec => []StrandedOnlyByCutOff
<1>1. StrandedInv => StrandedOnlyByCutOff
  BY DEF StrandedInv, Attended, Explains, StrandedOnlyByCutOff, CutOff
<1>2. QED
  BY <1>1, InitStranded, StepStranded, StepType, PTL DEF Spec

StaysUp == MaxCrashes = 0 /\ "db" \notin Faults

\* Without those failures no run ends before it has written the status, and
\* an upload that fails has no row yet.
NothingCut ==
  /\ \A r \in Runs : pc[r] \notin {"failed", "escaped", "lost"}
  /\ \A d \in Docs : upload[d] \notin {"committed", "answered"} => status[d] = "absent"

LEMMA StepNothingCut ==
  ASSUME StaysUp
  PROVE  TypeOK /\ ObjectInv /\ NothingCut /\ [Next]_vars => NothingCut'
<1> SUFFICES ASSUME TypeOK, ObjectInv, NothingCut, [Next]_vars PROVE NothingCut'
  OBVIOUS
<1> USE DEF StaysUp, TypeOK, NothingCut, dbVars, runVars, Goto, SetStatus, Step
<1>1. CASE Request
  BY <1>1 DEF Request, CreateMatter, UpdateMatter, QuickUpload, UploadDocument, AnalyzeLoad
<1>2. ASSUME NEW d \in Docs, Ingest(d) PROVE NothingCut'
  <2>1. CASE IngestStore(d)
    BY <2>1 DEF IngestStore
  <2>2. CASE IngestCommit(d)
    BY <2>2 DEF IngestCommit
  <2>3. CASE IngestDispatch(d)
    BY <2>3, ConstantsAssumption DEF IngestDispatch
  <2>4. QED
    BY <1>2, <2>1, <2>2, <2>3 DEF Ingest
<1>3. ASSUME NEW r \in Runs, AnalyzeRequest(r) \/ ProcessDocument(r) PROVE NothingCut'
  <2>1. \A q \in Runs : pc'[q] \notin {"failed", "escaped", "lost"}
    BY <1>3 DEF AnalyzeRequest, AnalyzeCommit, AnalyzeDispatch,
                ProcessDocument, ExtractRead, ExtractCheck, ExtractInsert, ExtractConflict,
                ChunksCheck, ChunksInsert, EmbeddingsLoad, EmbeddingsCheck, EmbeddingsInsert,
                EmbeddingsConflict, AnalyzeText, AnalyzeLoadDocument, AnalyzeLoadMatter,
                AnalyzeSave, MarkError
  <2>2. UNCHANGED upload /\ doc[r] \in Docs /\ status[doc[r]] # "absent"
    BY <1>3 DEF AnalyzeRequest, AnalyzeCommit, AnalyzeDispatch,
                ProcessDocument, ExtractRead, ExtractCheck, ExtractInsert, ExtractConflict,
                ChunksCheck, ChunksInsert, EmbeddingsLoad, EmbeddingsCheck, EmbeddingsInsert,
                EmbeddingsConflict, AnalyzeText, AnalyzeLoadDocument, AnalyzeLoadMatter,
                AnalyzeSave, MarkError, ObjectInv, Alive, RequestSteps, TaskSteps
  <2>3. \A d \in Docs : d # doc[r] => status'[d] = status[d]
    BY <1>3, <2>2
       DEF AnalyzeRequest, AnalyzeCommit, AnalyzeDispatch,
           ProcessDocument, ExtractRead, ExtractCheck, ExtractInsert, ExtractConflict,
           ChunksCheck, ChunksInsert, EmbeddingsLoad, EmbeddingsCheck, EmbeddingsInsert,
           EmbeddingsConflict, AnalyzeText, AnalyzeLoadDocument, AnalyzeLoadMatter,
           AnalyzeSave, MarkError
  <2>4. QED
    BY <2>1, <2>2, <2>3
<1>4. CASE Fault
  BY <1>4 DEF Fault, UploadFails, AnalyzeFails, RunFails, MarkErrorFails, Crash
<1>5. CASE UNCHANGED vars
  BY <1>5 DEF vars
<1>6. QED
  BY <1>1, <1>2, <1>3, <1>4, <1>5 DEF Next

\* While the process and its database stay up, PROCESSING documents always
\* have somebody working on them.
THEOREM OwnedSafety ==
  ASSUME StaysUp
  PROVE  Spec => []ProcessingIsOwned
<1>1. Init => NothingCut
  BY DEF Init, NothingCut
<1>2. StrandedInv /\ NothingCut => ProcessingIsOwned
  BY DEF StrandedInv, NothingCut, Attended, Explains, ProcessingIsOwned
<1>3. TypeOK /\ ObjectInv /\ NothingCut /\ [Next]_vars => NothingCut'
  BY StepNothingCut
<1>4. QED
  BY <1>1, <1>2, <1>3, InitStranded, StepStranded, StepObject, StepType, PTL DEF Spec

=============================================================================
