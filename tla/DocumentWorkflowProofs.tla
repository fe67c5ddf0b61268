----------------------- MODULE DocumentWorkflowProofs -----------------------
(***************************************************************************)
(* Theorems about DocumentWorkflow for every set of workflows and attempts *)
(* and every choice of the stages that fail or outlive their timeouts.     *)
(***************************************************************************)
EXTENDS DocumentWorkflow, TLAPS

USE WorkflowAssumption

ChunkSteps == {"checkingChunks", "deletingChunks", "writingChunks"}

-----------------------------------------------------------------------------
(* The invariants *)

\* What late attempts of create_chunks have not yet torn.
Kept == Searchable \/ torn

\* What the stages before s have left behind.
Behind(s) ==
  /\ s \in {"quality", "chunks", "embed", "index"} => pages
  /\ s \in {"embed", "index"} => (text => chunks # {})
  /\ s = "index" => Kept

\* An attempt at work has a workflow.
AttemptsHaveJobs == \A a \in Attempts : step[a] # "idle" => job[a] \in Workflows

\* The server waits only in a stage, and never beyond maximum_attempts.
TriesAreBounded ==
  \A w \in Workflows :
    /\ current[w] # "none" => stage[w] \in Stages
    /\ stage[w] \in Stages => tries[w] <= Limit(stage[w])
    /\ stage[w] \in Stages /\ current[w] = "none" => ~Exhausted(w)
    /\ stage[w] \in {"none", "submitted"} => tries[w] = 0

TypeInv == TypeOK /\ AttemptsHaveJobs /\ TriesAreBounded

Active(w) == stage[w] \in Stages \union {"submitted"}

OneActive == \A v, w \in Workflows : Active(v) /\ Active(w) => v = w

\* The attempt the server waits for is at work on the stage of its workflow.
CurrentIsAtWork ==
  \A w \in Workflows, a \in Attempts : current[w] = a =>
    /\ job[a] = w
    /\ step[a] \in StepsOf(stage[w]) \union {"reporting", "raising"}

\* What an attempt found when it looked, or its stage when it began, still
\* holds when it acts on it.
ChecksHold ==
  \A a \in Attempts :
    /\ step[a] \in ChunkSteps => pages
    /\ step[a] \in StepsOf("embed") => (text => chunks # {})
    /\ step[a] \in {"checkingVectors", "embedding"} => held[a] # {}

\* An attempt of create_chunks past its check, that the server waits for.
Chunking(a) == step[a] \in {"deletingChunks", "writingChunks"} /\ current[job[a]] = a

\* It found no chunks: nothing has been embedded since, nor is about to be, and
\* only late attempts have stored any.
CurrentIsFirst ==
  \A a \in Attempts : Chunking(a) =>
    /\ embedded = {}
    /\ text => \A o \in Attempts : step[o] \notin StepsOf("embed")
    /\ torn \/ (chunks = {} /\ (step[a] = "writingChunks" => held[a] = {}))

\* A stage begins after what it needs, and reports after what it is for.
StagesInOrder ==
  /\ \A w \in Workflows : Behind(stage[w])
  /\ \A w \in Workflows, a \in Attempts :
       current[w] = a /\ step[a] = "reporting" => Behind(After(stage[w]))
  /\ \A a \in Attempts : step[a] \in StepsOf("index") => Kept

ServerInv == OneActive /\ CurrentIsAtWork

ChunksHaveText == ~text => chunks = {}

RowsInv ==
  /\ ChunksHaveText
  /\ ChecksHold
  /\ CurrentIsFirst
  /\ StagesInOrder
  /\ NoDuplicateChunks
  /\ ReadyIsSearchable

\* One workflow at a time.
SerialUse == ~Overlap

-----------------------------------------------------------------------------
(* Lemmas on the stages *)

LEMMA StageFacts ==
  /\ \A s : Limit(s) \in 0..3
  /\ \A s \in Stages : /\ After(s) \in Stages \union {"completed"}
                       /\ FirstStep(s) \in Steps
                       /\ FirstStep(s) \in StepsOf(s)
                       /\ "idle" \notin StepsOf(s)
                       /\ "reporting" \notin StepsOf(s)
                       /\ "raising" \notin StepsOf(s)
  BY DEF Stages, Steps, Limit, After, FirstStep, StepsOf

\* A step belongs to the activity of one stage only.
LEMMA StepsApart ==
  \A s \in Stages :
    /\ s # "chunks" => StepsOf(s) \cap ChunkSteps = {}
    /\ s # "index" => StepsOf(s) \cap StepsOf("index") = {}
  BY DEF Stages, FirstStep, StepsOf, ChunkSteps

-----------------------------------------------------------------------------
(* Type correctness *)

\* The steps of the server are the only ones that touch what it keeps.
LEMMA RetryType ==
  ASSUME TypeInv, NEW w \in Workflows, current[w] # "none", Retry(w)
  PROVE  /\ stage' \in [Workflows -> Stages \union Ended \union {"none", "submitted"}]
         /\ tries' \in [Workflows -> 0..3]
         /\ current' \in [Workflows -> Attempts \union {"none"}]
         /\ TriesAreBounded'
  <1>1. stage[w] \in Stages
    BY DEF TypeInv, TriesAreBounded
  <1>2. stage' \in [Workflows -> Stages \union Ended \union {"none", "submitted"}]
    BY DEF TypeInv, TypeOK, Retry, Ended
  <1>3. tries' = tries /\ current' = [current EXCEPT ![w] = "none"]
    BY DEF Retry
  <1>4. ASSUME NEW v \in Workflows
        PROVE  /\ current'[v] # "none" => stage'[v] \in Stages
               /\ stage'[v] \in Stages => tries'[v] <= Limit(stage'[v])
               /\ stage'[v] \in Stages /\ current'[v] = "none" => ~Exhausted(v)'
               /\ stage'[v] \in {"none", "submitted"} => tries'[v] = 0
    <2>1. CASE v = w
      <3>1. stage'[v] = IF Exhausted(w) THEN "failed" ELSE stage[w]
        BY <2>1 DEF TypeInv, TypeOK, Retry
      <3>2. "failed" \notin Stages \union {"none", "submitted"}
        BY DEF Stages
      <3>3. current'[v] = "none"
        BY <1>3, <2>1 DEF TypeInv, TypeOK
      <3>4. CASE Exhausted(w)
        BY <3>1, <3>2, <3>3, <3>4
      <3>5. CASE ~Exhausted(w)
        BY <1>1, <1>3, <2>1, <3>1, <3>3, <3>5 DEF TypeInv, TriesAreBounded, Exhausted, Stages
      <3>6. QED
        BY <3>4, <3>5
    <2>2. CASE v # w
      <3>1. stage'[v] = stage[v] /\ current'[v] = current[v]
        BY <1>3, <2>2 DEF Retry, TypeInv, TypeOK
      <3>2. QED
        BY <1>3, <3>1 DEF TypeInv, TriesAreBounded, Exhausted
    <2>3. QED
      BY <2>1, <2>2
  <1>5. QED
    BY <1>2, <1>3, <1>4 DEF TypeInv, TypeOK, TriesAreBounded

LEMMA TypeInit == Init => TypeInv
  <1> SUFFICES ASSUME Init PROVE TypeInv
    OBVIOUS
  <1>1. TypeOK
    <2>1. /\ stage \in [Workflows -> Stages \union Ended \union {"none", "submitted"}]
          /\ step \in [Attempts -> Steps]
      BY DEF Init, Steps
    <2>2. tries \in [Workflows -> 0..3]
      BY DEF Init
    <2>3. QED
      BY <2>1, <2>2 DEF Init, TypeOK
  <1>2. "none" \notin Stages
    BY DEF Stages
  <1>3. AttemptsHaveJobs /\ TriesAreBounded
    BY <1>2 DEF Init, AttemptsHaveJobs, TriesAreBounded
  <1>4. QED
    BY <1>1, <1>3 DEF TypeInv

\* A step that leaves the server, the attempts' jobs alone.
LEMMA WorkType ==
  ASSUME TypeInv, NEW a \in Attempts, step[a] # "idle",
         NEW to \in Steps, step' = [step EXCEPT ![a] = to],
         UNCHANGED <<serverVars, text, job>>,
         status' \in {"absent", "PROCESSING", "READY", "ERROR"},
         pages' \in BOOLEAN, spoiled' \in BOOLEAN, torn' \in BOOLEAN,
         chunks' \subseteq Batches,
         embedded' \subseteq chunks',
         held' \in [Attempts -> SUBSET Batches],
         dirty' \in [Attempts -> BOOLEAN]
  PROVE  TypeInv'
  <1>1. TypeOK'
    BY DEF TypeInv, TypeOK, serverVars
  <1>2. AttemptsHaveJobs'
    BY DEF TypeInv, TypeOK, AttemptsHaveJobs
  <1>3. TriesAreBounded'
    BY DEF TypeInv, TriesAreBounded, serverVars, Exhausted
  <1>4. QED
    BY <1>1, <1>2, <1>3 DEF TypeInv
LEMMA FreeType ==
  ASSUME TypeInv, NEW a \in Attempts, Free(a)
  PROVE  /\ job' \in [Attempts -> Workflows \union {"none"}]
         /\ step' \in [Attempts -> Steps]
         /\ held' \in [Attempts -> SUBSET Batches]
         /\ dirty' \in [Attempts -> BOOLEAN]
         /\ AttemptsHaveJobs'
  BY DEF TypeInv, TypeOK, Free, AttemptsHaveJobs, Steps

LEMMA TypeDispatch ==
  ASSUME TypeInv, NEW w \in Workflows, Submit(w) \/ Start(w)
  PROVE  TypeInv'
  <1>1. PICK to \in {"submitted", "validate", "unstarted"} :
          stage' = [stage EXCEPT ![w] = to]
    BY DEF Submit, Start
  <1>2. /\ stage[w] \in {"none", "submitted"}
        /\ status' \in {"absent", "PROCESSING", "READY", "ERROR"}
        /\ spoiled' \in BOOLEAN
        /\ UNCHANGED <<text, pages, chunks, embedded, tries, current, job, step, held,
                       dirty, torn>>
    BY DEF Submit, Start, dbVars, TypeInv, TypeOK
  <1>3. "validate" \in Stages /\ stage[w] \notin Stages
    BY <1>2 DEF Stages
  <1>4. tries[w] = 0 /\ current[w] = "none"
    BY <1>2, <1>3 DEF TypeInv, TriesAreBounded
  <1>5. TypeOK'
    BY <1>1, <1>2, <1>3 DEF TypeInv, TypeOK, Ended
  <1>6. AttemptsHaveJobs'
    BY <1>2 DEF TypeInv, AttemptsHaveJobs
  <1>7. ASSUME NEW v \in Workflows
        PROVE  /\ current'[v] # "none" => stage'[v] \in Stages
               /\ stage'[v] \in Stages => tries'[v] <= Limit(stage'[v])
               /\ stage'[v] \in Stages /\ current'[v] = "none" => ~Exhausted(v)'
               /\ stage'[v] \in {"none", "submitted"} => tries'[v] = 0
    <2>1. CASE v = w
      BY <1>2, <1>4, <2>1, StageFacts DEF Exhausted
    <2>2. CASE v # w
      <3>1. stage'[v] = stage[v]
        BY <1>1, <2>2 DEF TypeInv, TypeOK
      <3>2. QED
        BY <1>2, <3>1 DEF TypeInv, TriesAreBounded, Exhausted
    <2>3. QED
      BY <2>1, <2>2
  <1>8. QED
    BY <1>5, <1>6, <1>7 DEF TypeInv, TriesAreBounded

LEMMA TypeSchedule ==
  ASSUME TypeInv, NEW w \in Workflows, NEW a \in Attempts, Schedule(w, a)
  PROVE  TypeInv'
  <1>1. /\ stage[w] \in Stages /\ current[w] = "none"
        /\ current' = [current EXCEPT ![w] = a]
        /\ tries' = [tries EXCEPT ![w] = IF Limit(stage[w]) > 0 THEN @ + 1 ELSE @]
        /\ job' = [job EXCEPT ![a] = w]
        /\ step' = [step EXCEPT ![a] = FirstStep(stage[w])]
        /\ UNCHANGED <<dbVars, stage, held, dirty>>
    BY DEF Schedule
  <1>2. tries[w] \in Nat /\ Limit(stage[w]) \in 0..3
    BY StageFacts DEF TypeInv, TypeOK
  <1>3. tries'[w] <= Limit(stage[w]) /\ tries'[w] \in 0..3
    <2>1. tries'[w] = IF Limit(stage[w]) > 0 THEN tries[w] + 1 ELSE tries[w]
      BY <1>1 DEF TypeInv, TypeOK
    <2>2. tries[w] <= Limit(stage[w])
      BY <1>1 DEF TypeInv, TriesAreBounded
    <2>3. Limit(stage[w]) > 0 => tries[w] < Limit(stage[w])
      BY <1>1, <1>2 DEF TypeInv, TriesAreBounded, Exhausted
    <2>4. QED
      BY <1>2, <2>1, <2>2, <2>3
  <1>4. TypeOK'
    <2>1. tries' \in [Workflows -> 0..3]
      BY <1>1, <1>3 DEF TypeInv, TypeOK
    <2>2. step' \in [Attempts -> Steps]
      BY <1>1, StageFacts DEF TypeInv, TypeOK
    <2>3. QED
      BY <1>1, <2>1, <2>2 DEF TypeInv, TypeOK, dbVars
  <1>5. AttemptsHaveJobs'
    BY <1>1 DEF TypeInv, TypeOK, AttemptsHaveJobs
  <1>6. ASSUME NEW v \in Workflows
        PROVE  /\ current'[v] # "none" => stage'[v] \in Stages
               /\ stage'[v] \in Stages => tries'[v] <= Limit(stage'[v])
               /\ stage'[v] \in Stages /\ current'[v] = "none" => ~Exhausted(v)'
               /\ stage'[v] \in {"none", "submitted"} => tries'[v] = 0
    <2>1. CASE v = w
      <3>1. current'[v] = a /\ a # "none" /\ stage'[v] = stage[w]
        BY <1>1, <2>1 DEF TypeInv, TypeOK
      <3>2. stage[w] \notin {"none", "submitted"}
        BY <1>1 DEF Stages
      <3>3. QED
        BY <1>1, <1>3, <2>1, <3>1, <3>2
    <2>2. CASE v # w
      <3>1. current'[v] = current[v] /\ tries'[v] = tries[v] /\ stage' = stage
        BY <1>1, <2>2 DEF TypeInv, TypeOK
      <3>2. QED
        BY <3>1 DEF TypeInv, TriesAreBounded, Exhausted
    <2>3. QED
      BY <2>1, <2>2
  <1>7. QED
    BY <1>4, <1>5, <1>6 DEF TypeInv, TriesAreBounded

LEMMA TypeTimeout ==
  ASSUME TypeInv, NEW w \in Workflows, Timeout(w)
  PROVE  TypeInv'
  <1>1. Retry(w) /\ current[w] # "none"
        /\ UNCHANGED <<dbVars, job, step, held, dirty>>
    BY DEF Timeout
  <1>2. TypeOK' /\ TriesAreBounded'
    BY <1>1, RetryType DEF TypeInv, TypeOK, dbVars
  <1>3. AttemptsHaveJobs'
    BY <1>1 DEF TypeInv, AttemptsHaveJobs
  <1>4. QED
    BY <1>2, <1>3 DEF TypeInv

LEMMA TypeCrash ==
  ASSUME TypeInv, Crash
  PROVE  TypeInv'
  <1>1. /\ stage' = [w \in Workflows |-> IF current[w] # "none" /\ Exhausted(w)
                                           THEN "failed" ELSE stage[w]]
        /\ current' = [w \in Workflows |-> "none"]
        /\ step' = [a \in Attempts |-> "idle"]
        /\ UNCHANGED <<dbVars, tries>>
    BY DEF Crash
  <1>2. TypeOK'
    <2>1. stage' \in [Workflows -> Stages \union Ended \union {"none", "submitted"}]
      BY <1>1 DEF TypeInv, TypeOK, Ended
    <2>2. step' \in [Attempts -> Steps]
      BY <1>1 DEF Steps
    <2>3. QED
      BY <1>1, <2>1, <2>2 DEF Crash, TypeInv, TypeOK, dbVars
  <1>3. AttemptsHaveJobs'
    BY <1>1 DEF AttemptsHaveJobs
  <1>4. ASSUME NEW v \in Workflows
        PROVE  /\ current'[v] # "none" => stage'[v] \in Stages
               /\ stage'[v] \in Stages => tries'[v] <= Limit(stage'[v])
               /\ stage'[v] \in Stages /\ current'[v] = "none" => ~Exhausted(v)'
               /\ stage'[v] \in {"none", "submitted"} => tries'[v] = 0
    <2>1. "failed" \notin Stages \union {"none", "submitted"}
      BY DEF Stages
    <2>2. current'[v] = "none" /\ tries'[v] = tries[v]
      BY <1>1
    <2>3. CASE current[v] # "none" /\ Exhausted(v)
      BY <1>1, <2>1, <2>2, <2>3
    <2>4. CASE ~(current[v] # "none" /\ Exhausted(v))
      <3>1. stage'[v] = stage[v]
        BY <1>1, <2>4
      <3>2. QED
        BY <2>2, <2>4, <3>1 DEF TypeInv, TriesAreBounded, Exhausted
    <2>5. QED
      BY <2>3, <2>4
  <1>5. QED
    BY <1>2, <1>3, <1>4 DEF TypeInv, TriesAreBounded

LEMMA TypeReport ==
  ASSUME TypeInv, NEW a \in Attempts, Report(a) \/ Raise(a)
  PROVE  TypeInv'
  <1> DEFINE w == job[a]
  <1>1. step[a] # "idle" /\ Free(a) /\ UNCHANGED dbVars
    BY DEF Report, Raise
  <1>2. w \in Workflows
    BY <1>1 DEF TypeInv, AttemptsHaveJobs
  <1>3. /\ stage' \in [Workflows -> Stages \union Ended \union {"none", "submitted"}]
        /\ tries' \in [Workflows -> 0..3]
        /\ current' \in [Workflows -> Attempts \union {"none"}]
        /\ TriesAreBounded'
    <2>1. CASE UNCHANGED serverVars
      BY <2>1 DEF TypeInv, TypeOK, serverVars, TriesAreBounded, Exhausted
    <2>2. CASE Raise(a) /\ current[w] = a
      <3>1. Retry(w) /\ current[w] # "none"
        BY <2>2 DEF Raise
      <3>2. QED
        BY <1>2, <3>1, RetryType
    <2>3. CASE Report(a) /\ current[w] = a
      <3>1. /\ stage' = [stage EXCEPT ![w] = After(@)]
            /\ tries' = [tries EXCEPT ![w] = 0]
            /\ current' = [current EXCEPT ![w] = "none"]
        BY <2>3 DEF Report
      <3>2. stage[w] \in Stages
        BY <1>2, <2>3 DEF TypeInv, TriesAreBounded
      <3>3. After(stage[w]) \in Stages \union {"completed"}
        BY <3>2, StageFacts
      <3>4. ASSUME NEW v \in Workflows
            PROVE  /\ current'[v] # "none" => stage'[v] \in Stages
                   /\ stage'[v] \in Stages => tries'[v] <= Limit(stage'[v])
                   /\ stage'[v] \in Stages /\ current'[v] = "none" => ~Exhausted(v)'
                   /\ stage'[v] \in {"none", "submitted"} => tries'[v] = 0
        <4>1. CASE v = w
          <5>1. tries'[v] = 0 /\ current'[v] = "none"
            BY <3>1, <4>1 DEF TypeInv, TypeOK
          <5>2. QED
            BY <5>1, StageFacts DEF Exhausted
        <4>2. CASE v # w
          <5>1. current'[v] = current[v] /\ tries'[v] = tries[v] /\ stage'[v] = stage[v]
            BY <3>1, <4>2 DEF TypeInv, TypeOK
          <5>2. QED
            BY <5>1 DEF TypeInv, TriesAreBounded, Exhausted
        <4>3. QED
          BY <4>1, <4>2
      <3>5. stage' \in [Workflows -> Stages \union Ended \union {"none", "submitted"}]
        BY <3>1, <3>3 DEF TypeInv, TypeOK, Ended
      <3>6. /\ tries' \in [Workflows -> 0..3]
            /\ current' \in [Workflows -> Attempts \union {"none"}]
        <4>1. tries \in [Workflows -> 0..3] /\ 0 \in 0..3
          BY DEF TypeInv, TypeOK
        <4>2. tries' \in [Workflows -> 0..3]
          BY <3>1, <4>1
        <4>3. QED
          BY <3>1, <4>2 DEF TypeInv, TypeOK
      <3>7. QED
        BY <3>4, <3>5, <3>6 DEF TriesAreBounded
    <2>4. QED
      BY <2>1, <2>2, <2>3 DEF Report, Raise
  <1>4. QED
    BY <1>1, <1>3, FreeType DEF TypeInv, TypeOK, dbVars
\* A step of an attempt between two others of its activity.
LEMMA GoType ==
  ASSUME TypeInv, NEW a \in Attempts, NEW from, NEW to \in Steps,
         from # "idle", Go(a, from, to),
         status' \in {"absent", "PROCESSING", "READY", "ERROR"},
         pages' \in BOOLEAN, spoiled' \in BOOLEAN, torn' \in BOOLEAN,
         chunks' \subseteq Batches,
         embedded' \subseteq chunks',
         held' \in [Attempts -> SUBSET Batches],
         dirty' \in [Attempts -> BOOLEAN]
  PROVE  TypeInv'
  <1>1. /\ step[a] # "idle"
        /\ step' = [step EXCEPT ![a] = to]
        /\ UNCHANGED <<serverVars, text, job>>
    BY DEF Go
  <1>2. QED
    BY <1>1, WorkType

\* The activities that touch no row but the document's.
LEMMA TypeQuietSteps ==
  ASSUME TypeInv, NEW a \in Attempts,
         \/ Read(a) \/ PagesCheck(a) \/ PagesWrite(a) \/ PagesConflict(a)
         \/ Analyze(a) \/ IndexLoad(a) \/ IndexSave(a) \/ ErrorLoad(a) \/ ErrorSave(a)
  PROVE  TypeInv'
  <1>1. /\ UNCHANGED <<chunks, embedded, held>>
        /\ pages' \in BOOLEAN /\ spoiled' \in BOOLEAN /\ torn' \in BOOLEAN
        /\ status' \in {"absent", "PROCESSING", "READY", "ERROR"}
        /\ dirty' \in [Attempts -> BOOLEAN]
    BY DEF Read, PagesCheck, PagesWrite, PagesConflict, Analyze, IndexLoad, IndexSave,
           ErrorLoad, ErrorSave, dbVars, TypeInv, TypeOK
  <1>2. PICK from \in Steps \ {"idle"}, to \in Steps : Go(a, from, to)
    BY DEF Read, PagesCheck, PagesWrite, PagesConflict, Analyze, IndexLoad, IndexSave,
           ErrorLoad, ErrorSave, Steps
  <1>3. /\ chunks' \subseteq Batches /\ embedded' \subseteq chunks'
        /\ held' \in [Attempts -> SUBSET Batches]
    BY <1>1 DEF TypeInv, TypeOK
  <1>4. QED
    BY <1>1, <1>2, <1>3, GoType

LEMMA TypeChunks ==
  ASSUME TypeInv, NEW a \in Attempts,
         ChunksCheck(a) \/ ChunksDelete(a) \/ ChunksWrite(a)
  PROVE  TypeInv'
  <1>1. PICK from \in Steps \ {"idle"}, to \in Steps : Go(a, from, to)
    BY DEF ChunksCheck, ChunksDelete, ChunksWrite, Steps
  <1>2. CASE ChunksCheck(a) \/ ChunksDelete(a)
    <2>1. UNCHANGED <<dbVars, dirty>> /\ held' \in [Attempts -> SUBSET Batches]
      BY <1>2 DEF ChunksCheck, ChunksDelete, TypeInv, TypeOK
    <2>2. QED
      BY <1>1, <2>1, GoType DEF dbVars, TypeInv, TypeOK
  <1>3. CASE ChunksWrite(a)
    <2>0. \/ chunks' = chunks \ held[a]
          \/ \E b \in Batches : chunks' = (chunks \ held[a]) \union {b}
      BY <1>3 DEF ChunksWrite, Unused
    <2>1. chunks' \subseteq Batches /\ chunks \ held[a] \subseteq chunks'
      BY <2>0 DEF TypeInv, TypeOK
    <2>2. embedded' \subseteq chunks'
      BY <1>3, <2>1 DEF ChunksWrite, TypeInv, TypeOK
    <2>3. /\ UNCHANGED <<status, pages, dirty, spoiled>> /\ torn' \in BOOLEAN
          /\ held' \in [Attempts -> SUBSET Batches]
      BY <1>3 DEF ChunksWrite, TypeInv, TypeOK
    <2>4. QED
      BY <1>1, <2>1, <2>2, <2>3, GoType DEF TypeInv, TypeOK
  <1>4. QED
    BY <1>2, <1>3

LEMMA TypeVectors ==
  ASSUME TypeInv, NEW a \in Attempts,
         VectorsLoad(a) \/ VectorsCheck(a) \/ VectorsWrite(a) \/ VectorsConflict(a)
  PROVE  TypeInv'
  <1>1. PICK from \in Steps \ {"idle"}, to \in Steps : Go(a, from, to)
    BY DEF VectorsLoad, VectorsCheck, VectorsWrite, VectorsConflict, Steps
  <1>2. /\ UNCHANGED <<status, pages, chunks, dirty, spoiled, torn>>
        /\ held' \in [Attempts -> SUBSET Batches]
    BY DEF VectorsLoad, VectorsCheck, VectorsWrite, VectorsConflict, dbVars, TypeInv, TypeOK
  <1>3. embedded' \subseteq chunks'
    BY DEF VectorsLoad, VectorsCheck, VectorsWrite, VectorsConflict, dbVars, TypeInv, TypeOK
  <1>4. QED
    BY <1>1, <1>2, <1>3, GoType DEF TypeInv, TypeOK

LEMMA TypeFail ==
  ASSUME TypeInv, NEW a \in Attempts, Fail(a)
  PROVE  TypeInv'
  <1>1. PICK s \in Failing : step[a] \in StepsOf(s)
    BY DEF Fail
  <1>2. step[a] # "idle"
    BY <1>1, StageFacts
  <1>3. /\ held' \in [Attempts -> SUBSET Batches]
        /\ dirty' \in [Attempts -> BOOLEAN]
        /\ step' = [step EXCEPT ![a] = "raising"]
        /\ UNCHANGED <<dbVars, serverVars, job>>
    BY DEF Fail, TypeInv, TypeOK
  <1>4. "raising" \in Steps
    BY DEF Steps
  <1>5. QED
    BY <1>2, <1>3, <1>4, WorkType DEF dbVars, TypeInv, TypeOK

LEMMA TypeStep == TypeInv /\ [Next]_vars => TypeInv'
  <1> SUFFICES ASSUME TypeInv, [Next]_vars PROVE TypeInv'
    OBVIOUS
  <1>1. CASE \E w \in Workflows : Submit(w) \/ Start(w) \/ Timeout(w)
    BY <1>1, TypeDispatch, TypeTimeout
  <1>2. CASE \E w \in Workflows, a \in Attempts : Schedule(w, a)
    BY <1>2, TypeSchedule
  <1>3. CASE \E a \in Attempts : Activity(a) \/ Fail(a)
    BY <1>3, TypeReport, TypeQuietSteps, TypeChunks, TypeVectors, TypeFail DEF Activity
  <1>4. CASE Crash
    BY <1>4, TypeCrash
  <1>5. CASE UNCHANGED vars
    BY <1>5 DEF vars, TypeInv, TypeOK, AttemptsHaveJobs, TriesAreBounded, Exhausted
  <1>6. QED
    BY <1>1, <1>2, <1>3, <1>4, <1>5 DEF Next

\* Every variable keeps its type, and no stage is tried more often than its
\* maximum_attempts, whatever fails, overlaps or outlives its timeout.
THEOREM TypeCorrect == Spec => []TypeOK
  <1>1. Spec => []TypeInv
    BY TypeInit, TypeStep, PTL DEF Spec
  <1>2. TypeInv => TypeOK
    BY DEF TypeInv
  <1>3. QED
    BY <1>1, <1>2, PTL
-----------------------------------------------------------------------------
(* Attempts and what the server knows of them *)

LEMMA ServerInit == Init => ServerInv
  BY DEF Init, ServerInv, OneActive, Active, CurrentIsAtWork, Stages

\* The current attempts of two workflows would make both active.
LEMMA OneCurrent ==
  ASSUME TypeInv, ServerInv, NEW v \in Workflows, NEW w \in Workflows,
         current[v] # "none", current[w] # "none"
  PROVE  v = w
  BY DEF TypeInv, TriesAreBounded, ServerInv, OneActive, Active

LEMMA ServerDispatch ==
  ASSUME TypeInv, ServerInv, SerialUse, NEW w \in Workflows, Submit(w) \/ Start(w)
  PROVE  ServerInv'
  <1>1. PICK to \in {"submitted", "validate", "unstarted"} :
          stage' = [stage EXCEPT ![w] = to]
    BY DEF Submit, Start
  <1>2. UNCHANGED <<current, job, step>>
    BY DEF Submit, Start
  <1>3. OneActive'
    <2>1. \A v \in Workflows : v # w => ~Active(v)
      <3>1. CASE Submit(w)
        BY <3>1 DEF Submit, SerialUse, Active, Ended, Stages
      <3>2. CASE Start(w)
        BY <3>2 DEF Start, ServerInv, OneActive, Active
      <3>3. QED
        BY <3>1, <3>2
    <2>2. \A v \in Workflows : v # w => ~Active(v)'
      BY <1>1, <2>1 DEF Active, TypeInv, TypeOK
    <2>3. QED
      BY <2>2 DEF OneActive
  <1>4. stage[w] \notin Stages
    BY DEF Submit, Start, Stages
  <1>5. CurrentIsAtWork'
    <2>1. ASSUME NEW v \in Workflows, NEW a \in Attempts, current'[v] = a
          PROVE  /\ job'[a] = v
                 /\ step'[a] \in StepsOf(stage'[v]) \union {"reporting", "raising"}
      <3>1. current[v] = a /\ v # w
        BY <1>2, <1>4, <2>1 DEF TypeInv, TriesAreBounded
      <3>2. stage'[v] = stage[v]
        BY <1>1, <3>1 DEF TypeInv, TypeOK
      <3>3. QED
        BY <1>2, <3>1, <3>2 DEF ServerInv, CurrentIsAtWork
    <2>2. QED
      BY <2>1 DEF CurrentIsAtWork
  <1>6. QED
    BY <1>3, <1>5 DEF ServerInv

LEMMA ServerSchedule ==
  ASSUME TypeInv, ServerInv, NEW w \in Workflows, NEW a \in Attempts, Schedule(w, a)
  PROVE  ServerInv'
  <1>1. /\ stage[w] \in Stages /\ current[w] = "none" /\ step[a] = "idle"
        /\ current' = [current EXCEPT ![w] = a]
        /\ job' = [job EXCEPT ![a] = w]
        /\ step' = [step EXCEPT ![a] = FirstStep(stage[w])]
        /\ stage' = stage
    BY DEF Schedule
  <1>2. current'[w] = a /\ job'[a] = w /\ step'[a] \in StepsOf(stage[w])
    BY <1>1, StageFacts DEF TypeInv, TypeOK
  <1>3. \A v \in Workflows : current[v] # a
    <2>1. SUFFICES ASSUME NEW v \in Workflows, current[v] = a PROVE FALSE
      OBVIOUS
    <2>2. stage[v] \in Stages /\ step[a] \in StepsOf(stage[v]) \union {"reporting", "raising"}
      BY <2>1 DEF TypeInv, TriesAreBounded, ServerInv, CurrentIsAtWork
    <2>3. QED
      BY <1>1, <2>2, StageFacts
  <1>4. OneActive'
    BY <1>1 DEF ServerInv, OneActive, Active
  <1>5. ASSUME NEW v \in Workflows, NEW b \in Attempts, current'[v] = b
        PROVE  /\ job'[b] = v
               /\ step'[b] \in StepsOf(stage'[v]) \union {"reporting", "raising"}
    <2>1. CASE v = w
      BY <1>1, <1>2, <1>5, <2>1
    <2>2. CASE v # w
      <3>1. current[v] = b /\ b # a
        BY <1>1, <1>3, <1>5, <2>2 DEF TypeInv, TypeOK
      <3>2. job'[b] = job[b] /\ step'[b] = step[b]
        BY <1>1, <3>1 DEF TypeInv, TypeOK
      <3>3. QED
        BY <1>1, <3>1, <3>2 DEF ServerInv, CurrentIsAtWork
    <2>3. QED
      BY <2>1, <2>2
  <1>6. QED
    BY <1>4, <1>5 DEF ServerInv, CurrentIsAtWork

\* A workflow's stage is left and its attempt given up or freed.
LEMMA ServerLeaves ==
  ASSUME TypeInv, ServerInv, NEW w \in Workflows,
         current' = [current EXCEPT ![w] = "none"],
         NEW to, Active(w), stage' = [stage EXCEPT ![w] = to],
         \A b \in Attempts :
           \/ job'[b] = job[b] /\ step'[b] = step[b]
           \/ step'[b] = "idle" /\ \A v \in Workflows \ {w} : current[v] # b
  PROVE  ServerInv'
  <1>1. \A v \in Workflows \ {w} : current'[v] = current[v] /\ stage'[v] = stage[v]
    BY DEF TypeInv, TypeOK
  <1>2. current'[w] = "none"
    BY DEF TypeInv, TypeOK
  <1>3. OneActive'
    BY <1>1 DEF ServerInv, OneActive, Active
  <1>4. ASSUME NEW v \in Workflows, NEW b \in Attempts, current'[v] = b
        PROVE  /\ job'[b] = v
               /\ step'[b] \in StepsOf(stage'[v]) \union {"reporting", "raising"}
    <2>1. v # w
      BY <1>2, <1>4
    <2>2. current[v] = b /\ stage'[v] = stage[v]
      BY <1>1, <1>4, <2>1
    <2>3. job'[b] = job[b] /\ step'[b] = step[b]
      BY <2>1, <2>2
    <2>4. QED
      BY <2>2, <2>3 DEF ServerInv, CurrentIsAtWork
  <1>5. QED
    BY <1>3, <1>4 DEF ServerInv, CurrentIsAtWork

LEMMA ServerTimeout ==
  ASSUME TypeInv, ServerInv, NEW w \in Workflows, Timeout(w)
  PROVE  ServerInv'
  <1>1. /\ current' = [current EXCEPT ![w] = "none"]
        /\ stage' = [stage EXCEPT ![w] = IF Exhausted(w) THEN "failed" ELSE stage[w]]
        /\ current[w] # "none"
        /\ UNCHANGED <<job, step>>
    BY DEF Timeout, Retry
  <1>2. Active(w)
    BY <1>1 DEF TypeInv, TriesAreBounded, Active
  <1>3. QED
    BY <1>1, <1>2, ServerLeaves

LEMMA ServerCrash ==
  ASSUME TypeInv, ServerInv, Crash
  PROVE  ServerInv'
  <1>1. /\ \A v \in Workflows : current'[v] = "none"
        /\ \A v \in Workflows : Active(v)' => Active(v)
        /\ \A b \in Attempts : step'[b] = "idle"
    BY DEF Crash, Active, Stages
  <1>2. OneActive'
    BY <1>1 DEF ServerInv, OneActive
  <1>3. CurrentIsAtWork'
    BY <1>1 DEF CurrentIsAtWork
  <1>4. QED
    BY <1>2, <1>3 DEF ServerInv

LEMMA ServerReport ==
  ASSUME TypeInv, ServerInv, NEW a \in Attempts, Report(a) \/ Raise(a)
  PROVE  ServerInv'
  <1> DEFINE w == job[a]
  <1>1. /\ step[a] \in {"reporting", "raising"}
        /\ job' = [job EXCEPT ![a] = "none"]
        /\ step' = [step EXCEPT ![a] = "idle"]
    BY DEF Report, Raise, Free
  <1>2. w \in Workflows
    BY <1>1 DEF TypeInv, AttemptsHaveJobs
  <1>3. \A v \in Workflows \ {w} : current[v] # a
    BY DEF ServerInv, CurrentIsAtWork
  <1>4. /\ \A b \in Attempts \ {a} : job'[b] = job[b] /\ step'[b] = step[b]
        /\ step'[a] = "idle"
    BY <1>1 DEF TypeInv, TypeOK
  <1>5. CASE current[w] = a
    <2>1. PICK to : stage' = [stage EXCEPT ![w] = to]
      BY <1>5 DEF Report, Raise, Retry
    <2>2. current' = [current EXCEPT ![w] = "none"]
      BY <1>5 DEF Report, Raise, Retry
    <2>3. Active(w)
      BY <1>2, <1>5 DEF TypeInv, TriesAreBounded, Active
    <2>4. \A b \in Attempts :
            \/ job'[b] = job[b] /\ step'[b] = step[b]
            \/ step'[b] = "idle" /\ \A v \in Workflows \ {w} : current[v] # b
      BY <1>3, <1>4
    <2> HIDE DEF w
    <2>5. QED
      BY <1>2, <2>1, <2>2, <2>3, <2>4, ServerLeaves
  <1>6. CASE current[w] # a
    <2>1. UNCHANGED <<stage, current>>
      BY <1>6 DEF Report, Raise, serverVars
    <2>2. OneActive'
      BY <2>1 DEF ServerInv, OneActive, Active
    <2>3. \A v \in Workflows : current[v] # a
      BY <1>3, <1>6
    <2>4. CurrentIsAtWork'
      BY <1>4, <2>1, <2>3 DEF ServerInv, CurrentIsAtWork
    <2>5. QED
      BY <2>2, <2>4 DEF ServerInv
  <1>7. QED
    BY <1>5, <1>6
\* A step of an attempt on its way through its activity, or out of it.
LEMMA ServerWork ==
  ASSUME TypeInv, ServerInv, NEW a \in Attempts, NEW to,
         step' = [step EXCEPT ![a] = to],
         UNCHANGED <<serverVars, job>>,
         \A s \in Stages : step[a] \in StepsOf(s) \union {"reporting", "raising"} =>
                           to \in StepsOf(s) \union {"reporting", "raising"}
  PROVE  ServerInv'
  <1>1. step'[a] = to /\ \A b \in Attempts \ {a} : step'[b] = step[b]
    BY DEF TypeInv, TypeOK
  <1>2. UNCHANGED <<stage, current, job>>
    BY DEF serverVars
  <1>3. OneActive'
    BY <1>2 DEF ServerInv, OneActive, Active
  <1>4. ASSUME NEW v \in Workflows, NEW b \in Attempts, current'[v] = b
        PROVE  /\ job'[b] = v
               /\ step'[b] \in StepsOf(stage'[v]) \union {"reporting", "raising"}
    <2>1. /\ job[b] = v /\ stage[v] \in Stages
          /\ step[b] \in StepsOf(stage[v]) \union {"reporting", "raising"}
      BY <1>2, <1>4 DEF ServerInv, CurrentIsAtWork, TypeInv, TypeOK, TriesAreBounded
    <2>2. CASE b = a
      BY <1>1, <1>2, <2>1, <2>2
    <2>3. CASE b # a
      BY <1>1, <1>2, <2>1, <2>3
    <2>4. QED
      BY <2>2, <2>3
  <1>5. QED
    BY <1>3, <1>4 DEF ServerInv, CurrentIsAtWork

\* The steps of one activity follow each other.
LEMMA StepsStay ==
  ASSUME NEW a \in Attempts,
         Activity(a), ~Report(a), ~Raise(a)
  PROVE  \E to \in Steps :
           /\ step' = [step EXCEPT ![a] = to]
           /\ UNCHANGED <<serverVars, text, job>>
           /\ \A s \in Stages : step[a] \in StepsOf(s) \union {"reporting", "raising"} =>
                                to \in StepsOf(s) \union {"reporting", "raising"}
  <1>1. CASE Read(a)
    BY <1>1 DEF Read, Go, Steps
  <1>2. CASE PagesCheck(a) \/ PagesWrite(a) \/ PagesConflict(a)
    BY <1>2 DEF PagesCheck, PagesWrite, PagesConflict, Go, Steps, Stages, StepsOf,
                FirstStep
  <1>3. CASE ChunksCheck(a) \/ ChunksDelete(a) \/ ChunksWrite(a)
    BY <1>3 DEF ChunksCheck, ChunksDelete, ChunksWrite, Go, Steps, Stages, StepsOf,
                FirstStep
  <1>4. CASE VectorsLoad(a) \/ VectorsCheck(a) \/ VectorsWrite(a) \/ VectorsConflict(a)
    BY <1>4 DEF VectorsLoad, VectorsCheck, VectorsWrite, VectorsConflict, Go, Steps,
                Stages, StepsOf, FirstStep
  <1>5. CASE Analyze(a) \/ IndexLoad(a) \/ IndexSave(a) \/ ErrorLoad(a) \/ ErrorSave(a)
    BY <1>5 DEF Analyze, IndexLoad, IndexSave, ErrorLoad, ErrorSave, Go, Steps, Stages, StepsOf, FirstStep
  <1>6. QED
    BY <1>1, <1>2, <1>3, <1>4, <1>5 DEF Activity

LEMMA ServerStep == TypeInv /\ ServerInv /\ SerialUse /\ [Next]_vars => ServerInv'
  <1> SUFFICES ASSUME TypeInv, ServerInv, SerialUse, [Next]_vars PROVE ServerInv'
    OBVIOUS
  <1>1. CASE \E w \in Workflows : Submit(w) \/ Start(w) \/ Timeout(w)
    BY <1>1, ServerDispatch, ServerTimeout
  <1>2. CASE \E w \in Workflows, a \in Attempts : Schedule(w, a)
    BY <1>2, ServerSchedule
  <1>3. ASSUME NEW a \in Attempts, Activity(a) PROVE ServerInv'
    <2>1. CASE Report(a) \/ Raise(a)
      BY <2>1, ServerReport
    <2>2. CASE ~Report(a) /\ ~Raise(a)
      BY <1>3, <2>2, StepsStay, ServerWork
    <2>3. QED
      BY <2>1, <2>2
  <1>4. ASSUME NEW a \in Attempts, Fail(a) PROVE ServerInv'
    BY <1>4, ServerWork DEF Fail
  <1>5. CASE Crash
    BY <1>5, ServerCrash
  <1>6. CASE UNCHANGED vars
    BY <1>6 DEF vars, ServerInv, OneActive, Active, CurrentIsAtWork
  <1>7. QED
    BY <1>1, <1>2, <1>3, <1>4, <1>5, <1>6 DEF Next
-----------------------------------------------------------------------------
(* The rows *)

\* Rows that were committed stay, up to the first write of a late attempt of
\* create_chunks; after it there are still some chunks.
Grows ==
  /\ text' = text
  /\ pages => pages'
  /\ torn => torn'
  /\ chunks # {} => chunks' # {}
  /\ torn' \/ embedded \subseteq embedded'

LEMMA GrowsKeeps ==
  ASSUME Grows
  PROVE  /\ Kept => Kept'
         /\ \A s : Behind(s) => Behind(s)'
  BY DEF Grows, Kept, Searchable, Behind

\* The stage to which a step belongs, if its attempt is the current one.
LEMMA StageOf ==
  ASSUME TypeInv, ServerInv, NEW w \in Workflows, NEW a \in Attempts, current[w] = a
  PROVE  /\ step[a] = "validating" => stage[w] = "validate"
         /\ step[a] = "summing" => stage[w] = "checksum"
         /\ step[a] \in {"checkingPages", "writingPages"} => stage[w] = "extract"
         /\ step[a] = "assessing" => stage[w] = "quality"
         /\ step[a] \in ChunkSteps => stage[w] = "chunks"
         /\ step[a] \in {"loadingChunks", "checkingVectors", "embedding"} => stage[w] = "embed"
         /\ step[a] \in StepsOf("index") => stage[w] = "index"
  <1>1. stage[w] \in Stages /\ step[a] \in StepsOf(stage[w]) \union {"reporting", "raising"}
    BY DEF TypeInv, TypeOK, TriesAreBounded, ServerInv, CurrentIsAtWork
  <1>2. QED
    BY <1>1 DEF Stages, StepsOf, FirstStep, ChunkSteps

\* The server waits for one attempt of create_chunks at most.
LEMMA OneChunking ==
  ASSUME TypeInv, ServerInv, NEW a \in Attempts, NEW b \in Attempts,
         Chunking(a), step[b] # "idle", current[job[b]] = b
  PROVE  a = b
  <1>1. job[a] \in Workflows /\ job[b] \in Workflows
    BY DEF Chunking, TypeInv, AttemptsHaveJobs
  <1>2. current[job[a]] # "none" /\ current[job[b]] # "none"
    BY DEF Chunking
  <1>3. job[a] = job[b]
    BY <1>1, <1>2, OneCurrent
  <1>4. QED
    BY <1>3 DEF Chunking

\* What one step of an attempt has to establish.
LEMMA WorkRows ==
  ASSUME TypeInv, ServerInv, RowsInv, NEW a \in Attempts, NEW to,
         step' = [step EXCEPT ![a] = to],
         UNCHANGED serverVars,
         Grows,
         \A o \in Attempts \ {a} : held'[o] = held[o],
         to \in ChunkSteps => pages',
         to \in StepsOf("embed") => (text' => chunks' # {}),
         to \in {"checkingVectors", "embedding"} => held'[a] # {},
         to \in StepsOf("index") => Kept',
         \A w \in Workflows :
           current[w] = a /\ to = "reporting" => Behind(After(stage[w]))'
  PROVE  ChecksHold' /\ StagesInOrder'
  <1>1. step'[a] = to /\ \A o \in Attempts \ {a} : step'[o] = step[o]
    BY DEF TypeInv, TypeOK
  <1>2. ChecksHold'
    BY <1>1 DEF RowsInv, ChecksHold, Grows
  <1>3. \A w \in Workflows : Behind(stage[w])'
    BY GrowsKeeps DEF RowsInv, StagesInOrder, serverVars
  <1>4. ASSUME NEW w \in Workflows, NEW o \in Attempts,
               current'[w] = o, step'[o] = "reporting"
        PROVE  Behind(After(stage[w]))'
    <2>1. CASE o = a
      BY <1>1, <1>4, <2>1 DEF serverVars
    <2>2. CASE o # a
      <3>1. Behind(After(stage[w]))
        BY <1>1, <1>4, <2>2 DEF RowsInv, StagesInOrder, serverVars
      <3>2. QED
        BY <3>1, GrowsKeeps DEF serverVars
    <2>3. QED
      BY <2>1, <2>2
  <1>5. \A o \in Attempts : step'[o] \in StepsOf("index") => Kept'
    BY <1>1, GrowsKeeps DEF RowsInv, StagesInOrder
  <1>6. QED
    BY <1>2, <1>3, <1>4, <1>5 DEF StagesInOrder, serverVars

\* A step of an attempt other than the three of create_chunks leaves what the
\* current attempt of create_chunks relies on.
LEMMA FirstStays ==
  ASSUME TypeInv, RowsInv, NEW a \in Attempts, NEW to,
         step' = [step EXCEPT ![a] = to],
         UNCHANGED <<serverVars, job, text, chunks, torn>>,
         to \notin {"deletingChunks", "writingChunks"},
         to \in StepsOf("embed") => step[a] \in StepsOf("embed"),
         \/ embedded' = embedded
         \/ step[a] = "embedding" /\ held[a] \subseteq chunks /\ embedded' = embedded \union held[a],
         \A o \in Attempts \ {a} : held'[o] = held[o]
  PROVE  CurrentIsFirst'
  <1>1. SUFFICES ASSUME NEW o \in Attempts, Chunking(o)'
                 PROVE  /\ embedded' = {}
                        /\ text' => \A q \in Attempts : step'[q] \notin StepsOf("embed")
                        /\ torn' \/ (chunks' = {} /\
                                     (step'[o] = "writingChunks" => held'[o] = {}))
    BY DEF CurrentIsFirst
  <1>2. step'[a] = to /\ \A q \in Attempts \ {a} : step'[q] = step[q]
    BY DEF TypeInv, TypeOK
  <1>3. o # a /\ Chunking(o)
    BY <1>1, <1>2 DEF Chunking, serverVars
  <1>4. /\ embedded = {}
        /\ text => \A q \in Attempts : step[q] \notin StepsOf("embed")
        /\ torn \/ (chunks = {} /\ (step[o] = "writingChunks" => held[o] = {}))
    BY <1>3 DEF RowsInv, CurrentIsFirst
  <1>5. embedded' = {}
    <2>1. CASE embedded' = embedded
      BY <1>4, <2>1
    <2>2. CASE step[a] = "embedding" /\ held[a] \subseteq chunks
      <3>1. ~text /\ held[a] # {}
        BY <1>4, <2>2 DEF StepsOf, RowsInv, ChecksHold
      <3>2. QED
        BY <2>2, <3>1 DEF RowsInv, ChunksHaveText
    <2>3. QED
      BY <2>1, <2>2
  <1>6. QED
    BY <1>2, <1>3, <1>4, <1>5

\* A step that leaves the chunks alone and does not make the document READY.
LEMMA KeepsRows ==
  ASSUME RowsInv, Grows, chunks' = chunks, status' = "READY" => status = "READY"
  PROVE  ChunksHaveText' /\ NoDuplicateChunks' /\ ReadyIsSearchable'
  <1>1. ChunksHaveText' /\ NoDuplicateChunks'
    BY DEF RowsInv, ChunksHaveText, NoDuplicateChunks, ChunksStoredOnce, Grows
  <1>2. ReadyIsSearchable'
    BY GrowsKeeps DEF RowsInv, ReadyIsSearchable, Kept
  <1>3. QED
    BY <1>1, <1>2

\* The activities that write no rows but pages and the status.
LEMMA RowsPages ==
  ASSUME TypeInv, ServerInv, RowsInv, NEW a \in Attempts,
         Read(a) \/ PagesCheck(a) \/ PagesWrite(a) \/ PagesConflict(a)
  PROVE  RowsInv' /\ Grows
  <1>1. /\ Grows
        /\ UNCHANGED <<text, chunks, embedded, held, torn, job, serverVars>>
        /\ status' = "READY" => status = "READY"
    BY DEF Read, PagesCheck, PagesWrite, PagesConflict, Go, dbVars, Grows
  <1>2. PICK to \in {"reporting", "writingPages", "raising"} :
          /\ step' = [step EXCEPT ![a] = to]
          /\ to = "reporting" =>
               \/ step[a] \in {"validating", "summing", "assessing"}
               \/ step[a] \in {"checkingPages", "writingPages"} /\ pages'
    BY DEF Read, PagesCheck, PagesWrite, PagesConflict, Go, dbVars
  <1>3. ASSUME NEW w \in Workflows, current[w] = a, to = "reporting"
        PROVE  Behind(After(stage[w]))'
    <2>1. stage'[w] = stage[w]
      BY <1>1 DEF serverVars
    <2>2. CASE step[a] \in {"validating", "summing"}
      BY <1>3, <2>1, <2>2, StageOf DEF Behind, After
    <2>3. CASE step[a] = "assessing"
      <3>1. stage[w] = "quality" /\ pages
        BY <1>3, <2>3, StageOf DEF RowsInv, StagesInOrder, Behind
      <3>2. QED
        BY <1>1, <2>1, <3>1 DEF Behind, After, Grows
    <2>4. CASE step[a] \in {"checkingPages", "writingPages"} /\ pages'
      BY <1>3, <2>1, <2>4, StageOf DEF Behind, After
    <2>5. QED
      BY <1>2, <1>3, <2>2, <2>3, <2>4
  <1>4. to \notin StepsOf("index") \union StepsOf("embed") \union ChunkSteps
    BY <1>2 DEF StepsOf, ChunkSteps
  <1>5. ChecksHold' /\ StagesInOrder'
    BY <1>1, <1>2, <1>3, <1>4, WorkRows DEF ChunkSteps, StepsOf
  <1>6. CurrentIsFirst'
    BY <1>1, <1>2, <1>4, FirstStays DEF ChunkSteps
  <1>7. QED
    BY <1>1, <1>5, <1>6, KeepsRows DEF RowsInv

\* create_chunks: the check
LEMMA RowsCheck ==
  ASSUME TypeInv, ServerInv, RowsInv, NEW a \in Attempts, ChunksCheck(a)
  PROVE  RowsInv' /\ Grows
  <1> DEFINE to == IF chunks # {} THEN "reporting" ELSE "deletingChunks"
  <1>1. /\ UNCHANGED <<dbVars, held, serverVars, text, job>>
        /\ step[a] = "checkingChunks"
        /\ step' = [step EXCEPT ![a] = to]
    BY DEF ChunksCheck, Go
  <1>2. /\ Grows /\ chunks' = chunks /\ status' = status
        /\ pages /\ pages'
    BY <1>1 DEF Grows, dbVars, RowsInv, ChecksHold, ChunkSteps
  <1>3. ASSUME NEW w \in Workflows, current[w] = a, to = "reporting"
        PROVE  Behind(After(stage[w]))'
    <2>1. stage[w] = "chunks" /\ stage'[w] = stage[w]
      BY <1>1, <1>3, StageOf DEF ChunkSteps, serverVars
    <2>2. QED
      BY <1>1, <1>2, <1>3, <2>1 DEF Behind, After, dbVars
  <1>4. /\ to \in {"reporting", "deletingChunks"}
        /\ to \notin StepsOf("index") \union StepsOf("embed")
    BY DEF StepsOf
  <1>5. CurrentIsFirst'
    <2>1. SUFFICES ASSUME NEW o \in Attempts, Chunking(o)'
                   PROVE  /\ embedded' = {}
                          /\ text' => \A q \in Attempts : step'[q] \notin StepsOf("embed")
                          /\ torn' \/ (chunks' = {} /\
                                       (step'[o] = "writingChunks" => held'[o] = {}))
      BY DEF CurrentIsFirst
    <2>2. step'[a] = to /\ \A q \in Attempts \ {a} : step'[q] = step[q]
      BY <1>1 DEF TypeInv, TypeOK
    <2>3. UNCHANGED <<text, chunks, embedded, torn, current, job, held>>
      BY <1>1 DEF dbVars, serverVars
    <2>4. CASE o = a
      <3>1. chunks = {} /\ to = "deletingChunks"
        BY <2>1, <2>2, <2>4 DEF Chunking
      <3>2. embedded = {}
        BY <3>1 DEF TypeInv, TypeOK
      <3>3. text => \A q \in Attempts : step[q] \notin StepsOf("embed")
        BY <3>1 DEF RowsInv, ChecksHold
      <3>4. text' => \A q \in Attempts : step'[q] \notin StepsOf("embed")
        BY <1>4, <2>2, <2>3, <3>3
      <3>5. QED
        BY <2>2, <2>3, <2>4, <3>1, <3>2, <3>4
    <2>5. CASE o # a
      <3>1. Chunking(o)
        BY <2>1, <2>2, <2>3, <2>5 DEF Chunking
      <3>2. /\ embedded = {}
            /\ text => \A q \in Attempts : step[q] \notin StepsOf("embed")
            /\ torn \/ (chunks = {} /\ (step[o] = "writingChunks" => held[o] = {}))
        BY <3>1 DEF RowsInv, CurrentIsFirst
      <3>3. QED
        BY <1>4, <2>2, <2>3, <2>5, <3>2
    <2>6. QED
      BY <2>4, <2>5
  <1> HIDE DEF to
  <1>6. ChecksHold' /\ StagesInOrder'
    BY <1>1, <1>2, <1>3, <1>4, WorkRows DEF ChunkSteps
  <1>7. QED
    BY <1>2, <1>5, <1>6, KeepsRows DEF RowsInv

\* create_chunks: the DELETE.  Only an attempt given up finds rows, or one that
\* such an attempt was faster than.
LEMMA RowsDelete ==
  ASSUME TypeInv, ServerInv, RowsInv, NEW a \in Attempts, ChunksDelete(a)
  PROVE  RowsInv' /\ Grows
  <1>1. /\ UNCHANGED <<dbVars, serverVars, text, job>>
        /\ step[a] = "deletingChunks"
        /\ step' = [step EXCEPT ![a] = "writingChunks"]
        /\ held' = [held EXCEPT ![a] = chunks]
    BY DEF ChunksDelete, Go
  <1>2. /\ Grows /\ chunks' = chunks /\ status' = status
        /\ pages /\ pages'
    BY <1>1 DEF Grows, dbVars, RowsInv, ChecksHold, ChunkSteps
  <1>3. /\ step'[a] = "writingChunks" /\ held'[a] = chunks
        /\ \A o \in Attempts \ {a} : step'[o] = step[o] /\ held'[o] = held[o]
    BY <1>1 DEF TypeInv, TypeOK
  <1>4. PICK to \in {"writingChunks"} : step' = [step EXCEPT ![a] = to]
    BY <1>1
  <1>5. /\ to \notin {"reporting", "checkingVectors", "embedding"}
        /\ to \notin StepsOf("index") /\ to \notin StepsOf("embed")
    BY DEF StepsOf
  <1>6. ChecksHold' /\ StagesInOrder'
    <2>1. UNCHANGED serverVars /\ \A o \in Attempts \ {a} : held'[o] = held[o]
      BY <1>1, <1>3
    <2>2. QED
      BY <1>2, <1>4, <1>5, <2>1, WorkRows
  <1>7. CurrentIsFirst'
    <2>1. SUFFICES ASSUME NEW o \in Attempts, Chunking(o)'
                   PROVE  /\ embedded' = {}
                          /\ text' => \A q \in Attempts : step'[q] \notin StepsOf("embed")
                          /\ torn' \/ (chunks' = {} /\
                                       (step'[o] = "writingChunks" => held'[o] = {}))
      BY DEF CurrentIsFirst
    <2>2. UNCHANGED <<text, chunks, embedded, torn, current, job>>
      BY <1>1 DEF dbVars, serverVars
    <2>3. Chunking(o)
      BY <1>1, <1>3, <2>1, <2>2 DEF Chunking
    <2>4. /\ embedded = {}
          /\ text => \A q \in Attempts : step[q] \notin StepsOf("embed")
          /\ torn \/ (chunks = {} /\ (step[o] = "writingChunks" => held[o] = {}))
      BY <2>3 DEF RowsInv, CurrentIsFirst
    <2>5. text' => \A q \in Attempts : step'[q] \notin StepsOf("embed")
      BY <1>3, <1>5, <2>2, <2>4
    <2>6. QED
      BY <1>3, <2>2, <2>4, <2>5
  <1>8. QED
    BY <1>2, <1>6, <1>7, KeepsRows DEF RowsInv

\* What create_chunks commits: if the server waits for the attempt, nothing
\* that was embedded goes, and only after a late write there are other chunks.
LEMMA WriteTakes ==
  ASSUME TypeInv, ServerInv, RowsInv, NEW a \in Attempts, ChunksWrite(a),
         current[job[a]] = a
  PROVE  /\ embedded = {} /\ embedded' = {}
         /\ torn \/ (chunks = {} /\ held[a] = {})
  <1>1. Chunking(a) /\ step[a] = "writingChunks" /\ embedded' = embedded \ held[a]
    BY DEF ChunksWrite, Go, Chunking
  <1>2. QED
    BY <1>1 DEF RowsInv, CurrentIsFirst

\* create_chunks: the INSERT and the commit
LEMMA RowsWrite ==
  ASSUME TypeInv, ServerInv, RowsInv, NEW a \in Attempts, ChunksWrite(a)
  PROVE  RowsInv' /\ Grows
  <1>1. /\ UNCHANGED <<status, pages, serverVars, text, job>>
        /\ step[a] = "writingChunks"
        /\ step' = [step EXCEPT ![a] = "reporting"]
        /\ held' = [held EXCEPT ![a] = {}]
        /\ embedded' = embedded \ held[a]
        /\ torn' = (torn \/ current[job[a]] # a)
    BY DEF ChunksWrite, Go
  <1>2. pages /\ pages'
    BY <1>1 DEF RowsInv, ChecksHold, ChunkSteps
  <1>3. /\ text => \E b \in Batches : chunks' = (chunks \ held[a]) \union {b}
        /\ ~text => chunks' = {}
    <2>1. text => \E b \in Batches : chunks' = (chunks \ held[a]) \union {b}
      BY <1>2 DEF ChunksWrite, Unused
    <2>2. ~text => chunks' = chunks \ held[a]
      BY DEF ChunksWrite
    <2>3. QED
      BY <2>1, <2>2 DEF RowsInv, ChunksHaveText
  <1>4. text => chunks' # {}
    BY <1>3
  <1>5. Grows
    <2>1. CASE current[job[a]] = a
      <3>1. embedded = {}
        BY <2>1, WriteTakes
      <3>2. chunks # {} => chunks' # {}
        BY <1>4 DEF RowsInv, ChunksHaveText
      <3>3. QED
        BY <1>1, <3>1, <3>2 DEF Grows
    <2>2. CASE current[job[a]] # a
      <3>1. chunks # {} => chunks' # {}
        BY <1>4 DEF RowsInv, ChunksHaveText
      <3>2. QED
        BY <1>1, <2>2, <3>1 DEF Grows
    <2>3. QED
      BY <2>1, <2>2
  <1>6. ASSUME NEW w \in Workflows, current[w] = a
        PROVE  Behind(After(stage[w]))'
    <2>1. stage[w] = "chunks" /\ stage'[w] = stage[w]
      BY <1>1, <1>6, StageOf DEF serverVars, ChunkSteps
    <2>2. QED
      BY <1>1, <1>2, <1>4, <2>1 DEF Behind, After
  <1>7. /\ step'[a] = "reporting"
        /\ \A o \in Attempts \ {a} : step'[o] = step[o] /\ held'[o] = held[o]
    BY <1>1 DEF TypeInv, TypeOK
  <1>8. PICK to \in {"reporting"} : step' = [step EXCEPT ![a] = to]
    BY <1>1
  <1>9. /\ to \notin {"checkingVectors", "embedding"} /\ to \notin ChunkSteps
        /\ to \notin StepsOf("index") /\ to \notin StepsOf("embed")
    BY DEF StepsOf, ChunkSteps
  <1>10. ChecksHold' /\ StagesInOrder'
    BY <1>1, <1>5, <1>6, <1>7, <1>8, <1>9, WorkRows
  <1>11. CurrentIsFirst'
    <2>1. SUFFICES ASSUME NEW o \in Attempts, Chunking(o)'
                   PROVE  /\ embedded' = {}
                          /\ text' => \A q \in Attempts : step'[q] \notin StepsOf("embed")
                          /\ torn'
      BY DEF CurrentIsFirst
    <2>2. UNCHANGED <<text, current, job>>
      BY <1>1 DEF serverVars
    <2>3. o # a /\ Chunking(o)
      BY <1>7, <2>1, <2>2 DEF Chunking
    <2>4. current[job[a]] # a
      BY <1>1, <2>3, OneChunking
    <2>5. /\ embedded = {}
          /\ text => \A q \in Attempts : step[q] \notin StepsOf("embed")
      BY <2>3 DEF RowsInv, CurrentIsFirst
    <2>6. text' => \A q \in Attempts : step'[q] \notin StepsOf("embed")
      BY <1>7, <1>8, <1>9, <2>2, <2>5
    <2>7. QED
      BY <1>1, <2>4, <2>5, <2>6
  <1>12. NoDuplicateChunks'
    <2>1. CASE torn'
      BY <2>1 DEF NoDuplicateChunks
    <2>2. CASE ~torn'
      <3>1. chunks = {}
        BY <1>1, <2>2, WriteTakes
      <3>2. QED
        BY <1>3, <3>1 DEF NoDuplicateChunks, ChunksStoredOnce
    <2>3. QED
      BY <2>1, <2>2
  <1>13. ReadyIsSearchable' /\ ChunksHaveText'
    BY <1>1, <1>3, <1>5, GrowsKeeps DEF RowsInv, ReadyIsSearchable, Kept, ChunksHaveText
  <1>14. QED
    BY <1>5, <1>10, <1>11, <1>12, <1>13 DEF RowsInv

LEMMA RowsVectors ==
  ASSUME TypeInv, ServerInv, RowsInv, NEW a \in Attempts,
         VectorsLoad(a) \/ VectorsCheck(a) \/ VectorsWrite(a) \/ VectorsConflict(a)
  PROVE  RowsInv' /\ Grows
  <1>1. /\ step[a] \in {"loadingChunks", "checkingVectors", "embedding"}
        /\ UNCHANGED <<serverVars, text, status, pages, chunks, torn, job>>
    BY DEF VectorsLoad, VectorsCheck, VectorsWrite, VectorsConflict, Go, dbVars
  <1>2. \/ embedded' = embedded
        \/ /\ step[a] = "embedding" /\ held[a] \subseteq chunks
           /\ embedded' = embedded \union held[a]
    BY DEF VectorsLoad, VectorsCheck, VectorsWrite, VectorsConflict, Go, dbVars
  <1>3. Grows
    BY <1>1, <1>2 DEF Grows
  <1>4. \A o \in Attempts \ {a} : held'[o] = held[o]
    BY DEF VectorsLoad, VectorsCheck, VectorsWrite, VectorsConflict, TypeInv, TypeOK
  <1>5. PICK to \in {"reporting", "checkingVectors", "embedding", "raising"} :
          /\ step' = [step EXCEPT ![a] = to]
          /\ to \in {"checkingVectors", "embedding"} => held'[a] # {}
          /\ to = "reporting" => chunks = {} \/ embedded' # {}
    <2>1. CASE VectorsLoad(a)
      BY <2>1 DEF VectorsLoad, Go, TypeInv, TypeOK
    <2>2. CASE VectorsCheck(a)
      <3>1. /\ step' = [step EXCEPT ![a] =
                         IF held[a] \cap embedded # {} THEN "reporting" ELSE "embedding"]
            /\ held' = held /\ embedded' = embedded /\ held[a] # {}
        BY <2>2 DEF VectorsCheck, Go, dbVars, RowsInv, ChecksHold
      <3>2. CASE held[a] \cap embedded # {}
        <4>1. embedded' # {} /\ step' = [step EXCEPT ![a] = "reporting"]
          BY <3>1, <3>2
        <4>2. QED
          BY <4>1
      <3>3. CASE held[a] \cap embedded = {}
        <4>1. step' = [step EXCEPT ![a] = "embedding"]
          BY <3>1, <3>3
        <4>2. QED
          BY <3>1, <4>1
      <3>4. QED
        BY <3>2, <3>3
    <2>3. CASE VectorsWrite(a)
      <3>1. /\ step' = [step EXCEPT ![a] = "reporting"]
            /\ embedded' = embedded \union held[a] /\ held[a] # {}
        BY <2>3 DEF VectorsWrite, Go, RowsInv, ChecksHold
      <3>2. QED
        BY <3>1
    <2>4. CASE VectorsConflict(a)
      BY <2>4 DEF VectorsConflict, Go
    <2>5. QED
      BY <2>1, <2>2, <2>3, <2>4
  <1>6. step[a] \in StepsOf("embed") /\ (text => chunks # {})
    BY <1>1 DEF StepsOf, RowsInv, ChecksHold
  <1>7. ASSUME NEW w \in Workflows, current[w] = a, to = "reporting"
        PROVE  Behind(After(stage[w]))'
    <2>1. stage[w] = "embed" /\ stage'[w] = stage[w]
      BY <1>1, <1>7, StageOf DEF serverVars
    <2>2. pages
      BY <2>1 DEF RowsInv, StagesInOrder, Behind
    <2>3. Kept'
      BY <1>1, <1>5, <1>6, <1>7 DEF Searchable, Kept
    <2>4. QED
      BY <1>1, <1>6, <2>1, <2>2, <2>3 DEF Behind, After
  <1>8. to \notin StepsOf("index") \union ChunkSteps
    BY <1>5 DEF StepsOf, ChunkSteps
  <1>9. ChecksHold' /\ StagesInOrder'
    BY <1>1, <1>3, <1>4, <1>5, <1>6, <1>7, <1>8, WorkRows
  <1>10. CurrentIsFirst'
    BY <1>1, <1>2, <1>4, <1>5, <1>6, <1>8, FirstStays DEF ChunkSteps
  <1>11. QED
    BY <1>1, <1>3, <1>9, <1>10, KeepsRows DEF RowsInv

\* index_document, of this attempt or of one given up long ago: the vectors
\* were there when it began and have stayed.
LEMMA RowsIndex ==
  ASSUME TypeInv, ServerInv, RowsInv, NEW a \in Attempts,
         Analyze(a) \/ IndexLoad(a) \/ IndexSave(a) \/ ErrorLoad(a) \/ ErrorSave(a)
  PROVE  RowsInv' /\ Grows
  <1>1. /\ step[a] \in StepsOf("index")
        /\ UNCHANGED <<serverVars, text, pages, chunks, embedded, held, torn, job>>
    BY DEF Analyze, IndexLoad, IndexSave, ErrorLoad, ErrorSave, Go, dbVars, StepsOf
  <1>2. Grows /\ Kept /\ Kept'
    BY <1>1 DEF Grows, RowsInv, StagesInOrder, Kept, Searchable
  <1>3. PICK to \in StepsOf("index") \union {"reporting", "raising"} :
          step' = [step EXCEPT ![a] = to]
    BY DEF Analyze, IndexLoad, IndexSave, ErrorLoad, ErrorSave, Go, StepsOf
  <1>4. \A w \in Workflows : current[w] = a => Behind(After(stage[w]))'
    BY <1>1, StageOf DEF serverVars, Behind, After
  <1>5. /\ to \notin ChunkSteps \union StepsOf("embed")
        /\ to \notin {"checkingVectors", "embedding"}
    BY <1>3 DEF StepsOf, ChunkSteps
  <1>6. ChecksHold' /\ StagesInOrder'
    BY <1>1, <1>2, <1>3, <1>4, <1>5, WorkRows
  <1>7. CurrentIsFirst'
    BY <1>1, <1>3, <1>5, FirstStays DEF ChunkSteps
  <1>8. ChunksHaveText' /\ NoDuplicateChunks' /\ ReadyIsSearchable'
    BY <1>1, <1>2
       DEF RowsInv, ChunksHaveText, NoDuplicateChunks, ChunksStoredOnce, ReadyIsSearchable, Kept
  <1>9. QED
    BY <1>2, <1>6, <1>7, <1>8 DEF RowsInv

\* The steps that leave the rows of pages, chunks and vectors alone: those of
\* the server, and those that end an attempt.
LEMMA QuietRows ==
  ASSUME TypeInv, ServerInv, RowsInv,
         UNCHANGED <<text, pages, chunks, embedded, torn>>,
         status' = "READY" => status = "READY",
         \A v \in Workflows : stage'[v] = stage[v] \/ Behind(stage'[v]),
         \A v \in Workflows, b \in Attempts :
           current'[v] = b =>
             \/ current[v] = b /\ stage'[v] = stage[v]
             \/ step'[b] # "reporting",
         \A b \in Attempts :
           \/ step'[b] = step[b] /\ held'[b] = held[b]
           \/ step'[b] \in {"idle", "raising"}
           \/ \E s \in Stages : step'[b] = FirstStep(s) /\ Behind(s),
         \A o \in Attempts : Chunking(o)' =>
           /\ Chunking(o)
           /\ \A b \in Attempts : step'[b] \in {step[b], "idle", "raising"}
  PROVE  RowsInv' /\ Grows
  <1>1. Grows
    BY DEF Grows
  <1>2. ASSUME NEW b \in Attempts
        PROVE  \/ step'[b] = step[b] /\ held'[b] = held[b]
               \/ /\ step'[b] \notin {"deletingChunks", "writingChunks", "checkingVectors",
                                      "embedding", "reporting"}
                  /\ step'[b] \in StepsOf("index") => Kept
                  /\ step'[b] \in StepsOf("embed") => (text => chunks # {})
                  /\ step'[b] \in ChunkSteps => pages
    <2>1. CASE \E s \in Stages : step'[b] = FirstStep(s) /\ Behind(s)
      BY <2>1 DEF FirstStep, Stages, StepsOf, ChunkSteps, Behind
    <2>2. CASE step'[b] \in {"idle", "raising"}
      BY <2>2 DEF StepsOf, ChunkSteps
    <2>3. QED
      BY <2>1, <2>2
  <1>3. ChecksHold'
    BY <1>2 DEF RowsInv, ChecksHold
  <1>4. CurrentIsFirst'
    <2>1. SUFFICES ASSUME NEW o \in Attempts, Chunking(o)'
                   PROVE  /\ embedded' = {}
                          /\ text' => \A q \in Attempts : step'[q] \notin StepsOf("embed")
                          /\ torn' \/ (chunks' = {} /\
                                       (step'[o] = "writingChunks" => held'[o] = {}))
      BY DEF CurrentIsFirst
    <2>2. Chunking(o) /\ \A b \in Attempts : step'[b] \in {step[b], "idle", "raising"}
      BY <2>1
    <2>3. /\ embedded = {}
          /\ text => \A q \in Attempts : step[q] \notin StepsOf("embed")
          /\ torn \/ (chunks = {} /\ (step[o] = "writingChunks" => held[o] = {}))
      BY <2>2 DEF RowsInv, CurrentIsFirst
    <2>4. step'[o] = step[o] /\ held'[o] = held[o]
      BY <1>2, <2>1 DEF Chunking
    <2>5. text' => \A q \in Attempts : step'[q] \notin StepsOf("embed")
      BY <2>2, <2>3 DEF StepsOf
    <2>6. QED
      BY <2>3, <2>4, <2>5
  <1>5. \A v \in Workflows : Behind(stage[v])'
    <2>1. ASSUME NEW v \in Workflows PROVE Behind(stage'[v])
      BY DEF RowsInv, StagesInOrder
    <2>2. QED
      BY <2>1, GrowsKeeps, <1>1
  <1>6. ASSUME NEW v \in Workflows, NEW b \in Attempts,
               current'[v] = b, step'[b] = "reporting"
        PROVE  Behind(After(stage[v]))'
    <2>1. current[v] = b /\ stage'[v] = stage[v] /\ step[b] = "reporting"
      BY <1>2, <1>6
    <2>2. Behind(After(stage'[v]))
      BY <2>1 DEF RowsInv, StagesInOrder
    <2>3. QED
      BY <2>2, GrowsKeeps, <1>1
  <1>7. \A b \in Attempts : step'[b] \in StepsOf("index") => Kept'
    BY <1>1, <1>2, GrowsKeeps DEF RowsInv, StagesInOrder
  <1>8. StagesInOrder'
    BY <1>5, <1>6, <1>7 DEF StagesInOrder
  <1>9. QED
    BY <1>1, <1>3, <1>4, <1>8, KeepsRows DEF RowsInv

LEMMA RowsServer ==
  ASSUME TypeInv, ServerInv, RowsInv, NEW w \in Workflows,
         Submit(w) \/ Start(w) \/ Timeout(w)
  PROVE  RowsInv' /\ Grows
  <1>1. /\ UNCHANGED <<text, pages, chunks, embedded, torn, step, job, held>>
        /\ status' = "READY" => status = "READY"
    BY DEF Submit, Start, Timeout, dbVars
  <1>2. PICK to \in {"submitted", "validate", "unstarted", "failed", stage[w]} :
          stage' = [stage EXCEPT ![w] = to]
    BY DEF Submit, Start, Timeout, Retry
  <1>3. \A v \in Workflows : stage'[v] = stage[v] \/ Behind(stage'[v])
    BY <1>2 DEF Behind, TypeInv, TypeOK
  <1>4. ASSUME NEW v \in Workflows, NEW b \in Attempts, current'[v] = b
        PROVE  current[v] = b /\ stage'[v] = stage[v]
    <2>1. CASE Submit(w) \/ Start(w)
      <3>1. current' = current /\ stage[w] \notin Stages
        BY <2>1 DEF Submit, Start, Stages
      <3>2. v # w
        BY <1>4, <3>1 DEF TypeInv, TypeOK, TriesAreBounded
      <3>3. QED
        BY <1>2, <1>4, <3>1, <3>2 DEF TypeInv, TypeOK
    <2>2. CASE Timeout(w)
      <3>1. current' = [current EXCEPT ![w] = "none"]
        BY <2>2 DEF Timeout, Retry
      <3>2. v # w /\ current[v] = b
        BY <1>4, <3>1 DEF TypeInv, TypeOK
      <3>3. QED
        BY <1>2, <3>2 DEF TypeInv, TypeOK
    <2>3. QED
      BY <2>1, <2>2
  <1>5. \A o \in Attempts : Chunking(o)' => Chunking(o)
    BY <1>1, <1>4 DEF Chunking, TypeInv, AttemptsHaveJobs
  <1>6. QED
    BY <1>1, <1>3, <1>4, <1>5, QuietRows

LEMMA RowsSchedule ==
  ASSUME TypeInv, ServerInv, RowsInv, NEW w \in Workflows, NEW a \in Attempts,
         Schedule(w, a)
  PROVE  RowsInv' /\ Grows
  <1>1. /\ UNCHANGED <<dbVars, stage, held>>
        /\ stage[w] \in Stages /\ current[w] = "none"
        /\ current' = [current EXCEPT ![w] = a]
        /\ job' = [job EXCEPT ![a] = w]
        /\ step' = [step EXCEPT ![a] = FirstStep(stage[w])]
    BY DEF Schedule
  <1>2. step'[a] = FirstStep(stage[w]) /\ \A b \in Attempts \ {a} : step'[b] = step[b]
    BY <1>1 DEF TypeInv, TypeOK
  <1>3. Behind(stage[w])
    BY DEF RowsInv, StagesInOrder
  <1>4. step'[a] \notin {"reporting", "deletingChunks", "writingChunks"}
    BY <1>1, <1>2 DEF FirstStep, Stages
  <1>5. \A v \in Workflows, b \in Attempts :
          current'[v] = b => current[v] = b \/ step'[b] # "reporting"
    BY <1>1, <1>4 DEF TypeInv, TypeOK
  <1>6. ASSUME NEW o \in Attempts, Chunking(o)' PROVE FALSE
    <2>1. o # a
      BY <1>4, <1>6 DEF Chunking
    <2>2. step[o] = step'[o] /\ job'[o] = job[o] /\ job[o] \in Workflows
      BY <1>1, <1>2, <1>6, <2>1 DEF Chunking, TypeInv, TypeOK, AttemptsHaveJobs
    <2>3. current'[w] = a
      BY <1>1 DEF TypeInv, TypeOK
    <2>4. job[o] # w /\ current[job[o]] = o
      BY <1>1, <1>6, <2>1, <2>2, <2>3 DEF Chunking, TypeInv, TypeOK
    <2>5. Active(job[o]) /\ Active(w)
      BY <1>1, <2>2, <2>4 DEF Active, TypeInv, TriesAreBounded
    <2>6. QED
      BY <2>2, <2>4, <2>5 DEF ServerInv, OneActive
  <1>7. QED
    BY <1>1, <1>2, <1>3, <1>5, <1>6, QuietRows DEF dbVars

LEMMA RowsCrash ==
  ASSUME TypeInv, ServerInv, RowsInv, Crash
  PROVE  RowsInv' /\ Grows
  <1>1. /\ UNCHANGED dbVars
        /\ \A b \in Attempts : step'[b] = "idle"
        /\ \A v \in Workflows : stage'[v] = stage[v] \/ stage'[v] = "failed"
    BY DEF Crash
  <1>2. Behind("failed")
    BY DEF Behind
  <1>3. \A v \in Workflows, b \in Attempts : current'[v] # b
    BY DEF Crash
  <1>4. \A o \in Attempts : ~Chunking(o)'
    BY <1>1 DEF Chunking
  <1>5. QED
    BY <1>1, <1>2, <1>3, <1>4, QuietRows DEF dbVars

LEMMA RowsReport ==
  ASSUME TypeInv, ServerInv, RowsInv, NEW a \in Attempts, Report(a) \/ Raise(a)
  PROVE  RowsInv' /\ Grows
  <1> DEFINE w == job[a]
  <1>1. /\ UNCHANGED dbVars
        /\ step[a] \in {"reporting", "raising"}
        /\ step' = [step EXCEPT ![a] = "idle"]
        /\ held' = [held EXCEPT ![a] = {}]
    BY DEF Report, Raise, Free
  <1>2. /\ step'[a] = "idle"
        /\ \A b \in Attempts \ {a} : step'[b] = step[b] /\ held'[b] = held[b]
    BY <1>1 DEF TypeInv, TypeOK
  <1>3. w \in Workflows
    BY <1>1 DEF TypeInv, AttemptsHaveJobs
  <1>0. \A b \in Attempts \ {a} : job'[b] = job[b]
    BY DEF Report, Raise, Free, TypeInv, TypeOK
  <1>4. CASE current[w] # a
    <2>1. UNCHANGED <<stage, current>>
      BY <1>4 DEF Report, Raise, serverVars
    <2>2. \A o \in Attempts : Chunking(o)' => Chunking(o)
      BY <1>0, <1>2, <2>1 DEF Chunking
    <2>3. QED
      BY <1>1, <1>2, <2>1, <2>2, QuietRows DEF dbVars
  <1>5. CASE current[w] = a
    <2>1. /\ \A v \in Workflows \ {w} : stage'[v] = stage[v]
          /\ \/ stage'[w] \in {"failed", stage[w]}
             \/ step[a] = "reporting" /\ stage'[w] = After(stage[w])
      <3>1. CASE Report(a)
        BY <1>3, <1>5, <3>1 DEF Report, TypeInv, TypeOK
      <3>2. CASE Raise(a)
        BY <1>3, <1>5, <3>2 DEF Raise, Retry, TypeInv, TypeOK
      <3>3. QED
        BY <3>1, <3>2
    <2>2. current' = [current EXCEPT ![w] = "none"]
      BY <1>5 DEF Report, Raise, Retry
    <2>3. stage'[w] = stage[w] \/ Behind(stage'[w])
      BY <1>3, <1>5, <2>1 DEF RowsInv, StagesInOrder, Behind
    <2>4. /\ \A v \in Workflows \ {w} : stage'[v] = stage[v] /\ current'[v] = current[v]
          /\ current'[w] = "none"
      BY <1>3, <2>1, <2>2 DEF TypeInv, TypeOK
    <2> HIDE DEF w
    <2>5. \A v \in Workflows : stage'[v] = stage[v] \/ Behind(stage'[v])
      BY <2>3, <2>4
    <2>6. \A v \in Workflows, b \in Attempts :
            current'[v] = b => current[v] = b /\ stage'[v] = stage[v]
      BY <2>4
    <2>7. \A o \in Attempts : Chunking(o)' => Chunking(o)
      BY <1>0, <1>2, <2>6 DEF Chunking, TypeInv, AttemptsHaveJobs
    <2>8. QED
      BY <1>1, <1>2, <2>5, <2>6, <2>7, QuietRows DEF dbVars
  <1>6. QED
    BY <1>4, <1>5

LEMMA RowsFail ==
  ASSUME TypeInv, ServerInv, RowsInv, NEW a \in Attempts, Fail(a)
  PROVE  RowsInv' /\ Grows
  <1>1. /\ UNCHANGED <<dbVars, stage, current, job>>
        /\ step' = [step EXCEPT ![a] = "raising"]
        /\ held' = [held EXCEPT ![a] = {}]
    BY DEF Fail, serverVars
  <1>2. /\ step'[a] = "raising"
        /\ \A b \in Attempts \ {a} : step'[b] = step[b] /\ held'[b] = held[b]
    BY <1>1 DEF TypeInv, TypeOK
  <1>3. \A o \in Attempts : Chunking(o)' => Chunking(o)
    BY <1>1, <1>2 DEF Chunking
  <1>4. QED
    BY <1>1, <1>2, <1>3, QuietRows DEF dbVars

LEMMA RowsInit == Init => RowsInv
  <1> SUFFICES ASSUME Init PROVE RowsInv
    OBVIOUS
  <1>1. /\ chunks = {} /\ embedded = {} /\ status = "absent"
        /\ \A a \in Attempts : step[a] = "idle"
        /\ \A w \in Workflows : stage[w] = "none"
        /\ \A w \in Workflows : current[w] = "none"
    BY DEF Init
  <1>2. ChecksHold /\ CurrentIsFirst
    BY <1>1 DEF ChecksHold, ChunkSteps, StepsOf, CurrentIsFirst, Chunking
  <1>3. StagesInOrder
    BY <1>1 DEF StagesInOrder, Behind, StepsOf
  <1>4. QED
    BY <1>1, <1>2, <1>3
       DEF RowsInv, ChunksHaveText, NoDuplicateChunks, ChunksStoredOnce, ReadyIsSearchable

LEMMA RowsStep ==
  TypeInv /\ ServerInv /\ RowsInv /\ [Next]_vars => RowsInv' /\ Grows
  <1> SUFFICES ASSUME TypeInv, ServerInv, RowsInv, [Next]_vars PROVE RowsInv' /\ Grows
    OBVIOUS
  <1>1. CASE \E w \in Workflows : Submit(w) \/ Start(w) \/ Timeout(w)
    BY <1>1, RowsServer
  <1>2. CASE \E w \in Workflows, a \in Attempts : Schedule(w, a)
    BY <1>2, RowsSchedule
  <1>3. CASE \E a \in Attempts : Activity(a) \/ Fail(a)
    BY <1>3, RowsPages, RowsCheck, RowsDelete, RowsWrite, RowsVectors, RowsIndex, RowsReport,
       RowsFail DEF Activity
  <1>4. CASE Crash
    BY <1>4, RowsCrash
  <1>5. CASE UNCHANGED vars
    <2>1. Grows
      BY <1>5 DEF vars, Grows
    <2>2. ChunksHaveText' /\ ChecksHold' /\ CurrentIsFirst'
      BY <1>5 DEF vars, RowsInv, ChunksHaveText, ChecksHold, CurrentIsFirst, Chunking
    <2>3. StagesInOrder'
      BY <1>5 DEF vars, RowsInv, StagesInOrder, Behind, Kept, Searchable
    <2>4. NoDuplicateChunks' /\ ReadyIsSearchable'
      BY <1>5 DEF vars, RowsInv, NoDuplicateChunks, ChunksStoredOnce, ReadyIsSearchable,
                  Searchable
    <2>5. QED
      BY <2>1, <2>2, <2>3, <2>4 DEF RowsInv
  <1>6. QED
    BY <1>1, <1>2, <1>3, <1>4, <1>5 DEF Next

-----------------------------------------------------------------------------
(* Safety *)

LEMMA Invariant ==
  ASSUME SerialUse
  PROVE  Spec => [](TypeInv /\ ServerInv /\ RowsInv)
  <1>1. Init => TypeInv /\ ServerInv /\ RowsInv
    BY TypeInit, ServerInit, RowsInit
  <1>2. TypeInv /\ ServerInv /\ RowsInv /\ [Next]_vars => (TypeInv /\ ServerInv /\ RowsInv)'
    BY TypeStep, ServerStep, RowsStep
  <1>3. QED
    BY <1>1, <1>2, PTL DEF Spec

\* With one workflow at a time a READY document is searchable, whatever fails,
\* is lost with its worker or goes on after the timeout of any stage, unless a
\* late attempt of create_chunks has written.
THEOREM SearchSafety ==
  ASSUME SerialUse
  PROVE  Spec => []ReadyIsSearchable
  <1>1. RowsInv => ReadyIsSearchable
    BY DEF RowsInv
  <1>2. QED
    BY <1>1, Invariant, PTL

\* With one workflow at a time only the write of an attempt of create_chunks
\* that the server has given up stores chunks beside others: retries, later
\* workflows, restarts and the late attempts of other stages never do.
THEOREM ChunksSafety ==
  ASSUME SerialUse
  PROVE  Spec => []NoDuplicateChunks
  <1>1. RowsInv => NoDuplicateChunks
    BY DEF RowsInv
  <1>2. QED
    BY <1>1, Invariant, PTL

\* A step other than the write of create_chunks takes no vectors.
LEMMA OthersTakeNone ==
  ASSUME TypeInv, [Next]_vars, \A a \in Attempts : ~ChunksWrite(a)
  PROVE  embedded \subseteq embedded'
  <1> USE DEF dbVars, serverVars
  <1>1. CASE \E w \in Workflows : Submit(w) \/ Start(w) \/ Timeout(w)
    BY <1>1 DEF Submit, Start, Timeout
  <1>2. CASE \E w \in Workflows, a \in Attempts : Schedule(w, a)
    BY <1>2 DEF Schedule
  <1>3. CASE \E a \in Attempts : Activity(a) \/ Fail(a)
    BY <1>3 DEF Activity, Fail, Read, PagesCheck, PagesWrite, PagesConflict, ChunksCheck,
                ChunksDelete, VectorsLoad, VectorsCheck, VectorsWrite, VectorsConflict,
                Analyze, IndexLoad, IndexSave, ErrorLoad, ErrorSave, Report, Raise
  <1>4. CASE Crash
    BY <1>4 DEF Crash
  <1>5. CASE UNCHANGED vars
    BY <1>5 DEF vars
  <1>6. QED
    BY <1>1, <1>2, <1>3, <1>4, <1>5 DEF Next

\* With one workflow at a time the only step that takes vectors away is the
\* write of an attempt of create_chunks that the server has given up: however
\* late its DELETE sees rows, the attempt the server waits for takes none, not
\* even after such a write.
THEOREM VectorsSafety ==
  ASSUME SerialUse
  PROVE  Spec => VectorsStay
  <1> DEFINE Stay == \/ embedded \subseteq embedded'
                    \/ \E a \in Attempts : ChunksWrite(a) /\ current[job[a]] # a
  <1>1. ASSUME TypeInv, ServerInv, RowsInv, [Next]_vars
        PROVE  Stay
    <2>1. CASE \A a \in Attempts : ~ChunksWrite(a)
      BY <1>1, <2>1, OthersTakeNone
    <2>2. ASSUME NEW a \in Attempts, ChunksWrite(a)
          PROVE  Stay
      <3>1. CASE current[job[a]] = a
        BY <1>1, <2>2, <3>1, WriteTakes
      <3>2. CASE current[job[a]] # a
        BY <2>2, <3>2
      <3>3. QED
        BY <3>1, <3>2
    <2>3. QED
      BY <2>1, <2>2
  <1>2. TypeInv /\ ServerInv /\ RowsInv /\ [Next]_vars => [Stay]_vars
    BY <1>1
  <1>3. QED
    BY <1>2, Invariant, PTL DEF Spec, VectorsStay

-----------------------------------------------------------------------------
(* IndexedIsSettled *)

\* Attempt a is about to end index_document for workflow w, and will not write
\* the status any more.
Settling(w, a) ==
  /\ stage[w] = "index" /\ current[w] = a
  /\ step[a] = "reporting" \/ (step[a] = "committing" /\ ~dirty[a])

SettledInv ==
  \A w \in Workflows, a \in Attempts : Settling(w, a) => status # "PROCESSING" \/ spoiled

\* A step of the server, or one that ends another attempt, brings nobody to
\* that point.
LEMMA SettledServer ==
  ASSUME TypeInv, ServerInv, SerialUse,
         NEW w \in Workflows, NEW a \in Attempts, Settling(w, a)',
         \/ \E v \in Workflows : Submit(v) \/ Start(v) \/ Timeout(v)
         \/ \E v \in Workflows, b \in Attempts : Schedule(v, b)
         \/ \E b \in Attempts : Report(b) \/ Raise(b) \/ Fail(b)
         \/ Crash
  PROVE  Settling(w, a) /\ (status' = status \/ status' = "ERROR") /\ spoiled' = spoiled
  <1> USE DEF Settling
  <1>0. a # "none" /\ \A v \in Workflows : current[v] # "none" => stage[v] \in Stages
    BY DEF TypeInv, TriesAreBounded
  <1>1. ASSUME NEW v \in Workflows, Submit(v) PROVE FALSE
    <2>1. w # v /\ stage[w] = "index"
      BY <1>1 DEF Submit, TypeInv, TypeOK
    <2>2. QED
      BY <1>1, <2>1 DEF Submit, SerialUse, Ended
  <1>2. ASSUME NEW v \in Workflows, Start(v)
        PROVE  Settling(w, a) /\ (status' = status \/ status' = "ERROR") /\ spoiled' = spoiled
    BY <1>2 DEF Start, TypeInv, TypeOK
  <1>3. ASSUME NEW v \in Workflows, Timeout(v)
        PROVE  Settling(w, a) /\ status' = status /\ spoiled' = spoiled
    BY <1>0, <1>3 DEF Timeout, Retry, dbVars, TypeInv, TypeOK
  <1>4. ASSUME NEW v \in Workflows, NEW b \in Attempts, Schedule(v, b)
        PROVE  Settling(w, a) /\ status' = status /\ spoiled' = spoiled
    <2>1. UNCHANGED <<stage, dirty, status, spoiled>> /\ step[b] = "idle"
      BY <1>4 DEF Schedule, dbVars
    <2>2. current' = [current EXCEPT ![v] = b] /\ step' = [step EXCEPT ![b] = FirstStep(stage[v])]
      BY <1>4 DEF Schedule
    <2>3. CASE a = b
      <3>1. step'[a] = FirstStep(stage[v]) /\ stage[v] \in Stages
        BY <1>4, <2>2, <2>3 DEF Schedule, TypeInv, TypeOK
      <3>2. QED
        BY <2>1, <3>1 DEF FirstStep, Stages
    <2>4. CASE a # b
      BY <2>1, <2>2, <2>4 DEF TypeInv, TypeOK
    <2>5. QED
      BY <2>3, <2>4
  <1>5. ASSUME NEW b \in Attempts, Report(b) \/ Raise(b)
        PROVE  Settling(w, a) /\ status' = status /\ spoiled' = spoiled
    <2>1. UNCHANGED <<status, spoiled>> /\ step' = [step EXCEPT ![b] = "idle"]
          /\ dirty' = [dirty EXCEPT ![b] = FALSE]
      BY <1>5 DEF Report, Raise, Free, dbVars
    <2>2. a # b
      BY <2>1 DEF TypeInv, TypeOK
    <2>3. step'[a] = step[a] /\ dirty'[a] = dirty[a]
      BY <2>1, <2>2 DEF TypeInv, TypeOK
    <2>4. UNCHANGED <<stage, current>> \/ \E v \in Workflows : \E to :
            /\ current' = [current EXCEPT ![v] = "none"]
            /\ stage' = [stage EXCEPT ![v] = to]
      <3>1. job[b] \in Workflows
        BY <1>5 DEF Report, Raise, TypeInv, AttemptsHaveJobs
      <3>2. QED
        BY <1>5, <3>1 DEF Report, Raise, Retry, serverVars
    <2>5. QED
      BY <1>0, <2>1, <2>3, <2>4 DEF TypeInv, TypeOK
  <1>6. ASSUME NEW b \in Attempts, Fail(b)
        PROVE  Settling(w, a) /\ status' = status /\ spoiled' = spoiled
    BY <1>6 DEF Fail, dbVars, serverVars, TypeInv, TypeOK
  <1>7. CASE Crash
    BY <1>0, <1>7 DEF Crash
  <1>8. QED
    BY <1>1, <1>2, <1>3, <1>4, <1>5, <1>6, <1>7

\* An attempt settles its workflow after it has written the status or has
\* found it READY, and meanwhile no other attempt the server waits for writes
\* PROCESSING.
LEMMA SettledWork ==
  ASSUME TypeInv, ServerInv, SettledInv, NEW b \in Attempts,
         Activity(b), ~Report(b), ~Raise(b)
  PROVE  SettledInv'
  <1> SUFFICES ASSUME NEW w \in Workflows, NEW a \in Attempts, Settling(w, a)',
                      status' = "PROCESSING", ~spoiled'
               PROVE  FALSE
    BY DEF SettledInv
  <1>1. UNCHANGED <<stage, current, job>>
    BY StepsStay DEF serverVars
  <1>2. stage[w] = "index" /\ current[w] = a
    BY <1>1 DEF Settling
  <1>3. step[a] \in StepsOf("index") \union {"reporting", "raising"}
    BY <1>2 DEF ServerInv, CurrentIsAtWork
  <1>4. ~(status = "PROCESSING" /\ spoiled' = spoiled /\ Settling(w, a))
    BY DEF SettledInv
  <1>5. CASE a # b
    <2>1. step'[a] = step[a]
      BY <1>5, StepsStay DEF TypeInv, TypeOK
    <2>2. dirty'[a] = dirty[a]
      BY <1>5 DEF Activity, Read, PagesCheck, PagesWrite, PagesConflict, ChunksCheck, ChunksDelete,
             ChunksWrite, VectorsLoad, VectorsCheck, VectorsWrite, VectorsConflict, Analyze,
             IndexLoad, IndexSave, ErrorLoad, ErrorSave, TypeInv, TypeOK
    <2>3. Settling(w, a)
      BY <1>2, <2>1, <2>2 DEF Settling
    <2>4. CASE PagesWrite(b)
      <3>1. current[job[b]] = b /\ step[b] = "writingPages"
        BY <2>4 DEF PagesWrite, Go
      <3>2. job[b] \in Workflows
        BY <3>1 DEF TypeInv, AttemptsHaveJobs
      <3>3. stage[job[b]] = "extract"
        BY <3>1, <3>2, StageOf
      <3>4. job[b] = w
        BY <1>2, <3>2, <3>3 DEF ServerInv, OneActive, Active, Stages
      <3>5. QED
        BY <1>2, <3>3, <3>4
    <2>5. CASE ~PagesWrite(b)
      <3>1. status = "PROCESSING" /\ spoiled' = spoiled
        BY <2>5 DEF Activity, Read, PagesCheck, PagesConflict, ChunksCheck, ChunksDelete,
               ChunksWrite, VectorsLoad, VectorsCheck, VectorsWrite, VectorsConflict, Analyze,
               IndexLoad, IndexSave, ErrorLoad, ErrorSave, dbVars
      <3>2. QED
        BY <1>4, <2>3, <3>1
    <2>6. QED
      BY <2>4, <2>5
  <1>6. CASE a = b
    <2>1. step[a] \in {"analyzing", "saving", "committing", "marking", "markingError"}
      BY <1>3, <1>6 DEF StepsOf, Activity, Read, PagesCheck, PagesWrite, PagesConflict, ChunksCheck,
             ChunksDelete, ChunksWrite, VectorsLoad, VectorsCheck, VectorsWrite, VectorsConflict,
             Analyze, IndexLoad, IndexSave, ErrorLoad, ErrorSave, Go
    <2>2. Analyze(a) \/ IndexLoad(a) \/ IndexSave(a) \/ ErrorLoad(a) \/ ErrorSave(a)
      BY <1>6, <2>1 DEF Activity, Read, PagesCheck, PagesWrite, PagesConflict, ChunksCheck,
             ChunksDelete, ChunksWrite, VectorsLoad, VectorsCheck, VectorsWrite, VectorsConflict, Go
    <2>3. step'[a] = "reporting" \/ (step'[a] = "committing" /\ ~dirty'[a])
      BY DEF Settling
    <2>4. CASE IndexLoad(a)
      <3>1. dirty'[a] = (status # "READY") /\ step'[a] = "committing" /\ status' = status
        BY <2>4 DEF IndexLoad, Go, dbVars, TypeInv, TypeOK
      <3>2. QED
        BY <2>3, <3>1
    <2>5. CASE IndexSave(a)
      <3>1. /\ step[a] = "committing" /\ spoiled' = spoiled
            /\ status' = IF dirty[a] THEN "READY" ELSE status
        BY <2>5 DEF IndexSave, Go
      <3>2. ~dirty[a] /\ status = "PROCESSING"
        BY <3>1
      <3>3. QED
        BY <1>2, <1>4, <3>1, <3>2 DEF Settling
    <2>6. CASE Analyze(a) \/ ErrorLoad(a) \/ ErrorSave(a)
      BY <2>3, <2>6 DEF Analyze, ErrorLoad, ErrorSave, Go, TypeInv, TypeOK
    <2>7. QED
      BY <2>2, <2>4, <2>5, <2>6
  <1>7. QED
    BY <1>5, <1>6

LEMMA SettledStep ==
  TypeInv /\ ServerInv /\ SerialUse /\ SettledInv /\ [Next]_vars => SettledInv'
  <1> SUFFICES ASSUME TypeInv, ServerInv, SerialUse, SettledInv, [Next]_vars
               PROVE  SettledInv'
    OBVIOUS
  <1>1. CASE UNCHANGED vars
    BY <1>1 DEF vars, SettledInv, Settling
  <1>2. CASE \E b \in Attempts : Activity(b) /\ ~Report(b) /\ ~Raise(b)
    BY <1>2, SettledWork
  <1>3. CASE \/ \E v \in Workflows : Submit(v) \/ Start(v) \/ Timeout(v)
             \/ \E v \in Workflows, b \in Attempts : Schedule(v, b)
             \/ \E b \in Attempts : Report(b) \/ Raise(b) \/ Fail(b)
             \/ Crash
    BY <1>3, SettledServer DEF SettledInv
  <1>4. QED
    BY <1>1, <1>2, <1>3 DEF Next

\* With one workflow at a time index_document leaves PROCESSING behind only
\* where an attempt of extract_text that outlived its timeout has put it back.
THEOREM SettledSafety ==
  ASSUME SerialUse
  PROVE  Spec => []IndexedIsSettled
  <1>1. Init => SettledInv
    BY DEF Init, SettledInv, Settling
  <1>2. SettledInv => IndexedIsSettled
    BY DEF SettledInv, Settling, IndexedIsSettled
  <1>3. TypeInv /\ ServerInv /\ SettledInv /\ [Next]_vars => SettledInv'
    BY SettledStep
  <1>4. QED
    BY <1>1, <1>2, <1>3, Invariant, PTL DEF Spec

-----------------------------------------------------------------------------
(* The refinement of SearchableDocuments *)

\* The document's row is there before any workflow of it and any attempt.
RowIsThere ==
  /\ \A w \in Workflows : stage[w] # "none" => status # "absent"
  /\ \A a \in Attempts : step[a] # "idle" => status # "absent"

LEMMA RowStep == RowIsThere /\ TypeInv /\ [Next]_vars => RowIsThere'
  <1> SUFFICES ASSUME RowIsThere, TypeInv, [Next]_vars PROVE RowIsThere'
    OBVIOUS
  <1> USE DEF RowIsThere, TypeInv, TypeOK, AttemptsHaveJobs, dbVars, serverVars
  <1>1. ASSUME NEW w \in Workflows, Submit(w) \/ Start(w) PROVE RowIsThere'
    BY <1>1 DEF Submit, Start
  <1>2. ASSUME NEW w \in Workflows, Timeout(w) PROVE RowIsThere'
    BY <1>2 DEF Timeout, Retry, TriesAreBounded, Stages
  <1>3. ASSUME NEW w \in Workflows, NEW a \in Attempts, Schedule(w, a) PROVE RowIsThere'
    BY <1>3 DEF Schedule, Stages
  <1>4. ASSUME NEW a \in Attempts, Report(a) \/ Raise(a) PROVE RowIsThere'
    BY <1>4 DEF Report, Raise, Retry, Free
  <1>5. ASSUME NEW a \in Attempts, Activity(a) \/ Fail(a), ~(Report(a) \/ Raise(a))
        PROVE  RowIsThere'
    <2>1. /\ UNCHANGED stage
          /\ step[a] # "idle"
          /\ status' = status \/ status' \in {"PROCESSING", "READY", "ERROR"}
      BY <1>5, StageFacts
         DEF Activity, Fail, Read, PagesCheck, PagesWrite, PagesConflict, ChunksCheck,
             ChunksDelete, ChunksWrite, VectorsLoad, VectorsCheck, VectorsWrite,
             VectorsConflict, Analyze, IndexLoad, IndexSave, ErrorLoad, ErrorSave, Go
    <2>2. status' # "absent"
      BY <2>1
    <2>3. QED
      BY <2>2
  <1>6. CASE Crash
    BY <1>6 DEF Crash, TriesAreBounded, Stages
  <1>7. CASE UNCHANGED vars
    BY <1>7 DEF vars
  <1>8. QED
    BY <1>1, <1>2, <1>3, <1>4, <1>5, <1>6, <1>7 DEF Next

\* What a step may do to the status and to the vectors.
LEMMA StatusSteps ==
  ASSUME RowIsThere, TypeInv, [Next]_vars
  PROVE  /\ text' = text
         /\ \/ UNCHANGED <<status, embedded, torn>>
            \/ UNCHANGED <<embedded, torn>> /\ status' = "PROCESSING"
            \/ /\ UNCHANGED <<embedded, torn>>
               /\ status' \in {"READY", "ERROR"} /\ status # "absent"
            \/ status' = status /\ status # "absent"
  <1> USE DEF dbVars, serverVars
  <1>1. CASE \E w \in Workflows : Submit(w) \/ Start(w) \/ Timeout(w)
    BY <1>1 DEF Submit, Start, Timeout, RowIsThere
  <1>2. CASE \E w \in Workflows, a \in Attempts : Schedule(w, a)
    BY <1>2 DEF Schedule
  <1>3. CASE \E a \in Attempts : Activity(a) \/ Fail(a)
    BY <1>3 DEF Activity, Fail, Read, PagesCheck, PagesWrite, PagesConflict, ChunksCheck,
                ChunksDelete, ChunksWrite, VectorsLoad, VectorsCheck, VectorsWrite,
                VectorsConflict, Analyze, IndexLoad, IndexSave, ErrorLoad, ErrorSave, Go,
                Report, Raise, RowIsThere
  <1>4. CASE Crash
    BY <1>4 DEF Crash
  <1>5. CASE UNCHANGED vars
    BY <1>5 DEF vars
  <1>6. QED
    BY <1>1, <1>2, <1>3, <1>4, <1>5 DEF Next

SearchableStep == [Documents!Next]_(Documents!vars)
Phase == [d \in {Document} |-> status]
Found == {d \in {Document} : Searchable \/ torn}

\* As long as vectors stay or are torn and READY means searchable, every step is one of
\* SearchableDocuments.
LEMMA SearchableMove ==
  ASSUME RowIsThere, TypeInv, Grows, ReadyIsSearchable', [Next]_vars
  PROVE  SearchableStep
  <1> USE DEF Phase, Found
  <1>1. Phase[Document] = status /\ Phase[Document] \in Documents!Phases
    BY DEF TypeInv, TypeOK, Documents!Phases
  <1>2. Found' = Found \/ Found' = Found \union {Document}
    BY DEF Grows, Searchable
  <1>3. CASE UNCHANGED <<embedded, torn>> /\ status' \in {"PROCESSING", "READY", "ERROR"}
             /\ (status' # "PROCESSING" => status # "absent")
    <2>1. Found' = Found
      BY <1>3 DEF Grows, Searchable
    <2>2. Phase' = [Phase EXCEPT ![Document] = status']
      OBVIOUS
    <2>3. CASE status' = "PROCESSING"
      BY <1>1, <2>1, <2>2, <2>3
         DEF SearchableStep, Documents!Next, Documents!Process, Documents!Move
    <2>4. CASE status' = "ERROR"
      BY <1>1, <1>3, <2>1, <2>2, <2>4
         DEF SearchableStep, Documents!Next, Documents!Fail, Documents!Move
    <2>5. CASE status' = "READY"
      <3>1. Document \in Found
        BY <2>1, <2>5 DEF ReadyIsSearchable
      <3>2. QED
        BY <1>1, <1>3, <2>1, <2>2, <2>5, <3>1
           DEF SearchableStep, Documents!Next, Documents!Succeed, Documents!Move
    <2>6. QED
      BY <1>3, <2>3, <2>4, <2>5
  <1>4. CASE status' = status /\ Found' = Found
    BY <1>4 DEF SearchableStep, Documents!vars
  <1>5. CASE status' = status /\ status # "absent" /\ Found' = Found \union {Document}
    BY <1>1, <1>5 DEF SearchableStep, Documents!Next, Documents!MakeSearchable
  <1>6. CASE UNCHANGED <<status, embedded, torn>>
    BY <1>4, <1>6 DEF Grows, Searchable
  <1>7. QED
    BY <1>2, <1>3, <1>4, <1>5, <1>6, StatusSteps

\* With one workflow at a time the workers keep what SearchableDocuments says
\* to those who search, although attempts are retried, fail, and go on after
\* their timeouts, up to the first write of a late attempt of create_chunks.
THEOREM SearchableRefinement ==
  ASSUME SerialUse
  PROVE  Spec => ImplementsSearchable
  <1>1. Init => RowIsThere /\ Documents!Init
    BY DEF Init, RowIsThere, Documents!Init
  <1>2. TypeInv /\ ServerInv /\ RowsInv /\ RowIsThere /\ ReadyIsSearchable' /\ [Next]_vars
          => SearchableStep
    BY RowsStep, SearchableMove
  <1>3. QED
    BY <1>1, <1>2, Invariant, SearchSafety, RowStep, PTL
       DEF Spec, SearchableStep, ImplementsSearchable, Documents!Spec
=============================================================================
