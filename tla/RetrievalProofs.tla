-------------------------- MODULE RetrievalProofs --------------------------
(***************************************************************************)
(* Theorems about Retrieval, for any documents, passages, requests,        *)
(* reviews and every top_k.                                                *)
(***************************************************************************)
EXTENDS Retrieval, FiniteSetTheorems, TLAPS

\* The documents stay within the types of SearchableDocuments.
LEMMA DocumentsType ==
  ASSUME Documents!TypeOK, Documents!Next
  PROVE  Documents!TypeOK'
  BY DEF Documents!TypeOK, Documents!Next, Documents!Phases, Documents!Process,
         Documents!MakeSearchable, Documents!Succeed, Documents!Fail, Documents!Move

\* A review at work has an answer, which the types alone do not say.
TypeInv ==
  /\ TypeOK
  /\ \A v \in Reviews : review[v] \in Reviewing => target[v] \in Requests

\* The types of what a request has in its hands.
RequestTypes ==
  /\ step \in [Requests -> {"idle"} \union Working \union Over]
  /\ kind \in [Requests -> AllKinds \union {"none"}]
  /\ thread \in [Requests -> Requests]
  /\ hits \in [Requests -> SUBSET Passages]
  /\ degraded \in [Requests -> BOOLEAN]
  /\ evidence \in [Requests -> SUBSET Passages]
  /\ written \in [Requests -> SUBSET Rows]
  /\ stored \in [Requests -> SUBSET Rows]
  /\ steady \in [Requests -> SUBSET Docs]
  /\ everReady \in [Requests -> SUBSET Docs]

\* Requests and documents leave the reviews alone.
LEMMA OnlyRequests ==
  ASSUME TypeInv, RequestTypes', Documents!TypeOK', UNCHANGED reviewVars
  PROVE  TypeInv'
  BY DEF TypeInv, TypeOK, RequestTypes, reviewVars, Reviewing

\* Opening a request keeps the types of requests.
LEMMA OpenTypes ==
  ASSUME TypeInv, NEW q \in Requests, NEW k \in AllKinds, NEW t \in Requests,
         NEW rs \in SUBSET Rows, Open(q, k, t, rs)
  PROVE  RequestTypes'
<1>1. Ready \subseteq Docs
  BY DEF Ready
<1> QED
  BY <1>1 DEF TypeInv, TypeOK, RequestTypes, Open, Opening, Goto, Working

\* So does leaving it.
LEMMA LeaveTypes ==
  ASSUME TypeInv, NEW q \in Requests, NEW s \in Over, NEW rs \in SUBSET Rows, Leave(q, s, rs)
  PROVE  RequestTypes'
  BY DEF TypeInv, TypeOK, RequestTypes, Leave, Goto

\* A step keeps the type of every variable: one step of the proof per action.
LEMMA StepType == TypeInv /\ [Next]_vars => TypeInv'
<1> SUFFICES ASSUME TypeInv, [Next]_vars PROVE TypeInv'
  OBVIOUS
<1>a. /\ PassagesOf(Ready) \subseteq Passages
      /\ Ready \subseteq Docs /\ Ready' \subseteq Docs
  BY DEF PassagesOf, Ready
<1>b. UNCHANGED docVars => Documents!TypeOK'
  BY DEF TypeInv, TypeOK, docVars, Documents!TypeOK
<1>1. CASE DocumentsMove
  <2>1. Documents!TypeOK'
    BY <1>1, DocumentsType DEF DocumentsMove, TypeInv, TypeOK
  <2>2. RequestTypes'
    BY <1>1, <1>a DEF DocumentsMove, TypeInv, TypeOK, RequestTypes
  <2> QED
    BY <1>1, <2>1, <2>2, OnlyRequests DEF DocumentsMove
<1>2. ASSUME NEW q \in Requests, AskNew(q) \/ Search(q) \/ GenerateLetter(q) PROVE TypeInv'
  <2>1. PICK k \in AllKinds, rs \in SUBSET Rows : Open(q, k, q, rs)
    BY <1>2, ConstantsAssumption DEF AskNew, Search, GenerateLetter, AllKinds, Rows
  <2>2. RequestTypes'
    BY <2>1, OpenTypes
  <2> QED
    BY <2>1, <2>2, <1>b, OnlyRequests DEF Open
<1>3. ASSUME NEW q \in Requests, NEW t \in Requests, AskMore(q, t) PROVE TypeInv'
  <2>1. Open(q, "ask", thread[t], {"question"}) /\ thread[t] \in Requests
    BY <1>3 DEF AskMore, TypeInv, TypeOK
  <2>2. RequestTypes'
    BY <2>1, OpenTypes DEF AllKinds, Rows
  <2> QED
    BY <2>1, <2>2, <1>b, OnlyRequests DEF Open
<1>4. ASSUME NEW q \in Requests, NEW t \in Requests, AskMoreRefused(q, t) PROVE TypeInv'
  <2>1. RequestTypes'
    BY <1>4 DEF AskMoreRefused, TypeInv, TypeOK, RequestTypes, Goto, Over
  <2> QED
    BY <1>4, <2>1, <1>b, OnlyRequests DEF AskMoreRefused
<1>5. ASSUME NEW q \in Requests, FullText(q) PROVE TypeInv'
  <2>1. PICK to \in Working : Move(q, "texting", to)
    BY <1>5 DEF FullText, Working
  <2>2. PICK ps \in SUBSET Passages :
          /\ hits' = [hits EXCEPT ![q] = ps]
          /\ evidence' = IF kind[q] = "letter" THEN [evidence EXCEPT ![q] = ps] ELSE evidence
    BY <1>5 DEF FullText, PassagesOf
  <2>3. RequestTypes'
    BY <1>5, <2>1, <2>2 DEF FullText, Move, Goto, TypeInv, TypeOK, RequestTypes
  <2> QED
    BY <2>1, <2>3, <1>b, OnlyRequests DEF Move
<1> USE DEF Move, Goto, Working, Over, Rows
<1>6. ASSUME NEW q \in Requests, FullTextFails(q) \/ Embed(q) \/ EmbedFails(q) PROVE TypeInv'
  <2>1. RequestTypes'
    BY <1>6 DEF FullTextFails, Embed, EmbedFails, TypeInv, TypeOK, RequestTypes
  <2> QED
    BY <1>6, <2>1, <1>b, OnlyRequests DEF FullTextFails, Embed, EmbedFails
<1>7. ASSUME NEW q \in Requests, VectorQuery(q) PROVE TypeInv'
  <2>1. RequestTypes'
    BY <1>7 DEF VectorQuery, Best, PassagesOf, TypeInv, TypeOK, RequestTypes
  <2> QED
    BY <1>7, <2>1, <1>b, OnlyRequests DEF VectorQuery
<1>8. ASSUME NEW q \in Requests, Rank(q) PROVE TypeInv'
  <2>1. RequestTypes'
    BY <1>8 DEF Rank, Best, TypeInv, TypeOK, RequestTypes
  <2> QED
    BY <1>8, <2>1, <1>b, OnlyRequests DEF Rank
<1>9. ASSUME NEW q \in Requests, Generate(q) \/ Respond(q) PROVE TypeInv'
  <2>1. RequestTypes'
    BY <1>9 DEF Generate, Respond, TypeInv, TypeOK, RequestTypes
  <2> QED
    BY <1>9, <2>1, <1>b, OnlyRequests DEF Generate, Respond
<1>10. ASSUME NEW q \in Requests, Commit(q) \/ Break(q) PROVE TypeInv'
  <2>1. PICK s \in Over, rs \in SUBSET Rows : Leave(q, s, rs)
    BY <1>10 DEF Commit, Break, TypeInv, TypeOK
  <2>2. RequestTypes'
    BY <2>1, LeaveTypes
  <2> QED
    BY <2>1, <2>2, <1>b, OnlyRequests DEF Leave
<1> USE DEF TypeInv, TypeOK, requestVars, Reviewing
<1>11. ASSUME NEW v \in Reviews, NEW q \in Requests, NEW s \in Verdicts, ReviewLoad(v, q, s)
       PROVE  TypeInv'
  BY <1>11, <1>b, ConstantsAssumption DEF ReviewLoad
<1>12. ASSUME NEW v \in Reviews, ReviewSelectRun(v) \/ ReviewFlush(v) PROVE TypeInv'
  BY <1>12, <1>b DEF ReviewSelectRun, ReviewFlush, ReviewGoto
<1>13. ASSUME NEW v \in Reviews, ReviewCommit(v) \/ ReviewBreaks(v) PROVE TypeInv'
  <2>1. ReviewLeave(v) /\ verdict[v] \in Statuses
    BY <1>13 DEF ReviewCommit, ReviewBreaks
  <2>2. messageStatus' \in [Requests -> Statuses] /\ runStatus' \in [Requests -> Statuses]
    BY <1>13, <2>1 DEF ReviewCommit, ReviewBreaks
  <2> QED
    BY <2>1, <2>2, <1>b DEF ReviewLeave, Statuses
<1>14. CASE UNCHANGED vars
  BY <1>14, <1>b DEF vars, reviewVars
<1> QED
  BY <1>1, <1>2, <1>3, <1>4, <1>5, <1>6, <1>7, <1>8, <1>9, <1>10, <1>11, <1>12, <1>13, <1>14
     DEF Next, Begin, Handle, Review

\* TypeOK, for every value of the constants.
THEOREM TypeCorrect == Spec => []TypeOK
<1>1. Init => TypeInv
  BY ConstantsAssumption
     DEF Init, TypeInv, TypeOK, Documents!Init, Documents!TypeOK, Documents!Phases,
         Statuses, Reviewing
<1>2. TypeInv => TypeOK
  BY DEF TypeInv
<1> QED
  BY <1>1, <1>2, StepType, PTL DEF Spec

-----------------------------------------------------------------------------
(* What is recorded *)

\* The rows of a recorded question.
Whole(rows) ==
  /\ {"question", "retrieval", "answer"} \subseteq rows
  /\ "run" \in rows <=> "citations" \in rows

\* What a question has written before its retrieval is recorded.
Asking == {"texting", "embedding", "comparing", "ranking"}

\* Rows become visible only when a request is done, and up to then a question
\* has written what the code before its step writes; it stays in a conversation
\* that is stored or that it is going to store itself.
RecordInv == \A q \in Requests :
  /\ step[q] # "done" => stored[q] = {}
  /\ stored[q] # {} => Whole(stored[q]) /\ "conversation" \in stored[thread[q]]
  /\ step[q] \in Working /\ kind[q] # "ask" => written[q] = {}
  /\ step[q] \in Working /\ kind[q] = "ask" =>
       /\ "question" \in written[q]
       /\ \/ "conversation" \in stored[thread[q]]
          \/ thread[q] = q /\ "conversation" \in written[q]
  /\ kind[q] = "ask" /\ step[q] \in Asking =>
       written[q] \intersect {"run", "citations"} = {}
  /\ kind[q] = "ask" /\ step[q] = "generating" =>
       "retrieval" \in written[q] /\ written[q] \intersect {"run", "citations"} = {}
  /\ kind[q] = "ask" /\ step[q] \in {"responding", "committing"} => Whole(written[q])

\* What RecordInv says of the request that moves and of those in whose
\* conversations the others are is not disturbed by a step that stores nothing.
LEMMA RecordKept ==
  ASSUME TypeInv, RecordInv, UNCHANGED <<step, kind, thread, written, stored>>
  PROVE  RecordInv'
  BY DEF RecordInv, Whole

\* A move of a request within its transaction: only what RecordInv says of its
\* own step is left to show.
LEMMA RecordMoves ==
  ASSUME TypeInv, RecordInv, NEW q \in Requests, NEW to \in Working,
         step[q] \in Working, step' = [step EXCEPT ![q] = to],
         UNCHANGED <<kind, thread, stored>>,
         NEW rs \in SUBSET Rows, written' = [written EXCEPT ![q] = rs],
         kind[q] # "ask" => rs = {},
         kind[q] = "ask" =>
           /\ written[q] \subseteq rs
           /\ to \in Asking => rs \intersect {"run", "citations"} = {}
           /\ to = "generating" => "retrieval" \in rs /\ rs \intersect {"run", "citations"} = {}
           /\ to \in {"responding", "committing"} => Whole(rs)
  PROVE  RecordInv'
<1> USE DEF TypeInv, TypeOK
<1>1. step'[q] = to /\ written'[q] = rs /\ step[q] # "done" /\ to # "done"
  BY DEF Working
<1>2. \A p \in Requests : p # q => step'[p] = step[p] /\ written'[p] = written[p]
  OBVIOUS
<1> SUFFICES ASSUME NEW p \in Requests PROVE RecordInv!(p)'
  BY DEF RecordInv
<1>3. CASE p = q
  BY <1>1, <1>3 DEF RecordInv, Asking, Working
<1>4. CASE p # q
  BY <1>2, <1>4 DEF RecordInv
<1> QED
  BY <1>3, <1>4

LEMMA RecordStep == TypeInv /\ RecordInv /\ [Next]_vars => RecordInv'
<1> SUFFICES ASSUME TypeInv, RecordInv, [Next]_vars PROVE RecordInv'
  OBVIOUS
<1> USE DEF Goto
<1>1. CASE DocumentsMove
  BY <1>1, RecordKept DEF DocumentsMove
<1>2. ASSUME NEW q \in Requests, Search(q) \/ GenerateLetter(q) PROVE RecordInv'
  <2>1. PICK k \in AllKinds \ {"ask"} : Open(q, k, q, {})
    BY <1>2, ConstantsAssumption DEF Search, GenerateLetter, AllKinds
  <2> QED
    BY <2>1 DEF Open, Opening, RecordInv, TypeInv, TypeOK, Working, Asking
<1>3. ASSUME NEW q \in Requests, NEW t \in Requests, NEW rs \in SUBSET {"conversation", "question"},
             Open(q, "ask", t, rs), "question" \in rs,
             \/ "conversation" \in stored[t]
             \/ t = q /\ "conversation" \in rs
      PROVE  RecordInv'
  BY <1>3 DEF Open, Opening, RecordInv, TypeInv, TypeOK, Working, Asking
<1>4. ASSUME NEW q \in Requests, AskNew(q) PROVE RecordInv'
  BY <1>3, <1>4 DEF AskNew
<1>5. ASSUME NEW q \in Requests, NEW t \in Requests, AskMore(q, t) PROVE RecordInv'
  <2>1. thread[t] \in Requests
    BY DEF TypeInv, TypeOK
  <2> QED
    BY <1>3, <1>5, <2>1 DEF AskMore
<1>6. ASSUME NEW q \in Requests, NEW t \in Requests, AskMoreRefused(q, t) PROVE RecordInv'
  BY <1>6 DEF AskMoreRefused, RecordInv, TypeInv, TypeOK, Working, Asking
<1>7. ASSUME NEW q \in Requests, FullText(q) \/ FullTextFails(q) \/ Embed(q)
                                   \/ EmbedFails(q) \/ VectorQuery(q)
      PROVE  RecordInv'
  <2>1. PICK to \in {"embedding", "generating", "ranking", "comparing"} :
          /\ step' = [step EXCEPT ![q] = to]
          /\ to = "generating" => kind[q] # "ask"
    BY <1>7 DEF FullText, FullTextFails, Embed, EmbedFails, VectorQuery, Move
  <2>2. step[q] \in Asking /\ UNCHANGED <<kind, thread, stored, written>>
    BY <1>7 DEF FullText, FullTextFails, Embed, EmbedFails, VectorQuery, Move, Asking
  <2>3. written' = [written EXCEPT ![q] = written[q]] /\ written[q] \in SUBSET Rows
    BY <2>2 DEF TypeInv, TypeOK
  <2>4. step[q] \in Working /\ to \in Working
    BY <2>1, <2>2 DEF Asking, Working
  <2>5. kind[q] # "ask" => written[q] = {}
    BY <2>4 DEF RecordInv
  <2>6. kind[q] = "ask" => to \in Asking /\ written[q] \intersect {"run", "citations"} = {}
    BY <2>1, <2>2 DEF RecordInv, Asking
  <2>7. to \in Asking => to # "generating" /\ to \notin {"responding", "committing"}
    BY DEF Asking
  <2> QED
    BY <2>1, <2>2, <2>3, <2>4, <2>5, <2>6, <2>7, RecordMoves
<1>8. ASSUME NEW q \in Requests, Rank(q) PROVE RecordInv'
  <2> DEFINE rs == IF kind[q] # "ask" THEN written[q]
                   ELSE written[q] \union {"retrieval"}
                          \union (IF hits[q] = {} THEN {"answer"} ELSE {})
  <2>1. rs \in SUBSET Rows /\ written' = [written EXCEPT ![q] = rs]
    BY <1>8 DEF Rank, TypeInv, TypeOK, Rows
  <2>2. CASE kind[q] = "ask" /\ hits[q] # {}
    <3>1. step' = [step EXCEPT ![q] = "generating"] /\ step[q] = "ranking"
      BY <1>8, <2>2 DEF Rank, Move
    <3>2. written[q] \subseteq rs /\ "retrieval" \in rs /\ rs \intersect {"run", "citations"} = {}
      BY <2>2, <3>1 DEF RecordInv, Asking
    <3> HIDE DEF rs
    <3> QED
      BY <1>8, <2>1, <2>2, <3>1, <3>2, RecordMoves DEF Rank, Move, Working, Asking
  <2>3. CASE ~(kind[q] = "ask" /\ hits[q] # {})
    <3>1. step' = [step EXCEPT ![q] = "responding"] /\ step[q] = "ranking"
      BY <1>8, <2>3 DEF Rank, Move
    <3>2. kind[q] = "ask" => written[q] \subseteq rs /\ Whole(rs)
      BY <2>3, <3>1 DEF RecordInv, Asking, Working, Whole
    <3>3. kind[q] # "ask" => rs = {}
      BY <3>1 DEF RecordInv, Working
    <3> HIDE DEF rs
    <3> QED
      BY <1>8, <2>1, <3>1, <3>2, <3>3, RecordMoves DEF Rank, Move, Working, Asking
  <2> QED
    BY <2>2, <2>3
<1>9. ASSUME NEW q \in Requests, Generate(q) PROVE RecordInv'
  <2> DEFINE rs == IF kind[q] # "ask" THEN written[q]
                   ELSE written[q] \union {"run", "answer", "citations"}
  <2>1. rs \in SUBSET Rows /\ written' = [written EXCEPT ![q] = rs]
    BY <1>9 DEF Generate, TypeInv, TypeOK, Rows
  <2>2. step' = [step EXCEPT ![q] = "responding"] /\ step[q] = "generating"
    BY <1>9 DEF Generate, Move
  <2>3. kind[q] = "ask" => written[q] \subseteq rs /\ Whole(rs)
    BY <2>2 DEF RecordInv, Working, Whole
  <2>4. kind[q] # "ask" => rs = {}
    BY <2>2 DEF RecordInv, Working
  <2> HIDE DEF rs
  <2> QED
    BY <1>9, <2>1, <2>2, <2>3, <2>4, RecordMoves DEF Generate, Move, Working, Asking
<1>10. ASSUME NEW q \in Requests, Respond(q) PROVE RecordInv'
  <2>1. step' = [step EXCEPT ![q] = "committing"] /\ step[q] = "responding"
    BY <1>10 DEF Respond, Move
  <2>2. written' = [written EXCEPT ![q] = written[q]] /\ written[q] \in SUBSET Rows
    BY <1>10 DEF Respond, TypeInv, TypeOK
  <2>3. kind[q] = "ask" => Whole(written[q])
    BY <2>1 DEF RecordInv
  <2>4. kind[q] # "ask" => written[q] = {}
    BY <2>1 DEF RecordInv, Working
  <2> QED
    BY <1>10, <2>1, <2>2, <2>3, <2>4, RecordMoves DEF Respond, Move, Working, Asking
<1>11. ASSUME NEW q \in Requests, Commit(q) PROVE RecordInv'
  <2>1. /\ step[q] = "committing" /\ stored[q] = {}
        /\ step' = [step EXCEPT ![q] = "done"]
        /\ stored' = [stored EXCEPT ![q] = written[q]]
        /\ written' = [written EXCEPT ![q] = {}]
        /\ UNCHANGED <<kind, thread>>
    BY <1>11 DEF Commit, Leave, RecordInv
  <2>2. \A p \in Requests : stored[p] # {} => stored'[p] = stored[p]
    BY <2>1 DEF TypeInv, TypeOK
  <2>3. \A p \in Requests : "conversation" \in stored[thread[p]] => "conversation" \in stored'[thread[p]]
    BY <2>2 DEF TypeInv, TypeOK
  <2>4. written[q] # {} => Whole(written[q]) /\ "conversation" \in stored'[thread[q]]
    <3>1. CASE kind[q] = "ask"
      BY <2>1, <2>3, <3>1 DEF RecordInv, Working, TypeInv, TypeOK
    <3>2. CASE kind[q] # "ask"
      BY <2>1, <3>2 DEF RecordInv, Working
    <3> QED
      BY <3>1, <3>2
  <2> SUFFICES ASSUME NEW p \in Requests PROVE RecordInv!(p)'
    BY DEF RecordInv
  <2>5. CASE p = q
    BY <2>1, <2>4, <2>5 DEF RecordInv, TypeInv, TypeOK, Working, Asking
  <2>6. CASE p # q
    BY <2>1, <2>2, <2>3, <2>6 DEF RecordInv, TypeInv, TypeOK, Whole
  <2> QED
    BY <2>5, <2>6
<1>12. ASSUME NEW q \in Requests, Break(q) PROVE RecordInv'
  <2>1. /\ step[q] \in Working
        /\ step' = [step EXCEPT ![q] = "failed"]
        /\ stored' = [stored EXCEPT ![q] = stored[q]]
        /\ written' = [written EXCEPT ![q] = {}]
        /\ UNCHANGED <<kind, thread>>
    BY <1>12 DEF Break, Leave
  <2>2. stored' = stored
    BY <2>1 DEF TypeInv, TypeOK
  <2> QED
    BY <2>1, <2>2 DEF RecordInv, TypeInv, TypeOK, Whole, Working, Asking
<1>13. ASSUME NEW v \in Reviews, NEW q \in Requests, NEW s \in Verdicts, ReviewLoad(v, q, s)
       PROVE  RecordInv'
  BY <1>13, RecordKept DEF ReviewLoad, requestVars
<1>14. ASSUME NEW v \in Reviews, Review(v) PROVE RecordInv'
  BY <1>14, RecordKept
     DEF Review, ReviewSelectRun, ReviewFlush, ReviewGoto, ReviewCommit, ReviewBreaks,
         ReviewLeave, requestVars
<1>15. CASE UNCHANGED vars
  BY <1>15, RecordKept DEF vars, requestVars
<1> QED
  BY <1>1, <1>2, <1>4, <1>5, <1>6, <1>7, <1>8, <1>9, <1>10, <1>11, <1>12, <1>13, <1>14, <1>15
     DEF Next, Begin, Handle

LEMMA RecordInvariant == Spec => [](TypeInv /\ RecordInv)
<1>1. Init => TypeInv
  BY ConstantsAssumption
     DEF Init, TypeInv, TypeOK, Documents!Init, Documents!TypeOK, Documents!Phases,
         Statuses, Reviewing
<1>2. Init => RecordInv
  BY DEF Init, RecordInv, Working, Asking
<1> QED
  BY <1>1, <1>2, StepType, RecordStep, PTL DEF Spec

\* RecordedWhole: a question is recorded with all its rows, in a conversation
\* that is stored, or not at all.
THEOREM RecordSafety == Spec => []RecordedWhole
<1>1. RecordInv => RecordedWhole
  BY DEF RecordInv, RecordedWhole, Whole
<1> QED
  BY <1>1, RecordInvariant, PTL

-----------------------------------------------------------------------------
(* Reviews *)

\* With no overlap, one review at a time is at work on an answer, and what it
\* has loaded is still what is stored.  Before an answer is stored nobody has
\* judged it.
ReviewInv ==
  /\ \A v \in Reviews : review[v] \in Reviewing => "answer" \in stored[target[v]]
  /\ \A q \in Requests : stored[q] = {} =>
       messageStatus[q] = "PENDING" /\ runStatus[q] = "PENDING"
  /\ \A q \in Requests : "run" \in stored[q] /\ q \notin overlapped =>
       messageStatus[q] = runStatus[q]
  /\ \A v, w \in Reviews :
       review[v] \in Reviewing /\ review[w] \in Reviewing /\ target[v] = target[w]
         /\ target[v] \notin overlapped => v = w
  /\ \A v \in Reviews : review[v] \in Reviewing /\ target[v] \notin overlapped =>
       /\ seen[v] = messageStatus[target[v]]
       /\ review[v] \in {"selected", "flushed"} /\ "run" \in stored[target[v]] =>
            seenRun[v] = runStatus[target[v]]

\* Requests add to what is stored, and only where nothing was.
LEMMA StoredStays ==
  ASSUME TypeInv, RecordInv, [Next]_vars, NEW q \in Requests
  PROVE  stored[q] # {} => stored'[q] = stored[q]
<1> USE DEF TypeInv, TypeOK
<1>1. ASSUME NEW p \in Requests, Commit(p) PROVE stored[q] # {} => stored'[q] = stored[q]
  BY <1>1 DEF Commit, Leave, RecordInv
<1>2. ASSUME NEW p \in Requests, Break(p) PROVE stored'[q] = stored[q]
  BY <1>2 DEF Break, Leave
<1>3. ASSUME NEW p \in Requests, Begin(p) PROVE stored' = stored
  BY <1>3 DEF Begin, AskNew, Search, GenerateLetter, AskMore, AskMoreRefused, Open
<1>4. ASSUME NEW p \in Requests, Handle(p), ~Commit(p), ~Break(p) PROVE stored' = stored
  BY <1>4 DEF Handle, FullText, FullTextFails, Embed, EmbedFails, VectorQuery, Rank,
              Generate, Respond, Move
<1>5. ASSUME NEW v \in Reviews, \/ Review(v)
                                \/ \E p \in Requests, s \in Verdicts : ReviewLoad(v, p, s)
      PROVE  stored' = stored
  BY <1>5 DEF Review, ReviewSelectRun, ReviewFlush, ReviewGoto, ReviewCommit, ReviewBreaks,
              ReviewLeave, ReviewLoad, requestVars
<1>6. DocumentsMove \/ UNCHANGED vars => stored' = stored
  BY DEF DocumentsMove, vars, requestVars
<1> QED
  BY <1>1, <1>2, <1>3, <1>4, <1>5, <1>6 DEF Next

\* What ReviewInv says is not disturbed by anything but a review.
LEMMA ReviewKept ==
  ASSUME TypeInv, ReviewInv, UNCHANGED reviewVars,
         \A q \in Requests : stored[q] # {} => stored'[q] = stored[q]
  PROVE  ReviewInv'
<1> USE DEF ReviewInv, reviewVars
<1>1. \A v \in Reviews : review[v] \in Reviewing => stored'[target[v]] = stored[target[v]]
  BY DEF TypeInv
<1>2. \A v \in Reviews : review'[v] \in Reviewing => "answer" \in stored'[target'[v]]
  BY <1>1
<1>3. \A q \in Requests : stored'[q] = {} =>
        messageStatus'[q] = "PENDING" /\ runStatus'[q] = "PENDING"
  OBVIOUS
<1>4. \A q \in Requests : "run" \in stored'[q] /\ q \notin overlapped' =>
        messageStatus'[q] = runStatus'[q]
  OBVIOUS
<1>5. \A v, w \in Reviews :
        review'[v] \in Reviewing /\ review'[w] \in Reviewing /\ target'[v] = target'[w]
          /\ target'[v] \notin overlapped' => v = w
  OBVIOUS
<1>6. \A v \in Reviews : review'[v] \in Reviewing /\ target'[v] \notin overlapped' =>
        /\ seen'[v] = messageStatus'[target'[v]]
        /\ review'[v] \in {"selected", "flushed"} /\ "run" \in stored'[target'[v]] =>
             seenRun'[v] = runStatus'[target'[v]]
  BY <1>1
<1> QED
  BY <1>2, <1>3, <1>4, <1>5, <1>6 DEF Reviewing

LEMMA ReviewStep == TypeInv /\ RecordInv /\ ReviewInv /\ [Next]_vars => ReviewInv'
<1> SUFFICES ASSUME TypeInv, RecordInv, ReviewInv, [Next]_vars PROVE ReviewInv'
  OBVIOUS
<1>1. CASE UNCHANGED reviewVars
  BY <1>1, StoredStays, ReviewKept
<1>2. ASSUME NEW v \in Reviews, NEW q \in Requests, NEW s \in Verdicts, ReviewLoad(v, q, s)
      PROVE  ReviewInv'
  <2>1. stored' = stored
    BY <1>2 DEF ReviewLoad, requestVars
  <2>2. OpenReviews(q) # {} => q \in overlapped'
    BY <1>2 DEF ReviewLoad
  <2> QED
    BY <1>2, <2>1, <2>2 DEF ReviewLoad, ReviewInv, TypeInv, TypeOK, Reviewing, OpenReviews
<1>3. ASSUME NEW v \in Reviews, ReviewSelectRun(v) PROVE ReviewInv'
  BY <1>3 DEF ReviewSelectRun, ReviewGoto, ReviewInv, TypeInv, TypeOK, Reviewing, requestVars
<1>4. ASSUME NEW v \in Reviews, ReviewFlush(v) PROVE ReviewInv'
  BY <1>4 DEF ReviewFlush, ReviewGoto, ReviewInv, TypeInv, TypeOK, Reviewing, requestVars
<1>5. ASSUME NEW v \in Reviews, ReviewLeave(v), NEW q \in Requests, q = target[v],
             review[v] \in Reviewing,
             \A p \in Requests \ {q} : /\ messageStatus'[p] = messageStatus[p]
                                       /\ runStatus'[p] = runStatus[p],
             "run" \in stored[q] /\ q \notin overlapped => messageStatus'[q] = runStatus'[q]
      PROVE  ReviewInv'
  <2>1. stored' = stored /\ overlapped' = overlapped
    BY <1>5 DEF ReviewLeave, requestVars
  <2>2. \A w \in Reviews : review'[w] \in Reviewing =>
          /\ w # v
          /\ review'[w] = review[w] /\ target'[w] = target[w]
          /\ seen'[w] = seen[w] /\ seenRun'[w] = seenRun[w]
    BY <1>5 DEF ReviewLeave, TypeInv, TypeOK, Reviewing
  <2>3. \A w \in Reviews : review'[w] \in Reviewing /\ target[w] = q => q \in overlapped
    BY <1>5, <2>2 DEF ReviewInv
  <2>4. "answer" \in stored[q]
    BY <1>5 DEF ReviewInv
  <2>5. \A p \in Requests : stored'[p] = {} =>
          messageStatus'[p] = "PENDING" /\ runStatus'[p] = "PENDING"
    BY <1>5, <2>1, <2>4 DEF ReviewInv
  <2>6. \A p \in Requests : "run" \in stored'[p] /\ p \notin overlapped' =>
          messageStatus'[p] = runStatus'[p]
    BY <1>5, <2>1 DEF ReviewInv
  <2>7. \A w \in Reviews : review'[w] \in Reviewing =>
          target[w] \in Requests /\ "answer" \in stored'[target'[w]]
    BY <2>1, <2>2 DEF ReviewInv, TypeInv
  <2>8. \A w, u \in Reviews :
          review'[w] \in Reviewing /\ review'[u] \in Reviewing /\ target'[w] = target'[u]
            /\ target'[w] \notin overlapped' => w = u
    BY <2>1, <2>2 DEF ReviewInv
  <2>9. \A w \in Reviews : review'[w] \in Reviewing /\ target'[w] \notin overlapped' =>
          /\ seen'[w] = messageStatus'[target'[w]]
          /\ review'[w] \in {"selected", "flushed"} /\ "run" \in stored'[target'[w]] =>
               seenRun'[w] = runStatus'[target'[w]]
    <3> SUFFICES ASSUME NEW w \in Reviews, review'[w] \in Reviewing, target'[w] \notin overlapped'
                 PROVE  /\ seen'[w] = messageStatus'[target'[w]]
                        /\ review'[w] \in {"selected", "flushed"} /\ "run" \in stored'[target'[w]] =>
                             seenRun'[w] = runStatus'[target'[w]]
      OBVIOUS
    <3>1. target[w] \in Requests \ {q} /\ target'[w] = target[w]
      BY <2>1, <2>2, <2>3, <2>7
    <3> QED
      BY <1>5, <2>1, <2>2, <3>1 DEF ReviewInv
  <2> QED
    BY <2>5, <2>6, <2>7, <2>8, <2>9 DEF ReviewInv
<1>6. ASSUME NEW v \in Reviews, ReviewCommit(v) PROVE ReviewInv'
  <2> DEFINE q == target[v]
  <2>1. review[v] = "flushed" /\ q \in Requests
    BY <1>6 DEF ReviewCommit, TypeInv, Reviewing
  <2>2. \A p \in Requests \ {q} : /\ messageStatus'[p] = messageStatus[p]
                                  /\ runStatus'[p] = runStatus[p]
    BY <1>6, <2>1 DEF ReviewCommit, TypeInv, TypeOK
  <2>3. ASSUME "run" \in stored[q], q \notin overlapped PROVE messageStatus'[q] = runStatus'[q]
    <3>1. seen[v] = messageStatus[q] /\ seenRun[v] = runStatus[q]
      BY <2>1, <2>3 DEF ReviewInv, Reviewing
    <3>2. messageStatus'[q] = verdict[v]
      BY <1>6, <2>1, <3>1 DEF ReviewCommit, MessageDirty, TypeInv, TypeOK
    <3>3. runStatus'[q] = verdict[v]
      BY <1>6, <2>1, <2>3, <3>1 DEF ReviewCommit, RunDirty, TypeInv, TypeOK
    <3> QED
      BY <3>2, <3>3
  <2>4. ReviewLeave(v)
    BY <1>6 DEF ReviewCommit
  <2> QED
    BY <1>5, <2>1, <2>2, <2>3, <2>4 DEF Reviewing
<1>7. ASSUME NEW v \in Reviews, ReviewBreaks(v) PROVE ReviewInv'
  <2>1. target[v] \in Requests /\ UNCHANGED <<messageStatus, runStatus>>
    BY <1>7 DEF ReviewBreaks, TypeInv
  <2> QED
    BY <1>5, <1>7, <2>1 DEF ReviewBreaks, ReviewInv
<1>8. ASSUME NEW q \in Requests, Begin(q) \/ Handle(q) PROVE UNCHANGED reviewVars
  BY <1>8 DEF Begin, AskNew, Search, GenerateLetter, AskMore, AskMoreRefused, Open,
              Handle, FullText, FullTextFails, Embed, EmbedFails, VectorQuery, Rank,
              Generate, Respond, Move, Commit, Break, Leave
<1>9. DocumentsMove \/ UNCHANGED vars => UNCHANGED reviewVars
  BY DEF DocumentsMove, vars
<1> QED
  BY <1>1, <1>2, <1>3, <1>4, <1>6, <1>7, <1>8, <1>9 DEF Next, Review

\* DisagreeOnlyByOverlap: reviews one after another leave answer and model run
\* with the same status, whatever order they come in and wherever one breaks.
THEOREM ReviewSafety == Spec => []DisagreeOnlyByOverlap
<1>1. Init => ReviewInv
  BY DEF Init, ReviewInv, Reviewing
<1>2. ReviewInv => DisagreeOnlyByOverlap
  BY DEF ReviewInv, DisagreeOnlyByOverlap
<1> QED
  BY <1>1, <1>2, RecordInvariant, ReviewStep, PTL DEF Spec

-----------------------------------------------------------------------------
(* What answers rest on *)

\* While a question or a letter is worked on, what it has found comes from
\* documents that were READY since it began; those that are READY now are some
\* of them.
GroundInv == \A q \in Requests :
  /\ step[q] = "idle" => hits[q] = {} /\ evidence[q] = {}
  /\ step[q] \in Working => Ready \subseteq everReady[q]
  /\ step[q] \in Working /\ kind[q] \in {"ask", "letter"} =>
       /\ hits[q] \subseteq PassagesOf(everReady[q])
       /\ evidence[q] \subseteq PassagesOf(everReady[q])

\* Only the documents themselves change what is READY.
LEMMA ReadyStays == phase' = phase => Ready' = Ready
  BY DEF Ready

\* GroundInv has to be shown of the one request that moves only.
LEMMA GroundMoves ==
  ASSUME TypeInv, GroundInv, NEW q \in Requests, UNCHANGED docVars,
         \A p \in Requests \ {q} :
           /\ step'[p] = step[p] /\ kind'[p] = kind[p] /\ hits'[p] = hits[p]
           /\ evidence'[p] = evidence[p] /\ everReady'[p] = everReady[p],
         step'[q] # "idle",
         step'[q] \in Working => Ready \subseteq everReady'[q],
         step'[q] \in Working /\ kind'[q] \in {"ask", "letter"} =>
           /\ hits'[q] \subseteq PassagesOf(everReady'[q])
           /\ evidence'[q] \subseteq PassagesOf(everReady'[q])
  PROVE  GroundInv'
<1>1. Ready' = Ready
  BY ReadyStays DEF docVars
<1> SUFFICES ASSUME NEW p \in Requests PROVE GroundInv!(p)'
  BY DEF GroundInv
<1>2. CASE p = q
  BY <1>1, <1>2 DEF PassagesOf
<1>3. CASE p # q
  BY <1>1, <1>3 DEF GroundInv, PassagesOf
<1> QED
  BY <1>2, <1>3

LEMMA GroundStep == TypeInv /\ GroundInv /\ [Next]_vars => GroundInv'
<1> SUFFICES ASSUME TypeInv, GroundInv, [Next]_vars PROVE GroundInv'
  OBVIOUS
<1> USE DEF TypeInv, TypeOK, Goto
<1>1. CASE DocumentsMove
  BY <1>1 DEF DocumentsMove, GroundInv, PassagesOf, Ready
<1>2. ASSUME NEW q \in Requests, NEW k, NEW t \in Requests, NEW rs, Open(q, k, t, rs)
      PROVE  GroundInv'
  <2>1. hits'[q] = {} /\ evidence'[q] = {} /\ everReady'[q] = Ready
    BY <1>2 DEF Open, GroundInv, Ready
  <2>2. step'[q] # "idle"
    BY <1>2 DEF Open, Opening
  <2>3. \A p \in Requests \ {q} :
          /\ step'[p] = step[p] /\ kind'[p] = kind[p] /\ hits'[p] = hits[p]
          /\ evidence'[p] = evidence[p] /\ everReady'[p] = everReady[p]
    BY <1>2 DEF Open
  <2> QED
    BY <1>2, <2>1, <2>2, <2>3, GroundMoves DEF Open
<1>3. ASSUME NEW q \in Requests, Begin(q) PROVE GroundInv'
  <2>1. CASE \E k \in AllKinds, t \in Requests, rs \in SUBSET Rows : Open(q, k, t, rs)
    BY <1>2, <2>1
  <2>2. CASE \E t \in Requests : AskMoreRefused(q, t)
    <3>1. /\ step' = [step EXCEPT ![q] = "failed"]
          /\ UNCHANGED <<docVars, kind, hits, evidence, everReady>>
      BY <2>2 DEF AskMoreRefused
    <3> QED
      BY <3>1, GroundMoves DEF Working
  <2>3. \A t \in Requests : thread[t] \in Requests
    OBVIOUS
  <2> QED
    BY <1>3, <2>1, <2>2, <2>3, ConstantsAssumption
       DEF Begin, AskNew, Search, GenerateLetter, AskMore, AllKinds, Rows
<1>4. ASSUME NEW q \in Requests, FullText(q) PROVE GroundInv'
  <2>1. /\ step[q] \in Working /\ step'[q] # "idle"
        /\ UNCHANGED <<docVars, kind, everReady>>
        /\ \A p \in Requests \ {q} : step'[p] = step[p]
    BY <1>4 DEF FullText, Move, Working
  <2>2. PICK ps \in SUBSET Passages :
          /\ kind[q] \in {"ask", "letter"} => ps \subseteq PassagesOf(Ready)
          /\ hits' = [hits EXCEPT ![q] = ps]
          /\ evidence' = IF kind[q] = "letter" THEN [evidence EXCEPT ![q] = ps] ELSE evidence
    BY <1>4 DEF FullText, PassagesOf
  <2>3. PassagesOf(Ready) \subseteq PassagesOf(everReady[q])
    BY <2>1 DEF GroundInv, PassagesOf
  <2>4. hits'[q] = ps /\ evidence'[q] \in {ps, evidence[q]}
    BY <2>2
  <2>5. \A p \in Requests \ {q} : hits'[p] = hits[p] /\ evidence'[p] = evidence[p]
    BY <2>2
  <2>6. Ready \subseteq everReady'[q]
    BY <2>1 DEF GroundInv
  <2>7. kind'[q] \in {"ask", "letter"} =>
          /\ hits'[q] \subseteq PassagesOf(everReady'[q])
          /\ evidence'[q] \subseteq PassagesOf(everReady'[q])
    BY <2>1, <2>2, <2>3, <2>4 DEF GroundInv
  <2> QED
    BY <2>1, <2>5, <2>6, <2>7, GroundMoves
<1>5. ASSUME NEW q \in Requests,
             FullTextFails(q) \/ Embed(q) \/ EmbedFails(q) \/ Generate(q) \/ Respond(q)
      PROVE  GroundInv'
  <2>1. /\ step[q] \in Working /\ step'[q] # "idle"
        /\ \A p \in Requests \ {q} : step'[p] = step[p]
        /\ UNCHANGED <<docVars, kind, everReady, hits, evidence>>
    BY <1>5 DEF FullTextFails, Embed, EmbedFails, Generate, Respond, Move, Working
  <2> QED
    BY <2>1, GroundMoves DEF GroundInv
<1>6. ASSUME NEW q \in Requests, VectorQuery(q) PROVE GroundInv'
  <2>1. /\ step[q] \in Working /\ step'[q] # "idle"
        /\ \A p \in Requests \ {q} : step'[p] = step[p]
        /\ UNCHANGED <<docVars, kind, everReady, evidence>>
    BY <1>6 DEF VectorQuery, Move, Working
  <2>2. PICK ps \in SUBSET PassagesOf(Ready) : hits' = [hits EXCEPT ![q] = @ \union ps]
    BY <1>6 DEF VectorQuery, Best, PassagesOf
  <2>3. PassagesOf(Ready) \subseteq PassagesOf(everReady[q])
    BY <2>1 DEF GroundInv, PassagesOf
  <2> QED
    BY <2>1, <2>2, <2>3, GroundMoves DEF GroundInv
<1>7. ASSUME NEW q \in Requests, Rank(q) PROVE GroundInv'
  <2>1. /\ step[q] \in Working /\ step'[q] # "idle"
        /\ \A p \in Requests \ {q} : step'[p] = step[p]
        /\ UNCHANGED <<docVars, kind, everReady, hits>>
    BY <1>7 DEF Rank, Move, Working
  <2>2. PICK ps \in SUBSET hits[q] : evidence' = [evidence EXCEPT ![q] = ps]
    BY <1>7 DEF Rank, Best
  <2> QED
    BY <2>1, <2>2, GroundMoves DEF GroundInv
<1>8. ASSUME NEW q \in Requests, NEW s \in Over, NEW rs, Leave(q, s, rs) PROVE GroundInv'
  <2>1. step'[q] \notin Working \union {"idle"}
    BY <1>8 DEF Leave, Over, Working
  <2>2. \A p \in Requests \ {q} :
          /\ step'[p] = step[p] /\ kind'[p] = kind[p] /\ hits'[p] = hits[p]
          /\ evidence'[p] = evidence[p] /\ everReady'[p] = everReady[p]
    BY <1>8 DEF Leave
  <2> QED
    BY <1>8, <2>1, <2>2, GroundMoves DEF Leave
<1>9. ASSUME NEW q \in Requests, Commit(q) \/ Break(q) PROVE GroundInv'
  BY <1>8, <1>9 DEF Commit, Break, Over
<1>10. CASE UNCHANGED <<docVars, requestVars>>
  BY <1>10, ReadyStays DEF GroundInv, docVars, requestVars, PassagesOf
<1>11. ASSUME NEW v \in Reviews, \/ Review(v)
                                 \/ \E p \in Requests, s \in Verdicts : ReviewLoad(v, p, s)
       PROVE  GroundInv'
  BY <1>10, <1>11 DEF Review, ReviewSelectRun, ReviewFlush, ReviewGoto, ReviewCommit,
                      ReviewBreaks, ReviewLeave, ReviewLoad
<1>12. CASE UNCHANGED vars
  BY <1>10, <1>12 DEF vars
<1> QED
  BY <1>1, <1>3, <1>4, <1>5, <1>6, <1>7, <1>9, <1>11, <1>12 DEF Next, Handle

\* GroundedInReady: nothing is cited that was not READY during the request.
THEOREM GroundSafety == Spec => []GroundedInReady
<1>1. Init => GroundInv
  BY DEF Init, GroundInv, Working
<1>2. GroundInv => GroundedInReady
  BY DEF GroundInv, GroundedInReady
<1> QED
  BY <1>1, <1>2, RecordInvariant, GroundStep, PTL DEF Spec

-----------------------------------------------------------------------------
(* What comes up *)

\* The searches that look at vectors.
ByVector == {"ask", "hybrid", "vector"}

\* A document that is READY is searchable, so the vector query, which all these
\* searches make unless the question could not be embedded, returns every
\* passage of the steady documents or as many as were asked for; ranking keeps
\* them all or fills up.
SteadyInv ==
  /\ \A d \in Docs : phase[d] = "READY" => d \in searchable
  /\ \A q \in Requests :
       /\ steady[q] \subseteq Ready
       /\ step[q] = "texting" => kind[q] # "vector"
       /\ step[q] = "ranking" /\ kind[q] \in ByVector /\ ~degraded[q] =>
            PassagesOf(steady[q]) \subseteq hits[q] \/ Cardinality(hits[q]) >= TopK
       /\ step[q] \in {"generating", "responding", "committing"}
            /\ kind[q] \in ByVector /\ ~degraded[q] =>
            PassagesOf(steady[q]) \subseteq evidence[q] \/ Cardinality(evidence[q]) = TopK

\* SteadyInv has to be shown of the one request that moves only.
LEMMA SteadyMoves ==
  ASSUME TypeInv, SteadyInv, NEW q \in Requests, UNCHANGED docVars,
         \A p \in Requests \ {q} :
           /\ step'[p] = step[p] /\ kind'[p] = kind[p] /\ hits'[p] = hits[p]
           /\ evidence'[p] = evidence[p] /\ steady'[p] = steady[p]
           /\ degraded'[p] = degraded[p],
         steady'[q] \subseteq Ready,
         step'[q] = "texting" => kind'[q] # "vector",
         step'[q] = "ranking" /\ kind'[q] \in ByVector /\ ~degraded'[q] =>
           PassagesOf(steady'[q]) \subseteq hits'[q] \/ Cardinality(hits'[q]) >= TopK,
         step'[q] \in {"generating", "responding", "committing"}
           /\ kind'[q] \in ByVector /\ ~degraded'[q] =>
           PassagesOf(steady'[q]) \subseteq evidence'[q] \/ Cardinality(evidence'[q]) = TopK
  PROVE  SteadyInv'
<1>1. Ready' = Ready
  BY ReadyStays DEF docVars
<1>2. \A d \in Docs : phase'[d] = "READY" => d \in searchable'
  BY DEF SteadyInv, docVars
<1>3. ASSUME NEW p \in Requests PROVE SteadyInv!2!(p)'
  <2>1. CASE p = q
    BY <1>1, <2>1 DEF PassagesOf
  <2>2. CASE p # q
    BY <1>1, <2>2 DEF SteadyInv, PassagesOf
  <2> QED
    BY <2>1, <2>2
<1> QED
  BY <1>2, <1>3 DEF SteadyInv

\* Passages are finitely many, and so are those of any request.
LEMMA PassagesCount ==
  ASSUME NEW ps \in SUBSET Passages, NEW bs \in SUBSET ps
  PROVE  /\ Cardinality(ps) \in Nat /\ Cardinality(bs) \in Nat
         /\ Cardinality(bs) <= Cardinality(ps)
<1>1. IsFiniteSet(ps) /\ IsFiniteSet(bs)
  BY ConstantsAssumption, FS_Subset
<1> QED
  BY <1>1, FS_Subset, FS_CardinalityType

\* A document becomes READY only when it is searchable, and stays searchable.
LEMMA ReadySearchable ==
  ASSUME TypeInv, SteadyInv, Documents!Next
  PROVE  \A d \in Docs : phase'[d] = "READY" => d \in searchable'
  BY DEF TypeInv, TypeOK, SteadyInv, Documents!TypeOK, Documents!Next, Documents!Process,
         Documents!MakeSearchable, Documents!Succeed, Documents!Fail, Documents!Move

LEMMA SteadyStep == TypeInv /\ SteadyInv /\ [Next]_vars => SteadyInv'
<1> SUFFICES ASSUME TypeInv, SteadyInv, [Next]_vars PROVE SteadyInv'
  OBVIOUS
<1> USE DEF TypeInv, TypeOK, Goto
<1>1. CASE DocumentsMove
  <2>1. /\ \A q \in Requests : steady'[q] = steady[q] \intersect Ready'
        /\ UNCHANGED <<step, kind, hits, degraded, evidence>>
    BY <1>1 DEF DocumentsMove
  <2>2. \A q \in Requests : PassagesOf(steady'[q]) \subseteq PassagesOf(steady[q])
    BY <2>1 DEF PassagesOf
  <2>3. \A d \in Docs : phase'[d] = "READY" => d \in searchable'
    BY <1>1, ReadySearchable DEF DocumentsMove
  <2>4. ASSUME NEW q \in Requests PROVE SteadyInv!2!(q)'
    <3>1. steady'[q] \subseteq Ready'
      BY <2>1
    <3>2. step'[q] = "texting" => kind'[q] # "vector"
      BY <2>1 DEF SteadyInv
    <3>3. step'[q] = "ranking" /\ kind'[q] \in ByVector /\ ~degraded'[q] =>
            PassagesOf(steady'[q]) \subseteq hits'[q] \/ Cardinality(hits'[q]) >= TopK
      BY <2>1, <2>2 DEF SteadyInv
    <3>4. step'[q] \in {"generating", "responding", "committing"}
            /\ kind'[q] \in ByVector /\ ~degraded'[q] =>
            PassagesOf(steady'[q]) \subseteq evidence'[q] \/ Cardinality(evidence'[q]) = TopK
      BY <2>1, <2>2 DEF SteadyInv
    <3> QED
      BY <3>1, <3>2, <3>3, <3>4 DEF PassagesOf
  <2> QED
    BY <2>3, <2>4 DEF SteadyInv
<1>2. ASSUME NEW q \in Requests, NEW k, NEW t, NEW rs, Open(q, k, t, rs) PROVE SteadyInv'
  <2>1. /\ step'[q] \in {"texting", "embedding"} /\ kind'[q] = k
        /\ step'[q] = "texting" => k # "vector"
        /\ steady'[q] = Ready
    BY <1>2 DEF Open, Opening, Ready
  <2>2. \A p \in Requests \ {q} :
          /\ step'[p] = step[p] /\ kind'[p] = kind[p] /\ hits'[p] = hits[p]
          /\ evidence'[p] = evidence[p] /\ steady'[p] = steady[p]
          /\ degraded'[p] = degraded[p]
    BY <1>2 DEF Open
  <2> QED
    BY <1>2, <2>1, <2>2, SteadyMoves DEF Open
<1>3. ASSUME NEW q \in Requests, Begin(q) PROVE SteadyInv'
  <2>1. CASE \E k \in AllKinds, t \in Requests, rs \in SUBSET Rows : Open(q, k, t, rs)
    BY <1>2, <2>1
  <2>2. CASE \E t \in Requests : AskMoreRefused(q, t)
    <3>1. /\ step' = [step EXCEPT ![q] = "failed"]
          /\ UNCHANGED <<docVars, kind, hits, evidence, steady, degraded>>
      BY <2>2 DEF AskMoreRefused
    <3> QED
      BY <3>1, SteadyMoves DEF SteadyInv
  <2>3. \A t \in Requests : thread[t] \in Requests
    OBVIOUS
  <2> QED
    BY <1>3, <2>1, <2>2, <2>3, ConstantsAssumption
       DEF Begin, AskNew, Search, GenerateLetter, AskMore, AllKinds, Rows
<1>4. ASSUME NEW q \in Requests, FullText(q) PROVE SteadyInv'
  <2>1. /\ step[q] = "texting"
        /\ step'[q] \in {"embedding", "generating", "ranking"}
        /\ step'[q] \in {"generating", "ranking"} => kind[q] \notin {"ask", "hybrid"}
        /\ UNCHANGED <<docVars, kind, steady, degraded>>
        /\ \A p \in Requests \ {q} : step'[p] = step[p]
    BY <1>4 DEF FullText, Move
  <2>2. \A p \in Requests \ {q} : hits'[p] = hits[p] /\ evidence'[p] = evidence[p]
    BY <1>4 DEF FullText
  <2>3. step'[q] \in {"generating", "ranking"} => kind[q] \notin ByVector
    BY <2>1 DEF SteadyInv, ByVector
  <2> QED
    BY <2>1, <2>2, <2>3, SteadyMoves DEF SteadyInv
<1>5. ASSUME NEW q \in Requests,
             FullTextFails(q) \/ Embed(q) \/ EmbedFails(q) \/ Generate(q) \/ Respond(q)
      PROVE  SteadyInv'
  <2>1. /\ \A p \in Requests \ {q} : step'[p] = step[p] /\ degraded'[p] = degraded[p]
        /\ UNCHANGED <<docVars, kind, hits, evidence, steady>>
    BY <1>5 DEF FullTextFails, Embed, EmbedFails, Generate, Respond, Move
  <2>2. \/ step'[q] = "generating" /\ kind[q] = "letter"
        \/ step'[q] = "comparing"
        \/ step'[q] = "ranking" /\ degraded'[q]
        \/ /\ step'[q] \in {"responding", "committing"}
           /\ step[q] \in {"generating", "responding"} /\ degraded'[q] = degraded[q]
    BY <1>5 DEF FullTextFails, Embed, EmbedFails, Generate, Respond, Move
  <2> QED
    BY <2>1, <2>2, SteadyMoves DEF SteadyInv, ByVector
<1>6. ASSUME NEW q \in Requests, VectorQuery(q) PROVE SteadyInv'
  <2>1. /\ \A p \in Requests \ {q} : step'[p] = step[p] /\ hits'[p] = hits[p]
        /\ step'[q] = "ranking"
        /\ UNCHANGED <<docVars, kind, evidence, steady, degraded>>
    BY <1>6 DEF VectorQuery, Move
  <2> DEFINE all == PassagesOf(Ready \intersect searchable)
  <2>2. PICK ps \in Best(all, Limit(kind[q])) : hits'[q] = hits[q] \union ps
    BY <1>6 DEF VectorQuery
  <2>3. ps \in SUBSET Passages /\ hits'[q] \in SUBSET Passages /\ ps \subseteq hits'[q]
    BY <2>2 DEF Best, PassagesOf
  <2>4. PassagesOf(steady[q]) \subseteq all
    BY DEF SteadyInv, PassagesOf, Ready
  <2>5. Limit(kind[q]) \in Nat /\ Limit(kind[q]) >= TopK
    BY ConstantsAssumption DEF Limit
  <2>6. /\ Cardinality(ps) \in Nat /\ Cardinality(hits'[q]) \in Nat
        /\ Cardinality(ps) <= Cardinality(hits'[q])
    BY <2>3, PassagesCount
  <2>7. ps = all \/ Cardinality(ps) = Limit(kind[q])
    BY <2>2 DEF Best
  <2>8. PassagesOf(steady[q]) \subseteq hits'[q] \/ Cardinality(hits'[q]) >= TopK
    <3>1. CASE ps = all
      BY <2>3, <2>4, <3>1
    <3>2. CASE Cardinality(ps) = Limit(kind[q])
      <4>1. TopK \in Nat
        BY ConstantsAssumption
      <4> QED
        BY <2>5, <2>6, <3>2, <4>1
    <3> QED
      BY <2>7, <3>1, <3>2
  <2> QED
    BY <2>1, <2>8, SteadyMoves DEF SteadyInv
<1>7. ASSUME NEW q \in Requests, Rank(q) PROVE SteadyInv'
  <2>1. /\ \A p \in Requests \ {q} : step'[p] = step[p] /\ evidence'[p] = evidence[p]
        /\ step[q] = "ranking" /\ step'[q] \in {"generating", "responding"}
        /\ UNCHANGED <<docVars, kind, hits, steady, degraded>>
    BY <1>7 DEF Rank, Move
  <2>2. PICK ps \in Best(hits[q], TopK) : evidence'[q] = ps
    BY <1>7 DEF Rank
  <2>3. Cardinality(hits[q]) \in Nat
    BY PassagesCount
  <2>4. Cardinality(ps) = TopK \/ (ps = hits[q] /\ Cardinality(hits[q]) <= TopK)
    BY <2>2 DEF Best
  <2>5. kind[q] \in ByVector /\ ~degraded[q] =>
          PassagesOf(steady[q]) \subseteq evidence'[q] \/ Cardinality(evidence'[q]) = TopK
    <3> SUFFICES ASSUME kind[q] \in ByVector, ~degraded[q], Cardinality(ps) # TopK
                 PROVE  PassagesOf(steady[q]) \subseteq ps
      BY <2>2
    <3>1. ps = hits[q] /\ Cardinality(hits[q]) <= TopK /\ Cardinality(hits[q]) # TopK
      BY <2>4
    <3>2. TopK \in Nat
      BY ConstantsAssumption
    <3>3. ~(Cardinality(hits[q]) >= TopK)
      BY <2>3, <3>1, <3>2
    <3> QED
      BY <2>1, <3>1, <3>3 DEF SteadyInv
  <2> QED
    BY <2>1, <2>5, SteadyMoves DEF SteadyInv
<1>8. ASSUME NEW q \in Requests, NEW s \in Over, NEW rs, Leave(q, s, rs) PROVE SteadyInv'
  <2>1. step'[q] \in Over /\ steady'[q] = {}
    BY <1>8 DEF Leave
  <2>2. \A p \in Requests \ {q} :
          /\ step'[p] = step[p] /\ kind'[p] = kind[p] /\ hits'[p] = hits[p]
          /\ evidence'[p] = evidence[p] /\ steady'[p] = steady[p]
          /\ degraded'[p] = degraded[p]
    BY <1>8 DEF Leave
  <2> QED
    BY <1>8, <2>1, <2>2, SteadyMoves DEF Leave, Over
<1>9. ASSUME NEW q \in Requests, Commit(q) \/ Break(q) PROVE SteadyInv'
  BY <1>8, <1>9 DEF Commit, Break, Over
<1>10. CASE UNCHANGED <<docVars, requestVars>>
  BY <1>10, ReadyStays DEF SteadyInv, docVars, requestVars, PassagesOf
<1>11. ASSUME NEW v \in Reviews, \/ Review(v)
                                 \/ \E p \in Requests, s \in Verdicts : ReviewLoad(v, p, s)
       PROVE  SteadyInv'
  BY <1>10, <1>11 DEF Review, ReviewSelectRun, ReviewFlush, ReviewGoto, ReviewCommit,
                      ReviewBreaks, ReviewLeave, ReviewLoad
<1>12. CASE UNCHANGED vars
  BY <1>10, <1>12 DEF vars
<1> QED
  BY <1>1, <1>3, <1>4, <1>5, <1>6, <1>7, <1>9, <1>11, <1>12 DEF Next, Handle

\* StayedReadyComesUp: what stays READY is found, for any number of passages and
\* any top_k, however the other documents move between the two queries.
THEOREM ComesUpSafety == Spec => []StayedReadyComesUp
<1>1. Init => SteadyInv
  BY DEF Init, SteadyInv, Documents!Init
<1>2. SteadyInv => StayedReadyComesUp
  BY DEF SteadyInv, StayedReadyComesUp, ByVector
<1> QED
  BY <1>1, <1>2, RecordInvariant, SteadyStep, PTL DEF Spec

=============================================================================
