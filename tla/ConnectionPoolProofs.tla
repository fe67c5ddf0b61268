------------------------ MODULE ConnectionPoolProofs ------------------------
(***************************************************************************)
(* Theorems about ConnectionPool, for every number of requests, every size *)
(* of the pool and all waits that may time out.                            *)
(***************************************************************************)
EXTENDS ConnectionPool, FiniteSetTheorems, TLAPS

RequestHolders == {r \in Requests : RequestHolds(r)}
RunHolders == {r \in Requests : RunHolds(r)}

\* The types without the bound on what is held, and what makes them inductive:
\* another session is opened only after one that was not the last.
Shape ==
  /\ step \in [Requests -> Steps]
  /\ session \in [Requests -> 0..Last]
  /\ status \in [Requests -> {"absent", "PROCESSING", "READY", "ERROR"}]
  /\ \A r \in Requests : step[r] = "between" => session[r] < Last

\* What is held is counted in two finite sets.
LEMMA HeldCounts ==
  /\ IsFiniteSet(RequestHolders) /\ IsFiniteSet(RunHolders)
  /\ Cardinality(RequestHolders) \in Nat /\ Cardinality(RunHolders) \in Nat
  /\ Held = Cardinality(RequestHolders) + Cardinality(RunHolders)
<1>1. RequestHolders \in SUBSET Requests /\ RunHolders \in SUBSET Requests
  BY DEF RequestHolders, RunHolders
<1>2. IsFiniteSet(RequestHolders) /\ IsFiniteSet(RunHolders)
  BY <1>1, PoolAssumption, FS_Subset
<1>3. Cardinality(RequestHolders) \in Nat /\ Cardinality(RunHolders) \in Nat
  BY <1>2, FS_CardinalityType
<1> QED
  BY <1>2, <1>3 DEF Held, RequestHolders, RunHolders

\* The same in the next state.
LEMMA HeldCountsNext ==
  /\ IsFiniteSet(RequestHolders') /\ IsFiniteSet(RunHolders')
  /\ Cardinality(RequestHolders') \in Nat /\ Cardinality(RunHolders') \in Nat
  /\ Held' = Cardinality(RequestHolders') + Cardinality(RunHolders')
<1>1. RequestHolders' \in SUBSET Requests /\ RunHolders' \in SUBSET Requests
  BY DEF RequestHolders, RunHolders
<1>2. IsFiniteSet(RequestHolders') /\ IsFiniteSet(RunHolders')
  BY <1>1, PoolAssumption, FS_Subset
<1>3. Cardinality(RequestHolders') \in Nat /\ Cardinality(RunHolders') \in Nat
  BY <1>2, FS_CardinalityType
<1> QED
  BY <1>2, <1>3 DEF Held, RequestHolders, RunHolders

\* A step that makes nobody hold a connection anew keeps the bound.
LEMMA HeldShrinks ==
  ASSUME RequestHolders' \subseteq RequestHolders, RunHolders' \subseteq RunHolders
  PROVE  Held' <= Held
<1>1. Cardinality(RequestHolders') <= Cardinality(RequestHolders)
  BY HeldCounts, FS_Subset
<1>2. Cardinality(RunHolders') <= Cardinality(RunHolders)
  BY HeldCounts, FS_Subset
<1> QED
  BY <1>1, <1>2, HeldCounts, HeldCountsNext

\* A set with at most one member more has at most one more.
LEMMA OneMore ==
  ASSUME NEW S, NEW T, NEW x, IsFiniteSet(S), T \subseteq S \union {x}
  PROVE  Cardinality(T) <= Cardinality(S) + 1
<1> DEFINE U == S \union {x}
<1>a. Cardinality(S) \in Nat
  BY FS_CardinalityType
<1>b. IsFiniteSet(U) /\ Cardinality(U) = IF x \in S THEN Cardinality(S) ELSE Cardinality(S) + 1
  BY FS_AddElement
<1>1. IsFiniteSet(U) /\ Cardinality(U) <= Cardinality(S) + 1
  BY <1>a, <1>b
<1>2. Cardinality(T) <= Cardinality(U) /\ IsFiniteSet(T)
  BY <1>1, FS_Subset
<1>3. Cardinality(T) \in Nat /\ Cardinality(U) \in Nat
  BY <1>1, <1>2, FS_CardinalityType
<1> HIDE DEF U
<1> QED
  BY <1>a, <1>1, <1>2, <1>3

\* The pool gives one connection at a time.
LEMMA ConnectHolds ==
  ASSUME Shape, NEW r \in Requests, Connect(r)
  PROVE  Held' <= Held + 1
<1>1. CASE step[r] \in {"arriving", "ingesting", "refreshing"}
  <2>1. RunHolders' \subseteq RunHolders
    BY <1>1 DEF Shape, Connect, Goto, Granted, RunHolders, RunHolds, Waiting, Steps
  <2>2. RequestHolders' \subseteq RequestHolders \union {r}
    BY <1>1 DEF Shape, Connect, Goto, Granted, RequestHolders, RequestHolds, Waiting, RunSteps
  <2>3. Cardinality(RequestHolders') <= Cardinality(RequestHolders) + 1
    BY <2>2, OneMore, HeldCounts
  <2>4. Cardinality(RunHolders') <= Cardinality(RunHolders)
    BY <2>1, HeldCounts, FS_Subset
  <2> QED
    BY <2>3, <2>4, HeldCounts, HeldCountsNext
<1>2. CASE step[r] \in {"opening", "marking"}
  <2>1. RunHolders' \subseteq RunHolders \union {r}
    BY <1>2 DEF Shape, Connect, Goto, Granted, RunHolders, RunHolds, Waiting, Steps
  <2>2. RequestHolders' \subseteq RequestHolders
    BY <1>2 DEF Shape, Connect, Goto, Granted, RequestHolders, RequestHolds, Waiting, RunSteps
  <2>3. Cardinality(RunHolders') <= Cardinality(RunHolders) + 1
    BY <2>1, OneMore, HeldCounts
  <2>4. Cardinality(RequestHolders') <= Cardinality(RequestHolders)
    BY <2>2, HeldCounts, FS_Subset
  <2> QED
    BY <2>3, <2>4, HeldCounts, HeldCountsNext
<1> QED
  BY <1>1, <1>2 DEF Connect, Goto, Waiting

\* All other steps give connections back or leave them where they are.
LEMMA OthersShrink ==
  ASSUME Shape, [Next]_vars, ~\E r \in Requests : Connect(r)
  PROVE  Held' <= Held
<1> USE DEF Shape, Goto, RequestHolders, RunHolders, RequestHolds, RunHolds, RunSteps, Steps
<1> SUFFICES RequestHolders' \subseteq RequestHolders /\ RunHolders' \subseteq RunHolders
  BY HeldShrinks
<1>1. ASSUME NEW r \in Requests,
             Arrive(r) \/ CommitMatter(r) \/ CommitRow(r) \/ RequestFails(r) \/ Dispatch(r)
      PROVE  RequestHolders' \subseteq RequestHolders /\ RunHolders' \subseteq RunHolders
  BY <1>1 DEF Arrive, CommitMatter, CommitRow, RequestFails, Dispatch
<1>2. ASSUME NEW r \in Requests, CloseSession(r) \/ OpenNext(r) \/ RunFails(r) \/ MarkError(r)
      PROVE  RequestHolders' \subseteq RequestHolders /\ RunHolders' \subseteq RunHolders
  BY <1>2 DEF CloseSession, OpenNext, RunFails, MarkError
<1>3. ASSUME NEW r \in Requests, TimeOut(r) \/ Close(r)
      PROVE  RequestHolders' \subseteq RequestHolders /\ RunHolders' \subseteq RunHolders
  BY <1>3 DEF TimeOut, Close, Waiting
<1>4. CASE UNCHANGED vars
  BY <1>4 DEF vars
<1> QED
  BY <1>1, <1>2, <1>3, <1>4 DEF Next, GoOn

\* A step keeps the types, apart from the bound.
LEMMA StepShape == Shape /\ [Next]_vars => Shape'
<1> SUFFICES ASSUME Shape, [Next]_vars PROVE Shape'
  OBVIOUS
<1> USE DEF Shape, Goto, RunSteps, Steps, Last
<1>1. ASSUME NEW r \in Requests, Connect(r) PROVE Shape'
  BY <1>1 DEF Connect, Granted, Waiting
<1>2. ASSUME NEW r \in Requests, Arrive(r) \/ CommitMatter(r) \/ CommitRow(r) \/ RequestFails(r)
      PROVE  Shape'
  BY <1>2 DEF Arrive, CommitMatter, CommitRow, RequestFails
<1>3. ASSUME NEW r \in Requests, Dispatch(r) \/ CloseSession(r) PROVE Shape'
  BY <1>3 DEF Dispatch, CloseSession
<1>4. ASSUME NEW r \in Requests, OpenNext(r) PROVE Shape'
  BY <1>4 DEF OpenNext
<1>5. ASSUME NEW r \in Requests, RunFails(r) \/ MarkError(r) PROVE Shape'
  BY <1>5 DEF RunFails, MarkError
<1>6. ASSUME NEW r \in Requests, TimeOut(r) \/ Close(r) PROVE Shape'
  BY <1>6 DEF TimeOut, Close, Waiting
<1>7. CASE UNCHANGED vars
  BY <1>7 DEF vars
<1> QED
  BY <1>1, <1>2, <1>3, <1>4, <1>5, <1>6, <1>7 DEF Next, GoOn

\* TypeOK: connections are counted right, and never more than Size are out.
THEOREM TypeCorrect == Spec => []TypeOK
<1> DEFINE TypeInv == Shape /\ Held <= Size
<1>1. Init => TypeInv
  <2> SUFFICES ASSUME Init PROVE TypeInv
    OBVIOUS
  <2>1. Shape
    BY DEF Init, Shape, Steps, Last
  <2>2. RequestHolders = {} /\ RunHolders = {}
    BY DEF Init, RequestHolders, RunHolders, RequestHolds, RunHolds, RunSteps
  <2>3. Held = 0
    BY <2>2, HeldCounts, FS_EmptySet
  <2> QED
    BY <2>1, <2>3, PoolAssumption
<1>2. TypeInv /\ [Next]_vars => TypeInv'
  <2> SUFFICES ASSUME TypeInv, [Next]_vars PROVE TypeInv'
    OBVIOUS
  <2>1. Shape'
    BY StepShape
  <2>2. Held \in Nat /\ Held' \in Nat
    BY HeldCounts, HeldCountsNext
  <2>3. ASSUME NEW r \in Requests, Connect(r) PROVE Held' <= Size
    <3>1. Held < Size
      BY <2>3 DEF Connect
    <3>2. Held' <= Held + 1
      BY <2>3, ConnectHolds
    <3> QED
      BY <2>2, <3>1, <3>2, PoolAssumption
  <2>4. ASSUME ~\E r \in Requests : Connect(r) PROVE Held' <= Size
    BY <2>2, <2>4, OthersShrink, PoolAssumption
  <2> QED
    BY <2>1, <2>3, <2>4
<1>3. TypeInv => TypeOK
  BY DEF TypeOK, Shape
<1> QED
  BY <1>1, <1>2, <1>3, PTL DEF Spec

\* SomebodyCanGo, as long as there are fewer requests than connections: if all
\* who hold one waited for another, each would hold just that of its request.
THEOREM ProgressSafety ==
  ASSUME Cardinality(Requests) < Size
  PROVE  Spec => []SomebodyCanGo
<1>1. SomebodyCanGo
  <2> SUFFICES ASSUME ~\E r \in Requests : RequestHolds(r) /\ step[r] \notin Waiting
               PROVE  Held < Size
    BY DEF SomebodyCanGo
  <2>1. RunHolders = {}
    BY DEF RunHolders, RunHolds, RequestHolds, RunSteps, Waiting
  <2>2. Cardinality(RunHolders) = 0
    BY <2>1, FS_EmptySet
  <2>3. Cardinality(RequestHolders) <= Cardinality(Requests) /\ Cardinality(Requests) \in Nat
    BY PoolAssumption, FS_Subset, FS_CardinalityType DEF RequestHolders
  <2> QED
    BY <2>2, <2>3, HeldCounts, PoolAssumption
<1> QED
  BY <1>1, PTL

\* A request has stored nothing of its document before the commit of the row,
\* and its run begins only after the response.
Early == {"idle", "arriving", "handling", "ingesting", "storing"}

Unsettled ==
  /\ \A r \in Requests : step[r] \in Early => status[r] = "absent"
  /\ \A r \in Requests : step[r] \in Early \union {"refreshing", "dispatching"} => session[r] = 0

\* Somebody who waits for a connection while none is free is one of more than
\* half as many requests as there are connections.
LEMMA Crowd ==
  ASSUME NEW r \in Requests, step[r] \in {"refreshing", "marking"}, Held = Size
  PROVE  2 * Cardinality(InFlight) > Size
<1>1. IsFiniteSet(InFlight) /\ Cardinality(InFlight) \in Nat /\ r \in InFlight
  BY PoolAssumption, FS_Subset, FS_CardinalityType DEF InFlight
<1>2. /\ IsFiniteSet(InFlight \ {r})
      /\ Cardinality(InFlight \ {r}) = Cardinality(InFlight) - 1
  BY <1>1, FS_RemoveElement
<1>3. RunHolders \subseteq InFlight \ {r} /\ RequestHolders \subseteq InFlight
  BY DEF RunHolders, RunHolds, RequestHolders, RequestHolds, RunSteps, InFlight
<1>4. Cardinality(RunHolders) <= Cardinality(InFlight \ {r})
  BY <1>2, <1>3, FS_Subset
<1>5. Cardinality(RequestHolders) <= Cardinality(InFlight)
  BY <1>1, <1>3, FS_Subset
<1> QED
  BY <1>1, <1>2, <1>4, <1>5, HeldCounts, PoolAssumption

\* A step that ends a request with its document in PROCESSING is a timeout of
\* db.refresh or of _mark_error.
Strands(r) ==
  step[r] \notin {"closing", "over"} /\ step'[r] \in {"closing", "over"} /\ status'[r] = "PROCESSING"

LEMMA StrandsByTimeOut ==
  ASSUME Shape, Unsettled, [Next]_vars, NEW r \in Requests, Strands(r)
  PROVE  step[r] \in {"refreshing", "marking"} \intersect TimesOut /\ Held = Size
<1> USE DEF Shape, Goto, Strands
<1>1. ASSUME NEW q \in Requests, Connect(q) PROVE FALSE
  BY <1>1 DEF Connect, Granted, Waiting
<1>2. ASSUME NEW q \in Requests, Arrive(q) \/ CommitMatter(q) \/ CommitRow(q) \/ Dispatch(q)
      PROVE  FALSE
  BY <1>2 DEF Arrive, CommitMatter, CommitRow, Dispatch
<1>3. ASSUME NEW q \in Requests, RequestFails(q) PROVE FALSE
  BY <1>3 DEF RequestFails, Unsettled, Early
<1>4. ASSUME NEW q \in Requests, CloseSession(q) \/ OpenNext(q) PROVE FALSE
  BY <1>4 DEF CloseSession, OpenNext
<1>5. ASSUME NEW q \in Requests, RunFails(q) \/ MarkError(q) \/ Close(q) PROVE FALSE
  BY <1>5 DEF RunFails, MarkError, Close
<1>6. ASSUME NEW q \in Requests, TimeOut(q)
      PROVE  step[r] \in {"refreshing", "marking"} \intersect TimesOut /\ Held = Size
  <2>1. q = r /\ Held = Size /\ step[r] \in TimesOut /\ status'[r] = status[r]
    BY <1>6 DEF TimeOut
  <2>2. step[r] \in Waiting /\ step[r] # "opening"
    BY <1>6, <2>1 DEF TimeOut, Waiting
  <2>3. step[r] \notin Early
    BY <2>1 DEF Unsettled
  <2> QED
    BY <2>1, <2>2, <2>3 DEF Waiting, Early
<1>7. CASE UNCHANGED vars
  BY <1>7 DEF vars
<1> QED
  BY <1>1, <1>2, <1>3, <1>4, <1>5, <1>6, <1>7 DEF Next, GoOn

LEMMA StepUnsettled == Shape /\ Unsettled /\ [Next]_vars => Unsettled'
<1> SUFFICES ASSUME Shape, Unsettled, [Next]_vars PROVE Unsettled'
  OBVIOUS
<1> USE DEF Shape, Unsettled, Early, Goto
<1>1. ASSUME NEW r \in Requests, Connect(r) PROVE Unsettled'
  BY <1>1 DEF Connect, Granted, Waiting
<1>2. ASSUME NEW r \in Requests, Arrive(r) \/ CommitMatter(r) \/ CommitRow(r) \/ RequestFails(r)
      PROVE  Unsettled'
  BY <1>2 DEF Arrive, CommitMatter, CommitRow, RequestFails
<1>3. ASSUME NEW r \in Requests, Dispatch(r) \/ CloseSession(r) \/ OpenNext(r) PROVE Unsettled'
  BY <1>3 DEF Dispatch, CloseSession, OpenNext
<1>4. ASSUME NEW r \in Requests, RunFails(r) \/ MarkError(r) \/ Close(r) PROVE Unsettled'
  BY <1>4 DEF RunFails, MarkError, Close
<1>5. ASSUME NEW r \in Requests, TimeOut(r) PROVE Unsettled'
  BY <1>5 DEF TimeOut, Waiting
<1>6. CASE UNCHANGED vars
  BY <1>6 DEF vars
<1> QED
  BY <1>1, <1>2, <1>3, <1>4, <1>5, <1>6 DEF Next, GoOn

LEMMA UnsettledHolds == Spec => [](Shape /\ Unsettled)
<1>1. Init => Shape /\ Unsettled
  BY DEF Init, Shape, Steps, Last, Unsettled, Early
<1> QED
  BY <1>1, StepShape, StepUnsettled, PTL DEF Spec

\* StrandedOnlyInACrowd, for every number of requests, every size of the pool
\* and whichever waits may time out, that of _mark_error among them.
THEOREM StrandedSafety == Spec => StrandedOnlyInACrowd
<1>1. Shape /\ Unsettled /\ [Next]_vars =>
        [\A r \in Requests :
           (step[r] \notin {"closing", "over"} /\ step'[r] \in {"closing", "over"}
              /\ status'[r] = "PROCESSING")
             => /\ step[r] \in {"refreshing", "marking"} \intersect TimesOut
                /\ 2 * Cardinality(InFlight) > Size]_vars
  <2> SUFFICES ASSUME Shape, Unsettled, [Next]_vars, NEW r \in Requests, Strands(r)
               PROVE  /\ step[r] \in {"refreshing", "marking"} \intersect TimesOut
                      /\ 2 * Cardinality(InFlight) > Size
    BY DEF Strands
  <2>1. step[r] \in {"refreshing", "marking"} \intersect TimesOut /\ Held = Size
    BY StrandsByTimeOut
  <2> QED
    BY <2>1, Crowd
<1> QED
  BY <1>1, UnsettledHolds, PTL DEF Spec, StrandedOnlyInACrowd

\* EveryRunSettles, if the pool has two connections for each request: then
\* nobody waits long enough to be stranded.
THEOREM SettleSafety ==
  ASSUME 2 * Cardinality(Requests) <= Size
  PROVE  Spec => []EveryRunSettles
<1> DEFINE Settled == \A r \in Requests :
      /\ step[r] = "closing" => status[r] \in {"READY", "ERROR"}
      /\ step[r] = "over" /\ session[r] > 0 => status[r] \in {"READY", "ERROR"}
<1>1. Init => Settled
  BY DEF Init
<1>2. Shape /\ Unsettled /\ Settled /\ [Next]_vars => Settled'
  <2> SUFFICES ASSUME Shape, Unsettled, Settled, [Next]_vars PROVE Settled'
    OBVIOUS
  <2> USE DEF Shape, Goto
  <2>1. ASSUME NEW r \in Requests, Connect(r) PROVE Settled'
    BY <2>1 DEF Connect, Granted, Waiting
  <2>2. ASSUME NEW r \in Requests, Arrive(r) \/ CommitMatter(r) \/ CommitRow(r) \/ RequestFails(r)
        PROVE  Settled'
    BY <2>2 DEF Arrive, CommitMatter, CommitRow, RequestFails, Unsettled, Early
  <2>3. ASSUME NEW r \in Requests, Dispatch(r) \/ CloseSession(r) PROVE Settled'
    BY <2>3 DEF Dispatch, CloseSession
  <2>4. ASSUME NEW r \in Requests, OpenNext(r) \/ RunFails(r) \/ MarkError(r) PROVE Settled'
    BY <2>4 DEF OpenNext, RunFails, MarkError
  <2>5. ASSUME NEW r \in Requests, TimeOut(r) PROVE Settled'
    <3>1. Cardinality(InFlight) <= Cardinality(Requests) /\ Cardinality(InFlight) \in Nat
            /\ Cardinality(Requests) \in Nat
      <4>1. InFlight \subseteq Requests
        BY DEF InFlight
      <4> QED
        BY <4>1, PoolAssumption, FS_Subset, FS_CardinalityType
    <3>2. step[r] \notin {"refreshing", "marking"}
      BY <2>5, <3>1, Crowd, PoolAssumption DEF TimeOut
    <3> QED
      BY <2>5, <3>2 DEF TimeOut, Waiting, Unsettled, Early
  <2>6. ASSUME NEW r \in Requests, Close(r) PROVE Settled'
    BY <2>6 DEF Close
  <2>7. CASE UNCHANGED vars
    BY <2>7 DEF vars
  <2> QED
    BY <2>1, <2>2, <2>3, <2>4, <2>5, <2>6, <2>7 DEF Next, GoOn
<1>3. Settled => EveryRunSettles
  BY DEF EveryRunSettles
<1> HIDE DEF Settled
<1> QED
  BY <1>1, <1>2, <1>3, UnsettledHolds, PTL DEF Spec
=============================================================================
