--------------------------- MODULE ConnectionPool ---------------------------
(***************************************************************************)
(* The connections of the API's engine while documents are uploaded (or    *)
(* analysed again) and processed in process.                               *)
(*                                                                         *)
(* A request takes a connection with its first statement and gives it back *)
(* with a commit; the next statement takes one again.  The one that        *)
(* db.refresh takes after the document was committed stays with the        *)
(* request until its session is closed, which get_db_session does after    *)
(* the response and the background task.  The run of process_document is   *)
(* that task, and every session of its own needs a second connection.      *)
(***************************************************************************)
EXTENDS Integers, FiniteSets

CONSTANTS
  Requests,     \* the uploads and analyze calls, each with its run
  Size,         \* pool_size + max_overflow of the engine
  TimesOut      \* the waits for a connection that may time out (pool_timeout)

\* Steps that wait for a connection to begin.
Waiting == {"arriving", "ingesting", "refreshing", "opening", "marking"}

ASSUME PoolAssumption ==
  /\ IsFiniteSet(Requests)
  /\ Size \in Nat \ {0}
  /\ TimesOut \subseteq Waiting

VARIABLES
  step,         \* step[r]: how far request r and its run have come
  session,      \* session[r]: which of its sessions the run is at, 0 before
  status        \* status[r]: the committed status of its document

vars == <<step, session, status>>

-----------------------------------------------------------------------------
\* The sessions of a run: the storage key, the pages, the chunks, the
\* embeddings (open while the providers embed), the text, the results.
Last == 6

\* What a connection is waited for.
Granted(s) == CASE s = "arriving" -> "handling"
                [] s = "ingesting" -> "storing"
                [] s = "refreshing" -> "dispatching"
                [] s = "opening" -> "using"
                [] s = "marking" -> "writingError"

\* The run is at work; "between" two sessions it downloads or calls a model.
RunSteps == {"opening", "using", "between", "marking", "writingError"}
Steps == {"idle", "arriving", "handling", "ingesting", "storing", "refreshing",
          "dispatching", "closing", "over"} \union RunSteps

\* Broken variant: a run keeps a session open while it opens the next one.
RunHoldsNested(r) == step[r] \in {"using", "writingError", "opening", "marking"}

\* The connection of the request and the one of its run.
RequestHolds(r) ==
  step[r] \in {"handling", "storing", "dispatching", "closing"} \union RunSteps
RunHolds(r) == step[r] \in {"using", "writingError"}

Held == Cardinality({r \in Requests : RequestHolds(r)})
          + Cardinality({r \in Requests : RunHolds(r)})

TypeOK ==
  /\ step \in [Requests -> Steps]
  /\ session \in [Requests -> 0..Last]
  /\ status \in [Requests -> {"absent", "PROCESSING", "READY", "ERROR"}]
  /\ Held <= Size

Init ==
  /\ step = [r \in Requests |-> "idle"]
  /\ session = [r \in Requests |-> 0]
  /\ status = [r \in Requests |-> "absent"]

-----------------------------------------------------------------------------
Goto(r, from, to) ==
  /\ step[r] \in from
  /\ step' = [step EXCEPT ![r] = to]

\* Broken variant: the pool gives out connections without end.
ConnectUnbounded(r) ==
  /\ Goto(r, Waiting, Granted(step[r]))
  /\ UNCHANGED <<session, status>>

\* The pool gives a connection to one of those who wait for one.
Connect(r) ==
  /\ Held < Size
  /\ Goto(r, Waiting, Granted(step[r]))
  /\ UNCHANGED <<session, status>>

\* The request's first statement is the look-up of the caller's membership.
Arrive(r) ==
  /\ Goto(r, {"idle"}, "arriving")
  /\ UNCHANGED <<session, status>>

\* quick_upload commits the matter it has created; the INSERT of the document
\* takes a connection anew.
CommitMatter(r) ==
  /\ Goto(r, {"handling"}, "ingesting")
  /\ UNCHANGED <<session, status>>

\* The document is committed as PROCESSING, and db.refresh follows.
CommitRow(r) ==
  /\ Goto(r, {"handling", "storing"}, "refreshing")
  /\ status' = [status EXCEPT ![r] = "PROCESSING"]
  /\ UNCHANGED session

\* Anything fails before the row is committed.
RequestFails(r) ==
  /\ Goto(r, {"handling", "storing"}, "over")
  /\ UNCHANGED <<session, status>>

\* The response is sent and the background task begins.
Dispatch(r) ==
  /\ Goto(r, {"dispatching"}, "opening")
  /\ session' = [session EXCEPT ![r] = 1]
  /\ UNCHANGED status

\* A session of the run is closed, the last one with the results.
CloseSession(r) ==
  /\ Goto(r, {"using"}, IF session[r] = Last THEN "closing" ELSE "between")
  /\ status' = IF session[r] = Last THEN [status EXCEPT ![r] = "READY"] ELSE status
  /\ UNCHANGED session

OpenNext(r) ==
  /\ Goto(r, {"between"}, "opening")
  /\ session' = [session EXCEPT ![r] = @ + 1]
  /\ UNCHANGED status

\* Broken variant: a failure ends the run without _mark_error.
RunFailsUnmarked(r) ==
  /\ Goto(r, {"using", "between"}, "closing")
  /\ UNCHANGED <<session, status>>

\* An exception leaves a step of the run and is caught in process_document.
RunFails(r) ==
  /\ Goto(r, {"using", "between"}, "marking")
  /\ UNCHANGED <<session, status>>

\* _mark_error
MarkError(r) ==
  /\ Goto(r, {"writingError"}, "closing")
  /\ status' = [status EXCEPT ![r] = "ERROR"]
  /\ UNCHANGED session

\* Nobody gave a connection back in time.  In a request this is a server
\* error, in a run an exception like any other, and in _mark_error, called from
\* the except block, one that leaves the background task.
TimeOut(r) ==
  /\ step[r] \in TimesOut
  /\ Held = Size
  /\ Goto(r, Waiting, CASE step[r] \in {"arriving", "ingesting", "refreshing"} -> "over"
                        [] step[r] = "opening" -> "marking"
                        [] step[r] = "marking" -> "closing")
  /\ UNCHANGED <<session, status>>

\* get_db_session closes the session of the request.
Close(r) ==
  /\ Goto(r, {"closing"}, "over")
  /\ UNCHANGED <<session, status>>

-----------------------------------------------------------------------------
GoOn(r) ==
  \/ Connect(r) \/ CommitMatter(r) \/ CommitRow(r) \/ RequestFails(r)
  \/ Dispatch(r)
  \/ CloseSession(r) \/ OpenNext(r) \/ RunFails(r) \/ MarkError(r)
  \/ TimeOut(r) \/ Close(r)

Next == \E r \in Requests : Arrive(r) \/ GoOn(r)

Spec == Init /\ [][Next]_vars

\* Providers and database answer, and a free connection is given to somebody:
\* each request is made once, so nobody can be passed over for ever.
FairSpec == Spec /\ \A r \in Requests : WF_vars(GoOn(r))

-----------------------------------------------------------------------------
(* Properties *)

\* As long as somebody waits for a connection, one is free or somebody who
\* holds one can go on without another and will give it back.
SomebodyCanGo ==
  (\E r \in Requests : step[r] \in Waiting)
    => \/ Held < Size
       \/ \E r \in Requests : RequestHolds(r) /\ step[r] \notin Waiting

InFlight == {r \in Requests : step[r] \notin {"idle", "over"}}

\* A request or its run leaves a document behind in PROCESSING only where a wait
\* for a connection timed out, that of db.refresh or that of _mark_error, and
\* only when more than half as many requests were in flight as the pool has
\* connections: each of them holds two at most.  (As far as the pool goes: a
\* database that fails is DocumentPipeline's.)
StrandedOnlyInACrowd == [][\A r \in Requests :
  (step[r] \notin {"closing", "over"} /\ step'[r] \in {"closing", "over"}
     /\ status'[r] = "PROCESSING")
    => /\ step[r] \in {"refreshing", "marking"} \intersect TimesOut
       /\ 2 * Cardinality(InFlight) > Size]_vars

\* process_document: "On any failure the document is marked ERROR ... it never
\* raises out of the background task."  A document whose run is over is READY
\* or ERROR.
EveryRunSettles == \A r \in Requests :
  (step[r] = "over" /\ session[r] > 0) => status[r] \in {"READY", "ERROR"}

\* Every request and its run end.
EveryRequestEnds == \A r \in Requests : (step[r] = "arriving") ~> (step[r] = "over")
=============================================================================
