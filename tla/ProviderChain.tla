---------------------------- MODULE ProviderChain ----------------------------
(***************************************************************************)
(* The fallback chains of the AI gateway: ProviderChain (chat, analysis)   *)
(* and EmbeddingProviderChain, whose control is the same, the retries of   *)
(* _call_with_retry, and the circuit breaker that all calls of the process *)
(* share.                                                                  *)
(*                                                                         *)
(* A call runs without interruption until it awaits a provider's reply, so *)
(* passing over providers that have no key or whose circuit is open takes  *)
(* no step of its own; while a call waits, other calls and the clock move. *)
(***************************************************************************)
EXTENDS Integers, Sequences

CONSTANTS
  Calls,        \* the calls of generate, generate_structured and embed
  Providers,
  Order,        \* Order[c]: the providers of the lane of call c, in order
  Configured,   \* the providers that have an API key
  HasMock,      \* HasMock[c]: has the chain of c a mock (AI_ALLOW_MOCK_FALLBACK)
  MaxTries,     \* AI_PROVIDER_MAX_RETRIES
  RateLimit, AuthError, Cooldown,  \* the three cooldowns, in clock ticks
  MaxTime       \* bound on the clock

ASSUME ChainAssumption ==
  /\ Order \in [Calls -> Seq(Providers)]
  /\ Configured \subseteq Providers
  /\ HasMock \in [Calls -> BOOLEAN]
  /\ {MaxTries, RateLimit, AuthError, Cooldown} \subseteq Nat \ {0}
  /\ MaxTime \in Nat

VARIABLES
  now,          \* time.monotonic()
  until,        \* until[p]: _cooldowns[p], 0 when it has no entry
  failedAt,     \* failedAt[p]: when p was tripped last (history)
  pc,           \* pc[c]: "idle", "calling", or how the call ended
  began,        \* began[c]: when c was made (history)
  at,           \* at[c]: the position in Order[c] that c has got to
  tries         \* tries[c]: attempts made on the provider there

vars == <<now, until, failedAt, pc, began, at, tries>>

Ended == {"answered", "mocked", "refused", "escaped"}
Cooldowns == {RateLimit, AuthError, Cooldown}

TypeOK ==
  /\ now \in Nat
  /\ until \in [Providers -> Nat]
  /\ failedAt \in [Providers -> Int]
  /\ pc \in [Calls -> {"idle", "calling"} \union Ended]
  /\ began \in [Calls -> Nat]
  /\ at \in [Calls -> Nat]
  /\ \A c \in Calls : at[c] \in 1..(Len(Order[c]) + 1)
  /\ \A c \in Calls : pc[c] = "calling" => at[c] <= Len(Order[c])
  /\ tries \in [Calls -> 1..MaxTries]

Init ==
  /\ now = 0
  /\ until = [p \in Providers |-> 0]
  /\ failedAt = [p \in Providers |-> -(RateLimit + AuthError + Cooldown)]
  /\ pc = [c \in Calls |-> "idle"]
  /\ began = [c \in Calls |-> 0]
  /\ at = [c \in Calls |-> 1]
  /\ tries = [c \in Calls |-> 1]

-----------------------------------------------------------------------------
\* is_configured() and not is_open(name), for the cooldowns `until` names
Usable(p, cooldowns) == p \in Configured /\ now >= cooldowns[p]

\* Broken variant: the breaker is not consulted.
GoOnUnchecked(c, from, cooldowns) ==
  \E i \in from..(Len(Order[c]) + 1) :
    /\ \A j \in from..(i - 1) : Order[c][j] \notin Configured
    /\ i <= Len(Order[c]) => Order[c][i] \in Configured
    /\ at' = [at EXCEPT ![c] = i]
    /\ pc' = [pc EXCEPT ![c] = IF i <= Len(Order[c]) THEN "calling"
                               ELSE IF HasMock[c] THEN "mocked" ELSE "refused"]
    /\ tries' = [tries EXCEPT ![c] = 1]

\* Call c goes on in its loop at position `from`: to the first usable
\* provider, or past the last one to the mock or to AllProvidersFailedError.
GoOn(c, from, cooldowns) ==
  \E i \in from..(Len(Order[c]) + 1) :
    /\ \A j \in from..(i - 1) : ~Usable(Order[c][j], cooldowns)
    /\ i <= Len(Order[c]) => Usable(Order[c][i], cooldowns)
    /\ at' = [at EXCEPT ![c] = i]
    /\ pc' = [pc EXCEPT ![c] = IF i <= Len(Order[c]) THEN "calling"
                               ELSE IF HasMock[c] THEN "mocked" ELSE "refused"]
    /\ tries' = [tries EXCEPT ![c] = 1]

\* A chain is built and called.
Run(c) ==
  /\ pc[c] = "idle"
  /\ began' = [began EXCEPT ![c] = now]
  /\ GoOn(c, 1, until)
  /\ UNCHANGED <<now, until, failedAt>>

\* Broken variant: the provider is left without tripping its breaker.
TripLeft(c, seconds) ==
  /\ GoOn(c, at[c] + 1, until)
  /\ UNCHANGED <<now, until, failedAt, began>>

\* Trip the breaker of the provider c has called and go on with the next one.
Trip(c, seconds) ==
  LET p == Order[c][at[c]]
      cooldowns == [until EXCEPT ![p] = now + seconds] IN
  /\ until' = cooldowns
  /\ failedAt' = [failedAt EXCEPT ![p] = now]
  /\ GoOn(c, at[c] + 1, cooldowns)
  /\ UNCHANGED <<now, began>>

\* ProviderAPIError: 429, 401 or 403, any other status
ErrorReply(c) ==
  /\ pc[c] = "calling"
  /\ \E seconds \in Cooldowns : Trip(c, seconds)

Succeed(c) ==
  /\ pc[c] = "calling"
  /\ pc' = [pc EXCEPT ![c] = "answered"]
  /\ UNCHANGED <<now, until, failedAt, began, at, tries>>

\* Broken variant: the attempts start again from one.
BlipUncounted(c) ==
  /\ pc[c] = "calling"
  /\ tries' = [tries EXCEPT ![c] = (@ % MaxTries) + 1]
  /\ UNCHANGED <<now, until, failedAt, pc, began, at>>

\* Broken variant: the attempts are counted but never limited.
BlipUnlimited(c) ==
  /\ pc[c] = "calling"
  /\ tries' = [tries EXCEPT ![c] = @ + 1]
  /\ tries[c] <= MaxTries
  /\ UNCHANGED <<now, until, failedAt, pc, began, at>>

\* A timeout or connect error with attempts left: wait a moment, call again.
\* The breaker is not looked at again.
Blip(c) ==
  /\ pc[c] = "calling"
  /\ tries[c] < MaxTries
  /\ tries' = [tries EXCEPT ![c] = @ + 1]
  /\ UNCHANGED <<now, until, failedAt, pc, began, at>>

\* The last attempt timed out or could not connect.
BlipsOut(c) ==
  /\ pc[c] = "calling"
  /\ tries[c] = MaxTries
  /\ Trip(c, Cooldown)

\* Any other exception, such as a broken connection or a reply that is not
\* the expected JSON: no clause of _run catches it.
Escape(c) ==
  /\ pc[c] = "calling"
  /\ pc' = [pc EXCEPT ![c] = "escaped"]
  /\ UNCHANGED <<now, until, failedAt, began, at, tries>>

Reply(c) == Succeed(c) \/ ErrorReply(c) \/ Blip(c) \/ BlipsOut(c) \/ Escape(c)

Tick ==
  /\ now < MaxTime
  /\ now' = now + 1
  /\ UNCHANGED <<until, failedAt, pc, began, at, tries>>

Next == Tick \/ \E c \in Calls : Run(c) \/ Reply(c)

Spec == Init /\ [][Next]_vars

\* Every HTTP request of the adapters has a timeout
\* (AI_PROVIDER_TIMEOUT_SECONDS), so each attempt is replied to or fails.
FairSpec == Spec /\ \A c \in Calls : WF_vars(Reply(c))

-----------------------------------------------------------------------------
(* Properties *)

\* A call leaves out a provider that has a key only if that provider was in
\* its cooldown at some time during the call, because the call itself or an
\* earlier or a concurrent one had seen it fail.  Calls that give up, or fall
\* to the mock, have therefore been refused by every provider in turn
\* (chain.py:138-178).
PassesOverOnlyTheFailing ==
  \A c \in Calls : pc[c] # "idle" =>
    \A i \in 1..(at[c] - 1) :
      Order[c][i] \in Configured => until[Order[c][i]] > began[c]

\* "a just-failed provider isn't retried on every single request for a while"
\* (chain.py:41-42): no call turns to a provider sooner after its last failure
\* than the shortest of the three cooldowns, although overlapping calls
\* overwrite each other's cooldowns.
RestsAfterFailure ==
  [][\A c \in Calls :
       pc'[c] = "calling" /\ (pc[c] = "idle" \/ at'[c] # at[c]) =>
         \E s \in Cooldowns :
           /\ \A other \in Cooldowns : s <= other
           /\ now >= failedAt[Order[c][at'[c]]] + s]_vars

\* A cooldown is cut short only by a call that was under way when it was set:
\* no call made later, during it, gets as far as to fail there and shorten it,
\* so a provider that rejected the key is left alone for the whole of the auth
\* cooldown unless calls overlapped (chain.py:51-52, 61-66, 144).
CutShortOnlyByOverlap ==
  [][\A c \in Calls : pc[c] = "calling" /\ at'[c] # at[c] =>
       LET p == Order[c][at[c]] IN
       until'[p] < until[p] => failedAt[p] >= began[c]]_vars

\* Every call ends: the retries are bounded and the loop moves forward only
\* (chain.py:69-84, 138).
EveryCallEnds == \A c \in Calls : pc[c] = "calling" ~> pc[c] \in Ended

=============================================================================
