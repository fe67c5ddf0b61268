------------------------- MODULE ProviderChainProofs -------------------------
(***************************************************************************)
(* Theorems about ProviderChain for every set of calls and providers, every *)
(* lane, cooldown and number of attempts.                                  *)
(***************************************************************************)
EXTENDS ProviderChain, TLAPS

USE ChainAssumption

-----------------------------------------------------------------------------
(* Lemmas on the constants and on the loop over the providers *)

\* Cooldowns and the number of attempts are positive.
LEMMA Positive ==
  /\ \A s \in Cooldowns : s \in Nat /\ s > 0
  /\ MaxTries \in Nat /\ MaxTries > 0
  BY DEF Cooldowns

\* The loop of _run leaves every other call where it was and ends at a usable
\* provider of the lane or past its end.
LEMMA GoOnType ==
  ASSUME TypeOK,
         NEW c \in Calls, NEW from \in 1..(Len(Order[c]) + 1), NEW cooldowns,
         GoOn(c, from, cooldowns)
  PROVE  /\ pc' \in [Calls -> {"idle", "calling"} \union Ended]
         /\ at' \in [Calls -> Nat]
         /\ \A b \in Calls : at'[b] \in 1..(Len(Order[b]) + 1)
         /\ \A b \in Calls : pc'[b] = "calling" => at'[b] <= Len(Order[b])
         /\ tries' \in [Calls -> 1..MaxTries]
  <1>1. PICK i \in from..(Len(Order[c]) + 1) :
          /\ at' = [at EXCEPT ![c] = i]
          /\ pc' = [pc EXCEPT ![c] = IF i <= Len(Order[c]) THEN "calling"
                               ELSE IF HasMock[c] THEN "mocked" ELSE "refused"]
          /\ tries' = [tries EXCEPT ![c] = 1]
    BY DEF GoOn
  <1>2. Len(Order[c]) \in Nat /\ from \in Nat
    OBVIOUS
  <1>3. i \in 1..(Len(Order[c]) + 1) /\ i \in Nat
    BY <1>2
  <1>4. at' \in [Calls -> Nat]
    BY <1>1, <1>3 DEF TypeOK
  <1>5. ASSUME NEW b \in Calls
        PROVE  /\ at'[b] \in 1..(Len(Order[b]) + 1)
               /\ pc'[b] = "calling" => at'[b] <= Len(Order[b])
    <2>1. CASE b = c
      BY <1>1, <1>3, <2>1 DEF TypeOK
    <2>2. CASE b # c
      BY <1>1, <2>2 DEF TypeOK
    <2>3. QED
      BY <2>1, <2>2
  <1>6. pc' \in [Calls -> {"idle", "calling"} \union Ended]
    BY <1>1 DEF TypeOK, Ended
  <1>7. tries' \in [Calls -> 1..MaxTries]
    BY <1>1 DEF TypeOK
  <1>8. QED
    BY <1>4, <1>5, <1>6, <1>7

-----------------------------------------------------------------------------
(* Type correctness *)

\* A step keeps every variable's type.
LEMMA StepType == TypeOK /\ [Next]_vars => TypeOK'
  <1> SUFFICES ASSUME TypeOK, [Next]_vars PROVE TypeOK'
    OBVIOUS
  <1>1. CASE UNCHANGED vars
    BY <1>1 DEF TypeOK, vars
  <1>2. CASE Tick
    BY <1>2 DEF TypeOK, Tick
  <1>3. ASSUME NEW c \in Calls, Run(c) PROVE TypeOK'
    <2>1. 1 \in 1..(Len(Order[c]) + 1)
      OBVIOUS
    <2>2. GoOn(c, 1, until) /\ UNCHANGED <<now, until, failedAt>>
          /\ began' = [began EXCEPT ![c] = now]
      BY <1>3 DEF Run
    <2>3. /\ pc' \in [Calls -> {"idle", "calling"} \union Ended]
          /\ at' \in [Calls -> Nat]
          /\ \A b \in Calls : at'[b] \in 1..(Len(Order[b]) + 1)
          /\ \A b \in Calls : pc'[b] = "calling" => at'[b] <= Len(Order[b])
          /\ tries' \in [Calls -> 1..MaxTries]
      BY <2>1, <2>2, GoOnType
    <2>4. /\ now' \in Nat /\ until' \in [Providers -> Nat]
          /\ failedAt' \in [Providers -> Int] /\ began' \in [Calls -> Nat]
      BY <1>3 DEF Run, TypeOK
    <2>5. QED
      BY <2>3, <2>4 DEF TypeOK
  <1>4. ASSUME NEW c \in Calls, NEW s \in Cooldowns, Trip(c, s), pc[c] = "calling"
        PROVE  TypeOK'
    <2>1. at[c] + 1 \in 1..(Len(Order[c]) + 1)
      BY <1>4 DEF TypeOK
    <2>2. Order[c][at[c]] \in Providers
      BY <1>4 DEF TypeOK
    <2>3. GoOn(c, at[c] + 1, [until EXCEPT ![Order[c][at[c]]] = now + s])
      BY <1>4 DEF Trip
    <2>4. s \in Nat /\ now \in Nat /\ now + s \in Nat
      BY Positive DEF TypeOK
    <2>5. /\ until' = [until EXCEPT ![Order[c][at[c]]] = now + s]
          /\ failedAt' = [failedAt EXCEPT ![Order[c][at[c]]] = now]
          /\ now' = now /\ began' = began
      BY <1>4 DEF Trip
    <2>6. /\ until' \in [Providers -> Nat] /\ failedAt' \in [Providers -> Int]
          /\ now' \in Nat /\ began' \in [Calls -> Nat]
      <3>1. until' \in [Providers -> Nat]
        BY <2>4, <2>5 DEF TypeOK
      <3>2. failedAt' \in [Providers -> Int]
        <4>1. failedAt \in [Providers -> Int] /\ now \in Int
          BY <2>4 DEF TypeOK
        <4>2. QED
          BY <2>5, <4>1
      <3>3. QED
        BY <2>5, <3>1, <3>2 DEF TypeOK
    <2>7. /\ pc' \in [Calls -> {"idle", "calling"} \union Ended]
          /\ at' \in [Calls -> Nat]
          /\ \A b \in Calls : at'[b] \in 1..(Len(Order[b]) + 1)
          /\ \A b \in Calls : pc'[b] = "calling" => at'[b] <= Len(Order[b])
          /\ tries' \in [Calls -> 1..MaxTries]
      BY <2>1, <2>3, GoOnType
    <2>8. QED
      BY <2>6, <2>7 DEF TypeOK
  <1>5. ASSUME NEW c \in Calls, Reply(c) PROVE TypeOK'
    <2>1. CASE Succeed(c)
      BY <2>1 DEF Succeed, TypeOK, Ended
    <2>2. CASE ErrorReply(c)
      BY <2>2, <1>4 DEF ErrorReply
    <2>3. CASE Blip(c)
      <3>1. tries[c] \in 1..MaxTries
        BY DEF TypeOK
      <3>2. tries[c] + 1 \in 1..MaxTries
        BY <2>3, <3>1, Positive DEF Blip
      <3>3. tries' \in [Calls -> 1..MaxTries]
        BY <2>3, <3>2 DEF Blip, TypeOK
      <3>4. QED
        BY <2>3, <3>3 DEF Blip, TypeOK
    <2>4. CASE BlipsOut(c)
      BY <2>4, <1>4 DEF BlipsOut, Cooldowns
    <2>5. CASE Escape(c)
      BY <2>5 DEF Escape, TypeOK, Ended
    <2>6. QED
      BY <1>5, <2>1, <2>2, <2>3, <2>4, <2>5 DEF Reply
  <1>6. QED
    BY <1>1, <1>2, <1>3, <1>5 DEF Next

\* The initial state has the types.
LEMMA InitType == Init => TypeOK
  <1> SUFFICES ASSUME Init PROVE TypeOK
    OBVIOUS
  <1>1. \A c \in Calls : Len(Order[c]) \in Nat
    OBVIOUS
  <1>2. QED
    BY <1>1 DEF Init, TypeOK

\* Every variable of the chains keeps its type; in particular a call that
\* waits for a reply stands at a provider of its lane.
THEOREM TypeCorrect == Spec => []TypeOK
  <1>1. Init => TypeOK
    BY InitType
  <1>2. TypeOK /\ [Next]_vars => TypeOK'
    BY StepType
  <1>3. QED
    BY <1>1, <1>2, PTL DEF Spec

-----------------------------------------------------------------------------
(* Who is passed over *)

\* The strengthening: no call began in the future, so that a cooldown set now
\* ends after every call under way has begun.
PassInv == TypeOK /\ (\A c \in Calls : began[c] <= now) /\ PassesOverOnlyTheFailing

\* The positions the loop leaves behind hold providers without a key or in
\* their cooldown.
LEMMA GoOnPasses ==
  ASSUME TypeOK,
         NEW c \in Calls, NEW from \in 1..(Len(Order[c]) + 1),
         NEW cooldowns \in [Providers -> Nat],
         GoOn(c, from, cooldowns)
  PROVE  /\ \A b \in Calls \ {c} : at'[b] = at[b] /\ pc'[b] = pc[b]
         /\ \A j \in from..(at'[c] - 1) :
              Order[c][j] \in Configured => cooldowns[Order[c][j]] > now
  <1>1. PICK i \in from..(Len(Order[c]) + 1) :
          /\ \A j \in from..(i - 1) : ~Usable(Order[c][j], cooldowns)
          /\ at' = [at EXCEPT ![c] = i]
          /\ pc' = [pc EXCEPT ![c] = IF i <= Len(Order[c]) THEN "calling"
                               ELSE IF HasMock[c] THEN "mocked" ELSE "refused"]
    BY DEF GoOn
  <1>2. at'[c] = i
    BY <1>1 DEF TypeOK
  <1>3. ASSUME NEW j \in from..(i - 1), Order[c][j] \in Configured
        PROVE  cooldowns[Order[c][j]] > now
    <2>1. ~(now >= cooldowns[Order[c][j]])
      BY <1>1, <1>3 DEF Usable
    <2>2. cooldowns[Order[c][j]] \in Nat /\ now \in Nat
      BY <1>3 DEF TypeOK
    <2>3. QED
      BY <2>1, <2>2
  <1>4. \A b \in Calls \ {c} : at'[b] = at[b] /\ pc'[b] = pc[b]
    BY <1>1 DEF TypeOK
  <1>5. QED
    BY <1>2, <1>3, <1>4

\* A step keeps the strengthening.
LEMMA StepPasses == PassInv /\ [Next]_vars => PassInv'
  <1> SUFFICES ASSUME PassInv, [Next]_vars PROVE PassInv'
    OBVIOUS
  <1>0. TypeOK /\ TypeOK'
    BY StepType DEF PassInv
  <1> DEFINE Began == \A c \in Calls : began[c] <= now
  <1>1. CASE UNCHANGED vars
    BY <1>0, <1>1 DEF PassInv, PassesOverOnlyTheFailing, vars
  <1>2. CASE Tick
    BY <1>0, <1>2 DEF PassInv, PassesOverOnlyTheFailing, Tick, TypeOK
  <1>3. ASSUME NEW c \in Calls, Run(c) PROVE PassInv'
    <2>1. 1 \in 1..(Len(Order[c]) + 1) /\ until \in [Providers -> Nat]
      BY <1>0 DEF TypeOK
    <2>2. /\ GoOn(c, 1, until) /\ UNCHANGED <<now, until>>
          /\ began' = [began EXCEPT ![c] = now]
      BY <1>3 DEF Run
    <2>3. Began'
      BY <1>0, <2>2 DEF PassInv, TypeOK
    <2>4. /\ \A b \in Calls \ {c} : at'[b] = at[b] /\ pc'[b] = pc[b]
          /\ \A j \in 1..(at'[c] - 1) :
               Order[c][j] \in Configured => until[Order[c][j]] > now
      BY <1>0, <2>1, <2>2, GoOnPasses
    <2>5. ASSUME NEW b \in Calls, pc'[b] # "idle", NEW i \in 1..(at'[b] - 1),
                 Order[b][i] \in Configured
          PROVE  until'[Order[b][i]] > began'[b]
      <3>1. CASE b = c
        BY <1>0, <2>2, <2>4, <2>5, <3>1 DEF TypeOK
      <3>2. CASE b # c
        BY <1>0, <2>2, <2>4, <2>5, <3>2 DEF PassInv, PassesOverOnlyTheFailing, TypeOK
      <3>3. QED
        BY <3>1, <3>2
    <2>6. QED
      BY <1>0, <2>3, <2>5 DEF PassInv, PassesOverOnlyTheFailing
  <1>4. ASSUME NEW c \in Calls, NEW s \in Cooldowns, Trip(c, s), pc[c] = "calling"
        PROVE  PassInv'
    <2> DEFINE p == Order[c][at[c]]
    <2>1. /\ at[c] + 1 \in 1..(Len(Order[c]) + 1) /\ at[c] \in Nat
          /\ p \in Providers
          /\ s \in Nat /\ s > 0 /\ now \in Nat /\ until \in [Providers -> Nat]
          /\ began \in [Calls -> Nat]
      <3>1. at[c] \in Nat /\ at[c] \in 1..(Len(Order[c]) + 1) /\ at[c] <= Len(Order[c])
        BY <1>0, <1>4 DEF TypeOK
      <3>2. Order[c] \in Seq(Providers) /\ Len(Order[c]) \in Nat
        OBVIOUS
      <3>3. p \in Providers /\ at[c] + 1 \in 1..(Len(Order[c]) + 1)
        BY <3>1, <3>2
      <3>4. s \in Nat /\ s > 0
        BY Positive
      <3>5. /\ now \in Nat /\ until \in [Providers -> Nat]
            /\ began \in [Calls -> Nat]
        BY <1>0 DEF TypeOK
      <3>6. QED
        BY <3>1, <3>3, <3>4, <3>5
    <2>2. /\ GoOn(c, at[c] + 1, until')
          /\ until' = [until EXCEPT ![p] = now + s]
          /\ now' = now /\ began' = began
      BY <1>4 DEF Trip
    <2>3. Began'
      BY <2>2 DEF PassInv
    <2>4. /\ \A b \in Calls \ {c} : at'[b] = at[b] /\ pc'[b] = pc[b]
          /\ \A j \in (at[c] + 1)..(at'[c] - 1) :
               Order[c][j] \in Configured => until'[Order[c][j]] > now
      <3>1. until' \in [Providers -> Nat]
        BY <1>0 DEF TypeOK
      <3>2. QED
        BY <1>0, <2>1, <2>2, <3>1, GoOnPasses
    <2>5. \A q \in Providers, b \in Calls :
             until[q] > began[b] => until'[q] > began'[b]
      <3>1. ASSUME NEW q \in Providers, NEW b \in Calls, until[q] > began[b]
            PROVE  until'[q] > began[b]
        <4>1. began[b] \in Nat /\ began[b] <= now
          BY <2>1 DEF PassInv
        <4>2. CASE q = p
          <5>1. until'[q] = now + s
            BY <2>1, <2>2, <4>2
          <5>2. QED
            BY <2>1, <4>1, <5>1
        <4>3. CASE q # p
          BY <2>1, <2>2, <3>1, <4>3
        <4>4. QED
          BY <4>2, <4>3
      <3>2. QED
        BY <2>2, <3>1
    <2>6. ASSUME NEW b \in Calls, pc'[b] # "idle", NEW i \in 1..(at'[b] - 1),
                 Order[b][i] \in Configured
          PROVE  until'[Order[b][i]] > began'[b]
      <3>0. Order[b][i] \in Providers /\ began[b] <= now /\ began[b] \in Nat /\ now \in Nat
            /\ at'[b] \in Nat
        BY <1>0, <2>6 DEF PassInv, TypeOK
      <3>1. CASE b # c
        <4>1. until[Order[b][i]] > began[b]
          BY <2>4, <2>6, <3>1 DEF PassInv, PassesOverOnlyTheFailing
        <4>2. QED
          BY <2>5, <3>0, <4>1
      <3>2. CASE b = c /\ i < at[c]
        <4>1. i \in 1..(at[c] - 1)
          BY <2>1, <3>0, <3>2
        <4>2. until[Order[b][i]] > began[b]
          BY <1>4, <2>6, <3>2, <4>1 DEF PassInv, PassesOverOnlyTheFailing
        <4>3. QED
          BY <2>5, <3>0, <4>2
      <3>3. CASE b = c /\ i = at[c]
        <4>1. until'[Order[b][i]] = now + s
          BY <2>1, <2>2, <3>3
        <4>2. now + s > began[b]
          BY <2>1, <3>0
        <4>3. began'[b] = began[b]
          BY <2>2
        <4>4. QED
          BY <4>1, <4>2, <4>3
      <3>4. CASE b = c /\ i > at[c]
        <4>1. i \in (at[c] + 1)..(at'[c] - 1)
          BY <2>1, <3>0, <3>4
        <4>2. until'[Order[c][i]] > now
          BY <2>4, <2>6, <3>4, <4>1
        <4>3. until'[Order[b][i]] \in Nat
          BY <1>0, <3>0 DEF TypeOK
        <4>4. QED
          BY <2>2, <3>0, <3>4, <4>2, <4>3
      <3>5. QED
        BY <2>1, <3>1, <3>2, <3>3, <3>4
    <2>7. QED
      BY <1>0, <2>3, <2>6 DEF PassInv, PassesOverOnlyTheFailing
  <1>5. ASSUME NEW c \in Calls, Reply(c) PROVE PassInv'
    <2>1. CASE Succeed(c) \/ Blip(c) \/ Escape(c)
      BY <1>0, <2>1 DEF Succeed, Blip, Escape, PassInv, PassesOverOnlyTheFailing, TypeOK
    <2>2. CASE ErrorReply(c)
      BY <2>2, <1>4 DEF ErrorReply
    <2>3. CASE BlipsOut(c)
      BY <2>3, <1>4 DEF BlipsOut, Cooldowns
    <2>4. QED
      BY <1>5, <2>1, <2>2, <2>3 DEF Reply
  <1>6. QED
    BY <1>1, <1>2, <1>3, <1>5 DEF Next

\* Whatever calls overlap, a provider with a key is passed over only if it was
\* in a cooldown during the call (chain.py _run and embed).
THEOREM PassSafety == Spec => []PassesOverOnlyTheFailing
  <1>1. Init => PassInv
    BY InitType DEF Init, PassInv, PassesOverOnlyTheFailing, TypeOK
  <1>2. PassInv /\ [Next]_vars => PassInv'
    BY StepPasses
  <1>3. PassInv => PassesOverOnlyTheFailing
    BY DEF PassInv
  <1>4. QED
    BY <1>1, <1>2, <1>3, PTL DEF Spec

-----------------------------------------------------------------------------
(* When a provider is turned to again *)

\* The provider the loop ends at is usable.
LEMMA GoOnUsable ==
  ASSUME TypeOK,
         NEW c \in Calls, NEW from \in 1..(Len(Order[c]) + 1), NEW cooldowns,
         GoOn(c, from, cooldowns), pc'[c] = "calling"
  PROVE  /\ Usable(Order[c][at'[c]], cooldowns)
         /\ Order[c][at'[c]] \in Providers
         /\ \A b \in Calls \ {c} : at'[b] = at[b] /\ pc'[b] = pc[b]
  <1>1. PICK i \in from..(Len(Order[c]) + 1) :
          /\ i <= Len(Order[c]) => Usable(Order[c][i], cooldowns)
          /\ at' = [at EXCEPT ![c] = i]
          /\ pc' = [pc EXCEPT ![c] = IF i <= Len(Order[c]) THEN "calling"
                               ELSE IF HasMock[c] THEN "mocked" ELSE "refused"]
    BY DEF GoOn
  <1>2. at'[c] = i /\ i <= Len(Order[c])
    BY <1>1 DEF TypeOK
  <1>3. \A b \in Calls \ {c} : at'[b] = at[b] /\ pc'[b] = pc[b]
    BY <1>1 DEF TypeOK
  <1>4. Order[c][i] \in Providers
    <2>1. Order[c] \in Seq(Providers) /\ i \in 1..Len(Order[c])
      BY <1>2
    <2>2. QED
      BY <2>1
  <1>5. QED
    BY <1>1, <1>2, <1>3, <1>4

\* What Trip does to the breaker of the provider, spelled out with its types.
LEMMA TripFacts ==
  ASSUME TypeOK, NEW c \in Calls, NEW s \in Cooldowns, Trip(c, s), pc[c] = "calling"
  PROVE  /\ Order[c][at[c]] \in Providers
         /\ at[c] + 1 \in 1..(Len(Order[c]) + 1)
         /\ until' = [until EXCEPT ![Order[c][at[c]]] = now + s]
         /\ failedAt' = [failedAt EXCEPT ![Order[c][at[c]]] = now]
         /\ now' = now
         /\ GoOn(c, at[c] + 1, until')
         /\ now \in Nat /\ s \in Nat /\ s > 0
         /\ until \in [Providers -> Nat] /\ failedAt \in [Providers -> Int]
  <1>1. at[c] \in Nat /\ at[c] \in 1..(Len(Order[c]) + 1) /\ at[c] <= Len(Order[c])
    BY DEF TypeOK
  <1>2. Order[c] \in Seq(Providers) /\ Len(Order[c]) \in Nat
    OBVIOUS
  <1>3. Order[c][at[c]] \in Providers /\ at[c] + 1 \in 1..(Len(Order[c]) + 1)
    BY <1>1, <1>2
  <1>4. /\ until' = [until EXCEPT ![Order[c][at[c]]] = now + s]
        /\ failedAt' = [failedAt EXCEPT ![Order[c][at[c]]] = now]
        /\ now' = now
        /\ GoOn(c, at[c] + 1, until')
    BY DEF Trip
  <1>5. now \in Nat /\ until \in [Providers -> Nat] /\ failedAt \in [Providers -> Int]
    BY DEF TypeOK
  <1>6. QED
    BY <1>3, <1>4, <1>5, Positive

\* s is the shortest of the three cooldowns.
Shortest(s) == s \in Cooldowns /\ \A other \in Cooldowns : s <= other

\* There is a shortest cooldown.
LEMMA ShortestExists == \E s \in Cooldowns : Shortest(s)
  <1>1. RateLimit \in Nat /\ AuthError \in Nat /\ Cooldown \in Nat
    OBVIOUS
  <1>2. QED
    BY <1>1 DEF Shortest, Cooldowns

\* A breaker stays open for the shortest cooldown at least: a trip overwrites
\* `until`, but it also moves failedAt.
RestInv ==
  /\ TypeOK
  /\ \A s \in Cooldowns : Shortest(s) =>
       \A p \in Providers : until[p] >= failedAt[p] + s

\* The initial state satisfies it.
LEMMA InitRests == Init => RestInv
  <1> SUFFICES ASSUME Init PROVE RestInv
    OBVIOUS
  <1>1. TypeOK
    BY InitType
  <1>2. ASSUME NEW s \in Cooldowns, NEW p \in Providers
        PROVE  until[p] >= failedAt[p] + s
    <2>1. until[p] = 0 /\ failedAt[p] = -(RateLimit + AuthError + Cooldown)
      BY DEF Init
    <2>2. RateLimit \in Nat /\ AuthError \in Nat /\ Cooldown \in Nat
      OBVIOUS
    <2>3. s = RateLimit \/ s = AuthError \/ s = Cooldown
      BY DEF Cooldowns
    <2>4. QED
      BY <2>1, <2>2, <2>3
  <1>3. QED
    BY <1>1, <1>2 DEF RestInv

\* A trip keeps it.
LEMMA TripRests ==
  ASSUME RestInv, NEW c \in Calls, NEW t \in Cooldowns, Trip(c, t), pc[c] = "calling",
         NEW s \in Cooldowns, Shortest(s), NEW q \in Providers
  PROVE  until'[q] >= failedAt'[q] + s
  <1> DEFINE p == Order[c][at[c]]
  <1>1. /\ p \in Providers
        /\ until' = [until EXCEPT ![p] = now + t]
        /\ failedAt' = [failedAt EXCEPT ![p] = now]
        /\ now \in Nat /\ t \in Nat
        /\ until \in [Providers -> Nat] /\ failedAt \in [Providers -> Int]
    BY TripFacts DEF RestInv
  <1>2. CASE q = p
    <2>1. until'[q] = now + t /\ failedAt'[q] = now
      BY <1>1, <1>2
    <2>2. s \in Nat /\ s <= t
      BY Positive DEF Shortest
    <2>3. QED
      BY <1>1, <2>1, <2>2
  <1>3. CASE q # p
    <2>1. until'[q] = until[q] /\ failedAt'[q] = failedAt[q]
      BY <1>1, <1>3
    <2>2. until[q] >= failedAt[q] + s
      BY DEF RestInv
    <2>3. QED
      BY <2>1, <2>2
  <1>4. QED
    BY <1>2, <1>3

\* So does every other step.
LEMMA StepRests == RestInv /\ [Next]_vars => RestInv'
  <1> SUFFICES ASSUME RestInv, [Next]_vars PROVE RestInv'
    OBVIOUS
  <1>0. TypeOK /\ TypeOK'
    BY StepType DEF RestInv
  <1>1. ASSUME UNCHANGED <<until, failedAt>> PROVE RestInv'
    BY <1>0, <1>1 DEF RestInv, Shortest
  <1>2. ASSUME NEW c \in Calls, NEW s \in Cooldowns, Trip(c, s), pc[c] = "calling"
        PROVE  RestInv'
    <2>1. ASSUME NEW t \in Cooldowns, Shortest(t), NEW p \in Providers
          PROVE  until'[p] >= failedAt'[p] + t
      BY <1>2, <2>1, TripRests
    <2>2. QED
      BY <1>0, <2>1 DEF RestInv, Shortest
  <1>3. CASE UNCHANGED vars
    BY <1>1, <1>3 DEF vars
  <1>4. CASE Tick
    BY <1>1, <1>4 DEF Tick
  <1>5. ASSUME NEW c \in Calls, Run(c) PROVE RestInv'
    BY <1>1, <1>5 DEF Run
  <1>6. ASSUME NEW c \in Calls, Reply(c) PROVE RestInv'
    <2>1. CASE Succeed(c) \/ Blip(c) \/ Escape(c)
      BY <1>1, <2>1 DEF Succeed, Blip, Escape
    <2>2. CASE ErrorReply(c)
      BY <2>2, <1>2 DEF ErrorReply
    <2>3. CASE BlipsOut(c)
      BY <2>3, <1>2 DEF BlipsOut, Cooldowns
    <2>4. QED
      BY <1>6, <2>1, <2>2, <2>3 DEF Reply
  <1>7. QED
    BY <1>3, <1>4, <1>5, <1>6 DEF Next

\* The step condition of RestsAfterFailure for call b.
TurnsTo(b) == pc'[b] = "calling" /\ (pc[b] = "idle" \/ at'[b] # at[b])

\* Where the loop goes on, the provider it turns to has rested.
LEMMA GoOnRested ==
  ASSUME RestInv, TypeOK',
         NEW c \in Calls, NEW from \in 1..(Len(Order[c]) + 1),
         NEW cooldowns \in [Providers -> Nat],
         GoOn(c, from, cooldowns),
         \A q \in Providers : cooldowns[q] >= until[q] \/ cooldowns[q] > now,
         NEW b \in Calls, TurnsTo(b),
         NEW s \in Cooldowns, Shortest(s)
  PROVE  now >= failedAt[Order[b][at'[b]]] + s
  <1>1. TypeOK
    BY DEF RestInv
  <1>2. pc'[c] = "calling" =>
          /\ Usable(Order[c][at'[c]], cooldowns)
          /\ Order[c][at'[c]] \in Providers
    BY <1>1, GoOnUsable
  <1>3. \A a \in Calls \ {c} : at'[a] = at[a] /\ pc'[a] = pc[a]
    BY <1>1 DEF GoOn, TypeOK
  <1>4. b = c
    BY <1>3 DEF TurnsTo
  <1> DEFINE q == Order[c][at'[c]]
  <1>5. q \in Providers /\ now >= cooldowns[q]
    BY <1>2, <1>4 DEF Usable, TurnsTo
  <1>6. /\ now \in Nat /\ until[q] \in Nat /\ cooldowns[q] \in Nat
        /\ failedAt[q] \in Int /\ s \in Nat
    BY <1>1, <1>5, Positive DEF TypeOK
  <1>7. until[q] >= failedAt[q] + s
    BY <1>5 DEF RestInv
  <1>8. cooldowns[q] >= until[q]
    BY <1>5, <1>6
  <1>9. now >= failedAt[q] + s
    <2> HIDE DEF q
    <2>1. now >= until[q]
      BY <1>5, <1>6, <1>8
    <2>2. QED
      BY <1>6, <1>7, <2>1
  <1>10. QED
    BY <1>4, <1>9

\* A provider that has just failed is left alone by every call of the process
\* for the shortest cooldown at least (chain.py _CircuitBreaker), although
\* concurrent calls overwrite each other's cooldowns.
THEOREM RestSafety == Spec => RestsAfterFailure
  <1> DEFINE Rests ==
        \A c \in Calls :
          pc'[c] = "calling" /\ (pc[c] = "idle" \/ at'[c] # at[c]) =>
            \E s \in Cooldowns :
              /\ \A other \in Cooldowns : s <= other
              /\ now >= failedAt[Order[c][at'[c]]] + s
  <1>1. ASSUME RestInv, [Next]_vars PROVE [Rests]_vars
    <2>0. RestInv' /\ TypeOK /\ TypeOK'
      BY <1>1, StepRests, StepType DEF RestInv
    <2>1. PICK s \in Cooldowns : Shortest(s)
      BY ShortestExists
    <2>2. SUFFICES ASSUME NEW b \in Calls, TurnsTo(b)
                   PROVE  now >= failedAt[Order[b][at'[b]]] + s
      BY <2>1 DEF TurnsTo, Shortest
    <2>3. ASSUME NEW c \in Calls, NEW t \in Cooldowns, Trip(c, t), pc[c] = "calling"
          PROVE  now >= failedAt[Order[b][at'[b]]] + s
      <3>1. /\ Order[c][at[c]] \in Providers
            /\ at[c] + 1 \in 1..(Len(Order[c]) + 1)
            /\ until' = [until EXCEPT ![Order[c][at[c]]] = now + t]
            /\ GoOn(c, at[c] + 1, until')
            /\ now \in Nat /\ t \in Nat /\ t > 0 /\ until \in [Providers -> Nat]
        BY <2>0, <2>3, TripFacts
      <3>2. \A q \in Providers : until'[q] >= until[q] \/ until'[q] > now
        BY <3>1
      <3>3. until' \in [Providers -> Nat]
        BY <2>0 DEF TypeOK
      <3>4. QED
        BY <1>1, <2>0, <2>1, <2>2, <3>1, <3>2, <3>3, GoOnRested
    <2>4. ASSUME NEW c \in Calls, Run(c)
          PROVE  now >= failedAt[Order[b][at'[b]]] + s
      <3>1. GoOn(c, 1, until) /\ 1 \in 1..(Len(Order[c]) + 1)
        BY <2>4 DEF Run
      <3>2. until \in [Providers -> Nat]
        BY <2>0 DEF TypeOK
      <3>3. \A q \in Providers : until[q] >= until[q]
        BY <3>2
      <3>4. QED
        BY <1>1, <2>0, <2>1, <2>2, <3>1, <3>2, <3>3, GoOnRested
    <2>5. CASE UNCHANGED vars \/ Tick
      BY <2>2, <2>5 DEF vars, Tick, TurnsTo
    <2>6. ASSUME NEW c \in Calls, Reply(c)
          PROVE  now >= failedAt[Order[b][at'[b]]] + s
      <3>1. CASE Succeed(c) \/ Blip(c) \/ Escape(c)
        BY <2>0, <2>2, <3>1 DEF Succeed, Blip, Escape, TurnsTo, TypeOK, Ended
      <3>2. CASE ErrorReply(c)
        BY <2>3, <3>2 DEF ErrorReply
      <3>3. CASE BlipsOut(c)
        BY <2>3, <3>3 DEF BlipsOut, Cooldowns
      <3>4. QED
        BY <2>6, <3>1, <3>2, <3>3 DEF Reply
    <2>7. QED
      BY <1>1, <2>4, <2>5, <2>6 DEF Next
  <1>2. RestInv /\ [Next]_vars => RestInv'
    BY StepRests
  <1>3. QED
    BY <1>1, <1>2, InitRests, PTL DEF Spec, RestsAfterFailure

-----------------------------------------------------------------------------
(* Which calls cut a cooldown short *)

\* A waiting call stands at a provider whose cooldown is over, or which was
\* tripped after the call had begun.
ShortInv ==
  /\ TypeOK
  /\ \A c \in Calls : began[c] <= now
  /\ \A c \in Calls : pc[c] = "calling" =>
       \/ until[Order[c][at[c]]] <= now
       \/ failedAt[Order[c][at[c]]] >= began[c]

\* The provider a waiting call stands at, with the types of what is said of it.
LEMMA StandsAt ==
  ASSUME TypeOK, NEW c \in Calls, pc[c] = "calling"
  PROVE  /\ Order[c][at[c]] \in Providers
         /\ until[Order[c][at[c]]] \in Nat
         /\ failedAt[Order[c][at[c]]] \in Int
         /\ now \in Nat /\ began[c] \in Nat
  <1>1. Order[c] \in Seq(Providers) /\ at[c] \in 1..Len(Order[c])
    BY DEF TypeOK
  <1>2. Order[c][at[c]] \in Providers
    BY <1>1
  <1>3. QED
    BY <1>2 DEF TypeOK

\* Where the loop goes on it stops at a provider whose cooldown is over.
LEMMA GoOnShort ==
  ASSUME TypeOK, TypeOK',
         NEW c \in Calls, NEW from \in 1..(Len(Order[c]) + 1),
         GoOn(c, from, until'), now' = now, pc'[c] = "calling"
  PROVE  until'[Order[c][at'[c]]] <= now'
  <1>1. Usable(Order[c][at'[c]], until') /\ Order[c][at'[c]] \in Providers
    BY GoOnUsable
  <1>2. until'[Order[c][at'[c]]] \in Nat /\ now \in Nat
    BY <1>1 DEF TypeOK
  <1>3. QED
    BY <1>1, <1>2 DEF Usable

\* A step keeps ShortInv.
LEMMA StepShort == ShortInv /\ [Next]_vars => ShortInv'
  <1> SUFFICES ASSUME ShortInv, [Next]_vars PROVE ShortInv'
    OBVIOUS
  <1>0. TypeOK /\ TypeOK'
    BY StepType DEF ShortInv
  <1> DEFINE Covered(c) == \/ until[Order[c][at[c]]] <= now
                           \/ failedAt[Order[c][at[c]]] >= began[c]
  <1>1. ASSUME UNCHANGED <<until, failedAt, at, began>>, now' >= now,
               \A b \in Calls : pc'[b] = "calling" => pc[b] = "calling"
        PROVE  ShortInv'
    <2>1. ASSUME NEW c \in Calls, pc'[c] = "calling" PROVE Covered(c)'
      <3>1. Covered(c) /\ pc[c] = "calling"
        BY <1>1, <2>1 DEF ShortInv
      <3>2. until[Order[c][at[c]]] \in Nat /\ now \in Nat
        BY <1>0, <3>1, StandsAt
      <3>3. now' \in Nat
        BY <1>0 DEF TypeOK
      <3>4. QED
        BY <1>1, <3>1, <3>2, <3>3
    <2>2. ASSUME NEW c \in Calls PROVE began'[c] <= now'
      <3>1. began[c] <= now /\ began[c] \in Nat /\ now \in Nat /\ now' \in Nat
        BY <1>0 DEF ShortInv, TypeOK
      <3>2. QED
        BY <1>1, <3>1
    <2>3. QED
      BY <1>0, <2>1, <2>2 DEF ShortInv
  <1>2. CASE UNCHANGED vars \/ Tick
    <2>1. UNCHANGED <<until, failedAt, at, began, pc>> /\ now' >= now
      BY <1>0, <1>2 DEF vars, Tick, TypeOK
    <2>2. QED
      BY <1>1, <2>1
  <1>3. ASSUME NEW c \in Calls, Run(c) PROVE ShortInv'
    <2>1. /\ GoOn(c, 1, until') /\ 1 \in 1..(Len(Order[c]) + 1)
          /\ UNCHANGED <<now, until, failedAt>>
          /\ began' = [began EXCEPT ![c] = now]
      BY <1>3 DEF Run
    <2>2. \A b \in Calls \ {c} : at'[b] = at[b] /\ pc'[b] = pc[b] /\ began'[b] = began[b]
      BY <1>0, <2>1 DEF GoOn, TypeOK
    <2>3. ASSUME NEW b \in Calls, pc'[b] = "calling" PROVE Covered(b)'
      <3>1. CASE b = c
        BY <1>0, <2>1, <2>3, <3>1, GoOnShort
      <3>2. CASE b # c
        BY <2>1, <2>2, <2>3, <3>2 DEF ShortInv
      <3>3. QED
        BY <3>1, <3>2
    <2>4. \A b \in Calls : began'[b] <= now'
      BY <1>0, <2>1 DEF ShortInv, TypeOK
    <2>5. QED
      BY <1>0, <2>3, <2>4 DEF ShortInv
  <1>4. ASSUME NEW c \in Calls, NEW s \in Cooldowns, Trip(c, s), pc[c] = "calling"
        PROVE  ShortInv'
    <2> DEFINE p == Order[c][at[c]]
    <2>1. /\ p \in Providers
          /\ at[c] + 1 \in 1..(Len(Order[c]) + 1)
          /\ until' = [until EXCEPT ![p] = now + s]
          /\ failedAt' = [failedAt EXCEPT ![p] = now]
          /\ now' = now /\ began' = began
          /\ GoOn(c, at[c] + 1, until')
      BY <1>0, <1>4, TripFacts DEF Trip
    <2>2. \A b \in Calls \ {c} : at'[b] = at[b] /\ pc'[b] = pc[b]
      BY <1>0, <2>1 DEF GoOn, TypeOK
    <2>3. ASSUME NEW b \in Calls, pc'[b] = "calling" PROVE Covered(b)'
      <3>1. CASE b = c
        BY <1>0, <2>1, <2>3, <3>1, GoOnShort
      <3>2. CASE b # c /\ Order[b][at[b]] = p
        <4>1. failedAt'[p] = now /\ at'[b] = at[b] /\ began'[b] <= now
          BY <1>0, <2>1, <2>2, <3>2 DEF ShortInv, TypeOK
        <4>2. now \in Nat /\ began'[b] \in Nat
          BY <1>0 DEF TypeOK
        <4>3. QED
          BY <3>2, <4>1, <4>2
      <3>3. CASE b # c /\ Order[b][at[b]] # p
        <4>1. pc[b] = "calling" /\ at'[b] = at[b]
          BY <2>2, <2>3, <3>3
        <4>2. Order[b][at[b]] \in Providers
          BY <1>0, <4>1, StandsAt
        <4>3. /\ until'[Order[b][at[b]]] = until[Order[b][at[b]]]
              /\ failedAt'[Order[b][at[b]]] = failedAt[Order[b][at[b]]]
          BY <1>0, <2>1, <3>3, <4>2 DEF TypeOK
        <4>4. QED
          BY <2>1, <4>1, <4>3 DEF ShortInv
      <3>4. QED
        BY <3>1, <3>2, <3>3
    <2>4. \A b \in Calls : began'[b] <= now'
      BY <2>1 DEF ShortInv
    <2>5. QED
      BY <1>0, <2>3, <2>4 DEF ShortInv
  <1>5. ASSUME NEW c \in Calls, Reply(c) PROVE ShortInv'
    <2>1. CASE Succeed(c) \/ Blip(c) \/ Escape(c)
      <3>1. /\ UNCHANGED <<now, until, failedAt, at, began>>
            /\ \A b \in Calls : pc'[b] = "calling" => pc[b] = "calling"
        BY <1>0, <2>1 DEF Succeed, Blip, Escape, TypeOK
      <3>2. now' >= now
        BY <1>0, <3>1 DEF TypeOK
      <3>3. QED
        BY <1>1, <3>1, <3>2
    <2>2. CASE ErrorReply(c)
      BY <2>2, <1>4 DEF ErrorReply
    <2>3. CASE BlipsOut(c)
      BY <2>3, <1>4 DEF BlipsOut, Cooldowns
    <2>4. QED
      BY <1>5, <2>1, <2>2, <2>3 DEF Reply
  <1>6. QED
    BY <1>2, <1>3, <1>5 DEF Next

\* Only a call that was under way when a cooldown was set can cut it short: a
\* rejected key keeps its provider out for the whole of the auth cooldown
\* unless calls overlapped (chain.py trip).
THEOREM ShortSafety == Spec => CutShortOnlyByOverlap
  <1> DEFINE Late(c) == LET p == Order[c][at[c]] IN
                        until'[p] < until[p] => failedAt[p] >= began[c]
             Kept == \A c \in Calls : pc[c] = "calling" /\ at'[c] # at[c] => Late(c)
  <1>1. Init => ShortInv
    BY InitType DEF Init, ShortInv, TypeOK
  <1>2. ShortInv /\ [Next]_vars => ShortInv'
    BY StepShort
  <1>3. ASSUME ShortInv, [Next]_vars PROVE [Kept]_vars
    <2>0. TypeOK
      BY <1>3 DEF ShortInv
    <2>1. SUFFICES ASSUME NEW c \in Calls, pc[c] = "calling",
                          until'[Order[c][at[c]]] < until[Order[c][at[c]]]
                   PROVE  failedAt[Order[c][at[c]]] >= began[c]
      OBVIOUS
    <2> DEFINE p == Order[c][at[c]]
    <2>2. /\ p \in Providers /\ until[p] \in Nat /\ now \in Nat
          /\ until \in [Providers -> Nat]
      BY <2>0, <2>1, StandsAt DEF TypeOK
    <2>3. ASSUME NEW b \in Calls, NEW s \in Cooldowns, Trip(b, s), pc[b] = "calling"
          PROVE  until'[p] >= now
      <3>1. until' = [until EXCEPT ![Order[b][at[b]]] = now + s] /\ s \in Nat
        BY <2>0, <2>3, TripFacts
      <3>2. CASE p = Order[b][at[b]]
        BY <2>2, <3>1, <3>2
      <3>3. CASE p # Order[b][at[b]]
        BY <2>1, <2>2, <3>1, <3>3
      <3>4. QED
        BY <3>2, <3>3
    <2>4. ASSUME UNCHANGED until PROVE FALSE
      BY <2>1, <2>2, <2>4
    <2>5. until'[p] >= now
      <3>1. ASSUME NEW b \in Calls, Run(b) PROVE until'[p] >= now
        BY <2>4, <3>1 DEF Run
      <3>2. ASSUME NEW b \in Calls, Reply(b) PROVE until'[p] >= now
        BY <2>3, <2>4, <3>2 DEF Reply, Succeed, Blip, Escape, ErrorReply, BlipsOut, Cooldowns
      <3>3. QED
        BY <1>3, <2>4, <3>1, <3>2 DEF Next, Tick, vars
    <2>6. until'[p] \in Nat
      BY <1>3, <2>0, <2>2, StepType DEF TypeOK
    <2>7. ~(until[p] <= now)
      BY <2>1, <2>2, <2>5, <2>6
    <2>8. QED
      BY <1>3, <2>1, <2>7 DEF ShortInv
  <1>4. QED
    BY <1>1, <1>2, <1>3, PTL DEF Spec, CutShortOnlyByOverlap
=============================================================================
