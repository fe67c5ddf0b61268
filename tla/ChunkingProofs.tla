--------------------------- MODULE ChunkingProofs ---------------------------
(***************************************************************************)
(* The cutting loop is right for pages of every length and every encoding, *)
(* and for every target size and overlap, not only for 512 and 64.         *)
(***************************************************************************)
EXTENDS Chunking, SequenceTheorems, TLAPS

Rows == [from : Nat, to : Nat, start : Nat, end : Nat]

\* The row the next turn of the loop appends.
NewRow(r) == r \in Rows /\ r.from = idx /\ r.to = SliceEnd

\* The sizes are natural numbers and the stride is positive.
LEMMA Sizes == /\ Target \in Nat /\ Shared \in Nat /\ Shared < Target
               /\ Stride \in Nat /\ Stride > 0 /\ Stride = Target - Shared
               /\ Prefix \in Nat /\ Prefix > 0
  BY ChunkingAssumption DEF Stride

-----------------------------------------------------------------------------
(* Slices and what they decode to *)

\* A slice that is longer than the overlap, or begins with the page, holds its
\* first character to the end.
Roomy(from, to) == from = 0 \/ from + Shared <= to

\* How many characters have begun and ended where a slice begins and ends.
LEMMA SliceBounds ==
  ASSUME IsPage(text), NEW from \in Nat, NEW to \in Nat, from < to, to <= text.size,
         Roomy(from, to)
  PROVE  /\ text.begun[from] \in Nat /\ text.ended[from] \in Nat
         /\ text.begun[to] \in Nat /\ text.ended[to] \in Nat
         /\ text.begun[from] <= text.ended[to] /\ text.ended[to] <= Len(text.chars)
         /\ text.begun[to] = IF WholeAt(to) THEN text.ended[to] ELSE text.ended[to] + 1
         /\ text.begun[to] <= Len(text.chars)
         /\ text.chars \in Seq(Chars) /\ Len(text.chars) \in Nat
<1>1. text.size \in Nat /\ text.chars \in Seq(Chars) /\ Len(text.chars) \in Nat
  BY DEF IsPage
<1>2. from \in 0..text.size /\ to \in 0..text.size
  BY <1>1
<1>3. \A t \in 0..text.size : text.begun[t] \in 0..Len(text.chars)
                              /\ text.ended[t] \in 0..Len(text.chars)
  BY DEF IsPage
<1>4. text.ended[to] <= text.begun[to] /\ text.begun[to] <= text.ended[to] + 1
  BY <1>2 DEF IsPage
<1>5. text.begun[from] <= text.ended[to]
  <2>1. CASE from = 0
    BY <1>2, <1>3, <2>1 DEF IsPage
  <2>2. CASE from + Shared <= to
    <3>1. from + Shared \in 0..text.size /\ from + Shared <= text.size
      BY <1>1, <2>2, Sizes
    <3>2. text.begun[from] <= text.ended[from + Shared]
      BY <1>2, <3>1 DEF IsPage
    <3>3. text.ended[from + Shared] <= text.ended[to]
      BY <1>2, <2>2, <3>1 DEF IsPage
    <3>4. QED
      BY <1>2, <1>3, <3>1, <3>2, <3>3
  <2>3. QED
    BY <2>1, <2>2 DEF Roomy
<1>6. WholeAt(to) <=> text.begun[to] = text.ended[to]
  BY DEF WholeAt
<1>7. text.begun[to] = IF WholeAt(to) THEN text.ended[to] ELSE text.ended[to] + 1
  BY <1>1, <1>2, <1>3, <1>4, <1>6
<1>8. QED
  BY <1>1, <1>2, <1>3, <1>4, <1>5, <1>7

\* What one sequence after another has where.
LEMMA ConcatFacts ==
  ASSUME NEW S, NEW s \in Seq(S), NEW t \in Seq(S)
  PROVE  /\ s \o t \in Seq(S) /\ Len(s \o t) = Len(s) + Len(t)
         /\ \A i \in 1..Len(s) : (s \o t)[i] = s[i]
         /\ \A i \in 1..Len(t) : (s \o t)[Len(s) + i] = t[i]
<1>1. /\ s \o t \in Seq(S) /\ Len(s \o t) = Len(s) + Len(t)
      /\ \A i \in 1..(Len(s) + Len(t)) : (s \o t)[i] = IF i <= Len(s) THEN s[i] ELSE t[i - Len(s)]
  BY ConcatProperties
<1>2. Len(s) \in Nat /\ Len(t) \in Nat
  OBVIOUS
<1>3. \A i \in 1..Len(s) : (s \o t)[i] = s[i]
  BY <1>1, <1>2
<1>4. \A i \in 1..Len(t) : (s \o t)[Len(s) + i] = t[i]
  <2>1. SUFFICES ASSUME NEW i \in 1..Len(t) PROVE (s \o t)[Len(s) + i] = t[i]
    OBVIOUS
  <2>2. Len(s) + i \in 1..(Len(s) + Len(t)) /\ ~(Len(s) + i <= Len(s)) /\ Len(s) + i - Len(s) = i
    BY <1>2
  <2>3. QED
    BY <1>1, <2>2
<1>5. QED
  BY <1>1, <1>3, <1>4

\* The text of a slice: the torn bytes, the characters, the torn end.
LEMMA Decoding ==
  ASSUME IsPage(text), NEW from \in Nat, NEW to \in Nat, from < to, to <= text.size,
         Roomy(from, to), NEW torn \in Torn(from)
  PROVE  /\ torn \in Nat /\ (torn = 0 <=> WholeAt(from))
         /\ Len(Decoded(from, to, torn)) = torn + (text.begun[to] - text.begun[from])
         /\ Len(Decoded(from, to, torn)) \in Nat
         /\ \A i \in 1..torn : Decoded(from, to, torn)[i] = Replacement
         /\ \A i \in 1..(text.ended[to] - text.begun[from]) :
              Decoded(from, to, torn)[torn + i] = text.chars[text.begun[from] + i]
         /\ Decoded(from, to, torn) \in Seq(Chars \union {Replacement})
<1> DEFINE S == Chars \union {Replacement}
           b == text.begun[from]
           e == text.ended[to]
           before == [i \in 1..torn |-> Replacement]
           middle == SubSeq(text.chars, b + 1, e)
           after == IF WholeAt(to) THEN <<>> ELSE <<Replacement>>
<1>1. torn \in Nat /\ (torn = 0 <=> WholeAt(from))
  BY DEF Torn
<1>2. b \in Nat /\ e \in Nat /\ b <= e /\ e <= Len(text.chars) /\ text.chars \in Seq(Chars)
      /\ text.begun[to] = (IF WholeAt(to) THEN e ELSE e + 1)
  BY SliceBounds
<1>3. before \in Seq(S) /\ Len(before) = torn /\ \A i \in 1..torn : before[i] = Replacement
  BY <1>1
<1>4. middle \in Seq(S) /\ Len(middle) = e - b
      /\ \A i \in 1..(e - b) : middle[i] = text.chars[b + i]
  <2> HIDE DEF b, e
  <2>1. \A i \in (b + 1)..e : text.chars[i] \in S
    BY <1>2
  <2>2. middle = [i \in 1..(e - b) |-> text.chars[b + i]]
    BY <1>2
  <2>3. \A i \in 1..(e - b) : b + i \in (b + 1)..e
    BY <1>2
  <2>4. QED
    BY <1>2, <2>1, <2>2, <2>3
<1>5. after \in Seq(S) /\ Len(after) = text.begun[to] - e
  <2>1. CASE WholeAt(to)
    <3>1. after = <<>>
      BY <2>1
    <3>2. QED
      BY <1>2, <2>1, <3>1
  <2>2. CASE ~WholeAt(to)
    <3>1. after = <<Replacement>>
      BY <2>2
    <3>2. QED
      BY <1>2, <2>2, <3>1
  <2>3. QED
    BY <2>1, <2>2
<1>6. Decoded(from, to, torn) = (before \o middle) \o after
  BY DEF Decoded
<1>7. text.begun[to] \in Nat /\ text.begun[to] - e \in Nat
  BY <1>2
<1> HIDE DEF b, e, before, middle, after, S
<1>8. /\ before \o middle \in Seq(S) /\ Len(before \o middle) = torn + (e - b)
      /\ \A i \in 1..torn : (before \o middle)[i] = Replacement
      /\ \A i \in 1..(e - b) : (before \o middle)[torn + i] = text.chars[b + i]
  <2>1. /\ before \o middle \in Seq(S) /\ Len(before \o middle) = Len(before) + Len(middle)
        /\ \A i \in 1..Len(before) : (before \o middle)[i] = before[i]
        /\ \A i \in 1..Len(middle) : (before \o middle)[Len(before) + i] = middle[i]
    <3>1. before \in Seq(S) /\ middle \in Seq(S)
      BY <1>3, <1>4
    <3>2. QED
      BY <3>1, ConcatFacts
  <2>2. \A i \in 1..torn : (before \o middle)[i] = Replacement
    BY <1>3, <2>1
  <2>3. \A i \in 1..(e - b) : (before \o middle)[torn + i] = text.chars[b + i]
    BY <1>3, <1>4, <2>1
  <2>4. QED
    BY <1>3, <1>4, <2>1, <2>2, <2>3
<1>9. /\ (before \o middle) \o after \in Seq(S)
      /\ Len((before \o middle) \o after) = (torn + (e - b)) + (text.begun[to] - e)
      /\ \A i \in 1..(torn + (e - b)) :
           ((before \o middle) \o after)[i] = (before \o middle)[i]
  BY <1>5, <1>8, ConcatFacts
<1>10. /\ \A i \in 1..torn : i \in 1..(torn + (e - b))
       /\ \A i \in 1..(e - b) : torn + i \in 1..(torn + (e - b))
  BY <1>1, <1>2
<1>11. (torn + (e - b)) + (text.begun[to] - e) = torn + (text.begun[to] - b)
       /\ torn + (text.begun[to] - b) \in Nat
  BY <1>1, <1>2, <1>7
<1>12. /\ \A i \in 1..torn : Decoded(from, to, torn)[i] = Replacement
       /\ \A i \in 1..(e - b) : Decoded(from, to, torn)[torn + i] = text.chars[b + i]
  BY <1>6, <1>8, <1>9, <1>10
<1>13. QED
  BY <1>1, <1>6, <1>9, <1>11, <1>12 DEF b, e, S

-----------------------------------------------------------------------------
(* Types *)

\* Between two turns there is more left of the page than the slices share.
LoopInv ==
  /\ TypeOK
  /\ ~done => idx = 0 \/ idx + Shared < text.size

\* What one turn of the loop does.
LEMMA CutFacts ==
  ASSUME LoopInv, Cut
  PROVE  /\ idx \in Nat /\ idx < text.size /\ text.size \in Nat
         /\ SliceEnd \in Nat /\ SliceEnd <= text.size /\ idx < SliceEnd
         /\ Roomy(idx, SliceEnd)
         /\ \E r \in Rows : NewRow(r) /\ rows' = Append(rows, r)
         /\ text' = text /\ done' = Last /\ idx' = IF Last THEN idx ELSE idx + Stride
  <1>1. idx \in Nat /\ text.size \in Nat /\ idx < text.size
    BY DEF LoopInv, TypeOK, IsPage, Cut
  <1>2. SliceEnd \in Nat /\ SliceEnd <= text.size /\ idx < SliceEnd
    BY <1>1, Sizes DEF SliceEnd
  <1>3. Roomy(idx, SliceEnd)
    BY <1>1, Sizes DEF LoopInv, Cut, Roomy, SliceEnd
  <1>4. PICK torn \in Torn(idx), start \in 0..Len(text.chars) :
          rows' = Append(rows, [from  |-> idx, to |-> SliceEnd, start |-> start,
                                end   |-> start + Len(Decoded(idx, SliceEnd, torn))])
    BY DEF Cut
  <1>5. Len(Decoded(idx, SliceEnd, torn)) \in Nat
    BY <1>1, <1>2, <1>3, Decoding DEF LoopInv, TypeOK
  <1> DEFINE r == [from  |-> idx, to |-> SliceEnd, start |-> start,
                   end   |-> start + Len(Decoded(idx, SliceEnd, torn))]
  <1>6. r \in Rows
    BY <1>1, <1>2, <1>5 DEF Rows
  <1>7. NewRow(r)
    BY <1>6 DEF NewRow
  <1>8. text' = text /\ done' = Last /\ idx' = IF Last THEN idx ELSE idx + Stride
    BY DEF Cut
  <1>9. QED
    BY <1>1, <1>2, <1>3, <1>4, <1>6, <1>7, <1>8

\* The initial state has the types.
LEMMA InitType == Init => LoopInv
  <1> SUFFICES ASSUME Init PROVE LoopInv
    OBVIOUS
  <1>1. IsPage(text)
    BY ChunkingAssumption DEF Init
  <1>2. text.size \in Nat /\ (text.size # 0 => 0 < text.size)
    BY <1>1 DEF IsPage
  <1>3. done \in BOOLEAN /\ (~done => text.size # 0)
    BY Zenon DEF Init
  <1>4. idx = 0 /\ rows = <<>>
    BY DEF Init
  <1>5. QED
    BY <1>1, <1>2, <1>3, <1>4 DEF LoopInv, TypeOK

\* A turn of the loop keeps the types.
LEMMA StepType == LoopInv /\ [Next]_vars => LoopInv'
  <1> SUFFICES ASSUME LoopInv, [Next]_vars PROVE LoopInv'
    OBVIOUS
  <1>1. CASE UNCHANGED vars
    BY <1>1 DEF LoopInv, TypeOK, IsPage, vars
  <1>2. CASE Cut
    <2>1. PICK r \in Rows : NewRow(r) /\ rows' = Append(rows, r)
      BY <1>2, CutFacts
    <2>2. rows' \in Seq([from : Nat, to : Nat, start : Nat, end : Nat])
      BY <2>1 DEF LoopInv, TypeOK, Rows
    <2>3. idx' \in Nat
      BY <1>2, CutFacts, Sizes
    <2>4. ~done' => idx' + Shared < text.size
      <3>1. ~done' => ~Last
        BY <1>2, CutFacts, Zenon
      <3>2. ~Last => idx + Target < text.size
        BY <1>2, CutFacts, Sizes DEF Last
      <3>3. QED
        BY <1>2, <3>1, <3>2, CutFacts, Sizes
    <2>5. text' = text /\ done' = Last
      BY <1>2, CutFacts
    <2>6. done' \in BOOLEAN
      <3>1. Last \in BOOLEAN
        BY SMT DEF Last
      <3>2. QED
        BY <2>5, <3>1, Zenon
    <2>7. IsPage(text')
      BY <2>5, Zenon DEF LoopInv, TypeOK
    <2>8. ~done' => idx' < text'.size
      BY <1>2, <2>3, <2>4, <2>5, CutFacts, Sizes
    <2>9. QED
      BY <2>2, <2>3, <2>4, <2>5, <2>6, <2>7, <2>8 DEF LoopInv, TypeOK, IsPage
  <1>3. QED
    BY <1>1, <1>2 DEF Next

-----------------------------------------------------------------------------
(* Cover *)

\* How far the chunks reach.
Reached == IF rows = <<>> THEN 0 ELSE rows[Len(rows)].to

\* Character k is whole in a row.
Holds(row, k) == text.begun[row.from] < k /\ k <= text.ended[row.to]

\* The strengthening: while the loop goes on the chunks are all full and reach
\* exactly the overlap beyond the start of the next one; when it has ended they
\* reach the end of the page; and all characters that are reached are in some
\* chunk.
CutInv ==
  /\ LoopInv
  /\ SharesOverlap
  /\ NothingRepeated
  /\ done => Reached = text.size
  /\ ~done => /\ Reached < text.size
              /\ rows = <<>> => idx = 0
              /\ rows # <<>> => /\ Reached = idx + Shared
                                /\ Reached = rows[Len(rows)].from + Target
  /\ \A i \in 1..Len(rows) : rows[i].from \in 0..text.size /\ rows[i].to \in 0..text.size
  /\ \A k \in Nat : 0 < k /\ k <= text.ended[Reached] => \E i \in 1..Len(rows) : Holds(rows[i], k)

\* It holds before the first turn.
LEMMA InitCut == Init => CutInv
  <1> SUFFICES ASSUME Init PROVE CutInv
    OBVIOUS
  <1>1. LoopInv
    BY InitType
  <1>2. rows = <<>> /\ Len(rows) = 0 /\ Reached = 0 /\ idx = 0
    BY DEF Init, Reached
  <1>3. done => text.size = 0
    BY Zenon DEF Init
  <1>4. ~done => 0 < text.size
    BY <1>1, <1>2 DEF LoopInv, TypeOK
  <1>5. text.ended[0] = 0
    <2>1. IsPage(text)
      BY <1>1 DEF LoopInv, TypeOK
    <2>2. text.ended[0] \in Nat /\ text.ended[0] <= text.begun[0]
      BY <2>1 DEF IsPage
    <2>3. QED
      BY <2>1, <2>2 DEF IsPage
  <1>6. QED
    BY <1>1, <1>2, <1>3, <1>4, <1>5 DEF CutInv, SharesOverlap, NothingRepeated

\* A turn of the loop keeps it.
LEMMA StepCut == CutInv /\ [Next]_vars => CutInv'
  <1> SUFFICES ASSUME CutInv, [Next]_vars PROVE CutInv'
    OBVIOUS
  <1>0. LoopInv /\ LoopInv'
    BY StepType DEF CutInv
  <1>1. CASE UNCHANGED vars
    BY <1>0, <1>1 DEF CutInv, vars, Reached, SharesOverlap, NothingRepeated, Holds
  <1>2. CASE Cut
    <2>1. PICK r \in Rows : NewRow(r) /\ rows' = Append(rows, r)
      BY <1>0, <1>2, CutFacts
    <2> DEFINE n == Len(rows)
    <2>2. /\ rows \in Seq(Rows) /\ n \in Nat
          /\ rows' \in Seq(Rows) /\ Len(rows') = n + 1 /\ rows' # <<>>
          /\ rows'[n + 1] = r
          /\ \A i \in 1..n : rows'[i] = rows[i]
      <3>1. rows \in Seq(Rows)
        BY <1>0 DEF LoopInv, TypeOK, Rows
      <3> HIDE DEF n
      <3>2. Len(rows) \in Nat /\ rows' \in Seq(Rows) /\ Len(rows') = Len(rows) + 1
            /\ rows'[Len(rows) + 1] = r /\ \A i \in 1..Len(rows) : rows'[i] = rows[i]
        BY <2>1, <3>1
      <3>3. rows' # <<>>
        BY <3>2
      <3>4. QED
        BY <3>1, <3>2, <3>3 DEF n
    <2>3. /\ idx \in Nat /\ text.size \in Nat /\ idx < text.size
          /\ r.from = idx /\ r.to = SliceEnd /\ r.to \in Nat
          /\ idx < r.to /\ r.to <= text.size
          /\ text' = text /\ done' = Last /\ idx' = IF Last THEN idx ELSE idx + Stride
      BY <1>0, <1>2, <2>1, CutFacts DEF NewRow
    <2>4. ~done /\ Reached < text.size
      BY <1>2 DEF Cut, CutInv
    <2>5. Reached' = r.to
      BY <2>2 DEF Reached
    <2>6. Reached < r.to
      <3>1. CASE rows = <<>>
        BY <2>3, <3>1 DEF Reached
      <3>2. CASE rows # <<>>
        <4>1. Reached = idx + Shared /\ Reached < text.size
          BY <2>4, <3>2 DEF CutInv
        <4>2. QED
          BY <2>3, <4>1, Sizes DEF SliceEnd
      <3>3. QED
        BY <3>1, <3>2
    <2>7. SharesOverlap' /\ NothingRepeated'
      <3>1. ASSUME NEW i \in 1..n
            PROVE  /\ rows'[i].to - rows'[i + 1].from = Shared
                   /\ rows'[i].to - rows'[i].from = Target
                   /\ rows'[i + 1].to > rows'[i].to
        <4>0. i \in Nat /\ i + 1 \in 1..(n + 1)
          BY <2>2
        <4>1. CASE i < n
          <5>1. i \in 1..(n - 1) /\ i + 1 \in 1..n
            BY <2>2, <4>0, <4>1
          <5>2. /\ rows[i].to - rows[i + 1].from = Shared
                /\ rows[i].to - rows[i].from = Target
                /\ rows[i + 1].to > rows[i].to
            BY <5>1 DEF CutInv, SharesOverlap, NothingRepeated
          <5>3. QED
            BY <2>2, <5>1, <5>2
        <4>2. CASE i = n
          <5>1. rows # <<>>
            BY <2>2, <4>2
          <5>2. /\ rows[n].to = Reached
                /\ rows[n].to = idx + Shared
                /\ rows[n].to = rows[n].from + Target
            BY <2>4, <5>1 DEF CutInv, Reached
          <5>3. rows'[i] = rows[n] /\ rows'[i + 1] = r
            BY <2>2, <4>2
          <5>4. rows[n].from \in Nat /\ rows[n].to \in Nat
            <6>1. rows[n] \in Rows
              BY <2>2, <4>2
            <6>2. QED
              BY <6>1 DEF Rows
          <5>5. QED
            BY <2>3, <2>6, <5>2, <5>3, <5>4, Sizes
        <4>3. QED
          BY <2>2, <4>0, <4>1, <4>2
      <3>2. QED
        BY <2>2, <3>1 DEF SharesOverlap, NothingRepeated
    <2>8. done' => Reached' = text'.size
      <3>1. done' => Last
        BY <2>3, Zenon
      <3>2. Last => SliceEnd = text.size
        BY <2>3, Sizes DEF Last, SliceEnd
      <3>3. QED
        BY <2>3, <2>5, <3>1, <3>2
    <2>9. ~done' => /\ Reached' < text'.size
                    /\ Reached' = idx' + Shared
                    /\ Reached' = rows'[Len(rows')].from + Target
      <3>1. ~done' => ~Last
        BY <2>3, Zenon
      <3>2. ~Last => /\ SliceEnd = idx + Target /\ SliceEnd < text.size
                     /\ SliceEnd = idx + Stride + Shared
        BY <2>3, Sizes DEF Last, SliceEnd
      <3>3. QED
        BY <2>2, <2>3, <2>5, <3>1, <3>2, Sizes
    <2>10. \A i \in 1..Len(rows') : rows'[i].from \in 0..text'.size /\ rows'[i].to \in 0..text'.size
      <3>1. SUFFICES ASSUME NEW i \in 1..Len(rows')
                     PROVE  rows'[i].from \in 0..text.size /\ rows'[i].to \in 0..text.size
        BY <2>3
      <3>2. CASE i \in 1..n
        BY <2>2, <3>2 DEF CutInv
      <3>3. CASE i = n + 1
        BY <2>2, <2>3, <3>3
      <3>4. QED
        BY <2>2, <3>2, <3>3
    <2>11. Roomy(idx, r.to) /\ text.begun[idx] <= text.ended[Reached]
      <3>1. IsPage(text) /\ Roomy(idx, r.to)
        BY <1>0, <1>2, <2>3, CutFacts DEF LoopInv, TypeOK
      <3>2. CASE rows = <<>>
        <4>1. Reached = 0 /\ idx = 0
          BY <2>4, <3>2 DEF CutInv, Reached
        <4>2. 0 \in 0..text.size
          BY <2>3
        <4>3. text.begun[0] = 0 /\ text.ended[0] \in Nat
          BY <3>1, <4>2 DEF IsPage
        <4>4. QED
          BY <3>1, <4>1, <4>3
      <3>3. CASE rows # <<>>
        <4>1. Reached = idx + Shared /\ idx + Shared <= text.size
          BY <2>3, <2>4, <3>3, Sizes DEF CutInv
        <4>2. idx \in 0..text.size
          BY <2>3
        <4>3. text.begun[idx] <= text.ended[idx + Shared]
          BY <3>1, <4>1, <4>2 DEF IsPage
        <4>4. QED
          BY <3>1, <4>1, <4>3
      <3>4. QED
        BY <3>2, <3>3
    <2>12. ASSUME NEW k \in Nat, 0 < k, k <= text.ended[Reached']
           PROVE  \E i \in 1..Len(rows') : Holds(rows'[i], k)
      <3>1. CASE k <= text.ended[Reached]
        <4>1. PICK i \in 1..n : Holds(rows[i], k)
          BY <2>12, <3>1 DEF CutInv
        <4>2. i \in 1..Len(rows') /\ rows'[i] = rows[i]
          BY <2>2, <4>1
        <4>3. QED
          BY <4>1, <4>2
      <3>2. CASE ~(k <= text.ended[Reached])
        <4>1. text.begun[idx] \in Nat /\ text.ended[Reached] \in Nat
          <5>1. Reached \in 0..text.size /\ idx \in 0..text.size
            <6>1. Reached \in Nat
              BY <1>0, <2>2, Sizes DEF Reached, CutInv
            <6>2. QED
              BY <2>3, <2>4, <6>1
          <5>2. IsPage(text)
            BY <1>0 DEF LoopInv, TypeOK
          <5>3. QED
            BY <5>1, <5>2 DEF IsPage
        <4>2. Holds(r, k)
          BY <2>3, <2>5, <2>11, <2>12, <3>2, <4>1 DEF Holds
        <4>3. n + 1 \in 1..Len(rows') /\ rows'[n + 1] = r
          BY <2>2
        <4>4. QED
          BY <4>2, <4>3
      <3>3. QED
        BY <3>1, <3>2
    <2>13. \A k \in Nat : 0 < k /\ k <= text'.ended[Reached'] =>
             \E i \in 1..Len(rows') : Holds(rows[i], k)'
      <3>1. SUFFICES ASSUME NEW k \in Nat, 0 < k, k <= text.ended[Reached']
                     PROVE  \E i \in 1..Len(rows') : Holds(rows[i], k)'
        BY <2>3
      <3>2. PICK i \in 1..Len(rows') : Holds(rows'[i], k)
        BY <2>12, <3>1
      <3>3. Holds(rows[i], k)'
        BY <2>3, <3>2 DEF Holds
      <3>4. QED
        BY <3>3
    <2>14. ~done' => /\ Reached' < text'.size
                     /\ rows' = <<>> => idx' = 0
                     /\ rows' # <<>> => /\ Reached' = idx' + Shared
                                        /\ Reached' = rows'[Len(rows')].from + Target
      BY <2>2, <2>9
    <2>15. QED
      BY <1>0, <2>7, <2>8, <2>10, <2>13, <2>14 DEF CutInv
  <1>3. QED
    BY <1>1, <1>2 DEF Next

\* Every variable of the loop keeps its type and it never reads past the page.
THEOREM TypeCorrect == Spec => []TypeOK
  <1>1. LoopInv /\ [Next]_vars => LoopInv'
    BY StepType
  <1>2. LoopInv => TypeOK
    BY DEF LoopInv
  <1>3. QED
    BY <1>1, <1>2, InitType, PTL DEF Spec

\* No character of a page is lost between its chunks, for every length of the
\* page, every encoding, target size and overlap: one that a slice tears is whole
\* in the next (pipeline.py _create_chunks).
THEOREM CoverSafety == Spec => []NothingLost
  <1>1. CutInv => NothingLost
    <2> SUFFICES ASSUME CutInv, done, NEW k \in 1..Len(text.chars)
                 PROVE  \E i \in 1..Len(rows) : Holds(rows[i], k)
      BY DEF NothingLost, Holds
    <2>1. text.ended[Reached] = Len(text.chars)
      BY DEF CutInv, LoopInv, TypeOK, IsPage
    <2>2. k \in Nat /\ 0 < k /\ k <= text.ended[Reached]
      BY <2>1
    <2>3. QED
      BY <2>2 DEF CutInv
  <1>2. CutInv /\ [Next]_vars => CutInv'
    BY StepCut
  <1>3. QED
    BY <1>1, <1>2, InitCut, PTL DEF Spec

\* Consecutive chunks share exactly the overlap, and all but the last are full.
THEOREM OverlapSafety == Spec => []SharesOverlap
  <1>1. CutInv => SharesOverlap
    BY DEF CutInv
  <1>2. CutInv /\ [Next]_vars => CutInv'
    BY StepCut
  <1>3. QED
    BY <1>1, <1>2, InitCut, PTL DEF Spec

\* No chunk only repeats its predecessor: the loop ends in time.
THEOREM RepeatSafety == Spec => []NothingRepeated
  <1>1. CutInv => NothingRepeated
    BY DEF CutInv
  <1>2. CutInv /\ [Next]_vars => CutInv'
    BY StepCut
  <1>3. QED
    BY <1>1, <1>2, InitCut, PTL DEF Spec
-----------------------------------------------------------------------------
(* Positions *)

\* A long piece that begins with a character is found at least there.
LEMMA FoundWhereCut ==
  ASSUME IsPage(text), NEW from \in Nat, NEW to \in Nat, from < to, to <= text.size,
         Roomy(from, to), WholeAt(from), Len(Decoded(from, to, 0)) > Prefix
  PROVE  text.begun[from] \in Found(Decoded(from, to, 0))
<1> DEFINE piece == Decoded(from, to, 0)
           b == text.begun[from]
           e == text.ended[to]
<1>1. /\ b \in Nat /\ e \in Nat /\ b <= e /\ e <= Len(text.chars)
      /\ text.begun[to] \in Nat /\ text.begun[to] <= e + 1
      /\ text.chars \in Seq(Chars) /\ Len(text.chars) \in Nat
  BY SliceBounds
<1>2. 0 \in Torn(from)
  BY DEF Torn
<1>3. /\ Len(piece) = text.begun[to] - b
      /\ \A i \in 1..(e - b) : piece[i] = text.chars[b + i]
      /\ piece \in Seq(Chars \union {Replacement})
  <2>1. Len(piece) = 0 + (text.begun[to] - b) /\ piece \in Seq(Chars \union {Replacement})
        /\ \A i \in 1..(e - b) : piece[0 + i] = text.chars[b + i]
    BY <1>2, Decoding
  <2>2. \A i \in 1..(e - b) : 0 + i = i
    BY <1>1
  <2>3. QED
    BY <1>1, <2>1, <2>2
<1> HIDE DEF piece, b, e
<1>4. Prefix \in Nat /\ Prefix <= e - b
  BY <1>1, <1>3, Sizes DEF piece
<1>5. SubSeq(text.chars, b + 1, b + Prefix) = [i \in 1..Prefix |-> text.chars[b + i]]
  <2>1. \A i \in (b + 1)..(b + Prefix) : text.chars[i] \in Chars
    BY <1>1, <1>4
  <2>2. QED
    BY <1>1, <1>4, <2>1
<1>6. SubSeq(piece, 1, Prefix) = [i \in 1..Prefix |-> piece[i]]
  <2>1. Prefix <= Len(piece)
    BY <1>1, <1>3, <1>4 DEF piece
  <2>2. QED
    BY <1>3, <1>4, <2>1
<1>7. \A i \in 1..Prefix : piece[i] = text.chars[b + i]
  BY <1>1, <1>3, <1>4
<1>8. b \in 0..(Len(text.chars) - Prefix)
  BY <1>1, <1>4
<1>9. QED
  BY <1>5, <1>6, <1>7, <1>8 DEF Found, piece, b

\* A piece that begins with U+FFFD is not found in a page that has none.
LEMMA TornNotFound ==
  ASSUME IsPage(text), NEW piece, NEW S, piece \in Seq(S), Len(piece) > Prefix,
         piece[1] = Replacement, \A k \in 1..Len(text.chars) : text.chars[k] # Replacement
  PROVE  Found(piece) = {}
<1> SUFFICES ASSUME NEW k \in 0..(Len(text.chars) - Prefix),
                    SubSeq(text.chars, k + 1, k + Prefix) = SubSeq(piece, 1, Prefix)
             PROVE  FALSE
  BY DEF Found
<1>1. Prefix \in Nat /\ Prefix > 0 /\ Len(text.chars) \in Nat /\ text.chars \in Seq(Chars)
  BY Sizes DEF IsPage
<1>2. SubSeq(text.chars, k + 1, k + Prefix)[1] = text.chars[k + 1]
  BY <1>1
<1>3. SubSeq(piece, 1, Prefix)[1] = piece[1]
  BY <1>1
<1>4. k + 1 \in 1..Len(text.chars)
  BY <1>1
<1>5. QED
  BY <1>2, <1>3, <1>4

\* The position of one row is as PositionsHold says.
PositionHolds(row) ==
  LET first == text.begun[row.from]
      piece == Decoded(row.from, row.to, 0) IN
  /\ WholeAt(row.from) =>
       /\ row.start <= first
       /\ Len(piece) > Prefix /\ (\A k \in Found(piece) : k >= first) =>
            row.start = first /\ row.end = text.begun[row.to]
  /\ ~WholeAt(row.from) /\ (\A k \in 1..Len(text.chars) : text.chars[k] # Replacement) =>
       row.start = 0

\* The row a turn appends has a position that holds.
LEMMA CutPosition ==
  ASSUME LoopInv, Cut
  PROVE  \E r \in Rows : rows' = Append(rows, r) /\ PositionHolds(r)
<1>1. /\ idx \in Nat /\ SliceEnd \in Nat /\ idx < SliceEnd /\ SliceEnd <= text.size
      /\ Roomy(idx, SliceEnd) /\ IsPage(text) /\ Prefix \in Nat
  BY CutFacts, Sizes DEF LoopInv, TypeOK
<1>2. PICK torn \in Torn(idx), start \in 0..Len(text.chars) :
        /\ IsStart(start, Decoded(idx, SliceEnd, torn))
        /\ rows' = Append(rows, [from  |-> idx, to |-> SliceEnd, start |-> start,
                                 end   |-> start + Len(Decoded(idx, SliceEnd, torn))])
  BY DEF Cut
<1> DEFINE piece == Decoded(idx, SliceEnd, torn)
           r == [from  |-> idx, to |-> SliceEnd, start |-> start, end |-> start + Len(piece)]
           first == text.begun[idx]
<1>3. /\ torn \in Nat /\ (torn = 0 <=> WholeAt(idx))
      /\ Len(piece) = torn + (text.begun[SliceEnd] - first) /\ Len(piece) \in Nat
      /\ \A i \in 1..torn : piece[i] = Replacement
      /\ piece \in Seq(Chars \union {Replacement})
  BY <1>1, Decoding
<1>4. first \in Nat /\ text.begun[SliceEnd] \in Nat /\ start \in Nat
  BY <1>1, SliceBounds DEF IsPage
<1>5. r \in Rows /\ r.from = idx /\ r.to = SliceEnd /\ r.start = start
      /\ r.end = start + Len(piece)
  BY <1>1, <1>3, <1>4 DEF Rows
<1>6. IsStart(start, piece)
  BY <1>2
<1> HIDE DEF piece, r, first
<1>7. CASE WholeAt(idx)
  <2>1. piece = Decoded(idx, SliceEnd, 0)
    BY <1>3, <1>7 DEF piece
  <2>2. Len(piece) > Prefix => first \in Found(piece)
    BY <1>1, <1>7, <2>1, FoundWhereCut DEF first
  <2>3. start <= first
    BY <1>4, <1>6, <2>2 DEF IsStart
  <2>4. ASSUME Len(piece) > Prefix, \A k \in Found(piece) : k >= first
        PROVE  start = first /\ start + Len(piece) = text.begun[SliceEnd]
    <3>1. start \in Found(piece)
      BY <1>6, <2>2, <2>4 DEF IsStart
    <3>2. start = first
      BY <1>4, <2>3, <2>4, <3>1
    <3>3. QED
      BY <1>3, <1>4, <1>7, <3>2
  <2>5. PositionHolds(r)
    BY <1>5, <1>7, <2>1, <2>3, <2>4 DEF PositionHolds, first
  <2>6. QED
    BY <1>2, <1>5, <2>5 DEF r, piece
<1>8. CASE ~WholeAt(idx)
  <2>1. ASSUME \A k \in 1..Len(text.chars) : text.chars[k] # Replacement
        PROVE  start = 0
    <3>1. CASE Len(piece) > Prefix
      <4>1. piece[1] = Replacement
        BY <1>3, <1>8
      <4>2. Found(piece) = {}
        BY <1>1, <1>3, <2>1, <3>1, <4>1, TornNotFound
      <4>3. QED
        BY <1>6, <4>2 DEF IsStart
    <3>2. CASE ~(Len(piece) > Prefix)
      BY <1>6, <3>2 DEF IsStart
    <3>3. QED
      BY <3>1, <3>2
  <2>2. PositionHolds(r)
    BY <1>5, <1>8, <2>1 DEF PositionHolds
  <2>3. QED
    BY <1>2, <1>5, <2>2 DEF r, piece
<1>9. QED
  BY <1>7, <1>8

\* Every row is as CutPosition leaves it, and a turn changes none.
LEMMA StepPosition ==
  LoopInv /\ (\A i \in 1..Len(rows) : PositionHolds(rows[i])) /\ [Next]_vars
    => (\A i \in 1..Len(rows) : PositionHolds(rows[i]))'
  <1> SUFFICES ASSUME LoopInv, \A i \in 1..Len(rows) : PositionHolds(rows[i]), [Next]_vars,
                      NEW i \in 1..Len(rows')
               PROVE  PositionHolds(rows[i])'
    OBVIOUS
  <1>1. CASE UNCHANGED vars
    BY <1>1 DEF vars, PositionHolds, Decoded, WholeAt, Found
  <1>2. CASE Cut
    <2>1. PICK r \in Rows : rows' = Append(rows, r) /\ PositionHolds(r)
      BY <1>2, CutPosition
    <2>2. rows \in Seq(Rows)
      BY DEF LoopInv, TypeOK, Rows
    <2>3. text' = text
      BY <1>2 DEF Cut
    <2>4. PositionHolds(rows'[i])
      <3>1. CASE i <= Len(rows)
        BY <2>1, <2>2, <3>1
      <3>2. CASE i > Len(rows)
        BY <2>1, <2>2, <3>2
      <3>3. QED
        BY <2>1, <2>2, <3>1, <3>2
    <2>5. QED
      BY <2>3, <2>4, Zenon DEF PositionHolds, Decoded, WholeAt, Found
  <1>3. QED
    BY <1>1, <1>2 DEF Next

\* For every page, encoding, size and length of prefix: a chunk that begins with
\* a character is placed right if it is long and the page does not have its
\* first characters before, and one that begins inside a character at 0.
THEOREM PositionSafety == Spec => []PositionsHold
  <1> DEFINE AllHold == \A i \in 1..Len(rows) : PositionHolds(rows[i])
  <1>1. Init => AllHold
    <2>1. Init => Len(rows) = 0
      BY DEF Init
    <2>2. QED
      BY <2>1
  <1>2. LoopInv /\ AllHold /\ [Next]_vars => AllHold'
    BY StepPosition
  <1>3. AllHold => PositionsHold
    BY DEF PositionsHold, PositionHolds
  <1>4. LoopInv /\ [Next]_vars => LoopInv'
    BY StepType
  <1>5. QED
    BY <1>1, <1>2, <1>3, <1>4, InitType, PTL DEF Spec

-----------------------------------------------------------------------------
(* The loop and its slices *)

\* Where the loop stands: as many strides into the page as it has made chunks.
WindowInv ==
  /\ LoopInv
  /\ RowsAreWindows
  /\ ~done => idx = Len(rows) * Stride

LEMMA OneStrideMore ==
  ASSUME NEW n \in Nat
  PROVE  (n + 1) * Stride = n * Stride + Stride /\ n * Stride \in Nat
<1>1. Stride \in Nat
  BY Sizes
<1> HIDE DEF Stride
<1>2. PICK d \in Nat : d = Stride
  BY <1>1
<1>3. (n + 1) * d = n * d + d /\ n * d \in Nat
  OBVIOUS
<1> QED
  BY <1>2, <1>3

LEMMA StepWindow == WindowInv /\ [Next]_vars => WindowInv'
<1> SUFFICES ASSUME WindowInv, [Next]_vars PROVE WindowInv'
  OBVIOUS
<1>0. LoopInv /\ LoopInv'
  BY StepType DEF WindowInv
<1>1. CASE UNCHANGED vars
  BY <1>0, <1>1 DEF WindowInv, RowsAreWindows, Reaches, Begins, vars
<1>2. CASE Cut
  <2>1. PICK r \in Rows : NewRow(r) /\ rows' = Append(rows, r)
    BY <1>0, <1>2, CutFacts
  <2>2. PICK n \in Nat : n = Len(rows)
    BY <1>0 DEF LoopInv, TypeOK
  <2>3. /\ rows' # <<>> /\ Len(rows') = n + 1 /\ rows'[n + 1] = r
        /\ \A i \in 1..n : rows'[i] = rows[i]
    <3>1. rows \in Seq(Rows)
      BY <1>0 DEF LoopInv, TypeOK, Rows
    <3> QED
      BY <2>1, <2>2, <3>1
  <2>4. /\ idx \in Nat /\ text.size \in Nat /\ ~done
        /\ r.from = idx /\ r.to = SliceEnd
        /\ text' = text /\ done' = Last /\ idx' = IF Last THEN idx ELSE idx + Stride
    BY <1>0, <1>2, <2>1, CutFacts DEF NewRow, Cut
  <2>5. idx = n * Stride /\ \A i \in 1..n : ~Reaches(i)
    BY <2>2, <2>4 DEF WindowInv, RowsAreWindows
  <2>6. Begins(n + 1) = idx
    BY <2>2, <2>5 DEF Begins
  <2>7. Reaches(n + 1) <=> Last
    BY <2>6 DEF Reaches, Last
  <2>8. r.from = Begins(n + 1)
        /\ r.to = IF Reaches(n + 1) THEN text.size ELSE Begins(n + 1) + Target
    <3>1. Target \in Nat
      BY Sizes
    <3> QED
      BY <2>4, <2>6, <2>7, <3>1 DEF SliceEnd, Last
  <2>9. \A i \in 1..n : /\ rows[i].from = Begins(i)
                        /\ rows[i].to = Begins(i) + Target
    BY <2>2, <2>5 DEF WindowInv, RowsAreWindows
  <2>10. \A i : Begins(i)' = Begins(i) /\ (Reaches(i)' <=> Reaches(i))
    BY <2>4 DEF Begins, Reaches, Stride
  <2>11. \A i \in 1..(n + 1) : i \in 1..n \/ i = n + 1
    OBVIOUS
  <2>12. Last = done'
    BY <2>4
  <2>13. RowsAreWindows'
    <3>1. \A i \in 1..(n + 1) :
            /\ rows'[i].from = Begins(i)
            /\ rows'[i].to = IF Reaches(i) THEN text.size ELSE Begins(i) + Target
            /\ Reaches(i) => i = n + 1 /\ done'
      BY <2>3, <2>5, <2>7, <2>8, <2>9, <2>11, <2>12
    <3>2. done' => Reaches(n + 1)
      BY <2>7, <2>12
    <3> QED
      BY <2>3, <2>4, <2>10, <3>1, <3>2 DEF RowsAreWindows
  <2>14. ~done' => idx' = Len(rows') * Stride
    BY <2>2, <2>3, <2>4, <2>5, OneStrideMore
  <2> QED
    BY <1>0, <2>13, <2>14, Zenon DEF WindowInv, Stride
<1> QED
  BY <1>1, <1>2 DEF Next

\* RowsAreWindows: the loop makes the slices it stands for, as many as it takes
\* and no more, for every page, target size and smaller overlap.
THEOREM WindowSafety == Spec => []RowsAreWindows
<1>1. Init => WindowInv
  <2> SUFFICES ASSUME Init PROVE WindowInv
    OBVIOUS
  <2>1. LoopInv /\ Stride \in Nat
    BY InitType, Sizes
  <2>2. rows = <<>> /\ Len(rows) = 0 /\ idx = 0 /\ (done => text.size = 0)
    BY Zenon DEF Init
  <2>3. RowsAreWindows
    BY <2>2 DEF RowsAreWindows
  <2>4. idx = Len(rows) * Stride
    BY <2>1, <2>2
  <2> QED
    BY <2>1, <2>3, <2>4 DEF WindowInv
<1>2. WindowInv => RowsAreWindows
  BY DEF WindowInv
<1> QED
  BY <1>1, <1>2, StepWindow, PTL DEF Spec
=============================================================================
