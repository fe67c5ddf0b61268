------------------------------ MODULE Chunking ------------------------------
(***************************************************************************)
(* How one page is cut into chunks: the loop that _create_chunks of the    *)
(* API and the create_chunks activity of the worker share.  One step is    *)
(* one turn of the loop.                                                   *)
(*                                                                         *)
(* Tokens are strings of bytes: one may hold several characters, and a     *)
(* character outside ASCII may be spread over several.  A slice of tokens  *)
(* that begins or ends inside a character still decodes, with U+FFFD in    *)
(* the place of the torn bytes, and such a text is not in the page.        *)
(***************************************************************************)
EXTENDS Integers, Sequences

CONSTANTS
  Chars,
  Replacement,  \* U+FFFD, which a page may also hold itself
  Pages,        \* the pages to cut
  Target,       \* target_size, 512 in the code
  Shared,       \* overlap, 64
  Prefix        \* how much of a chunk is searched for in the text, 30

\* A page: its characters, how many tokens they encode to, and how many of them
\* have begun and ended before each token.  Encoding loses nothing, and a
\* character has fewer tokens (at most four) than two slices share.
IsPage(page) ==
  /\ page.chars \in Seq(Chars)
  /\ page.size \in Nat
  /\ page.begun \in [0..page.size -> 0..Len(page.chars)]
  /\ page.ended \in [0..page.size -> 0..Len(page.chars)]
  /\ page.begun[0] = 0
  /\ page.ended[page.size] = Len(page.chars)
  /\ \A t \in 0..page.size :
       page.ended[t] <= page.begun[t] /\ page.begun[t] <= page.ended[t] + 1
  /\ \A t, u \in 0..page.size : t <= u => page.ended[t] <= page.ended[u]
  /\ \A t \in 0..page.size :
       t + Shared <= page.size => page.begun[t] <= page.ended[t + Shared]

ASSUME ChunkingAssumption ==
  /\ Target \in Nat /\ Shared \in Nat /\ Shared < Target
  /\ Prefix \in Nat /\ Prefix > 0
  /\ \A page \in Pages : IsPage(page)

VARIABLES
  text,         \* the page
  idx,          \* the token at which the next chunk begins
  rows,         \* the DocumentChunk rows: tokens from..to-1, and the position
                \* start..end-1 in the text that is stored with them
  done          \* the loop has ended

vars == <<text, idx, rows, done>>

\* A page without tokens is skipped.
Init ==
  /\ text \in Pages
  /\ idx = 0
  /\ rows = <<>>
  /\ done = (text.size = 0)

\* A slice that begins with token t begins with a character.
WholeAt(t) == text.begun[t] = text.ended[t]

\* encoding.decode of the tokens from..to-1.  The bytes left of a character
\* that begins before them give a U+FFFD each, one to three; those of a
\* character that ends behind them give one together.
Torn(from) == IF WholeAt(from) THEN {0} ELSE 1..3

Decoded(from, to, torn) ==
  [i \in 1..torn |-> Replacement]
    \o SubSeq(text.chars, text.begun[from] + 1, text.ended[to])
    \o (IF WholeAt(to) THEN <<>> ELSE <<Replacement>>)

\* Positions at which the first characters of a piece are found in the text.
Found(piece) ==
  {k \in 0..(Len(text.chars) - Prefix) :
     SubSeq(text.chars, k + 1, k + Prefix) = SubSeq(piece, 1, Prefix)}

\* Broken variant: the last such position.
IsStartLast(k, piece) ==
  IF Len(piece) > Prefix /\ Found(piece) # {}
  THEN k \in Found(piece) /\ \A other \in Found(piece) : k >= other
  ELSE k = 0

\* start_char: the first such position, 0 if there is none; short pieces are
\* not searched for.
IsStart(k, piece) ==
  IF Len(piece) > Prefix /\ Found(piece) # {}
  THEN k \in Found(piece) /\ \A other \in Found(piece) : k <= other
  ELSE k = 0

\* The end of the slice tokens[idx : idx + target_size]
SliceEnd == IF idx + Target <= text.size THEN idx + Target ELSE text.size

\* Broken variants: the loop is tested before the increment, a slice that ends
\* exactly with the page does not end it.
LastTestedEarly == idx >= text.size
LastOffByOne == idx + Target > text.size

\* This slice reaches the end of the page.
Last == idx + Target >= text.size

\* Broken variant: the slices share nothing.
StrideApart == Target

Stride == Target - Shared

Cut ==
  /\ ~done
  /\ \E torn \in Torn(idx), start \in 0..Len(text.chars) :
       LET piece == Decoded(idx, SliceEnd, torn) IN
       /\ IsStart(start, piece)
       /\ rows' = Append(rows, [from  |-> idx,
                                to    |-> SliceEnd,
                                start |-> start,
                                end   |-> start + Len(piece)])
  /\ done' = Last
  /\ idx' = IF Last THEN idx ELSE idx + Stride
  /\ UNCHANGED text

Next == Cut

Spec == Init /\ [][Next]_vars

-----------------------------------------------------------------------------
(* Properties *)

TypeOK ==
  /\ IsPage(text)
  /\ idx \in Nat
  /\ rows \in Seq([from : Nat, to : Nat, start : Nat, end : Nat])
  /\ done \in BOOLEAN
  /\ ~done => idx < text.size

\* No character is lost: when the loop has ended every character of the page is
\* whole in some chunk, also where a slice tears it, because the next slice
\* begins far enough before (pipeline.py:139-163).
NothingLost ==
  done => \A k \in 1..Len(text.chars) :
            \E i \in 1..Len(rows) :
              text.begun[rows[i].from] < k /\ k <= text.ended[rows[i].to]

\* Two chunks that follow each other share exactly the overlap, and only the
\* last chunk may be shorter than the target size.
SharesOverlap ==
  \A i \in 1..(Len(rows) - 1) :
    /\ rows[i].to - rows[i + 1].from = Shared
    /\ rows[i].to - rows[i].from = Target

\* No chunk repeats only what the one before it has: that would rank the same
\* passage twice.  This is what the break before the increment is for
\* (pipeline.py:161-162).
NothingRepeated ==
  \A i \in 1..(Len(rows) - 1) : rows[i + 1].to > rows[i].to

\* The slices the loop has been written for, without the loop: the i-th begins
\* i - 1 strides into the page, and there are as many as it takes to reach the
\* end.  Chunks are a function of the page, so that runs and retries which cut a
\* page again make the same ones, in the API and in the worker.
Begins(i) == (i - 1) * Stride
Reaches(i) == Begins(i) + Target >= text.size

RowsAreWindows ==
  /\ \A i \in 1..Len(rows) :
       /\ rows[i].from = Begins(i)
       /\ rows[i].to = IF Reaches(i) THEN text.size ELSE Begins(i) + Target
       /\ Reaches(i) => i = Len(rows) /\ done
  /\ done /\ text.size > 0 => rows # <<>> /\ Reaches(Len(rows))

\* "Each chunk preserves [...] position metadata" (chunking.py:21) only so far:
\* a chunk that begins with a character is never placed behind it, and is placed
\* exactly there if it is long and the page does not have its first characters
\* before; one that begins inside a character is not found in a page without
\* U+FFFD and is placed at 0 (chunking.py:73-77, pipeline.py:144-147).
PositionsHold ==
  \A i \in 1..Len(rows) :
    LET row == rows[i]
        first == text.begun[row.from]
        piece == Decoded(row.from, row.to, 0) IN
    /\ WholeAt(row.from) =>
         /\ row.start <= first
         /\ Len(piece) > Prefix /\ (\A k \in Found(piece) : k >= first) =>
              row.start = first /\ row.end = text.begun[row.to]
    /\ ~WholeAt(row.from) /\ (\A k \in 1..Len(text.chars) : text.chars[k] # Replacement) =>
         row.start = 0
=============================================================================
