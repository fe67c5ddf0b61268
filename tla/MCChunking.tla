----------------------------- MODULE MCChunking -----------------------------
(***************************************************************************)
(* Pages of up to MaxSize tokens, so that passages repeat: two characters  *)
(* of one token each, one of two tokens, two that share a token, and       *)
(* U+FFFD itself.                                                          *)
(***************************************************************************)
EXTENDS Chunking

SequencesOf == INSTANCE SequencesExt

CONSTANTS a, b, wide, replacement, MaxSize

SomeChars == {a, b, wide, replacement}

\* What pages are put together from: characters and the number of their tokens.
Units == {[chars |-> <<a>>,           tokens |-> 1],
          [chars |-> <<wide>>,        tokens |-> 2],
          [chars |-> <<a, b>>,        tokens |-> 1],
          [chars |-> <<replacement>>, tokens |-> 1]}

NoText == [chars |-> <<>>, size |-> 0, begun |-> [t \in {0} |-> 0], ended |-> [t \in {0} |-> 0]]

Extended(page, unit) ==
  LET chars == page.chars \o unit.chars
      size == page.size + unit.tokens IN
  [chars |-> chars,
   size  |-> size,
   begun |-> [t \in 0..size |-> IF t <= page.size THEN page.begun[t] ELSE Len(chars)],
   ended |-> [t \in 0..size |-> IF t <= page.size THEN page.ended[t]
                                ELSE IF t < size THEN Len(page.chars) ELSE Len(chars)]]

SomePages ==
  {page \in {SequencesOf!FoldLeft(Extended, NoText, units) :
               units \in SequencesOf!BoundedSeq(Units, MaxSize)} : page.size <= MaxSize}
=============================================================================
