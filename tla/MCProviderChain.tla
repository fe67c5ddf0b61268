--------------------------- MODULE MCProviderChain ---------------------------
(***************************************************************************)
(* Values of the constants of ProviderChain for TLC: two lanes over three  *)
(* providers, one of which has no key.                                     *)
(***************************************************************************)
EXTENDS ProviderChain

CONSTANTS c1, c2, c3, groq, gemini, openrouter

ThreeCalls == {c1, c2, c3}
AllProviders == {groq, gemini, openrouter}
WithKeys == {groq, gemini}

\* The chat lane for c1 and c3, the analysis lane for c2.
Lanes == [c \in Calls |-> IF c = c2 THEN <<gemini, groq>>
                          ELSE <<openrouter, groq, gemini>>]
\* Only the analysis lane has a mock.
MockForAnalysis == [c \in Calls |-> c = c2]
=============================================================================
