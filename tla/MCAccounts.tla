----------------------------- MODULE MCAccounts -----------------------------
(***************************************************************************)
(* Values of the constants of Accounts for TLC.                            *)
(***************************************************************************)
EXTENDS Accounts, TLC

CONSTANTS ann, bob, s1, s2, m1, m2, f1, c1, c2

TwoPeople == {ann, bob}
TwoSlugs == {s1, s2}
TwoMatters == {m1, m2}
OneFiling == {f1}
TwoCalls == {c1, c2}

Symmetry == Permutations(People) \union Permutations(Slugs)
              \union Permutations(Matters) \union Permutations(Calls)
=============================================================================
