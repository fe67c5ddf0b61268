SPECIFICATION Spec
CONSTANTS
  ann = ann
  bob = bob
  s1 = s1
  s2 = s2
  m1 = m1
  m2 = m2
  f1 = f1
  c1 = c1
  c2 = c2
  People <- TwoPeople
  Slugs <- TwoSlugs
  Matters <- TwoMatters
  Filings <- OneFiling
  Calls <- TwoCalls
  LostCommits = TRUE
SYMMETRY Symmetry
INVARIANTS TypeOK MattersStayInside TokensAreBacked
PROPERTIES ErrorsExplained ImplementsTenancy
