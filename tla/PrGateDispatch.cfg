CONSTANTS
  MaxAge = 2
  PRs = {p1}
  Contents = {c1, c2}
  MaxCommits = 1
SPECIFICATION PrSpec
INVARIANTS
  NoGreenOnScoreChange
