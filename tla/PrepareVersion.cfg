SPECIFICATION Spec
CONSTANTS
  Preparers = {p1, p2}
  p1 = p1
  p2 = p2
  Versions = {1, 2, 3}
  MaxCommits = 5
  MaxEdits = 1
INVARIANT OwnTopicAccepted
INVARIANT PullRequestMerges
PROPERTY HumanWorkKept
SYMMETRY Symmetry
CHECK_DEADLOCK FALSE
