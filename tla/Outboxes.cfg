SPECIFICATION MCSpec
CONSTANTS
  p1 = p1
  p2 = p2
  rA = rA
  rB = rB
  Nobody = Nobody
  Appliers = {turn, sweeper}
  Waves <- TwoSingles
  Parts <- OneEach
  BatchEffects = {}
  Target <- NoTargets
  Rev0 <- NoP
  MaxAttempts = 2
  MaxGen = 1
  MaxCrashes = 1
  MaxLost = 0
INVARIANTS NeverTwice VerdictsAreTrue AcksCloseTurns
PROPERTIES WritesInTurn OutboxesSettle
CHECK_DEADLOCK FALSE
