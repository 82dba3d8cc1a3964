SPECIFICATION MCSpec
CONSTANTS
  r1 = r1
  Reconcilers = {r1}
  MaxMsgs = 2
  MaxJobs = 2
  MaxGen = 1
  MaxCrashes = 0
INVARIANTS AnsweredOnce RealReplyWins MutatesOnce 
 
