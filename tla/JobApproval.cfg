SPECIFICATION FairSpec
CONSTANTS
  a = a b = b c = c
  Users = {a, b, c}
  NumRows = 3
  Named <- Three
  Submitter = a
  Leader <- Led
  NumRounds = 3
INVARIANTS TypeOK GrantedByVoters RefusedByVoter VoiceKept
PROPERTIES RefusalStands VoiceHeard StepEnds
CHECK_DEADLOCK FALSE
