CONSTANTS
  Campaigns <- MCKinds
  MaxInterrupts = 2
  MaxChanges = 1
SPECIFICATION FairSpec
INVARIANTS PassedIsWhole CleanedIsGone
PROPERTIES NoTeardownUnderClaim CampaignEnds
CHECK_DEADLOCK FALSE
