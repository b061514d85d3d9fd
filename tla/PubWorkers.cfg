SPECIFICATION TickSpec
CONSTANTS
  Workers = {w1, w2}
  Targets = {1, 2}
  Campaigns = {"c1", "c2"}
  Channels = {"a"}
  Lists = {"l1"}
  NoTarget = NoTarget
  CampaignOf <- OneChannelCampaign
  ChannelOf <- OneChannel
  ListOf <- OneList
  PlannedAt <- AtOnce
  Retention <- ShortRetention
  Malformed = {}
  Flaky = {}
  EmptyAnswers = {}
  EarlierStrikes <- OneEarlier
  Builds = {TRUE}
  Starting = {"scheduled"}
  PublishLimit = 2
  RetentionLimit = 2
  MaxTime = 0
  MaxPosts = 3
  MaxRollbacks = 1
  MaxOwnerOps = 0
INVARIANTS
  NoDoublePost
  NoStrandedClaim
  WatchesLastCopy
  ThreeStrikesOut
PROPERTIES
  TickEnds
