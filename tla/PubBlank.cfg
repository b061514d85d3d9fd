SPECIFICATION Spec
CONSTANTS
  Workers = {w1}
  Targets = {1, 2}
  Campaigns = {"c1"}
  Channels = {"a", "b"}
  Lists = {"l1"}
  NoTarget = NoTarget
  CampaignOf <- TwoChannelsCampaign
  ChannelOf <- TwoChannelsChannel
  ListOf <- OneList
  PlannedAt <- AtOnce
  Retention <- ShortRetention
  Malformed = {}
  Flaky = {}
  EmptyAnswers = {1}
  EarlierStrikes <- NoEarlier
  Builds = {TRUE}
  Starting = {"active", "scheduled"}
  PublishLimit = 2
  RetentionLimit = 2
  MaxTime = 1
  MaxPosts = 2
  MaxRollbacks = 0
  MaxOwnerOps = 0
INVARIANTS
  StrikesAreDeletions
