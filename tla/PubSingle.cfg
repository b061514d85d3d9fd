SPECIFICATION Spec
CONSTANTS
  Workers = {w1}
  Targets = {1, 2, 3}
  Campaigns = {"c1", "c2"}
  Channels = {"a", "b"}
  Lists = {"l1"}
  NoTarget = NoTarget
  CampaignOf <- TwoAndOne
  ChannelOf <- SharedAndOwn
  ListOf <- OneList
  PlannedAt <- AtOnce
  Retention <- ShortRetention
  Malformed = {}
  Flaky = {}
  EmptyAnswers = {2}
  EarlierStrikes <- NoEarlier
  Builds = {TRUE}
  Starting = {"scheduled"}
  PublishLimit = 3
  RetentionLimit = 3
  MaxTime = 1
  MaxPosts = 2
  MaxRollbacks = 0
  MaxOwnerOps = 1
INVARIANTS
  TypeOK
  ClosedIsSettled
  ClosedOutcome
  CountMatchesViolations
