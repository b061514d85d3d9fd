SPECIFICATION LiveSpec
CONSTANTS
  Workers = {w1}
  Targets = {1, 2, 3}
  Campaigns = {"c1", "c2", "c3"}
  Channels = {"a"}
  Lists = {"l1", "l2"}
  NoTarget = NoTarget
  CampaignOf <- ThreeCampaigns
  ChannelOf <- OneChannel
  ListOf <- TwoLists
  PlannedAt <- AtOnce
  Retention <- MixedRetention
  Malformed = {"c1"}
  Flaky = {"l2"}
  EmptyAnswers = {3}
  EarlierStrikes <- NoEarlier
  Builds = {TRUE, FALSE}
  Starting = {"scheduled"}
  PublishLimit = 2
  RetentionLimit = 1
  MaxTime = 2
  MaxPosts = 2
  MaxRollbacks = 1
  MaxOwnerOps = 0
INVARIANTS
  StrikeJustified
PROPERTIES
  ImplementsLifecycle
  DueIsPublished
  PublishedIsSettled
  SettledIsClosed
