SPECIFICATION MCSpec
CONSTANTS
  a1 = a1
  a2 = a2
  s1 = s1
  s2 = s2
  Account = {a1, a2}
  Sessions = {s1, s2}
  NoSession = NoSession
  Instances <- MCInstances
  NoClient = NoClient
  NoAccount = NoAccount
  Callers <- MCCallers
  Bots = {admin}
  AdminBot = admin
  Routes = {r1}
  Sync = sync
  Main = main
  Worker = worker
  MaxUpdates = 1
  MaxLeaks = 1
CHECK_DEADLOCK FALSE
INVARIANT TypeOK
INVARIANT RegistryIsTrue
INVARIANT ClientsAccountedFor
INVARIANT EndsClean
PROPERTY SyncSparesHealthy
PROPERTY ClientsFollowTable
PROPERTY ShutdownEnds
