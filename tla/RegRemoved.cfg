SPECIFICATION Spec
CONSTANTS
  h1 = h1
  h2 = h2
  c1 = c1
  c2 = c2
  Handlers = {h1}
  Channels = {c1}
  Applicants = {a1}
  Lists = {l1}
  Requests = {1, 2}
  NoList = NoList
  NoRequest = NoRequest
  MaxTakedowns = 1
PROPERTY RemovedStaysOut
