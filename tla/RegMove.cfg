SPECIFICATION Spec
CONSTANTS
  h1 = h1
  h2 = h2
  c1 = c1
  c2 = c2
  Handlers = {h1}
  Channels = {c1, c2}
  Applicants = {a1}
  Lists = {l1, l2}
  Requests = {1, 2, 3}
  NoList = NoList
  NoRequest = NoRequest
  MaxTakedowns = 0
SYMMETRY ChannelSymmetry
INVARIANT ApprovalNeverClashes
