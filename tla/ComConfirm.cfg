SPECIFICATION Spec
CONSTANTS
  h1 = h1
  h2 = h2
  Handlers = {h1, h2}
  Orders = {"o1"}
  Lists = {"l1"}
  Channels = {1, 2, 3}
  ListOf <- OneListOf
  Wanted <- OneWanted
  Home <- OneHome
  NoOrder = NoOrder
INVARIANT TypeOK
INVARIANT PaidIsDelivered
INVARIANT DeliveredByConfirmation
PROPERTY CancelledStaysCancelled
