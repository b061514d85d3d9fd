SPECIFICATION MCSpec
CONSTANTS
  Person = {p1}
  Slots = {h1, h2}
  Nothing = Nothing
  Families = {"PULSE", "BOOST"}
  Thresholds = {"1000", "1500"}
  MaxTwice = 5
  MaxOverlaps = 2
  MaxSent = 6
  MaxRestarts = 1
VIEW MCView
SYMMETRY MCSlots
CHECK_DEADLOCK FALSE
INVARIANT TypeOK
INVARIANT OncePerRequest
INVARIANT AnswersAreItsOwn
INVARIANT ConfirmedAfterAsked
INVARIANT FormsComplete
INVARIANT ListsAreDistinct
