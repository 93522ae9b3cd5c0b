\* One field user on two lines, two notifications, pages of one item.
SPECIFICATION FairSpec
CONSTANTS
  User = {u1}
  Administrator = {}
  Line = {l1, l2}
  PageSize = 1
  MaxNotes = 2
INVARIANTS
  FeedFaithful
PROPERTIES
  EventuallyReceived
