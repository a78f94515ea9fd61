CONSTANTS
  Clients = {c1, c2, c3}
  Readers = {c1}
  NoClient = NoClient
  Capacity = 1
  MaxQuotes = 2
SPECIFICATION FairSpec
INVARIANTS TypeOK ListMatchesHandlers DiesOnlyOfOverlap NothingMissed
PROPERTIES ImplementsFeed UpdatesArrive
CHECK_DEADLOCK FALSE
