SPECIFICATION Spec
CONSTANTS
  Adapters <- MCAdapters
  Users = {"ann"}
  Nobody = Nobody
  Channels <- MCChannels
  Jobs <- MCJobs
  Answers <- MCAnswers
  Limits <- MCLimits
  Settings <- MCSettings
  Sockets = {k1, k2}
  Sessions = {s}
  MaxMessages = 3
  MaxNow = 1
INVARIANTS
  RateIsBounded
  EntryHasASocket
  ChunksAreWhole
PROPERTIES
  QueueDrains
