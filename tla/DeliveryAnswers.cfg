SPECIFICATION Safe
CONSTANTS
  Adapters <- OnDiscord
  Users = {"ann"}
  Nobody = Nobody
  Channels = {}
  Jobs = {}
  Answers <- MCAnswers
  Limits <- MCLimits
  Settings <- MCSettings
  Sockets = {}
  Sessions = {s}
  MaxMessages = 3
  MaxNow = 2
INVARIANTS
  AnswersAreAddressed
