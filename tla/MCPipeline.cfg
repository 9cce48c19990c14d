CONSTANTS
  Requests = {r1, r2}
  NoRequest = NoRequest
  Channels = {slack}
  Users <- MCUsers
  Texts <- MCTexts
  Meaning <- MCMeaning
  Timeout = 1
  MaxMail = 2
  Capacity = 1
  PerWindow = 1
SPECIFICATION LoopSpec
SYMMETRY Symmetry
INVARIANTS LoopTypeOK ConsentIsSpoken DuplicateHasOriginal
PROPERTIES AnswersAreHeard
CHECK_DEADLOCK FALSE
