SPECIFICATION Spec
CONSTANTS
  loop = loop
  chat = chat
  page = page
  api = api
  Users = {alice, bob}
  Calls = {loop, chat, page, api}
  Makes <- Made
  NoOne = NoOne
  MaxAttempts = 2
  Spares = 1
PROPERTIES AgentIsKept EveryCallEnds
