SPECIFICATION Spec
CONSTANTS
  telegram = telegram
  slack = slack
  email = email
  Polled = {telegram}
  Scanned = {email}
  Pushed = {slack}
  Hooked = {whatsapp}
  Order <- Registered
  Blank <- Unreadable
  Nothing = Nothing
  MaxSent = 2
  MaxLives = 2
INVARIANTS ToldIsReached EntersOnceInOrder
 
CHECK_DEADLOCK FALSE
