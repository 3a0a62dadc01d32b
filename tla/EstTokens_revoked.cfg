SPECIFICATION EstSpec
CONSTANTS
  Tokens = {t1}
  EstHandlers = {h1, h2}
  MaxUses = 2
  NoToken = NoToken
INVARIANTS RevokedTokenNotLive
CHECK_DEADLOCK FALSE
