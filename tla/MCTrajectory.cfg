SPECIFICATION ServingSpec
CONSTANTS
  a = a  b = b  c = c  p = p  u = u  me = me  you = you  g = g  e = e
  Calls = {a, b, c, p, u}
  Prior = {p}
  Refused = {u}
  Batches <- MCBatches
  MaxDecisions = 3
  MaxToolRounds = 2
  Principals = {me, you}
  Tokens = {a, b, c, p, u, g, e}
  Me = me
  NewTokens = 1
  Fits <- MCFits
  Rendered <- MCRendered
  Elsewhere <- MCElsewhere
INVARIANTS NothingOfARefusedBatch AsIfUncached
PROPERTY ImplementsDialogue
