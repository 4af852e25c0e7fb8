SPECIFICATION Spec
CONSTANTS
  a = a  b = b  o = o  p = p  u = u  f = f  g = g
  NoCall = NoCall
  Calls = {a, b, o, p, u}
  Prior = {p}
  Refused = {u}
  Finals = {f, g}
  ToolOf <- MCTool
  Batches <- MCBatches
  Truths <- MCTruths
  MaxDecisions = 3
  MaxToolRounds = 2
INVARIANTS CountedTruly EndsHonestly OrderTrusted SuccessIsClean SuccessIsLegal
PROPERTIES ImplementsDialogue Ends
