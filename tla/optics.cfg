\* Ports 0-1 lead to expanders, 2-3 to switches, 4 to a clock generator; 5-7 are empty.
CONSTANTS
  NExpanders = 2
  NSwitches = 2
  NPlls = 1
  SelMod = 8
  Banks <- MCBanks
  Values = {"f161", "f156"}
  Wanted = "f161"
SPECIFICATION Spec
INVARIANTS IInv BroughtUp
PROPERTIES ReleasedAfterHold
