SPECIFICATION Spec
CONSTANTS
  Ctx = {c1, c2}
  Amenders = {}
  contract = contract
  implA = implA
  implB = implB
  Name <- TwoImplementations
  Contract <- OneContract
  Entry = {defined}
  Nothing = Nothing
  MaxDepth = 1
INVARIANTS
  RestoredWhenIdle
