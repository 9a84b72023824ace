SPECIFICATION Spec
CONSTANTS
  Ctx = {c1, c2}
  Amenders = {c1, c2}
  contract = contract
  implA = implA
  implB = implB
  Name <- OneImplementation
  Contract <- OneContract
  Entry = {defined}
  Nothing = Nothing
  MaxDepth = 1
INVARIANTS
  TypeOK
  RestoredIfExclusive
