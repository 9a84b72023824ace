SPECIFICATION Spec
CONSTANTS
  Ctx = {c1}
  Amenders = {c1}
  contract = contract
  implA = implA
  implB = implB
  Name <- TwoImplementations
  Contract <- OneContract
  Entry = {defined}
  Nothing = Nothing
  MaxDepth = 2
PROPERTIES
  LexicalScoping
