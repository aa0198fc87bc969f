SPECIFICATION MCSpec
CONSTANTS
  n1 = n1  n2 = n2  h1 = h1  h2 = h2  a = a  b = b  c = c  e = e
  Node = {n1, n2}
  Hart = {h1, h2}
  HartNode <- HartsOn
  Word = {a, b, c, e}
  WordNode <- WordsOn
  Modulus = 3
  Object <- Objects
  Operand = {1}
  Kinds = {"load", "store", "copy", "atomicLoad", "compareExchange", "fetchAdd", "fetchSub", "atomicStore", "increment", "decrement"}
  MaxMedium = 2
INVARIANTS TypeOK OwnerAccess HandleLive
PROPERTIES AtomicGlobalMemory CallsReturn
