SPECIFICATION Spec
CONSTANTS
  auto = auto
  hand = hand
  prices = prices
  trades = trades
  base = base
  own = own
  db = db
  w1 = w1
  w2 = w2
  c1 = c1
  Nothing = Nothing
  LastDay = 13
  FirstWeekday = 1
  Month <- MCMonth
  Group = {base, own}
  Monitor = {auto, hand}
  Table = {prices, trades}
  Database = {db}
  Home <- MCHome
  Category <- MCCategory
  AutoId <- MCAutoId
  Existing <- MCExisting
  Forms <- MCForms
  Dates = {4}
  Imports <- MCImports
  Worker = {w1, w2}
  Counter = {c1}
  MaxRequests = 2
  MaxDdl = 1
  MaxFaults = 1
INVARIANTS TypeOK GroupKept  OneExpected
PROPERTIES CountComplete 
SYMMETRY Symmetry
CHECK_DEADLOCK FALSE
