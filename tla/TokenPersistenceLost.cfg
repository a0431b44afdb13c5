SPECIFICATION PSpec
CONSTANTS
  low = low
  c1 = c1
  c2 = c2
  open = open
  set = set
  a1 = a1
  a2 = a2
  Tokens = {t1}
  Columns = {low, c1, c2}
  Places = {open, set}
  Open = {open}
  Values <- MCValues
  Lifted <- MCLifted
  NoToken = NoToken
  NoRow = NoRow
  NoFlush = NoFlush
  Admins = {}
  NoEdit = NoEdit
INVARIANT CleanIsPersisted
