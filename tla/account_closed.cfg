SPECIFICATION Spec
CONSTANTS
  Procs = {p1}
  Ids = {i1}
  NoId = NoId
  Emails = {e1}
  Amounts = {1}
  MaxInt = 3
PROPERTY ClosedForever
