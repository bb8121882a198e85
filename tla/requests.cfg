\* One request, two browsers, written at most three times.
SPECIFICATION Spec
CONSTANTS
  Items = {bat}
  Requests = {r1}
  Clients = {phone, laptop}
  Lines <- MCLines
  NoItem = NoItem
  NoRequest = NoRequest
  NoPage = NoPage
  MaxEdits = 3
SYMMETRY Symmetry
INVARIANTS
  ItemsOfOneEdit
PROPERTIES
  RetiredNotLinked
CHECK_DEADLOCK FALSE
