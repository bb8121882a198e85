SPECIFICATION Spec
CONSTANTS
  shop = shop  o1 = o1  o2 = o2  link = link
  Suppliers = {shop}
  Offers = {o1, o2, link}
  Items = {"bat"}
  Markets = {"DIRECT"}
  Prices = {1, 2}
  Tabs = {t1, t2}
  Admins = {a1, a2}
  OwnerOf <- MCOwnerOf
  Curated = Curated
  Hidden = Hidden
  NoOffer = NoOffer
  NoTab = NoTab
SYMMETRY Symmetry
INVARIANTS
  LastWordIsTrue
  OneLivePerSlot
PROPERTIES
  ImplementsShelf
  AgeIsHonest
CHECK_DEADLOCK FALSE
