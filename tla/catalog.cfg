\* Two products, one kit of up to two rows and one order while the catalog changes.
SPECIFICATION Spec
CONSTANTS
  None = None
  Products = {p1, p2}
  Kits = {k1}
  Orders = {o1}
  Prices = {0, 2}
  States = {"available", "temporarily_unavailable"}
  ContentQuantities = {2, 5}
  MaxContents = 2
  MaxQuantity = 4
SYMMETRY CatalogSymmetry
INVARIANTS
  PricingTypeOK
  DraftsArePayableWhileOffered
  QuotedKitsHaveQuotableContents
  KitTotalIsUnitTimesQuantity
  AdvertisedKitsAreQuotable
