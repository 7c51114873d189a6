SPECIFICATION Spec
CONSTANTS
 LastDay = 0
 Movers = {m1, m2}
 Methods = {"standard", "average", "fifo"}
 Prices = {144, 288}
 MaxLayers = 4
 MaxInStock = 4
 Planners = {p1}
 input = input
 shelf = shelf
 Inside = {input, shelf}
 Watched = shelf
 Vendors = Vendors
 Clients = Clients
 MinQty = 1
 MaxQty = 2
 Multiple = 2
 Routes = {r1}
 NoRoute = NoRoute
 MaxRules = 3
 MaxOpen = 2
 Keepers = {k1}
 ReceptionSteps = {1, 2, 3}
 DeliverySteps = {1, 2, 3}
 NoPlace = NoPlace
 MaxPlaces = 6
 Admins = {a1, a2}
 Visitors = {}
 Languages = {ar, en}
 NotCached = NotCached
 MaxSaves = 3
 Addons = {"base", "account", "web", "stock"}
 Depends <- MCDepends
 EntryPoint <- MCEntryPoint
 Declares <- MCDeclares
 Versions = {1, 2, 3}
 Rows = {1, 2, 3}
 Users = {v1}
 Levels <- MCLevels
 Superusers = "Administrator"
 LeafSets <- MCLeafSets
 MaxRuleCount = 3
SYMMETRY Symmetry
CHECK_DEADLOCK FALSE
INVARIANTS Reconciles RoutesSound WellLaidOut SavesSound ServesComplete RulesMerge
