SPECIFICATION RealizedSpec
CONSTANTS
 Debits = {i1, i2}
 Credits = {p1, p2}
 Spares = {s1}
 NoLine = NoLine
 Requests = {r1}
 Balances = {1, 2}
 MaxMatches = 3
 SharedUndo = FALSE
 LineIds = {l1, l2}
 Taxes <- MCTaxes
 Prices <- MCPrices
 Deposits <- MCDeposits
 Cent <- MCCent
 Profile <- FiveCents
 PerLine = FALSE
 MaxRoundings = 1
 LastDay = 2
 Bookkeepers = {u1}
 AccountType <- MCAccountType
 YearEnds = {0, 1, 2}
 TaxOf <- HalfOf
 Sizes = {2}
 DueDates <- MCDueDates
 MaxEntries = 4
 Clerks = {u1}
 Rates = {2, 3}
 ForeignAmounts = {54, 108}
 MaxItems = 4
 MaxForeignMatches = 3
 MaxRevaluations = 2
 Tellers = {u1}
 RowsFit = TRUE
 MoveLines = {"a", "b"}
 LineResidual <- MCLineResidual
 StatementBalances = {0, 3}
 MaxStatements = 2
 MaxRows = 3
 Editors = {u1}
 Percents = {33, 34, 50}
 Fixed = {40}
 Days = {1, 3}
 MonthEnds = {1, 4, 6, 9}
 Invoices = {101, 250}
 MaxTermLines = 3
SYMMETRY Symmetry
CHECK_DEADLOCK FALSE
INVARIANT NoDriftNoResult
