SPECIFICATION InvoiceSpec
CONSTANTS
  LineIds = {l1}
  Taxes <- IncludedTax
  Prices <- IncludedPrices
  Deposits <- NoDeposits
  Cent <- IncludedCent
  Profile <- NoProfile
  PerLine = FALSE
  MaxRoundings = 0
CHECK_DEADLOCK FALSE
PROPERTY RepostUnchanged
