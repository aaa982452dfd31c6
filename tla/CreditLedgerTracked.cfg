\* Chat turns: every hold tracked and settled by tokens.
SPECIFICATION Spec
CONSTANTS
    h1 = h1  h2 = h2  h3 = h3  g1 = g1  g2 = g2
    Holds = {h1, h2, h3}
    Tracked = {h1, h2, h3}
    FixedPriced = {}
    Grants = {}
    Included <- MCIncluded
    FreeLimit = 3
    Amounts = {2, 3}
    Usages <- MCUsages
    Prices = {}
    TokensPerCredit = 10
    MinCredits = 1
    Purchases = {2}
    MaxPurchases = 2
    NoGrant = NoGrant
    NoUsage = NoUsage
SYMMETRY HoldSymmetry
INVARIANTS
    RowsExplainBalance  TakesAtMostPrice
