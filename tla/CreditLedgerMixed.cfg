\* A tracked turn, a tracked fixed price and an untracked hold, of the balance or
\* of a product grant, on one account.
SPECIFICATION Spec
CONSTANTS
    h1 = h1  h2 = h2  h3 = h3  g1 = g1  g2 = g2
    Holds = {h1, h2, h3}
    Tracked = {h1, h2}
    FixedPriced = {h2}
    Grants = {g1, g2}
    Included <- MCIncluded
    FreeLimit = 2
    Amounts = {1, 2}
    Usages <- MCFewUsages
    Prices = {2, 3}
    TokensPerCredit = 10
    MinCredits = 1
    Purchases = {2}
    MaxPurchases = 1
    NoGrant = NoGrant
    NoUsage = NoUsage
INVARIANTS
    NoOverdraft RepliesAgree QuotaNeverExceeded QuotaExplained

    
