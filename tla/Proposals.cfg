SPECIFICATION FairSpec
CONSTANTS
    Sessions = {1, 2}
    Symbols = {1, 2}
    Rules = {1, 2}
    Prune = Prune
    None = None
    Lifetime = 1
    Dismissal = 2
    MaxNow = 3
    Scopes <- ProposalScopes
INVARIANTS
    DecidesOnce
    DismissalsHold
    OneRulePerSession
PROPERTIES
    RuleUpdatesSettle
