CONSTANTS
    Rules <- MCRules
    DefaultRPO <- MCDefaultRPO
    MaxRules = 2
    APIResources <- MCAPIResources
    Revs <- MCRevs
    None = None
SPECIFICATION Spec
INVARIANTS RuleIsMostSpecific RPOIsInherited MatchedIsKept
