SPECIFICATION StartupSpec
CONSTANTS
    Locales = {"en", "fr"}
    Policies = {"returns"}
    Facts = {"window"}
    MessageKeys = {"checked"}
    Versions = {1, 2}
    Claims = {"thirty days", "ten days"}
    Sorted <- MCSorted
    Shipped <- MCShipped
    Environments <- MCEnvironments
    MaxEdits = 2
INVARIANTS
    OneRuleInForce
    AgentIsEquipped
    RefusesWithCause
