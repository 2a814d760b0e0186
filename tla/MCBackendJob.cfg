SPECIFICATION Spec
CONSTANTS
    s1 = s1
    s2 = s2
    Nobody = Nobody
    Supervisors = {s1, s2}
    Intents = {"cancellation", "quarantine"}
    MaxLosses = 1
SYMMETRY Symmetric
CHECK_DEADLOCK FALSE
INVARIANTS
    FrozenAfterExecutionUnlessReplayed
    FenceExcludesWorkload
    PlanIsTrue
    CatalogFollowsPlan
PROPERTIES
    PlanIsFrozen
    StopPreventsSubmission
