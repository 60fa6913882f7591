SPECIFICATION Spec
CONSTANTS
    Nowhere = Nowhere
    Places = {home}
    NoJob = NoJob
INVARIANTS
    RequiresDescriptions
CHECK_DEADLOCK FALSE
