CONSTANTS
    Wanted <- MCWanted
    Documents <- MCDocuments
    EpicOf <- MCEpicOf
    SectionOf <- MCSectionOf
    KeyOf <- MCKeyOf
    RelatedTo <- MCRelatedTo
    DependsOn <- MCDependsOn
    PageSize = 2
    MaxObjects = 22
    MaxLosses = 2
SPECIFICATION Spec
INVARIANT TypeOK
INVARIANT InitIsIdempotent
INVARIANT CopiesNeedADeath
INVARIANT TrackedTree
PROPERTY SyncCompletes
