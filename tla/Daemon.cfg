CONSTANTS
    Issues <- MCTwoIssues
    Stories <- MCStories
    StoryOf <- MCTwoStoryOf
    StoryDeps <- MCStoryDeps
    MaxConcurrent = 1
    MaxAttempts = 2
    ReviewEnabled = TRUE
    StateFiles <- MCStateFiles
    PageSize = 2
    InitialStates = {"Todo"}
    HumanTargets = {"Done"}
    MayCrash = TRUE
    i1 = i1
    i2 = i2
    i3 = i3
SPECIFICATION FairSpec
INVARIANT TypeOK
INVARIANT SlotsNotLeaked
INVARIANT OneTaskPerIssue
INVARIANT DependenciesWereDone
INVARIANT LostAgentsKeepWorkspaces
PROPERTY FailedIsFinal
PROPERTY EligibleIsDispatched
PROPERTY StopCompletes
