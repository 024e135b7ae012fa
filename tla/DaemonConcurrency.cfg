CONSTANTS
    Issues <- MCIssues
    Stories <- MCStories
    StoryOf <- MCStoryOf
    StoryDeps <- MCStoryDeps
    MaxConcurrent = 1
    MaxAttempts = 2
    ReviewEnabled = TRUE
    StateFiles <- MCShippedFile
    PageSize = 3
    InitialStates = {"Todo", "Done"}
    HumanTargets = {"Todo", "Done"}
    MayCrash = FALSE
    i1 = i1
    i2 = i2
    i3 = i3
SPECIFICATION Spec
INVARIANT ConcurrencyRespected
