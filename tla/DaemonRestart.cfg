CONSTANTS
    Issues <- MCTwoIssues
    Stories <- MCStories
    StoryOf <- MCTwoStoryOf
    StoryDeps <- MCStoryDeps
    MaxConcurrent = 1
    MaxAttempts = 1
    ReviewEnabled = TRUE
    StateFiles <- MCShippedFile
    PageSize = 1
    InitialStates = {"Todo"}
    HumanTargets = {"Done"}
    MayCrash = TRUE
    i1 = i1
    i2 = i2
    i3 = i3
SPECIFICATION Spec
INVARIANT OneAgentPerWorkspace
