SPECIFICATION MCSpec
CONSTANTS
    MaxTexts = 2
    MaxPages = 2
    MaxAsks = 1
    MaxElsewhere = 0
    MaxJobs = 0
    MaxQuestions = 0
    MaxWordings = 0
    MaxHours = 1
    MaxNews = 1
    MaxTurns = 0
    MaxRemovals = 0
    Cards = {}
    MaxLoads = 1
    MaxDecisions = 0
    MaxFaces = 1
INVARIANT AsksBeforeLeaving
CHECK_DEADLOCK FALSE
