SPECIFICATION MCSpec
CONSTANTS
    MaxTexts = 2
    MaxPages = 2
    MaxAsks = 3
    MaxElsewhere = 1
    MaxJobs = 2
    MaxQuestions = 3
    MaxWordings = 3
    MaxHours = 3
    MaxNews = 3
    MaxTurns = 3
    MaxRemovals = 2
    Cards = {c, d}
    MaxLoads = 4
    MaxDecisions = 3
    MaxFaces = 2
INVARIANTS  ToolsKeepTheirWord  
PROPERTIES GoesOutAsShown
CHECK_DEADLOCK FALSE
