---- MODULE MCReaderClient ----
\* The machines of the readers' clients that share nothing with one another. Each is explored on its
\* own: the part chosen at the start moves, the rest stays as it began.
EXTENDS ReaderWriting, ReaderRequests, ReaderVotes, ReaderIgnores, ReaderMenu, ReaderSession

VARIABLE part
Parts == {"writing", "requests", "poll", "reaction", "ignores", "menu", "browser", "app"}
vars == <<part, wvars, rvars, pvars, mvars, ivars, uvars, bvars, avars>>

MCInit ==
    /\ part \in Parts
    /\ WritingInit /\ (part = "writing" \/ client = "web")
    /\ RequestsInit
    /\ PollInit /\ (part = "poll" \/ (~multipleChoice /\ cookie /\ ballot = {}))
    /\ ReactInit /\ (part = "reaction" \/ stored = "none")
    \* the two modes are alike to every place
    /\ IgnoresInit /\ (\A p \in Persons : ignores[p] # "hard")
    /\ (part = "ignores" \/ (place = "list" /\ \A p \in Persons : ignores[p] = "none"))
    /\ MenuInit /\ (part = "menu" \/ (own /\ signedUp /\ ~onApp))
    /\ BrowserInit /\ (part = "browser" \/ jar = NoSeal)
    /\ AppInit /\ (part = "app" \/ chain = 0)
MCNext ==
    /\ UNCHANGED part
    /\ \/ part = "writing" /\ WritingNext /\ UNCHANGED <<rvars, pvars, mvars, ivars, uvars, bvars, avars>>
       \/ part = "requests" /\ RequestsNext /\ UNCHANGED <<wvars, pvars, mvars, ivars, uvars, bvars, avars>>
       \/ part = "poll" /\ PollNext /\ UNCHANGED <<wvars, rvars, mvars, ivars, uvars, bvars, avars>>
       \/ part = "reaction" /\ ReactNext /\ UNCHANGED <<wvars, rvars, pvars, ivars, uvars, bvars, avars>>
       \/ part = "ignores" /\ IgnoresNext /\ UNCHANGED <<wvars, rvars, pvars, mvars, uvars, bvars, avars>>
       \/ part = "menu" /\ MenuNext /\ UNCHANGED <<wvars, rvars, pvars, mvars, ivars, bvars, avars>>
       \/ part = "browser" /\ BrowserNext /\ UNCHANGED <<wvars, rvars, pvars, mvars, ivars, uvars, avars>>
       \/ part = "app" /\ AppNext /\ UNCHANGED <<wvars, rvars, pvars, mvars, ivars, uvars, bvars>>
MCSpec == MCInit /\ [][MCNext]_vars
====
