---- MODULE MCEditorClient ----
\* The machines of the editorial UI that share nothing with one another. Each is explored on its own:
\* the part chosen at the start moves, the rest stays as it began.
EXTENDS EditorBuffer, EditorDialogs, EditorDesk

VARIABLE part
Parts == {"article", "transcription", "chat", "translation", "poll", "feed", "list"}
vars == <<part, evars, tvars, cvars, xvars, qvars, fvars, lvars>>

MCInit ==
    /\ part \in Parts
    /\ BufferInit /\ (part = "article" \/ held = NoArticle)
    /\ TranscriptionInit /\ ChatInit /\ TranslationInit /\ PollDialogInit /\ FeedInit
    /\ ListInit /\ (part = "list" \/ list.kind = "drafts")
MCNext ==
    /\ UNCHANGED part
    /\ \/ part = "article" /\ BufferNext /\ UNCHANGED <<tvars, cvars, xvars, qvars, fvars, lvars>>
       \/ part = "transcription" /\ TranscriptionNext /\ UNCHANGED <<evars, cvars, xvars, qvars, fvars, lvars>>
       \/ part = "chat" /\ ChatNext /\ UNCHANGED <<evars, tvars, xvars, qvars, fvars, lvars>>
       \/ part = "translation" /\ TranslationNext /\ UNCHANGED <<evars, tvars, cvars, qvars, fvars, lvars>>
       \/ part = "poll" /\ PollDialogNext /\ UNCHANGED <<evars, tvars, cvars, xvars, fvars, lvars>>
       \/ part = "feed" /\ FeedNext /\ UNCHANGED <<evars, tvars, cvars, xvars, qvars, lvars>>
       \/ part = "list" /\ ListNext /\ UNCHANGED <<evars, tvars, cvars, xvars, qvars, fvars>>
MCSpec == MCInit /\ [][MCNext]_vars
====
