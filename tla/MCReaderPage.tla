---- MODULE MCReaderPage ----
EXTENDS MobilePage
\* 1 and 2 open the page, 2 by someone the reader may ignore; 3 answers 1
MCOld == <<0, 0, 1>>
\* Once the last request has been asked, what is under way comes to its end: nothing else a reader does
\* could load any more, and what others take down is looked at as long as the service has one to serve
Winds == asked = MaxAsks =>
    flight' # flight \/ (server' # server /\ \E r \in flight : r.status = "sent")
MCNext == PageNext /\ Winds
MCSpec == PageInit /\ [][MCNext]_vars
====
