--------------------------- MODULE MCRemindQueue ---------------------------
(***************************************************************************)
(* Instances of RemindQueue for TLC: minutes of two seconds, days of six   *)
(* minutes, a run that starts on day 1 and ends on day 2.                  *)
(***************************************************************************)
EXTENDS RemindQueueProps

AtFive   == [dse |-> 1, ttime |-> 5, delta |-> 0, rep |-> 0, sched |-> FALSE]
Repeated == [dse |-> 1, ttime |-> 4, delta |-> 2, rep |-> 1, sched |-> FALSE]
Tomorrow == [dse |-> 2, ttime |-> 1, delta |-> 2, rep |-> 0, sched |-> FALSE]
BySched  == [dse |-> 1, ttime |-> 4, delta |-> 0, rep |-> 0, sched |-> TRUE]

MCRem == <<AtFive, Repeated, Tomorrow, BySched>>
MCIds == 1 .. 4

\* Scripts a process may be given, and find after an edit.
MCScripts     == {{1, 2, 3}, {2, 4}}
=============================================================================
