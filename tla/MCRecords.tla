------------------------------ MODULE MCRecords ------------------------------
(***************************************************************************)
(* Instance of the server's records: the tables of commands and reports    *)
(* with the job that cleans them, and the tables of licences and sessions. *)
(* The modules share no state, so one runs while the other rests in its    *)
(* initial state, and the run explores each by itself.                     *)
(***************************************************************************)
EXTENDS Retention, Sessions

RecordsInit == RetInit /\ SesInit

\* One goes on while the other is at rest.
RetTurn == SesInit
SesTurn == RetInit

RecordsNext ==
    \/ RetTurn /\ RetNext /\ UNCHANGED sesVars
    \/ SesTurn /\ SesNext /\ UNCHANGED retVars

\* The fairness of each, which binds it when it is the one that runs.
RecordsFairness ==
    /\ WF_retVars(RetTurn /\ Tick)
    /\ WF_retVars(RetTurn /\ PollExpire)
    /\ SF_retVars(RetTurn /\ CleanCommands)
    /\ SF_retVars(RetTurn /\ CleanReports)
    /\ WF_retVars(RetTurn /\ (CleanSessions \/ JobAbort))
    /\ WF_sesVars(SesTurn /\ TimePasses)
    /\ \A w \in Threads : WF_sesVars(SesTurn /\ ThreadGoesOn(w))
    /\ WF_sesVars(SesTurn /\ SweepStart)
    /\ WF_sesVars(SesTurn /\ SweepSessions)

RecordsSpec == RecordsInit /\ [][RecordsNext]_<<retVars, sesVars>> /\ RecordsFairness
=============================================================================
