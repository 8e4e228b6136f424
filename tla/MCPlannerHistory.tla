-------------------------- MODULE MCPlannerHistory --------------------------
(* PlannerLecture with fair jobs, and a history variable for what it gives a   *)
(* teacher who waits for each answer and each job.                             *)
EXTENDS PlannerLecture

\* history: two requests or jobs have been under way together
VARIABLE overlapped

Busy == {c \in Calls : pc[c] \notin {"idle", "done"}}
          \cup {w \in Workers : pc[w] # "idle"} \cup {j.id : j \in queue}
AtMostOneBusy == \A a, b \in Busy : a = b

HistoryInit == Init /\ overlapped = FALSE
HistoryNext == Next /\ overlapped' = (overlapped \/ ~AtMostOneBusy')
HistorySpec == HistoryInit /\ [][HistoryNext]_<<vars, overlapped>> /\ Fairness

\* Unless requests overlapped, the newest version is the current one whenever
\* nothing is going on, with errors and retries but without deaths: nothing
\* ever moves the lecture back.
NewestIsCurrent ==
  Busy = {} /\ ~overlapped /\ crashes = 0 /\ present /\ ~purged
    => \A r \in rows : r.version <= lec.cur
=============================================================================
