---------------------------- MODULE RunLifecycle ----------------------------
(***************************************************************************)
(* What a client of MiniAlpha may rely on about a run, whatever carries it *)
(* out: it is admitted once, ends once in one of three terminal states,    *)
(* and the run_end event of its stream announces exactly that state, after *)
(* it has been committed.                                                  *)
(***************************************************************************)
CONSTANTS Runs

VARIABLES status,    \* the durable status of each run
          announced  \* the status its stream's run_end carries, "none" before

TerminalStatus == {"completed", "error", "cancelled"}

Init ==
    /\ status = [r \in Runs |-> "absent"]
    /\ announced = [r \in Runs |-> "none"]

Admit(r) ==
    /\ status[r] = "absent"
    /\ status' = [status EXCEPT ![r] = "in_progress"]
    /\ UNCHANGED announced

Finish(r, s) ==
    /\ status[r] = "in_progress"
    /\ status' = [status EXCEPT ![r] = s]
    /\ UNCHANGED announced

\* A starting process fails everything that was left in progress.
Recover ==
    /\ status' = [r \in Runs |-> IF status[r] = "in_progress" THEN "error" ELSE status[r]]
    /\ UNCHANGED announced

Announce(r) ==
    /\ status[r] \in TerminalStatus
    /\ announced[r] = "none"
    /\ announced' = [announced EXCEPT ![r] = status[r]]
    /\ UNCHANGED status

Next ==
    \/ \E r \in Runs : Admit(r)
    \/ \E r \in Runs, s \in TerminalStatus : Finish(r, s)
    \/ Recover
    \/ \E r \in Runs : Announce(r)

Spec == Init /\ [][Next]_<<status, announced>>
=============================================================================
