---------------------------- MODULE RunContract -----------------------------
(***************************************************************************)
(* What the run handlers, the work queue and the workers promise together  *)
(* about runs, seen from outside: requests that ask, a queue that holds a  *)
(* job, and a status that is shown.  RunSystem implements it.              *)
(*                                                                         *)
(* A status may be shown again after a later one (snapshots are put        *)
(* blindly, and runs are redelivered), so the contract says what must have *)
(* happened before a status is shown, not which status follows which.      *)
(***************************************************************************)
CONSTANTS
    Runs,
    NeedApproval    \* the runs of bundles that can spawn

VARIABLES
    job,            \* run -> whether its job is in the work queue
    shown,          \* run -> status of its snapshot
    ended,          \* runs that have been shown with a terminal status
    accepted,       \* runs whose submit or approve was answered 200
    approved,       \* runs somebody may approve: it saw them waiting
    stopAsked       \* runs somebody asked to stop, and was not turned down

vars == <<job, shown, ended, accepted, approved, stopAsked>>

Terminal == {"COMPLETED", "FAILED", "CANCELLED"}

Init ==
    /\ job = [r \in Runs |-> "none"]
    /\ shown = [r \in Runs |-> "absent"]
    /\ ended = {} /\ accepted = {} /\ approved = {} /\ stopAsked = {}

\* An approve finds the run waiting.
Approve(r) ==
    /\ shown[r] = "PENDING_APPROVAL"
    /\ approved' = approved \cup {r}
    /\ UNCHANGED <<job, shown, ended, accepted, stopAsked>>

\* A cancel or a reject ends without having stored anything.
AskStop(r) ==
    /\ stopAsked' = stopAsked \cup {r}
    /\ UNCHANGED <<job, shown, ended, accepted, approved>>

\* The job is queued, and the request that did it may be answered 200.  A run
\* is queued once, and one that needs approval at most once for each approval.
Enqueue(r) ==
    /\ IF r \in NeedApproval THEN r \in approved ELSE job[r] = "none"
    /\ job' = [job EXCEPT ![r] = "queued"]
    /\ accepted' \in {accepted, accepted \cup {r}}
    /\ UNCHANGED <<shown, ended, approved, stopAsked>>

\* The queue forgets a job only once its run has ended.
Take(r) ==
    /\ job[r] = "queued" /\ r \in ended
    /\ job' = [job EXCEPT ![r] = "taken"]
    /\ UNCHANGED <<shown, ended, accepted, approved, stopAsked>>

\* What must have happened before a status is shown: a run executes because it
\* was queued, waits no longer because it was approved, is stopped because
\* somebody asked, and disappears only if nobody was told that it was accepted.
\* (A run that needs approval can: its submit may fail after it was approved.)
Grounds(r, status) ==
    /\ status \in {"RUNNING", "COMPLETED", "FAILED"} => job[r] # "none"
    /\ status = "PENDING" /\ r \in NeedApproval => r \in approved
    /\ status \in {"CANCELLING", "CANCELLED"} => r \in stopAsked'
    /\ status = "absent" => r \notin accepted \/ r \in NeedApproval

\* A snapshot is stored, in the same step as the answer of a request to stop.
Show(r) ==
    /\ UNCHANGED <<job, accepted, approved>>
    /\ \E status \in Terminal \cup
            {"absent", "PENDING", "PENDING_APPROVAL", "RUNNING", "CANCELLING"} :
        /\ shown' = [shown EXCEPT ![r] = status]
        /\ Grounds(r, status)
        /\ ended' = IF status \in Terminal THEN ended \cup {r} ELSE ended
    /\ stopAsked' \in {stopAsked, stopAsked \cup {r}}

Next == \E r \in Runs : Approve(r) \/ AskStop(r) \/ Enqueue(r) \/ Take(r) \/ Show(r)

Spec == Init /\ [][Next]_vars

=============================================================================
