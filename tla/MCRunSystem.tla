---------------------------- MODULE MCRunSystem -----------------------------
(* Instances of RunSystem for TLC: which API calls a behaviour makes. *)
EXTENDS RunSystem, TLC

\* Worker processes are interchangeable (used by the safety runs only).
WorkerSymmetry == Permutations(Workers)

\* One run, submitted by name, and cancelled.
CancelKind == "s1" :> "submit" @@ "c1" :> "cancel"
CancelRun  == "s1" :> "r1" @@ "c1" :> "r1"

\* A spawning bundle with one approve, and with two approves and a reject.
ApprovedKind == "b1" :> "spawnBundle" @@ "a1" :> "approve"
ApprovedRun  == "b1" :> "r1" @@ "a1" :> "r1"
ApprovalKind == ApprovedKind @@ "a2" :> "approve" @@ "j1" :> "reject"
ApprovalRun  == ApprovedRun @@ "a2" :> "r1" @@ "j1" :> "r1"

\* Two runs, by a plain bundle and by the direct client; the first is cancelled.
TwoRunsKind == "b1" :> "bundle" @@ "s2" :> "client" @@ "c1" :> "cancel"
TwoRunsRun  == "b1" :> "r1" @@ "s2" :> "r2" @@ "c1" :> "r1"

=============================================================================
