---------------------------- MODULE MCSpawnRuns -----------------------------
(* Instances of SpawnRuns for TLC. *)
EXTENDS SpawnRuns, TLC

CONSTANTS p1, p2

TwoOfP1 == {<<p1, 1>>, <<p1, 2>>, <<p2, 1>>}
TwoOfP2 == {<<p1, 1>>, <<p2, 1>>, <<p2, 2>>}

\* p1 may spawn one child, p2 one at a time.
OneChild == p1 :> 1 @@ p2 :> 0
OneAtATime == p1 :> 0 @@ p2 :> 1

=============================================================================
