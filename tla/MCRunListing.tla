---------------------------- MODULE MCRunListing ----------------------------
(* An instance of RunListing for TLC. *)
EXTENDS RunListing

\* Three runs, so that a page of one or two can end between equal times.
ThreeRuns == {1, 2, 3}

=============================================================================
