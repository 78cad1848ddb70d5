---------------------------- MODULE MCWheelSync -----------------------------
(* An instance of WheelSync for TLC. *)
EXTENDS WheelSync

CONSTANTS r1, r2

\* Two versions of one package that the worker may install and a third it may
\* not, and a wheel of a second package.
FourWheels == {<<1, 1>>, <<1, 2>>, <<1, 3>>, <<2, 1>>}
ThreeSelectable == {<<1, 1>>, <<1, 2>>, <<2, 1>>}

=============================================================================
