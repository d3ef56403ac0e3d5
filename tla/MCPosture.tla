-------------------------------- MODULE MCPosture --------------------------------
(***************************************************************************)
(* Instances of Posture for TLC.                                            *)
(***************************************************************************)
EXTENDS Posture, TLC

CONSTANTS p1, p2, s1, v1, v2, w1, w2

TwoProjects == {[project |-> p1, service |-> s1], [project |-> p2, service |-> NoService]}

\* A project with and one without services, and the SBOMs of neither.
ThreeScopes == TwoProjects \cup {[project |-> p1, service |-> NoService]}
=============================================================================
