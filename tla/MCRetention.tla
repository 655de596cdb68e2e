---------------------------- MODULE MCRetention ----------------------------
(* One pass may outlast the period, so that a run can begin after the       *)
(* markers were read and still have a file as old as the period.            *)
EXTENDS Retention

CONSTANTS m1, m2, r1
=============================================================================
