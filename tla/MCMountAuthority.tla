-------------------------- MODULE MCMountAuthority --------------------------
(***************************************************************************)
(* Instances of MountAuthority: HOME and one other pose.                   *)
(***************************************************************************)
EXTENDS MountAuthority

CONSTANTS home, away

TwoPoses == {home, away}

\* Any four of calls, a fault and a crash
FourEvents == budget.calls + budget.faults + budget.crashes <= 4

==============================================================================
