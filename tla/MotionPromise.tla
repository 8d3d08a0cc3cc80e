--------------------------- MODULE MotionPromise ---------------------------
(***************************************************************************)
(* What the facade promises of its moves (docs/SDK.md, "Motion"): one at a *)
(* time, each with one outcome, which is final once the move is done, and  *)
(* "stopped" for nothing but a move somebody asked to stop.                *)
(***************************************************************************)
EXTENDS Naturals

CONSTANT MaxMoves

VARIABLES
    state,  \* per move: its outcome, as far as it got
    done,   \* per move: wait() returns
    asked   \* per move: a stop was asked for

vars == <<state, done, asked>>

Moves == 1 .. MaxMoves
Outcomes == {"succeeded", "failed", "stopped"}

Init ==
    /\ state = [i \in Moves |-> "unused"]
    /\ done = [i \in Moves |-> FALSE]
    /\ asked = [i \in Moves |-> FALSE]

Over(i) == state[i] = "unused" \/ done[i]

Start(i) ==
    /\ state[i] = "unused" /\ \A j \in Moves : Over(j)
    /\ state' = [state EXCEPT ![i] = "running"]
    /\ UNCHANGED <<done, asked>>

\* A stop of a move that is over changes nothing any more.
Ask(i) ==
    /\ state[i] # "unused"
    /\ asked' = [asked EXCEPT ![i] = TRUE]
    /\ UNCHANGED <<state, done>>

Ends(i, o) ==
    /\ state[i] = "running"
    /\ o = "stopped" => asked[i]
    /\ state' = [state EXCEPT ![i] = o]
    /\ UNCHANGED <<done, asked>>

Announce(i) ==
    /\ state[i] \in Outcomes
    /\ done' = [done EXCEPT ![i] = TRUE]
    /\ UNCHANGED <<state, asked>>

Next ==
    \E i \in Moves : Start(i) \/ Ask(i) \/ Announce(i) \/ \E o \in Outcomes : Ends(i, o)

Spec == Init /\ [][Next]_vars
=============================================================================
