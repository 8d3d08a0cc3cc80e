------------------------------ MODULE MCFocuser ------------------------------
EXTENDS Focuser, FiniteSetsExt, TLC

\* The events of a behaviour: calls, rejections, new maxima and drops.
Events ==
    MapThenSumSet(LAMBDA t : moves[t], Movers)
    + MapThenSumSet(LAMBDA t : stops[t], Stoppers) + rejects + limits + drops

ThreeEvents == Events <= 3

\* A call of move_absolute only puts the thread before the motion lock, so it may
\* as well come before any stop: the lock is what it waits for.
MovesFirst == \A t \in Stoppers : stops[t] > 0 => ~newer[t]

\* With the limits at the ends of the travel the device is the same mirrored, so
\* a first move down shows what a first move up from the mirrored position does.
MovesUp == \A t \in Movers : moves[t] = 1 => goal[t] = MaxPosition

MoversAlike == Permutations(Movers)
=============================================================================
