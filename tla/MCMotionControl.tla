-------------------------- MODULE MCMotionControl --------------------------
EXTENDS MotionControl, FiniteSetsExt

\* The events of a behaviour: moves, calls, faults, drops and close().
Events ==
    motion + MapThenSumSet(LAMBDA t : calls[t], Apps \cup {Sup})
    + faults + drops + (IF pc[Cls] = "idle" THEN 0 ELSE 1)

TwoEvents == Events <= 2
ThreeEvents == Events <= 3

\* Two events, or three with close(): a move, and a drop or a stop of the supervisor,
\* which begins after close() joins it, or waits for its confirmation until then.
AroundClose ==
    \/ TwoEvents
    \/ /\ ThreeEvents /\ pc[Cls] # "idle"
       /\ \A t \in Apps : calls[t] = 0
       /\ calls[Sup] = 0 \/ pc[Cls] \in {"join", "closed"} \/ pc[Sup] = "spoll"
=============================================================================
