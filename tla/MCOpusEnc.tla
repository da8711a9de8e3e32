----------------------------- MODULE MCOpusEnc -----------------------------
(* Model checking of OpusEnc: a buffer of seven frames. *)
EXTENDS OpusEnc

SomeLengths == {10, 40}
SomeRequests == {4, 5}
SomeDelays == {0}

\* A bound: faults and settings only where the pages go to a callback.
PulledAlone == enc.pull_api => faults = MaxFaults /\ ctls = MaxCtls
=============================================================================
