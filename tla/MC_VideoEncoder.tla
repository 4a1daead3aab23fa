-------------------------- MODULE MC_VideoEncoder --------------------------
(* Small instances of the video encoder.                                     *)
EXTENDS NX_OMXVideoEncoder, TLC

\* All but Pause -> Idle, which returns no buffer and leaves the thread running,
\* and Idle -> Pause, whose late buffers multiply the states.
LifeCycle == {<<"Loaded", "Idle">>, <<"Idle", "Executing">>, <<"Executing", "Idle">>,
              <<"Idle", "Loaded">>, <<"Executing", "Pause">>, <<"Pause", "Executing">>}

Symmetric == Permutations(InBufs) \cup Permutations(OutBufs)
=============================================================================
