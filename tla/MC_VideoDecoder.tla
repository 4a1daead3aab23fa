-------------------------- MODULE MC_VideoDecoder --------------------------
(* Small instances of the video decoder: the life cycle of an Android client *)
(* and the transitions a client may add to it.                               *)
EXTENDS NX_OMXVideoDecoder, TLC

LifeCycle == {<<"Loaded", "Idle">>, <<"Idle", "Executing">>,
              <<"Executing", "Idle">>, <<"Idle", "Loaded">>}
\* Idle -> Pause is left out: its late buffers multiply the states.
WithPause == LifeCycle \cup {<<"Idle", "Idle">>, <<"Pause", "Executing">>, <<"Executing", "Pause">>}
\* A transition the component does not have, and the way back from it.
WithMistake == LifeCycle \cup {<<"Loaded", "Pause">>, <<"Pause", "Loaded">>}

\* The buffers of a port are interchangeable.
Symmetric == Permutations(InBufs) \cup Permutations(OutBufs)
=============================================================================
