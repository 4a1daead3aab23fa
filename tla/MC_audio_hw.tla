----------------------------- MODULE MC_audio_hw -----------------------------
(* Both outputs and two inputs, over the speaker and the digital output.  A    *)
(* start without a source has DEFAULT, so one source that the client sets      *)
(* makes two.                                                                  *)
EXTENDS audio_hw, TLC

OutputSets == {{"SPEAKER"}, {"AUX_DIGITAL"}}
InputSets == {{"WIRED_HEADSET"}}
\* The outputs differ in nothing but their slot, nor do the inputs.
StreamSymmetry == Permutations(Outs) \cup Permutations(Ins)
=============================================================================
