----------------------------- MODULE MCDesktop -----------------------------
(***************************************************************************)
(* Desktop for TLC: the environments of a run.                             *)
(***************************************************************************)
EXTENDS Desktop

CONSTANT m1

\* No variable is set; or TVO_INPUT_DEVICE, TVO_PTT and TVO_VAD_THRESHOLD (beyond
\* the slider's end); or TVO_PTT_KEY and TVO_INPUT_GAIN (between two positions).
MCEnvironments ==
    {<<>>,
     [mic |-> m1, pushToTalk |-> TRUE, threshold |-> 27],
     [key |-> DefaultKey, gain |-> 1234]}
=============================================================================
