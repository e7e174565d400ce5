--------------------------- MODULE MCVoiceCapture ---------------------------
(***************************************************************************)
(* The sending half of the voice engine for TLC: the buffers and pump      *)
(* (VoiceCapture) beside what a buffer's samples become (Resampler).  They *)
(* share no state: a buffer is one frame there and its samples here.       *)
(***************************************************************************)
EXTENDS VoiceCapture

CONSTANTS Missing, MaxBuffers

VARIABLES rate, source, position, accumulator, broken, total, buffers, made, frames, short

resamplerVars ==
    <<rate, source, position, accumulator, broken, total, buffers, made, frames, short>>

R == INSTANCE Resampler

BothInit == Init /\ R!Init

BothNext ==
    \/ Next /\ UNCHANGED resamplerVars
    \/ R!Next /\ UNCHANGED vars

SideBySide == BothInit /\ [][BothNext]_<<vars, resamplerVars>>

\* Bound: nothing is learned from both moving in one behaviour.
OneOfThem == buffers = 0 \/ (clock = 0 /\ changes = 0 /\ ~key)

\* The resampler neither loses a sample nor makes one twice (Resampler).
NothingIsLost == R!NothingIsLost

\* A full buffer is a frame, and the consumed samples are there (Resampler).
FullBuffersAreFrames == R!FullBuffersAreFrames
=============================================================================
