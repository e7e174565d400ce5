------------------------------ MODULE Resampler ------------------------------
(***************************************************************************)
(* NativeAudioCapture::enqueueVoiceFrames (client/src/audio/               *)
(* VoiceEngine.cpp): what a device buffer adds to the frames of the wire.  *)
(* The resampler keeps the samples it has not used and its position among  *)
(* them from buffer to buffer; a buffer counts as far as it was recorded.  *)
(* A sample is only counted.  Positions are in 1/160 of a source sample,   *)
(* in which every step is whole: arithmetic is exact, where the code has   *)
(* doubles that differ by less than one such unit.                         *)
(*                                                                         *)
(* The limits on the accumulator (ten frames) and on the frames pending    *)
(* (25) are never met: less than a frame is left after each buffer, and    *)
(* pump drains the frames of at most four buffers.                         *)
(***************************************************************************)
EXTENDS Integers

CONSTANTS
    Missing,        \* samples by which a buffer may be short, 1..319
    MaxBuffers      \* bound: buffers recorded

VARIABLES
    rate,           \* waveInSampleRate_
    source,         \* resampleSource_.size()
    position,       \* resamplePosition_
    accumulator,    \* pcmAccumulator_.size()
    broken,         \* erase was called beyond the vector's end
    total, buffers, \* samples recorded, in so many buffers (history)
    made, frames,   \* samples and frames made of them (history)
    short           \* a buffer was not full (history)

vars == <<rate, source, position, accumulator, broken, total, buffers, made, frames, short>>

WireRate == 16000
SamplesPerFrame == 320
Rates == {WireRate, 48000, 44100}

SamplesPerBuffer == rate \div 50
Step == (rate * 160) \div WireRate

\* Mutants: the loop stops one sample early; each buffer starts at its beginning.
SamplesFloored(size) ==
    IF rate = WireRate THEN size ELSE ((size - 1) * 160 - position) \div Step
PositionForgotten(end) == 0

\* Samples made of the first size source samples: one at every step from position
\* on that has a source sample after it.  At the wire rate samples are copied.
Samples(size) ==
    IF rate = WireRate THEN size
    ELSE IF position >= (size - 1) * 160 THEN 0
    ELSE ((size - 1) * 160 - position + Step - 1) \div Step

PositionAfter(end) == end % 160

Init ==
    /\ rate \in Rates
    /\ source = 0 /\ position = 0 /\ accumulator = 0 /\ broken = FALSE
    /\ total = 0 /\ buffers = 0 /\ made = 0 /\ frames = 0 /\ short = FALSE

\* A buffer with n samples.  After an erase beyond the end the process is over.
Enqueue(n) ==
    LET size == source + n
        out == Samples(size)
        end == position + out * Step
        consumed == end \div 160
    IN  /\ ~broken /\ buffers < MaxBuffers
        /\ buffers' = buffers + 1 /\ total' = total + n
        /\ short' = (short \/ n < SamplesPerBuffer)
        /\ made' = made + out
        /\ frames' = frames + (accumulator + out) \div SamplesPerFrame
        /\ accumulator' = (accumulator + out) % SamplesPerFrame
        /\ broken' = (consumed > size)
        /\ source' = IF consumed > size THEN 0 ELSE size - consumed
        /\ position' = PositionAfter(end)
        /\ UNCHANGED rate

Next == \E m \in Missing \cup {0} : Enqueue(SamplesPerBuffer - m)

Spec == Init /\ [][Next]_vars
----------------------------------------------------------------------------
(* Properties. *)

\* The resampler neither loses a sample nor makes one twice over any number of
\* buffers, full or short, until it breaks: the samples made stand for all that was
\* recorded but what is left in the source, each lies between two recorded ones,
\* none that could be made is missing, and frames take up all but the accumulator.
NothingIsLost ==
    /\ made = frames * SamplesPerFrame + accumulator
    /\ ~broken =>
          /\ made * Step = (total - source) * 160 + position
          /\ rate # WireRate /\ made > 0 => (made - 1) * Step + 160 < total * 160
          /\ rate # WireRate => made * Step + 160 >= total * 160

\* While the driver returns full buffers, which it does until it is stopped, each
\* makes one frame at every rate, with nothing left over, and the erase of the
\* consumed samples stays within the vector.  (A short one may leave a total on
\* which the last step passes the end: at 48000 one that is 2 modulo 3.)
FullBuffersAreFrames ==
    ~short => ~broken /\ frames = buffers /\ accumulator = 0 /\ source = 0
=============================================================================
