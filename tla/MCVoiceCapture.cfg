\* Two buffers, three frames of pre-speech, one pump of hangover and tail; for the
\* resampler six buffers that are full, or short by 1, 2 or 317 samples.
SPECIFICATION SideBySide
CONSTANTS
    NumBuffers = 2
    PreSpeech = 3
    Hangover = 1
    KeyTail = 1
    MaxFrames = 6
    MaxChanges = 3
    Missing = {1, 2, 317}
    MaxBuffers = 6
CONSTRAINT OneOfThem
INVARIANTS TypeOK EachFrameOnce NothingIsLost FullBuffersAreFrames
PROPERTY SpeechIsWhole
