\* Two buffers, three frames of pre-speech, one pump of hangover and tail.
SPECIFICATION Spec
CONSTANTS
    NumBuffers = 2
    PreSpeech = 3
    Hangover = 1
    KeyTail = 1
    MaxFrames = 3
    MaxChanges = 3
INVARIANT MutedIsNotSent
