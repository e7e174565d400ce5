---------------------------- MODULE VoiceCapture ----------------------------
(***************************************************************************)
(* From the microphone to the transport: NativeAudioCapture's ring of      *)
(* device buffers and VoiceEngine::pump (client/src/audio/                 *)
(* VoiceEngine.cpp), with what the application's main loop does to them:   *)
(* mute, the push-to-talk key, and the restart that new audio settings     *)
(* bring (Application::applyAudioSettings).                                *)
(*                                                                         *)
(* The sound driver fills buffers while the main loop does other things,   *)
(* and returns them full until it is stopped: each holds one frame of      *)
(* 20 ms (Resampler has the arithmetic, and buffers that are not full),    *)
(* numbered by the time it was recorded.  A frame is only its number:      *)
(* encoding, level and spectrum are left out, and whether the level is     *)
(* above the threshold is any value (it decays over several pumps).        *)
(***************************************************************************)
EXTENDS Naturals, Sequences

CONSTANTS
    NumBuffers,     \* NativeAudioCapture::buffers_
    PreSpeech,      \* kPreSpeechFrameCount
    Hangover,       \* kVadHangoverPumpFrames
    KeyTail,          \* kPushToTalkTailPumpFrames
    MaxFrames,      \* bound: frames of microphone time
    MaxChanges      \* bound: mutes, unmutes and restarts

\* While the main loop empties one buffer the driver fills another.
ASSUME CaptureAssumption ==
    /\ NumBuffers \in Nat \ {0, 1} /\ PreSpeech \in Nat /\ Hangover \in Nat /\ KeyTail \in Nat
    /\ MaxFrames \in Nat /\ MaxChanges \in Nat

VARIABLES
    capture,        \* nativeCapture_: wave | meter (no frames) | none
    queue,          \* buffers the driver will fill, in this order
    done,           \* buffer -> the frame in it (WHDR_DONE), or 0
    clock,          \* frames of microphone time so far
    pushToTalk,     \* settings_.pushToTalk
    key,            \* the push-to-talk key is down
    muted,          \* metrics_.muted
    hangover, tail, \* transmitHangoverFrames_, pushToTalkTailFrames_
    transmitting,   \* transmitting_
    preSpeech,      \* preSpeechFrames_
    sequence,       \* sequence_
    changes,
    sent,           \* frames sent, in that order (history)
    late,           \* a pump found more than one buffer done (history)
    hushed          \* frames recorded while the user was muted (history)

engineVars == <<hangover, tail, transmitting, preSpeech, sequence>>
deviceVars == <<capture, queue, done>>
vars == <<deviceVars, clock, pushToTalk, key, engineVars, muted, hushed, changes, sent, late>>

Buffers == 1..NumBuffers
Frames == 1..MaxFrames

TypeOK ==
    /\ capture \in {"wave", "meter", "none"}
    /\ queue \in Seq(Buffers) /\ done \in [Buffers -> 0..MaxFrames]
    /\ clock \in 0..MaxFrames
    /\ pushToTalk \in BOOLEAN /\ key \in BOOLEAN /\ muted \in BOOLEAN
    /\ hangover \in 0..Hangover /\ tail \in 0..KeyTail /\ transmitting \in BOOLEAN
    /\ preSpeech \in Seq(Frames) /\ Len(preSpeech) <= PreSpeech
    /\ sequence \in Nat
    /\ sent \in Seq(Frames) /\ late \in BOOLEAN
    /\ hushed \subseteq Frames /\ changes \in 0..MaxChanges
----------------------------------------------------------------------------
(* The device. *)

\* openWaveIn: all buffers wait, in the order of their index.
Opened(kind) ==
    /\ capture' = kind
    /\ queue' = IF kind = "wave" THEN [i \in Buffers |-> i] ELSE <<>>
    /\ done' = [b \in Buffers |-> 0]

Init ==
    /\ capture \in {"wave", "meter", "none"}
    /\ queue = IF capture = "wave" THEN [i \in Buffers |-> i] ELSE <<>>
    /\ done = [b \in Buffers |-> 0]
    /\ clock = 0 /\ pushToTalk \in BOOLEAN /\ key = FALSE /\ muted = FALSE
    /\ hangover = 0 /\ tail = 0 /\ transmitting = FALSE /\ preSpeech = <<>> /\ sequence = 0
    /\ changes = 0 /\ sent = <<>> /\ late = FALSE /\ hushed = {}

\* 20 ms pass: the driver fills a buffer, or has none and loses them.
Record ==
    /\ clock < MaxFrames /\ clock' = clock + 1
    /\ IF queue = <<>> THEN UNCHANGED <<queue, done>>
       ELSE queue' = Tail(queue) /\ done' = [done EXCEPT ![Head(queue)] = clock']
    /\ hushed' = IF muted THEN hushed \cup {clock'} ELSE hushed
    /\ UNCHANGED <<capture, pushToTalk, key, engineVars, muted, changes, sent, late>>
----------------------------------------------------------------------------
(* VoiceEngine::pump. *)

\* The buffers with a frame, as pumpLevel's loop meets them: by index, not by time.
ReadyUpTo[b \in 0..NumBuffers] ==
    IF b = 0 THEN <<>>
    ELSE IF done[b] # 0 THEN Append(ReadyUpTo[b - 1], b) ELSE ReadyUpTo[b - 1]
Ready == ReadyUpTo[NumBuffers]
Captured == [i \in DOMAIN Ready |-> done[Ready[i]]]

\* pumpLevel and drainVoiceFrames: the frames are taken, the buffers go back to the driver.
TakeBuffers ==
    /\ queue' = queue \o Ready
    /\ done' = [b \in Buffers |-> 0]
    /\ late' = (late \/ Len(Ready) > 1)
    /\ UNCHANGED capture

\* The last k of a sequence.
LastOf(s, k) == IF Len(s) <= k THEN s ELSE SubSeq(s, Len(s) - k + 1, Len(s))

Down(n) == IF n > 0 THEN n - 1 ELSE 0

\* pump while muted: what was collected is dropped, and the buffers stay where they are.
PumpMuted ==
    /\ muted /\ hangover' = 0 /\ tail' = 0 /\ transmitting' = FALSE /\ preSpeech' = <<>>
    /\ UNCHANGED <<deviceVars, clock, pushToTalk, key, sequence, muted, hushed, changes, sent,
                   late>>

\* The two counters that stretch a transmission.
Counters(above) ==
    IF pushToTalk
    THEN tail' = (IF key THEN KeyTail ELSE Down(tail)) /\ hangover' = 0
    ELSE hangover' = (IF above THEN Hangover ELSE Down(hangover)) /\ tail' = 0

ShouldTransmit(above) == IF pushToTalk THEN key \/ tail' > 0 ELSE above \/ hangover' > 0

\* Mutants: what preceded speech replaces its beginning; is kept and sent again.
SendPreSpeechOnly ==
    /\ sent' = sent \o (IF transmitting THEN Captured ELSE preSpeech)
    /\ sequence' = sequence + Len(sent') - Len(sent)
    /\ preSpeech' = <<>> /\ transmitting' = TRUE
SendAndKeep ==
    /\ sent' = sent \o (IF transmitting THEN Captured ELSE preSpeech \o Captured)
    /\ sequence' = sequence + Len(sent') - Len(sent)
    /\ transmitting' = TRUE /\ UNCHANGED preSpeech

\* Speech: what preceded it goes first.
Send ==
    /\ sent' = sent \o (IF transmitting THEN Captured ELSE preSpeech \o Captured)
    /\ sequence' = sequence + Len(sent') - Len(sent)
    /\ preSpeech' = <<>> /\ transmitting' = TRUE

\* Mutant: one frame too many is kept.
KeepOneMore ==
    /\ transmitting' = (transmitting /\ capture = "none")
    /\ preSpeech' = LastOf(preSpeech \o Captured, PreSpeech + 1)
    /\ UNCHANGED <<sequence, sent>>

\* No speech: the latest frames are kept for the next.
Keep ==
    /\ transmitting' = (transmitting /\ capture = "none")
    /\ preSpeech' = LastOf(preSpeech \o Captured, PreSpeech)
    /\ UNCHANGED <<sequence, sent>>

Pump(above) ==
    /\ ~muted
    /\ Counters(above)
    /\ IF ShouldTransmit(above) THEN Send ELSE Keep
    /\ TakeBuffers
    /\ UNCHANGED <<clock, pushToTalk, key, muted, hushed, changes>>
----------------------------------------------------------------------------
(* The user. *)

\* setPushToTalkActive comes right before each pump.
PressOrRelease ==
    /\ key' = ~key
    /\ UNCHANGED <<deviceVars, clock, pushToTalk, engineVars, muted, hushed, changes, sent, late>>

\* The mute hotkey: toggleLocalMute and setMuted.
ToggleMute ==
    /\ changes < MaxChanges /\ changes' = changes + 1
    /\ muted' = ~muted
    /\ UNCHANGED <<deviceVars, clock, pushToTalk, key, engineVars, hushed, sent, late>>

\* applyAudioSettings: stop, start, setMuted.
Restart ==
    /\ changes < MaxChanges /\ changes' = changes + 1
    /\ pushToTalk' \in BOOLEAN
    /\ \E kind \in {"wave", "meter", "none"} : Opened(kind)
    /\ hangover' = 0 /\ tail' = 0 /\ transmitting' = FALSE /\ preSpeech' = <<>> /\ sequence' = 0
    /\ UNCHANGED <<clock, key, muted, hushed, sent, late>>
----------------------------------------------------------------------------
Next ==
    \/ Record \/ PumpMuted \/ (\E above \in BOOLEAN : Pump(above))
    \/ PressOrRelease \/ ToggleMute \/ Restart

Spec == Init /\ [][Next]_vars
----------------------------------------------------------------------------
(* Properties. *)

\* No frame is sent twice, whatever counters, pre-speech and buffers do; and as
\* long as the main loop takes every buffer before the next is full, frames are
\* sent in the order in which they were recorded.  (When several wait, as after
\* a mute or a menu, pumpLevel takes them by index: VoiceEngine.cpp 584.)
EachFrameOnce ==
    \A i, j \in DOMAIN sent :
        i < j => sent[i] # sent[j] /\ (~late => sent[i] < sent[j])

\* "Global mute hotkey updates local capture immediately" (docs/build-and-
\* acceptance.md, line 12): what is recorded while the user is muted is never sent.
\* The code leaves it in the device's buffers (VoiceEngine.cpp 1341-1354), where
\* the first pump after the mute finds it.
MutedIsNotSent == \A i \in DOMAIN sent : sent[i] \notin hushed

\* Speech is whole: what a pump sends is one stretch of time that ends with the
\* latest frame, pre-speech included, as long as the main loop keeps up.
SpeechIsWhole ==
    [][\A above \in BOOLEAN : Pump(above) /\ transmitting' /\ ~late' =>
            LET new == SubSeq(sent', Len(sent) + 1, Len(sent'))
            IN  /\ \A i \in DOMAIN new : i > 1 => new[i] = new[i - 1] + 1
                /\ \A b \in Buffers : done[b] # 0 => new # <<>> /\ new[Len(new)] = done[b]]_vars
=============================================================================
