------------------------------ MODULE Playback ------------------------------
(***************************************************************************)
(* What VoiceEngine (client/src/audio/VoiceEngine.cpp) does with the voice *)
(* of others: playRemoteFrame's filter of sequence numbers, a jitter queue *)
(* per peer, the mix of one frame of each, and the buffers handed to the   *)
(* sound device.  The main loop calls it all: every call is a step.        *)
(*                                                                         *)
(* Frames come in any order, more than once or not at all.  A sender that  *)
(* saves its audio settings starts again with sequence number 0            *)
(* (Application::applyAudioSettings), a receiver that does so forgets its  *)
(* queues.  Samples, gain and the clock are left out: a mix may come any   *)
(* time, but never two within 20 ms of audio.                              *)
(***************************************************************************)
EXTENDS Naturals, Sequences, FiniteSets

CONSTANTS
    Peers,          \* the others
    Target,         \* kRemoteJitterTargetFrames
    MaxQueue,       \* kMaxRemoteFramesPerPeer
    MaxPending,     \* kMaxPendingPlaybackBuffers
    MaxSent,        \* bound: frames a peer sends
    MaxBreaks       \* bound: restarts of engines, and pauses of two seconds

ASSUME PlaybackAssumption ==
    /\ Target \in Nat \ {0} /\ MaxQueue \in Nat /\ Target <= MaxQueue /\ MaxPending \in Nat
    /\ MaxSent \in Nat /\ MaxBreaks \in Nat

VARIABLES
    sent,       \* peer -> how many frames it has sent
    seq,        \* peer -> VoiceEngine::sequence_ at the peer
    net,        \* peer -> frames under way, numbered in the order of capture
    remote,     \* remoteAudio_
    silent,     \* peers of whom nothing was accepted for two seconds
    pending,    \* NativeAudioPlayback::pending_: buffers the device still plays
    breaks,     \* restarts and pauses so far
    accepted,   \* peer -> frames that were queued, in that order (history)
    mingled     \* peers with frames under way across a restart or a pause (history)

vars == <<sent, seq, net, remote, silent, pending, breaks, accepted, mingled>>

Frame == [n : 1..MaxSent, seq : 0..MaxSent]
RemoteAudio == [frames : Seq(1..MaxSent), last : 0..MaxSent, primed : BOOLEAN]

TypeOK ==
    /\ sent \in [Peers -> 0..MaxSent] /\ seq \in [Peers -> 0..MaxSent]
    /\ net \in [Peers -> SUBSET Frame]
    /\ DOMAIN remote \subseteq Peers
    /\ \A p \in DOMAIN remote : remote[p] \in RemoteAudio /\ Len(remote[p].frames) <= MaxQueue
    /\ silent \subseteq Peers
    /\ pending \in 0..MaxPending
    /\ breaks \in 0..MaxBreaks
    /\ accepted \in [Peers -> Seq(1..MaxSent)]
    /\ mingled \subseteq Peers

Init ==
    /\ sent = [p \in Peers |-> 0] /\ seq = [p \in Peers |-> 0]
    /\ net = [p \in Peers |-> {}]
    /\ remote = <<>>
    /\ silent = {} /\ pending = 0 /\ breaks = 0
    /\ accepted = [p \in Peers |-> <<>>]
    /\ mingled = {}

UnderWay == {p \in Peers : net[p] # {}}
----------------------------------------------------------------------------
(* The senders and the network. *)

SendPcmFrame(p) ==
    /\ sent[p] < MaxSent
    /\ sent' = [sent EXCEPT ![p] = @ + 1] /\ seq' = [seq EXCEPT ![p] = @ + 1]
    /\ net' = [net EXCEPT ![p] = @ \cup {[n |-> sent[p] + 1, seq |-> seq[p]]}]
    /\ UNCHANGED <<remote, silent, pending, breaks, accepted, mingled>>

SenderRestarts(p) ==
    /\ breaks < MaxBreaks /\ breaks' = breaks + 1
    /\ seq' = [seq EXCEPT ![p] = 0]
    /\ mingled' = IF p \in UnderWay THEN mingled \cup {p} ELSE mingled
    /\ UNCHANGED <<sent, net, remote, silent, pending, accepted>>

Lose(p, f) ==
    /\ net' = [net EXCEPT ![p] = @ \ {f}]
    /\ UNCHANGED <<sent, seq, remote, silent, pending, breaks, accepted, mingled>>
----------------------------------------------------------------------------
(* playRemoteFrame. *)

\* Mutant: a full queue refuses the new frame.
QueuedIfRoom(frames, n) == IF Len(frames) < MaxQueue THEN Append(frames, n) ELSE frames

\* Mutants: no filter; the limit is one off.
TakeAll(p, s) == TRUE
QueuedOneMore(frames, n) ==
    LET long == Append(frames, n)
    IN  IF Len(long) > MaxQueue + 1 THEN Tail(long) ELSE long

\* The queue with frame n, without its oldest frames if it is too long.
Queued(frames, n) ==
    LET long == Append(frames, n)
    IN  IF Len(long) > MaxQueue THEN Tail(long) ELSE long

IsNew(p, s) == p \notin DOMAIN remote \/ s > remote[p].last

\* A frame arrives, for the last time or not.  One that cannot be decoded
\* counts as heard and is not queued.
PlayRemoteFrame(p, f, decodes, again) ==
    /\ net' = IF again THEN net ELSE [net EXCEPT ![p] = @ \ {f}]
    /\ IF IsNew(p, f.seq)
       THEN LET old == IF p \in DOMAIN remote THEN remote[p]
                       ELSE [frames |-> <<>>, last |-> 0, primed |-> FALSE]
                frames == IF decodes THEN Queued(old.frames, f.n) ELSE old.frames
            IN  /\ remote' = [q \in DOMAIN remote \cup {p} |->
                                 IF q = p THEN [old EXCEPT !.frames = frames, !.last = f.seq]
                                 ELSE remote[q]]
                /\ silent' = silent \ {p}
                /\ accepted' = IF decodes THEN [accepted EXCEPT ![p] = Append(@, f.n)] ELSE accepted
       ELSE UNCHANGED <<remote, silent, accepted>>
    /\ UNCHANGED <<sent, seq, pending, breaks, mingled>>

\* Two seconds pass and nothing of p is accepted.
Pause(p) ==
    /\ p \in DOMAIN remote \ silent
    /\ breaks < MaxBreaks /\ breaks' = breaks + 1
    /\ silent' = silent \cup {p}
    /\ mingled' = IF p \in UnderWay THEN mingled \cup {p} ELSE mingled
    /\ UNCHANGED <<sent, seq, net, remote, pending, accepted>>
----------------------------------------------------------------------------
(* pumpRemotePlayback. *)

\* Mutant: every mix waits for the target.
PrimingAgain ==
    {p \in DOMAIN remote : remote[p].frames # <<>> /\ Len(remote[p].frames) < Target}

\* Mutant: nobody is forgotten.
Nobody == {}

\* Peers the mix forgets, leaves alone, takes a frame from.
Expired == {p \in DOMAIN remote : remote[p].frames = <<>> /\ p \in silent}
Priming ==
    {p \in DOMAIN remote :
        remote[p].frames # <<>> /\ ~remote[p].primed /\ Len(remote[p].frames) < Target}
Mixed == {p \in DOMAIN remote : remote[p].frames # <<>>} \ Priming

\* A mix.  If one of the frames is audible, a buffer goes to the device, unless
\* too many wait there already or the device refuses.
PumpRemotePlayback ==
    /\ DOMAIN remote # {}
    /\ remote' = [p \in DOMAIN remote \ Expired |->
                    CASE p \in Mixed -> [remote[p] EXCEPT !.frames = Tail(@), !.primed = TRUE]
                      [] p \in Priming -> remote[p]
                      [] OTHER -> [remote[p] EXCEPT !.primed = FALSE]]
    /\ pending' \in {pending} \cup IF Mixed # {} /\ pending < MaxPending THEN {pending + 1} ELSE {}
    /\ UNCHANGED <<sent, seq, net, silent, breaks, accepted, mingled>>

\* The device has played a buffer (WHDR_DONE); cleanup frees it before the next.
BufferDone ==
    /\ pending > 0 /\ pending' = pending - 1
    /\ UNCHANGED <<sent, seq, net, remote, silent, breaks, accepted, mingled>>

\* stop and start: queues, filters and buffers are gone.
ReceiverRestarts ==
    /\ breaks < MaxBreaks /\ breaks' = breaks + 1
    /\ remote' = <<>> /\ pending' = 0 /\ silent' = {}
    /\ mingled' = mingled \cup UnderWay
    /\ UNCHANGED <<sent, seq, net, accepted>>
----------------------------------------------------------------------------
Next ==
    \/ \E p \in Peers :
          \/ SendPcmFrame(p) \/ SenderRestarts(p) \/ Pause(p)
          \/ \E f \in net[p] : \/ Lose(p, f)
                               \/ \E decodes, again \in BOOLEAN : PlayRemoteFrame(p, f, decodes, again)
    \/ PumpRemotePlayback \/ BufferDone \/ ReceiverRestarts

\* The main loop pumps; nothing is asked of senders, network or device.
Spec == Init /\ [][Next]_vars /\ WF_vars(PumpRemotePlayback)
----------------------------------------------------------------------------
(* Properties. *)

\* Frames of a peer are queued, and so played, in the order of capture and at
\* most once, also when sender or receiver restarted or a pause made the filter
\* forget: unless old frames were still under way then (playRemoteFrame).
PlayedInOrder ==
    \A p \in Peers \ mingled : \A i, j \in DOMAIN accepted[p] : i < j => accepted[p][i] < accepted[p][j]

\* What waits to be played of a peer is always the latest that was accepted: a
\* queue that is full, is mixed from or is forgotten only loses its oldest.
QueueIsTheLatest ==
    \A p \in DOMAIN remote :
        LET n == Len(remote[p].frames)  k == Len(accepted[p])
        IN  n <= k /\ remote[p].frames = SubSeq(accepted[p], k - n + 1, k)

\* A sender that restarted is dropped by the filter, and nothing it sends keeps
\* the filter alive: two seconds after the last frame that was accepted the peer
\* is forgotten, unless a frame waits that is too few for the jitter buffer.
\* Only then can the sender be heard again before its numbers pass the old ones.
SilentIsForgotten ==
    \A p \in Peers :
        (p \in silent /\ p \in DOMAIN remote)
            ~> (p \notin silent \/ p \notin DOMAIN remote \/ p \in Priming)

\* Once enough frames wait, all of them are played: only a frame that comes
\* alone to an empty queue can wait longer than the jitter buffer is meant to.
QueueDrains ==
    \A p \in Peers :
        (p \in DOMAIN remote /\ Len(remote[p].frames) >= Target)
            ~> (p \notin DOMAIN remote \/ remote[p].frames = <<>>)
=============================================================================
