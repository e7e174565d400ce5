# A verification development for tarkov_voice_overlay

The program is a voice chat for a squad of up to five players: a Windows client
(C++20, `client/`) that captures, encodes, sends, receives and mixes speech and
draws an overlay, and a coordinator (Go, `coordinator/`) that keeps the list of
rooms and relays signalling between the members of a room.  Voice goes from
client to client over UDP when the clients can reach each other, and through
the coordinator otherwise.

This directory holds TLA+ models of it, the TLC configurations that check them,
and proofs that TLAPS checks.  `PROJECT.json` ties every definition to the
lines it models and lists the runs, the mutants, the hazards and the theorems.

## 1. The system

| Part | Source | State | Operations |
| --- | --- | --- | --- |
| Coordinator hub | `coordinator/main.go` | `Hub.clients`, `Hub.rooms` (host, peers), `Client.roomID`, one bounded channel per client | accept a connection, `removeClient`, `hello`, `list_rooms`, `create_room`, `join_room`, `leave_room`, `ice_*`, `peer_status`, `voice_frame`, `heartbeat`; one reader and one writer goroutine per connection; one lock |
| Signaling client | `client/src/net/SignalingClient.cpp` | handles, `connected_`, `receivedHello_`, `receivedRooms_`, pending replies, room list, `currentRoomId_`, event queue | `connect`, `disconnect`, `createRoom`, `joinRoom`, `leaveRoom`, `sendIce`, `sendVoiceFrame`, `broadcastStatus`, `pump`; a receiver thread that runs `handleServerMessage` |
| Application | `client/src/core/Application.cpp` | the objects below, settings, the active room | `run` (connect, join loop, create, LAN fallback, main loop, shutdown), `handleSignalingEvent`, `applyAudioSettings`, the hybrid transport |
| Voice session | `client/src/core/VoiceSession.cpp` | room, local peer, peers with last-seen times | create, join, leave, add, update and remove peers, mute, `tick` |
| Direct voice | `client/src/net/DirectVoiceTransport.cpp` | UDP socket, local candidates, one route per peer (candidates, learned endpoint, flags, counters) | `start` (STUN), `stop`, `ensurePeer`, `removePeer`, `handleSignal`, `sendVoiceFrame`, `pump` |
| Voice engine | `client/src/audio/VoiceEngine.cpp` | capture thread and buffer, transmit state, pre-speech frames, per-peer jitter queues, playback thread | `start`, `stop`, `setMuted`, `pump`, `playRemoteFrame`, capture callback |
| Overlay, tray, setup and settings windows, hotkey | `client/src/platform/*` | windows, the controls' contents, flags that the loop reads (`settingsRequested_`, `exitRequested_`, `closeRequested_`) | dialogs, menu, key capture, save and cancel, `RegisterHotKey` and `WM_HOTKEY`, drawing |
| LAN discovery, password gate | `client/src/net/LanDiscovery.cpp`, `client/src/security/PasswordGate.cpp` | an announced room; a hash | a stub; a hash that nothing tests |

How they interact.  The application's main loop, one thread, polls everything
every 10 ms: it pumps the signaling client (whose receiver thread has queued
events), the direct transport (which drains its socket and pings), the engine
(which drains the capture buffer, decides whether to transmit, encodes and hands
frames to the hybrid transport) and the session.  The hybrid transport always
sends to the direct routes, and also to the coordinator while some peer of the
session has never been heard directly.  Frames come back from the direct
transport or, through `handleSignalingEvent`, from the coordinator, into the
engine's per-peer queues.

The hard behaviours:

- **The hub.** Many goroutines and one lock; a membership that is stored twice;
  channels that drop when they are full; dead sockets that are noticed late;
  a broadcast that interleaves with the writers; hello answered in two steps.
- **The client's startup.** Waits with timeouts on replies that may come late,
  be for an earlier request, or never come; a receiver thread next to it.
- **Direct voice.** A symmetric offer/answer exchange over the hub, then UDP
  with loss, duplication and reordering, and peers that leave meanwhile.
- **The engine.** Mute and push-to-talk against buffers filled by a thread;
  jitter queues fed from two sides; restarts in the middle of a call.

What makes each part correct:

- hub: the two copies of the membership agree; a room has 1 to 5 peers
  (`maxPeersPerRoom`) and its host is one of them; relays stay inside a room; what a client has been told
  adds up to the truth unless something was dropped, and then that is logged;
  the host role is handed over in a definite order; a dead peer is announced.
- client: startup ends; the session, the coordinator and the peers mean the same
  room as long as no wait has timed out (replies carry nothing that ties them to
  a request); a client that gives up leaves nothing behind.
- direct voice: two peers in a room that can reach each other end up with a
  route each way; routes follow the session as far as the client was told who
  is there; a frame is played once.
- engine: nothing is sent while muted; no frame is sent or played twice; frames
  are played in the order of capture; queues are bounded; no sample is lost.
- windows and settings: a mute is the same everywhere; a save changes what was
  edited and the next run starts with it, if it reached the file.

`PROJECT.json` lists the hazards line by line, with the properties that cover
them; for those without one the note says why.

Which module models which part:

| Module | Part | Section |
| --- | --- | --- |
| `Hub`, `RoomService`, `HubViews` | the coordinator, what it promises, what its clients are told | 2 |
| `DirectVoice`, `VoiceCall` | the UDP transport; the clients of a room around it | 3 |
| `Squad` | how a client comes to its room | 4 |
| `VoiceCapture` | from the microphone to the transport | 5 |
| `Resampler` | from a device buffer to frames | 5 |
| `Playback` | from the transport to the sound device | 5 |
| `Desktop` | windows, hotkey, settings file, the main loop | 6 |
| `Discovery` | addresses, STUN and web services | 7 |
| `HubProofs`, `VoiceCallProofs`, `SquadProofs`, `VoiceCaptureProofs`, `PlaybackProofs`, `DesktopProofs`, `DiscoveryProofs` | theorems about the module in the name (`HubProofs`: about `Hub`, `RoomService` and `HubViews`) | 9 |
| `Induction` | induction and recursive functions, for the proofs | 9 |
| `MCHub`, `MCHubViews`, `MCVoiceCall`, `MCVoiceCapture`, `MCDesktop`, `MCDiscovery` | instances for TLC: constants that a .cfg cannot express, and constraints | 8 |

They meet at the calls of `Application.cpp`: `Squad` ends where `VoiceCall`
begins (a room and a session), `Discovery` yields the candidates that
`DirectVoice` signals, `VoiceCapture` the frames that `VoiceCall` sends,
`VoiceCall` the frames that `Playback` queues, and `Desktop` the mutes and
restarts that `VoiceCapture` and `Playback` have at any time.

## 2. The coordinator

### `Hub`

One action per handler of `main.go`, for clients whose connections open, fail
and are removed.

| TLA+ | Code |
| --- | --- |
| `conn[c]` | registered in `h.clients` and socket alive (`open`), registered and socket dead (`broken`), before (`idle`) and after (`gone`) |
| `pc[c]` | where the reader goroutine of `c` is: waiting for a message (`reading`), between the two halves of `hello` (`greeting`), sending with the lock held (`posting`) |
| `roomID[c]` | `Client.roomID` |
| `rooms` | `h.rooms`: host and peers of each room |
| `drawn` | the room ids drawn so far (`randomHex` is taken not to repeat) |
| `send[c]` | `Client.send` together with what the socket has yet to take |
| `posts` | the calls of `broadcastLocked` and `enqueue` that the handler holding `h.mu` has yet to make |
| `lost` | the clients for which `dropping message for slow peer` was logged (history) |
| `served` | how many client messages were handled (bound) |

A handler takes the lock, changes the tables, and then sends.  The table change
is one step; each send is a step (`Deliver`), because the writers pop channels
without the lock, so that two sends of one handler may find a channel full and
then not full.  `Unlocked` (`posts = <<>>`) is a guard of every handler that
takes the lock.  `hello`, `heartbeat` and the error replies are sent without it.

Abstractions:

- Nicknames, room names, times, payload bytes and the `locked` flag are left
  out: the hub stores and copies them and tests none of them, except for the
  size of a voice frame, which is the Boolean `sized`.
- The three `ice_*` types are routed alike and are one type, as are
  `mute_status` and `peer_status`.
- Handlers that only read (`RLock`) may overlap in the program.  Here they
  exclude one another.  They write nothing but channels, so overlapping changes
  only in which order relays of different senders reach different receivers.
- Peer ids and room ids are never drawn twice; ids are numbers, whose order is
  that of the strings (`sort.Strings`).
- The list of rooms is built by ranging over a map: it is a set.

### `RoomService`

What the hub promises, without connections, channels or messages: clients are
at a room or nowhere; a room is opened by its host under an id never used
before; entering needs a place; leaving hands the host role over.  `Hub`
implements it (`ImplementsService`), under the mapping stated at the end of the
module.  One corner of it deserves a word: joining the room one is alone in
leaves it (the room is gone from the table); see section 10.

### `HubViews`

`Hub` with the history variable `seen` (what the writers have written to each
socket), and the properties that compare it with the tables: what a client has
been sent, plus what is queued, plus what is about to be queued (`WillSee`), adds
up to its true membership (`MembershipAddsUp`) and to the current list
(`ListIsCurrent`), unless an envelope to it was dropped.  `AfterReading` reads a
sequence of envelopes one after the other.  It also carries the fairness and the two
liveness properties.

## 3. The call

### `DirectVoice`

The table of routes and the UDP socket of every client
(`DirectVoiceTransport.cpp`), and the network between the sockets.

| TLA+ | Code |
| --- | --- |
| `running[p]` | `Impl::running` |
| `route[p][q]` | `Impl::peers[q]`: whether it has candidates, was heard (and so has a learned endpoint), had an offer and an answer sent, how often candidates were sent again, the last voice sequence |
| `net` | packets under way; a packet received may stay there (it was repeated) |
| `EnsurePeers`, `RemovePeer`, `HandleSignal`, `SendVoiceFrame` | the methods of these names |
| `Ping`, `Resend`, `Receive` | the three parts of `Impl::pump` |

These are operators, not actions: the transport has no thread of its own, and
`VoiceCall` says when the main loop calls it.

Abstractions:

- Addresses.  `Opens` says which clients' candidates can be reached unasked; a
  packet that came in shows an endpoint at which its sender can be answered.
- Timers (750 ms between pings, 2 s and 3 s between candidate signals) are left
  to chance: a ping or a resend may happen at any time.
- Packets are not put together byte by byte; everybody is in one room, so the
  room id they carry always matches.

### `VoiceCall`

The application around it: the clients of one room, their sessions, what the
coordinator relays, and the engine's filter of repeated frames.

| TLA+ | Code |
| --- | --- |
| `phase[p]` | where `Application::run` is: before it has a room, between the room and the main loop (the transport takes seconds to start, and events queue up), in the loop, after it |
| `online[p]` | `SignalingClient::connected_` |
| `member` | the coordinator's `Room.Peers` |
| `session[p]` | the keys of `VoiceSession::peers_` |
| `inbox[p]` | events from the hub's channel to `SignalingClient::events_` |
| `seq[p]`, `last[p][q]` | `VoiceEngine::sequence_`, `remoteAudio_[q].lastSequence` |
| `played[p][q]` | frames handed to the decoder (history) |
| `missed[p]` | the peers whose `peer_joined` was dropped on its way to `p` and whose `peer_left` `p` has not handled (history) |
| `Handle...` | the branches of `handleSignalingEvent` |
| `BroadcastStatus` | `SignalingClient::broadcastStatus`, from the metrics callback and the mute hotkey |
| `Talk` | `HybridVoiceTransport::sendVoiceFrame` |
| `Forget` | `pumpRemotePlayback` erases a peer after two seconds of silence |

Abstractions:

- The coordinator is the one of `Hub`, seen by members of one room: it serialises
  what it does and posts to every member in that order.  A full channel drops
  whatever is due: arrivals, departures and signals (at most `MaxDrops` of them),
  voice frames and statuses (any).  What the client then believes of the room is
  part of the model: a status of a peer it was not told of makes a session peer
  without a route, a signal a route without a session peer.  The reply to the
  client's own request arrives, because `Enter` is a request that succeeded.
- What a status says (levels, mute, icon) is left out; a second one of the same
  peer in an inbox changes nothing and is not kept.
- A client enters the room once, and the relay is enabled.  Restarts of the
  engine are in `VoiceCapture` and `Playback`.
- `Forget` takes the network to keep no packet for two seconds.

## 4. The start

### `Squad`

`Application::run` up to its main loop and its shutdown, on `SignalingClient`
and its receiver thread, against a coordinator seen over one connection.  Main
thread and receiver thread interleave at every release of `mutex_` and at every
wait.

| TLA+ | Code |
| --- | --- |
| `pc`, `after` | where the main thread is; `disconnect` is called from three places and `after` says where it goes on |
| `candidates`, `asked` | the rooms of `listRooms()` that `run` has not tried; the argument of `joinRoom` |
| `session`, `met` | `VoiceSession::room_`; the rooms of whose members the session was told |
| `connected`, `handle`, `stopRequested`, `thread` | `connected_`, whether there is a websocket handle, `stopRequested_`, `receiverThread_` |
| `received`, `rooms`, `pending`, `currentRoomId`, `events` | the fields under `mutex_` |
| `link`, `up`, `down` | the connection and the messages in both directions |
| `hubRoom`, `open` | the coordinator's `roomID` of this client; the rooms of others with a place |
| `timedOut` | a wait for a room ended without an answer (history) |

A wait is two actions of the main thread with the receiver's steps in between: the
call (`Connect`, `JoinRoom`, `CreateRoom`: the pending fields are cleared and the
request goes out) and the end of the wait (`AwaitHello`, `AwaitJoin`,
`AwaitCreate`: the answer is there, or five seconds are over).  A timeout may
come at any time.  The connection may break at any step; messages that were on
their way may still be read or be lost with it.

Abstractions: rooms of others are `open` or not; member messages are
`VoiceCall`'s; handles are one, and the text of JSON and urls is left out.

## 5. The engine

### `VoiceCapture`

The ring of device buffers, filled by the sound driver while the main loop does
something else, and `VoiceEngine::pump`.

| TLA+ | Code |
| --- | --- |
| `capture`, `queue`, `done` | `NativeAudioCapture`: open with buffers, open as a level meter only, or not; the driver's queue; what each finished buffer holds |
| `pushToTalk`, `key`, `muted` | settings, `GetAsyncKeyState`, `metrics_.muted` |
| `hangover`, `tail`, `transmitting`, `preSpeech`, `sequence` | the members of these names |
| `Record` | the driver finishes a buffer (or drops what it hears: none is queued) |
| `Pump`, `PumpMuted` | `pump` and its early return for a muted engine |
| `Restart` | `Application::applyAudioSettings`: `stop`, `setSettings`, `start` |
| `sent`, `late`, `hushed` | history: what was sent, whether a pump found more than one buffer done, what was recorded while the user was muted |

A frame is the number of the 20 ms in which it was recorded, so that properties
can compare what is sent with when it was heard.  `Ready` is the loop of
`pumpLevel` over the buffers, by index (`ReadyUpTo`).  There are at least two
buffers (the code has four): with one, the driver could not record while it is
emptied.  The level is any value.  A buffer is full, and so holds one frame:
Windows returns one that is not only when recording is stopped or reset, and the
client then closes the device.  What `enqueueVoiceFrames` makes of buffers that
are not full is in `Resampler`.

### `Resampler`

`NativeAudioCapture::enqueueVoiceFrames`, which takes as much of a buffer as was
recorded, at the rates at which the device may have been opened (16000 Hz, where
samples are copied, 48000 and 44100 Hz).

| TLA+ | Code |
| --- | --- |
| `rate` | `waveInSampleRate_` |
| `source`, `position` | `resampleSource_.size()`, `resamplePosition_` in 1/160 of a sample |
| `accumulator` | `pcmAccumulator_.size()` |
| `broken` | the consumed samples passed the end of the vector, which `erase` does not allow |
| `total`, `buffers`, `made`, `frames`, `short` | history: samples and buffers recorded, samples and frames made, whether a buffer was not full |

A sample is only counted, not heard.  In 1/160 of a sample the positions of all
three rates are whole, so that the arithmetic is exact; the code's doubles differ
from it by far less than one such unit.

### `Playback`

`playRemoteFrame`, `pumpRemotePlayback` and the output device's buffers.

| TLA+ | Code |
| --- | --- |
| `remote` | `remoteAudio_`: per peer the jitter queue, the last sequence number, `primed` |
| `pending` | buffers the output device still plays |
| `silent` | peers whose `lastReceived` is two seconds old |
| `sent`, `seq`, `net` | what the peer captured, its engine's sequence number, the frames under way |
| `PlayRemoteFrame` | filter, decoding (which may fail), queueing with loss of the oldest |
| `PumpRemotePlayback` | expiry, priming, the mix of one frame of each peer, which is lost if too many buffers wait at the device |
| `SenderRestarts`, `ReceiverRestarts`, `Pause` | new audio settings at either side; two seconds without a frame |
| `accepted`, `mingled` | history |

The network loses, repeats and reorders.  Time is left out: a mix may come at any
pump, and two seconds may pass at any time (`MaxBreaks`).  `mingled` marks the
peers with frames under way across a restart or a pause; frame numbers then
start again and old and new cannot be told apart by any receiver.

## 6. The user's side

### `Desktop`

The main thread between two messages of Windows: setup window, loop, hotkey,
tray, overlay, settings window, and the .ini file, over several runs.

| TLA+ | Code |
| --- | --- |
| `given` | the audio settings that the environment of this run sets (`TVO_VAD_THRESHOLD`, `TVO_INPUT_GAIN`, `TVO_INPUT_DEVICE`, `TVO_PTT`, `TVO_PTT_KEY`) |
| `settings`, `engine`, `heard`, `saved` | `Application::settings_.audio`, `VoiceEngine::settings_`, the device `waveInOpen` was given, the file |
| `window`, `edit`, `listed`, `capturing` | `AudioSettingsWindow`: its life, its controls, its list of devices, the key prompt |
| `muted`, `engineMuted`, `told` | the session's, the engine's and the room's last mute |
| `parts`, `queued`, `modal`, `requests` | what could be created or registered; `WM_HOTKEY` messages waiting; a menu or drag that runs its own message loop; the flags the loop reads |
| `plugged`, `pluggedAtStart` | the microphones there are, and were when the engine last started |
| `Iterate` | a turn of the loop in `run` after `poll`: the settings request and the status broadcast; `Quit` is its end |
| `kept`, `touched` | history: the settings last written to the file; the controls used since the window was filled |

`SaveAudioSettings` writes the file, or cannot open it and leaves it, or opens and
truncates it and can write nothing; nobody is told which.  The conversions are
modelled by what they do: thresholds and gains are integers (in 1/10000 and
1/1000) and round as `sensitivityFromThreshold` and `volumeFromGain` do, the
loader trims the device's name, a variable of the environment comes before the
file, an unknown device becomes the default one.  `Environments` are any settings
for any of the fields, with thresholds and gains beyond the sliders' ends or
between two of their positions; a file that somebody has edited is not modelled
beyond that.  Drawing, fonts and window positions are left out.

## 7. Where a client can be reached

### `Discovery`

`DirectVoiceTransport::start`, which blocks the main thread.

| TLA+ | Code |
| --- | --- |
| `phase` | where `start` is: between servers, in `select`, at the web services, done |
| `port`, `candidates` | the bound port; `localCandidates` |
| `server`, `attempt`, `draws`, `service` | the loops of `start`, of `queryStunMappedEndpoint` and of `queryPublicIPv4ViaHttps`; the transaction ids drawn from `rand` |
| `mapped` | how the NAT maps the socket towards each server (environment) |
| `net`, `buffer` | answers under way; the socket's buffer, which strays share |
| `credit`, `spent`, `stale` | history: what each server was found to say; what its attempts went on; an earlier run's answer was read |

Nothing seeds `rand`, so ids are numbers in the order of drawing and an answer
left from an earlier run can carry the id of this one (`Stray`).  An address is
its first two octets, which is all that `isPublicIPv4Address` tests.  The host's
own addresses come in any order, each once, and of a page's tokens the first
public one counts.  Ports are 1 to 65535; 0 is a socket that is not bound.

## 8. The runs

| Run | Instance | What it shows |
| --- | --- | --- |
| `hub_rooms` | 3 clients, 2 rooms of at most 2, channels of 1, 3 messages (moves, ICE and status), at most one failed connection while a room is open (`OneFailure`) | `TypeOK`, `PeersPointBack`, `RoomKnowsItsClients`, `RoomsAreSound`, `RelaysStayInTheRoom`, `HostMovesToLeast`, `ImplementsService` |
| `hub_views` | 2 clients, 2 rooms, channels of 3, 4 moves, cut once every client has lost something (`SomebodyLostNothing`: the properties are then vacuous for good) | `MembershipAddsUp`, `ListIsCurrent` |
| `hub_live` | 2 clients, 1 room, channels of 3, 3 messages of every type but `leave_room` | `DeadPeerIsNoticed`, `HelloIsAnswered` |
| `hub_orphan` | 2 clients | a violation: `JoinedRoomIsListed` (section 10) |
| `call_safety` | 2 clients, both ways open, one talks 2 frames (`OneTalks`), the other sends statuses, 1 resend per route, 1 dropped event | `TypeOK`, `RoutesFollowTheSession`, `SignalsAreFromPeers`, `EachFrameOnce` |
| `call_live` | 2 clients, of which only the one with the larger id can reach the other unasked; 1 resend, 1 dropped event, no frames | `PeersConnect` |
| `squad` | 2 rooms of others, which change at most twice (`MaxLists`) | `TypeOK`, `OneRoom`, `ClientKnowsItsRoom`, `LanIsOffline`, `StartupEnds` |
| `voice_send` | 2 device buffers, 3 pre-speech frames, 1 pump of hangover and of key tail, 6 frames, 3 mutes, unmutes and restarts; beside it 3 rates and 6 buffers, each full or short by 1, 2 or 317 samples | `TypeOK`, `EachFrameOnce`, `SpeechIsWhole`, `NothingIsLost`, `FullBuffersAreFrames` |
| `mute_doc` | 2 device buffers, 3 frames, 3 mutes, unmutes and restarts | a violation: `MutedIsNotSent` (section 10) |
| `voice_receive` | 1 sender of 3 frames, a jitter queue of 2 that is primed by 2, 1 playback buffer, 2 restarts or pauses | `TypeOK`, `PlayedInOrder`, `QueueIsTheLatest`, `SilentIsForgotten`, `QueueDrains` |
| `desktop` | 2 runs of the program, 3 environments, 2 keys, 2 microphones (the name of one is cut after a space), 1 position of each slider, 2 hotkey presses, 2 menus or drags, 1 edit in each run, 1 device change | `TypeOK`, `CopiesAgree`, `KeptSettings`, `SaveOnlyEdits`, `ExitIsHeard` |
| `discovery` | 2 servers, 2 mappings, 2 kinds of page, 1 stray datagram | `TypeOK`, `OwnAnswers`, `GivesUpLate`, `StartReturns` |

The bounds of the hub.  Three clients and a room of two reach a full room, a refused join
and a guest's promotion; two rooms reach a move from one to the other and a
relay racing it.  A channel of one overflows whenever two posts of a handler
meet a writer that is not running; a channel of three lets everything through
or drops the last post.  `MaxServed` bounds the messages the clients send; three
suffice for create, join and a relay or a leave, and connections fail at any
time besides.  `MaxPeers` is 2 instead of 5 and `QueueCap` 1 or 3 instead of
64; `hub_rooms`' properties are proved for every value (section 9).

Every connection ends in `gone` in the model once the bound is used up; the
action `AllGone` stutters there, so that deadlock is checked everywhere else.

The bounds of the call.  Routes, filters and sequence numbers are kept per
ordered pair, so that two clients and one talker have a full set of them; the
one that listens sends pings and signals like the other.  Two frames are enough
to be swapped, repeated, sent both directly and through the relay, and to find
a forgotten filter.  One resend instead of eight is enough because what
matters to `PeersConnect` is that the signals sent on a route (an offer or an
answer, then the resends) outnumber those dropped: `MaxDrops` must not exceed
`MaxResends`, and one of each is the tightest case.  One drop also shows all that
a dropped arrival leads to: a status, a signal or a packet of a peer the client
was not told of, and its departure.  `call_live` opens only the direction in which the side that makes the
offer cannot be the first to get a packet through.

The bounds of the start.  Two rooms let a join be refused, or answered late,
while another is tried; two changes let a room be full in the list and open when
asked for, and the other way round.  One connection is enough: `run` connects
once.

The bounds of the engine.  Two device buffers are the fewest of which a stall can
leave two finished in the wrong order, and six frames go round the ring three
times, past the pre-speech buffer of three.  One pump of hangover and tail
reaches counting down and being refilled.  In `voice_receive` a queue as long as
its jitter target is full as soon as it is primed, and drops; three frames reach
loss, repetition and reordering around it.  One sender is enough because queues
of several peers meet only in the mix, which takes from each alike
(`PlaybackProofs` has any number).

The resampler is checked in the run of `VoiceCapture` (`MCVoiceCapture`); the two
share no state, and in a behaviour only one of them moves (`OneOfThem`).  Buffers
short by 1, 2 and 317 samples leave every remainder modulo 3 (the step at
48000 Hz) and change the phase at 44100 Hz (a step of 441/160); six buffers carry
the position over several of them, and reach the short buffer after which the
erase passes the end.

The bounds of the desktop.  Two runs of the program show a file read back, in an
environment that may differ.  An edit may be saved, cancelled, overwritten by a
window that is shown again, or of a microphone that is gone; two presses of the
hotkey may be taken or lost each; one change of devices is a microphone that goes
or comes.  The environments have push-to-talk (so that a key may be captured as
the only edit), a threshold beyond the slider's end and a gain between two
positions.  Two servers and one
stray in `discovery` are enough for a late answer of the first to meet the query
of the second, and for a stray to meet either.

`CHECK_DEADLOCK FALSE` is said of `squad` (a client that has left or aborted does
nothing), `voice_receive` (all frames are sent and played), `desktop` and
`discovery` (the program has ended).

Fairness (`HubViews!Fairness`).  The step of a goroutine that holds the lock is
weakly fair (`Deliver`): it does not block.  A writer with a live socket is
weakly fair.  `RemoveClient` and the second half of `hello` are *strongly* fair:
they wait for `h.mu`, and Go's mutex hands the lock to a waiter that has starved
for a millisecond, so a waiter is not passed over for ever.  Nothing is assumed
of the clients: they need not send, and sockets need not fail.

Fairness (`VoiceCall!Fairness`).  The main loop runs every 10 ms: handling a
pending event, pinging a route and sending candidates again while some are left
are weakly fair, and so is the start of the transport.  The coordinator removes a
connection that failed.  The network may lose any packet, but not all of those
that are sent again and again: receiving from a given peer is strongly fair.
Talking, closing, forgetting and losing a connection are nobody's duty.

Fairness of the others.  `Squad`: both threads run (`WF` of `MainThread` and
`ReceiverThread`), and every wait has a timeout; nothing is asked of network and
coordinator.  `Playback`: the main loop pumps every 10 ms
(`WF` of `PumpRemotePlayback`); nothing is asked of senders, network or device.
`Desktop`: the thread runs its loop, and the user closes a menu and lets go of a
window (`Iterate`, `Quit`, `EndModal`); without the last, `ExitIsHeard` fails,
since the loop waits for the menu.  `Discovery`: `start` runs on, because `select`
and the HTTP requests have timeouts.  `VoiceCapture` and `Resampler` have safety properties only.

## 9. The proofs

### The hub

`HubProofs` proves, for every finite set of clients, any rooms, any `MaxPeers >= 1`, `QueueCap >= 1` and any bound on the messages:

| Theorem | States |
| --- | --- |
| `TypeCorrect` | `Spec => []TypeOK` |
| `TableInvariant` | `Spec => [](TypeOK /\ TableInv)` |
| `TablesAgree` | `Spec => [](PeersPointBack /\ RoomKnowsItsClients)` |
| `ClientsAreListed` | `Spec => []RoomKnowsItsClients` |
| `HostOrder` | `Spec => HostMovesToLeast` |
| `Soundness` | `Spec => []RoomsAreSound` |
| `Confinement` | `Spec => []RelaysStayInTheRoom` |
| `Refinement` | `Spec => ImplementsService` |
| `ViewsFollowTheHub` | `ViewSpec => Spec` |
| `Membership` | `ViewSpec => []MembershipAddsUp` |
| `Lists` | `ViewSpec => []ListIsCurrent` |

The argument.  `TableInv` is the inductive invariant.  Neither direction of the
agreement between `Room.Peers` and `Client.roomID` is inductive alone: a leave
that finds the client's room but not the client in it would delete nobody, and a
join puts a peer into a room that only the other direction shows to be one of
connected clients.  Two facts complete it: a room in the table has a drawn id
(`IdsAreDrawn`; otherwise `create_room` could overwrite one), and a client that
has not connected yet is in no room (`StrangersAreNowhere`).  Every handler acts
on the table through leaving (`Left`), so the proof has one lemma that leaving
keeps the invariant for those who stay (`LeftIsSound`), one lemma for each of
the three handlers that do more, and one step for the rest.

`Confinement` needs no invariant over the channels: a relay is posted with its
sender's room and its receivers drawn from the tables, and while a post is
pending nobody else has the lock, so the tables stand still.

`HostOrder` is about steps.  Only leaving changes a host, and `Left` chooses the
smallest id among those who stay; that they are sent `peer_left` first follows
from the posts of the same step, given that host and peers are as `TableInv` says.

`Refinement` maps each handler to one move of `RoomService`: the invariant is
what makes the mapping's guards true (a client that opens a room is nowhere or
leaves; a room that is entered has a place).

`Membership` and `Lists` are about what is under way.  Envelopes written to a
socket, queued in a channel and posted by the handler that holds the lock are one
sequence, which a client reads from left to right.  A writer moves the border
between the first two parts and a delivery that between the others, so neither
changes what the client will know; only a handler's posts do, and they are read
last (`ReadFirst` and `ReadLast` say that reading may be split at either end).
What is left is one lemma per handler: what it posts to a client changes the
client's view as it changes the table, or, for a list, posts the table
itself.  The hard case is a farewell: the one who leaves is told nothing of it and
starts its next room with a snapshot, and the others delete it.
`ViewInv` adds to the two properties that a client that has yet to connect has
been sent nothing and is posted nothing (`StrangersHearNothing`: its view starts
from nothing when it does), and that a reader in the middle of a `hello` still
has its client registered (`GreetersAreHere`).  It also needs `TableInv`: that
the peers in the table are the registered clients with that `roomID`.
`AfterReading` is a function defined by recursion over the sequence; `Induction`
says that such a function exists and is what its definition says.

The assumptions are those of `Hub`: clients are finitely many numbers, `NoRoom`
is no room, the capacities are positive.

### The call

`VoiceCallProofs` proves, for any finite set of clients, any `Opens` and any
limits:

| Theorem | States |
| --- | --- |
| `TypeCorrect` | `Spec => []TypeOK` |
| `CallInvariant` | `Spec => [](TypeOK /\ CallInv)` |
| `Routes` | `Spec => []RoutesFollowTheSession` |
| `Signals` | `Spec => []SignalsAreFromPeers` |

The argument.  Handling a signal of `q` makes a route to `q`, so routes follow the
session only if `q` is in it.  Whether it is depends on what the inbox held
before the signal, and on what was dropped: a client has met (`Met`) the peers of
its session and those it has missed.  `Promises` says that every signal in an
inbox is preceded by the introduction of its sender, unless the client has met it
already, and by no farewell (`Ordered`); that every member is introduced to every
connected member by what is in the inbox, or was met or missed (`Known`), which
is why a new signal may be appended; and that a farewell is about somebody who is
no member and will not come back.  A status makes its sender a peer of the session
and needs no promise: a peer that was missed stays missed until its farewell.
Each of these is stable under appending, handling and losing events, which are
lemmas about one inbox; the coordinator's steps are lemmas over them.  `Phases`
(no routes before the main loop) and `NoSelf` complete the invariant.

and, about the frames,

| Theorem | States |
| --- | --- |
| `PlayedOnce` | `Spec => []EachFrameOnce` |

A frame may come through the relay and directly, past two filters that are
forgotten at different times (the route's with the route, the engine's after two
seconds).  That the played numbers increase says nothing once a filter is empty,
so `VoiceInv` says where frames still are: what is played is in order and bounded
by the filter (`PlayedRight`); packets on the network are newer than all that was
played whenever the route's filter is empty (`PacketRight`); the frames of a
sender in an inbox are in order and before its departure (`FramesInOrder`), and
newer than what was played unless the route is connected, in which case they
will be dropped (`FramesAreNew`).

### The start

`SquadProofs`, for any rooms (finitely many) and any `MaxLists`:

| Theorem | States |
| --- | --- |
| `TypeCorrect` | `Spec => []TypeOK` |
| `NothingLeft` | `Spec => []LanIsOffline` |
| `RoomKnown` | `Spec => []ClientKnowsItsRoom` |
| `OneRoomForAll` | `Spec => []OneRoom` |

`NothingAsked` says that before the first request for a room (`Early`) no such
request or answer is anywhere; `Offline` what `disconnect` and its join of the
thread leave behind, which gives `NothingLeft`.  `CreateIsLast` says that
`create_room` is the last request, and `Known` that the last room answer on its
way, or else `currentRoomId`, is the coordinator's room.  `OneRoom` needs to
know that an answer is the answer to *this* request: `InStep` says that, as long
as no wait has timed out, there is one request for a room or one answer to it
or neither, and which (`JoinUnderWay`, `CreateUnderWay`).

### The engine, the desktop, the discovery

| Module | Theorem | States |
| --- | --- | --- |
| `VoiceCaptureProofs` | `CaptureInvariant` | `Spec => [](TypeOK /\ CaptureInv)` |
| | `TypeCorrect` | `Spec => []TypeOK` |
| | `SentOnce` | `Spec => []EachFrameOnce` |
| | `Whole` | `Spec => SpeechIsWhole` |
| `PlaybackProofs` | `TypeCorrect` | `Spec => []TypeOK` |
| | `Latest` | `Spec => []QueueIsTheLatest` |
| | `InCaptureOrder` | `Spec => []PlayedInOrder` |
| `DesktopProofs` | `TypeCorrect` | `Spec => []TypeOK` |
| | `Copies` | `Spec => []CopiesAgree` |
| | `SavesEdits` | `Spec => SaveOnlyEdits` |
| | `Keeps` | `Spec => []KeptSettings` |
| `DiscoveryProofs` | `TypeCorrect` | `Spec => []TypeOK` |
| | `Answers` | `Spec => []OwnAnswers` |
| | `GivenUp` | `Spec => GivesUpLate` |

`VoiceCaptureProofs`, for any number of device buffers from two on, any limits and
any number of frames, mutes and restarts.  None of its properties is inductive
alone, because a frame passes through three places before it is sent.
`BuffersInv` says where a buffer is: it waits at the driver or it holds a frame,
never both and, while the device records, never neither.  `OrderInv` says that
the frames sent, those kept as pre-speech and those in the buffers follow one
another, which gives `EachFrameOnce`.  For `SpeechIsWhole`,
`WholeInv` says that the pre-speech has no gap and reaches up to the one buffer
that is done, or up to now; that a lone finished buffer is the latest frame needs
the second buffer that `CaptureAssumption` asks for.  What a pump takes from the
buffers is a function defined by recursion over their indices (`ReadyUpTo`).

`PlaybackProofs`, for any peers, limits and numbers of frames and breaks.
`QueuesAreEnds` (a queue is the end of what was accepted) is kept by appending,
by dropping the oldest and by forgetting.  For the order, `InOrder` adds what is
under way: frames of a peer that is not mingled are ordered by their sequence
numbers as by their capture, and those that the filter lets through, or will once
it is forgotten, are later than all that were accepted.

`DesktopProofs`, for any keys, microphones, positions, environments and bounds.
`SaveOnlyEdits` is not inductive by itself: it needs that a control that was not
touched shows what the settings say (`UntouchedIsShown`), and that a threshold or
a gain that goes to its slider and back is clamped and moves by at most half a
position (`ThresholdRoundTrip`, `GainRoundTrip`).  `KeptSettings` needs that the
file, unless it was lost, holds what was last written to it (`FileIsKept`), and
that settings are those of the file with the environment's before them until the
setup window is closed.

`DiscoveryProofs`, for any servers, mappings, pages and strays.  `IdsAreDrawn`
(a datagram of this run has an id that was drawn, and the latest id is the asked
server's) and `NothingEarly` (who was not asked has said nothing) give
`OwnAnswers`; `SpentInv` (an attempt that is over was spent on something) gives
`GivesUpLate`.  For the types, `Counts` says that no more ids are drawn than
servers were asked and that the port is known before it is put into a candidate;
that the host's addresses can be listed at all needs them to be finitely many.

`Induction` has what these proofs need of induction over numbers: a set of
numbers with 0 and the successor of each of its members has them all, and a
function defined by recursion up to a number exists.  The library's theorems say
the same with a predicate as their parameter, which the provers cannot
instantiate; a set serves as well, and they follow from the well-foundedness of
the order on the numbers, which the library has.

The assumptions are the named ones in the modules: capacities and bounds are
natural numbers, special values differ from ordinary ones, addresses are pairs of
octets.  TLC evaluates each in a run.

### Only model-checked

Every invariant and every action property of the passing runs is proved, and so
is the refinement, but for the two invariants of `Resampler`: `NothingIsLost` and
`FullBuffersAreFrames` are about six buffers there.  What else stays with TLC is
liveness, since fairness and `ENABLED`
are beyond the prover: `DeadPeerIsNoticed`, `HelloIsAnswered`, `PeersConnect`,
`StartupEnds`, `SilentIsForgotten`, `QueueDrains`, `ExitIsHeard` and
`StartReturns`.

## 10. What the code does that its documents do not say

- **A room can be joined that no longer exists** (run `hub_orphan`).  `joinRoom`
  looks the room up, then leaves the client's current room.  If both are the
  same room and the client is alone in it, `leaveRoomLocked` deletes it from the
  table; the handler puts the client into the deleted object and confirms with
  `joined_room`.  The client is then in a room nobody can see or join, while
  `docs/signaling-protocol.md:41` promises the public room.  The client program
  never sends such a request in its own startup.
- **Voice is relayed** by the hub's `BroadcastVoiceFrame`.  `docs/signaling-protocol.md:33` and
  `:46-47` say that the coordinator rejects `voice_frame`; it relays it, and
  `render_voice_relay_test.go` expects that.
- **What is said while muted can be heard** (run `mute_doc`).
  `docs/build-and-acceptance.md:12` says that the mute hotkey "updates local
  capture immediately".  A muted engine only stops looking at the device's
  buffers.  What was recorded in the first 80 ms or so after the mute key (one
  frame per device buffer) stays in them however long the mute lasts, and the
  first pump after it sends it, if it transmits.  Nothing is sent while muted.
- `docs/signaling-protocol.md:43` says `room_closed` means that the host left.
  The code promotes another host; `room_closed` is only broadcast to a room that
  has just become empty, so nobody receives it.
- `docs/signaling-protocol.md:31-32` let `mute_status` and `peer_status` name a
  target; the code broadcasts both.
- `docs/build-and-acceptance.md:10` says that room passwords are verified
  locally; nothing verifies one, and the `locked` flag is shown and not tested.

Behaviour of the call that no document speaks of, and that the properties are
stated around:

- A UDP packet that comes after `peer_left` was handled makes the route again, and
  nothing removes it: it is pinged and sent voice for the rest of the session.
  So does a peer that lost its websocket and talks on.  `RoutesFollowTheSession`
  says that this is the only way.
- A full channel drops a `peer_joined` like anything else.  Statuses of the peer
  then make it a peer of the session that has no route: it is shown, and nobody
  pings it until it pings, or signals, first.  A signal of a peer the session does
  not have makes a route all the same, and nothing but its `peer_left` removes it.
  `RoutesFollowTheSession` and `SignalsAreFromPeers` except the peers whose arrival
  was dropped (`missed`), and only those.
  A dropped `peer_left` leaves the peer and its route for the rest of the session.
- A route counts as connected once one packet was heard on it.  A peer that we
  hear and that cannot hear us gets no relayed voice any more.
- When the first direct packet arrives, relayed frames still on their way are
  dropped although their direct copies may never come.

Of the start (`Squad`):

- Replies carry nothing that ties them to a request.  A `joined_room` that comes
  after `joinRoom` has given up is taken for the answer to the next `join_room`,
  so that the session shows one room and the coordinator has another.
  `OneRoom` is stated for starts in which no wait timed out.
- The late *error* of a join that was given up ends the wait of `createRoom`;
  `run` then returns 2 although the coordinator creates the room.  Whenever
  `createRoom` fails, `run` returns with the receiver thread joinable, and its
  destructor terminates the process (`aborted`).

Of the engine (`VoiceCapture`, `Playback`):

- After a stall, several finished buffers are taken by their index, not by their
  age, and frames are sent out of order.
- New audio settings restart the engine and its sequence numbers.  The receiving
  engine's filter recovers after two seconds in which nothing is accepted, but a
  direct route's filter (`DirectVoiceTransport.cpp:1283`) does not: the sender is
  not heard directly until its numbers pass the old ones.
- A frame that comes alone to an empty queue waits for a second one, and while it
  waits the peer is not forgotten.  `SilentIsForgotten` names the exception.
- At 48000 Hz the resampler takes three samples at a time, and takes the last step
  if two are left: after a buffer that is not full, so that the samples so far are
  2 modulo 3, the position is past the end of the vector and so is the `erase`
  (`broken` in `Resampler`).  `FullBuffersAreFrames` says that it takes a short
  buffer to come to that.
- The mixing timer starts again from the time it ran, not from when it was due.

Of the windows (`Desktop`):

- A hotkey pressed while a menu is open or a window is dragged is lost, and the
  whole loop, voice included, waits for the menu.
- The prompt for a push-to-talk key survives hiding the window.
- A saved microphone that is not plugged in is shown as the default one, and the
  next save writes that.  A device name of 31 characters that ends in a space is
  trimmed on loading and then names no device.
- A threshold or a gain between two positions of its slider is rounded by a save
  (0.0300 becomes 0.0298), and one beyond the slider's ends is clamped, whatever
  was edited.  The choices of the setup window are not saved.
- A save that cannot open the file says nothing: the settings are applied and are
  gone with the next start.  Saving truncates the file and then writes it, so that
  a kill or a full disk in between leaves an empty one.
- What the environment sets is shown in the settings window like any other value
  and written by the next save, and so outlives the variable.
- The results of `overlay_.create` and `tray_.create` are not looked at.

Of the discovery (`Discovery`):

- One datagram is read per attempt, so that one stray is forgiven and two lose a
  server.  A server slower than 700 ms is given up, and its late answer then
  costs the next one an attempt.
- `rand` is not seeded: every run of the program draws the same transaction ids.
- The first token of a page that looks like a public address is taken; the
  loopback address is a candidate like any other.

## 11. Not modelled

- **Codecs.**  Opus is a DLL; ADPCM and PCM are functions of the samples with no
  state between frames.  A model would be the arithmetic again.  That a frame may
  not decode is in `Playback`.
- **Samples**: gain, levels, spectrum, the sum of the mix; with an output device
  that does not open, nothing is ever played, and `Playback` takes it to open.
- **Text**: JSON, urls, the command line, the bytes of packets and STUN messages.
  Messages are records of the fields that are tested.
- **The lifetime of WinHTTP handles**: `disconnect` closes the handle that the
  receiver thread is using; what happens is Windows' to say.
- **Drawing**, layout, fonts, positions of windows, the level meter.
- **Speaking states**, icons and last-seen times of the session: they feed the
  overlay only.
- **LAN discovery** is a stub that sends nothing; the **password gate** is a hash
  that nothing tests.
- Smoke-test switches, logs, build, release and test scripts.
