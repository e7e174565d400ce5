------------------------------ MODULE Desktop ------------------------------
(***************************************************************************)
(* The main thread of the Windows client as its user meets it: the setup   *)
(* window, the overlay, the tray icon, the global mute hotkey, the audio   *)
(* settings window, and the loop of Application::run that serves them and  *)
(* the voice engine (client/src/platform/, client/src/core/                *)
(* Application.cpp).                                                       *)
(*                                                                         *)
(* One thread does everything, so what interleaves is the order in which   *)
(* Windows hands it messages.  A menu or a window that is dragged runs a   *)
(* message loop of its own inside HotkeyManager::poll, and the loop of run *)
(* waits for it.  Mute is kept three times (the session's peer, the voice  *)
(* engine, what the room was last told), the audio settings four times     *)
(* (the application, the engine, the settings window's controls, the .ini  *)
(* file); the properties are about how these stay together.                *)
(*                                                                         *)
(* Connecting and the room are in Squad: here run goes straight from the   *)
(* setup window to the loop.  room_closed, which would reset the session's *)
(* mute alone, reaches no client (Hub, Goodbye).                           *)
(***************************************************************************)
EXTENDS Integers, FiniteSets

CONSTANTS
    Keys,           \* virtual key codes
    Mics,           \* names of wave input devices
    Padded,         \* those Windows cuts (31 characters) right after a space
    Default,        \* the empty device name: the system's default microphone
    Gone,           \* a name that is no device's
    DefaultKey,     \* Types.h: 0x56
    Environments,   \* what TVO_* variables a run may find: settings by field
    Positions,      \* positions of the sensitivity slider the user tries
    Volumes,        \* positions of the volume slider the user tries
    MaxPresses,     \* bound: presses of the mute hotkey
    MaxAsks,        \* bound: menus, drags and double clicks
    MaxEdits,       \* bound: changes of a control
    MaxPlugs,       \* bound: microphones plugged in or pulled out
    MaxRuns         \* bound: runs of the program

Names == Mics \cup {Default, Gone}

ASSUME DesktopAssumption ==
    /\ Padded \subseteq Mics /\ Default \notin Mics /\ Gone \notin Mics /\ Default # Gone
    /\ DefaultKey \in Keys /\ Positions \subseteq 0..100 /\ Volumes \subseteq 0..200
    /\ \A e \in Environments :         \* push-to-talk can only be switched on
          /\ "pushToTalk" \in DOMAIN e => e["pushToTalk"] = TRUE
          /\ "key" \in DOMAIN e => e["key"] \in Keys
          /\ "mic" \in DOMAIN e => e["mic"] \in Names
          /\ "threshold" \in DOMAIN e => e["threshold"] \in Int
          /\ "gain" \in DOMAIN e => e["gain"] \in Int
    /\ {MaxPresses, MaxAsks, MaxEdits, MaxPlugs} \subseteq Nat /\ MaxRuns \in Nat \ {0}

VARIABLES
    phase,          \* setup (showModal) | on (the loop) | closed
    given,          \* the environment of this run
    settings,       \* Application::settings_.audio
    engine,         \* VoiceEngine::settings_
    heard,          \* the microphone that waveIn opened, or no microphone
    saved,          \* tvo_client_settings.ini, or empty
    kept,           \* the settings last written to the file (history)
    window,         \* the settings window: none | hidden | shown
    edit, listed,   \* the controls of the open window; its list of devices
    capturing,      \* capturingPushToTalkKey_
    touched,        \* controls used since the window was filled (history)
    muted,          \* session_.localPeer().muted
    engineMuted,    \* VoiceEngine::metrics_.muted
    told,           \* the mute of the last broadcastStatus
    parts,          \* what could be created: overlay, tray, hotkey
    queued,         \* WM_HOTKEY messages in the thread's queue
    modal,          \* none | menu | drag: a message loop inside poll
    requests,       \* settingsRequested_, exitRequested_, closeRequested_
    plugged,        \* microphones present
    pluggedAtStart, \* ... when the engine was last started (history)
    presses, asks, edits, plugs, runs

settingsVars == <<given, settings, engine, heard, saved, kept, pluggedAtStart>>
windowVars == <<window, edit, listed, capturing, touched>>
muteVars == <<muted, engineMuted, told>>
loopVars == <<phase, parts, queued, modal, requests>>
counters == <<presses, asks, edits, plugs, runs>>
vars == <<settingsVars, windowVars, muteVars, loopVars, plugged, counters>>

Settings == [pushToTalk : BOOLEAN, key : Keys, mic : Names, threshold : Int, gain : Int]
Controls == [pushToTalk : BOOLEAN, key : Keys, mic : Mics \cup {Default}, slider : 0..100,
             volume : 0..200]
Nothing == [empty |-> TRUE]             \* the file, missing or truncated
Defaults == [pushToTalk |-> FALSE, key |-> DefaultKey, mic |-> Default, threshold |-> 300,
             gain |-> 1000]

TypeOK ==
    /\ phase \in {"setup", "on", "closed"}
    /\ given \in Environments
    /\ settings \in Settings /\ engine \in Settings /\ kept \in Settings
    /\ saved \in Settings \cup {Nothing}
    /\ heard \in Mics \cup {Default}
    /\ window \in {"none", "hidden", "shown"}
    /\ edit \in Controls /\ listed \subseteq Mics
    /\ capturing \in BOOLEAN /\ touched \subseteq {"pushToTalk", "key", "mic", "slider", "volume"}
    /\ muted \in BOOLEAN /\ engineMuted \in BOOLEAN /\ told \in BOOLEAN
    /\ parts \subseteq {"overlay", "tray", "hotkey"}
    /\ queued \in 0..MaxPresses /\ modal \in {"none", "menu", "drag"}
    /\ requests \subseteq {"settings", "exit", "close"}
    /\ plugged \subseteq Mics /\ pluggedAtStart \subseteq Mics
    /\ presses \in 0..MaxPresses /\ asks \in 0..MaxAsks /\ edits \in 0..MaxEdits
    /\ plugs \in 0..MaxPlugs /\ runs \in 0..MaxRuns
----------------------------------------------------------------------------
(* Conversions, thresholds in units of 0.0001 and gains of 0.001. *)

Clamp(n, low, high) == IF n < low THEN low ELSE IF n > high THEN high ELSE n
SensitivityFromThreshold(t) == Clamp((2 * (850 - t) + 8) \div 16, 0, 100)
ThresholdFromSensitivity(s) == Clamp(850 - 8 * s, 50, 850)
VolumeFromGain(g) == Clamp((g + 5) \div 10, 0, 200)
GainFromVolume(v) == Clamp(10 * v, 0, 2000)

\* waveInDeviceIdForName: WAVE_MAPPER for a name that no device has.
DeviceIdForName(name, present) == IF name \in present THEN name ELSE Default

\* Mutant: the device's name is not read back.
LoadSavedNoMic(file) == IF file = Nothing THEN Defaults ELSE [file EXCEPT !.mic = Default]

\* What loadSavedAudioSettings makes of the file: it trims the device's name.
LoadSaved(file) ==
    IF file = Nothing THEN Defaults
    ELSE [file EXCEPT !.mic = IF @ \in Padded THEN Gone ELSE @]

\* What run makes of them: the variables of the environment come before the file.
Overridden(e, s) ==
    LET Setting(f) == IF f \in DOMAIN e THEN e[f] ELSE s[f]
    IN  [pushToTalk |-> Setting("pushToTalk"), key |-> Setting("key"), mic |-> Setting("mic"),
         threshold |-> Setting("threshold"), gain |-> Setting("gain")]

\* Mutant: a device that is not there stays selected.
ShownAsSaved(s) ==
    [pushToTalk |-> s.pushToTalk, key |-> s.key, mic |-> s.mic,
     slider |-> SensitivityFromThreshold(s.threshold), volume |-> VolumeFromGain(s.gain)]

\* The controls that loadSettings fills from settings s: the first entry of the
\* list, the default microphone, if the device is not among those present.
Shown(s) ==
    [pushToTalk |-> s.pushToTalk, key |-> s.key,
     mic |-> DeviceIdForName(s.mic, plugged),
     slider |-> SensitivityFromThreshold(s.threshold), volume |-> VolumeFromGain(s.gain)]

\* The settings the controls stand for.
Chosen ==
    [pushToTalk |-> edit.pushToTalk, key |-> edit.key, mic |-> edit.mic,
     threshold |-> ThresholdFromSensitivity(edit.slider), gain |-> GainFromVolume(edit.volume)]

\* VoiceEngine::setSettings and start: the engine starts unmuted.
StartEngine(s) ==
    /\ engine' = s
    /\ heard' = DeviceIdForName(s.mic, plugged)
    /\ pluggedAtStart' = plugged
    /\ engineMuted' = FALSE
----------------------------------------------------------------------------
(* The program starts and ends. *)

Init ==
    /\ phase = "setup" /\ runs = 1
    /\ given \in Environments
    /\ saved = Nothing /\ settings = Overridden(given, LoadSaved(saved))
    /\ kept = Defaults /\ engine = Defaults
    /\ heard = Default /\ plugged = Mics /\ pluggedAtStart = Mics
    /\ window = "none" /\ edit = Shown(settings) /\ listed = {}
    /\ capturing = FALSE /\ touched = {}
    /\ muted = FALSE /\ engineMuted = FALSE /\ told = FALSE
    /\ parts = {} /\ queued = 0 /\ modal = "none" /\ requests = {}
    /\ presses = 0 /\ asks = 0 /\ edits = 0 /\ plugs = 0

\* From the setup window's result to the loop.  What could not be created is
\* not tried again.
EnterLoop(s) ==
    /\ phase = "setup"
    /\ phase' = "on"
    /\ settings' = s
    /\ StartEngine(s)
    /\ muted' = FALSE /\ told' = FALSE
    /\ parts' \in SUBSET {"overlay", "tray", "hotkey"}
    /\ window' = "none" /\ capturing' = FALSE /\ touched' = {}
    /\ UNCHANGED <<given, saved, kept, edit, listed, queued, modal, requests, plugged, counters>>

\* The Start button: it copies all but the microphone, and saves nothing.
SetupAccept == EnterLoop([Chosen EXCEPT !.mic = settings.mic])

\* The setup window cannot be created: accepted as it is (or TVO_SKIP_SETUP).
SetupSkipped == edits = 0 /\ EnterLoop(settings)

Ends ==
    /\ phase' = "closed" /\ window' = "none" /\ modal' = "none" /\ queued' = 0
    /\ requests' = {} /\ parts' = {} /\ capturing' = FALSE /\ touched' = {}
    /\ UNCHANGED <<given, settings, engine, heard, pluggedAtStart, edit, listed, muteVars,
                   plugged, counters>>

SetupClose == phase = "setup" /\ Ends /\ UNCHANGED <<saved, kept>>

\* Mutant: the loop asks the tray only.
QuitFromTray ==
    /\ phase = "on" /\ modal = "none"
    /\ "exit" \in requests
    /\ Ends
    /\ UNCHANGED <<saved, kept>>

\* The loop's condition, then close, destroy, stop and unregisterAll.
Quit ==
    /\ phase = "on" /\ modal = "none"
    /\ requests \cap {"exit", "close"} # {}
    /\ Ends
    /\ UNCHANGED <<saved, kept>>

\* The process is killed; saveAudioSettings has truncated the file and not yet
\* written it, or is not at work.
Kill ==
    /\ phase = "on" /\ Ends /\ UNCHANGED kept
    /\ \/ UNCHANGED saved
       \/ window = "shown" /\ modal = "none" /\ saved' = Nothing

Run ==
    /\ phase = "closed" /\ runs < MaxRuns
    /\ runs' = runs + 1 /\ phase' = "setup"
    /\ given' \in Environments
    /\ settings' = Overridden(given', LoadSaved(saved)) /\ edit' = Shown(settings')
    /\ edits' = 0
    /\ UNCHANGED <<engine, heard, pluggedAtStart, saved, kept, window, listed, capturing, touched,
                   muteVars, parts, queued, modal, requests, plugged, presses, asks, plugs>>
----------------------------------------------------------------------------
(* The controls of the setup window and of the settings window. *)

Open == phase = "setup" \/ (window = "shown" /\ modal = "none")

Changes(f, v) ==
    /\ Open /\ edits < MaxEdits
    /\ edits' = edits + 1
    /\ edit' = [edit EXCEPT ![f] = v]
    /\ touched' = touched \cup {f}
    /\ UNCHANGED <<settingsVars, window, listed, muteVars, loopVars, plugged,
                   presses, asks, plugs, runs>>

ChangeControl ==
    /\ \/ \E b \in BOOLEAN \ {edit.pushToTalk} : Changes("pushToTalk", b)
       \/ \E s \in Positions : Changes("slider", s)
       \/ \E v \in Volumes : Changes("volume", v)
       \/ phase = "on" /\ \E m \in (listed \cup {Default}) \ {edit.mic} : Changes("mic", m)
    /\ UNCHANGED capturing

\* The key button asks for a key; the settings window enables it only with
\* push-to-talk.
KeyButton ==
    /\ Open /\ ~capturing
    /\ phase = "on" => edit.pushToTalk
    /\ capturing' = TRUE
    /\ UNCHANGED <<settingsVars, window, edit, listed, touched, muteVars, loopVars, plugged,
                   counters>>

\* capturePushToTalkKey: also long after the button, in a window hidden and
\* shown again meanwhile.
CapturePushToTalkKey(k) == capturing /\ capturing' = FALSE /\ Changes("key", k)

\* Cancel and WM_CLOSE of the settings window.
HideSettings ==
    /\ phase = "on" /\ Open
    /\ window' = "hidden"
    /\ UNCHANGED <<settingsVars, edit, listed, capturing, touched, muteVars, loopVars, plugged,
                   counters>>

\* saveAudioSettings tells nobody when the file cannot be opened, and stays as it
\* was, or when nothing can be written to it, and it is empty.
SaveAudioSettings(s) ==
    \/ saved' = s /\ kept' = s
    \/ saved' \in {saved, Nothing} /\ UNCHANGED kept

\* Mutant: the engine is not muted again.
ApplyUnmuted(s) ==
    /\ settings' = s /\ SaveAudioSettings(s)
    /\ StartEngine(s)
    /\ told' = muted
    /\ UNCHANGED <<given, muted>>

\* Application::applyAudioSettings, the engine running.
ApplyAudioSettings(s) ==
    /\ settings' = s /\ SaveAudioSettings(s)
    /\ engine' = s
    /\ heard' = DeviceIdForName(s.mic, plugged)
    /\ pluggedAtStart' = plugged
    /\ engineMuted' = muted
    /\ told' = muted
    /\ UNCHANGED <<given, muted>>

\* applyAndHide.
Save ==
    /\ phase = "on" /\ Open
    /\ ApplyAudioSettings(Chosen)
    /\ window' = "hidden"
    /\ UNCHANGED <<edit, listed, capturing, touched, loopVars, plugged, counters>>
----------------------------------------------------------------------------
(* Messages and the loop. *)

\* Windows posts WM_HOTKEY to the thread.
PressHotkey ==
    /\ phase = "on" /\ "hotkey" \in parts /\ presses < MaxPresses
    /\ presses' = presses + 1 /\ queued' = queued + 1
    /\ UNCHANGED <<settingsVars, windowVars, muteVars, phase, parts, modal, requests, plugged,
                   asks, edits, plugs, runs>>

\* poll takes it and runs the callback.
ToggleMute ==
    /\ queued > 0 /\ modal = "none"
    /\ queued' = queued - 1
    /\ muted' = ~muted /\ engineMuted' = muted' /\ told' = muted'
    /\ UNCHANGED <<settingsVars, windowVars, phase, parts, modal, requests, plugged, counters>>

\* A loop that is not poll's dispatches it: it has no window, so nobody hears it.
LoseHotkey ==
    /\ queued > 0 /\ modal # "none"
    /\ queued' = queued - 1
    /\ UNCHANGED <<settingsVars, windowVars, muteVars, phase, parts, modal, requests, plugged,
                   counters>>

\* showTrayMenu; the title bar of the settings window.
BeginModal(m) ==
    /\ phase = "on" /\ modal = "none" /\ asks < MaxAsks
    /\ m = "menu" => "tray" \in parts
    /\ m = "drag" => window = "shown"
    /\ modal' = m /\ asks' = asks + 1
    /\ UNCHANGED <<settingsVars, windowVars, muteVars, phase, parts, queued, requests, plugged,
                   presses, edits, plugs, runs>>

\* The menu goes, with an entry chosen (WM_COMMAND) or not; the drag ends.
EndModal ==
    /\ modal # "none" /\ modal' = "none"
    /\ \/ UNCHANGED requests
       \/ modal = "menu" /\ \E r \in {"settings", "exit"} : requests' = requests \cup {r}
    /\ UNCHANGED <<settingsVars, windowVars, muteVars, phase, parts, queued, plugged, counters>>

\* The double click on the icon; the overlay's close button.
Click(r) ==
    /\ phase = "on" /\ modal = "none" /\ asks < MaxAsks
    /\ \/ r = "settings" /\ "tray" \in parts
       \/ r = "close" /\ "overlay" \in parts
    /\ requests' = requests \cup {r} /\ asks' = asks + 1
    /\ UNCHANGED <<settingsVars, windowVars, muteVars, phase, parts, queued, modal, plugged,
                   presses, edits, plugs, runs>>

\* Mutant: the controls are filled when the window is created.
FillOnce ==
    IF window = "none" THEN edit' = Shown(settings) /\ listed' = plugged
    ELSE UNCHANGED <<edit, listed>>

\* loadSettings: every time the window is shown, over what was edited.
Fill == edit' = Shown(settings) /\ listed' = plugged

\* AudioSettingsWindow::show, which may fail to create the window.
ShowSettings ==
    \/ window = "none" /\ UNCHANGED windowVars
    \/ /\ window' = "shown" /\ touched' = {}
       /\ Fill
       /\ UNCHANGED capturing

\* The loop after poll: the settings request; pump's metrics, every 150 ms at most.
Iterate ==
    /\ phase = "on" /\ modal = "none"
    /\ requests \cap {"exit", "close"} = {}
    /\ requests' = {}
    /\ \/ "settings" \in requests /\ ShowSettings
       \/ "settings" \notin requests /\ UNCHANGED windowVars
    /\ told' \in {told, muted}
    /\ UNCHANGED <<settingsVars, muted, engineMuted, phase, parts, queued, modal, plugged,
                   counters>>

\* A microphone is plugged in or pulled out.
Plug ==
    /\ plugs < MaxPlugs /\ plugs' = plugs + 1
    /\ \E m \in Mics : plugged' = IF m \in plugged THEN plugged \ {m} ELSE plugged \cup {m}
    /\ UNCHANGED <<settingsVars, windowVars, muteVars, loopVars, presses, asks, edits, runs>>

Next ==
    \/ SetupAccept \/ SetupSkipped \/ SetupClose \/ Quit \/ Kill \/ Run
    \/ ChangeControl \/ KeyButton \/ \E k \in Keys : CapturePushToTalkKey(k)
    \/ HideSettings \/ Save
    \/ PressHotkey \/ ToggleMute \/ LoseHotkey
    \/ \E m \in {"menu", "drag"} : BeginModal(m)
    \/ EndModal \/ \E r \in {"settings", "close"} : Click(r)
    \/ Iterate \/ Plug

\* The thread runs its loop; the user closes the menu and lets go of the window.
Fairness == WF_vars(Iterate) /\ WF_vars(Quit) /\ WF_vars(EndModal)

Spec == Init /\ [][Next]_vars /\ Fairness
----------------------------------------------------------------------------
(* Properties. *)

\* What is kept several times agrees whenever the loop is between two messages,
\* through restarts of the engine (start forgets the mute): the three mutes, so
\* that nobody is heard who has muted, or is shown as muted and is heard; the
\* application's settings and the engine's, and the microphone they name is the
\* one that is open, or the default one if it was not there when the engine
\* started.
CopiesAgree ==
    phase = "on" =>
        /\ engineMuted = muted /\ told = muted
        /\ engine = settings
        /\ heard = DeviceIdForName(settings.mic, pluggedAtStart)

\* In the loop settings change by Save alone, and Save changes what the user has
\* changed since the window was last shown, and nothing else: cancelled edits, and
\* those in a window that is shown again while it is open, are gone.  Three things
\* change untouched: a threshold and a gain that are beyond the slider's ends or
\* between two of its positions, and the microphone that is not plugged in.
SaveOnlyEdits ==
    [][phase = "on" /\ phase' = "on" =>
          /\ "pushToTalk" \notin touched => settings'.pushToTalk = settings.pushToTalk
          /\ "key" \notin touched => settings'.key = settings.key
          /\ "mic" \notin touched => settings'.mic \in {settings.mic, Default}
          /\ "mic" \notin touched /\ settings.mic \in listed => settings'.mic = settings.mic
          /\ "slider" \notin touched =>
                \/ UNCHANGED settings
                \/ settings'.threshold - Clamp(settings.threshold, 50, 850) \in -4..4
          /\ "volume" \notin touched =>
                \/ UNCHANGED settings
                \/ settings'.gain - Clamp(settings.gain, 0, 2000) \in -4..5]_vars

\* A run starts with the settings of the last save that reached the file, whole and
\* whichever run that was, but for what the environment sets and a padded device
\* name; what a save failed to write, and what was set without a save (in the setup
\* window, by an earlier run's environment), is not among them.  A torn file has
\* none.
KeptSettings ==
    phase = "setup" /\ saved # Nothing =>
        /\ \A f \in DOMAIN kept \ (DOMAIN given \cup {"mic"}) : settings[f] = kept[f]
        /\ "mic" \notin DOMAIN given /\ kept.mic \notin Padded => settings.mic = kept.mic

\* Exit in the menu and the overlay's close button end the program, also while
\* the settings window is open or a menu is up.
ExitIsHeard == requests \cap {"exit", "close"} # {} ~> phase = "closed"
=============================================================================
