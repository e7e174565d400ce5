--------------------------- MODULE DesktopProofs ---------------------------
(***************************************************************************)
(* Theorems about Desktop, for any keys, microphones and bounds: what its  *)
(* variables hold, and that the copies of the mute and of the settings     *)
(* agree.                                                                  *)
(***************************************************************************)
EXTENDS Desktop, TLAPS

\* Hotkey messages that wait were pressed: without it the bound of the queue is
\* not inductive.
QueuedWerePressed == queued <= presses

IInv == TypeOK /\ QueuedWerePressed
----------------------------------------------------------------------------
(* What the helpers return. *)

LEMMA ThresholdType ==
    ASSUME NEW s \in 0..100
    PROVE  ThresholdFromSensitivity(s) \in 50..850
<1>1. 850 - 8 * s \in Int
  OBVIOUS
<1>2. Clamp(850 - 8 * s, 50, 850) \in 50..850
  BY <1>1 DEF Clamp
<1> QED
  BY <1>2 DEF ThresholdFromSensitivity

LEMMA SensitivityType ==
    ASSUME NEW t \in Int
    PROVE  SensitivityFromThreshold(t) \in 0..100
<1>1. (2 * (850 - t) + 8) \div 16 \in Int
  OBVIOUS
<1>2. Clamp((2 * (850 - t) + 8) \div 16, 0, 100) \in 0..100
  BY <1>1 DEF Clamp
<1> QED
  BY <1>2 DEF SensitivityFromThreshold

LEMMA GainType ==
    ASSUME NEW v \in 0..200
    PROVE  GainFromVolume(v) \in Int
BY DEF GainFromVolume, Clamp

LEMMA VolumeType ==
    ASSUME NEW g \in Int
    PROVE  VolumeFromGain(g) \in 0..200
<1>1. (g + 5) \div 10 \in Int
  OBVIOUS
<1>2. Clamp((g + 5) \div 10, 0, 200) \in 0..200
  BY <1>1 DEF Clamp
<1> QED
  BY <1>2 DEF VolumeFromGain

LEMMA DeviceType ==
    ASSUME NEW name, NEW present, present \subseteq Mics
    PROVE  DeviceIdForName(name, present) \in Mics \cup {Default}
BY DEF DeviceIdForName

LEMMA DefaultsType == Defaults \in Settings
BY DesktopAssumption DEF Defaults, Settings, Names

LEMMA NothingIsNoSettings == Nothing \notin Settings
BY DEF Nothing, Settings

LEMMA LoadSavedType ==
    ASSUME NEW file \in Settings \cup {Nothing}
    PROVE  LoadSaved(file) \in Settings
<1>1. CASE file = Nothing
  BY <1>1, DefaultsType DEF LoadSaved
<1>2. CASE file \in Settings
  BY <1>2, NothingIsNoSettings DEF LoadSaved, Settings, Names
<1> QED
  BY <1>1, <1>2

LEMMA OverriddenType ==
    ASSUME NEW e \in Environments, NEW s \in Settings
    PROVE  Overridden(e, s) \in Settings
BY DesktopAssumption DEF Overridden, Settings

LEMMA ShownType ==
    ASSUME plugged \subseteq Mics, NEW s \in Settings
    PROVE  Shown(s) \in Controls
<1>1. /\ SensitivityFromThreshold(s.threshold) \in 0..100
      /\ VolumeFromGain(s.gain) \in 0..200
  BY SensitivityType, VolumeType DEF Settings
<1>2. DeviceIdForName(s.mic, plugged) \in Mics \cup {Default}
  BY DeviceType
<1> QED
  BY <1>1, <1>2 DEF Shown, Controls, Settings

LEMMA ChosenType ==
    ASSUME edit \in Controls
    PROVE  Chosen \in Settings
<1>0. edit.slider \in 0..100 /\ edit.volume \in 0..200
  BY DEF Controls
<1>1. ThresholdFromSensitivity(edit.slider) \in 50..850
  BY <1>0, ThresholdType
<1>2. GainFromVolume(edit.volume) \in Int
  BY <1>0, GainType
<1> QED
  BY <1>1, <1>2 DEF Chosen, Settings, Controls, Names
----------------------------------------------------------------------------
(* The type invariant. *)

LEMMA BoundsType ==
    /\ MaxPresses \in Nat /\ MaxAsks \in Nat /\ MaxEdits \in Nat
    /\ MaxPlugs \in Nat /\ MaxRuns \in Nat /\ 1 <= MaxRuns
BY DesktopAssumption

LEMMA InitType == Init => IInv
<1> SUFFICES ASSUME Init PROVE IInv
  OBVIOUS
<1> USE BoundsType
<1>1. settings \in Settings
  BY LoadSavedType, OverriddenType DEF Init
<1>2. /\ settings \in Settings /\ engine \in Settings /\ kept \in Settings
      /\ saved \in Settings \cup {Nothing} /\ edit \in Controls
  BY <1>1, ShownType, DefaultsType DEF Init
<1>3. /\ queued \in 0..MaxPresses /\ presses \in 0..MaxPresses /\ asks \in 0..MaxAsks
      /\ edits \in 0..MaxEdits /\ plugs \in 0..MaxPlugs /\ runs \in 0..MaxRuns
  BY DEF Init
<1>4. QueuedWerePressed
  BY DEF QueuedWerePressed, Init
<1> QED
  BY <1>2, <1>3, <1>4 DEF IInv, TypeOK, Init

LEMMA StartEngineType ==
    ASSUME TypeOK, NEW s \in Settings, StartEngine(s)
    PROVE  /\ engine' \in Settings /\ heard' \in Mics \cup {Default}
           /\ pluggedAtStart' \subseteq Mics /\ engineMuted' \in BOOLEAN
BY DeviceType DEF StartEngine, TypeOK

LEMMA EnterLoopType ==
    ASSUME IInv, NEW s \in Settings, EnterLoop(s)
    PROVE  IInv'
<1>1. /\ engine' \in Settings /\ heard' \in Mics \cup {Default}
      /\ pluggedAtStart' \subseteq Mics /\ engineMuted' \in BOOLEAN
  BY StartEngineType DEF IInv, EnterLoop
<1> QED
  BY <1>1 DEF IInv, QueuedWerePressed, TypeOK, EnterLoop, counters

LEMMA EndsType ==
    ASSUME IInv, Ends, kept' \in Settings, saved' \in Settings \cup {Nothing}
    PROVE  IInv'
<1>1. UNCHANGED <<given, settings, engine, heard, pluggedAtStart, edit, listed, muted, engineMuted,
                  told, plugged, presses, asks, edits, plugs, runs>>
  BY DEF Ends, counters, muteVars
<1>2. queued' \in 0..MaxPresses /\ QueuedWerePressed'
  BY <1>1, BoundsType DEF IInv, TypeOK, QueuedWerePressed, Ends
<1>3. TypeOK'
  BY <1>1, <1>2 DEF IInv, TypeOK, Ends
<1> QED
  BY <1>2, <1>3 DEF IInv

LEMMA ChangesType ==
    ASSUME IInv, NEW f \in {"pushToTalk", "key", "mic", "slider", "volume"}, NEW v, Changes(f, v),
           [edit EXCEPT ![f] = v] \in Controls, capturing' \in BOOLEAN
    PROVE  IInv'
<1>1. edits < MaxEdits => edits + 1 \in 0..MaxEdits
  BY BoundsType DEF IInv, TypeOK
<1> QED
  BY <1>1 DEF IInv, QueuedWerePressed, TypeOK, Changes, settingsVars, muteVars, loopVars

LEMMA FillType ==
    ASSUME TypeOK, Fill
    PROVE  edit' \in Controls /\ listed' \subseteq Mics
BY ShownType DEF Fill, TypeOK

LEMMA ShowSettingsType ==
    ASSUME TypeOK, ShowSettings
    PROVE  /\ window' \in {"none", "hidden", "shown"} /\ edit' \in Controls
           /\ listed' \subseteq Mics /\ capturing' \in BOOLEAN
           /\ touched' \subseteq {"pushToTalk", "key", "mic", "slider", "volume"}
<1>1. CASE UNCHANGED windowVars
  BY <1>1 DEF TypeOK, windowVars
<1>2. CASE window' = "shown" /\ touched' = {} /\ Fill /\ UNCHANGED capturing
  BY <1>2, FillType DEF TypeOK
<1> QED
  BY <1>1, <1>2 DEF ShowSettings

LEMMA ChangeControlType ==
    ASSUME IInv, ChangeControl
    PROVE  IInv'
<1>0. /\ edit \in Controls /\ listed \subseteq Mics /\ capturing' \in BOOLEAN
      /\ Positions \subseteq 0..100
  BY DesktopAssumption DEF IInv, TypeOK, ChangeControl
<1>1. ASSUME NEW b \in BOOLEAN, Changes("pushToTalk", b)
      PROVE  IInv'
  <2>1. [edit EXCEPT !["pushToTalk"] = b] \in Controls
    BY <1>0 DEF Controls
  <2> QED
    BY <2>1, <1>0, <1>1, ChangesType
<1>2. ASSUME NEW p \in Positions, Changes("slider", p)
      PROVE  IInv'
  <2>1. [edit EXCEPT !["slider"] = p] \in Controls
    BY <1>0 DEF Controls
  <2> QED
    BY <2>1, <1>0, <1>2, ChangesType
<1>3. ASSUME NEW m \in listed \cup {Default}, Changes("mic", m)
      PROVE  IInv'
  <2>1. [edit EXCEPT !["mic"] = m] \in Controls
    BY <1>0 DEF Controls
  <2> QED
    BY <2>1, <1>0, <1>3, ChangesType
<1>4. ASSUME NEW p \in Volumes, Changes("volume", p)
      PROVE  IInv'
  <2>1. [edit EXCEPT !["volume"] = p] \in Controls
    BY <1>0, DesktopAssumption DEF Controls
  <2> QED
    BY <2>1, <1>0, <1>4, ChangesType
<1> QED
  BY <1>1, <1>2, <1>3, <1>4 DEF ChangeControl

LEMMA CapturePushToTalkKeyType ==
    ASSUME IInv, NEW k \in Keys, CapturePushToTalkKey(k)
    PROVE  IInv'
<1>1. [edit EXCEPT !["key"] = k] \in Controls
  BY DEF IInv, TypeOK, Controls
<1> QED
  BY <1>1, ChangesType DEF CapturePushToTalkKey

LEMMA SaveType ==
    ASSUME IInv, Save
    PROVE  IInv'
<1>1. Chosen \in Settings
  BY ChosenType DEF IInv, TypeOK
<1>2. DeviceIdForName(Chosen.mic, plugged) \in Mics \cup {Default}
  BY DeviceType DEF IInv, TypeOK
<1>3. saved' \in Settings \cup {Nothing} /\ kept' \in Settings
  BY <1>1 DEF IInv, TypeOK, Save, ApplyAudioSettings, SaveAudioSettings
<1> HIDE DEF Chosen
<1> QED
  BY <1>1, <1>2, <1>3 DEF IInv, QueuedWerePressed, TypeOK, Save, ApplyAudioSettings, counters,
                          loopVars

LEMMA RunType ==
    ASSUME IInv, Run
    PROVE  IInv'
<1>1. settings' \in Settings
  BY LoadSavedType, OverriddenType DEF IInv, TypeOK, Run
<1>2. edit' \in Controls
  BY <1>1, ShownType DEF IInv, TypeOK, Run
<1>3. runs' \in 0..MaxRuns
  BY BoundsType DEF IInv, TypeOK, Run
<1> QED
  BY <1>1, <1>2, <1>3, BoundsType DEF IInv, QueuedWerePressed, TypeOK, Run, muteVars

LEMMA MessagesType ==
    ASSUME IInv,
           \/ PressHotkey \/ ToggleMute \/ LoseHotkey \/ EndModal
           \/ \E m \in {"menu", "drag"} : BeginModal(m)
           \/ \E r \in {"settings", "close"} : Click(r)
    PROVE  IInv'
<1> USE BoundsType DEF IInv, QueuedWerePressed, TypeOK, settingsVars, windowVars, muteVars
<1>1. CASE PressHotkey
  BY <1>1 DEF PressHotkey
<1>2. CASE ToggleMute
  BY <1>2 DEF ToggleMute, counters
<1>3. CASE LoseHotkey
  BY <1>3 DEF LoseHotkey, counters
<1>4. CASE EndModal
  BY <1>4 DEF EndModal, counters
<1>5. ASSUME NEW m \in {"menu", "drag"}, BeginModal(m)
      PROVE  IInv'
  BY <1>5 DEF BeginModal
<1>6. ASSUME NEW r \in {"settings", "close"}, Click(r)
      PROVE  IInv'
  BY <1>6 DEF Click
<1> QED
  BY <1>1, <1>2, <1>3, <1>4, <1>5, <1>6

LEMMA IterateType ==
    ASSUME IInv, Iterate
    PROVE  IInv'
<1>1. /\ window' \in {"none", "hidden", "shown"} /\ edit' \in Controls
      /\ listed' \subseteq Mics /\ capturing' \in BOOLEAN
      /\ touched' \subseteq {"pushToTalk", "key", "mic", "slider", "volume"}
  <2>1. CASE ShowSettings
    BY <2>1, ShowSettingsType DEF IInv
  <2>2. CASE UNCHANGED windowVars
    BY <2>2 DEF IInv, TypeOK, windowVars
  <2> QED
    BY <2>1, <2>2 DEF Iterate
<1> QED
  BY <1>1 DEF IInv, QueuedWerePressed, TypeOK, Iterate, settingsVars, counters

LEMMA NextType ==
    ASSUME IInv, [Next]_vars
    PROVE  IInv'
<1>1. CASE SetupAccept
  <2>1. [Chosen EXCEPT !.mic = settings.mic] \in Settings
    BY ChosenType DEF IInv, TypeOK, Settings
  <2> QED
    BY <1>1, <2>1, EnterLoopType DEF SetupAccept
<1>2. CASE SetupSkipped
  BY <1>2, EnterLoopType DEF SetupSkipped, IInv, TypeOK
<1>3. CASE SetupClose
  BY <1>3, EndsType DEF SetupClose, IInv, TypeOK
<1>4. CASE Quit
  BY <1>4, EndsType DEF Quit, IInv, TypeOK
<1>5. CASE Kill
  BY <1>5, EndsType DEF Kill, IInv, TypeOK
<1>6. CASE Run
  BY <1>6, RunType
<1>7. CASE ChangeControl
  BY <1>7, ChangeControlType
<1>8. CASE KeyButton
  BY <1>8 DEF KeyButton, IInv, QueuedWerePressed, TypeOK, settingsVars, muteVars, loopVars,
              counters
<1>9. ASSUME NEW k \in Keys, CapturePushToTalkKey(k)
      PROVE  IInv'
  BY <1>9, CapturePushToTalkKeyType
<1>10. CASE HideSettings
  BY <1>10 DEF HideSettings, IInv, QueuedWerePressed, TypeOK, settingsVars, muteVars, loopVars,
               counters
<1>11. CASE Save
  BY <1>11, SaveType
<1>12. CASE \/ PressHotkey \/ ToggleMute \/ LoseHotkey \/ EndModal
            \/ \E m \in {"menu", "drag"} : BeginModal(m)
            \/ \E r \in {"settings", "close"} : Click(r)
  BY <1>12, MessagesType
<1>13. CASE Iterate
  BY <1>13, IterateType
<1>14. CASE Plug
  <2>1. plugs' \in 0..MaxPlugs /\ plugged' \subseteq Mics
    BY <1>14, BoundsType DEF Plug, IInv, TypeOK
  <2> QED
    BY <1>14, <2>1 DEF Plug, IInv, QueuedWerePressed, TypeOK, settingsVars, windowVars, muteVars,
                       loopVars
<1>15. CASE UNCHANGED vars
  BY <1>15 DEF vars, IInv, QueuedWerePressed, TypeOK, settingsVars, windowVars, muteVars,
               loopVars, counters
<1> QED
  BY <1>1, <1>2, <1>3, <1>4, <1>5, <1>6, <1>7, <1>8, <1>9, <1>10, <1>11, <1>12, <1>13, <1>14,
     <1>15 DEF Next

\* The variables have their types in every reachable state: in particular the
\* settings that loadSettings, applyAndHide and the setup window make of a slider
\* and of a list of devices are settings again.
THEOREM TypeCorrect == Spec => []TypeOK
<1>1. Init => IInv
  BY InitType
<1>2. IInv /\ [Next]_vars => IInv'
  BY NextType
<1>3. IInv => TypeOK
  BY DEF IInv
<1> QED
  BY <1>1, <1>2, <1>3, PTL DEF Spec
----------------------------------------------------------------------------
(* The copies. *)

LEMMA NextCopies ==
    ASSUME CopiesAgree, [Next]_vars
    PROVE  CopiesAgree'
<1> SUFFICES ASSUME phase' = "on" PROVE CopiesAgree'
  BY DEF CopiesAgree
<1> USE DEF CopiesAgree
<1>1. ASSUME NEW s, EnterLoop(s)
      PROVE  CopiesAgree'
  BY <1>1 DEF EnterLoop, StartEngine, DeviceIdForName
<1>2. CASE SetupAccept \/ SetupSkipped
  BY <1>1, <1>2 DEF SetupAccept, SetupSkipped
<1>3. CASE SetupClose \/ Quit \/ Kill \/ Run
  BY <1>3 DEF SetupClose, Quit, Kill, Run, Ends
<1>4. ASSUME NEW f, NEW v, Changes(f, v)
      PROVE  CopiesAgree'
  BY <1>4 DEF Changes, settingsVars, muteVars, loopVars, DeviceIdForName
<1>5. CASE ChangeControl
  BY <1>4, <1>5 DEF ChangeControl
<1>6. ASSUME NEW k \in Keys, CapturePushToTalkKey(k)
      PROVE  CopiesAgree'
  BY <1>4, <1>6 DEF CapturePushToTalkKey
<1>7. CASE KeyButton \/ HideSettings
  BY <1>7 DEF KeyButton, HideSettings, settingsVars, muteVars, loopVars, DeviceIdForName
<1>8. CASE Save
  BY <1>8 DEF Save, ApplyAudioSettings, DeviceIdForName
<1>9. CASE PressHotkey \/ LoseHotkey \/ EndModal
  BY <1>9 DEF PressHotkey, LoseHotkey, EndModal, settingsVars, muteVars, DeviceIdForName
<1>10. CASE ToggleMute
  BY <1>10 DEF ToggleMute, settingsVars, DeviceIdForName
<1>11. CASE \/ \E m \in {"menu", "drag"} : BeginModal(m)
            \/ \E r \in {"settings", "close"} : Click(r)
  BY <1>11 DEF BeginModal, Click, settingsVars, muteVars, DeviceIdForName
<1>12. CASE Iterate
  BY <1>12 DEF Iterate, settingsVars, DeviceIdForName
<1>13. CASE Plug
  BY <1>13 DEF Plug, settingsVars, muteVars, loopVars, DeviceIdForName
<1>14. CASE UNCHANGED vars
  BY <1>14 DEF vars, settingsVars, muteVars, loopVars, DeviceIdForName
<1> QED
  BY <1>2, <1>3, <1>5, <1>6, <1>7, <1>8, <1>9, <1>10, <1>11, <1>12, <1>13, <1>14 DEF Next

\* In every reachable state of the main loop the three mutes agree, and the
\* engine runs with the application's settings and the microphone they name.
THEOREM Copies == Spec => []CopiesAgree
<1>1. Init => CopiesAgree
  BY DEF Init, CopiesAgree
<1>2. CopiesAgree /\ [Next]_vars => CopiesAgree'
  BY NextCopies
<1> QED
  BY <1>1, <1>2, PTL DEF Spec
----------------------------------------------------------------------------
(* What Save changes. *)

\* What the user has not touched since the window was shown is as loadSettings
\* filled it in.
UntouchedIsShown ==
    phase = "on" /\ window = "shown" =>
        /\ "pushToTalk" \notin touched => edit.pushToTalk = settings.pushToTalk
        /\ "key" \notin touched => edit.key = settings.key
        /\ "mic" \notin touched => edit.mic = DeviceIdForName(settings.mic, listed)
        /\ "slider" \notin touched =>
              edit.slider = SensitivityFromThreshold(settings.threshold)
        /\ "volume" \notin touched => edit.volume = VolumeFromGain(settings.gain)

\* A threshold that goes to the slider and back is brought between the slider's
\* ends, and moves by half a position at most.
LEMMA ThresholdRoundTrip ==
    ASSUME NEW t \in Int
    PROVE  ThresholdFromSensitivity(SensitivityFromThreshold(t)) - Clamp(t, 50, 850) \in -4..4
<1> DEFINE q == (2 * (850 - t) + 8) \div 16
<1>1. q \in Int /\ 16 * q <= 2 * (850 - t) + 8 /\ 2 * (850 - t) + 8 < 16 * q + 16
  OBVIOUS
<1>2. SensitivityFromThreshold(t) = Clamp(q, 0, 100)
  BY DEF SensitivityFromThreshold
<1> HIDE DEF q
<1>3. CASE t \in 50..850
  BY <1>1, <1>2, <1>3 DEF ThresholdFromSensitivity, Clamp
<1>4. CASE t < 50
  BY <1>1, <1>2, <1>4 DEF ThresholdFromSensitivity, Clamp
<1>5. CASE t > 850
  BY <1>1, <1>2, <1>5 DEF ThresholdFromSensitivity, Clamp
<1> QED
  BY <1>3, <1>4, <1>5

LEMMA GainRoundTrip ==
    ASSUME NEW g \in Int
    PROVE  GainFromVolume(VolumeFromGain(g)) - Clamp(g, 0, 2000) \in -4..5
<1> DEFINE q == (g + 5) \div 10
<1>1. q \in Int /\ 10 * q <= g + 5 /\ g + 5 < 10 * q + 10
  OBVIOUS
<1>2. VolumeFromGain(g) = Clamp(q, 0, 200)
  BY DEF VolumeFromGain
<1> HIDE DEF q
<1> QED
  BY <1>1, <1>2 DEF GainFromVolume, Clamp

LEMMA FillShows ==
    ASSUME UNCHANGED settings, Fill
    PROVE  UntouchedIsShown'
BY DEF Fill, Shown, UntouchedIsShown

LEMMA ChangesTouch ==
    ASSUME TypeOK, UntouchedIsShown, NEW f, NEW v, Changes(f, v)
    PROVE  UntouchedIsShown'
<1>1. edit = [g \in {"pushToTalk", "key", "mic", "slider", "volume"} |-> edit[g]]
  BY DEF TypeOK, Controls
<1>2. \A g \in {"pushToTalk", "key", "mic", "slider", "volume"} : g # f => edit'[g] = edit[g]
  BY <1>1 DEF Changes
<1>3. UNCHANGED <<settings, window, listed, phase>> /\ touched' = touched \cup {f}
  BY DEF Changes, settingsVars, loopVars
<1> QED
  BY <1>2, <1>3 DEF UntouchedIsShown

LEMMA NextUntouched ==
    ASSUME IInv, UntouchedIsShown, [Next]_vars
    PROVE  UntouchedIsShown'
<1>1. ASSUME NEW s, EnterLoop(s)
      PROVE  UntouchedIsShown'
  BY <1>1 DEF EnterLoop, UntouchedIsShown
<1>2. CASE SetupAccept \/ SetupSkipped
  BY <1>1, <1>2 DEF SetupAccept, SetupSkipped
<1>3. CASE SetupClose \/ Quit \/ Kill \/ Run
  BY <1>3 DEF SetupClose, Quit, Kill, Run, Ends, UntouchedIsShown
<1>4. CASE ChangeControl
  BY <1>4, ChangesTouch DEF ChangeControl, IInv
<1>5. ASSUME NEW k \in Keys, CapturePushToTalkKey(k)
      PROVE  UntouchedIsShown'
  BY <1>5, ChangesTouch DEF CapturePushToTalkKey, IInv
<1>6. CASE HideSettings \/ Save
  BY <1>6 DEF HideSettings, Save, UntouchedIsShown
<1>7. CASE Iterate
  <2>1. CASE ShowSettings
    <3>1. CASE Fill
      BY <1>7, <3>1, FillShows DEF Iterate, settingsVars
    <3>2. CASE UNCHANGED windowVars
      BY <1>7, <3>2 DEF Iterate, settingsVars, windowVars, UntouchedIsShown
    <3> QED
      BY <2>1, <3>1, <3>2 DEF ShowSettings
  <2>2. CASE UNCHANGED windowVars
    BY <1>7, <2>2 DEF Iterate, settingsVars, windowVars, UntouchedIsShown
  <2> QED
    BY <1>7, <2>1, <2>2 DEF Iterate
<1>8. CASE \/ KeyButton \/ PressHotkey \/ ToggleMute \/ LoseHotkey \/ EndModal \/ Plug
           \/ \E m \in {"menu", "drag"} : BeginModal(m)
           \/ \E r \in {"settings", "close"} : Click(r)
           \/ UNCHANGED vars
  <2>1. UNCHANGED <<phase, settings, window, edit, listed, touched>>
    BY <1>8 DEF KeyButton, PressHotkey, ToggleMute, LoseHotkey, EndModal, Plug, BeginModal,
                Click, vars, settingsVars, windowVars, loopVars
  <2> QED
    BY <2>1 DEF UntouchedIsShown
<1> QED
  BY <1>2, <1>3, <1>4, <1>5, <1>6, <1>7, <1>8 DEF Next

\* What a step of the loop does to the settings: the body of SaveOnlyEdits.
OnlyEdits ==
    phase = "on" /\ phase' = "on" =>
        /\ "pushToTalk" \notin touched => settings'.pushToTalk = settings.pushToTalk
        /\ "key" \notin touched => settings'.key = settings.key
        /\ "mic" \notin touched => settings'.mic \in {settings.mic, Default}
        /\ "mic" \notin touched /\ settings.mic \in listed => settings'.mic = settings.mic
        /\ "slider" \notin touched =>
              \/ UNCHANGED settings
              \/ settings'.threshold - Clamp(settings.threshold, 50, 850) \in -4..4
        /\ "volume" \notin touched =>
              \/ UNCHANGED settings
              \/ settings'.gain - Clamp(settings.gain, 0, 2000) \in -4..5

LEMMA SaveEdits ==
    ASSUME IInv, UntouchedIsShown, Save
    PROVE  OnlyEdits
<1>1. /\ settings'.pushToTalk = edit.pushToTalk /\ settings'.key = edit.key
      /\ settings'.mic = edit.mic
      /\ settings'.threshold = ThresholdFromSensitivity(edit.slider)
      /\ settings'.gain = GainFromVolume(edit.volume)
      /\ window = "shown"
  BY DEF Save, ApplyAudioSettings, Chosen, Open
<1>2. "slider" \notin touched /\ phase = "on" =>
          settings'.threshold - Clamp(settings.threshold, 50, 850) \in -4..4
  BY <1>1, ThresholdRoundTrip DEF UntouchedIsShown, IInv, TypeOK, Settings
<1>3. "mic" \notin touched /\ phase = "on" =>
          settings'.mic = DeviceIdForName(settings.mic, listed)
  BY <1>1 DEF UntouchedIsShown
<1>4. "volume" \notin touched /\ phase = "on" =>
          settings'.gain - Clamp(settings.gain, 0, 2000) \in -4..5
  BY <1>1, GainRoundTrip DEF UntouchedIsShown, IInv, TypeOK, Settings
<1> QED
  BY <1>1, <1>2, <1>3, <1>4 DEF OnlyEdits, UntouchedIsShown, DeviceIdForName

LEMMA NextEdits ==
    ASSUME IInv, UntouchedIsShown, [Next]_vars
    PROVE  OnlyEdits
<1>1. CASE Save
  BY <1>1, SaveEdits
<1>2. CASE UNCHANGED settings
  BY <1>2 DEF OnlyEdits, IInv, TypeOK, Settings
<1>3. CASE SetupAccept \/ SetupSkipped
  BY <1>3 DEF SetupAccept, SetupSkipped, EnterLoop, OnlyEdits
<1>4. CASE Run
  BY <1>4 DEF Run, OnlyEdits
<1>5. Next => Save \/ Run \/ SetupAccept \/ SetupSkipped \/ UNCHANGED settings
  BY DEF Next, SetupClose, Quit, Kill, Ends, ChangeControl, CapturePushToTalkKey, Changes,
         KeyButton, HideSettings, PressHotkey, ToggleMute, LoseHotkey, BeginModal, EndModal,
         Click, Iterate, Plug, settingsVars
<1> QED
  BY <1>1, <1>2, <1>3, <1>4, <1>5 DEF vars, settingsVars

\* In the loop nothing but Save changes the settings, and Save changes what the
\* user has touched: cancelled edits, and edits of a window that was shown again,
\* are never saved; a threshold or a gain is brought between the slider's ends and
\* moves by half a position at most.
THEOREM SavesEdits == Spec => SaveOnlyEdits
<1>1. Init => IInv /\ UntouchedIsShown
  BY InitType DEF Init, UntouchedIsShown
<1>2. IInv /\ UntouchedIsShown /\ [Next]_vars => (IInv /\ UntouchedIsShown)'
  BY NextType, NextUntouched
<1>3. IInv /\ UntouchedIsShown /\ [Next]_vars => [OnlyEdits]_vars
  BY NextEdits
<1>4. Spec => [][OnlyEdits]_vars
  BY <1>1, <1>2, <1>3, PTL DEF Spec
<1> QED
  BY <1>4 DEF SaveOnlyEdits, OnlyEdits
----------------------------------------------------------------------------
(* What the next run reads. *)

\* The file holds what was written last, and the setup window starts from it and
\* from this run's environment.
FileIsKept ==
    /\ saved # Nothing => saved = kept
    /\ phase = "setup" /\ saved # Nothing => settings = Overridden(given, LoadSaved(saved))

LEMMA NextFile ==
    ASSUME FileIsKept, [Next]_vars
    PROVE  FileIsKept'
<1> USE DEF FileIsKept
<1>1. CASE SetupAccept \/ SetupSkipped
  BY <1>1 DEF SetupAccept, SetupSkipped, EnterLoop
<1>2. CASE SetupClose \/ Quit \/ Kill
  BY <1>2 DEF SetupClose, Quit, Kill, Ends
<1>3. CASE Run
  BY <1>3 DEF Run
<1>4. CASE Save
  BY <1>4 DEF Save, ApplyAudioSettings, SaveAudioSettings, loopVars
<1>5. CASE UNCHANGED <<phase, given, saved, kept, settings>>
  BY <1>5 DEF LoadSaved, Overridden
<1>6. Next => \/ SetupAccept \/ SetupSkipped \/ SetupClose \/ Quit \/ Kill \/ Run \/ Save
              \/ UNCHANGED <<phase, given, saved, kept, settings>>
  BY DEF Next, ChangeControl, CapturePushToTalkKey, Changes, KeyButton, HideSettings,
         PressHotkey, ToggleMute, LoseHotkey, BeginModal, EndModal, Click, Iterate, Plug,
         settingsVars, loopVars
<1> QED
  BY <1>1, <1>2, <1>3, <1>4, <1>5, <1>6 DEF vars, settingsVars, loopVars

LEMMA FileGivesKept ==
    ASSUME TypeOK, FileIsKept
    PROVE  KeptSettings
<1> SUFFICES ASSUME phase = "setup", saved # Nothing
             PROVE  /\ \A f \in DOMAIN kept \ (DOMAIN given \cup {"mic"}) : settings[f] = kept[f]
                    /\ "mic" \notin DOMAIN given /\ kept.mic \notin Padded =>
                          settings.mic = kept.mic
  BY DEF KeptSettings
<1> DEFINE read == LoadSaved(saved)
<1>1. kept \in Settings /\ DOMAIN kept = {"pushToTalk", "key", "mic", "threshold", "gain"}
  BY DEF TypeOK, Settings
<1>2. read = [kept EXCEPT !.mic = IF @ \in Padded THEN Gone ELSE @]
  BY DEF FileIsKept, LoadSaved
<1>3. settings = Overridden(given, read)
  BY DEF FileIsKept
<1>4. /\ read.pushToTalk = kept.pushToTalk /\ read.key = kept.key
      /\ read.threshold = kept.threshold /\ read.gain = kept.gain
      /\ kept.mic \notin Padded => read.mic = kept.mic
  BY <1>1, <1>2 DEF Settings
<1> HIDE DEF read
<1>5. ASSUME NEW f \in {"pushToTalk", "key", "threshold", "gain"}, f \notin DOMAIN given
      PROVE  settings[f] = kept[f]
  BY <1>3, <1>4, <1>5 DEF Overridden
<1>6. "mic" \notin DOMAIN given => settings.mic = read.mic
  BY <1>3 DEF Overridden
<1> QED
  BY <1>1, <1>4, <1>5, <1>6

\* Every run starts from the settings of the last save that reached the file, in
\* whichever run, except for what the environment sets, a padded device name and a
\* file torn by a kill or a full disk.
THEOREM Keeps == Spec => []KeptSettings
<1>1. Init => IInv /\ FileIsKept
  BY InitType DEF Init, FileIsKept
<1>2. IInv /\ FileIsKept /\ [Next]_vars => (IInv /\ FileIsKept)'
  BY NextType, NextFile
<1>3. IInv /\ FileIsKept => KeptSettings
  BY FileGivesKept DEF IInv
<1> QED
  BY <1>1, <1>2, <1>3, PTL DEF Spec
=============================================================================
