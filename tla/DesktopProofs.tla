---------------------------- MODULE DesktopProofs ----------------------------
(***************************************************************************)
(* Theorems about Desktop, for every configuration on the disk, every text *)
(* and stroke, any number of acts and holds: that dictation behaves as it  *)
(* does by itself, so that its theorems hold here too; the types; that a   *)
(* microphone opened by hotkey is held open by it; that what is grabbed is *)
(* what is configured; that a quit leaves no microphone open.              *)
(***************************************************************************)
EXTENDS Desktop, DictationSafetyProofs, WellFoundedInduction

-----------------------------------------------------------------------------
(* Dictation in the desktop.                                               *)

\* Whatever a part of the desktop does to dictation is a step of Dictation, or
\* leaves it alone.
LEMMA HotkeyDictates == PollHotkeys => [DictationNext]_dictationVars
<1> SUFFICES ASSUME PollHotkeys PROVE [DictationNext]_dictationVars
  OBVIOUS
<1>1. \/ \E starts \in BOOLEAN : BeginRecording("hotkey", starts)
      \/ \E o \in StopOutcomes : EndRecording("hotkey", o)
      \/ AskVoice \/ Ignored
  BY DEF PollHotkeys, PttPress, PttRelease
<1> QED
  BY <1>1 DEF Ignored, DictationNext, Start, Finish, Intents

\* The same of the menu of the tray and of a quit.
LEMMA TrayDictates == TrayModels \/ HardQuit \/ Exit => [DictationNext]_dictationVars
BY DEF TrayModels, HardQuit, Exit, StopsMic, Ignored, DictationNext, Start, Finish

\* The same of the tabs.
LEMMA TabsDictate == Tabs \/ StopButton => [DictationNext]_dictationVars
<1>1. Tabs => DictationNext
  <2> SUFFICES ASSUME Tabs PROVE DictationNext
    OBVIOUS
  <2>1. \/ \E starts \in BOOLEAN : BeginRecording("gui", starts)
        \/ \E m \in SttModels : SelectModel(m)
        \/ \E on \in BOOLEAN : SetCopy(on)
        \/ UnloadAllModels
    BY DEF Tabs
  <2> QED
    BY <2>1 DEF DictationNext, Start, Intents
<1>2. StopButton => DictationNext
  BY DEF StopButton, DictationNext, Finish, Intents
<1> QED
  BY <1>1, <1>2

\* Every step of the desktop.
LEMMA StepDictates == [Next]_vars => [DictationNext]_dictationVars
<1> SUFFICES ASSUME [Next]_vars PROVE [DictationNext]_dictationVars
  OBVIOUS
<1>1. CASE UNCHANGED vars
  BY <1>1 DEF vars
<1>2. CASE Acts
  BY <1>2, TabsDictate DEF Acts, Edit, ApplyHotkeys, WindowOnly, SaveSettings
<1>3. CASE Keyboard
  BY <1>3 DEF Keyboard
<1>4. CASE Reacts
  <2>1. CASE JobThread \/ Drain
    BY <2>1 DEF JobThread, Drain, DictationNext
  <2>2. CASE \/ LetGo \/ EndCapture \/ WindowOnly(Tray) \/ WindowOnly(InitialVisibility)
             \/ \E saved \in BOOLEAN : Autosave(saved)
    BY <2>2 DEF LetGo, EndCapture, WindowOnly, Autosave
  <2> QED
    BY <1>4, <2>1, <2>2, HotkeyDictates, TrayDictates, TabsDictate DEF Reacts
<1> QED
  BY <1>1, <1>2, <1>3, <1>4 DEF Next

\* Dictation beside the hotkeys, the window, the tray and the preferences is
\* Dictation by itself (the one UI thread of app/shell.rs serves them all).
THEOREM DesktopDictates == Spec => DictatesAsAlone
<1>1. Init => DictationInit
  BY DEF Init
<1> QED
  BY <1>1, StepDictates, PTL DEF Spec, DictatesAsAlone, DictationSpec

\* So on the desktop too only what was dictated by hotkey is pasted, texts come
\* in order, what dictation waits for is under way, the clipboard is restored, and
\* the promise of dictation is kept.
THEOREM DesktopKeepsDictation ==
  Spec => /\ [](PasteOnlyDictated /\ TextInOrder /\ WaitsHaveWork /\ ClipboardUntouched)
          /\ DictationKeepsPromise
BY DesktopDictates, OnlyDictatedPasted, TextsInOrder, WaitingHasWork, ClipboardRestored,
   DictationImplementsPromise, PTL
   DEF DictatesAsAlone

-----------------------------------------------------------------------------
(* Texts and combinations.                                                 *)

\* A nonempty set of positions of a text has a last one.
LEMMA LastPosition ==
  ASSUME NEW n \in Nat, NEW T \in SUBSET (1..n), T # {}
  PROVE  \E k \in T : \A i \in T : i <= k
<1> DEFINE R == {p \in Nat \X Nat : p[1] < p[2]}
           U == {n - k : k \in T}
<1>0. \A i \in T : i \in Nat /\ n - i \in Nat /\ n - i \in U
  OBVIOUS
<1>1. IsWellFoundedOn(R, Nat)
  BY NatLessThanWellFounded DEF OpToRel
<1>2. U \subseteq Nat /\ U # {}
  <2>1. U \subseteq Nat
    BY <1>0
  <2>2. PICK k \in T : TRUE
    OBVIOUS
  <2>3. n - k \in U
    BY <1>0
  <2> QED
    BY <2>1, <2>3
<1>3. PICK x \in U : \A y \in U : ~(<< y, x >> \in R)
  <2> HIDE DEF R, U
  <2> QED
    BY <1>1, <1>2, WFMin
<1>4. PICK k \in T : x = n - k
  BY <1>3
<1>5. ASSUME NEW i \in T PROVE i <= k
  <2> HIDE DEF U
  <2>0. i \in Nat /\ k \in Nat
    BY <1>0
  <2>1. n - i \in U /\ n - i \in Nat /\ n - k \in Nat
    BY <1>0
  <2>2. ~(n - i < n - k)
    <3>1. << n - i, n - k >> \notin R
      <4> HIDE DEF R
      <4> QED
        BY <2>1, <1>3, <1>4
    <3>2. << n - i, n - k >> \in Nat \X Nat
      BY <2>1
    <3> QED
      BY <3>1, <3>2
  <2> QED
    BY <2>0, <2>2
<1> QED
  BY <1>5

\* What a text says is a combination; its key is none only when it says nothing.
LEMMA ParseType ==
  ASSUME NEW text \in Seq(Tokens)
  PROVE  /\ Parse(text) \in Combo
         /\ Parse(text) # NoCombo => Parse(text).key # "none"
<1> DEFINE keys == {k \in DOMAIN text : ~IsModifier(text[k])}
           last == CHOOSE k \in keys : \A i \in keys : i <= k
           mods == {ModifierOf(text[k]) : k \in DOMAIN text \ keys}
<1>1. NoCombo \in Combo
  BY DEF NoCombo, Combo
<1>2. CASE keys = {} \/ \E k \in keys : CodeOf(text[k]) = "none"
  BY <1>1, <1>2 DEF Parse
<1>3. CASE keys # {} /\ \A k \in keys : CodeOf(text[k]) # "none"
  <2>1. Parse(text) = [mods |-> mods, key |-> CodeOf(text[last])]
    BY <1>3 DEF Parse
  <2>2. last \in keys
    <3>1. keys \in SUBSET (1..Len(text)) /\ Len(text) \in Nat
      OBVIOUS
    <3> HIDE DEF keys
    <3>2. \E k \in keys : \A i \in keys : i <= k
      BY <3>1, <1>3, LastPosition
    <3> QED
      BY <3>2
  <2>3. CodeOf(text[last]) \in {"KeyS", "KeyR", "F5"}
    <3> HIDE DEF last, keys
    <3>1. CodeOf(text[last]) \in {"KeyS", "KeyR", "F5", "none"}
      BY DEF CodeOf
    <3> QED
      BY <3>1, <2>2, <1>3
  <2>4. mods \subseteq {"Super", "Ctrl", "Alt", "Shift"}
    BY DEF IsModifier, ModifierOf
  <2> HIDE DEF last, mods
  <2> QED
    BY <2>1, <2>3, <2>4 DEF Combo
<1> QED
  BY <1>2, <1>3

\* A text of tokens that are these.
Naming(s, mods) == s \in Seq(Tokens) /\ {s[k] : k \in DOMAIN s} = mods

\* One modifier more in a text that names modifiers.
LEMMA NamedOne ==
  ASSUME NEW c \in Combo, NEW s, NEW mods, Naming(s, mods), NEW m \in Tokens
  PROVE  Naming(s \o Named(c, m), mods \union (c.mods \intersect {m}))
<1>0. s \in Seq(Tokens)
  BY DEF Naming
<1>1. CASE m \in c.mods
  <2>1. Named(c, m) = << m >> /\ c.mods \intersect {m} = {m}
    BY <1>1 DEF Named
  <2> DEFINE t == s \o << m >>
  <2>2. /\ t \in Seq(Tokens) /\ DOMAIN t = 1..(Len(s) + 1) /\ DOMAIN s = 1..Len(s) /\ Len(s) \in Nat
        /\ t[Len(s) + 1] = m /\ \A k \in DOMAIN s : t[k] = s[k]
    BY <1>0
  <2> HIDE DEF t
  <2>3. {t[k] : k \in DOMAIN t} = {s[k] : k \in DOMAIN s} \union {m}
    <3>1. \A k \in DOMAIN t : t[k] = m \/ (k \in DOMAIN s /\ t[k] = s[k])
      BY <2>2
    <3>2. Len(s) + 1 \in DOMAIN t /\ \A k \in DOMAIN s : k \in DOMAIN t
      BY <2>2
    <3> QED
      BY <2>2, <3>1, <3>2
  <2> QED
    BY <2>1, <2>2, <2>3 DEF Naming, t
<1>2. CASE m \notin c.mods
  <2>1. Named(c, m) = << >> /\ c.mods \intersect {m} = {}
    BY <1>2 DEF Named
  <2>2. s \o << >> = s
    BY <1>0
  <2> QED
    BY <2>1, <2>2
<1> QED
  BY <1>1, <1>2

\* A combination in its canonical form: its modifiers, then its key.
LEMMA FormatNames ==
  ASSUME NEW c \in Combo
  PROVE  \E p : Naming(p, c.mods) /\ Format(c) = p \o << TokenOf(c.key) >>
<1> DEFINE p1 == << >> \o Named(c, "Super")
           p2 == p1 \o Named(c, "Ctrl")
           p3 == p2 \o Named(c, "Alt")
           p4 == p3 \o Named(c, "Shift")
<1>1. Naming(<< >>, {})
  BY DEF Naming
<1> DEFINE Of(m) == c.mods \intersect {m}
<1> HIDE DEF p1, p2, p3, p4, Of
<1>2. Naming(p1, {} \union Of("Super"))
  BY <1>1, NamedOne, TokenAssumption DEF p1, Of
<1>3. Naming(p2, ({} \union Of("Super")) \union Of("Ctrl"))
  BY <1>2, NamedOne, TokenAssumption DEF p2, Of
<1>4. Naming(p3, (({} \union Of("Super")) \union Of("Ctrl")) \union Of("Alt"))
  BY <1>3, NamedOne, TokenAssumption DEF p3, Of
<1>5. Naming(p4, ((({} \union Of("Super")) \union Of("Ctrl")) \union Of("Alt")) \union Of("Shift"))
  BY <1>4, NamedOne, TokenAssumption DEF p4, Of
<1>6. ((({} \union Of("Super")) \union Of("Ctrl")) \union Of("Alt")) \union Of("Shift") = c.mods
  BY DEF Combo, Of
<1>7. Named(c, "Super") = p1
  BY DEF Named, p1
<1>8. Format(c) = p4 \o << TokenOf(c.key) >>
  BY <1>7 DEF Format, p2, p3, p4
<1> QED
  BY <1>5, <1>6, <1>8

\* Reading a combination's canonical form gives the combination back.
LEMMA ParseFormat ==
  ASSUME NEW c \in Combo, c.key # "none"
  PROVE  Format(c) \in Seq(Tokens) /\ Parse(Format(c)) = c
<1>1. PICK p : Naming(p, c.mods) /\ Format(c) = p \o << TokenOf(c.key) >>
  BY FormatNames
<1>2. /\ TokenOf(c.key) \in Tokens /\ ~IsModifier(TokenOf(c.key)) /\ CodeOf(TokenOf(c.key)) = c.key
  <2>1. c.key \in {"KeyS", "KeyR", "F5"}
    BY DEF Combo
  <2>2. \/ c.key = "KeyS" /\ TokenOf(c.key) = "S"
        \/ c.key = "KeyR" /\ TokenOf(c.key) = "R"
        \/ c.key = "F5" /\ TokenOf(c.key) = "F5"
    BY <2>1 DEF TokenOf
  <2> QED
    BY <2>2, TokenAssumption DEF IsModifier, ModifierOf, CodeOf
<1> DEFINE f == Format(c)
           n == Len(p) + 1
<1>3. /\ f \in Seq(Tokens) /\ DOMAIN f = 1..n /\ n \in Nat \ {0} /\ DOMAIN p = 1..(n - 1)
      /\ f[n] = TokenOf(c.key) /\ \A k \in DOMAIN p : f[k] = p[k]
  BY <1>1, <1>2 DEF Naming
<1>4. \A k \in DOMAIN p : f[k] \in c.mods
  BY <1>1, <1>3 DEF Naming
<1>5. \A m \in c.mods : ModifierOf(m) = m /\ IsModifier(m)
  BY DEF Combo, ModifierOf, IsModifier
<1> HIDE DEF f, n
<1>6. {k \in DOMAIN f : ~IsModifier(f[k])} = {n}
  <2>1. n \in DOMAIN f /\ \A k \in DOMAIN f : k = n \/ k \in DOMAIN p
    BY <1>3
  <2> QED
    BY <2>1, <1>2, <1>3, <1>4, <1>5
<1>7. (CHOOSE k \in {n} : \A i \in {n} : i <= k) = n
  BY <1>3
<1>8. {ModifierOf(f[k]) : k \in DOMAIN f \ {n}} = c.mods
  <2>1. DOMAIN f \ {n} = DOMAIN p
    BY <1>3
  <2>2. \A k \in DOMAIN p : ModifierOf(f[k]) = p[k]
    BY <1>3, <1>4, <1>5
  <2> QED
    BY <2>1, <2>2, <1>1 DEF Naming
<1>9. Parse(f) = [mods |-> c.mods, key |-> c.key]
  <2> DEFINE keys == {k \in DOMAIN f : ~IsModifier(f[k])}
             last == CHOOSE k \in keys : \A i \in keys : i <= k
             mods == {ModifierOf(f[k]) : k \in DOMAIN f \ keys}
  <2>1. Parse(f) = IF keys = {} \/ \E k \in keys : CodeOf(f[k]) = "none" THEN NoCombo
                   ELSE [mods |-> mods, key |-> CodeOf(f[last])]
    BY DEF Parse
  <2>2. keys = {n} /\ last = n /\ mods = c.mods
    BY <1>6, <1>7, <1>8
  <2>3. CodeOf(f[n]) = c.key
    BY <1>2, <1>3
  <2> HIDE DEF keys, last, mods
  <2> QED
    BY <2>1, <2>2, <2>3
<1> QED
  BY <1>3, <1>9 DEF f, Combo

\* The canonical texts of a valid configuration say what it says, and are their
\* own canonical form.
THEOREM CanonicalSays ==
  ASSUME NEW keys \in Configs, Valid(keys)
  PROVE  /\ Canonical(keys) \in Configs /\ Valid(Canonical(keys))
         /\ Combos(Canonical(keys)) = Combos(keys)
         /\ Canonical(Canonical(keys)) = Canonical(keys)
<1>1. ASSUME NEW a \in Actions
      PROVE  /\ Parse(keys[a]) # NoCombo /\ Format(Parse(keys[a])) \in Seq(Tokens)
             /\ Parse(Format(Parse(keys[a]))) = Parse(keys[a])
  <2>1. keys[a] \in Seq(Tokens) /\ Parse(keys[a]) # NoCombo
    BY DEF Configs, Valid
  <2> QED
    BY <2>1, ParseType, ParseFormat
<1>2. \A a \in Actions : Canonical(keys)[a] = Format(Parse(keys[a]))
  BY DEF Canonical
<1>3. Canonical(keys) \in Configs
  BY <1>1 DEF Canonical, Configs
<1>4. \A a \in Actions : Parse(Canonical(keys)[a]) = Parse(keys[a])
  BY <1>1, <1>2
<1> QED
  BY <1>1, <1>3, <1>4 DEF Canonical, Combos, Valid

-----------------------------------------------------------------------------
(* The grabs and the keys.                                                 *)

HotkeyTypes ==
  /\ hub \in Hub /\ live \in Configs /\ draft \in Configs
  /\ capture \in Actions \union {"none"} /\ hotkeyError \in BOOLEAN
  /\ events \in Seq([action : Actions, pressed : BOOLEAN]) /\ lost \in BOOLEAN

\* What is grabbed is the live configuration, whose texts parse and differ; and
\* what was ever grabbed is in canonical form.
Grabs ==
  /\ hub # NoHub => Valid(live) /\ hub.bound = Combos(live) /\ Parse(live["read"]) # Parse(live["ptt"])
  /\ live \in grabbed
  /\ \A keys \in grabbed \ OnDisk : Canonical(keys) = keys

Press   == Event("ptt", TRUE)
Release == Event("ptt", FALSE)

\* At most one of the two is down, and only while a combination is held; a
\* press of push-to-talk in the channel is followed by its release or is down.
Pressed ==
  /\ held = NoCombo => hub.down = {}
  /\ \A a, b \in hub.down : a = b
  /\ \A k \in DOMAIN events : events[k] = Press =>
       "ptt" \in hub.down \/ \E j \in DOMAIN events : k < j /\ events[j] = Release

GrabInv == HotkeyTypes /\ Grabs /\ Pressed

\* What the hotkeys do in a step: take an event out of the channel, or something
\* else.
HotkeyElse ==
  \/ UNCHANGED hotkeyVars
  \/ DropHub \/ KeyUp
  \/ ApplyInvalid
  \/ ApplyGrabbed /\ Regrabbed
  \/ \E restored \in BOOLEAN : ApplyRefused(restored) /\ Regrabbed
  \/ \E a \in Actions, t \in Texts : EditDraft(a, t)
  \/ \E a \in Actions : ToggleCapture(a)
  \/ CancelCapture
  \/ \E t \in Strokes, superSeen \in BOOLEAN : Stroke(t, superSeen)
  \/ \E a \in Actions : KeyDown(Parse(live[a]))

HotkeyStep == Polled \/ HotkeyElse

\* Every step of the desktop is one of them for the hotkeys.
LEMMA HotkeySteps == [Next]_vars => HotkeyStep
<1> SUFFICES ASSUME [Next]_vars PROVE HotkeyStep
  OBVIOUS
<1>1. CASE UNCHANGED vars
  BY <1>1 DEF vars, HotkeyStep, HotkeyElse
<1>2. CASE Acts
  <2>1. CASE Edit
    BY <2>1 DEF Edit, HotkeyStep, HotkeyElse
  <2>2. CASE ApplyHotkeys
    BY <2>2 DEF ApplyHotkeys, HotkeyStep, HotkeyElse
  <2>3. CASE WindowOnly(Window) \/ Tabs \/ \E saved \in BOOLEAN : SaveSettings(saved)
    BY <2>3 DEF WindowOnly, Tabs, SaveSettings, HotkeyStep, HotkeyElse
  <2> QED
    BY <1>2, <2>1, <2>2, <2>3 DEF Acts
<1>3. CASE Keyboard
  BY <1>3 DEF Keyboard, HotkeyStep, HotkeyElse
<1>4. CASE Reacts
  <2>1. CASE LetGo
    BY <2>1 DEF LetGo, HotkeyStep, HotkeyElse
  <2>2. CASE EndCapture
    BY <2>2 DEF EndCapture, HotkeyStep, HotkeyElse
  <2>3. CASE PollHotkeys
    BY <2>3 DEF PollHotkeys, HotkeyStep, HotkeyElse
  <2>4. CASE Exit
    BY <2>4 DEF Exit, HotkeyStep, HotkeyElse
  <2>5. CASE WindowOnly(Tray) \/ WindowOnly(InitialVisibility) \/ \E saved \in BOOLEAN : Autosave(saved)
    BY <2>5 DEF WindowOnly, Autosave, HotkeyStep, HotkeyElse
  <2>6. CASE HardQuit \/ TrayModels \/ StopButton \/ JobThread \/ Drain
    BY <2>6 DEF HardQuit, TrayModels, StopButton, JobThread, Drain, HotkeyStep, HotkeyElse
  <2> QED
    BY <1>4, <2>1, <2>2, <2>3, <2>4, <2>5, <2>6 DEF Reacts
<1> QED
  BY <1>1, <1>2, <1>3, <1>4 DEF Next

\* The grabs of a registered configuration.
LEMMA HubOfType ==
  ASSUME NEW keys \in Configs
  PROVE  HubOf(keys) \in Hub /\ HubOf(keys).bound = Combos(keys) /\ HubOf(keys).down = {}
<1>1. \A a \in Actions : Parse(keys[a]) \in Combo
  BY ParseType DEF Configs
<1> QED
  BY <1>1 DEF HubOf, Hub, Combos

\* No grabs at all.
LEMMA NoHubType == NoHub \in Hub /\ NoHub.down = {} /\ \A a \in Actions : NoHub.bound[a] = NoCombo
<1>1. NoCombo \in Combo
  BY DEF NoCombo, Combo
<1> QED
  BY <1>1 DEF NoHub, Hub

\* The types.
LEMMA HotkeyTypesStep == HotkeyTypes /\ HotkeyStep => HotkeyTypes'
<1> SUFFICES ASSUME HotkeyTypes, HotkeyStep PROVE HotkeyTypes'
  OBVIOUS
<1> USE DEF HotkeyTypes
<1>1. CASE UNCHANGED hotkeyVars
  BY <1>1 DEF hotkeyVars
<1>2. CASE Polled
  BY <1>2 DEF Polled
<1>3. CASE DropHub
  <2>1. PttWaits \in BOOLEAN
    BY DEF PttWaits
  <2> QED
    BY <1>3, <2>1, NoHubType DEF DropHub, Regrabbed
<1>4. CASE KeyUp
  <2>1. hub' \in Hub
    BY <1>4 DEF KeyUp, Hub
  <2>2. events' \in Seq([action : Actions, pressed : BOOLEAN])
    <3>1. CASE hub.down = {}
      BY <1>4, <3>1 DEF KeyUp
    <3>2. CASE hub.down # {}
      <4> DEFINE e == Event(CHOOSE a \in hub.down : TRUE, FALSE)
      <4>1. (CHOOSE a \in hub.down : TRUE) \in Actions
        BY <3>2 DEF Hub
      <4>2. e \in [action : Actions, pressed : BOOLEAN]
        BY <4>1 DEF Event
      <4>3. events' = Append(events, e)
        BY <1>4, <3>2 DEF KeyUp
      <4> HIDE DEF e
      <4> QED
        BY <4>2, <4>3
    <3> QED
      BY <3>1, <3>2
  <2> QED
    BY <1>4, <2>1, <2>2 DEF KeyUp
<1>5. CASE ApplyInvalid
  BY <1>5 DEF ApplyInvalid
<1>6. CASE ApplyGrabbed /\ Regrabbed
  <2>1. Valid(draft) /\ hub' = HubOf(Canonical(draft)) /\ live' = Canonical(draft) /\ draft' = live'
        /\ hotkeyError' = FALSE /\ capture' = "none" /\ events' = << >> /\ lost' = (lost \/ PttWaits)
    BY <1>6 DEF ApplyGrabbed, Regrabbed, CanRegister
  <2>2. PttWaits \in BOOLEAN
    BY DEF PttWaits
  <2>3. Canonical(draft) \in Configs
    BY <2>1, CanonicalSays
  <2>4. HubOf(Canonical(draft)) \in Hub
    BY <2>3, HubOfType
  <2>5. lost' \in BOOLEAN
    BY <2>1, <2>2
  <2>6. capture' \in Actions \union {"none"} /\ hotkeyError' \in BOOLEAN
    BY <2>1
  <2>7. events' \in Seq([action : Actions, pressed : BOOLEAN])
    BY <2>1
  <2>8. hub' \in Hub /\ live' \in Configs /\ draft' \in Configs
    BY <2>1, <2>3, <2>4
  <2> QED
    BY <2>5, <2>6, <2>7, <2>8
<1>7. CASE \E restored \in BOOLEAN : ApplyRefused(restored) /\ Regrabbed
  <2>1. /\ hub' \in {HubOf(live), NoHub} /\ hotkeyError' = TRUE /\ UNCHANGED << live, draft, capture >>
        /\ events' = << >> /\ lost' = (lost \/ PttWaits)
    BY <1>7 DEF ApplyRefused, Regrabbed
  <2>2. PttWaits \in BOOLEAN
    BY DEF PttWaits
  <2> QED
    BY <2>1, <2>2, HubOfType, NoHubType
<1>8. CASE \E a \in Actions, t \in Texts : EditDraft(a, t)
  BY <1>8, HotkeyAssumption DEF EditDraft, Configs
<1>9. CASE \E a \in Actions : ToggleCapture(a)
  BY <1>9 DEF ToggleCapture
<1>10. CASE CancelCapture
  BY <1>10 DEF CancelCapture
<1>11. CASE \E t \in Strokes, superSeen \in BOOLEAN : Stroke(t, superSeen)
  <2>1. PICK t \in Strokes, superSeen \in BOOLEAN : Stroke(t, superSeen)
    BY <1>11
  <2> DEFINE said == Parse(t)
             combo == IF superSeen THEN said ELSE [said EXCEPT !.mods = @ \ {"Super"}]
  <2>2. said \in Combo /\ (said # NoCombo => said.key # "none")
    BY ParseType, HotkeyAssumption
  <2> HIDE DEF said
  <2>3. combo \in Combo /\ (combo # NoCombo => combo.key # "none")
    <3>1. CASE superSeen
      BY <2>2, <3>1
    <3>2. CASE ~superSeen
      <4>1. combo = [said EXCEPT !.mods = @ \ {"Super"}]
        BY <3>2
      <4>2. combo \in Combo /\ combo.key = said.key
        BY <2>2, <4>1 DEF Combo
      <4>3. ASSUME said = NoCombo PROVE combo = NoCombo
        <5> HIDE DEF combo
        <5>1. combo = [mods |-> said.mods \ {"Super"}, key |-> said.key]
          BY <2>2, <4>1 DEF Combo
        <5>2. said.mods = {} /\ said.key = "none"
          BY <4>3 DEF NoCombo
        <5> QED
          BY <5>1, <5>2 DEF NoCombo
      <4> QED
        BY <2>2, <4>2, <4>3
    <3> QED
      BY <3>1, <3>2
  <2> HIDE DEF combo
  <2>4. /\ capture # "none" /\ capture' = "none" /\ hotkeyError' = (combo = NoCombo)
        /\ draft' = IF combo = NoCombo THEN draft ELSE [draft EXCEPT ![capture] = Format(combo)]
        /\ UNCHANGED << hub, live, events, lost >>
    BY <2>1 DEF Stroke, combo, said
  <2>5. combo # NoCombo => Format(combo) \in Seq(Tokens)
    BY <2>3, ParseFormat
  <2> QED
    BY <2>4, <2>5 DEF Configs
<1>12. CASE \E a \in Actions : KeyDown(Parse(live[a]))
  <2>1. PICK c : KeyDown(c)
    BY <1>12
  <2>2. Bound(c) \subseteq Actions
    BY DEF Bound
  <2>3. hub' \in Hub
    BY <2>1, <2>2 DEF KeyDown, Hub
  <2>4. events' \in Seq([action : Actions, pressed : BOOLEAN])
    <3>1. CASE Bound(c) = {}
      BY <2>1, <3>1 DEF KeyDown
    <3>2. CASE Bound(c) # {}
      <4> DEFINE e == Event(CHOOSE a \in Bound(c) : TRUE, TRUE)
      <4>1. (CHOOSE a \in Bound(c) : TRUE) \in Actions
        BY <3>2, <2>2
      <4>2. e \in [action : Actions, pressed : BOOLEAN]
        BY <4>1 DEF Event
      <4>3. events' = Append(events, e)
        BY <2>1, <3>2 DEF KeyDown
      <4> HIDE DEF e
      <4> QED
        BY <4>2, <4>3
    <3> QED
      BY <3>1, <3>2
  <2> QED
    BY <2>1, <2>3, <2>4 DEF KeyDown
<1> QED
  BY <1>1, <1>2, <1>3, <1>4, <1>5, <1>6, <1>7, <1>8, <1>9, <1>10, <1>11, <1>12 DEF HotkeyStep, HotkeyElse

\* The grabs follow the configuration.
LEMMA GrabsStep == HotkeyTypes /\ Grabs /\ HotkeyStep => Grabs'
<1> SUFFICES ASSUME HotkeyTypes, Grabs, HotkeyStep PROVE Grabs'
  OBVIOUS
<1>1. CASE UNCHANGED << hub, live, grabbed >>
  BY <1>1 DEF Grabs
<1>2. CASE DropHub
  BY <1>2 DEF DropHub, Grabs
<1>3. ASSUME hub'.bound = hub.bound, hub = NoHub => hub' = NoHub, UNCHANGED << live, grabbed >>
      PROVE  Grabs'
  BY <1>3 DEF Grabs
<1>4. CASE KeyUp
  <2>1. hub'.bound = hub.bound
    BY <1>4 DEF KeyUp, HotkeyTypes, Hub
  <2>2. hub = NoHub => hub' = NoHub
    BY <1>4 DEF KeyUp, NoHub
  <2> QED
    BY <1>3, <1>4, <2>1, <2>2 DEF KeyUp
<1>5. CASE \E a \in Actions : KeyDown(Parse(live[a]))
  <2>1. PICK c : KeyDown(c)
    BY <1>5
  <2>2. hub'.bound = hub.bound
    BY <2>1 DEF KeyDown, HotkeyTypes, Hub
  <2>3. ASSUME hub = NoHub PROVE hub' = NoHub
    <3>1. Bound(c) = {}
      BY <2>1, <2>3, NoHubType DEF KeyDown, Bound
    <3>2. hub.down \union Bound(c) = {}
      BY <2>3, <3>1, NoHubType
    <3> QED
      BY <2>1, <2>3, <3>2 DEF KeyDown, NoHub
  <2> QED
    BY <1>3, <2>1, <2>2, <2>3 DEF KeyDown
<1>6. CASE ApplyGrabbed
  <2> DEFINE keys == Canonical(draft)
  <2>1. /\ Valid(draft) /\ Parse(draft["read"]) # Parse(draft["ptt"])
        /\ hub' = HubOf(keys) /\ live' = keys /\ grabbed' = grabbed \union {keys}
    BY <1>6 DEF ApplyGrabbed, CanRegister
  <2>2. /\ keys \in Configs /\ Valid(keys) /\ Combos(keys) = Combos(draft) /\ Canonical(keys) = keys
    BY <2>1, CanonicalSays DEF HotkeyTypes
  <2>3. \A a \in Actions : Parse(keys[a]) = Parse(draft[a])
    <3> HIDE DEF keys
    <3>1. \A a \in Actions : Combos(keys)[a] = Parse(keys[a]) /\ Combos(draft)[a] = Parse(draft[a])
      BY DEF Combos
    <3> QED
      BY <2>2, <3>1
  <2>4. HubOf(keys).bound = Combos(keys)
    BY <2>2, HubOfType
  <2>5. Parse(keys["read"]) # Parse(keys["ptt"])
    BY <2>1, <2>3 DEF Actions
  <2> HIDE DEF keys
  <2> QED
    BY <2>1, <2>2, <2>4, <2>5 DEF Grabs
<1>7. CASE \E restored \in BOOLEAN : ApplyRefused(restored)
  <2>1. PICK restored \in BOOLEAN : ApplyRefused(restored)
    BY <1>7
  <2>2. UNCHANGED << live, grabbed >>
    BY <2>1 DEF ApplyRefused
  <2>3. CASE restored
    <3>1. hub' = HubOf(live) /\ Valid(live) /\ Parse(live["read"]) # Parse(live["ptt"])
      BY <2>1, <2>3 DEF ApplyRefused, CanRegister
    <3> QED
      BY <2>2, <3>1, HubOfType DEF Grabs, HotkeyTypes
  <2>4. CASE ~restored
    BY <2>1, <2>2, <2>4 DEF ApplyRefused, Grabs
  <2> QED
    BY <2>3, <2>4
<1>8. CASE \/ Polled \/ UNCHANGED hotkeyVars \/ ApplyInvalid \/ CancelCapture
           \/ \E a \in Actions, t \in Texts : EditDraft(a, t)
           \/ \E a \in Actions : ToggleCapture(a)
           \/ \E t \in Strokes, superSeen \in BOOLEAN : Stroke(t, superSeen)
  BY <1>1, <1>8 DEF Polled, hotkeyVars, ApplyInvalid, CancelCapture, EditDraft, ToggleCapture, Stroke
<1> QED
  BY <1>2, <1>4, <1>5, <1>6, <1>7, <1>8 DEF HotkeyStep, HotkeyElse

\* A combination is bound to one action at most.
LEMMA BoundOne ==
  ASSUME HotkeyTypes, Grabs, NEW c, c # NoCombo
  PROVE  Bound(c) \subseteq Actions /\ \A a, b \in Bound(c) : a = b
<1>1. CASE hub = NoHub
  BY <1>1, NoHubType DEF Bound
<1>2. CASE hub # NoHub
  <2>1. hub.bound["read"] # hub.bound["ptt"]
    BY <1>2 DEF Grabs, Combos, Actions
  <2> QED
    BY <2>1 DEF Bound, Actions
<1> QED
  BY <1>1, <1>2

\* What a press or a release puts at the end of the channel.
LEMMA EventsGrow ==
  ASSUME HotkeyTypes, NEW e \in [action : Actions, pressed : BOOLEAN],
         events' = Append(events, e)
  PROVE  /\ Len(events) \in Nat /\ DOMAIN events = 1..Len(events)
         /\ DOMAIN events' = 1..(Len(events) + 1)
         /\ events'[Len(events) + 1] = e
         /\ \A k \in DOMAIN events : events'[k] = events[k]
<1>1. events \in Seq([action : Actions, pressed : BOOLEAN])
  BY DEF HotkeyTypes
<1> QED
  BY <1>1

\* The events of an action, told apart.
LEMMA EventIs ==
  ASSUME NEW a \in Actions
  PROVE  /\ \A p \in BOOLEAN : Event(a, p) \in [action : Actions, pressed : BOOLEAN]
         /\ Event(a, FALSE) # Press /\ (Event(a, TRUE) = Press => a = "ptt")
         /\ (a = "ptt" => Event(a, FALSE) = Release)
BY DEF Event, Press, Release

\* Presses stay paired with their releases.
LEMMA PressedStep == HotkeyTypes /\ Grabs /\ Pressed /\ HotkeyStep => Pressed'
<1> SUFFICES ASSUME HotkeyTypes, Grabs, Pressed, HotkeyStep PROVE Pressed'
  OBVIOUS
<1>1. CASE UNCHANGED << hub, held, events >>
  BY <1>1 DEF Pressed, Press, Release, Event
<1>2. ASSUME hub'.down = {}, events' = << >> PROVE Pressed'
  BY <1>2 DEF Pressed
<1>3. CASE Polled
  <2>1. /\ UNCHANGED << hub, held >> /\ events # << >> /\ events' = Tail(events)
    BY <1>3 DEF Polled
  <2>2. events \in Seq([action : Actions, pressed : BOOLEAN])
    BY DEF HotkeyTypes
  <2>3. /\ Len(events) \in Nat \ {0} /\ DOMAIN events = 1..Len(events)
        /\ DOMAIN events' = 1..(Len(events) - 1)
        /\ \A k \in DOMAIN events' : events'[k] = events[k + 1]
    BY <2>1, <2>2
  <2>4. ASSUME NEW k \in DOMAIN events', events'[k] = Press, "ptt" \notin hub.down
        PROVE  \E j \in DOMAIN events' : k < j /\ events'[j] = Release
    <3>1. k + 1 \in DOMAIN events /\ events[k + 1] = Press /\ k \in Nat
      BY <2>3, <2>4
    <3>2. PICK j \in DOMAIN events : k + 1 < j /\ events[j] = Release
      BY <3>1, <2>4 DEF Pressed
    <3>3. j - 1 \in DOMAIN events' /\ k < j - 1 /\ events'[j - 1] = events[j]
      BY <2>3, <3>1, <3>2
    <3> QED
      BY <3>2, <3>3
  <2> QED
    BY <2>1, <2>4 DEF Pressed, Press, Release, Event
<1>4. CASE DropHub
  BY <1>2, <1>4, NoHubType DEF DropHub, Regrabbed
<1>5. CASE ApplyGrabbed /\ Regrabbed
  <2>1. Valid(draft) /\ hub' = HubOf(Canonical(draft)) /\ events' = << >>
    BY <1>5 DEF ApplyGrabbed, CanRegister, Regrabbed
  <2> QED
    BY <1>2, <2>1, CanonicalSays, HubOfType DEF HotkeyTypes
<1>6. CASE \E restored \in BOOLEAN : ApplyRefused(restored) /\ Regrabbed
  <2>1. hub' \in {HubOf(live), NoHub} /\ events' = << >>
    BY <1>6 DEF ApplyRefused, Regrabbed
  <2> QED
    BY <1>2, <2>1, HubOfType, NoHubType DEF HotkeyTypes
<1>7. CASE KeyUp
  <2>1. hub'.down = {}
    BY <1>7 DEF KeyUp, HotkeyTypes, Hub
  <2>2. CASE hub.down = {}
    <3>1. events' = events
      BY <1>7, <2>2 DEF KeyUp
    <3> QED
      BY <2>1, <2>2, <3>1 DEF Pressed, Press, Release, Event
  <2>3. CASE hub.down # {}
    <3> DEFINE a == CHOOSE x \in hub.down : TRUE
               e == Event(a, FALSE)
    <3>1. a \in hub.down /\ a \in Actions
      BY <2>3 DEF HotkeyTypes, Hub
    <3>2. events' = Append(events, e)
      BY <1>7, <2>3 DEF KeyUp
    <3> HIDE DEF a
    <3>a. e \in [action : Actions, pressed : BOOLEAN] /\ e # Press /\ (a = "ptt" => e = Release)
      BY <3>1, EventIs
    <3> HIDE DEF e
    <3>3. /\ Len(events) \in Nat /\ DOMAIN events = 1..Len(events)
          /\ DOMAIN events' = 1..(Len(events) + 1)
          /\ events'[Len(events) + 1] = e
          /\ \A k \in DOMAIN events : events'[k] = events[k]
      BY <3>2, <3>a, EventsGrow
    <3>4. ASSUME NEW k \in DOMAIN events', events'[k] = Press
          PROVE  \E j \in DOMAIN events' : k < j /\ events'[j] = Release
      <4>1. k # Len(events) + 1
        BY <3>3, <3>4, <3>a
      <4>2. k \in DOMAIN events /\ events[k] = Press
        BY <3>3, <3>4, <4>1
      <4>3. CASE "ptt" \in hub.down
        <5>1. a = "ptt"
          BY <3>1, <4>3 DEF Pressed
        <5> QED
          BY <3>3, <3>a, <4>2, <5>1
      <4>4. CASE "ptt" \notin hub.down
        <5>1. PICK j \in DOMAIN events : k < j /\ events[j] = Release
          BY <4>2, <4>4 DEF Pressed
        <5> QED
          BY <3>3, <5>1
      <4> QED
        BY <4>3, <4>4
    <3> QED
      BY <2>1, <3>4 DEF Pressed, Press, Release, Event
  <2> QED
    BY <2>2, <2>3
<1>8. CASE \E a \in Actions : KeyDown(Parse(live[a]))
  <2>1. PICK c : KeyDown(c)
    BY <1>8
  <2>2. /\ Bound(c) \subseteq Actions /\ \A a, b \in Bound(c) : a = b
    BY <2>1, BoundOne DEF KeyDown
  <2>3. hub.down = {} /\ hub'.down = Bound(c) /\ held' # NoCombo
    BY <2>1 DEF KeyDown, Pressed, HotkeyTypes, Hub
  <2>4. CASE Bound(c) = {}
    <3>1. events' = events
      BY <2>1, <2>4 DEF KeyDown
    <3> QED
      BY <2>3, <2>4, <3>1 DEF Pressed, Press, Release, Event
  <2>5. CASE Bound(c) # {}
    <3> DEFINE a == CHOOSE x \in Bound(c) : TRUE
               e == Event(a, TRUE)
    <3>1. a \in Bound(c) /\ a \in Actions
      BY <2>2, <2>5
    <3>2. events' = Append(events, e)
      BY <2>1, <2>5 DEF KeyDown
    <3> HIDE DEF a
    <3>a. e \in [action : Actions, pressed : BOOLEAN] /\ (e = Press => a = "ptt")
      BY <3>1, EventIs
    <3> HIDE DEF e
    <3>3. /\ Len(events) \in Nat /\ DOMAIN events = 1..Len(events)
          /\ DOMAIN events' = 1..(Len(events) + 1)
          /\ events'[Len(events) + 1] = e
          /\ \A k \in DOMAIN events : events'[k] = events[k]
      BY <3>2, <3>a, EventsGrow
    <3>4. ASSUME NEW k \in DOMAIN events', events'[k] = Press, "ptt" \notin hub'.down
          PROVE  \E j \in DOMAIN events' : k < j /\ events'[j] = Release
      <4>1. a # "ptt"
        BY <2>3, <3>1, <3>4
      <4>2. k # Len(events) + 1
        BY <3>3, <3>4, <4>1, <3>a
      <4>3. k \in DOMAIN events /\ events[k] = Press
        BY <3>3, <3>4, <4>2
      <4>4. PICK j \in DOMAIN events : k < j /\ events[j] = Release
        BY <4>3, <2>3 DEF Pressed
      <4> QED
        BY <3>3, <4>4
    <3> QED
      BY <2>2, <2>3, <3>4 DEF Pressed, Press, Release, Event
  <2> QED
    BY <2>4, <2>5
<1>9. CASE \/ UNCHANGED hotkeyVars \/ ApplyInvalid \/ CancelCapture
           \/ \E a \in Actions, t \in Texts : EditDraft(a, t)
           \/ \E a \in Actions : ToggleCapture(a)
           \/ \E t \in Strokes, superSeen \in BOOLEAN : Stroke(t, superSeen)
  BY <1>1, <1>9 DEF hotkeyVars, ApplyInvalid, CancelCapture, EditDraft, ToggleCapture, Stroke
<1> QED
  BY <1>3, <1>4, <1>5, <1>6, <1>7, <1>8, <1>9 DEF HotkeyStep, HotkeyElse

-----------------------------------------------------------------------------
(* The microphone and the hotkey.                                          *)

HotkeyOpen == mic.open /\ mic.intent = "hotkey"

\* Parts of dictation that do not open the microphone for the hotkey.
LEMMA MicLeft ==
  \/ UNCHANGED dictationVars \/ HandleCmd \/ HandleMsg \/ AskLoad \/ AskUnload \/ AskVoice
  \/ UnloadAllModels \/ ArmQuit \/ OnExit
  \/ \E starts \in BOOLEAN : BeginRecording("gui", starts)
  \/ \E m \in SttModels : SelectModel(m)
  \/ \E on \in BOOLEAN : SetCopy(on)
  \/ \E o \in StopOutcomes : EndRecording("gui", o)
  => (HotkeyOpen' /\ mic \in Mic => HotkeyOpen)
<1> SUFFICES ASSUME HotkeyOpen', mic \in Mic,
      \/ UNCHANGED dictationVars \/ HandleCmd \/ HandleMsg \/ AskLoad \/ AskUnload \/ AskVoice
      \/ UnloadAllModels \/ ArmQuit \/ OnExit
      \/ \E starts \in BOOLEAN : BeginRecording("gui", starts)
      \/ \E m \in SttModels : SelectModel(m)
      \/ \E on \in BOOLEAN : SetCopy(on)
      \/ \E o \in StopOutcomes : EndRecording("gui", o)
    PROVE HotkeyOpen
  OBVIOUS
<1>1. CASE mic' = mic
  BY <1>1 DEF HotkeyOpen
<1>2. CASE mic' = ClosedMic
  BY <1>2 DEF HotkeyOpen, ClosedMic
<1>3. CASE mic' = [mic EXCEPT !.open = FALSE]
  BY <1>3 DEF HotkeyOpen, Mic
<1>4. CASE mic' = [open |-> TRUE, intent |-> "gui", by |-> "gui"]
  BY <1>4 DEF HotkeyOpen
<1>5. UNCHANGED dictationVars \/ HandleCmd \/ AskLoad \/ AskUnload \/ AskVoice
      \/ (\E m \in SttModels : SelectModel(m)) \/ (\E on \in BOOLEAN : SetCopy(on))
      => mic' = mic
  BY DEF dictationVars, HandleCmd, AskLoad, AskUnload, AskVoice, SelectModel, SetCopy
<1>6. HandleMsg => mic' = mic
  BY DEF HandleMsg, GotModelStatus, GotSttLoaded, GotOther, GotTimedOut, GotFailed, GotTranscribed
<1>7. UnloadAllModels \/ ArmQuit \/ OnExit => mic' = ClosedMic \/ mic' = [mic EXCEPT !.open = FALSE]
  BY DEF UnloadAllModels, ArmQuit, OnExit
<1>8. (\E starts \in BOOLEAN : BeginRecording("gui", starts)) =>
        mic' \in {mic, ClosedMic, [open |-> TRUE, intent |-> "gui", by |-> "gui"]}
  BY DEF BeginRecording
<1>9. (\E o \in StopOutcomes : EndRecording("gui", o)) => mic' \in {mic, ClosedMic}
  BY DEF EndRecording
<1> QED
  BY <1>1, <1>2, <1>3, <1>4, <1>5, <1>6, <1>7, <1>8, <1>9

\* The microphone becomes, and stays, the hotkey's only by the events of the hotkey.
LEMMA MicHeld ==
  ASSUME mic \in Mic, [Next]_vars, HotkeyOpen'
  PROVE  \/ HotkeyOpen /\ HotkeyElse
         \/ HotkeyOpen /\ Polled /\ Head(events) # Release
         \/ Polled /\ Head(events) = Press
<1>1. CASE PollHotkeys
  <2> DEFINE e == Head(events)
  <2>1. Polled
    BY <1>1 DEF PollHotkeys
  <2>2. CASE e = Press
    BY <2>1, <2>2
  <2>3. CASE e = Release
    <3>1. Release # Press /\ Release # Event("read", TRUE) /\ Release # Event("read", FALSE)
      BY DEF Press, Release, Event
    <3>2. \E o \in StopOutcomes : EndRecording("hotkey", o)
      BY <1>1, <2>3, <3>1 DEF PollHotkeys, PttRelease, Press, Release
    <3>3. CASE mic.intent = "hotkey"
      BY <3>2, <3>3 DEF EndRecording, ReleaseMatches, IsOpenMic, HotkeyOpen, ClosedMic
    <3>4. CASE mic.intent # "hotkey"
      BY <3>2, <3>4 DEF EndRecording, ReleaseMatches, HotkeyOpen
    <3> QED
      BY <3>3, <3>4
  <2>4. CASE e # Press /\ e # Release
    <3>1. AskVoice \/ UNCHANGED dictationVars
      BY <1>1, <2>4 DEF PollHotkeys, Press, Release, Ignored
    <3>2. HotkeyOpen
      BY <3>1, MicLeft
    <3> QED
      BY <2>1, <2>4, <3>2
  <2> QED
    BY <2>2, <2>3, <2>4
<1>2. CASE ~PollHotkeys
  <2>1. \/ UNCHANGED dictationVars \/ HandleCmd \/ HandleMsg \/ AskLoad \/ AskUnload \/ AskVoice
        \/ UnloadAllModels \/ ArmQuit \/ OnExit
        \/ \E starts \in BOOLEAN : BeginRecording("gui", starts)
        \/ \E m \in SttModels : SelectModel(m)
        \/ \E on \in BOOLEAN : SetCopy(on)
        \/ \E o \in StopOutcomes : EndRecording("gui", o)
    <3>1. CASE UNCHANGED vars
      BY <3>1 DEF vars
    <3>2. CASE Acts
      BY <3>2 DEF Acts, Edit, ApplyHotkeys, WindowOnly, Tabs, SaveSettings
    <3>3. CASE Keyboard
      BY <3>3 DEF Keyboard
    <3>4. CASE LetGo \/ EndCapture \/ WindowOnly(Tray) \/ WindowOnly(InitialVisibility)
               \/ \E saved \in BOOLEAN : Autosave(saved)
      BY <3>4 DEF LetGo, EndCapture, WindowOnly, Autosave
    <3>5. CASE HardQuit \/ TrayModels \/ Exit \/ StopButton \/ JobThread \/ Drain
      BY <3>5 DEF HardQuit, TrayModels, Exit, StopsMic, StopButton, JobThread, Drain, Ignored
    <3> QED
      BY <1>2, <3>1, <3>2, <3>3, <3>4, <3>5 DEF Next, Reacts
  <2>2. HotkeyOpen
    BY <2>1, MicLeft
  <2>3. HotkeyElse
    <3>1. CASE UNCHANGED vars
      BY <3>1 DEF vars, HotkeyElse
    <3>2. CASE Edit
      BY <3>2 DEF Edit, HotkeyElse
    <3>3. CASE ApplyHotkeys
      BY <3>3 DEF ApplyHotkeys, HotkeyElse
    <3>4. CASE WindowOnly(Window) \/ Tabs \/ \E saved \in BOOLEAN : SaveSettings(saved)
      BY <3>4 DEF WindowOnly, Tabs, SaveSettings, HotkeyElse
    <3>5. CASE Keyboard
      BY <3>5 DEF Keyboard, HotkeyElse
    <3>6. CASE LetGo \/ EndCapture
      BY <3>6 DEF LetGo, EndCapture, HotkeyElse
    <3>7. CASE WindowOnly(Tray) \/ WindowOnly(InitialVisibility) \/ \E saved \in BOOLEAN : Autosave(saved)
      BY <3>7 DEF WindowOnly, Autosave, HotkeyElse
    <3>8. CASE HardQuit \/ TrayModels \/ Exit \/ StopButton \/ JobThread \/ Drain
      BY <3>8 DEF HardQuit, TrayModels, Exit, StopButton, JobThread, Drain, HotkeyElse
    <3> QED
      BY <1>2, <3>1, <3>2, <3>3, <3>4, <3>5, <3>6, <3>7, <3>8 DEF Next, Acts, Reacts
  <2> QED
    BY <2>2, <2>3
<1> QED
  BY <1>1, <1>2

\* A release that waits in the channel waits there still, but for the one taken.
LEMMA ReleaseWaits ==
  ASSUME HotkeyTypes, NEW k \in DOMAIN events, events[k] = Release
  PROVE  /\ Polled /\ Head(events) # Release => \E j \in DOMAIN events' : events'[j] = Release
         /\ KeyUp \/ (\E c : KeyDown(c)) => \E j \in DOMAIN events' : events'[j] = Release
<1>1. events \in Seq([action : Actions, pressed : BOOLEAN])
  BY DEF HotkeyTypes
<1>2. ASSUME Polled, Head(events) # Release
      PROVE  \E j \in DOMAIN events' : events'[j] = Release
  <2>1. events # << >> /\ events' = Tail(events)
    BY <1>2 DEF Polled
  <2>2. k # 1 /\ k \in 1..Len(events) /\ Len(events) \in Nat
    BY <1>1, <1>2, <2>1
  <2>3. k - 1 \in DOMAIN Tail(events) /\ Tail(events)[k - 1] = events[k]
    BY <1>1, <2>1, <2>2
  <2> QED
    BY <2>1, <2>3
<1>3. ASSUME NEW e \in [action : Actions, pressed : BOOLEAN], events' = Append(events, e)
      PROVE  \E j \in DOMAIN events' : events'[j] = Release
  BY <1>3, EventsGrow
<1>4. CASE KeyUp
  <2>1. hub.down \subseteq Actions
    BY DEF HotkeyTypes, Hub
  <2> DEFINE a == CHOOSE x \in hub.down : TRUE
             e == Event(a, FALSE)
  <2>2. events' = IF hub.down = {} THEN events ELSE Append(events, e)
    BY <1>4 DEF KeyUp
  <2>3. hub.down # {} => e \in [action : Actions, pressed : BOOLEAN]
    BY <2>1, EventIs
  <2> HIDE DEF e
  <2> QED
    BY <1>3, <2>2, <2>3
<1>5. ASSUME NEW c, KeyDown(c)
      PROVE  \E j \in DOMAIN events' : events'[j] = Release
  <2>1. Bound(c) \subseteq Actions
    BY DEF Bound
  <2> DEFINE a == CHOOSE x \in Bound(c) : TRUE
             e == Event(a, TRUE)
  <2>2. events' = IF Bound(c) = {} THEN events ELSE Append(events, e)
    BY <1>5 DEF KeyDown
  <2>3. Bound(c) # {} => e \in [action : Actions, pressed : BOOLEAN]
    BY <2>1, EventIs
  <2> HIDE DEF e
  <2> QED
    BY <1>3, <2>2, <2>3
<1> QED
  BY <1>2, <1>4, <1>5

\* A microphone that the hotkey opened stays held.
LEMMA HeldOpenStep ==
  ASSUME mic \in Mic, HotkeyTypes, Grabs, Pressed, HeldOpen, [Next]_vars
  PROVE  HeldOpen'
<1>0. HeldOpen <=> (HotkeyOpen /\ ~lost => "ptt" \in hub.down \/ \E k \in DOMAIN events : events[k] = Release)
  BY DEF HeldOpen, HotkeyOpen, Release
<1>0a. (HeldOpen <=> (HotkeyOpen /\ ~lost =>
          "ptt" \in hub.down \/ \E k \in DOMAIN events : events[k] = Release))'
  BY DEF HeldOpen, HotkeyOpen, Release, Event
<1> SUFFICES ASSUME HotkeyOpen', ~lost'
    PROVE  "ptt" \in hub'.down \/ \E k \in DOMAIN events' : events'[k] = Release
  BY <1>0a
<1>1. ASSUME HotkeyOpen, HotkeyElse
      PROVE  "ptt" \in hub'.down \/ \E k \in DOMAIN events' : events'[k] = Release
  <2>1. CASE lost \/ DropHub \/ (ApplyGrabbed /\ Regrabbed)
             \/ \E restored \in BOOLEAN : ApplyRefused(restored) /\ Regrabbed
    <3>1. ~lost /\ ~PttWaits
      <4>1. lost => lost'
        BY <1>1, <2>1 DEF HotkeyElse, hotkeyVars, DropHub, KeyUp, ApplyInvalid, Regrabbed, EditDraft,
                          ToggleCapture, CancelCapture, Stroke, KeyDown
      <4>2. DropHub \/ (ApplyGrabbed /\ Regrabbed)
            \/ (\E restored \in BOOLEAN : ApplyRefused(restored) /\ Regrabbed) => (PttWaits => lost')
        BY DEF DropHub, Regrabbed
      <4> QED
        BY <2>1, <4>1, <4>2
    <3>2. ("ptt" \in hub.down \/ \E k \in DOMAIN events : events[k] = Release) => PttWaits
      BY DEF PttWaits, Release, Event
    <3> QED
      BY <1>0, <1>1, <3>1, <3>2
  <2>2. CASE ~lost /\ KeyUp
    <3>1. CASE "ptt" \in hub.down
      <4> DEFINE a == CHOOSE x \in hub.down : TRUE
                 e == Event(a, FALSE)
      <4>1. a \in hub.down /\ a = "ptt" /\ a \in Actions
        BY <3>1 DEF Pressed, Actions
      <4>2. events' = Append(events, e)
        BY <2>2, <3>1 DEF KeyUp
      <4>3. e = Release /\ e \in [action : Actions, pressed : BOOLEAN]
        BY <4>1, EventIs
      <4> HIDE DEF e
      <4> QED
        BY <4>2, <4>3, EventsGrow
    <3> QED
      BY <1>0, <1>1, <2>2, <3>1, ReleaseWaits
  <2>3. CASE ~lost /\ \E a \in Actions : KeyDown(Parse(live[a]))
    <3>1. PICK c : KeyDown(c)
      BY <2>3
    <3>2. "ptt" \in hub.down => "ptt" \in hub'.down
      BY <3>1 DEF KeyDown, HotkeyTypes, Hub
    <3> QED
      BY <1>0, <1>1, <2>3, <3>1, <3>2, ReleaseWaits
  <2>4. CASE ~lost /\ UNCHANGED << hub, events >>
    BY <1>0, <1>1, <2>4
  <2>5. CASE
        \/ UNCHANGED hotkeyVars \/ ApplyInvalid \/ CancelCapture
        \/ (\E a \in Actions, t \in Texts : EditDraft(a, t))
        \/ (\E a \in Actions : ToggleCapture(a))
        \/ (\E t \in Strokes, superSeen \in BOOLEAN : Stroke(t, superSeen))
    <3>1. UNCHANGED << hub, events >>
      BY <2>5 DEF hotkeyVars, ApplyInvalid, CancelCapture, EditDraft, ToggleCapture, Stroke
    <3> QED
      BY <2>1, <2>4, <3>1
  <2> QED
    BY <1>1, <2>1, <2>2, <2>3, <2>4, <2>5 DEF HotkeyElse
<1>2. ASSUME HotkeyOpen, Polled, Head(events) # Release
      PROVE  "ptt" \in hub'.down \/ \E k \in DOMAIN events' : events'[k] = Release
  BY <1>0, <1>2, ReleaseWaits DEF Polled
<1>3. ASSUME Polled, Head(events) = Press
      PROVE  "ptt" \in hub'.down \/ \E k \in DOMAIN events' : events'[k] = Release
  <2>1. hub' = hub /\ events # << >> /\ events' = Tail(events)
    BY <1>3 DEF Polled
  <2>2. events \in Seq([action : Actions, pressed : BOOLEAN])
    BY DEF HotkeyTypes
  <2>3. 1 \in DOMAIN events /\ events[1] = Press
    BY <1>3, <2>1, <2>2
  <2>4. CASE "ptt" \notin hub.down
    <3>1. PICK j \in DOMAIN events : 1 < j /\ events[j] = Release
      BY <2>3, <2>4 DEF Pressed
    <3>2. j - 1 \in DOMAIN Tail(events) /\ Tail(events)[j - 1] = events[j]
      BY <2>1, <2>2, <3>1
    <3> QED
      BY <2>1, <3>1, <3>2
  <2> QED
    BY <2>1, <2>4
<1> QED
  BY <1>1, <1>2, <1>3, MicHeld

\* At the start nothing is pressed and what is grabbed, if anything, is configured.
LEMMA GrabInit == Init => GrabInv /\ HeldOpen /\ disk.keys \in grabbed
<1> SUFFICES ASSUME Init PROVE GrabInv /\ HeldOpen /\ disk.keys \in grabbed
  OBVIOUS
<1>1. /\ live \in OnDisk /\ draft = live /\ capture = "none" /\ hotkeyError = (hub = NoHub)
      /\ events = << >> /\ held = NoCombo /\ grabbed = {live} /\ lost = FALSE
      /\ mic = ClosedMic /\ disk.keys = live
  BY DEF Init, HotkeyInit, DictationInit
<1>2. PICK free \in BOOLEAN : hub = IF CanRegister(live, free) THEN HubOf(live) ELSE NoHub
  BY DEF Init, HotkeyInit
<1>3. live \in Configs
  BY <1>1, HotkeyAssumption
<1>4. hub \in Hub /\ hub.down = {}
  BY <1>2, <1>3, HubOfType, NoHubType
<1>5. ASSUME hub # NoHub
      PROVE  Valid(live) /\ hub.bound = Combos(live) /\ Parse(live["read"]) # Parse(live["ptt"])
  <2>1. CanRegister(live, free) /\ hub = HubOf(live)
    BY <1>2, <1>5
  <2> QED
    BY <1>3, <2>1, HubOfType DEF CanRegister
<1>6. HotkeyTypes
  <2>1. capture \in Actions \union {"none"} /\ events \in Seq([action : Actions, pressed : BOOLEAN])
    BY <1>1
  <2>2. hotkeyError \in BOOLEAN /\ lost \in BOOLEAN
    BY <1>1
  <2> QED
    BY <1>1, <1>3, <1>4, <2>1, <2>2 DEF HotkeyTypes
<1>7. Grabs
  BY <1>1, <1>5 DEF Grabs
<1>8. Pressed
  BY <1>1, <1>4 DEF Pressed
<1>9. HeldOpen
  BY <1>1 DEF HeldOpen, ClosedMic
<1> QED
  BY <1>1, <1>6, <1>7, <1>8, <1>9 DEF GrabInv

\* What is saved is the live configuration.
LEMMA SavedStep == Grabs /\ disk.keys \in grabbed /\ [Next]_vars => (disk.keys \in grabbed)'
<1> SUFFICES ASSUME Grabs, disk.keys \in grabbed, [Next]_vars PROVE disk'.keys \in grabbed'
  OBVIOUS
<1>1. live \in grabbed
  BY DEF Grabs
<1>2. grabbed \subseteq grabbed'
  BY HotkeySteps DEF HotkeyStep, HotkeyElse, hotkeyVars, Polled, DropHub, KeyUp, ApplyInvalid, ApplyGrabbed,
     ApplyRefused, EditDraft, ToggleCapture, CancelCapture, Stroke, KeyDown
<1>3. ASSUME NEW saved, NEW keys, Persist(saved, keys)
      PROVE  disk' = disk \/ disk'.keys = keys
  BY <1>3 DEF Persist
<1>4. disk' = disk \/ disk'.keys = live \/ disk'.keys \in grabbed'
  <2>1. CASE UNCHANGED vars
    BY <2>1 DEF vars, prefVars
  <2>2. CASE (\E saved \in BOOLEAN : SaveSettings(saved)) \/ (\E saved \in BOOLEAN : Autosave(saved))
    BY <2>2, <1>3 DEF SaveSettings, Autosave
  <2>3. CASE ApplyHotkeys
    <3>1. CASE ApplyGrabbed /\ \E saved \in BOOLEAN : Persist(saved, live')
      BY <3>1, <1>3 DEF ApplyGrabbed
    <3> QED
      BY <2>3, <3>1 DEF ApplyHotkeys, prefVars
  <2>4. CASE Edit \/ WindowOnly(Window) \/ Tabs \/ Keyboard
    BY <2>4 DEF Edit, WindowOnly, Tabs, Keyboard, prefVars
  <2>5. CASE LetGo \/ EndCapture \/ PollHotkeys \/ WindowOnly(Tray) \/ WindowOnly(InitialVisibility)
    BY <2>5 DEF LetGo, EndCapture, PollHotkeys, WindowOnly, prefVars
  <2>6. CASE HardQuit \/ TrayModels \/ Exit \/ StopButton \/ JobThread \/ Drain
    BY <2>6 DEF HardQuit, TrayModels, Exit, StopButton, JobThread, Drain, prefVars
  <2> QED
    BY <2>1, <2>2, <2>3, <2>4, <2>5, <2>6 DEF Next, Acts, Reacts
<1> QED
  BY <1>1, <1>2, <1>4

\* The inductive invariant of the hotkeys and the microphone.
LEMMA GrabCorrect == Spec => [](DictationTypeOK /\ GrabInv /\ HeldOpen /\ disk.keys \in grabbed)
<1> DEFINE Inv == GrabInv /\ HeldOpen /\ disk.keys \in grabbed
<1>1. Init => Inv
  BY GrabInit
<1>2. DictationTypeOK /\ Inv /\ [Next]_vars => Inv'
  BY HotkeySteps, HotkeyTypesStep, GrabsStep, PressedStep, HeldOpenStep, SavedStep
     DEF GrabInv, DictationTypeOK
<1>3. Spec => []DictationTypeOK
  BY DesktopDictates, DictationTypeCorrect, PTL DEF DictatesAsAlone
<1> QED
  BY <1>1, <1>2, <1>3, PTL DEF Spec

\* A microphone that a hotkey opened is held open by it: the hotkey is down or
\* its release is on its way (poll_events, ptt_press and ptt_release), unless an
\* Apply dropped the grabs meanwhile.
THEOREM HotkeyHoldsMicrophone == Spec => []HeldOpen
BY GrabCorrect, PTL

\* What is grabbed, live and saved is one configuration in canonical form, or
\* what the disk held (apply_hotkeys, HotkeyHub::register).
THEOREM GrabbedIsConfigured == Spec => []OnlyGrabbedKeys
<1>1. GrabInv /\ disk.keys \in grabbed => OnlyGrabbedKeys
  BY DEF GrabInv, Grabs, OnlyGrabbedKeys
<1> QED
  BY <1>1, GrabCorrect, PTL

-----------------------------------------------------------------------------
(* The window, the preferences and the end.                                *)

ShellTypes ==
  /\ {visible, tray, tried, startHidden, exitPrompt, armed} \subseteq BOOLEAN
  /\ phase \in Phases /\ menu \in Seq(TrayActions) /\ hidBy \in {"user", "program"}
  /\ lastSaved \in Prefs /\ disk.prefs \in Prefs

\* What a step does to the window.
LEMMA ShellSteps ==
  ASSUME [Next]_vars
  PROVE  \/ UNCHANGED shellVars \/ Window \/ Tray \/ InitialVisibility
         \/ ChoseQuit \/ ExitConfirmed \/ (\E a \in TrayActions : ChoseModel(a))
         \/ armed /\ CloseRequested
<1>1. CASE UNCHANGED vars
  BY <1>1 DEF vars
<1>2. CASE WindowOnly(Window) \/ WindowOnly(Tray) \/ WindowOnly(InitialVisibility)
  BY <1>2 DEF WindowOnly
<1>3. CASE HardQuit \/ TrayModels \/ Exit
  BY <1>3 DEF HardQuit, TrayModels, Exit, TrayActions
<1>4. CASE Edit \/ ApplyHotkeys \/ Tabs \/ (\E saved \in BOOLEAN : SaveSettings(saved)) \/ Keyboard
  BY <1>4 DEF Edit, ApplyHotkeys, Tabs, SaveSettings, Keyboard
<1>5. CASE LetGo \/ EndCapture \/ PollHotkeys \/ StopButton \/ JobThread \/ Drain
           \/ \E saved \in BOOLEAN : Autosave(saved)
  BY <1>5 DEF LetGo, EndCapture, PollHotkeys, StopButton, JobThread, Drain, Autosave
<1> QED
  BY <1>1, <1>2, <1>3, <1>4, <1>5 DEF Next, Acts, Reacts

\* What a step does to the preferences.
LEMMA PrefSteps ==
  ASSUME [Next]_vars
  PROVE  UNCHANGED prefVars \/ \E saved \in BOOLEAN : \E keys : Persist(saved, keys)
<1>1. CASE UNCHANGED vars
  BY <1>1 DEF vars
<1>2. CASE (\E saved \in BOOLEAN : SaveSettings(saved)) \/ (\E saved \in BOOLEAN : Autosave(saved))
  BY <1>2 DEF SaveSettings, Autosave
<1>3. CASE ApplyHotkeys
  BY <1>3 DEF ApplyHotkeys
<1>4. CASE Edit \/ WindowOnly(Window) \/ Tabs \/ Keyboard
  BY <1>4 DEF Edit, WindowOnly, Tabs, Keyboard
<1>5. CASE LetGo \/ EndCapture \/ PollHotkeys \/ WindowOnly(Tray) \/ WindowOnly(InitialVisibility)
  BY <1>5 DEF LetGo, EndCapture, PollHotkeys, WindowOnly
<1>6. CASE HardQuit \/ TrayModels \/ Exit \/ StopButton \/ JobThread \/ Drain
  BY <1>6 DEF HardQuit, TrayModels, Exit, StopButton, JobThread, Drain
<1> QED
  BY <1>1, <1>2, <1>3, <1>4, <1>5, <1>6 DEF Next, Acts, Reacts

\* The types of the window and of the preferences.
LEMMA ShellTypesStep == ShellTypes /\ DictationTypeOK /\ [Next]_vars => ShellTypes'
<1> SUFFICES ASSUME ShellTypes, DictationTypeOK, [Next]_vars PROVE ShellTypes'
  OBVIOUS
<1>1. /\ {visible, tray, tried, startHidden, exitPrompt, armed}' \subseteq BOOLEAN
      /\ phase' \in Phases /\ menu' \in Seq(TrayActions) /\ hidBy' \in {"user", "program"}
  <2>0. /\ {visible, tray, tried, startHidden, exitPrompt, armed} \subseteq BOOLEAN
        /\ phase \in Phases /\ menu \in Seq(TrayActions) /\ hidBy \in {"user", "program"}
    BY DEF ShellTypes
  <2>1. CASE UNCHANGED shellVars
    BY <2>0, <2>1 DEF shellVars
  <2>2. CASE Minimize \/ ExitClicked \/ ExitCancelled \/ CloseRequested
    BY <2>0, <2>2 DEF Minimize, ExitClicked, ExitCancelled, CloseRequested, Hide, Phases
  <2>3. CASE \E a \in TrayActions : Choose(a)
    BY <2>0, <2>3 DEF Choose
  <2>4. CASE (\E created \in BOOLEAN : EnsureTray(created)) \/ InitialVisibility
    BY <2>0, <2>4 DEF EnsureTray, InitialVisibility, Hide, Show
  <2>5. CASE ChoseOpen \/ ChoseQuit \/ ExitConfirmed \/ (\E a \in TrayActions : ChoseModel(a))
    <3>1. menu' = menu \/ (menu # << >> /\ menu' = Tail(menu))
      BY <2>5 DEF ChoseOpen, ChoseQuit, ExitConfirmed, ChoseModel, Chosen
    <3>2. menu' \in Seq(TrayActions)
      BY <2>0, <3>1
    <3>3. UNCHANGED << tray, tried, startHidden, hidBy >>
      BY <2>5 DEF ChoseOpen, ChoseQuit, ExitConfirmed, ChoseModel, Show
    <3>4. /\ visible' = visible \/ visible' = TRUE
          /\ exitPrompt' = exitPrompt \/ exitPrompt' = FALSE
          /\ armed' = armed \/ armed' = TRUE
          /\ phase' = phase \/ phase' = "closing"
      BY <2>5 DEF ChoseOpen, ChoseQuit, ExitConfirmed, ChoseModel, Show, Arm
    <3>5. {visible, tray, tried, startHidden, exitPrompt, armed}' \subseteq BOOLEAN
      BY <2>0, <3>3, <3>4
    <3>6. phase' \in Phases
      BY <2>0, <3>4 DEF Phases
    <3> QED
      BY <2>0, <3>2, <3>3, <3>5, <3>6
  <2> QED
    BY <2>1, <2>2, <2>3, <2>4, <2>5, ShellSteps DEF Window, Tray
<1>2. CurrentPrefs \in Prefs
  BY DEF DictationTypeOK, CurrentPrefs, Prefs, Stt
<1>3. lastSaved' \in Prefs /\ disk'.prefs \in Prefs
  <2>1. CASE UNCHANGED prefVars
    BY <2>1 DEF ShellTypes, prefVars
  <2>2. CASE \E saved \in BOOLEAN : \E keys : Persist(saved, keys)
    BY <1>2, <2>2 DEF ShellTypes, Persist
  <2> QED
    BY <2>1, <2>2, PrefSteps
<1> QED
  BY <1>1, <1>3 DEF ShellTypes

\* The types of the whole desktop.
THEOREM DesktopTypes == Spec => []TypeOK
<1>1. Init => ShellTypes
  <2> SUFFICES ASSUME Init PROVE ShellTypes
    OBVIOUS
  <2>1. lastSaved \in Prefs /\ disk.prefs \in Prefs
    BY DEF Init, DictationInit, CurrentPrefs, Prefs
  <2>2. /\ {visible, tray, tried, startHidden, exitPrompt, armed} \subseteq BOOLEAN
        /\ phase \in Phases /\ menu \in Seq(TrayActions) /\ hidBy \in {"user", "program"}
    <3>1. PICK hidden \in BOOLEAN : ShellInit(hidden)
      BY DEF Init
    <3>2. {visible, tray, tried, startHidden, exitPrompt, armed} \subseteq BOOLEAN
      BY <3>1 DEF ShellInit
    <3>3. phase \in Phases /\ menu \in Seq(TrayActions) /\ hidBy \in {"user", "program"}
      BY <3>1 DEF ShellInit, Phases
    <3> QED
      BY <3>2, <3>3
  <2> QED
    BY <2>1, <2>2 DEF ShellTypes
<1>2. DictationTypeOK /\ GrabInv /\ disk.keys \in grabbed /\ ShellTypes => TypeOK
  BY DEF GrabInv, HotkeyTypes, Grabs, ShellTypes, TypeOK
<1> QED
  BY <1>1, <1>2, ShellTypesStep, GrabCorrect, PTL DEF Spec

\* The program exits only when a quit is armed, and closes the microphone as it
\* does (on_exit of app/frame.rs).
THEOREM ExitsCleanly == Spec => QuitIsClean
<1>1. ASSUME DictationTypeOK, [Next]_vars, phase' = "exited", phase # "exited"
      PROVE  armed /\ ~mic'.open
  <2>1. Exit
    <3>1. ~UNCHANGED phase
      BY <1>1
    <3>2. CASE WindowOnly(Window)
      BY <3>1, <3>2 DEF WindowOnly, Window, Minimize, ExitClicked, ExitCancelled, CloseRequested, Choose
    <3>3. CASE WindowOnly(Tray) \/ WindowOnly(InitialVisibility)
      BY <3>1, <3>3 DEF WindowOnly, Tray, EnsureTray, ChoseOpen, InitialVisibility
    <3>4. CASE HardQuit
      BY <1>1, <3>4 DEF HardQuit, ChoseQuit, ExitConfirmed, Arm
    <3>5. CASE TrayModels
      BY <3>1, <3>5 DEF TrayModels, ChoseModel
    <3>6. CASE UNCHANGED shellVars
      BY <3>1, <3>6 DEF shellVars
    <3>7. UNCHANGED vars \/ Edit \/ ApplyHotkeys \/ Tabs \/ (\E saved \in BOOLEAN : SaveSettings(saved))
          \/ Keyboard \/ LetGo \/ EndCapture \/ PollHotkeys \/ StopButton \/ JobThread \/ Drain
          \/ (\E saved \in BOOLEAN : Autosave(saved)) => UNCHANGED shellVars
      BY DEF vars, Edit, ApplyHotkeys, Tabs, SaveSettings, Keyboard, LetGo, EndCapture, PollHotkeys,
             StopButton, JobThread, Drain, Autosave
    <3> QED
      BY <1>1, <3>2, <3>3, <3>4, <3>5, <3>6, <3>7 DEF Next, Acts, Reacts
  <2> QED
    BY <1>1, <2>1 DEF Exit, StopsMic, OnExit, DictationTypeOK, Mic
<1>2. DictationTypeOK /\ [Next]_vars => [phase' = "exited" /\ phase # "exited" => armed /\ ~mic'.open]_<< phase, mic >>
  BY <1>1
<1> QED
  BY <1>2, GrabCorrect, PTL DEF Spec, QuitIsClean

-----------------------------------------------------------------------------
(* What the two liveness properties of the run rest on.                    *)

\* A window the program hid has a tray, or initial_visibility has still to decide
\* about it (lifecycle.rs): there is no third case to be stuck in.
HiddenIsPending == ~visible /\ hidBy = "program" => tray \/ startHidden

\* A start hidden without a tray is never forgotten, whatever the user, the tray
\* and a quit do meanwhile.
THEOREM HiddenIsDecided == Spec => []HiddenIsPending
<1>1. Init => HiddenIsPending
  <2> SUFFICES ASSUME Init, ~visible PROVE startHidden
    BY DEF HiddenIsPending
  <2>1. PICK hidden \in BOOLEAN : visible = ~hidden /\ startHidden = hidden
    BY DEF Init, ShellInit
  <2>2. CASE hidden
    BY <2>1, <2>2
  <2>3. CASE ~hidden
    BY <2>1, <2>3
  <2> QED
    BY <2>2, <2>3
<1>2. HiddenIsPending /\ [Next]_vars => HiddenIsPending'
  <2> SUFFICES ASSUME HiddenIsPending, [Next]_vars PROVE HiddenIsPending'
    OBVIOUS
  <2>1. CASE UNCHANGED shellVars
    BY <2>1 DEF shellVars, HiddenIsPending
  <2>2. CASE Minimize \/ ExitClicked \/ ExitCancelled \/ CloseRequested
    BY <2>2 DEF Minimize, ExitClicked, ExitCancelled, CloseRequested, Hide, HiddenIsPending
  <2>3. CASE \E a \in TrayActions : Choose(a)
    BY <2>3 DEF Choose, HiddenIsPending
  <2>4. CASE (\E created \in BOOLEAN : EnsureTray(created)) \/ InitialVisibility
    BY <2>4 DEF EnsureTray, InitialVisibility, Hide, Show, HiddenIsPending
  <2>5. CASE ChoseOpen \/ ChoseQuit \/ ExitConfirmed \/ (\E a \in TrayActions : ChoseModel(a))
    BY <2>5 DEF ChoseOpen, ChoseQuit, ExitConfirmed, ChoseModel, Show, HiddenIsPending
  <2> QED
    BY <2>1, <2>2, <2>3, <2>4, <2>5, ShellSteps DEF Window, Tray
<1> QED
  BY <1>1, <1>2, PTL DEF Spec

\* What the frame compares the preferences with is what the disk has.
SavedIsOnDisk == lastSaved = disk.prefs

\* A preference that is not on the disk makes the frame save again
\* (autosave_prefs_if_dirty, app/state.rs): a save that failed never counts as
\* done, and what changes between the tries is not lost.
THEOREM UnsavedIsDirty == Spec => [](disk.prefs # CurrentPrefs => Dirty)
<1>1. Init => SavedIsOnDisk
  BY DEF Init, SavedIsOnDisk
<1>2. SavedIsOnDisk /\ [Next]_vars => SavedIsOnDisk'
  BY PrefSteps DEF SavedIsOnDisk, Persist, prefVars
<1>3. SavedIsOnDisk => (disk.prefs # CurrentPrefs => Dirty)
  BY DEF SavedIsOnDisk, Dirty
<1> QED
  BY <1>1, <1>2, <1>3, PTL DEF Spec
=============================================================================
