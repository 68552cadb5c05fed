------------------------------- MODULE Hotkeys -------------------------------
(***************************************************************************)
(* The two global hotkeys: their configuration texts, the editor's drafts, *)
(* the grabs of HotkeyHub and the events the grabs deliver (hotkeys.rs,    *)
(* hotkey_apply.rs, the hotkey handlers of app/shell.rs and app/tabs.rs).  *)
(*                                                                         *)
(*   hub      the grabs in force: what each action is bound to and which   *)
(*            of the two it has seen pressed; or none                      *)
(*   live     cfg.hotkeys; draft is the editor's texts                     *)
(*   capture  the field that listens for a key; hotkeyError, whether an    *)
(*            error is shown                                               *)
(*   events   the crate-global channel of hotkey events                    *)
(*   held     the combination that is physically held down                 *)
(*                                                                         *)
(* A text is a sequence of tokens, those between its plus signs.           *)
(* History: grabbed holds every configuration that was read from the disk  *)
(* or grabbed; lost says that the grabs went while push-to-talk was down   *)
(* or had an event waiting.                                                *)
(***************************************************************************)
EXTENDS Naturals, Sequences, FiniteSets

CONSTANTS
  Tokens,    \* the tokens a text is made of
  Texts,     \* the texts the user may type as a draft
  Strokes,   \* the key strokes the user may make while a field captures
  OnDisk     \* the configurations the config file may start with

Actions == {"read", "ptt"}
Configs == [Actions -> Seq(Tokens)]

ASSUME TokenAssumption == {"Super", "Ctrl", "Alt", "Shift", "S", "R", "F5"} \subseteq Tokens
ASSUME HotkeyAssumption ==
  Texts \subseteq Seq(Tokens) /\ Strokes \subseteq Seq(Tokens) /\ OnDisk \subseteq Configs

VARIABLES hub, live, draft, capture, hotkeyError, events, held, grabbed, lost

hotkeyVars == << hub, live, draft, capture, hotkeyError, events, held, grabbed, lost >>

(***************************************************************************)
(* Texts and combinations.                                                 *)
(***************************************************************************)
\* The modifier a token names, whatever its case, or none.
ModifierOf(t) ==
  CASE t \in {"Super", "super", "meta", "win", "cmd"} -> "Super"
    [] t \in {"Ctrl", "ctrl", "control"}              -> "Ctrl"
    [] t \in {"Alt", "alt", "option"}                 -> "Alt"
    [] t \in {"Shift", "shift"}                       -> "Shift"
    [] OTHER -> "none"

\* Code::from_str of the upper-cased token: letters, digits and function keys
\* have codes whose names are upper case; Space and the other named keys have
\* not, so no text that names one parses.
CodeOf(t) ==
  CASE t \in {"S", "s"} -> "KeyS" [] t \in {"R", "r"} -> "KeyR"
    [] t \in {"F5", "f5"} -> "F5" [] OTHER -> "none"

TokenOf(code) == CASE code = "KeyS" -> "S" [] code = "KeyR" -> "R" [] OTHER -> code

IsModifier(t) == ModifierOf(t) # "none"

Combo   == [mods : SUBSET {"Super", "Ctrl", "Alt", "Shift"}, key : {"KeyS", "KeyR", "F5", "none"}]
NoCombo == [mods |-> {}, key |-> "none"]

\* parse_hotkey: the modifiers named anywhere, the last key named; a token that
\* is neither spoils the text.
Parse(text) ==
  LET keys == {k \in DOMAIN text : ~IsModifier(text[k])}
      last == CHOOSE k \in keys : \A i \in keys : i <= k
  IN  IF keys = {} \/ \E k \in keys : CodeOf(text[k]) = "none" THEN NoCombo
      ELSE [ mods |-> {ModifierOf(text[k]) : k \in DOMAIN text \ keys},
             key  |-> CodeOf(text[last]) ]

\* format_hotkey: the modifiers in their fixed order, then the key.
Named(c, m) == IF m \in c.mods THEN << m >> ELSE << >>

Format(c) ==
  Named(c, "Super") \o Named(c, "Ctrl") \o Named(c, "Alt") \o Named(c, "Shift") \o << TokenOf(c.key) >>

Valid(keys)    == \A a \in Actions : Parse(keys[a]) # NoCombo
Combos(keys)   == [a \in Actions |-> Parse(keys[a])]
Canonical(keys) == [a \in Actions |-> Format(Parse(keys[a]))]

(***************************************************************************)
(* The grabs.                                                              *)
(***************************************************************************)
Hub == [bound : [Actions -> Combo], down : SUBSET Actions]
NoHub == [bound |-> [a \in Actions |-> NoCombo], down |-> {}]
HubOf(keys) == [bound |-> Combos(keys), down |-> {}]

\* register: both texts parse, no other client holds either combination, and
\* they differ, one manager refusing to bind the same combination twice.
CanRegister(keys, free) == Valid(keys) /\ free /\ Parse(keys["read"]) # Parse(keys["ptt"])

PttWaits == "ptt" \in hub.down \/ \E k \in DOMAIN events : events[k].action = "ptt"

\* apply_hotkeys: the old grabs are released and their events drained before
\* the new ones are tried; when those fail, the previous texts are grabbed
\* again if they can be.
ApplyInvalid ==
  /\ ~Valid(draft)
  /\ hotkeyError' = TRUE
  /\ UNCHANGED << hub, live, draft, capture, events, held, grabbed, lost >>

ApplyGrabbed ==
  /\ CanRegister(draft, TRUE)
  /\ hub' = HubOf(Canonical(draft))
  /\ live' = Canonical(draft) /\ draft' = live'
  /\ hotkeyError' = FALSE /\ capture' = "none"
  /\ grabbed' = grabbed \union {live'}

\* Mutant: the new texts are committed before they are grabbed.
ApplyRefusedCommits(restored) ==
  /\ Valid(draft)
  /\ restored => CanRegister(live, TRUE)
  /\ hub' = IF restored THEN HubOf(live) ELSE NoHub
  /\ live' = Canonical(draft)
  /\ hotkeyError' = TRUE
  /\ UNCHANGED << draft, capture, grabbed >>

ApplyRefused(restored) ==
  /\ Valid(draft)
  /\ restored => CanRegister(live, TRUE)
  /\ hub' = IF restored THEN HubOf(live) ELSE NoHub
  /\ hotkeyError' = TRUE
  /\ UNCHANGED << live, draft, capture, grabbed >>

Regrabbed ==
  /\ events' = << >>
  /\ lost' = (lost \/ PttWaits)
  /\ UNCHANGED held

\* on_exit drops the hub.
DropHub ==
  /\ hub' = NoHub
  /\ Regrabbed
  /\ UNCHANGED << live, draft, capture, hotkeyError, grabbed >>

(***************************************************************************)
(* The keyboard (external): a grab reports the press and the release of its *)
(* combination; a release whose press it did not see goes unreported.      *)
(***************************************************************************)
Event(a, pressed) == [action |-> a, pressed |-> pressed]

Bound(c) == {a \in Actions : hub.bound[a] = c}

KeyDown(c) ==
  /\ held = NoCombo /\ c # NoCombo
  /\ held' = c
  /\ hub' = [hub EXCEPT !.down = @ \union Bound(c)]
  /\ events' = IF Bound(c) = {} THEN events
               ELSE Append(events, Event(CHOOSE a \in Bound(c) : TRUE, TRUE))
  /\ UNCHANGED << live, draft, capture, hotkeyError, grabbed, lost >>

KeyUp ==
  /\ held # NoCombo
  /\ held' = NoCombo
  /\ hub' = [hub EXCEPT !.down = {}]
  /\ events' = IF hub.down = {} THEN events
               ELSE Append(events, Event(CHOOSE a \in hub.down : TRUE, FALSE))
  /\ UNCHANGED << live, draft, capture, hotkeyError, grabbed, lost >>

\* poll_events, one event at a time; without a hub nobody reads the channel.
Polled ==
  /\ hub # NoHub /\ events # << >>
  /\ events' = Tail(events)
  /\ UNCHANGED << hub, live, draft, capture, hotkeyError, held, grabbed, lost >>

(***************************************************************************)
(* The editor.                                                             *)
(***************************************************************************)
EditDraft(a, text) ==
  /\ capture # a /\ draft[a] # text
  /\ draft' = [draft EXCEPT ![a] = text]
  /\ UNCHANGED << hub, live, capture, hotkeyError, events, held, grabbed, lost >>

ToggleCapture(a) ==
  /\ capture' = IF capture = a THEN "none" ELSE a
  /\ UNCHANGED << hub, live, draft, hotkeyError, events, held, grabbed, lost >>

CancelCapture ==
  /\ capture # "none"
  /\ capture' = "none"
  /\ UNCHANGED << hub, live, draft, hotkeyError, events, held, grabbed, lost >>

\* A stroke on the capturing field; Super is asked of the X server, and taken
\* for released when the query fails.
Stroke(tokens, superSeen) ==
  LET said  == Parse(tokens)
      combo == IF superSeen THEN said ELSE [said EXCEPT !.mods = @ \ {"Super"}]
  IN  /\ capture # "none"
      /\ capture' = "none"
      /\ hotkeyError' = (combo = NoCombo)
      /\ draft' = IF combo = NoCombo THEN draft ELSE [draft EXCEPT ![capture] = Format(combo)]
      /\ UNCHANGED << hub, live, events, held, grabbed, lost >>

HotkeyInit ==
  /\ live \in OnDisk /\ draft = live
  /\ \E free \in BOOLEAN : hub = IF CanRegister(live, free) THEN HubOf(live) ELSE NoHub
  /\ capture = "none" /\ hotkeyError = (hub = NoHub)
  /\ events = << >> /\ held = NoCombo
  /\ grabbed = {live} /\ lost = FALSE

=============================================================================
