---------------------------- MODULE SettingsPage ----------------------------
(***************************************************************************)
(* The page of settings: its draft, its questions and its custom values in *)
(* crates/mountmate-app/src/main.rs, and the task that saves it in         *)
(* crates/mountmate-app/src/configuration.rs.                              *)
(*                                                                         *)
(* The page is a copy of the settings and of each connection's choice to   *)
(* be mounted at login.  Questions asked on it are answered later, on the  *)
(* same page, on another one or on none; the task that saves it runs while *)
(* messages go on arriving, and its writes may fail.                       *)
(*                                                                         *)
(* A text is its leading number and the rest; three settings stand for the *)
(* page's: a size, which has units, the number of uploads, which has none, *)
(* and the color.  What moves the secrets when their storage changes is    *)
(* ConnectionStore.                                                        *)
(***************************************************************************)
EXTENDS Naturals, FiniteSets

CONSTANTS
  Conns,        \* connections
  Interactive,  \* those that cannot be mounted at login
  Texts,        \* what the user types: texts
  Presets,      \* what the list of each setting offers: texts
  SavedSize,    \* the size saved before: a text
  MaxUploads,   \* MAX_VFS_UPLOAD_TRANSFERS
  None,         \* nothing
  MaxEdits,     \* bound: changes and questions on the page
  MaxSaves,     \* bound: times something is saved
  MaxFaults     \* bound: writes that fail

VARIABLES
  disk,       \* the settings and the login choices that are saved
  window,     \* the same as the window knows them
  draft,      \* the page, or None
  custom,     \* the custom value that is open, or None
  questions,  \* questions on the screen, as <<setting, value>>
  work,       \* the task that saves
  listed,     \* the login choice the list of connections is saving, or None
  agreed,     \* history: what the user said yes to
  edits, saves, faults

vars == <<disk, window, draft, custom, questions, work, listed, agreed, edits, saves, faults>>

Text(n, rest) == [n |-> n, rest |-> rest]
Empty == Text(None, "")
Kinds == {"size", "uploads"}
Storages == {"obscure", "system"}

----------------------------------------------------------------------------
(* Custom values                                                           *)

Units(kind) == IF kind = "size" THEN <<"Mi", "Gi">> ELSE <<>>
IsUnit(kind, u) == \E i \in DOMAIN Units(kind) : Units(kind)[i] = u
Digits(text) == text.n # None /\ text.rest = ""

\* split_custom_setting: the digits and the unit.
FirstUnit(kind, text) ==  \* mutant
  IF Units(kind) = <<>> THEN [digits |-> Text(text.n, ""), unit |-> ""]
  ELSE [digits |-> Text(text.n, ""), unit |-> Units(kind)[1]]
Split(kind, text) ==
  IF Units(kind) = <<>> THEN [digits |-> Text(text.n, ""), unit |-> ""]
  ELSE IF text = Empty THEN [digits |-> Empty, unit |-> Units(kind)[1]]
  ELSE IF IsUnit(kind, text.rest) THEN [digits |-> Text(text.n, ""), unit |-> text.rest]
  ELSE [digits |-> text, unit |-> ""]

\* custom_setting_is_supported: the editor's fields can say it.
Supported(kind, text) ==
  \/ text = Empty
  \/ kind = "uploads" /\ text.rest = ""
  \/ kind # "uploads" /\ text.n # None /\ IsUnit(kind, text.rest)

AnyUploads(text) == Digits(text)  \* mutant
UploadsOk(text) == Digits(text) /\ text.n \in 1..MaxUploads
\* validate_setting_value
AnySize(text) == TRUE  \* mutant
SizeOk(text) == text.rest # "white space"

\* custom_setting_value: None when it is refused.
CustomValue(c) ==
  IF c.digits = Empty THEN None
  ELSE IF c.raw # None THEN c.raw
  ELSE IF ~Digits(c.digits) THEN None
  ELSE IF c.kind = "uploads" THEN IF UploadsOk(c.digits) THEN c.digits ELSE None
  ELSE Text(c.digits.n, c.unit)

----------------------------------------------------------------------------
(* The page                                                                *)

Defaults == [size |-> SavedSize, uploads |-> Text(1, ""), storage |-> "obscure", auto |-> TRUE,
             accent |-> "theme", color |-> None]
Idle == [step |-> "none", settings |-> None, flags |-> None, before |-> None, failed |-> {}]

Init ==
  /\ disk = [settings |-> Defaults, flags |-> [c \in Conns |-> FALSE]]
  /\ window = disk
  /\ draft = None
  /\ custom = None
  /\ questions = {}
  /\ work = Idle
  /\ listed = None
  /\ agreed = {}
  /\ edits = 0
  /\ saves = 0
  /\ faults = 0

Saving == work.step # "none"

\* SettingsDraft::from_settings and the choices of the window's connections.
FromSettings ==
  [s |-> [window.settings EXCEPT !.color = IF @ = None THEN "no color" ELSE @],
   flags |-> window.flags, touched |-> {}]
\* Message::OpenSettings
WhenOpened == ~Saving  \* mutant: the list that is saving is not looked at
MayOpen == ~Saving /\ listed = None
OpenSettings ==
  /\ MayOpen
  /\ draft' = FromSettings
  /\ UNCHANGED <<disk, window, custom, questions, work, listed, agreed, edits, saves, faults>>
\* Message::CancelEditor, Message::OpenBatchManagement: what is open over the page stays.
Close ==
  /\ draft # None
  /\ ~Saving
  /\ draft' = None
  /\ UNCHANGED <<disk, window, custom, questions, work, listed, agreed, edits, saves, faults>>

\* is_editor_mutation: while something is saved the page does not change.
DecisionsLate(message) == Saving /\ message # "answer"  \* mutant
Blocked(message) == Saving
Edit(message) == ~Blocked(message) /\ edits < MaxEdits /\ edits' = edits + 1
OnDraft(new) == draft' = IF draft = None THEN None ELSE new
others == <<disk, window, work, listed, saves, faults>>

\* Message::SettingOptionChanged
PickPreset(kind, text) ==
  /\ Edit("pick")
  /\ OnDraft([draft EXCEPT !.s[kind] = text])
  /\ UNCHANGED <<custom, questions, agreed, others>>
OpenCustom(kind) ==
  /\ Edit("pick")
  /\ LET current == IF draft = None THEN Empty ELSE draft.s[kind]
         ok == Supported(kind, current)
     IN custom' = [kind |-> kind, digits |-> IF ok THEN Split(kind, current).digits ELSE current,
                   unit |-> Split(kind, current).unit, raw |-> IF ok THEN None ELSE current,
                   from |-> current]
  /\ UNCHANGED <<draft, questions, agreed, others>>
\* Message::CustomSettingDigitsChanged, Message::CustomSettingUnitChanged
SetInput(text) ==
  /\ Edit("custom")
  /\ custom # None
  /\ custom' = [custom EXCEPT !.raw = IF @ = None THEN None ELSE text, !.digits = text, !.from = None]
  /\ UNCHANGED <<draft, questions, agreed, others>>
SetUnit(u) ==
  /\ Edit("custom")
  /\ custom # None
  /\ IsUnit(custom.kind, u)
  /\ custom' = [custom EXCEPT !.unit = u, !.from = None]
  /\ UNCHANGED <<draft, questions, agreed, others>>
\* Message::SaveCustomSetting, Message::CancelCustomSetting
SaveCustom ==
  /\ ~Blocked("custom")
  /\ custom # None
  /\ CustomValue(custom) # None
  /\ custom' = None
  /\ OnDraft([draft EXCEPT !.s[custom.kind] = CustomValue(custom)])
  /\ UNCHANGED <<questions, agreed, edits, others>>
CancelCustom ==
  /\ ~Blocked("custom")
  /\ custom' = None
  /\ UNCHANGED <<draft, questions, agreed, edits, others>>

\* Message::CredentialStorageChanged, Message::AutoTransfersChanged: a question, unless
\* nothing changes or the pop-up is only switched on.
Current(field) == IF draft = None THEN window.settings[field] ELSE draft.s[field]
AskStorage(target) ==
  /\ Edit("ask")
  /\ target # Current("storage")
  /\ questions' = questions \cup {<<"storage", target>>}
  /\ UNCHANGED <<draft, custom, agreed, others>>
AskAuto(value) ==
  /\ Edit("ask")
  /\ IF value THEN OnDraft([draft EXCEPT !.s.auto = TRUE]) /\ UNCHANGED questions
     ELSE questions' = questions \cup {<<"auto", FALSE>>} /\ UNCHANGED draft
  /\ UNCHANGED <<custom, agreed, others>>
\* Message::CredentialStorageDecision, Message::AutoTransfersDecision
EitherWay(yes) == TRUE  \* mutant
Yes(yes) == yes
Answer(q, yes) ==
  /\ questions' = questions \ {q}
  /\ agreed' = agreed \cup (IF yes THEN {q} ELSE {})
  /\ IF ~Blocked("answer") /\ Yes(yes) THEN OnDraft([draft EXCEPT !.s[q[1]] = q[2]])
     ELSE UNCHANGED draft
  /\ UNCHANGED <<custom, edits, others>>

\* Message::AccentColorChanged: a custom color begins as the one in use.
Accent(accent) ==
  /\ Edit("pick")
  /\ OnDraft([draft EXCEPT !.s.accent = accent,
                           !.s.color = IF accent = "custom" /\ @ = "no color" THEN "color" ELSE @])
  /\ UNCHANGED <<custom, questions, agreed, others>>
\* Message::CustomAccentColorChanged
Color(text) ==
  /\ Edit("pick")
  /\ OnDraft([draft EXCEPT !.s.color = text])
  /\ UNCHANGED <<custom, questions, agreed, others>>
\* Message::SettingsConnectionStartupChanged
Startup(c, value) ==
  /\ Edit("pick")
  /\ c \notin Interactive
  /\ OnDraft([draft EXCEPT !.flags[c] = value, !.touched = @ \cup {c}])
  /\ UNCHANGED <<custom, questions, agreed, others>>

----------------------------------------------------------------------------
(* Saving                                                                  *)

\* SettingsDraft::build: None when it is refused.
Built(d) ==
  IF ~SizeOk(d.s.size) \/ ~UploadsOk(d.s.uploads) \/ (d.s.accent = "custom" /\ d.s.color = "no color")
  THEN None
  ELSE [d.s EXCEPT !.color = IF @ = "no color" THEN None ELSE @]
\* connection_preference_updates
Updates(d) == [c \in Conns |-> d.flags[c] /\ c \notin Interactive]

\* save_settings of the window
SaveSettings ==
  /\ ~Saving
  /\ draft # None
  /\ Built(draft) # None
  /\ saves < MaxSaves
  /\ saves' = saves + 1
  /\ work' = [step |-> "flags", settings |-> Built(draft), flags |-> Updates(draft),
              before |-> window, failed |-> {}]
  /\ UNCHANGED <<disk, window, draft, custom, questions, listed, agreed, edits, faults>>

\* configuration::save_settings: the choices, the settings, the entry at login.
Goes(ok) == IF ok THEN UNCHANGED faults ELSE faults < MaxFaults /\ faults' = faults + 1
idle == <<window, draft, custom, questions, listed, agreed, edits, saves>>
WriteFlags(ok) ==
  /\ work.step = "flags"
  /\ Goes(ok)
  /\ disk' = IF ok THEN [disk EXCEPT !.flags = work.flags] ELSE disk
  /\ work' = IF ok THEN [work EXCEPT !.step = "settings"]
             ELSE [work EXCEPT !.step = "over", !.failed = {"flags"}]
  /\ UNCHANGED idle
WriteSettings(ok) ==
  /\ work.step = "settings"
  /\ Goes(ok)
  /\ disk' = IF ok THEN [disk EXCEPT !.settings = work.settings] ELSE disk
  /\ work' = IF ok THEN [work EXCEPT !.step = "over"]
             ELSE [work EXCEPT !.step = "undo", !.failed = {"settings"}]
  /\ UNCHANGED idle
\* Whether the storage changed or not, the choices go back to what they were.
LeftSo == disk.flags  \* mutant
PutBack == work.before.flags
Undo(ok) ==
  /\ work.step = "undo"
  /\ Goes(ok)
  /\ disk' = IF ok THEN [disk EXCEPT !.flags = PutBack] ELSE disk
  /\ work' = [work EXCEPT !.step = "over", !.failed = IF ok THEN @ ELSE @ \cup {"undo"}]
  /\ UNCHANGED idle

\* Message::SettingsSaved
SettingsSaved ==
  /\ work.step = "over"
  /\ work' = Idle
  /\ IF work.failed = {}
     THEN window' = [settings |-> work.settings, flags |-> work.flags] /\ draft' = None
     ELSE UNCHANGED <<window, draft>>
  /\ UNCHANGED <<disk, custom, questions, listed, agreed, edits, saves, faults>>

\* Message::BatchStartupChanged, on the list of connections, which is there when no page
\* is; its task and Message::BatchStartupSaved.
BatchStartup(c, value) ==
  /\ draft = None
  /\ ~Saving
  /\ listed = None
  /\ saves < MaxSaves
  /\ saves' = saves + 1
  /\ listed' = [c |-> c, value |-> value, done |-> FALSE]
  /\ UNCHANGED <<disk, window, draft, custom, questions, work, agreed, edits, faults>>
ListWritten ==
  /\ listed # None
  /\ ~listed.done
  /\ disk' = [disk EXCEPT !.flags[listed.c] = listed.value]
  /\ listed' = [listed EXCEPT !.done = TRUE]
  /\ UNCHANGED <<window, draft, custom, questions, work, agreed, edits, saves, faults>>
ListSaved ==
  /\ listed # None
  /\ listed.done
  /\ listed' = None
  /\ window' = [window EXCEPT !.flags = disk.flags]
  /\ UNCHANGED <<disk, draft, custom, questions, work, agreed, edits, saves, faults>>

Next ==
  \/ OpenSettings \/ Close \/ SaveCustom \/ CancelCustom \/ SaveSettings \/ SettingsSaved
  \/ \E kind \in Kinds : OpenCustom(kind) \/ \E text \in Presets[kind] : PickPreset(kind, text)
  \/ \E text \in Texts : SetInput(text)
  \/ \E u \in {"Mi", "Gi"} : SetUnit(u)
  \/ \E target \in Storages : AskStorage(target)
  \/ \E q \in questions, yes \in BOOLEAN : Answer(q, yes)
  \/ \E accent \in {"theme", "custom"} : Accent(accent)
  \/ \E text \in {"color", "no color"} : Color(text)
  \/ \E b \in BOOLEAN : AskAuto(b) \/ WriteFlags(b) \/ WriteSettings(b) \/ Undo(b)
  \/ \E c \in Conns, value \in BOOLEAN : Startup(c, value) \/ BatchStartup(c, value)
  \/ ListWritten \/ ListSaved

Spec == Init /\ [][Next]_vars

----------------------------------------------------------------------------

TypeOK ==
  /\ disk.settings.storage \in Storages /\ disk.flags \in [Conns -> BOOLEAN]
  /\ draft = None \/ draft.flags \in [Conns -> BOOLEAN]
  /\ work.step \in {"none", "flags", "settings", "undo", "over"}
  /\ agreed \subseteq ({"storage"} \X Storages) \cup {<<"auto", FALSE>>}
  /\ edits \in 0..MaxEdits /\ saves \in 0..MaxSaves /\ faults \in 0..MaxFaults

\* While the page is saved it shows what is being saved: no answer or choice that arrives
\* meanwhile changes a page that is about to close, where it would be lost unseen.
SavedAsShown ==
  Saving => draft # None /\ Built(draft) = work.settings /\ Updates(draft) = work.flags

\* What is saved is what rclone and the window accept, whichever way it was entered.
OnlyValid ==
  /\ disk.settings.uploads.rest = "" /\ disk.settings.uploads.n \in 1..MaxUploads
  /\ disk.settings.size.rest # "white space"
  /\ disk.settings.accent = "custom" => disk.settings.color # None

\* The storage of secrets changes, and the pop-up of transfers is switched off, only after
\* the user said yes to that. (Every step.)
AskedFirst ==
  /\ disk'.settings.storage # disk.settings.storage =>
       <<"storage", disk'.settings.storage>> \in agreed
  /\ disk.settings.auto /\ ~disk'.settings.auto =>
       <<"auto", FALSE>> \in agreed

\* Saving the page does not take back a choice made on the list of connections: what was
\* not touched on the page stays. (Every step.)
FlagsKept ==
  work.step = "flags" /\ work'.step = "settings" =>
    \A c \in Conns \ (Interactive \cup draft.touched) : disk'.flags[c] = disk.flags[c]

\* A save that fails leaves settings and choices as they were, unless undoing fails too.
FailedUndone ==
  work.step = "over" /\ work.failed # {} /\ "undo" \notin work.failed => disk = work.before

\* A custom value that is opened and saved untouched stays what it was, also when the
\* fields of the editor cannot say it. (Every step.)
CustomKeeps ==
  (custom # None /\ custom' = None /\ custom.from # None /\ draft # None /\ draft' # draft)
    => draft'.s[custom.kind] = custom.from
=============================================================================
