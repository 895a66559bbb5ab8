------------------------------ MODULE Settings ------------------------------
(***************************************************************************)
(* The settings file: written to a temporary file and renamed over the old *)
(* one when a process ends, read when one starts (settings.rs; run in      *)
(* main_linux.rs).  Nothing is synced.                                     *)
(***************************************************************************)
EXTENDS Naturals

CONSTANTS
  Launch,       \* running instances
  View,         \* indices of views (model::TABS has 14)
  MaxLaunches     \* bound: processes started

DefaultView == 12     \* Dense, the view of a first launch
Views == 13           \* load accepts the views below this number
ASSUME SettingsAssumption == View \subseteq 0..13 /\ MaxLaunches \in Nat

VARIABLES
  settings,     \* the settings file
  temporary,    \* per process: its temporary file
  session,      \* per process: its view and theme
  launches,       \* processes started
  saves,        \* settings of sessions that were saved (history)
  outage        \* whether the power failed (history)

settingsVars == <<settings, temporary, session, launches, saves, outage>>

NoFile == [kind |-> "none"]
Torn == [kind |-> "torn"]
Ended == [step |-> "ended"]
Session(step, v, t) == [step |-> step, view |-> v, theme |-> t]
Value(v, t) == [kind |-> "settings", view |-> v, theme |-> t]

SettingsInit ==
  /\ settings = NoFile
  /\ temporary = [p \in Launch |-> NoFile]
  /\ session = [p \in Launch |-> Ended]
  /\ launches = 0 /\ saves = {} /\ outage = FALSE

(* Settings::load: nothing unless the file parses and its view is one load  *)
(* knows; and what run makes of that.                                       *)
Load == IF settings.kind = "settings" /\ settings.view < Views
        THEN settings ELSE Value(DefaultView, FALSE)
Start(p) ==
  /\ session[p] = Ended /\ launches < MaxLaunches
  /\ launches' = launches + 1
  /\ session' = [session EXCEPT ![p] = Session("running", Load.view, Load.theme)]
  /\ UNCHANGED <<settings, temporary, saves, outage>>

(* The user switches the view or the theme.                                 *)
Choose(p) ==
  /\ session[p].step = "running"
  /\ \E v \in View, t \in BOOLEAN :
       session' = [session EXCEPT ![p] = Session("running", v, t)]
  /\ UNCHANGED <<settings, temporary, launches, saves, outage>>

(* Mutant: the settings file itself is truncated and written.               *)
SaveBeginsInPlace(p) ==
  /\ session[p].step = "running"
  /\ session' = [session EXCEPT ![p] = Session("saving", @.view, @.theme)]
  /\ temporary' = [temporary EXCEPT ![p] = Torn] /\ settings' = Torn
  /\ UNCHANGED <<launches, saves, outage>>

(* save: the temporary file is written, in full or not, then renamed.       *)
SaveBegins(p) ==
  /\ session[p].step = "running"
  /\ session' = [session EXCEPT ![p] = Session("saving", @.view, @.theme)]
  /\ temporary' = [temporary EXCEPT ![p] = Torn]
  /\ UNCHANGED <<settings, launches, saves, outage>>
SaveWrites(p) ==
  /\ session[p].step = "saving" /\ temporary[p] = Torn
  /\ temporary' = [temporary EXCEPT ![p] = Value(session[p].view, session[p].theme)]
  /\ UNCHANGED <<settings, session, launches, saves, outage>>
SaveRenames(p) ==
  /\ session[p].step = "saving" /\ temporary[p] # Torn
  /\ settings' = temporary[p]
  /\ temporary' = [temporary EXCEPT ![p] = NoFile]
  /\ saves' = saves \cup {Value(session[p].view, session[p].theme)}
  /\ session' = [session EXCEPT ![p] = Ended]
  /\ UNCHANGED <<launches, outage>>

(* A failed call, a signal or a crash ends the process where it is.         *)
ProcessEnds(p) ==
  /\ session[p] # Ended
  /\ session' = [session EXCEPT ![p] = Ended]
  /\ temporary' = [temporary EXCEPT ![p] = NoFile]
  /\ UNCHANGED <<settings, launches, saves, outage>>

(* The rename may be durable before the data it names.                      *)
SettingsPowerFails ==
  /\ session' = [p \in Launch |-> Ended]
  /\ temporary' = [p \in Launch |-> NoFile]
  /\ settings' \in {settings, NoFile, Torn} \cup saves
  /\ outage' = TRUE
  /\ UNCHANGED <<launches, saves>>

SettingsNext ==
  \/ \E p \in Launch :
       Start(p) \/ Choose(p) \/ SaveBegins(p) \/ SaveWrites(p) \/ SaveRenames(p) \/ ProcessEnds(p)
  \/ SettingsPowerFails
-----------------------------------------------------------------------------
(* While the power holds, a process killed or failing while it saves costs  *)
(* its own settings only: the file is what one session saved, as a whole,   *)
(* and a launch with no such file has the defaults.                         *)
SettingsAreOfOneSession ==
  ~outage => settings \in {NoFile} \cup saves

=============================================================================
