----------------------------- MODULE MCSession -----------------------------
(* Instances for TLC of what a session diagnoses and keeps: the engine, the *)
(* verdict on an action, recordings, reports and settings.  They share no   *)
(* state, so a behaviour is of one of them, with the others at their start. *)
EXTENDS MCDiagnosis, Verification, Recording, Reports, Settings

VARIABLE part

sessionVars ==
  <<part, vars, verificationVars, recordingVars, reportVars, settingsVars>>

\* Processes are only compared, as scopes are.
SessionSymmetry == ScopeSymmetry \cup Permutations(Process)

FrameSizes == <<2, 1, 4, 1, 2>>

SessionInit ==
  /\ part \in {"diagnosis", "verification", "recording", "reports", "settings"}
  /\ Init /\ VerificationInit /\ RecordingInit /\ ReportsInit /\ SettingsInit
  /\ part # "recording" => files = <<>>

\* A verdict is on the samples it saw: later ones change nothing.
SessionNext ==
  /\ UNCHANGED part
  /\ IF part = "diagnosis" THEN Next ELSE UNCHANGED vars
  /\ IF part = "verification"
     THEN VerificationNext /\ (verdict.result # "none" => UNCHANGED series)
     ELSE UNCHANGED verificationVars
  /\ IF part = "recording" THEN RecordingNext ELSE UNCHANGED recordingVars
  /\ IF part = "reports" THEN ReportsNext ELSE UNCHANGED reportVars
  /\ IF part = "settings" THEN SettingsNext ELSE UNCHANGED settingsVars

SessionSpec == SessionInit /\ [][SessionNext]_sessionVars

=============================================================================
