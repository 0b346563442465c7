-------------------------------- MODULE MCTools --------------------------------
(***************************************************************************)
(* What the tool does to files and processes that are not its own, side by *)
(* side: the upgrade of its binary, the log that several servers share,    *)
(* the block in a configuration of the user, a run of an assistant, and    *)
(* the settings that a Test changes with its author.                       *)
(* `part` is the one that runs, the others rest.                           *)
(***************************************************************************)
EXTENDS SelfUpgrade, EventLog, ManagedConfig, AssistantRun, AssistantSettings

VARIABLE part

toolVars == <<part, upgradeVars, logVars, installVars, assistantVars, settingsVars>>

\* The other parts rest in one of their initial states.
MCInit ==
  /\ part \in {"upgrade", "log", "install", "run", "settings"}
  /\ UpgradeInit /\ LogInit /\ InstallInit /\ RunInit /\ SettingsInit
  /\ part # "upgrade" => published = 1 /\ binary = 1 /\ old = NoFile
  /\ part # "log" => content[1] = <<>>
  /\ part # "install" => config = Nothing
  /\ part # "settings" => stored = DefaultSettings

MCNext ==
  \/ part = "upgrade" /\ UpgradeNext
       /\ UNCHANGED <<part, logVars, installVars, assistantVars, settingsVars>>
  \/ part = "log" /\ LogNext
       /\ UNCHANGED <<part, upgradeVars, installVars, assistantVars, settingsVars>>
  \/ part = "install" /\ InstallNext
       /\ UNCHANGED <<part, upgradeVars, logVars, assistantVars, settingsVars>>
  \/ part = "run" /\ AssistantNext
       /\ UNCHANGED <<part, upgradeVars, logVars, installVars, settingsVars>>
  \/ part = "settings" /\ SettingsNext
       /\ UNCHANGED <<part, upgradeVars, logVars, installVars, assistantVars>>

\* The fairness of AssistantFairSpec.
MCSpec ==
  /\ MCInit /\ [][MCNext]_toolVars
  /\ WF_toolVars(ShellStep /\ UNCHANGED <<part, upgradeVars, logVars, installVars, settingsVars>>)
================================================================================
