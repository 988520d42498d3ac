------------------------------- MODULE Update -------------------------------
(***************************************************************************)
(* vnc-gtav/update.py: back up the scripts, delete the installation,       *)
(* download a new one, and copy the backup back when that fails.           *)
(*                                                                         *)
(* Only the scripts are told apart, one model value each.  A directory is  *)
(* absent or holds some of them.  Both rmdir calls may leave anything that *)
(* is in use: run_win_cmd never sees their exit code, because it reads     *)
(* returncode without having waited for the process.                       *)
(***************************************************************************)
EXTENDS FiniteSets, Naturals

CONSTANTS
  Scripts,   \* the .py files of an installation
  MaxRuns    \* bound on how often the user runs the update

ASSUME UpdateAssumption == MaxRuns \in Nat

VARIABLES
  installed,   \* the scripts under UNIVERSE_WINDOWS_ENVS_DIR
  envDir,      \* that directory exists
  backup,      \* the scripts under BACKUP_DIR
  step,        \* where update.py is
  todo,        \* files the copy or the extraction has yet to write
  runs,        \* runs so far
  before,      \* history: the scripts that were there when this run began
  result       \* what the last run told the user

vars == <<installed, envDir, backup, step, todo, runs, before, result>>

UpdateStep ==
  {"idle", "removeBackup", "copy", "removeEnv", "download", "extract",
   "restore", "copyBack"}

Result == {"none", "noFiles", "copyFailed", "complete", "retry", "reinstall"}

TypeOK ==
  /\ installed \subseteq Scripts
  /\ envDir \in BOOLEAN
  /\ backup \subseteq Scripts
  /\ step \in UpdateStep
  /\ todo \subseteq Scripts
  /\ runs \in 0 .. MaxRuns
  /\ before \subseteq Scripts
  /\ result \in Result
  /\ installed # {} => envDir

\* A complete installation, which has never been updated.
Init ==
  /\ installed = Scripts
  /\ envDir = TRUE
  /\ backup = {}
  /\ step = "idle" /\ todo = {} /\ runs = 0
  /\ before = Scripts
  /\ result = "none"

-----------------------------------------------------------------------------

StepAt(from, to) == step = from /\ step' = to

Run ==
  /\ runs < MaxRuns
  /\ StepAt("idle", "removeBackup")
  /\ runs' = runs + 1
  /\ before' = installed
  /\ result' = "none"
  /\ UNCHANGED <<installed, envDir, backup, todo>>

\* rmdir BACKUP_DIR: it may leave what is in use.
RemoveBackup ==
  /\ StepAt("removeBackup", "copy")
  /\ \E left \in SUBSET backup : backup' = left
  /\ todo' = installed
  /\ UNCHANGED <<installed, envDir, runs, before, result>>

\* os.walk and shutil.copy2.
CopyOne ==
  /\ step = "copy"
  /\ \E f \in todo :
       /\ backup' = backup \union {f}
       /\ todo' = todo \ {f}
  /\ UNCHANGED <<installed, envDir, step, runs, before, result>>

\* Variant: a failed copy of one script does not stop the update.
CopyFails_Ignored ==
  /\ step = "copy"
  /\ \E f \in todo : todo' = todo \ {f}
  /\ UNCHANGED <<installed, envDir, backup, step, runs, before, result>>

\* An exception of copy2 or makedirs ends the run: it is outside try_updating.
CopyFails ==
  /\ StepAt("copy", "idle")
  /\ todo # {}
  /\ todo' = {}
  /\ result' = "copyFailed"
  /\ UNCHANGED <<installed, envDir, backup, runs, before>>

\* if not backed_up: raise
NothingToCopy ==
  /\ StepAt("copy", "idle")
  /\ todo = {} /\ installed = {}
  /\ result' = "noFiles"
  /\ UNCHANGED <<installed, envDir, backup, todo, runs, before>>

CopyDone ==
  /\ StepAt("copy", "removeEnv")
  /\ todo = {} /\ installed # {}
  /\ UNCHANGED <<installed, envDir, backup, todo, runs, before, result>>

\* rmdir UNIVERSE_WINDOWS_ENVS_DIR: with something left, so is the directory.
RemoveEnv ==
  /\ StepAt("removeEnv", "download")
  /\ \E left \in SUBSET installed, dir \in BOOLEAN :
       /\ left # {} => dir
       /\ installed' = left
       /\ envDir' = dir
  /\ UNCHANGED <<backup, todo, runs, before, result>>

\* urlretrieve and ZipFile
Download ==
  /\ StepAt("download", "extract")
  /\ todo' = Scripts
  /\ UNCHANGED <<installed, envDir, backup, runs, before, result>>

DownloadFails ==
  /\ StepAt("download", "restore")
  /\ UNCHANGED <<installed, envDir, backup, todo, runs, before, result>>

\* extractall, which creates the directory with its first file.
ExtractOne ==
  /\ step = "extract"
  /\ \E f \in todo :
       /\ installed' = installed \union {f}
       /\ todo' = todo \ {f}
  /\ envDir' = TRUE
  /\ UNCHANGED <<backup, step, runs, before, result>>

ExtractFails ==
  /\ StepAt("extract", "restore")
  /\ todo' = {}
  /\ UNCHANGED <<installed, envDir, backup, runs, before, result>>

Complete ==
  /\ StepAt("extract", "idle")
  /\ todo = {}
  /\ result' = "complete"
  /\ UNCHANGED <<installed, envDir, backup, todo, runs, before>>

\* Variant: an existing directory is taken for a restored one.
RestoreFails_Quietly ==
  /\ StepAt("restore", "idle")
  /\ envDir
  /\ result' = "retry"
  /\ UNCHANGED <<installed, envDir, backup, todo, runs, before>>

\* shutil.copytree refuses a directory that exists.
RestoreFails ==
  /\ StepAt("restore", "idle")
  /\ envDir
  /\ result' = "reinstall"
  /\ UNCHANGED <<installed, envDir, backup, todo, runs, before>>

Restore ==
  /\ StepAt("restore", "copyBack")
  /\ ~ envDir
  /\ envDir' = TRUE
  /\ todo' = backup
  /\ UNCHANGED <<installed, backup, runs, before, result>>

CopyBackOne ==
  /\ step = "copyBack"
  /\ \E f \in todo :
       /\ installed' = installed \union {f}
       /\ todo' = todo \ {f}
  /\ UNCHANGED <<envDir, backup, step, runs, before, result>>

\* copytree collects the errors of single files and raises them at the end.
CopyBackFails ==
  /\ StepAt("copyBack", "idle")
  /\ todo # {}
  /\ todo' = {}
  /\ result' = "reinstall"
  /\ UNCHANGED <<installed, envDir, backup, runs, before>>

Restored ==
  /\ StepAt("copyBack", "idle")
  /\ todo = {}
  /\ result' = "retry"
  /\ UNCHANGED <<installed, envDir, backup, todo, runs, before>>

Next ==
  \/ Run \/ RemoveBackup
  \/ CopyOne \/ CopyFails \/ NothingToCopy \/ CopyDone
  \/ RemoveEnv \/ Download \/ DownloadFails
  \/ ExtractOne \/ ExtractFails \/ Complete
  \/ RestoreFails \/ Restore \/ CopyBackOne \/ CopyBackFails \/ Restored

Spec == Init /\ [][Next]_vars

-----------------------------------------------------------------------------
(* Properties.                                                             *)

(* The two messages of update.py:49-53 mean what they say: a user who is asked
   to retry has every script that was there before, so that there is something
   to retry with. *)
RetryIsPossible == result = "retry" => before \subseteq installed

(* From the moment the installation is being deleted until the run is over,
   every script it had is in the backup (update.py:18-31, 68-70). *)
BackupIsComplete ==
  step \in {"removeEnv", "download", "extract", "restore", "copyBack"}
    => before \subseteq backup
=============================================================================
