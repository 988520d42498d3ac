---------------------------- MODULE MachineProofs ---------------------------
(***************************************************************************)
(* Proofs about the Python scripts, which share no state: update.py for    *)
(* any set of scripts and any number of runs, copy_ami.py for any regions  *)
(* and any number of releases and of versions that are kept, and           *)
(* run_vnc_env.py whatever an earlier run has left.                        *)
(*                                                                         *)
(* That a user who is asked to retry has everything back rests on where    *)
(* each script of the run is at every step (Kept): installed while the     *)
(* backup is made, in the backup from then on, and at the end installed or *)
(* still to be copied back.                                                *)
(***************************************************************************)
EXTENDS Update, AmiRelease, Supervisor, WellFoundedInduction, TLAPS

Kept ==
  /\ step \in {"removeBackup", "copy"} => before \subseteq installed
  /\ step = "copy" => installed \ todo \subseteq backup
  /\ BackupIsComplete
  /\ step = "copyBack" => envDir /\ before \subseteq installed \union todo

Told ==
  /\ step # "idle" => result = "none"
  /\ RetryIsPossible

IInv == TypeOK /\ Kept /\ Told

(* A step keeps the inductive invariant. *)
LEMMA Step == IInv /\ [Next]_vars => IInv'
<1> SUFFICES ASSUME IInv, [Next]_vars PROVE IInv'
  OBVIOUS
<1> USE UpdateAssumption DEF IInv, TypeOK, Kept, Told, BackupIsComplete,
        RetryIsPossible, UpdateStep, Result, StepAt
<1>1. CASE Run
  BY <1>1 DEF Run
<1>2. CASE RemoveBackup
  BY <1>2 DEF RemoveBackup
<1>3. CASE CopyOne
  BY <1>3 DEF CopyOne
<1>4. CASE CopyFails
  BY <1>4 DEF CopyFails
<1>5. CASE NothingToCopy
  BY <1>5 DEF NothingToCopy
<1>6. CASE CopyDone
  BY <1>6 DEF CopyDone
<1>7. CASE RemoveEnv
  BY <1>7 DEF RemoveEnv
<1>8. CASE Download
  BY <1>8 DEF Download
<1>9. CASE DownloadFails
  BY <1>9 DEF DownloadFails
<1>10. CASE ExtractOne
  BY <1>10 DEF ExtractOne
<1>11. CASE ExtractFails
  BY <1>11 DEF ExtractFails
<1>12. CASE Complete
  BY <1>12 DEF Complete
<1>13. CASE RestoreFails
  BY <1>13 DEF RestoreFails
<1>14. CASE Restore
  BY <1>14 DEF Restore
<1>15. CASE CopyBackOne
  BY <1>15 DEF CopyBackOne
<1>16. CASE CopyBackFails
  BY <1>16 DEF CopyBackFails
<1>17. CASE Restored
  BY <1>17 DEF Restored
<1>18. CASE UNCHANGED vars
  BY <1>18 DEF vars
<1> QED
  BY <1>1, <1>2, <1>3, <1>4, <1>5, <1>6, <1>7, <1>8,
     <1>9, <1>10, <1>11, <1>12, <1>13, <1>14, <1>15, <1>16,
     <1>17, <1>18
     DEF Next

(* It holds of every reachable state. *)
LEMMA Invariance == Spec => []IInv
<1>1. Init => IInv
  BY UpdateAssumption
     DEF Init, IInv, TypeOK, Kept, Told, BackupIsComplete, RetryIsPossible,
         UpdateStep, Result
<1>2. IInv /\ [Next]_vars => IInv'
  BY Step
<1> QED
  BY <1>1, <1>2, PTL DEF Spec

(* The types; with them, that scripts are installed only where the directory
   is there, whatever was left of it (update.py:38-59). *)
THEOREM UpdateTypes == Spec => []TypeOK
<1>1. IInv => TypeOK
  BY DEF IInv
<1> QED
  BY <1>1, Invariance, PTL

(* From the deletion of the installation to the end of the run, the backup
   holds every script the run began with (update.py:18-31, 68-70). *)
THEOREM BackupCompleteWhileDeleted == Spec => []BackupIsComplete
<1>1. IInv => BackupIsComplete
  BY DEF IInv, Kept
<1> QED
  BY <1>1, Invariance, PTL

(* Who is asked to retry has every script back (update.py:38-54, 63-64). *)
THEOREM RetryAlwaysPossible == Spec => []RetryIsPossible
<1>1. IInv => RetryIsPossible
  BY DEF IInv, Told
<1> QED
  BY <1>1, Invariance, PTL

-----------------------------------------------------------------------------
(***************************************************************************)
(* The release of images.  They are deregistered only when the queue of    *)
(* copies has run empty, and a copy leaves the queue only when it has been *)
(* made public: so a region that loses an old image has the new one to     *)
(* offer.                                                                  *)
(***************************************************************************)

Queued == {queue[k] : k \in DOMAIN queue}

ReleaseTypeOK ==
  /\ version \in Nat
  /\ images \in [Regions -> SUBSET (1 .. version)]
  /\ public \in [Regions -> SUBSET (1 .. version)]
  /\ ready \subseteq Regions /\ left \subseteq Regions /\ offered \subseteq Regions
  /\ queue \in Seq(Regions)
  /\ stage \in {"idle", "copy", "publish", "cleanup"}
  /\ stage # "idle" => version # 0

\* Where the image of this version is, region by region.
OnTheWay ==
  /\ stage = "copy" => Regions \subseteq Queued \union left
  /\ stage = "publish" => \A r \in Regions \ Queued : version \in public[r]
  /\ stage = "cleanup" => \A r \in Regions : version \in public[r]

ReleaseInv == ReleaseTypeOK /\ OnTheWay /\ NeverWithout

(* A set of numbers that is not empty has a least one. *)
LEMMA LeastOfNat ==
  ASSUME NEW S \in SUBSET Nat, S # {}
  PROVE  \E w \in S : \A u \in S : w <= u
<1>1. PICK w \in S : \A u \in S : ~ (<<u, w>> \in OpToRel(<, Nat))
  BY NatLessThanWellFounded, WFMin
<1>2. \A u \in S : ~ (u < w)
  BY <1>1 DEF OpToRel
<1> QED
  BY <1>2

(* Working at the end of the queue takes out the last region or rotates it to
   the front. *)
LEMMA QueueEnd ==
  ASSUME ReleaseTypeOK, queue # <<>>
  PROVE  /\ Last(queue) \in Regions
         /\ Front(queue) \in Seq(Regions)
         /\ Queued = {Front(queue)[k] : k \in DOMAIN Front(queue)} \union {Last(queue)}
         /\ <<Last(queue)>> \o Front(queue) \in Seq(Regions)
<1> DEFINE n == Len(queue)
<1>1. n \in Nat \ {0} /\ queue \in [1 .. n -> Regions]
  BY DEF ReleaseTypeOK
<1>2. Last(queue) = queue[n] /\ Last(queue) \in Regions
  BY <1>1 DEF Last
<1>3. /\ Front(queue) \in Seq(Regions) /\ Len(Front(queue)) = n - 1
      /\ \A k \in 1 .. n - 1 : Front(queue)[k] = queue[k]
  BY <1>1 DEF Front, ReleaseTypeOK
<1>4. Queued = {Front(queue)[k] : k \in DOMAIN Front(queue)} \union {Last(queue)}
  <2>1. DOMAIN queue = 1 .. n /\ DOMAIN Front(queue) = 1 .. n - 1
    BY <1>1, <1>3
  <2> HIDE DEF n
  <2> QED
    BY <1>1, <1>2, <1>3, <2>1 DEF Queued
<1> QED
  BY <1>2, <1>3, <1>4

(* What is deregistered is an image of another version. *)
LEMMA DeregistersOld ==
  ASSUME ReleaseInv, NEW r \in Regions, Deregister(r)
  PROVE  \E v \in Nat \ {version} :
           /\ images' = [images EXCEPT ![r] = @ \ {v}]
           /\ public' = [public EXCEPT ![r] = @ \ {v}]
<1> DEFINE v == CHOOSE w \in Old(r) : \A u \in Old(r) : w <= u
<1>1. Old(r) \subseteq Nat \ {version} /\ Old(r) # {}
  <2>1. images[r] \in SUBSET (1 .. version)
    BY DEF ReleaseInv, ReleaseTypeOK
  <2>2. Old(r) \subseteq images[r] \ {version} /\ Old(r) # {}
    BY DEF Old, Deregister
  <2> QED
    BY <2>1, <2>2
<1>2. \E w \in Old(r) : \A u \in Old(r) : w <= u
  BY <1>1, LeastOfNat
<1>3. v \in Nat \ {version}
  BY <1>1, <1>2
<1> QED
  BY <1>3 DEF Deregister

(* A step of the release keeps the inductive invariant. *)
LEMMA ReleaseStep == ReleaseInv /\ [NextRelease]_releaseVars => ReleaseInv'
<1> SUFFICES ASSUME ReleaseInv, [NextRelease]_releaseVars PROVE ReleaseInv'
  OBVIOUS
<1> USE ReleaseAssumption DEF ReleaseInv, ReleaseTypeOK, OnTheWay, NeverWithout, StageAt
<1>1. CASE Release
  <2>1. queue' = <<SourceRegion>> /\ Queued' = {SourceRegion}
    BY <1>1 DEF Release, Queued
  <2> QED
    BY <1>1, <2>1 DEF Release
<1>2. ASSUME NEW r \in Regions, CopyTo(r) PROVE ReleaseInv'
  <2>1. Queued' = Queued \union {r}
    <3> DEFINE n == Len(queue)
    <3>1. n \in Nat /\ DOMAIN queue = 1 .. n
      OBVIOUS
    <3>2. /\ DOMAIN queue' = 1 .. n + 1 /\ queue'[n + 1] = r
          /\ \A k \in 1 .. n : queue'[k] = queue[k]
      BY <1>2, <3>1 DEF CopyTo
    <3> HIDE DEF n
    <3> QED
      BY <3>1, <3>2 DEF Queued
  <2>2. ReleaseTypeOK'
    <3>1. version \in 1 .. version
      BY <1>2 DEF CopyTo
    <3>2. images' \in [Regions -> SUBSET (1 .. version)]
      BY <1>2, <3>1 DEF CopyTo
    <3>3. queue' \in Seq(Regions)
      BY <1>2 DEF CopyTo
    <3> QED
      BY <1>2, <3>2, <3>3 DEF CopyTo
  <2>3. OnTheWay'
    BY <1>2, <2>1 DEF CopyTo
  <2> QED
    BY <1>2, <2>2, <2>3 DEF CopyTo
<1>3. CASE Raised
  BY <1>3 DEF Raised
<1>4. ASSUME NEW r \in Regions, BecomeReady(r) PROVE ReleaseInv'
  BY <1>4 DEF BecomeReady, Queued
<1>5. CASE Copied
  BY <1>5 DEF Copied, Queued
<1>6. CASE MakePublic
  <2> DEFINE r == Last(queue)
  <2>1. r \in Regions /\ queue' \in Seq(Regions) /\ Queued = Queued' \union {r}
    BY <1>6, QueueEnd DEF MakePublic, Queued
  <2>2. /\ public' = [public EXCEPT ![r] = @ \union {version}]
        /\ offered' = offered \union {r}
        /\ stage = "publish" /\ stage' = "publish"
        /\ UNCHANGED <<version, images, ready, left>>
    BY <1>6 DEF MakePublic
  <2> HIDE DEF r
  <2>3. version \in 1 .. version
    BY <2>2
  <2>4. ReleaseTypeOK'
    BY <2>1, <2>2, <2>3
  <2>5. OnTheWay'
    BY <2>1, <2>2
  <2> QED
    BY <2>1, <2>2, <2>4, <2>5
<1>7. CASE NotReady
  <2> DEFINE front == Front(queue)
             last == Last(queue)
  <2>1. /\ last \in Regions /\ front \in Seq(Regions)
        /\ Queued = {front[k] : k \in DOMAIN front} \union {last}
    BY <1>7, QueueEnd DEF NotReady
  <2>2. queue' = <<last>> \o front
    BY <1>7 DEF NotReady
  <2> HIDE DEF front, last
  <2>3. Queued \subseteq Queued' /\ queue' \in Seq(Regions)
    <3> DEFINE n == Len(front)
    <3>1. n \in Nat /\ DOMAIN front = 1 .. n
      BY <2>1
    <3>2. /\ queue' \in Seq(Regions) /\ DOMAIN queue' = 1 .. n + 1 /\ queue'[1] = last
          /\ \A k \in 1 .. n : queue'[k + 1] = front[k]
      BY <2>1, <2>2, <3>1
    <3> HIDE DEF n
    <3>3. last \in Queued'
      BY <3>1, <3>2 DEF Queued
    <3>4. ASSUME NEW k \in 1 .. n PROVE front[k] \in Queued'
      <4>1. k + 1 \in DOMAIN queue' /\ queue'[k + 1] = front[k]
        BY <3>1, <3>2
      <4> QED
        BY <4>1 DEF Queued
    <3> QED
      BY <2>1, <3>1, <3>2, <3>3, <3>4
  <2>4. ReleaseTypeOK'
    BY <1>7, <2>3 DEF NotReady
  <2>5. OnTheWay'
    BY <1>7, <2>3 DEF NotReady
  <2> QED
    BY <1>7, <2>4, <2>5 DEF NotReady
<1>8. CASE AllPublic
  BY <1>8 DEF AllPublic, Queued
<1>9. ASSUME NEW r \in Regions, Deregister(r) PROVE ReleaseInv'
  <2>1. PICK v \in Nat \ {version} :
               /\ images' = [images EXCEPT ![r] = @ \ {v}]
               /\ public' = [public EXCEPT ![r] = @ \ {v}]
    BY <1>9, DeregistersOld
  <2>2. /\ stage = "cleanup" /\ stage' = "cleanup"
        /\ UNCHANGED <<version, ready, queue, left, offered>>
    BY <1>9 DEF Deregister
  <2>3. ReleaseTypeOK'
    BY <2>1, <2>2
  <2>4. OnTheWay'
    BY <2>1, <2>2
  <2> QED
    BY <2>1, <2>2, <2>3, <2>4
<1>10. ASSUME NEW r \in Regions, NextRegion(r) PROVE ReleaseInv'
  BY <1>10 DEF NextRegion
<1>11. CASE UNCHANGED releaseVars
  BY <1>11 DEF releaseVars, Queued
<1> QED
  BY <1>1, <1>2, <1>3, <1>4, <1>5, <1>6, <1>7, <1>8, <1>9, <1>10, <1>11
     DEF NextRelease, Publishing

(* A region that has had a public image always has one, however many releases *)
(* fail and wherever: what makes room for the old images' end is that the new *)
(* one is public in every region by then (copy_ami.py:14-18, 30-37).          *)
THEOREM AlwaysOnOffer == FairRelease => []NeverWithout
<1>1. InitRelease => ReleaseInv
  BY ReleaseAssumption
     DEF InitRelease, ReleaseInv, ReleaseTypeOK, OnTheWay, NeverWithout
<1>2. ReleaseInv => NeverWithout
  BY DEF ReleaseInv
<1> QED
  BY <1>1, <1>2, ReleaseStep, PTL DEF FairRelease

-----------------------------------------------------------------------------
\* Once the leftovers are killed the script starts one controller and no more.
\* That one shows up after its shell, perhaps never; while it has not, the
\* script cannot have seen all three, and does not go on to clean up.  Before it
\* nothing has been seen and nothing counts as started.
OneController ==
  /\ "controller" \in running =>
       runner \in {"killController", "look", "judge", "cleanup", "killLeftovers"}
  /\ "controller" \in launched =>
       /\ runner \in {"look", "judge"} /\ ~ started
       /\ "controller" \notin running \union seen
  /\ seen # {} => runner = "judge"
  /\ started => runner \in {"look", "judge", "cleanup", "killLeftovers", "raised"}

SupervisorInv == SupervisorTypeOK /\ OneController /\ NothingLeftBehind

(* The machine can end processes and let launched ones appear, and that is   *)
(* all: it keeps the inductive invariant at every step of the script.        *)
LEMMA MachineStep == SupervisorInv /\ Machine => SupervisorInv'
<1> SUFFICES ASSUME SupervisorInv, Machine PROVE SupervisorInv'
  OBVIOUS
<1> USE DEF SupervisorInv, SupervisorTypeOK, OneController, NothingLeftBehind
<1>1. ASSUME NEW p \in Processes, Appear(p) PROVE SupervisorInv'
  BY <1>1 DEF Appear, Begin, Processes
<1>2. ASSUME NEW p \in Processes, Crash(p) PROVE SupervisorInv'
  BY <1>2 DEF Crash, End
<1>3. CASE OpenGameWindow
  BY <1>3 DEF OpenGameWindow
<1>4. CASE ToggleFolder
  BY <1>4 DEF ToggleFolder
<1> QED
  BY <1>1, <1>2, <1>3, <1>4 DEF Machine

(* The script's own steps keep it. *)
LEMMA RunnerStepKeeps == SupervisorInv /\ Runner => SupervisorInv'
<1> SUFFICES ASSUME SupervisorInv, Runner PROVE SupervisorInv'
  OBVIOUS
<1> USE DEF SupervisorInv, SupervisorTypeOK, OneController, NothingLeftBehind, RunnerStep, RunnerAt,
        Processes, Kill, Goto, Launch, End, Begin
<1>1. CASE KillController
  BY <1>1 DEF KillController
<1>2. CASE FindGame
  BY <1>2 DEF FindGame
<1>3. CASE KillCompeting
  BY <1>3 DEF KillCompeting
<1>4. CASE StartGame
  BY <1>4 DEF StartGame
<1>5. CASE WaitGame
  BY <1>5 DEF WaitGame
<1>6. CASE KillVnc
  BY <1>6 DEF KillVnc
<1>7. CASE StartVnc
  BY <1>7 DEF StartVnc
<1>8. CASE FindWindow
  BY <1>8 DEF FindWindow
<1>9. CASE FindWindowAgain
  BY <1>9 DEF FindWindowAgain
<1>10. CASE ShareWindow
  BY <1>10 DEF ShareWindow
<1>11. CASE StartController
  BY <1>11 DEF StartController
<1>12. CASE Look
  BY <1>12 DEF Look
<1>13. CASE Judge
  BY <1>13 DEF Judge
<1>14. CASE Cleanup
  BY <1>14 DEF Cleanup
<1>15. CASE KillLeftovers
  BY <1>15 DEF KillLeftovers
<1> QED
  BY <1>1, <1>2, <1>3, <1>4, <1>5, <1>6, <1>7, <1>8, <1>9, <1>10, <1>11, <1>12,
     <1>13, <1>14, <1>15 DEF Runner

(* So does an exception, which leads to the clean-up before any controller.  *)
LEMMA FailureKeeps == SupervisorInv /\ PopenFails => SupervisorInv'
<1> SUFFICES ASSUME SupervisorInv, NEW from \in {"startVnc", "shareWindow", "startController"},
                    Goto(from, "cleanup")
             PROVE  SupervisorInv'
  BY DEF PopenFails
<1> QED
  BY DEF SupervisorInv, SupervisorTypeOK, OneController, NothingLeftBehind, RunnerStep, RunnerAt, Goto

(* The inductive invariant holds of every run of the script. *)
LEMMA Inductive == SupervisorSpec => []SupervisorInv
<1>1. InitSupervisor => SupervisorInv
  <2>1. InitSupervisor => gameWindow \in BOOLEAN /\ (gameWindow => "gtav" \in running)
    <3>1. InitSupervisor => gameWindow = FALSE \/ gameWindow = ("gtav" \in running)
      BY DEF InitSupervisor
    <3>2. ("gtav" \in running) \in BOOLEAN
      OBVIOUS
    <3> QED
      BY <3>1, <3>2, Zenon
  <2>2. InitSupervisor => /\ running \subseteq Processes /\ launched = {} /\ folder \in BOOLEAN
                /\ runner = "killController" /\ seen = {} /\ started = FALSE
    BY DEF InitSupervisor
  <2> QED
    BY <2>1, <2>2 DEF SupervisorInv, SupervisorTypeOK, OneController, NothingLeftBehind, RunnerStep
<1>2. SupervisorInv /\ UNCHANGED supervisorVars => SupervisorInv'
  BY DEF supervisorVars, SupervisorInv, SupervisorTypeOK, OneController, NothingLeftBehind
<1> QED
  BY <1>1, <1>2, MachineStep, RunnerStepKeeps, FailureKeeps, PTL DEF SupervisorSpec, NextSupervisor

(* Every variable keeps its range, and a game window never outlives the game. *)
THEOREM SupervisorTypes == SupervisorSpec => []SupervisorTypeOK
<1>1. SupervisorInv => SupervisorTypeOK
  BY DEF SupervisorInv
<1> QED
  BY Inductive, <1>1, PTL

(* When the script gives up, whether by an exception or because a process is  *)
(* gone, no VNC server and no controller is running, and none that it has     *)
(* launched can still appear (run_vnc_env.py:112, 127-143, 222).              *)
THEOREM LeavesNothing == SupervisorSpec => []NothingLeftBehind
<1>1. SupervisorInv => NothingLeftBehind
  BY DEF SupervisorInv
<1> QED
  BY Inductive, <1>1, PTL

=============================================================================
