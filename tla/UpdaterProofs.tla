---------------------------- MODULE UpdaterProofs ----------------------------
(***************************************************************************)
(* Proofs about Updater, for every set of updates and every choice of the  *)
(* times and of the launch budget: its type, that the journal on disk      *)
(* implements UpdateTransaction, and its two safety invariants.            *)
(*                                                                         *)
(* The argument.  The journal in memory runs at most one decision ahead of *)
(* the file (Agree), because the caller writes before it acts; so every    *)
(* write is one step of the transaction, and a power cut, which puts the   *)
(* file back in memory, is none.  Each journal carries its own warrant: a  *)
(* commit that of its evidence (Warranted), a rollback that of a package   *)
(* to go back to and of having been handed to an installer (WayBack).      *)
(* Physical says what the phone can hold while the file still tries the    *)
(* candidate. The last section orders the journals by what has been spent  *)
(* (stages, launches, the way back): memory is at or ahead of the file     *)
(* (Further), so no write brings any of it back.                           *)
(***************************************************************************)
EXTENDS Updater, TLAPS

Journals == {jrn, disk}

Warranted ==
    /\ stamp.fresh => stamp.version \in ran
    /\ \A j \in Journals : j.stage \in {"Committed", "Idle"} => Promise!HasRun(Expected(j))

WayBack ==
    \A j \in Journals :
        /\ RollingBack(j) => up.knownGood
        /\ j.stage = "Armed" => RollingBack(j)
        /\ j.stage = "Failed" /\ ~RollingBack(j) => ~up.knownGood
        /\ RollingBack(j) => \/ handed > 0
                             \/ j.stage = "Armed"
                             \/ j.stage = "Failed" /\ j.reason = "Expired"

Agree ==
    /\ ~dirty /\ act # "Stop" => jrn = disk
    /\ act \in {"Ask", "Rest"} => OpOf(jrn) = OpOf(disk)
    /\ jrn.attempt # disk.attempt =>
          jrn.stage = "Armed" /\ RollingBack(jrn) /\ Active(disk)
    /\ disk.stage = "Idle" => act = "Stop"
    /\ ~Active(disk) /\ disk.stage # "Idle" => jrn.stage = disk.stage
    /\ act = "Stop" => ~dirty /\ disk.stage \in {"Idle", "Failed"}

Pending ==
    /\ act = "Install" => jrn.stage = "Armed"
    /\ act = "Launch" => jrn.stage \in {"Installing", "Proving"} /\ jrn.tries < MaxTries
    /\ act = "Commit" => jrn.stage = "Committed"
    /\ act = "GiveUp" => jrn.stage = "Failed"

Physical ==
    /\ running \in {Nothing, installed}
    /\ disk.attempt = "First" =>
          /\ installer # "old"
          /\ ~up.rebuild /\ "v_new" \in ran => installed = "new"

IInv == TypeOK /\ Warranted /\ WayBack /\ Agree /\ Pending /\ Physical

-----------------------------------------------------------------------------
\* The four things a step can do to the journal

Asking == act = "Ask" /\ Around
Stays == Asking /\ UNCHANGED <<jrn, dirty>> /\ act' \in Acts \ {"Ask", "Rest", "Stop"}
         /\ Pending'
Opens == Asking /\ jrn.stage = "Installing" /\ jrn' = Enter(jrn, "Proving")
         /\ dirty' = TRUE /\ act' = "Wait"
Concludes == Asking /\ jrn.stage \in {"Installing", "Proving"} /\ Commits
             /\ Promise!HasRun(Expected(jrn))
Yields(why) == Asking /\ Active(jrn) /\ Fails(why)
               /\ (why = "Expired" \/ jrn.stage \in {"Installing", "Proving"})

\* A stamp that proves the attempt is evidence: its version has run.
LEMMA ProvedIsEvidence ==
    ASSUME TypeOK, Warranted, Proved
    PROVE  Promise!HasRun(Expected(jrn))
  BY DEF TypeOK, Warranted, Proved, Fresh, Promise!HasRun, Expected, RollingBack,
         JournalType, Attempts, From, To, VersionOf, Unknown, Versions

\* Everything step() can return, by what it does to the journal
LEMMA StepDoes ==
    ASSUME IInv, Step
    PROVE  Stays \/ Opens \/ Concludes \/ \E why \in Reasons : Yields(why)
<1> USE DEF IInv
<1>1. up \in UpdateType
  BY UpdatesAssumption DEF TypeOK
<1>2. CASE StepExpired
  <2>1. Yields("Expired")
    BY <1>2 DEF StepExpired, Yields, Asking, Around, Expired
  <2> QED BY <2>1 DEF Reasons
<1>3. CASE StepArmed
  BY <1>3 DEF StepArmed, Turn, Returns, Stays, Asking, Around, Pending, Acts
<1>4. CASE InstallingProved
  BY <1>4, ProvedIsEvidence DEF InstallingProved, Turn, Concludes, Asking, Around
<1>5. CASE InstallingTimeout
  <2>1. Yields("InstallTimeout")
    BY <1>5 DEF InstallingTimeout, Turn, Yields, Asking, Around, Active
  <2> QED BY <2>1 DEF Reasons
<1>6. CASE InstallingRunning
  BY <1>6 DEF InstallingRunning, Turn, Opens, Asking, Around
<1>7. ASSUME jrn.stage \in {"Installing", "Proving"}, Asking, LaunchAgain
      PROVE  Stays \/ Concludes \/ Yields("LaunchFailed")
  <2>1. CASE TriesSpent /\ up.proof = "Stamp"
    BY <1>7, <2>1 DEF LaunchAgain, LaunchesSpent, Yields, Active
  <2>2. CASE TriesSpent /\ up.proof # "Stamp"
    BY <1>7, <2>2 DEF LaunchAgain, LaunchesSpent, Concludes, Promise!HasRun, Strict
  <2>3. CASE ~TriesSpent
    <3>1. jrn.tries < MaxTries
      BY <2>3, BoundsAssumption DEF TriesSpent, TypeOK, JournalType
    <3> QED BY <1>7, <2>3, <3>1 DEF LaunchAgain, Returns, Stays, Asking, Around, Pending, Acts
  <2> QED BY <2>1, <2>2, <2>3
<1>8. ASSUME NEW done \in BOOLEAN, NEW reopen \in up.reopen, InstallingOver(done, reopen)
      PROVE  Stays \/ Concludes \/ Yields("LaunchFailed")
  <2>1. jrn.stage = "Installing" /\ Asking
    BY <1>8 DEF InstallingOver, Turn, Asking
  <2>2. CASE Returns("Wait")
    BY <2>1, <2>2 DEF Returns, Stays, Asking, Around, Pending, Acts
  <2>3. CASE reopen = NoReopen /\ Commits
    BY <2>1, <2>3, <1>8 DEF Concludes, Promise!HasRun, Strict
  <2>4. CASE LaunchAgain
    BY <2>1, <2>4, <1>7
  <2> QED BY <1>8, <2>2, <2>3, <2>4 DEF InstallingOver
<1>9. CASE ProvingLaunch
  BY <1>9 DEF ProvingLaunch, Turn, Asking, Concludes, Promise!HasRun, Strict
<1>10. CASE ProvingStamp
  <2>1. jrn.stage = "Proving" /\ Asking
    BY <1>10 DEF ProvingStamp, Turn, Asking
  <2>2. CASE Proved /\ Commits
    BY <2>1, <2>2, ProvedIsEvidence DEF Concludes
  <2>3. CASE Fails("WrongVersion")
    <3>1. Yields("WrongVersion")
      BY <2>1, <2>3 DEF Yields, Active
    <3> QED BY <3>1 DEF Reasons
  <2>4. CASE Fails("ProveTimeout")
    <3>1. Yields("ProveTimeout")
      BY <2>1, <2>4 DEF Yields, Active
    <3> QED BY <3>1 DEF Reasons
  <2>5. CASE LaunchAgain
    BY <2>1, <2>5, <1>7 DEF Reasons
  <2>6. CASE Returns("Wait")
    BY <2>1, <2>6 DEF Returns, Stays, Asking, Around, Pending, Acts
  <2> QED BY <1>10, <2>2, <2>3, <2>4, <2>5, <2>6 DEF ProvingStamp
<1>11. CASE StepCommitted
  BY <1>11 DEF StepCommitted, Turn, Returns, Stays, Asking, Around, Pending, Acts
<1>12. CASE StepFailed
  BY <1>12 DEF StepFailed, Turn, Returns, Stays, Asking, Around, Pending, Acts
<1>13. InstallerDone \subseteq BOOLEAN
  BY DEF InstallerDone
<1> QED
  BY <1>2, <1>3, <1>4, <1>5, <1>6, <1>8, <1>9, <1>10, <1>11, <1>12, <1>13
     DEF Step, Reasons

-----------------------------------------------------------------------------
\* What a handler makes of a journal, field by field: it keeps its type, and the
\* rest of it where the code leaves it alone.
LEMMA EnterDoes ==
    ASSUME NEW j \in JournalType, NEW stage \in Stages
    PROVE  /\ Enter(j, stage) \in JournalType
           /\ Enter(j, stage).stage = stage
           /\ Enter(j, stage).attempt = j.attempt
           /\ Enter(j, stage).reason = j.reason
<1>1. 0 \in 0..SinceCap /\ 0 \in 0..MaxTries
  BY BoundsAssumption
<1>2. Enter(j, stage) = [[[j EXCEPT !.stage = stage] EXCEPT !.since = 0] EXCEPT !.tries = 0]
  BY DEF Enter
<1>3. [j EXCEPT !.stage = stage] \in JournalType
  BY DEF JournalType
<1> QED BY <1>1, <1>2, <1>3 DEF JournalType

\* The same of the time that passes over it.
LEMMA OlderDoes ==
    ASSUME NEW j \in JournalType, NEW d \in 0..MaxDelay
    PROVE  /\ Older(j, d) \in JournalType
           /\ Older(j, d).stage = j.stage
           /\ Older(j, d).attempt = j.attempt
           /\ Older(j, d).reason = j.reason
           /\ Older(j, d).tries = j.tries
<1>1. CapAt(j.since + d, SinceCap) \in 0..SinceCap
  BY BoundsAssumption DEF CapAt, JournalType
<1>2. Older(j, d) = [stage |-> j.stage, attempt |-> j.attempt,
                     since |-> CapAt(j.since + d, SinceCap),
                     tries |-> j.tries, reason |-> j.reason]
  BY DEF Older, JournalType
<1> QED BY <1>1, <1>2 DEF JournalType

\* A failure goes back where it can, and is written off where it cannot.
LEMMA FailsDoes ==
    ASSUME TypeOK, NEW why \in Reasons, Fails(why)
    PROVE  /\ jrn' \in JournalType
           /\ \/ /\ ~RollingBack(jrn) /\ up.knownGood
                 /\ jrn'.stage = "Armed" /\ jrn'.attempt = "Rollback" /\ act' = "Pause"
              \/ /\ RollingBack(jrn) \/ ~up.knownGood
                 /\ jrn'.stage = "Failed" /\ jrn'.attempt = jrn.attempt /\ act' = "GiveUp"
                 /\ RollingBack(jrn) => jrn'.reason = why
<1>1. jrn \in JournalType
  BY DEF TypeOK
<1>2. CASE jrn.attempt = "First" /\ up.knownGood
  <2>1. jrn' = [Enter(jrn, "Armed") EXCEPT !.attempt = "Rollback"] /\ act' = "Pause"
    BY <1>2 DEF Fails, GoingBack
  <2>2. /\ Enter(jrn, "Armed") \in JournalType
        /\ Enter(jrn, "Armed").stage = "Armed"
    BY <1>1, EnterDoes, BoundsAssumption DEF Stages
  <2> QED BY <1>2, <2>1, <2>2 DEF JournalType, Attempts, RollingBack
<1>3. CASE ~(jrn.attempt = "First" /\ up.knownGood)
  <2>1. PICK r \in Reasons : /\ jrn' = [jrn EXCEPT !.stage = "Failed", !.reason = r]
                             /\ act' = "GiveUp"
                             /\ RollingBack(jrn) => r = why
    BY <1>3 DEF Fails, Reasons
  <2> QED BY <1>1, <1>3, <2>1 DEF JournalType, Stages, Attempts, RollingBack
<1> QED BY <1>2, <1>3

\* A launch is counted, and the budget has room for it.
LEMMA LaunchDoes ==
    ASSUME IInv, NEW ok \in BOOLEAN, PerformLaunch(ok)
    PROVE  /\ jrn' \in JournalType
           /\ jrn'.stage \in {"Installing", "Proving"}
           /\ jrn'.attempt = jrn.attempt
           /\ jrn'.reason = jrn.reason
<1>1. jrn \in JournalType /\ jrn.stage \in {"Installing", "Proving"} /\ jrn.tries < MaxTries
  BY DEF IInv, TypeOK, Pending, PerformLaunch, Performing
<1>2. CASE ok /\ jrn.stage = "Installing"
  BY <1>1, <1>2, EnterDoes, BoundsAssumption DEF PerformLaunch, AfterLaunch, Stages
<1>3. CASE ~(ok /\ jrn.stage = "Installing")
  <2>1. jrn' = [jrn EXCEPT !.tries = jrn.tries + 1]
    BY <1>3 DEF PerformLaunch, AfterLaunch
  <2>2. jrn.tries + 1 \in 0..MaxTries
    BY <1>1, BoundsAssumption DEF JournalType
  <2> QED BY <1>1, <2>1, <2>2 DEF JournalType
<1> QED BY <1>2, <1>3

-----------------------------------------------------------------------------
\* Each part of the invariant is kept by every step of the daemon and the phone.

\* Types: a launch is only handed out while the budget lasts.
LEMMA NextType ==
    ASSUME IInv, [Next]_vars
    PROVE  TypeOK'
<1> USE DEF IInv
<1>1. CASE Stays
  BY <1>1, BoundsAssumption DEF Stays, Asking, Around, phone, Pending, Agree, Builds,
     Versions, TypeOK, JournalType, Stages, Attempts, Reasons, Acts
<1>2. CASE Opens
  <2>1. jrn' \in JournalType /\ jrn'.stage # "Idle"
    BY <1>2, EnterDoes DEF Opens, TypeOK, Stages
  <2>2. dirty' \in BOOLEAN
    BY <1>2, Zenon DEF Opens, Asking, Around, phone
  <2> QED
    BY <1>2, <2>1, <2>2, BoundsAssumption
       DEF TypeOK, Pending, Agree, Builds, Versions, Acts, Opens, Asking, Around, phone
<1>3. CASE Concludes
  <2>1. jrn' \in JournalType /\ jrn'.stage # "Idle"
    BY <1>3 DEF Concludes, Commits, TypeOK, JournalType, Stages
  <2>2. dirty' \in BOOLEAN
    BY <1>3, Zenon DEF Concludes, Commits, Asking, Around, phone
  <2> QED
    BY <1>3, <2>1, <2>2, BoundsAssumption
       DEF TypeOK, Pending, Agree, Builds, Versions, Acts, Concludes, Commits, Asking, Around, phone
<1>4. ASSUME NEW why \in Reasons, Yields(why) PROVE TypeOK'
  <2>1. jrn' \in JournalType /\ jrn'.stage # "Idle"
    BY <1>4, FailsDoes DEF Yields
  <2>2. dirty' \in BOOLEAN
    BY <1>4, Zenon DEF Yields, Fails, Asking, Around, phone
  <2> QED
    BY <1>4, <2>1, <2>2, BoundsAssumption
       DEF TypeOK, Acts, Builds, Versions, Yields, Fails, Asking, Around, phone
<1>5. CASE WriteJournal
  <2>1. jrn' \in JournalType /\ disk' \in JournalType
    BY <1>5 DEF WriteJournal, TypeOK
  <2> QED BY <1>5, <2>1 DEF TypeOK, WriteJournal, Stepped, phone
<1>6. CASE PerformInstall
  <2>1. jrn' \in JournalType /\ jrn'.stage # "Idle"
    BY <1>6, EnterDoes DEF PerformInstall, TypeOK, Stages
  <2>2. dirty' \in BOOLEAN
    BY <1>6, Zenon DEF PerformInstall, Performing, SisOf, CapAt
  <2> QED
    BY <1>6, <2>1, <2>2, BoundsAssumption
       DEF TypeOK, Pending, Agree, Builds, Versions, Acts, PerformInstall, Performing, SisOf, CapAt
<1>7. ASSUME NEW ok \in BOOLEAN, PerformLaunch(ok) PROVE TypeOK'
  <2>1. jrn' \in JournalType /\ jrn'.stage # "Idle"
    BY <1>7, LaunchDoes
  <2>2. dirty' \in BOOLEAN
    BY <1>7, Zenon DEF PerformLaunch, Performing
  <2> QED
    BY <1>7, <2>1, <2>2, BoundsAssumption
       DEF TypeOK, Pending, Agree, Builds, Versions, Acts, PerformLaunch, Performing
<1>8. CASE PerformLast
  BY <1>8, BoundsAssumption DEF PerformLast, Performing, phone, Pending, Agree, Builds,
     Versions, TypeOK, JournalType, Stages, Attempts, Reasons, Acts
<1>9. ASSUME NEW d \in 0..MaxDelay, TimerFires(d) PROVE TypeOK'
  BY <1>9, BoundsAssumption DEF TimerFires, Performing, Older, Elapse, CapAt, phone,
     Pending, Agree, Builds, Versions, TypeOK, JournalType, Stages, Attempts, Reasons, Acts
<1>10. CASE AppStarts
  BY <1>10, BoundsAssumption DEF AppStarts, DaemonFrame, daemon, Pending, Agree, Builds,
     Versions, TypeOK, JournalType, Stages, Attempts, Reasons, Acts
<1>11. CASE AppStamps
  BY <1>11, BoundsAssumption DEF AppStamps, DaemonFrame, daemon, phone, VersionOf, Pending,
     Agree, Builds, Versions, TypeOK, JournalType, Stages, Attempts, Reasons, Acts
<1>12. CASE AppDies
  BY <1>12, BoundsAssumption DEF AppDies, DaemonFrame, daemon, Pending, Agree, Builds,
     Versions, TypeOK, JournalType, Stages, Attempts, Reasons, Acts
<1>13. ASSUME NEW accepted \in BOOLEAN, InstallerEnds(accepted) PROVE TypeOK'
  BY <1>13, BoundsAssumption DEF InstallerEnds, DaemonFrame, daemon, Pending, Agree,
     Builds, Versions, TypeOK, JournalType, Stages, Attempts, Reasons, Acts
<1>14. CASE HoldChanges
  BY <1>14, BoundsAssumption DEF HoldChanges, DaemonFrame, daemon, Pending, Agree, Builds,
     Versions, TypeOK, JournalType, Stages, Attempts, Reasons, Acts
<1>15. ASSUME NEW d \in 1..MaxDelay, Resumes(d), running' \in {Nothing, running}, installer' \in {Nothing, installer}
       PROVE  TypeOK'
  <2>1. disk' \in JournalType /\ jrn' = disk' /\ disk'.stage = disk.stage
    BY <1>15, OlderDoes DEF Resumes, TypeOK
  <2>2. age' \in 0..(JournalMax + 1)
    BY <1>15, BoundsAssumption DEF Resumes, Elapse, CapAt, TypeOK
  <2> QED BY <1>15, <2>1, <2>2 DEF TypeOK, Resumes, Acts, Nothing, Builds
<1>16. CASE UNCHANGED vars
  BY <1>16, BoundsAssumption DEF vars, daemon, phone, Pending, Agree, Builds, Versions,
     TypeOK, JournalType, Stages, Attempts, Reasons, Acts
<1> QED
  BY StepDoes, <1>1, <1>2, <1>3, <1>4, <1>5, <1>6, <1>7, <1>8, <1>9,
     <1>10, <1>11, <1>12, <1>13, <1>14, <1>15, <1>16
     DEF Next, Daemon, Phone, DaemonRestarts, PowerCut

\* Evidence, once there, stays: versions that have run are never forgotten.
LEMMA NextWarranted ==
    ASSUME IInv, [Next]_vars
    PROVE  Warranted'
<1> USE DEF IInv
<1>1. CASE Stays
  BY <1>1, BoundsAssumption DEF Stays, Asking, Around, phone, Warranted, Journals,
     Promise!HasRun, Expected, Strict, To, From, VersionOf, Agree, Pending, TypeOK,
     JournalType, Stages, Attempts, Reasons, Acts
<1>2. CASE Opens
  BY <1>2, BoundsAssumption DEF Opens, Asking, Around, phone, Enter, Warranted, Journals,
     Promise!HasRun, Expected, Strict, To, From, VersionOf, Agree, Pending, TypeOK,
     JournalType, Stages, Attempts, Reasons, Acts
<1>3. CASE Concludes
  BY <1>3, BoundsAssumption DEF Concludes, Commits, Asking, Around, phone, Warranted,
     Journals, Promise!HasRun, Expected, Strict, To, From, VersionOf, Agree, Pending,
     TypeOK, JournalType, Stages, Attempts, Reasons, Acts
<1>4. ASSUME NEW why \in Reasons, Yields(why) PROVE Warranted'
  <2>1. /\ jrn'.stage \in {"Armed", "Failed"} /\ disk' = disk
        /\ stamp' = stamp /\ ran' = ran /\ up' = up
    BY <1>4, FailsDoes DEF Yields, Asking, Around
  <2> QED BY <2>1 DEF Warranted, Journals, Promise!HasRun, Expected, Strict, To, From,
     VersionOf
<1>5. CASE WriteJournal
  BY <1>5, BoundsAssumption DEF WriteJournal, Stepped, phone, Warranted, Journals,
     Promise!HasRun, Expected, Strict, To, From, VersionOf, Agree, Pending, TypeOK,
     JournalType, Stages, Attempts, Reasons, Acts
<1>6. CASE PerformInstall
  BY <1>6, BoundsAssumption DEF PerformInstall, Performing, Enter, SisOf, CapAt, Warranted,
     Journals, Promise!HasRun, Expected, Strict, To, From, VersionOf, Agree, Pending,
     TypeOK, JournalType, Stages, Attempts, Reasons, Acts
<1>7. ASSUME NEW ok \in BOOLEAN, PerformLaunch(ok) PROVE Warranted'
  BY <1>7, BoundsAssumption DEF PerformLaunch, Performing, AfterLaunch, Enter, Warranted,
     Journals, Promise!HasRun, Expected, Strict, To, From, VersionOf, Agree, Pending,
     TypeOK, JournalType, Stages, Attempts, Reasons, Acts
<1>8. CASE PerformLast
  BY <1>8, BoundsAssumption DEF PerformLast, Performing, phone, Warranted, Journals,
     Promise!HasRun, Expected, Strict, To, From, VersionOf, Agree, Pending, TypeOK,
     JournalType, Stages, Attempts, Reasons, Acts
<1>9. ASSUME NEW d \in 0..MaxDelay, TimerFires(d) PROVE Warranted'
  BY <1>9, BoundsAssumption DEF TimerFires, Performing, Older, Elapse, CapAt, phone,
     Warranted, Journals, Promise!HasRun, Expected, Strict, To, From, VersionOf, Agree,
     Pending, TypeOK, JournalType, Stages, Attempts, Reasons, Acts
<1>10. CASE AppStarts
  BY <1>10, BoundsAssumption DEF AppStarts, DaemonFrame, daemon, Warranted, Journals,
     Promise!HasRun, Expected, Strict, To, From, VersionOf, Agree, Pending, TypeOK,
     JournalType, Stages, Attempts, Reasons, Acts
<1>11. CASE AppStamps
  BY <1>11, BoundsAssumption DEF AppStamps, DaemonFrame, daemon, phone, VersionOf,
     Warranted, Journals, Promise!HasRun, Expected, Strict, To, From, Agree, Pending,
     TypeOK, JournalType, Stages, Attempts, Reasons, Acts
<1>12. CASE AppDies
  BY <1>12, BoundsAssumption DEF AppDies, DaemonFrame, daemon, Warranted, Journals,
     Promise!HasRun, Expected, Strict, To, From, VersionOf, Agree, Pending, TypeOK,
     JournalType, Stages, Attempts, Reasons, Acts
<1>13. ASSUME NEW accepted \in BOOLEAN, InstallerEnds(accepted) PROVE Warranted'
  BY <1>13, BoundsAssumption DEF InstallerEnds, DaemonFrame, daemon, Warranted, Journals,
     Promise!HasRun, Expected, Strict, To, From, VersionOf, Agree, Pending, TypeOK,
     JournalType, Stages, Attempts, Reasons, Acts
<1>14. CASE HoldChanges
  BY <1>14, BoundsAssumption DEF HoldChanges, DaemonFrame, daemon, Warranted, Journals,
     Promise!HasRun, Expected, Strict, To, From, VersionOf, Agree, Pending, TypeOK,
     JournalType, Stages, Attempts, Reasons, Acts
<1>15. ASSUME NEW d \in 1..MaxDelay, Resumes(d), running' \in {Nothing, running}, installer' \in {Nothing, installer}
       PROVE  Warranted'
  BY <1>15, BoundsAssumption DEF Resumes, Older, Elapse, CapAt, Warranted, Journals,
     Promise!HasRun, Expected, Strict, To, From, VersionOf, Agree, Pending, TypeOK,
     JournalType, Stages, Attempts, Reasons, Acts
<1>16. CASE UNCHANGED vars
  BY <1>16, BoundsAssumption DEF vars, daemon, phone, Warranted, Journals, Promise!HasRun,
     Expected, Strict, To, From, VersionOf, Agree, Pending, TypeOK, JournalType, Stages,
     Attempts, Reasons, Acts
<1> QED
  BY StepDoes, <1>1, <1>2, <1>3, <1>4, <1>5, <1>6, <1>7, <1>8, <1>9,
     <1>10, <1>11, <1>12, <1>13, <1>14, <1>15, <1>16
     DEF Next, Daemon, Phone, DaemonRestarts, PowerCut

\* A rollback is armed only with a package to go back to, and ends untried only by expiring.
LEMMA NextWayBack ==
    ASSUME IInv, [Next]_vars
    PROVE  WayBack'
<1> USE DEF IInv
<1>1. CASE Stays
  BY <1>1, BoundsAssumption DEF Stays, Asking, Around, phone, WayBack, Journals,
     RollingBack, Active, Agree, Pending, TypeOK, JournalType, Stages, Attempts, Reasons,
     Acts
<1>2. CASE Opens
  BY <1>2, BoundsAssumption DEF Opens, Asking, Around, phone, Enter, WayBack, Journals,
     RollingBack, Active, Agree, Pending, TypeOK, JournalType, Stages, Attempts, Reasons,
     Acts
<1>3. CASE Concludes
  BY <1>3, BoundsAssumption DEF Concludes, Commits, Asking, Around, phone, WayBack,
     Journals, RollingBack, Active, Agree, Pending, TypeOK, JournalType, Stages, Attempts,
     Reasons, Acts
<1>4. ASSUME NEW why \in Reasons, Yields(why) PROVE WayBack'
  <2>1. /\ disk' = disk /\ up' = up /\ handed' = handed
        /\ jrn.attempt \in Attempts
    BY <1>4 DEF Yields, Asking, Around, TypeOK, JournalType
  <2>2. jrn.stage \in {"Installing", "Proving"} \/ why = "Expired"
    BY <1>4 DEF Yields
  <2> QED BY <1>4, <2>1, <2>2, FailsDoes DEF Yields, WayBack, Journals, RollingBack, Attempts
<1>5. CASE WriteJournal
  BY <1>5, BoundsAssumption DEF WriteJournal, Stepped, phone, WayBack, Journals,
     RollingBack, Active, Agree, Pending, TypeOK, JournalType, Stages, Attempts, Reasons,
     Acts
<1>6. CASE PerformInstall
  <2>1. /\ jrn'.stage = "Installing" /\ jrn'.attempt = jrn.attempt /\ jrn.stage = "Armed"
        /\ disk' = disk /\ up' = up
    BY <1>6, EnterDoes DEF PerformInstall, Performing, Pending, TypeOK, Stages
  <2>2. handed' > 0
    BY <1>6 DEF PerformInstall, CapAt, TypeOK
  <2>3. jrn = disk
    BY <1>6 DEF PerformInstall, Performing, Agree
  <2> QED BY <2>1, <2>2, <2>3 DEF WayBack, Journals, RollingBack
<1>7. ASSUME NEW ok \in BOOLEAN, PerformLaunch(ok) PROVE WayBack'
  BY <1>7, BoundsAssumption DEF PerformLaunch, Performing, AfterLaunch, Enter, WayBack,
     Journals, RollingBack, Active, Agree, Pending, TypeOK, JournalType, Stages, Attempts,
     Reasons, Acts
<1>8. CASE PerformLast
  BY <1>8, BoundsAssumption DEF PerformLast, Performing, phone, WayBack, Journals,
     RollingBack, Active, Agree, Pending, TypeOK, JournalType, Stages, Attempts, Reasons,
     Acts
<1>9. ASSUME NEW d \in 0..MaxDelay, TimerFires(d) PROVE WayBack'
  BY <1>9, BoundsAssumption DEF TimerFires, Performing, Older, Elapse, CapAt, phone,
     WayBack, Journals, RollingBack, Active, Agree, Pending, TypeOK, JournalType, Stages,
     Attempts, Reasons, Acts
<1>10. CASE AppStarts
  BY <1>10, BoundsAssumption DEF AppStarts, DaemonFrame, daemon, WayBack, Journals,
     RollingBack, Active, Agree, Pending, TypeOK, JournalType, Stages, Attempts, Reasons,
     Acts
<1>11. CASE AppStamps
  BY <1>11, BoundsAssumption DEF AppStamps, DaemonFrame, daemon, phone, VersionOf, WayBack,
     Journals, RollingBack, Active, Agree, Pending, TypeOK, JournalType, Stages, Attempts,
     Reasons, Acts
<1>12. CASE AppDies
  BY <1>12, BoundsAssumption DEF AppDies, DaemonFrame, daemon, WayBack, Journals,
     RollingBack, Active, Agree, Pending, TypeOK, JournalType, Stages, Attempts, Reasons,
     Acts
<1>13. ASSUME NEW accepted \in BOOLEAN, InstallerEnds(accepted) PROVE WayBack'
  BY <1>13, BoundsAssumption DEF InstallerEnds, DaemonFrame, daemon, WayBack, Journals,
     RollingBack, Active, Agree, Pending, TypeOK, JournalType, Stages, Attempts, Reasons,
     Acts
<1>14. CASE HoldChanges
  BY <1>14, BoundsAssumption DEF HoldChanges, DaemonFrame, daemon, WayBack, Journals,
     RollingBack, Active, Agree, Pending, TypeOK, JournalType, Stages, Attempts, Reasons,
     Acts
<1>15. ASSUME NEW d \in 1..MaxDelay, Resumes(d), running' \in {Nothing, running}, installer' \in {Nothing, installer}
       PROVE  WayBack'
  BY <1>15, BoundsAssumption DEF Resumes, Older, Elapse, CapAt, WayBack, Journals,
     RollingBack, Active, Agree, Pending, TypeOK, JournalType, Stages, Attempts, Reasons,
     Acts
<1>16. CASE UNCHANGED vars
  BY <1>16, BoundsAssumption DEF vars, daemon, phone, WayBack, Journals, RollingBack,
     Active, Agree, Pending, TypeOK, JournalType, Stages, Attempts, Reasons, Acts
<1> QED
  BY StepDoes, <1>1, <1>2, <1>3, <1>4, <1>5, <1>6, <1>7, <1>8, <1>9,
     <1>10, <1>11, <1>12, <1>13, <1>14, <1>15, <1>16
     DEF Next, Daemon, Phone, DaemonRestarts, PowerCut

\* Memory is one decision ahead of the file, and only until the file is written.
LEMMA NextAgree ==
    ASSUME IInv, [Next]_vars
    PROVE  (Agree /\ Pending)'
<1> USE DEF IInv
<1>1. CASE Stays
  BY <1>1, BoundsAssumption DEF Stays, Asking, Around, phone, Agree, Pending, WayBack,
     Journals, OpOf, Active, RollingBack, TypeOK, JournalType, Stages, Attempts, Reasons,
     Acts
<1>2. CASE Opens
  BY <1>2, BoundsAssumption DEF Opens, Asking, Around, phone, Enter, Agree, Pending,
     WayBack, Journals, OpOf, Active, RollingBack, TypeOK, JournalType, Stages, Attempts,
     Reasons, Acts
<1>3. CASE Concludes
  BY <1>3, BoundsAssumption DEF Concludes, Commits, Asking, Around, phone, Agree, Pending,
     WayBack, Journals, OpOf, Active, RollingBack, TypeOK, JournalType, Stages, Attempts,
     Reasons, Acts
<1>4. ASSUME NEW why \in Reasons, Yields(why) PROVE (Agree /\ Pending)'
  <2>1. /\ disk' = disk /\ act = "Ask" /\ dirty' = TRUE /\ Active(jrn)
        /\ jrn.attempt \in Attempts /\ disk.attempt \in Attempts
    BY <1>4 DEF Yields, Asking, Around, TypeOK, JournalType, Fails
  <2> QED BY <1>4, <2>1, FailsDoes DEF Yields, Agree, Pending, OpOf, Active, RollingBack,
     Attempts
<1>5. CASE WriteJournal
  BY <1>5, BoundsAssumption DEF WriteJournal, Stepped, phone, Agree, Pending, WayBack,
     Journals, OpOf, Active, RollingBack, TypeOK, JournalType, Stages, Attempts, Reasons,
     Acts
<1>6. CASE PerformInstall
  BY <1>6, BoundsAssumption DEF PerformInstall, Performing, Enter, SisOf, CapAt, Agree,
     Pending, WayBack, Journals, OpOf, Active, RollingBack, TypeOK, JournalType, Stages,
     Attempts, Reasons, Acts
<1>7. ASSUME NEW ok \in BOOLEAN, PerformLaunch(ok) PROVE (Agree /\ Pending)'
  BY <1>7, BoundsAssumption DEF PerformLaunch, Performing, AfterLaunch, Enter, Agree,
     Pending, WayBack, Journals, OpOf, Active, RollingBack, TypeOK, JournalType, Stages,
     Attempts, Reasons, Acts
<1>8. CASE PerformLast
  BY <1>8, BoundsAssumption DEF PerformLast, Performing, phone, Agree, Pending, WayBack,
     Journals, OpOf, Active, RollingBack, TypeOK, JournalType, Stages, Attempts, Reasons,
     Acts
<1>9. ASSUME NEW d \in 0..MaxDelay, TimerFires(d) PROVE (Agree /\ Pending)'
  BY <1>9, BoundsAssumption DEF TimerFires, Performing, Older, Elapse, CapAt, phone, Agree,
     Pending, WayBack, Journals, OpOf, Active, RollingBack, TypeOK, JournalType, Stages,
     Attempts, Reasons, Acts
<1>10. CASE AppStarts
  BY <1>10, BoundsAssumption DEF AppStarts, DaemonFrame, daemon, Agree, Pending, WayBack,
     Journals, OpOf, Active, RollingBack, TypeOK, JournalType, Stages, Attempts, Reasons,
     Acts
<1>11. CASE AppStamps
  BY <1>11, BoundsAssumption DEF AppStamps, DaemonFrame, daemon, phone, VersionOf, Agree,
     Pending, WayBack, Journals, OpOf, Active, RollingBack, TypeOK, JournalType, Stages,
     Attempts, Reasons, Acts
<1>12. CASE AppDies
  BY <1>12, BoundsAssumption DEF AppDies, DaemonFrame, daemon, Agree, Pending, WayBack,
     Journals, OpOf, Active, RollingBack, TypeOK, JournalType, Stages, Attempts, Reasons,
     Acts
<1>13. ASSUME NEW accepted \in BOOLEAN, InstallerEnds(accepted) PROVE (Agree /\ Pending)'
  BY <1>13, BoundsAssumption DEF InstallerEnds, DaemonFrame, daemon, Agree, Pending,
     WayBack, Journals, OpOf, Active, RollingBack, TypeOK, JournalType, Stages, Attempts,
     Reasons, Acts
<1>14. CASE HoldChanges
  BY <1>14, BoundsAssumption DEF HoldChanges, DaemonFrame, daemon, Agree, Pending, WayBack,
     Journals, OpOf, Active, RollingBack, TypeOK, JournalType, Stages, Attempts, Reasons,
     Acts
<1>15. ASSUME NEW d \in 1..MaxDelay, Resumes(d), running' \in {Nothing, running}, installer' \in {Nothing, installer}
       PROVE  (Agree /\ Pending)'
  BY <1>15, BoundsAssumption DEF Resumes, Older, Elapse, CapAt, Agree, Pending, WayBack,
     Journals, OpOf, Active, RollingBack, TypeOK, JournalType, Stages, Attempts, Reasons,
     Acts
<1>16. CASE UNCHANGED vars
  BY <1>16, BoundsAssumption DEF vars, daemon, phone, Agree, Pending, WayBack, Journals,
     OpOf, Active, RollingBack, TypeOK, JournalType, Stages, Attempts, Reasons, Acts
<1> QED
  BY StepDoes, <1>1, <1>2, <1>3, <1>4, <1>5, <1>6, <1>7, <1>8, <1>9,
     <1>10, <1>11, <1>12, <1>13, <1>14, <1>15, <1>16
     DEF Next, Daemon, Phone, DaemonRestarts, PowerCut

\* While the file tries the candidate, no installer holds the known-good package.
LEMMA NextPhysical ==
    ASSUME IInv, [Next]_vars
    PROVE  Physical'
<1> USE DEF IInv
<1>1. CASE Stays
  BY <1>1, BoundsAssumption DEF Stays, Asking, Around, phone, Physical, Agree, Pending,
     WayBack, Journals, RollingBack, VersionOf, Nothing, Builds, TypeOK, JournalType,
     Stages, Attempts, Reasons, Acts
<1>2. CASE Opens
  BY <1>2, BoundsAssumption DEF Opens, Asking, Around, phone, Enter, Physical, Agree,
     Pending, WayBack, Journals, RollingBack, VersionOf, Nothing, Builds, TypeOK,
     JournalType, Stages, Attempts, Reasons, Acts
<1>3. CASE Concludes
  BY <1>3, BoundsAssumption DEF Concludes, Commits, Asking, Around, phone, Physical, Agree,
     Pending, WayBack, Journals, RollingBack, VersionOf, Nothing, Builds, TypeOK,
     JournalType, Stages, Attempts, Reasons, Acts
<1>4. ASSUME NEW why \in Reasons, Yields(why) PROVE Physical'
  BY <1>4 DEF Yields, Asking, Around, phone, Physical
<1>5. CASE WriteJournal
  BY <1>5, BoundsAssumption DEF WriteJournal, Stepped, phone, Physical, Agree, Pending,
     WayBack, Journals, RollingBack, VersionOf, Nothing, Builds, TypeOK, JournalType,
     Stages, Attempts, Reasons, Acts
<1>6. CASE PerformInstall
  BY <1>6, BoundsAssumption DEF PerformInstall, Performing, Enter, SisOf, CapAt, Physical,
     Agree, Pending, WayBack, Journals, RollingBack, VersionOf, Nothing, Builds, TypeOK,
     JournalType, Stages, Attempts, Reasons, Acts
<1>7. ASSUME NEW ok \in BOOLEAN, PerformLaunch(ok) PROVE Physical'
  BY <1>7, BoundsAssumption DEF PerformLaunch, Performing, AfterLaunch, Enter, Physical,
     Agree, Pending, WayBack, Journals, RollingBack, VersionOf, Nothing, Builds, TypeOK,
     JournalType, Stages, Attempts, Reasons, Acts
<1>8. CASE PerformLast
  BY <1>8, BoundsAssumption DEF PerformLast, Performing, phone, Physical, Agree, Pending,
     WayBack, Journals, RollingBack, VersionOf, Nothing, Builds, TypeOK, JournalType,
     Stages, Attempts, Reasons, Acts
<1>9. ASSUME NEW d \in 0..MaxDelay, TimerFires(d) PROVE Physical'
  BY <1>9, BoundsAssumption DEF TimerFires, Performing, Older, Elapse, CapAt, phone,
     Physical, Agree, Pending, WayBack, Journals, RollingBack, VersionOf, Nothing, Builds,
     TypeOK, JournalType, Stages, Attempts, Reasons, Acts
<1>10. CASE AppStarts
  BY <1>10, BoundsAssumption DEF AppStarts, DaemonFrame, daemon, Physical, Agree, Pending,
     WayBack, Journals, RollingBack, VersionOf, Nothing, Builds, TypeOK, JournalType,
     Stages, Attempts, Reasons, Acts
<1>11. CASE AppStamps
  <2>1. /\ up' = up /\ disk' = disk /\ running' = running /\ installed' = installed
        /\ installer' = installer /\ running \in Builds
        /\ ran' = ran \cup {VersionOf(running)}
    BY <1>11, UpdatesAssumption
       DEF AppStamps, DaemonFrame, daemon, phone, TypeOK, UpdateType
  <2>2. running = installed
    BY <2>1 DEF Physical, Builds, Nothing
  <2> QED BY <2>1, <2>2 DEF Physical, VersionOf, Builds
<1>12. CASE AppDies
  BY <1>12, BoundsAssumption DEF AppDies, DaemonFrame, daemon, Physical, Agree, Pending,
     WayBack, Journals, RollingBack, VersionOf, Nothing, Builds, TypeOK, JournalType,
     Stages, Attempts, Reasons, Acts
<1>13. ASSUME NEW accepted \in BOOLEAN, InstallerEnds(accepted) PROVE Physical'
  BY <1>13, BoundsAssumption DEF InstallerEnds, DaemonFrame, daemon, Physical, Agree,
     Pending, WayBack, Journals, RollingBack, VersionOf, Nothing, Builds, TypeOK,
     JournalType, Stages, Attempts, Reasons, Acts
<1>14. CASE HoldChanges
  BY <1>14, BoundsAssumption DEF HoldChanges, DaemonFrame, daemon, Physical, Agree,
     Pending, WayBack, Journals, RollingBack, VersionOf, Nothing, Builds, TypeOK,
     JournalType, Stages, Attempts, Reasons, Acts
<1>15. ASSUME NEW d \in 1..MaxDelay, Resumes(d), running' \in {Nothing, running}, installer' \in {Nothing, installer}
       PROVE  Physical'
  BY <1>15, BoundsAssumption DEF Resumes, Older, Elapse, CapAt, Physical, Agree, Pending,
     WayBack, Journals, RollingBack, VersionOf, Nothing, Builds, TypeOK, JournalType,
     Stages, Attempts, Reasons, Acts
<1>16. CASE UNCHANGED vars
  BY <1>16, BoundsAssumption DEF vars, daemon, phone, Physical, Agree, Pending, WayBack,
     Journals, RollingBack, VersionOf, Nothing, Builds, TypeOK, JournalType, Stages,
     Attempts, Reasons, Acts
<1> QED
  BY StepDoes, <1>1, <1>2, <1>3, <1>4, <1>5, <1>6, <1>7, <1>8, <1>9,
     <1>10, <1>11, <1>12, <1>13, <1>14, <1>15, <1>16
     DEF Next, Daemon, Phone, DaemonRestarts, PowerCut

-----------------------------------------------------------------------------
\* bootctl arms a journal that satisfies all of it.
LEMMA InitInvariant == Init => IInv
<1> SUFFICES ASSUME Init PROVE IInv
  OBVIOUS
<1>1. TypeOK
  <2>1. jrn \in JournalType /\ disk \in JournalType /\ jrn.stage # "Idle"
    BY BoundsAssumption DEF Init, JournalType, Stages, Attempts
  <2>2. dirty \in BOOLEAN /\ hold \in BOOLEAN
    BY Zenon DEF Init
  <2>3. stamp \in [version: Versions \cup {Unknown}, fresh: BOOLEAN]
    BY DEF Init
  <2> QED BY <2>1, <2>2, <2>3, BoundsAssumption DEF Init, TypeOK, Acts, Builds, Nothing
<1>2. jrn.stage = "Installing" /\ jrn.attempt = "First" /\ disk = jrn
  BY DEF Init
<1>3. Warranted /\ WayBack /\ Agree /\ Pending /\ Physical
  BY <1>2 DEF Init, Warranted, WayBack, Agree, Pending, Physical, Journals, RollingBack,
     OpOf, Active, Nothing
<1> QED BY <1>1, <1>3 DEF IInv

LEMMA InvariantHolds == Spec => []IInv
<1>1. IInv /\ [Next]_vars => IInv'
  BY NextType, NextWarranted, NextWayBack, NextAgree, NextPhysical DEF IInv
<1> QED BY InitInvariant, <1>1, PTL DEF Spec

\* Every variable keeps its type; no stage is launched into more often than the budget.
THEOREM TypeCorrect == Spec => []TypeOK
<1>1. IInv => TypeOK
  BY DEF IInv
<1> QED BY <1>1, InvariantHolds, PTL

\* With a known-good package an update is written off only after that package has been
\* handed to an installer, or by the backstop, whatever fails and whenever the power goes.
THEOREM TheWayBackIsTried == Spec => []TriesTheWayBack
<1>1. IInv => TriesTheWayBack
  BY DEF IInv, TypeOK, JournalType, WayBack, Journals, TriesTheWayBack
<1> QED BY <1>1, InvariantHolds, PTL

\* What a first attempt commits is on the phone, when it asked for the evidence and
\* the candidate's version is its own.
THEOREM CommitIsInstalled == Spec => []CommitMeansInstalled
<1>1. ASSUME IInv PROVE CommitMeansInstalled
  <2> SUFFICES ASSUME disk.stage = "Committed", disk.attempt = "First", Strict, ~up.rebuild
               PROVE  installed = "new"
    BY DEF CommitMeansInstalled
  <2>1. Promise!HasRun(To)
    BY <1>1 DEF IInv, Warranted, Journals, Expected
  <2>2. To = "v_new"
    BY DEF To, VersionOf
  <2>3. "v_new" \in ran
    BY <2>1, <2>2 DEF Promise!HasRun, Unknown
  <2> QED BY <1>1, <2>3 DEF IInv, Physical
<1> QED BY <1>1, InvariantHolds, PTL

-----------------------------------------------------------------------------
\* The refinement

LEMMA InitRefines == Init => Promise!TInit
  BY UpdatesAssumption
     DEF Init, Promise!TInit, OpOf, Active, RollingBack, To, From, VersionOf, Versions,
         UpdateType, Unknown

Steady == OpOf(disk') = OpOf(disk) /\ ran' = ran /\ up' = up

LEMMA SteadyStutters ==
    ASSUME Steady
    PROVE  UNCHANGED Promise!tvars
  BY DEF Steady, Promise!tvars, OpOf, Active, RollingBack, To, From, VersionOf, Strict

\* The write is the step: what memory decided becomes what the file says.
LEMMA WriteRefines ==
    ASSUME IInv, WriteJournal
    PROVE  Promise!TNext \/ UNCHANGED Promise!tvars
<1> USE DEF IInv
<1>1. disk' = jrn /\ ran' = ran /\ up' = up
  BY DEF WriteJournal, phone
<1>2. UNCHANGED Promise!terms
  BY <1>1 DEF Promise!terms, To, From, VersionOf, Strict
<1>3. jrn \in JournalType /\ disk \in JournalType /\ jrn.stage # "Idle"
  BY DEF TypeOK, WriteJournal, Stepped
<1>4. CASE OpOf(jrn) = OpOf(disk)
  BY <1>1, <1>4, SteadyStutters DEF Steady
<1>5. CASE OpOf(jrn) # OpOf(disk)
  <2>1. Active(disk)
    BY <1>3, <1>5 DEF Agree, OpOf, Active, WriteJournal, Stepped
  <2>2. CASE jrn.attempt # disk.attempt
    <3>1. OpOf(jrn) = "GoingBack" /\ OpOf(disk) = "Trying" /\ up.knownGood
      BY <2>1, <2>2, <1>3 DEF Agree, WayBack, Journals, OpOf, Active, RollingBack,
         JournalType, Attempts
    <3>2. Promise!GoBack
      BY <1>1, <1>2, <3>1 DEF Promise!GoBack, OpOf, Active, RollingBack
    <3> QED BY <3>2 DEF Promise!TNext
  <2>3. CASE jrn.attempt = disk.attempt /\ jrn.stage = "Committed"
    <3>1. Promise!HasRun(Expected(jrn))
      BY <2>3 DEF Warranted, Journals
    <3>2. OpOf(disk') = "Done"
      BY <1>1, <2>3 DEF OpOf, Active
    <3>3. \/ OpOf(disk) = "Trying" /\ Promise!HasRun(To)
          \/ OpOf(disk) = "GoingBack" /\ Promise!HasRun(From)
      BY <1>3, <2>1, <2>3, <3>1 DEF OpOf, Expected, RollingBack, JournalType, Attempts
    <3>4. Promise!Commit
      BY <1>1, <1>2, <3>2, <3>3 DEF Promise!Commit, OpOf, Active, RollingBack
    <3> QED BY <3>4 DEF Promise!TNext
  <2>4. CASE jrn.attempt = disk.attempt /\ jrn.stage = "Failed"
    <3>1. OpOf(disk') = "WrittenOff"
      BY <1>1, <2>4 DEF OpOf, Active
    <3>2. OpOf(disk) = "GoingBack" \/ (OpOf(disk) = "Trying" /\ ~up.knownGood)
      BY <2>1, <2>4 DEF WayBack, Journals, OpOf, RollingBack
    <3>3. Promise!WriteOff
      BY <1>1, <1>2, <3>1, <3>2 DEF Promise!WriteOff, OpOf, Active, RollingBack
    <3> QED BY <3>3 DEF Promise!TNext
  <2> QED BY <2>1, <2>2, <2>3, <2>4, <1>3, <1>5 DEF OpOf, Active, RollingBack
<1> QED BY <1>4, <1>5

LEMMA NextRefines ==
    ASSUME IInv, [Next]_vars
    PROVE  Promise!TNext \/ UNCHANGED Promise!tvars
<1>1. CASE Step
  <2>1. Steady
    BY <1>1, StepDoes DEF Stays, Opens, Concludes, Yields, Asking, Around, Steady
  <2> QED BY <2>1, SteadyStutters
<1>2. CASE WriteJournal
  BY <1>2, WriteRefines
<1>3. CASE PerformInstall \/ \E ok \in BOOLEAN : PerformLaunch(ok)
  <2>1. Steady
    BY <1>3 DEF PerformInstall, PerformLaunch, Steady
  <2> QED BY <2>1, SteadyStutters
<1>4. CASE PerformLast
  <2>1. disk \in JournalType /\ (act = "Commit" => disk.stage = "Committed")
    BY <1>4 DEF IInv, TypeOK, Agree, Pending, PerformLast, Performing
  <2>2. OpOf(disk') = OpOf(disk)
    BY <1>4, <2>1 DEF PerformLast, OpOf, Active, RollingBack, JournalType
  <2> QED BY <1>4, <2>2, SteadyStutters DEF PerformLast, Steady, phone
<1>5. ASSUME NEW d \in 0..MaxDelay, disk' = Older(disk, d), ran' = ran, up' = up
      PROVE  UNCHANGED Promise!tvars
  <2>1. Steady
    BY <1>5, OlderDoes DEF IInv, TypeOK, Steady, OpOf, Active, RollingBack
  <2> QED BY <2>1, SteadyStutters
<1>6. CASE \E d \in 0..MaxDelay : TimerFires(d)
  BY <1>5, <1>6 DEF TimerFires
<1>7. CASE \E d \in 1..MaxDelay : DaemonRestarts(d) \/ PowerCut(d)
  BY <1>5, <1>7 DEF DaemonRestarts, PowerCut, Resumes
<1>8. CASE AppStamps
  <2>1. VersionOf(running) \in Versions /\ ran' = ran \cup {VersionOf(running)}
    BY <1>8 DEF AppStamps, VersionOf, Versions
  <2>2. disk' = disk /\ up' = up
    BY <1>8 DEF AppStamps, DaemonFrame, daemon
  <2>3. UNCHANGED <<OpOf(disk), Promise!terms>>
    BY <2>2 DEF Promise!terms, To, From, VersionOf, Strict, OpOf, Active, RollingBack
  <2>4. Promise!Runs(VersionOf(running))
    BY <2>1, <2>3 DEF Promise!Runs
  <2> QED BY <2>1, <2>4 DEF Promise!TNext
<1>9. CASE \/ AppStarts \/ AppDies \/ HoldChanges \/ UNCHANGED vars
           \/ \E accepted \in BOOLEAN : InstallerEnds(accepted)
  <2>1. Steady
    BY <1>9 DEF AppStarts, AppDies, HoldChanges, InstallerEnds, DaemonFrame, daemon, vars,
       Steady
  <2> QED BY <2>1, SteadyStutters
<1> QED
  BY <1>1, <1>2, <1>3, <1>4, <1>6, <1>7, <1>8, <1>9 DEF Next, Daemon, Phone

\* The journal on disk implements the transaction: evidence before a commit, one way
\* back and only where there is one, and an end that no restart undoes.
THEOREM JournalIsTransactional == Spec => Transactional
<1>1. IInv /\ [Next]_vars => [Promise!TNext]_(Promise!tvars)
  BY NextRefines
<1> QED BY <1>1, InitRefines, InvariantHolds, PTL DEF Spec, Transactional, Promise!TSpec
-----------------------------------------------------------------------------
\* What has been spent stays spent

\* Memory is the file or further on: what it has not written yet only goes forward.
Further == disk.stage # "Idle" => Onward(disk, jrn)

LEMMA ReachedIs ==
    ASSUME NEW j \in JournalType
    PROVE  /\ Reached(j) \in 0..7 /\ j.since \in Nat /\ j.tries \in Nat
           /\ Active(j) => Reached(j) \in 0..5
           /\ j.stage \in {"Committed", "Failed"} => Reached(j) = 6
           /\ j.stage = "Idle" => Reached(j) = 7
           /\ Active(j) /\ ~RollingBack(j) => Reached(j) \in 0..2
           /\ j.stage = "Armed" /\ RollingBack(j) => Reached(j) = 3
           /\ j.stage = "Installing" => Reached(j) = IF RollingBack(j) THEN 4 ELSE 1
           /\ j.stage = "Proving" => Reached(j) = IF RollingBack(j) THEN 5 ELSE 2
<1>1. j.since \in Nat /\ j.tries \in Nat
  BY BoundsAssumption DEF JournalType
<1>2. StageOrder["Armed"] = 0 /\ StageOrder["Installing"] = 1 /\ StageOrder["Proving"] = 2
  BY DEF StageOrder
<1>3. /\ Active(j) => j.stage \in {"Armed", "Installing", "Proving"}
      /\ j.stage \in {"Armed", "Installing", "Proving"} => Active(j)
  BY DEF JournalType, Stages, Active
<1> QED BY <1>1, <1>2, <1>3 DEF Reached, JournalType, Stages, Active

LEMMA OnwardIsAnOrder ==
    /\ \A a \in JournalType : Onward(a, a)
    /\ \A a, b, c \in JournalType : Onward(a, b) /\ Onward(b, c) => Onward(a, c)
<1>1. \A a \in JournalType : Reached(a) \in Nat /\ a.since \in Nat /\ a.tries \in Nat
  BY ReachedIs
<1> QED BY <1>1 DEF Onward

\* Time that passes, up to the cap, is never given back.
LEMMA OlderIsOnward ==
    ASSUME NEW a \in JournalType, NEW b \in JournalType, NEW d \in 0..MaxDelay
    PROVE  /\ Onward(a, Older(a, d))
           /\ Onward(a, b) => Onward(Older(a, d), Older(b, d))
<1>1. ASSUME NEW j \in JournalType
      PROVE  /\ Reached(Older(j, d)) = Reached(j) /\ Reached(j) \in Nat /\ j.since \in 0..SinceCap
             /\ Older(j, d).tries = j.tries /\ j.tries \in Nat
             /\ Older(j, d).since = CapAt(j.since + d, SinceCap)
  <2>1. Reached(Older(j, d)) = Reached(j)
    BY OlderDoes DEF Reached, Active, RollingBack
  <2> QED BY <2>1, ReachedIs, OlderDoes DEF Older, JournalType
<1>2. \A m \in 0..SinceCap : m <= CapAt(m + d, SinceCap)
  BY BoundsAssumption DEF CapAt
<1>3. \A m, n \in 0..SinceCap : m <= n => CapAt(m + d, SinceCap) <= CapAt(n + d, SinceCap)
  BY BoundsAssumption DEF CapAt
<1> QED BY <1>1, <1>2, <1>3 DEF Onward

\* A stage that is entered further on, and a launch that is counted.
LEMMA FurtherOn ==
    ASSUME NEW a \in JournalType, NEW b \in JournalType,
           \/ Reached(a) < Reached(b)
           \/ b.stage = a.stage /\ b.attempt = a.attempt /\ b.since = a.since
              /\ b.tries \in {a.tries, a.tries + 1}
    PROVE  Onward(a, b)
<1>1. b.stage = a.stage /\ b.attempt = a.attempt => Reached(a) = Reached(b)
  BY DEF Reached, Active, RollingBack
<1> QED BY <1>1, ReachedIs DEF Onward

\* What step() does to the journal in memory is a way forward.
LEMMA StepGoesOn ==
    ASSUME IInv, Step
    PROVE  Onward(jrn, jrn') /\ UNCHANGED disk
<1>1. jrn \in JournalType /\ jrn' \in JournalType
  <2>1. TypeOK /\ TypeOK'
    BY NextType DEF IInv, Next, Daemon
  <2> QED BY <2>1 DEF TypeOK
<1>2. UNCHANGED disk
  BY StepDoes DEF Stays, Opens, Concludes, Yields, Asking, Around
<1>3. CASE Stays
  BY <1>1, <1>2, <1>3, OnwardIsAnOrder DEF Stays
<1>4. CASE Opens
  <2>1. jrn.stage = "Installing" /\ jrn'.stage = "Proving" /\ jrn'.attempt = jrn.attempt
    BY <1>1, <1>4, EnterDoes DEF Opens, Stages
  <2>2. Reached(jrn) < Reached(jrn')
    BY <1>1, <2>1, ReachedIs DEF RollingBack
  <2> QED BY <1>1, <1>2, <2>2, FurtherOn
<1>5. CASE Concludes
  <2>1. Active(jrn) /\ jrn'.stage = "Committed"
    BY <1>1, <1>5 DEF Concludes, Commits, JournalType, Active
  <2>2. Reached(jrn) < Reached(jrn')
    BY <1>1, <2>1, ReachedIs
  <2> QED BY <1>1, <1>2, <2>2, FurtherOn
<1>6. ASSUME NEW why \in Reasons, Yields(why) PROVE Onward(jrn, jrn')
  <2>1. /\ Active(jrn)
        /\ \/ ~RollingBack(jrn) /\ jrn'.stage = "Armed" /\ jrn'.attempt = "Rollback"
           \/ jrn'.stage = "Failed"
    BY <1>6, FailsDoes DEF IInv, Yields
  <2>2. Reached(jrn) < Reached(jrn')
    BY <1>1, <2>1, ReachedIs DEF RollingBack
  <2> QED BY <1>1, <1>2, <2>2, FurtherOn
<1> QED BY <1>2, <1>3, <1>4, <1>5, <1>6, StepDoes

LEMMA NextGoesOn ==
    ASSUME IInv, Further, [Next]_vars
    PROVE  Further' /\ Onward(disk, disk')
<1>1. jrn \in JournalType /\ jrn' \in JournalType /\ disk \in JournalType /\ disk' \in JournalType
  <2>1. TypeOK /\ TypeOK'
    BY NextType DEF IInv
  <2> QED BY <2>1 DEF TypeOK
<1>2. ASSUME UNCHANGED disk, Onward(jrn, jrn') PROVE Further' /\ Onward(disk, disk')
  BY <1>1, <1>2, OnwardIsAnOrder DEF Further
<1>3. CASE Step
  BY <1>2, <1>3, StepGoesOn
<1>4. CASE WriteJournal
  <2>1. disk' = jrn /\ jrn' = jrn /\ disk.stage # "Idle"
    BY <1>4 DEF WriteJournal, Stepped, IInv, Agree
  <2> QED BY <1>1, <2>1, OnwardIsAnOrder DEF Further
<1>5. CASE PerformInstall
  <2>1. /\ jrn.stage = "Armed" /\ RollingBack(jrn) /\ jrn' = Enter(jrn, "Installing")
        /\ UNCHANGED disk
    BY <1>5 DEF IInv, Pending, WayBack, Journals, PerformInstall, Performing
  <2>2. jrn'.stage = "Installing" /\ RollingBack(jrn')
    BY <1>1, <2>1, EnterDoes DEF Stages, RollingBack
  <2>3. Reached(jrn) < Reached(jrn')
    BY <1>1, <2>1, <2>2, ReachedIs
  <2> QED BY <1>1, <1>2, <2>1, <2>3, FurtherOn
<1>6. ASSUME NEW ok \in BOOLEAN, PerformLaunch(ok) PROVE Further' /\ Onward(disk, disk')
  <2>1. UNCHANGED disk
    BY <1>6 DEF PerformLaunch
  <2>2. CASE ok /\ jrn.stage = "Installing"
    <3>1. jrn'.stage = "Proving" /\ jrn'.attempt = jrn.attempt
      BY <1>1, <1>6, <2>2, EnterDoes DEF PerformLaunch, AfterLaunch, Stages
    <3>2. Reached(jrn) < Reached(jrn')
      BY <1>1, <2>2, <3>1, ReachedIs DEF RollingBack
    <3> QED BY <1>1, <1>2, <2>1, <3>2, FurtherOn
  <2>3. CASE ~(ok /\ jrn.stage = "Installing")
    <3>1. jrn' = [jrn EXCEPT !.tries = jrn.tries + 1]
      BY <1>6, <2>3 DEF PerformLaunch, AfterLaunch
    <3>2. /\ jrn'.stage = jrn.stage /\ jrn'.attempt = jrn.attempt /\ jrn'.since = jrn.since
          /\ jrn'.tries = jrn.tries + 1
      BY <1>1, <3>1 DEF JournalType
    <3> QED BY <1>1, <1>2, <2>1, <3>2, FurtherOn
  <2> QED BY <2>2, <2>3
<1>7. CASE PerformLast
  <2>1. jrn' = jrn /\ disk' = IF act = "Commit" THEN [disk EXCEPT !.stage = "Idle"] ELSE disk
    BY <1>7 DEF PerformLast
  <2>2. CASE act = "Commit"
    <3>1. disk.stage = "Committed"
      BY <1>7, <2>2 DEF IInv, TypeOK, Agree, Pending, PerformLast, Performing
    <3>2. disk'.stage = "Idle"
      BY <1>1, <2>1, <2>2 DEF JournalType
    <3>3. Reached(disk) < Reached(disk')
      BY <1>1, <3>1, <3>2, ReachedIs
    <3> QED BY <1>1, <3>2, <3>3, FurtherOn DEF Further
  <2>3. CASE act # "Commit"
    BY <1>1, <1>2, <2>1, <2>3, OnwardIsAnOrder
  <2> QED BY <2>2, <2>3
<1>8. ASSUME NEW d \in 0..MaxDelay, TimerFires(d) PROVE Further' /\ Onward(disk, disk')
  <2>1. jrn' = Older(jrn, d) /\ disk' = Older(disk, d) /\ Older(disk, d).stage = disk.stage
    BY <1>1, <1>8, OlderDoes DEF TimerFires
  <2> QED BY <1>1, <2>1, OlderIsOnward DEF Further
<1>9. ASSUME NEW d \in 1..MaxDelay, Resumes(d) PROVE Further' /\ Onward(disk, disk')
  <2>1. d \in 0..MaxDelay
    BY BoundsAssumption
  <2>2. disk' = Older(disk, d) /\ jrn' = disk'
    BY <1>9 DEF Resumes
  <2> QED BY <1>1, <2>1, <2>2, OlderIsOnward, OnwardIsAnOrder DEF Further
<1>10. CASE \/ AppStarts \/ AppStamps \/ AppDies \/ HoldChanges \/ UNCHANGED vars
            \/ \E accepted \in BOOLEAN : InstallerEnds(accepted)
  <2>1. UNCHANGED <<jrn, disk>>
    BY <1>10 DEF AppStarts, AppStamps, AppDies, HoldChanges, InstallerEnds, DaemonFrame,
       daemon, vars
  <2> QED BY <1>1, <1>2, <2>1, OnwardIsAnOrder
<1> QED
  BY <1>3, <1>4, <1>5, <1>6, <1>7, <1>8, <1>9, <1>10
     DEF Next, Daemon, Phone, DaemonRestarts, PowerCut

\* The file never goes back to an earlier stage, and within a stage its clock and its count
\* of launches never start again, whatever restarts: the safety half of UpdateEnds.
THEOREM WhatIsSpentIsSpent == Spec => SpentIsSpent
<1>1. Init => Further
  <2> SUFFICES ASSUME Init PROVE Further
    OBVIOUS
  <2>1. disk = jrn /\ jrn \in JournalType
    BY InitInvariant DEF Init, IInv, TypeOK
  <2> QED BY <2>1, OnwardIsAnOrder DEF Further
<1>2. IInv /\ Further /\ [Next]_vars => Further' /\ [Onward(disk, disk')]_disk
  BY NextGoesOn
<1> QED BY <1>1, <1>2, InvariantHolds, PTL DEF Spec, SpentIsSpent
=============================================================================
