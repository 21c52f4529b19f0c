------------------------------- MODULE Updater -------------------------------
(***************************************************************************)
(* The update state machine, crates/symbian-bootcfg/src/update.rs, run as  *)
(* its Updater comment prescribes (lines 472-488):                         *)
(*                                                                         *)
(*     act = step(obs); if take_dirty() { write the journal }; perform act *)
(*                                                                         *)
(* with the phone around it: a platform installer that a person lets       *)
(* finish or not, an application that starts, stamps its version and dies, *)
(* a hold, power cuts and restarts of the daemon.                          *)
(*                                                                         *)
(* `jrn` is the journal in memory, `disk` the file; `act` is what step()   *)
(* returned and the caller has not performed, "Ask" before a step and      *)
(* "Stop" after a terminal one.  "Pause" is Wait(0); "Rest" is the return  *)
(* to the loop after an Install or a Launch, whose note is not written     *)
(* before the next step.                                                   *)
(*                                                                         *)
(* Instants are kept as ages (`age` since started_s, `since` since         *)
(* stage_since_s), capped where no comparison tells values apart; the      *)
(* clock does not run backwards.  `to` and sha256 never change and so are  *)
(* not in the journal record; sis follows from `attempt`.                  *)
(*                                                                         *)
(* `ran` and `handed` only watch: the versions that have stamped since the *)
(* journal was armed, and how often the rollback met an installer.         *)
(*                                                                         *)
(* A definition named ...Mutant is the one after it with a plausible slip. *)
(***************************************************************************)
EXTENDS Integers, FiniteSets

CONSTANTS
    Updates,        \* the updates that may be armed
    InstallSettle,  \* INSTALL_SETTLE_S
    InstallMax,     \* INSTALL_MAX_S
    Prove,          \* PROVE_S
    JournalMax,     \* JOURNAL_MAX_S
    MaxTries,       \* MAX_LAUNCH_TRIES
    MaxFloor,       \* the longest reopen_s
    MaxDelay,       \* the longest wait, outage or late timer
    SinceCap        \* beyond every limit on the time in a stage

Builds == {"old", "new"}
Nothing == "nothing"        \* no build: not installed, not running, installer idle
Unknown == "unknown"        \* from == None
NoReopen == -1              \* reopen_s == None

\* What an update brings: its promise, the previous version if recorded, whether the
\* candidate is a rebuild of that version, a known-good package, the reopen setting
\* (which the user may change between rounds), and the builds that stamp when they run.
UpdateType ==
    [proof: {"Stamp", "Launch"}, fromKnown: BOOLEAN, rebuild: BOOLEAN, knownGood: BOOLEAN,
     reopen: SUBSET ({NoReopen} \cup 0..MaxFloor), stamping: SUBSET Builds]

ASSUME UpdatesAssumption == Updates \subseteq UpdateType
ASSUME BoundsAssumption ==
    /\ JournalMax \in Nat /\ SinceCap \in Nat
    /\ {InstallSettle, MaxFloor} \subseteq 0..SinceCap
    /\ {InstallMax, Prove} \subseteq 0..(SinceCap - 1)
    /\ {MaxTries, MaxDelay} \subseteq Nat \ {0}

VARIABLES
    up,         \* the update in flight
    jrn, disk, dirty, act,
    age,        \* since the journal was armed
    stamp,      \* the last stamp written, and whether since the journal was armed
    installed, installer, running, hold,
    ran, handed

daemon == <<jrn, disk, dirty, act>>
phone == <<installed, installer, running, hold>>
vars == <<up, daemon, age, stamp, phone, ran, handed>>

VersionOf(b) == IF b = "old" \/ up.rebuild THEN "v_old" ELSE "v_new"
Versions == {"v_old", "v_new"}
To == VersionOf("new")
From == IF up.fromKnown THEN VersionOf("old") ELSE Unknown

Stages == {"Armed", "Installing", "Proving", "Committed", "Failed"}
Attempts == {"First", "Rollback"}
Reasons == {"InstallTimeout", "ProveTimeout", "LaunchFailed", "WrongVersion",
            "Expired", "NoWayBack"}
JournalType ==
    [stage: Stages \cup {"Idle"}, attempt: Attempts, since: 0..SinceCap,
     tries: 0..MaxTries, reason: Reasons \cup {"None"}]
Acts == {"Ask", "Wait", "Pause", "Rest", "Install", "Launch", "Commit", "GiveUp", "Stop"}

CapAt(n, cap) == IF n < cap THEN n ELSE cap

\* Journal::active, Journal::rolling_back, Journal::expected
Active(j) == j.stage \notin {"Committed", "Failed", "Idle"}
RollingBack(j) == j.attempt = "Rollback"
Expected(j) == IF j.attempt = "First" THEN To ELSE From
SisOf(j) == IF RollingBack(j) THEN "old" ELSE "new"

\* Journal::enter
Enter(j, stage) == [j EXCEPT !.stage = stage, !.since = 0, !.tries = 0]

-----------------------------------------------------------------------------
\* Journal::arm: bootctl launches the installer as it writes the journal

Init ==
    /\ up \in Updates
    /\ jrn = [stage |-> "Installing", attempt |-> "First", since |-> 0,
              tries |-> 0, reason |-> "None"]
    /\ disk = jrn
    /\ dirty = FALSE
    /\ act = "Ask"
    /\ age = 0
    /\ stamp \in [version: Versions \cup {Unknown}, fresh: {FALSE}]
    /\ installed = IF up.knownGood \/ up.fromKnown THEN "old" ELSE Nothing
    /\ installer = "new"
    /\ running = Nothing
    /\ hold = TRUE
    /\ ran = {}
    /\ handed = 0

-----------------------------------------------------------------------------
\* Updater::fresh, Updater::proved

FreshMutant == stamp.version # Unknown
Fresh == stamp.fresh

Proved ==
    /\ up.proof # "Launch"
    /\ Fresh
    /\ IF Expected(jrn) = Unknown THEN RollingBack(jrn) ELSE stamp.version = Expected(jrn)

\* The outcomes of step(): each sets the journal and what step() returns
Returns(a) == act' = a /\ UNCHANGED <<jrn, dirty>>
Commits == jrn' = [jrn EXCEPT !.stage = "Committed", !.reason = "None"]
           /\ dirty' = TRUE /\ act' = "Commit"

\* Updater::fail
GoingBackAgainMutant == Enter(jrn, "Armed")
GoingBackMutant == [Enter(jrn, "Installing") EXCEPT !.attempt = "Rollback"]
GoingBack == [Enter(jrn, "Armed") EXCEPT !.attempt = "Rollback"]
Fails(why) ==
    /\ dirty' = TRUE
    /\ IF jrn.attempt = "First" /\ up.knownGood
       THEN jrn' = GoingBack /\ act' = "Pause"
       ELSE /\ jrn' = [jrn EXCEPT !.stage = "Failed",
                                  !.reason = IF up.knownGood \/ RollingBack(jrn) THEN why
                                             ELSE "NoWayBack"]
            /\ act' = "GiveUp"

\* Updater::spent_launches
LaunchesSpent == IF up.proof = "Stamp" THEN Fails("LaunchFailed") ELSE Commits
TriesSpentMutant == jrn.tries > MaxTries
TriesSpent == jrn.tries >= MaxTries
LaunchAgain == IF TriesSpent THEN LaunchesSpent ELSE Returns("Launch")

-----------------------------------------------------------------------------
\* Updater::step, one action per way it can go

Around == UNCHANGED <<up, disk, age, stamp, phone, ran, handed>>
Expired == Active(jrn) /\ age > JournalMax
Turn(stage) == act = "Ask" /\ ~Expired /\ jrn.stage = stage /\ Around

StepExpired == act = "Ask" /\ Expired /\ Fails("Expired") /\ Around

StepArmed == Turn("Armed") /\ Returns("Install")

InstallTimedOut == jrn.since > InstallMax
TargetRunning == running # Nothing
StillWaiting(done, reopen) ==
    /\ ~done
    /\ hold \/ jrn.since < (IF reopen = NoReopen THEN InstallSettle ELSE reopen)

\* installer_done: bootctl saw the installer close
InstallerDone == IF installer = Nothing THEN BOOLEAN ELSE {FALSE}

InstallingProved == Turn("Installing") /\ Proved /\ Commits
InstallingTimeout ==
    Turn("Installing") /\ ~Proved /\ InstallTimedOut /\ Fails("InstallTimeout")
InstallingRunning ==
    /\ Turn("Installing") /\ ~Proved /\ ~InstallTimedOut
    /\ TargetRunning
    /\ jrn' = Enter(jrn, "Proving") /\ dirty' = TRUE /\ act' = "Wait"
InstallingOver(done, reopen) ==
    /\ Turn("Installing") /\ ~Proved /\ ~InstallTimedOut /\ ~TargetRunning
    /\ \/ StillWaiting(done, reopen) /\ Returns("Wait")
       \/ ~StillWaiting(done, reopen) /\ reopen = NoReopen /\ Commits
       \/ ~StillWaiting(done, reopen) /\ reopen # NoReopen /\ LaunchAgain

WrongVersion ==
    /\ up.fromKnown /\ jrn.attempt = "First"
    /\ Fresh /\ stamp.version = VersionOf("old")
ProveTimedOut == jrn.since > Prove

ProvingLaunch == Turn("Proving") /\ up.proof = "Launch" /\ Commits
ProvingStamp ==
    /\ Turn("Proving") /\ up.proof # "Launch"
    /\ \/ Proved /\ Commits
       \/ ~Proved /\ WrongVersion /\ Fails("WrongVersion")
       \/ ~Proved /\ ~WrongVersion /\ ProveTimedOut /\ Fails("ProveTimeout")
       \/ ~Proved /\ ~WrongVersion /\ ~ProveTimedOut /\ ~TargetRunning /\ LaunchAgain
       \/ ~Proved /\ ~WrongVersion /\ ~ProveTimedOut /\ TargetRunning /\ Returns("Wait")

StepCommitted == Turn("Committed") /\ Returns("Commit")
StepFailed == Turn("Failed") /\ Returns("GiveUp")

Step ==
    \/ StepExpired \/ StepArmed
    \/ InstallingProved \/ InstallingTimeout \/ InstallingRunning
    \/ \E done \in InstallerDone, reopen \in up.reopen : InstallingOver(done, reopen)
    \/ ProvingLaunch \/ ProvingStamp
    \/ StepCommitted \/ StepFailed

-----------------------------------------------------------------------------
\* The caller: write the journal if it changed, then perform the action

Stepped == act \notin {"Ask", "Rest", "Stop"}
WriteJournal ==
    /\ Stepped /\ dirty
    /\ disk' = jrn
    /\ dirty' = FALSE
    /\ UNCHANGED <<up, jrn, act, age, stamp, phone, ran, handed>>

PerformingMutant(a) == act = a
Performing(a) == act = a /\ ~dirty

\* launch_doc hands the .sis to the platform's installer, if it will take one;
\* then Updater::note_install
PerformInstall ==
    /\ Performing("Install")
    /\ installer' = IF installer = Nothing THEN SisOf(jrn) ELSE installer
    /\ handed' = CapAt(handed + 1, 2)
    /\ jrn' = Enter(jrn, "Installing")
    /\ dirty' = TRUE
    /\ act' = "Rest"
    /\ UNCHANGED <<up, disk, age, stamp, installed, running, hold, ran>>

\* Updater::note_launch; only the first accepted launch opens the proof window
AfterLaunch(ok) ==
    IF ok /\ jrn.stage = "Installing" THEN Enter(jrn, "Proving")
                                      ELSE [jrn EXCEPT !.tries = @ + 1]
PerformLaunch(ok) ==
    /\ Performing("Launch")
    /\ ok => installed # Nothing
    /\ running' = IF ok /\ running = Nothing THEN installed ELSE running
    /\ jrn' = AfterLaunch(ok)
    /\ dirty' = TRUE
    /\ act' = "Rest"
    /\ UNCHANGED <<up, disk, age, stamp, installed, installer, hold, ran, handed>>

\* Commit deletes the journal, GiveUp keeps it
PerformLast ==
    /\ Performing("Commit") \/ Performing("GiveUp")
    /\ disk' = IF act = "Commit" THEN [disk EXCEPT !.stage = "Idle"] ELSE disk
    /\ act' = "Stop"
    /\ UNCHANGED <<up, jrn, dirty, age, stamp, phone, ran, handed>>

Older(j, d) == [j EXCEPT !.since = CapAt(@ + d, SinceCap)]
Elapse(d) == age' = CapAt(age + d, JournalMax + 1)

\* The timer fires after a Wait, or the loop comes round, d later
TimerFires(d) ==
    /\ (Performing("Wait") /\ d > 0) \/ Performing("Pause") \/ act = "Rest"
    /\ jrn' = Older(jrn, d)
    /\ disk' = Older(disk, d)
    /\ Elapse(d)
    /\ act' = "Ask"
    /\ UNCHANGED <<up, dirty, stamp, phone, ran, handed>>

Daemon == \/ Step \/ WriteJournal \/ PerformInstall \/ PerformLast
          \/ \E ok \in BOOLEAN : PerformLaunch(ok)
          \/ \E d \in 0..MaxDelay : TimerFires(d)

-----------------------------------------------------------------------------
\* The phone around it

DaemonFrame == UNCHANGED <<up, daemon, age>>

AppStarts ==
    /\ running = Nothing /\ installed # Nothing
    /\ running' = installed
    /\ DaemonFrame /\ UNCHANGED <<stamp, installed, installer, hold, ran, handed>>
AppStamps ==
    /\ running \in up.stamping
    /\ stamp' = [version |-> VersionOf(running), fresh |-> TRUE]
    /\ ran' = ran \cup {VersionOf(running)}
    /\ DaemonFrame /\ UNCHANGED <<phone, handed>>
AppDies ==
    /\ running # Nothing
    /\ running' = Nothing
    /\ DaemonFrame /\ UNCHANGED <<stamp, installed, installer, hold, ran, handed>>

\* It stops the application it replaces; the person may also decline.
InstallerEnds(accepted) ==
    /\ installer # Nothing
    /\ installer' = Nothing
    /\ installed' = IF accepted THEN installer ELSE installed
    /\ running' = IF accepted THEN Nothing ELSE running
    /\ DaemonFrame /\ UNCHANGED <<stamp, hold, ran, handed>>

HoldChanges ==
    /\ hold' = ~hold
    /\ DaemonFrame /\ UNCHANGED <<stamp, installed, installer, running, ran, handed>>

\* What is left is the journal on disk.  A power cut also ends everything that runs.
Resumes(d) ==
    /\ disk' = Older(disk, d)
    /\ jrn' = disk'
    /\ dirty' = FALSE
    /\ act' = IF disk.stage = "Idle" THEN "Stop" ELSE "Ask"
    /\ Elapse(d)
    /\ UNCHANGED <<up, stamp, installed, hold, ran, handed>>
DaemonRestarts(d) == Resumes(d) /\ UNCHANGED <<installer, running>>
PowerCut(d) == Resumes(d) /\ installer' = Nothing /\ running' = Nothing

Phone == \/ AppStarts \/ AppStamps \/ AppDies \/ HoldChanges
         \/ \E accepted \in BOOLEAN : InstallerEnds(accepted)
         \/ \E d \in 1..MaxDelay : DaemonRestarts(d) \/ PowerCut(d)

Next == Daemon \/ Phone
Spec == Init /\ [][Next]_vars

\* The daemon's loop is never starved, and of the times it sets out to write the
\* journal not every single one is cut short.
FairSpec == Spec /\ WF_vars(Daemon) /\ SF_vars(WriteJournal)

-----------------------------------------------------------------------------
\* Every variable keeps its type; above all, no stage is launched into more
\* than MAX_LAUNCH_TRIES times.
TypeOK ==
    /\ up \in Updates
    /\ jrn \in JournalType
    /\ jrn.stage = "Idle" => act = "Stop"
    /\ disk \in JournalType
    /\ dirty \in BOOLEAN
    /\ act \in Acts
    /\ age \in 0..(JournalMax + 1)
    /\ stamp \in [version: Versions \cup {Unknown}, fresh: BOOLEAN]
    /\ {installed, installer, running} \subseteq Builds \cup {Nothing}
    /\ hold \in BOOLEAN
    /\ ran \subseteq Versions
    /\ handed \in 0..2

\* An update that asks for its evidence: a stamp, of an application it reopens
Strict == up.proof = "Stamp" /\ NoReopen \notin up.reopen

\* The file implements the transaction the module comment describes: it is done
\* only when the wanted version has run, it goes back at most once and only if
\* there is a way back, and an ended update stays ended, across power cuts.
OpOf(j) == IF Active(j) THEN IF RollingBack(j) THEN "GoingBack" ELSE "Trying"
           ELSE IF j.stage = "Failed" THEN "WrittenOff" ELSE "Done"
Promise == INSTANCE UpdateTransaction WITH
               op <- OpOf(disk), wanted <- To, previous <- From,
               wayBack <- up.knownGood, waived <- ~Strict
Transactional == Promise!TSpec

\* A candidate with a version of its own that commits is what is on the phone then:
\* nothing the update did earlier, in this run of the daemon or one that a power cut
\* ended, can have put the old package back underneath the commit.
CommitMeansInstalled ==
    disk.stage = "Committed" /\ disk.attempt = "First" /\ Strict /\ ~up.rebuild
        => installed = "new"

\* With a known-good package, and but for the backstop, nothing is written off
\* before that package has been handed to an installer.
TriesTheWayBack ==
    disk.stage = "Failed" /\ up.knownGood /\ disk.reason # "Expired" => handed > 0

\* How far an update has come: the stages of the first attempt, those of the way back,
\* its end, and the end of its file.
StageOrder == [stage \in {"Armed", "Installing", "Proving"} |->
                  CASE stage = "Armed" -> 0 [] stage = "Installing" -> 1 [] OTHER -> 2]
Reached(j) == IF Active(j) THEN StageOrder[j.stage] + (IF RollingBack(j) THEN 3 ELSE 0)
              ELSE IF j.stage = "Idle" THEN 7 ELSE 6

\* What has been spent stays spent, across power cuts and restarts: the file never goes
\* back to an earlier stage, and within a stage neither the clock nor the count of its
\* launches starts again. It is why an update cannot go on for ever.
Onward(a, b) == \/ Reached(a) < Reached(b)
                \/ Reached(a) = Reached(b) /\ a.since <= b.since /\ a.tries <= b.tries
SpentIsSpent == [][Onward(disk, disk')]_disk

\* However launches, installs and stamps turn out, and however often the power goes,
\* the update ends: the supervisor is given its entry back.
UpdateEnds == <>~Active(disk)

-----------------------------------------------------------------------------
\* What the documentation says and the code does otherwise

\* update.rs, module comment: an update that goes back ends with "the version that was
\* working before is back".
BackMeansInstalled ==
    disk.stage = "Committed" /\ disk.attempt = "Rollback" /\ Strict => installed = "old"

=============================================================================
