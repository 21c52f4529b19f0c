# epoc in TLA+

epoc is a Rust SDK for Symbian S60 3rd Edition phones: a C++ shim that turns the
platform's active objects into a queue of events, Rust crates on top of it, and a
boot manager that launches, supervises and updates the applications of a phone.
This directory holds TLA+ modules of the parts of it whose correctness depends on
the order in which things happen, the TLC configurations that check them, and
proofs checked by TLAPS.

Paths below are relative to the root of the repository; `bootcfg` is
`crates/symbian-bootcfg/src`.

    tlc -workers 2 -config WorkerMC.cfg Worker      # one run
    tlapm WorkerProofs.tla                          # one module of proofs

## 1. The system

### Parts, their state and their operations

| Part | Source | State | Operations | Module |
|---|---|---|---|---|
| Boot supervisor | bootcfg/supervise.rs, config.rs, status.rs | one slot per entry (launched, strikes, restarts, backoff), phase, queue of actions, shared restart counter | step, note_launch, set_installing, set_updating | Supervisor, SupervisorHistory |
| Exponential backoff | crates/symbian/src/backoff.rs | the interval armed next | on_tick, on_reset, on_hold | Backoff |
| Updater and its journal | bootcfg/update.rs | the journal in memory and on disk | arm, step, note_install, note_launch, take_dirty | Updater, UpdateTransaction |
| Worker thread and Job | crates/symbian/src/work.rs, shim/src/shim_work.cpp | a Job's buffers and busy flag, one active object, one thread handle, one static job record | submit (four forms), abandon, on_event, RunL, the thread's main, cleanup | Worker |
| Event ring | shim/src/shim_event.cpp | 64 slots | push, poll, kick | EventRing |
| Pump | shim/src/shim_app.cpp, crates/symbian-app/src/lib.rs | an idle object, armed or not | kick, drain, draw, re-arm, quit | Worker |
| Timers, BackoffPoller | shim/src/shim_time.cpp, backoff.rs | 8 slots, no generation; the armed delay and the handle | after, every, cancel; start, poll, cap_next | Timers |
| Networking | crates/symbian/src/net.rs, shim/src/shim_net.cpp | slots of sockets, three active objects each; a stream's two buffers and landing area | open, connect, read, write, close, on_event | TcpStream, ByteStream |
| Messaging bridge | crates/symbian-mtm/src/lib.rs, shim/src/shim_msg.cpp | the message store as outbox, tokens in flight | poll, confirm, fail | Bridge, Outbox |
| Files | crates/symbian/src/fs.rs, intent.rs, shim/src/shim_file.cpp | a path and its path.tmp, who has them open | write_atomic, read, delete | Files, SavedFile |
| Download queue | bootcfg/queue.rs | jobs and their states, on disk | push, start, advance, fail, pause, retry, cancel, reconcile | no |
| Database | crates/symbian/src/sql.rs | a transaction | transaction, migrate | no |
| HTTP, TLS, Bluetooth, telephony, location | the shims of those names | one transaction or session each | wrappers of platform calls | no |
| Packages, repositories | bootcfg/pkg.rs, catalog.rs, repo.rs, github.rs, sis.rs, scan_cache.rs | lists on disk | parse, encode, decide an offer | no |
| Boot manager screens | crates/symbian-bootctl, crates/symbian-pkgui | what is selected | keys in, requests out | no |
| UI, graphics, layout, keys, audio, images, JSON, cryptography | the crates of those names | values | pure functions and single-threaded widgets | no |
| apps/, examples/, tools/, toolchain/, vendor/ | | | probes, demonstrations, build scripts, third-party code | no |

The daemon `apps/bootd` and the application `apps/bootctl` live in another
repository. What this one says of them (the loop the supervisor's module comment
prescribes, the order the Updater's comment prescribes) is modelled as the caller.

### How they interact

- The **platform** calls an active object's RunL on the GUI thread. Each RunL
  pushes one event into the ring; the pump, which runs only when nothing else can,
  calls `rust_step`, which drains the ring into the application and then draws.
- The **worker** is the one second thread. It completes the request of an active
  object of the GUI thread, whose RunL pushes `WORK_DONE`.
- The **supervisor** and the **updater** are pure: the daemon polls a clock and the
  list of running processes, calls `step`, performs the action it returns and reports
  back. They share the phone: an entry being updated is hidden from the supervisor.
- The **updater** talks to the application it updates through files: the journal, the
  hold, the flag that the installer has closed, and the version stamp which is the
  only evidence that a particular build ever ran.
- **Sockets and timers** are numbered slots of the shim. What they complete goes through
  the ring, where an event names its slot and nothing else; a slot is used again.
- The **bridge** and the Messaging application share the message store; **processes**
  share files, and neither has a lock that spans two calls.

### What is hard

Two actors and one flag (a Job's `busy`, the platform's `IsActive`); a completion that
waits in a queue while the object it belongs to moves on; a full queue; an exit while
a thread runs; a process seen dead while it is being replaced; a journal that is
written before or after the deed, with the power gone in between; deadlines that race
one another; counters shared by entries with different rights; a slot that has a new
owner when an event for the old one arrives; a thing done, and recorded by a second call
which may fail or never be made; two processes at one file. PROJECT.json lists
these as hazards, at their lines, each with the property that covers it or the reason
none does.

### What makes each part correct

- *Supervisor*: no more restarts than the ceiling and the budgets allow; an entry is
  disarmed only when its own budget is gone; `Settled` and `Done` mean what they say; a
  death is answered in the end; restarts keep their distance.
- *Updater*: nothing is committed without evidence; it goes back once, to a package that
  exists; an ended update stays ended; the update ends.
- *Worker*: one thread at a time, on the buffers of a Job that is busy; no stray and no
  missing signal; no event left in the ring with the pump asleep; the exit waits for the
  thread, and ends.
- *Timers*: a poller that has started always has one wake-up ahead of it, and one only; it
  wakes again and again.
- *TcpStream*: bytes arrive once and in order both ways; what a stream believes to be
  outstanding is; a stream with room always reads again.
- *Bridge*: only what the user finished goes out, and twice only for a fault; what shows as
  sent was carried; every finished reply ends.
- *Files*: a file holds something complete or nothing; what is taken is taken once.

## 2. The modules

    Backoff --> Supervisor --> SupervisorHistory        EventRing --> Worker
       |            |                                      | |          |
       |     SupervisorProofs --> SupervisorRoundProofs    | |     WorkerProofs
       +--> Timers --> TimersProofs                        | |
              ^--------------------------------------------+ |
                                       TcpStream <-----------+
    ByteStream        <--(refined by)-- TcpStream --> TcpStreamProofs
    UpdateTransaction <--(refined by)-- Updater --> UpdaterProofs
    Outbox            <--(refined by)-- Bridge  --> BridgeProofs
    SavedFile         <--(refined by)-- Files   --> FilesProofs

`MCSupervisor`, `MCSupervisorHistory`, `MCUpdater`, `MCTimers` and `MCTcpStream` give TLC
its boot lists, updates, caps and quotas; the other constants are in the cfg files.

### Supervisor

One action per branch of `step` (`PopQueue`, `StepDelay`, `StepLaunch`, `StepGaveUp`,
`StepDone`), and for the supervise phase `BeginRound`, one `Visit(i)` per slot in list
order, and the four ways a round can end. The code runs such a round without
interruption; the model does too, as nothing else is enabled while `cursor` is not 0.
`NoteLaunch`, `PersistDisarm`, `WriteStatus` and `TimerFires` are the caller. Instants
are kept as distances from now, capped where the code stops telling values apart, so
time needs no bound. Who is running, whether an installer is, and which entry is being
updated are chosen afresh at every poll. `snapshot` and the report fields `last_rc` and
`launch_at_s` are left out: nothing reads them back.

`SupervisorHistory` adds two variables that only watch: the time since each entry was last
restarted, and the time that is due before its next restart. `Backoff` is the interval arithmetic alone, which Timers uses too.

### Updater

`jrn` is the journal in memory, `disk` the file, `act` the action `step` returned and
the caller has not yet performed. The caller writes the file if it changed and only then
acts. Around it: the installer, which a person lets finish or not; the application,
which starts, stamps and dies; the hold; a restart of the daemon, or a power cut,
between any two steps. `ran` and `handed` are history variables.

`UpdateTransaction` is the promise alone: an operation that is being tried, going back,
done or written off; done only if the wanted version has run, or the previous one after
going back; never leaving an end. `Updater` refines it (`Transactional`), the
operation being read off the *file*, which is what survives.

Kept as data: the version and the hash of the candidate do not change and are not in the
journal record. Encoding and decoding are not modelled; a file with a bad CRC is refused.
The clock does not run backwards.

### Worker and EventRing

One action per piece of code that runs without giving up control: `Submit`,
`SubmitFails`, `Abandon` (calls the application makes from inside `rust_step`),
`WorkerRunL`, `OtherRunL`, `PumpRunL`, `Poll`, `DrainEnds`, `FollowUp`, `StepEnds`, `Quit`,
`Cleanup` on the GUI thread, and `Enter`, `Post`, `NoCleanupStack`, `Die`, `Return` on the
worker, which interleaves with all of them. `run` in a completion and in a Job is for
the properties; no guard reads it. `lost` and `overtaken` are history variables. The
arguments `submit` checks, the encodings of an operation, the counter of dropped events,
and submissions made by an application's constructor are left out.

### Timers

The slots of shim_time.cpp with two kinds of owner: the BackoffPoller (`Start`, `CapNext`,
`Poll`), and others that start, cancel or forget timers. A timer that fired keeps its slot
until it is cancelled or the slot is wanted; RunL names only the slot. Time (`Elapses`)
runs for all timers at once and does not wait for the GUI thread. Two history variables say
what can take the poller's wake-up from it: `missed`, a full ring dropped its event, and
`robbed`, another owner cancelled its timer. `AllocSlot` gives away the slot of a timer that
has fired, whoever still keeps its number, and nothing stops that owner from cancelling it later.

### TcpStream and ByteStream

A byte is its place in its stream, so a lost, repeated or invented byte shows. `Connect`,
`Write`, `Read` and `Close` are the calls of the application, each with the pump it ends
in; `Poll` is on_event with the fail it may end in. `CtlRunL`, `ReaderRunL`, `WriterRunL` are the active objects,
`ConnectEnds`, `ReadEnds`, `ReadStops`, `SendEnds` the socket server, which may send a part
and then break, and fills the landing buffer while the application drains the other.
`taken`, `read`, `wrote`, `got`, `lost` and `misled` are for the properties.

A slot is given away whatever events of its last socket are in the ring, as in the code.
A stream that takes an event whose request was another stream's is `misled` from then on:
section 5 says what comes of it. The properties speak of every other stream, those that were
opened in the slot of another and those beside a misled one included; the types and the
capacities are of all. The application may act at any point of a step, since an event of any
other kind may be ahead of those of the sockets, and these are the only ones the model keeps
in the ring.
`ByteStream` is two queues and an end, and a phase in which nothing is promised (`void`).

Left out: Bearer, Lookup and UdpSocket; connect and open refused; `SHIM_EV_CLOSED`, which
only Shutdown makes, and no exported call shuts down.

### Bridge and Outbox

Every call to the store is a step: listing a folder, reading an entry, the body and the
service, the flags, the move, the mark. Between two of them the Messaging application
writes, publishes and deletes entries; a call may fail; the daemon may die and start with
nothing but the store. `Outbox` is what the user sees: a draft, waiting, sent, failed or deleted.
A reply of another account is a draft that stays. Left out: deliver, the
registration of the MTM and the account, and handle_raw, which only makes a poll come
sooner.

### Files and SavedFile

Every call to the file server is a step: `Begin` (open path.tmp), `Write`, `Close`,
`DeleteTarget` and `Rename` (the two calls of shim_file_rename), `Look`, `Read`, `Remove`
and `Hand` for take_request. Each may fail, its caller may die, the power may go. Any
process may open path.tmp while another is between its calls, as long as the file server
lets it: a file is open to one process at a time. take_request drops the error of its
delete, so `Remove` goes on to `Hand` either way.

`SavedFile` says that contents are complete, are missing only through someone at work, and
are handed out once at most. A taker may lose what it took by dying, and delete unread
what was saved since it read: `SavedFile` allows both, since it promises no more than once.
What the code does not keep is written into it as two faults, each tied to its cause:

- a part of a file may be put in place, but only while a save is under way that another save
  has met at work (`crossed`);
- contents may be handed out again, once for every time that a taker's delete left them
  behind (`kept`).

Assumed: there is one taker, as there is one launcher; a closed file is on the disk.
`MaxKept` bounds how often a delete fails for one contents. Left out: the table of handles,
copy, append_capped, directories.

## 3. The runs

| Run | Module, cfg | What it shows |
|---|---|---|
| supervisor_safety | MCSupervisor, MCSupervisor.cfg | ceiling, budgets, disarming, queue, Settled, Done, write-offs and updates over four boot lists of two entries |
| supervisor_liveness | MCSupervisorHistory, SupervisorLive.cfg | the launch sequence ends; a death is answered; restarts of an entry come at base, 2 base, 4 base or later |
| updater | MCUpdater, MCUpdater.cfg | refinement of UpdateTransaction, commits of what is installed, the way back tried, every update ends; six kinds of update |
| worker | Worker, WorkerMC.cfg | the invariants and the two liveness properties of section 1 |
| tcp_stream | MCTcpStream, TcpStream.cfg | of streams that took no completion of another: refinement of ByteStream; requests tracked, and one out whenever it may be; no byte mislaid; and of any stream with room that it reads again |
| timers | MCTimers, Timers.cfg | never without a wake-up, unless a full ring or an old handle takes it; never with two; and it comes |
| bridge | Bridge, Bridge.cfg | refinement of Outbox; second sendings paid for by faults; every reply ends |
| saved_file | Files, Files.cfg | refinement of SavedFile, with two savers at once, failing deletes, deaths and power cuts |

Four runs are expected to fail. Each checks one sentence of the documentation which the
code does not keep:

| Run | Property | The sentence | The code |
|---|---|---|---|
| rollback_commits_early | BackMeansInstalled | update.rs:23, the version that was working before is back | a stamp of the old build from before the rollback proves it at once |
| stale_completion | BusyWhileWritten | work.rs:335, a worker's buffers are not reused underneath it | `WORK_DONE` names no submission: one that waits in the ring frees the Job under the next worker |
| stale_socket | NoJunk | net.rs:540, checking the handle keeps one socket's completion from being consumed by another | the handle is the number of a slot; a completion left in the ring is taken by the stream opened next in it, which offers bytes that never arrived |
| save_lost | OldOrNew | fs.rs:426, a battery pull leaves either the old contents or the new ones | the old file is deleted before the new one is renamed: in between there is neither |

### Bounds, and why they are enough

- *Supervisor*: two entries let one be a neighbour that spends the ceiling, is deferred or
  is being updated while the other dies; the boot lists pair a critical entry with an
  ordinary one, two budgets, Never with a budget, a refused entry and a disabled one.
  Two strikes, two launch tries and one never-up try are the least at which the counters
  are neither absent nor always spent. `CountMax` is where counters saturate, as in the
  code; in supervisor_liveness it is 3, past the cap of the backoff, so that the spacing of
  three restarts of one entry is seen. That run takes a home screen and an ordinary
  entry alone, and two entries under a ceiling of zero, where what never came up is still
  restarted. Timeouts are small numbers in their real
  order. `Lateness` is 0 in both runs; the proofs hold for any.
- *Updater*: one update, as the code has one journal; six kinds, which differ in what the
  update can prove and where it can go back to; two launches per stage. An install settles, and
  then times out, at successive instants; a `JournalMax` of 4 lets both attempts run out on any
  of their own deadlines, and the backstop come first. In rollback_commits_early it is 7, out of
  the way. `SinceCap` lies beyond every limit.
- *Worker*: two Jobs contend for the one thread; two submissions give a stale and a
  current one; a ring of two slots overflows with two other events. `MaxRuns` and
  `MaxInputs` bound how often the application acts, not what may happen in between.
  `stale_completion` takes one Job: it needs no other.
- *TcpStream*: two streams, open at once or the second in the slot of the first, with the
  ring empty or not. `Traffic` has four cases: three bytes in and two out over the first, into
  buffers of two, so that a buffer fills, a read is partial and a send grows under the one
  before it (`Early`); two each way over the second alone, which then has a slot that was used
  before, and its buffers at their limit (`Late`); and a byte of each stream, so that neither
  may get what is the other's (`BothReceive`, `BothSend`). A ring of two overflows.
- *Timers*: two slots and one other owner are the least where a start finds only a slot
  left by a fired timer; the cadence has two steps to its cap; caps of 0 (clamped to 1)
  and 2, and a jitter.
- *Bridge*: two replies and one of another account; two store errors and a death, so that
  one reply meets each kind of fault, and two of one kind.
- *Files*: two savers, a taker and three values: one in the file, one in path.tmp, one on
  the way to the caller. One failed delete for each contents lets all of them be handed out
  twice. `save_lost` takes no taker, as a taker removes the file by right, and one saver.

CHECK_DEADLOCK is off where the system ends: the daemon exits at `Done` or when the
update is over, the process is gone after `Cleanup`, the streams are closed, the values
are used up.

### Fairness

- Supervisor: `WF(HNext)`. The daemon's process is scheduled and its timer fires; nothing
  is assumed of the applications or of the launches.
- Updater: `WF(Daemon)`, and `SF(WriteJournal)`: of the times the daemon sets out to write
  the journal, not every one is cut short by the power. Nothing is assumed of the
  installer, the application or the person.
- Worker: `WF(Gui)`, the scheduler dispatches what is ready and a drain goes on, and
  `WF(Work(t))` per thread: a thread runs and its computation ends, one way or another.
  Nothing is assumed of the application, which need not submit, abandon or quit.
- TcpStream: `WF(Gui)`. Nothing is assumed of the network, or of the application's reading.
- Timers: time passes, each RunL that is due runs, a drain goes on, and `SF(StepBegins)`:
  the pump has the lowest priority, and the timers leave it time again and again.
- Bridge: `WF(PollBegins)`, the timer comes back; `WF(Working)`, a call goes on; and
  `SF(Confirm(r) \/ Fail(r))`, the service answers what it accepted in a call that the
  daemon, between polls, gets to.
- Files: none; nothing there promises to happen.

## 4. The proofs

Each holds for every value of the constants that satisfies the named assumptions: any
boot lists, numbers of entries, Jobs and submissions, any deadlines, any replies, errors,
deaths, processes and values, any streams and capacities.

**SupervisorProofs.** `TypeCorrect`; `CeilingIsKept` and `DisarmIsEarned`, from
`IInv = TypeOK /\ Accounting`. The two invariants speak of what was decided long ago;
`Accounting` carries the decision along: every slot's restarts are within the shared
counter and its own budget, and a Disarm is earned while it is queued and while it is the
caller's to write, not only when it is in the file.

**SupervisorRoundProofs.** `QueueIsSound`, `WriteOffIsFinal` and `UpdatesAreLeftAlone`, from
`RoundInv`: a round starts with an empty queue and runs to its end inside one call (`Rounds`),
so what is queued concerns slots it has left behind (`Ordered`). `SettledIsDeserved`, from
`Struck` (strikes are counted only of an entry that has been up, and past its grace) and
`Counted` (an entry visited in this round with a confirmed death has reset the quiet time).
`DoneIsDeserved`, from `Sequenced` (every entry not yet tried is ahead of the sequence, or is
the launch the caller has in hand; a failed launch moves the sequence back, also out of the
supervising phase) and `Over` (nothing follows the phase Done). It needs `SETTLE_MS` not to be 0.
`RestartsAreSpaced`, of SupervisorHistory, from `Spaced`: the time since the last restart and
the hold that is left make up what is due, and the next interval makes up what will be due
then. No step of it looks at a power of two, as what is due doubles along with the interval.

**UpdaterProofs.** `TypeCorrect`, `TheWayBackIsTried`, `CommitIsInstalled`, and
`JournalIsTransactional`, the refinement, from `IInv`, six parts: `Warranted` (a fresh stamp
is of a version that ran, an ended journal has its evidence), `WayBack`, `Agree` (in which ways
memory may be ahead of the file), `Pending` (the action returned fits the stage), `Physical`
(what a first attempt can have installed), and TypeOK. The refinement has one step per
action: writing the journal and deleting it are the transaction's steps, a stamp is
`Runs`, and everything else stutters. `WhatIsSpentIsSpent`: the file never goes back to an
earlier stage, nor within a stage to fewer launches or a younger clock. The journal in memory
is at or past the file in that order (`Further`), and a cut puts the file back into memory.

**WorkerProofs.** `TypeCorrect`, `AtMostOneWorker`, `NoStraySignal`, `TeardownWaits`,
`RingIsServed`, `BuffersAreHeld`. The invariant adds to those five `ActiveIsSubmitted` (an
active object stands for the newest submission, and its thread and handle with it),
`StaleIsOvertaken` (a completion in the ring under a working thread means that thread's
submission was overtaken) and `OwnerIsBusy`. One lemma per action. `RingIsServed` also says
where the answer of a busy Job is: with its thread, the active object or the ring, unless the
thread died, a full ring dropped it or the application has gone. That is `Answering`, an
invariant on top of the first: an answer only moves on, and a step that takes it out of the
ring frees the Job.

**BridgeProofs.** `TypeHolds`, `HoldingIsExclusive`, `SecondSendingsArePaidFor` and
`BridgeKeepsPromise`, the refinement. The invariant adds to the type and `HeldOnce`:
`Claimed` (what is being handed over or recorded was found pending, and only a deletion can
have touched it since), `Unfinished` (what was not published was neither sent nor marked) and
`Paid` (a reply that may still go out has gone out no more often than there were faults;
going out closes it, and only a fault opens it again).

**FilesProofs.** `TypeHolds` and `FilesKeepWhole`, the refinement, of any savers, at once or in
turn, and at most one taker. The invariant: a saver that was not crossed is alone at work
(`Alone`), so what it renames is what it wrote (`Writing`); the file holds only what was put
there (`Held`); what a taker has read, and what was handed out, is not put a second time, and is
either gone or was left behind by a delete it has not yet been handed out for (`Reading`,
`Handed`), as a posting is made once. `NothingIsLostAtOnce`: at every step of a save that was
not crossed the path has the old contents, as far as no taker has removed them, or path.tmp the
new ones, complete. That is what remains of the sentence `save_lost` refutes; it needs that the
path keeps what it had when the save began until that save or a taker deletes it (`Keeping`).

**TimersProofs.** `TypeHolds`, `SleepsOnce` and `AsleepHolds`, whatever the owners do. A live slot
belongs to an owner that keeps its handle (`Owned`, `OthersKeep`), which gives the types and one
timer at most. A slot that is live is not given away, so a timer of the poller that goes before
its time was cancelled by an owner that kept the old number of its slot (`robbed`): otherwise a
poller that is armed has its timer running, its event in the ring, or a full ring to blame
(`Wakeful`). That `arm` finds a slot where it has none to give back is the pigeonhole over fewer
owners than slots (`AlwaysASlot`).

**TcpStreamProofs.** `TypeHolds`, `RequestsAreTracked`, `NothingIsMislaid`, `NoJunkIsOffered` and
`StreamKeepsPromise`, the refinement. Nothing is assumed of the application or of the ring: a slot
is given away at any time. A slot in use and the stream it belongs to name each other (`Tied`),
and each completion is clamped to the room of the stream that takes it, whosever it is: that is
all the types need. One predicate a direction (`Rx`, `Tx`) ties together what a stream keeps, its
active object, the events of its requests in the ring and what the ring dropped: one request is
out at most, and its bytes are in one known place. They are claimed of the streams that
were not misled (`Safe`). Lemmas about values come first (what draining, landing, filling,
sending and the pumps do to `Rx` and `Tx`), then the ring, and then one lemma per action. They
rest on two facts about who is concerned: an event of a stream that is open names the slot the
stream has (`Mine`), so no other stream can take it; and a step about one stream leaves every
other one, its socket and its events alone (`Alone`, `Apart`), also where that stream is
misled. What a misled stream does is then no matter: ByteStream promises nothing of it, and
it cannot reach another. That a stream asks whenever it may (`Asking`, the half of
`RequestsTracked` that keeps a connection from going silent) holds because every handler ends
in a pump.

Only model-checked: all liveness properties, which the prover cannot reach, and the four
failing runs. Of most liveness properties the safety half is proved: a wake-up is always ahead
(`Asleep`, for `WakesAgain`), a stream that may read has asked (`RequestsTracked`, for
`Listens`), an answer is somewhere on its way (`NothingStranded`, for `AnswerArrives`), and an
update spends what it has and gets none of it back (`SpentIsSpent`, for `UpdateEnds`).
`SpentIsSpent`, `JunkIsMisled` and `OldOrNewSomewhere` are in no cfg; their theorems cover the
models that the runs explore.

## 5. Other divergences met while modelling

No run shows these; the model contains the behaviour.

- *Supervisor.* In the GaveUp phase nothing is probed any more, critical entries included
  (supervise.rs:340), though the ceiling must not be why the home screen stays dead
  (config.rs:134). Each action other than Wait makes the caller step again with the same
  answers, and a strike is counted again (supervise.rs:451), though one poll can catch a
  process in a transition and two in a row will not (:39). A launch that fails in the
  supervise phase re-enters the launch sequence,
  which launches an entry that was already written off, an entry being updated, and does
  so while an installer runs. A ceiling of zero still allows restarts of entries that
  never came up. `Settled` may be said while an entry has never been seen running.
- *Updater.* `note_install` reaches the file one step late (update.rs:537), so a power cut
  installs twice, against :485. The Proving stage launches without looking at the hold
  (:602), against :451. The backstop (`JOURNAL_MAX_S`) writes an update off without trying the
  way back, unlike its comment. With reopening off, an update commits without the new version
  having run; a rebuild of the same version commits on a stamp whose build cannot be told
  from the old one's. An update that promised only a launch (`Proof::Launch`) is rolled
  back when its install times out, against update.rs:136 ("No rollback comes with it").
  `commit` names the candidate's version for a way back too (update.rs:688). `Journal.sha256`
  is documented as zero on a rollback, and never is. The journal is saved by
  `write_atomic`, so `save_lost` applies to it: a cut can lose the file. In Updater, writing
  the journal is one step.
- *Worker.* `rust_app_stop` drops the application and its Jobs' buffers before
  `ShimWorkCleanup` waits for the thread that may write to them (shim_app.cpp:987,
  shim_daemon.cpp), against shim_work.cpp:39. A worker that panics leaves the object active, so
  `abandon` refuses for ever (work.rs:323 says otherwise). The remark that a push during a
  drain finds the pump awake (shim_app.cpp:851) is not so: `IsActive` is false inside its
  RunL, and an event pushed from draw starts the pump which `StepEnds` then starts again:
  the outcome `panicked`. The thread need not have ended by the time RunL runs
  (shim_work.cpp:266).
- *Timers.* `cap_next` compares with the delay that was armed, not with what is left of
  it, and late in a sleep lengthens it (backoff.rs:212; :198 says it is ignored then). A
  timer that fired leaves its slot for reuse, so cancelling its old handle, "a safe no-op",
  may cancel another owner's timer (shim_time.cpp:103): without `~robbed` in it TLC finds
  `Asleep` violated. The event of a cancelled timer, still in the ring, is
  taken for the new one in its slot, so a burst of activity may cost more than one poll. A
  full ring drops the event of a timer, and the poller sleeps until something else comes.
  shim_prop.cpp:86 reads a property before it subscribes anew; a change between
  the two is not seen.
- *TcpStream.* Beside what `stale_socket` shows, a misled stream loses track of what is
  outstanding: a completion that is not its own clears the flag of a request that is still out,
  so it asks again, is refused and fails, or drops bytes from tx that were not sent. Without
  the exception TLC finds `RequestsTracked`, `NothingMislaid` and `Duplex` violated.
- *Bridge.* A reply carried out whose recording fails is offered again (symbian-mtm
  lib.rs:191, :204 say never again; :437 is why). `poll` leaves on the first store error, so
  a body that cannot be read for good keeps the replies behind it waiting, and the listing
  is newest first: the older ones starve.
- *Files.* Every saver of a path uses the same path.tmp (fs.rs:432). Two at once, such as
  two applications posting a request, can rename what the other has half written, against
  fs.rs:427 (never a mixture). take_request drops the error of its delete (intent.rs:184), so a
  request may be opened again, against :182. Without its two faults `SavedFile` is not
  implemented: TLC finds `KeepsWhole` violated either way. The new contents that `save_lost` leaves
  in path.tmp are looked for by nobody. `take_request` deletes unread what was saved since it
  read. append_capped's `cap` is a ceiling plus one line, as it looks before it appends;
  fs.rs:504 says it is not.
- *Queue* (not modelled). `retry` does not look for a duplicate URL; `next_id` reuses ids
  of cleared jobs, though it is the highest ever used plus one; `reconcile` charges a power
  cut as an attempt; a cancelled job cannot be retried, against the comment of cancel (:291).

## 6. Not modelled, and plan

The download queue is a list and its operations; the process that drives and saves it is
in another repository, and so would be every interleaving of a model. The screens,
widgets, parsers, decoders and ciphers are sequential and are covered by their unit tests. The
platform wrappers (telephony, location, properties, Bluetooth) keep no state between calls.

What is left, in this order:

1. Bearer: the connection under the sockets, its retry and the choice of an access point.
2. BootSystem: the boot counter, safe mode, update-only start and hold, with the promises of
   Supervisor and Updater composed.
3. Offer (pkg.rs): the decision against a reference definition.
