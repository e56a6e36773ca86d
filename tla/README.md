# UNIX Time Machine: TLA+ verification project

This directory models the parts of UNIX Time Machine that keep state while several
processes use it: the M2 broker (`broker/`), and the preservation, staging, media and
foreground commands (`scripts/`). TLC checks the models on small instances, TLAPS proves
the safety properties for every value of the constants.

Run from this directory: `tlc -config <X>.cfg MC<module>` for a run listed under "Runs",
`tlapm <M>Proofs.tla` for the proofs. `PROJECT.json` maps every definition to the lines it
translates, and lists hazards, findings, mutants and theorems.

## The system

| Part | State | Operations |
| --- | --- | --- |
| Session lifecycle (`broker/models.py`) | ten states, table of edges | checked transition |
| Record store (`broker/store.py`) | one JSON file per session, a lock file, an audit log | locked section, load, save (atomic replace), transition |
| Manager (`broker/manager.py`), a short-lived process per command | id counter, records, workspaces | `request`, `stop`, `recover-stop`, `release`, `attach`, `reconcile` |
| Supervisor (`broker/supervisor.py`), one detached process per session | readiness, attachment, deadlines, stop in progress; owns the PTY and the console socket | one select loop; SIGTERM is the stop request |
| Shutdown driver (`broker/shutdown.py`), backend (`broker/backend.py`) | prompt evidence, shutdown phase | `begin`, `observe`, `invalidate_on_input`; `prepare` |
| Process identity (`broker/process.py`) | none | pid with start ticks still in `/proc` |
| Preservation (`scripts/utmlib.py`) | `golden/`, `sessions/` | `import_golden`, `prepare_session` |
| Installation staging (`scripts/amix_m42.py`, `scripts/utmlib.py`) | media inventory, directories under `staging/` | `inventory_amix`, `prepare_amix`, `prepare_install` |
| Foreground runtime (`scripts/utm.py`, `interactive_console`) | `state/<system>.json`, `console.log` | `system start`, `system stop`, `system ready` |
| 4.3BSD media builder (`scripts/media43bsd.py`) | one output directory, a tape image | `prepare_43bsd`, `write_simh_tape` |
| FS-UAE qualification, manifests and catalogue, Ansible | files of their own | not modelled, see "Not modelled" |

Interaction. The manager and the supervisor never call each other. They meet in the
record file (read-modify-write under one `flock`), in the workspace (`broker-launch.json`
one way, `broker-stop.json` the other), in SIGTERM, in the existence of a process, and in
the socket that `attach` connects to. The supervisor becomes a manager at its end: after
result 0 it calls `Broker.release`. The M1 CLI uses the same `golden/` and `sessions/`
trees without the broker's lock, and its runtime file and console log without any.

Hard behaviour. Decisions taken on a record that was loaded without the lock (`stop`,
`attach`, the startup poll); `release` and the request, which span several writes and may
be killed in between; a signal that arrives anywhere in the supervisor's life; four
deadlines that race with late answers; a select batch whose handlers invalidate each
other's events; prompts in the PTY that are older than the key they seem to answer; disks,
media and logs replaced under a reader; check-then-create without a lock.

What makes each part correct:

- lifecycle and store: records move along the edges only, whoever writes them;
- manager: limits hold, ids are unique for good, one process prepares a session, a running
  session has its disks, no release takes disks of somebody else, or of a running
  emulator that the record names (of one it does not name yet it does: `session_orphan`);
- supervisor: one console, `ACTIVE` means attached, a readiness marker within reach of one
  read wins over the deadline, nothing is sent to a guest without an attestation (but for
  `session_slow`), only a confirmed shutdown resets, every stop is answered;
- shutdown driver: `quit` reaches the monitor, never the guest, and a stop is bounded;
- preservation, staging, media: sets appear whole and once, copies are of one set that
  existed, what is recorded is what was copied, the tape reads back;
- foreground runtime: an exit code in the file is that of the pid beside it, a recorded
  termination is of a process that is gone, the transcript is complete, a `PASS` is about
  the run whose log was read.

## Modules

| Module | Models |
| --- | --- |
| `SessionStates` | states and edges, the states that occupy a slot |
| `Lifecycle` | abstract specification of all records: they appear one at a time within a limit and move along edges |
| `Admission` | many sessions, many broker processes: admission section, counter, saves, preparation, launch, release, reconcile, kills. What a supervisor does to its record is any edge |
| `SessionContract` | abstract specification of one session: when it may be started, reset, stripped of its disks and released |
| `BrokerSession` | one admitted session in full: request, supervisor loop, emulator, PTY, clients, operators, reconcile, kills |
| `MonitorShutdown` | a stop as a race against time: driver, supervisor loop, the wait of the stop command, ordered PTY bytes, a clock |
| `Preservation` | golden import and session preparation under failures, kills and rewritten disks |
| `InstallStaging` | AMIX inventory and staging, SIMH installation staging |
| `MediaBuild`, `SimhTape` | the 4.3BSD media builder; the tape image as a function of its parts, and a tape drive that reads it back |
| `SystemRun` | `system start`, `stop` and `ready`: the console loop, the unlocked runtime file, the shared console log |
| `AdmissionProofs`, `BrokerSessionProofs`, `BrokerContractProofs`, `MonitorShutdownProofs`, `PreservationProofs`, `InstallStagingProofs`, `MediaBuildProofs`, `SystemRunProofs` | theorems and proofs |
| `MC...` | model values, symmetry and data of the instances |

Two refinements connect the levels. `Admission` implements `Lifecycle` (`LifecycleKept`,
with `Sessions <- Ids`). `BrokerSession` implements `SessionContract` (`ContractKept`, with
`disks <- rec.ws /\ disk = "disks"` and `live <- rec.emu /\ Running`). `Admission` and
`BrokerSession` overlap in `request`, `release` and `reconcile`: the first abstracts the
supervisor, the second fixes one session. `MonitorShutdown` looks closer at one part of
`BrokerSession`, whose PTY is only sets of unread bytes and whose timers are untimed.

### How state and actions correspond to the code

`Admission`: `lock` is the flock holder; `state` and `owner` are the record files;
`recorded` is the set of records whose `workspace` is saved; `workspaces` the directories
under `sessions/`; `counter` is `counter.json`; `pc` is where a process stands between two
writes. One action per write; `Crash` may come between any two and drops the lock as the
kernel does. `issued`, `ours` and `foreign` are history.

`BrokerSession`: `rec` is the record, `disk` the workspace, `req` the request command,
`sup` the supervisor's program point and memory, `emu` and `pty` the emulator and its
terminal, `client` and `op` the commands of users. A locked read-modify-write is one
action. A handler of the supervisor that makes transitions is one action that leaves them
in `sup.todo`, and `SupTransition` performs each under the lock before the supervisor does
anything else: other processes come in between, as they do in the code. `SupSelect` fixes
a batch of ready events and the handlers do not look again, which is what lets one handler
invalidate another's event. `hist` remembers what the stop in progress has sent, what has been
attested, and whether a marker was within reach of a read before its deadline.

`MonitorShutdown`: `keys` and `out` are sequences, a prompt is two halves that separate
reads may return, and `drv` is what the driver's tails let it conclude. `Tick` is one turn
of the loop at its longest; it counts down the supervisor's deadline, the stop command's
and the emulator's `lag`. The names in `keys` other than `enter` and `cont` are the same
bytes, told apart by why they were sent; `hist` says what a stop began with.

`Preservation`, `InstallStaging`: a content is a version number and a hash is compared by
comparing versions. One action per disk that is hashed or copied, so a replacement may come
between any two; the directory of an installation and its first hash are two steps as well.
`MediaBuild` does the same with contents that are byte sequences, so that `SimhTape` can be
applied to them; it has both reads of every source.

`SystemRun`: every part of the runtime file names the start it comes from, though only the
pid can be read off the file. Load, merge and replace are separate actions, as are the
announcement of `RUNNING`, the truncation of the log, every chunk that is relayed and the
reaping of the child.

Operators named `Faulty...` are plausible bugs; no action uses them. Put in place of the
definition that follows them, each breaks the property it is there for, which is how every
checked property is shown to depend on the code.

## Runs

Passing runs (all with `CHECK_DEADLOCK FALSE`: sessions and commands come to an end):

| Run | Instance | Shows |
| --- | --- | --- |
| `admission` | 2 processes, 2 systems with limits 1 and 2, total 2, a counter that issues 2 numbers, the second id of a system explicit as well, the first open to the M1 CLI; 2.7 million states | limits, numbers issued once, one preparation per id, running sessions have disks, foreign disks stay, `Lifecycle` implemented |
| `session_clients` | 2 clients that hang up or do not take their output, slow startup, early reconcile, killed request, output longer than a read, input left unread; 5.7 million states | one console; `ACTIVE` exactly when attached; a marker within reach of one read before the deadline wins; a recorded failure is not undone |
| `session_operators` | 2 operators, kills of request, operators and supervisor, profile of 4.3BSD; 0.8 million states | `SessionContract` implemented, no input without attestation, `STOPPING` lasts as long as the stop, only an exit after a `quit` of this stop resets, a stop is answered, `STARTING` ends |
| `monitor_shutdown` | 1 stop or recover-stop after the other, both profiles, timely and untimely emulators | `quit` reaches the monitor, prompt evidence stays true until used, a stop ends within twice its timeout, a timely emulator is not given up, recovery answers anew |
| `preservation` | 2 disks, 2 imports, 2 preparations of one session, 2 rewrites | golden sets are whole and imported once; a session is a copy of one set and prepared once |
| `system_run` | 2 starts, 1 stop, 1 ready, 2 chunks of output; 6.8 million states | an exit code is of the pid beside it, a termination of a process that is gone; the transcript is complete; `PASS` is about the run of its log |
| `media_build` | 2 builds, 2 tape files of block sizes 1 and 2, empty, short, whole and longer contents, 1 replacement | the tape reads back, the miniroot disk is the one on the tape, a destination appears once |
| `install_staging` | 1 inventory, 1 AMIX and 2 SIMH stagings of one destination, 2 replacements | copies are what is recorded and of one moment, a directory belongs to its maker |

Violation runs, each a disagreement of the code with its own text (`PROJECT.json`,
"findings", has the lines):

| Run | What TLC finds |
| --- | --- |
| `session_orphan` | reconcile fails a session that is just starting; the emulator is launched, never recorded, and release removes its disks while it runs |
| `session_slow` | the startup deadline sends SIGTERM, which the supervisor takes for an operator's stop: Ctrl-E goes to a guest nobody has synced |
| `session_late` | a readiness marker after a deadline asks for `FAILED -> READY`; the exception ends the supervisor that was to stay for inspection |
| `session_hangup` | relaying output to a client that has hung up detaches it, and its own event in the same batch is handled without an attachment: the session dies |

### Bounds, and why they suffice

Two processes are enough for every race in the code: each hazard is between one reader and
one writer, or two writers. Two systems make the per-system and the total limit bind
separately. `counter.json` is one for all systems, and `MaxNumber = 2` lets it be advanced
twice: each system has two ids, the second one of the system with the larger limit can be
asked for explicitly (`Explicit`) before or after the counter reaches it, and the first one
may be a path at which the M1 CLI makes a workspace (`M1Paths`). So numbers are issued
again after a kill, `_next_id` skips a number whose id is taken, and a request with an
explicit id races one with a counted id. `MaxChanges` bounds what operators replace: two
replacements let a file change between any two of three looks at it. `media_build` has one,
which is enough for the two reads of a source; two make it six million states and show
nothing else. Clients and operators come in twos because the code distinguishes a first and
a second attachment, and a stop racing a release. `session_clients` leaves operators out
and `session_operators` clients, to keep the state space small; faults are given per run in
`Faults`. A flood of output is more than one read returns; one at a time is enough to put a
marker or a prompt out of reach, and what needs several reads is one flood after another.
In `monitor_shutdown` a timeout of two ticks with an emulator that takes up to one makes
the two answers together longer than the timeout, which is what the second arming of the
deadline is for; four unread keys and three pieces of output hold two stops' worth of input
and a stale prompt before a new one. `MaxOut = 2` chunks of output in `system_run` let
output arrive before and after the child has ended.

### Fairness

Only `BrokerSession` has liveness properties. `FairSpec` assumes weak fairness of the
supervisor (it is a running process whose loop waits at most 0.1 s in `select`; locks are
held for bounded sections) and strong fairness of the two expiries `SupShutdownTimeout`
and `SupExpire`: deadlines are absolute monotonic times that the loop compares again on
every turn, so a deadline that is looked at forever is found over once. Nothing is assumed
of clients, operators, the emulator or the request. `SupExpire` covers all deadlines; the
absolute one guarantees it for sessions nobody attaches to. `MonitorShutdown` needs no
fairness: its time passes in ticks, a bounded stop is an invariant there.

## Proofs

Every theorem rests on the named assumptions of its module's constants only, except where
stated. Proved are the type invariants of all seven component modules and every other
safety property that a passing run checks, the two refinements included.

`Admission`: all seven checked properties. The limits are not inductive: admission counts
the records, then saves a new one in a later step. `IInv` adds why the count still holds
then: a process in the section holds the lock (`LockHeld`), has a system and an unused id
(`HasSystem`, `HasId`, `FreshId`), and there is room for one more record (`Room`): nobody
else may make a record occupying meanwhile. `FinitelyMany` bounds the occupying records,
which the cardinality arguments need. `DInv` does the same for disks: who owns a
preparation in progress (`Ownership`), and that what may run was recorded with its disks
before (`Unlaunched`, `DisksThere`). `LifecycleImplemented` maps a save to `Admit`, a
transition to `Move`, all else to stuttering.

`BrokerSession`: `TypeOK` and all eight other safety properties that its passing runs
check. `Attestation` says that whatever leads to a key being sent was attested; `Readiness`
says that a marker which was within reach in time is still within reach, or has been heard,
until the deadline has found its failure out. `TodoKnown` says which transitions each
program point may have left to record, `Attachment` how they will settle the record, and
`Course` (`Requested`, `Launched`, `Releasing`) how far request, supervisor and release are
with respect to the recorded state: that is the strengthening from which every step of the
session is a step of `SessionContract` or stutters (`ContractImplemented`). `Stopping` adds
what a stop in progress implies, and what it has sent. `InputIsAttested`,
`ContractImplemented`, `StopIsOnRecord` and `ResetsAreConfirmed` assume `Patient`: neither
a startup deadline that expires early nor a reconcile during the request. The runs
`session_slow` and `session_orphan` are what happens without it.

`MonitorShutdown`: all. A stop's age plus what is left of its
deadline is bounded by how often it was armed (`InTime`, `Budget`). That a `quit` reaches
the monitor is proved by following a key through the queue: `AtMonitor(n)` says the n-th
unread key will be read at the prompt, and `Reaches` that nothing before it resumes the
guest. A timely emulator is not given up because a stop that nothing disturbs is always in
one of three phases (`OnTrack`): the emulator has yet to answer Ctrl-E, its prompt is
unread, or it has yet to read `quit`. In the first and the last, what is left of the
deadline and the time the emulator has taken so far add up to the whole timeout; the clock
stands while output is unread, and the prompt arms the deadline anew.

`Preservation`: all. The three passes over the disks of a preparation (hash, copy, hash
again) enclose a moment at which the whole golden set had the copied versions: `Readings`
keeps a set that has been seen, lies above everything hashed and below everything copied
afterwards; versions only grow, so the equality of first and last hash closes it.

`InstallStaging`: all, by the same argument with the recheck as the last pass (`KInv`,
`MInv`, `SInv`). `SystemRun`: all; copies of the runtime file that a command holds are as
true as the file (`CopiesAreTrue`), a recorded pid is one that was forked
(`ProcessOfStart`), and a log holds a prefix of what its run has said (`LogIsRead`).

`MediaBuild` and `SimhTape`: all. `WrittenTapeReadsBack` is about the tape alone: for every
sequence of files of naturals, with any block sizes, the drive reads what was written, up to
the first empty file. Its proof follows the two loops of the writer. From the last record of
a file to the first, the drive finds the rest of the blocks and then what follows the mark
(`ReadsFile`); from the last file to the first, it finds the files up to an empty one. Both
are inductions over data. They are carried out on sets of numbers, from the least element of
a set (`LeastElement`, `DownwardInduction`), which also gives the existence of the two
recursive functions involved, `FlattenSeq` and the drive's `Reading`, which looks only at
later positions. The invariant of the builder (`MediaInv`) then says that what a command
publishes was made from one choice of contents that the sources have held (`Whole`), which
stays true because `held` only grows. `TypeOK` depends on it: the tape is a sequence of
naturals because no input is missing when it is written.

Assumptions on constants are those the code has: `TAPE_FILES` names its inputs and block
sizes above zero, contents are sequences of naturals, limits and bounds are naturals, and
model values are told apart.

Only model-checked: the liveness properties `StopAnswered` and `StartingEnds`, which are
out of the prover's reach, and the four violations.

## What the models show beyond the properties

Behaviour found while modelling that no document contradicts, or on which a property
claims nothing:

- A recover-stop whose signal comes between `supervisor.py:136` and `140` is lost: the
  flag is cleared with the old stop.
- A recovery that is over between two polls is answered with the expiry of the wait, which
  says the session is preserved although it may be released (`manager.py:158`).
- An emulator that exits by itself after a deadline has failed its session is reset and
  released (`supervisor.py:263-266`), although `docs/ARCHITECTURE.md:79` keeps the
  evidence of an unconfirmed exit.
- A prompt observed while typed-ahead input is still unread is evidence that this input
  makes false (`shutdown.py:31-35`).
- The last look at the console before the readiness deadline counts is one `os.read`
  (`supervisor.py:211`), about 4 KiB of a PTY: a marker behind more output than that loses,
  although the comment above it says that a marker already emitted at the boundary wins.
- A write to the PTY that fails, since the emulator has gone or does not read
  (`supervisor.py:125, 172, 195, 199`), raises and ends the supervisor.
- A request whose session went through `STARTING` to `STOPPING` or further between two
  polls runs into its startup deadline and sends a SIGTERM of its own.
- `system ready` may pass on the log of the run before between the announcement
  (`utm.py:213`) and the truncation (`utmlib.py:461`); two starts mix one log.
- The runtime file may put session and termination of one start beside the pid and exit
  code of another (`utm.py:233`), which the comment at `utm.py:223` means to be "the same
  child exit"; a termination written between `utm.py:230` and `233` is overwritten.
- A second interrupt during the wait for a child (`utmlib.py:498-502`) records a null exit
  code and lets the child run on.
- The hash of an input in `metadata.json` may be of a later content than the one on the
  tape (`media43bsd.py:136-144`), and an empty decompressed file ends the tape.
- A medium verified against its manifest is hashed again for the record, which may then
  be of a later version (`utmlib.py:364`).

## Abstractions

- Reuse of a pid (with the same start ticks for the broker, any for M1) is left out; so are
  invalid record files, whose only effect is that commands refuse.
- Audit log, supervisor transcript, control log, time stamps and messages are left out.
- In `BrokerSession` the PTY is a set of unread markers and prompts, which one read
  returns together unless a flood stands before them, and a set of unread keys; a marker is
  recognised when read, since the code keeps the tail of the last read. In
  `MonitorShutdown`, which is about the order of bytes, writes to the PTY succeed.
- The emulator is external: it halts, resumes, prompts and exits as it likes.
- A disk is read or copied in one step. A content that is replaced and put back between two
  looks is not modelled (versions only grow): the code's hashes cannot see it either.
- `InstallStaging` leaves out ROM and key, configuration texts, the order of tape members
  and the pins of manifests. `MediaBuild` leaves out gzip and uuencode: a content stands
  for the file that decodes to it.

## Not modelled

- FS-UAE qualification (`scripts/fsuae_m41.py`): one sequential command that starts an
  emulator for a human, in a run directory of its own, and then searches text in its logs.
  It shares no state with another process, and what could go wrong is in the wording of
  those logs.
- Manifests and catalogue (`manifestlib.py`, `catalog.py`, `validate_manifests.py`): pure
  validation of static YAML.
- Provisioning (`ansible/`): tasks run by an external tool.
- Of modelled parts: the rendering of emulator configurations, argument parsing, and
  `status` commands that only read.

What could be added: the order of tape members with its two reads of the index.
