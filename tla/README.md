# A verification project for gitler

gitler copies files between two computers of one local network. `gitler receive`
opens a QUIC endpoint, advertises it over mDNS and asks its user about every request;
`gitler send` looks for receivers for a few seconds, picks one, connects to it pinned
to the certificate fingerprint it advertised, and sends a manifest and then the files,
one after the other, each followed by its SHA-256 and answered by a verdict. The
program is installed and removed by `install.sh` and `install.ps1`, from releases that a
workflow builds and publishes.

This directory holds TLA+ modules that model the parts of this system which are hard to
test, TLC configurations that check them on small instances, and TLAPS proofs of what
matters most. All source paths below are relative to the repository's root: the Rust code
is in `src/`, the installers beside it.

    tlc -workers 4 -config TransferSafety.cfg MCTransfer     # a run
    tlapm TransferProofs.tla                                 # the proofs

## 1. The system: an inventory

| Component | Code | State | Operations | Model |
| --- | --- | --- | --- | --- |
| transfer, receiver | `src/transfer.rs`: `receive_files`, `handle_connection`, `request_approval`, `create_destination` | accept loop, permits, one task per connection, approval lock, console, output directory | accept or refuse, read and validate the request, ask the user, answer, receive each file under a new name, clean up, wait for the close; Ctrl+C, `--once` | `Transfer` |
| transfer, sender | `src/transfer.rs`: `send_files`, `collect_files` | position in the exchange, writes done | collect and measure files, connect, request, send each file, read each verdict | `Transfer` |
| file stream | `src/transfer.rs`: `stream_file`, `receive_body` | both hashers, both buffers, the QUIC stream, the destination with its background write | read, hash, write, digest; read exactly, write, hash, compare, flush | `FileStream` |
| what a file on its stream promises | (abstract) | the content sent, the content kept | open, finish; read the header, receive; fail | `FileDelivery` |
| what a transfer promises | (abstract) | the files saved, the sender's report | save the next file, deliver, fail | `Delivery` |
| protocol | `src/protocol.rs` | none | frame and parse length-prefixed JSON with a limit | `FileStream`; what a message carries in `Transfer` |
| manifest checks | `src/transfer.rs`: `validate_request`, `validate_manifest_path` | none | portable relative paths, no duplicates, sizes | predicate of `Transfer` |
| discovery | `src/discovery.rs`, `src/lib.rs`: `select_peer` | the mDNS registration; a map of peers, a deadline | publish, withdraw; browse, resolve, order, select, ask | `Discovery` |
| security | `src/security.rs` | a certificate per run | make a certificate; verify the pin | `Discovery` |
| command line, console, start-up | `src/cli.rs`, `src/ui.rs`, `src/main.rs` | none of its own | parse, print, start and end the runtime | options and the runtime's end in `Transfer`, `gitler peers` in `Discovery` |
| Unix installer | `install.sh` | install directory, executable, state file, profile; temporary files and flags of each run | install, upgrade, downgrade, replace, `--remove-path`, `--uninstall`, the exit trap | `InstallSh` |
| Windows installer | `install.ps1` | the same, with the User PATH in the registry | the same, with `File.Replace` and try/catch rollback | `InstallPs1` |
| what an installation promises | (abstract) | the executable, the recorded release, the wish of the run | begin, install, remove, end; be cut short | `Installation` |
| release pipeline | `.github/workflows/release.yml`, `scripts/` | artifacts, draft and published release | build, assemble, verify, publish | no |
| CI and local checks | `.github/workflows/ci.yml`, tests | none | run other programs | no |

How the parts interact. The receiver's endpoint and its advertisement are two resources
of one process, opened and closed in an order that a sender can observe (`Discovery`).
The sender's choice ends in an address and a fingerprint; only the fingerprint says who is
at the other end. Once connected, sender and session exchange messages over streams
(`Transfer`); the sessions of a receiver share the permits, the console behind a lock, and
the directory. Within a file, bytes pass through two buffers, a bounded stream and a
background write (`FileStream`). The installers do not talk to the program; runs of an
installer interact through the install directory, the state file and the shell profile.

What is hard, part by part, and what has to hold:

* **Transfer.** Sessions interleave at every await; a sender may vanish, stall or be of
  another build; the process may be interrupted or killed; any operation may time out.
  A sender that reports success has all its files saved; a rejected one has not; no
  session touches another's file or one that was there; nothing is written without
  approval; a line typed at the console answers the question that is on it; permits are
  neither lost nor doubled; everybody ends.
* **File stream.** Short reads on one side, exact reads on the other, a digest right
  behind the data, a source that changes, a disk whose errors come one call late.
  "Verified" means whole, on disk and as declared; an undisturbed file is never refused.
* **Discovery and pin.** Answers late, repeated, incomplete, out of order or from another
  version; receivers that restart on the same sockets; loopback addresses that mean
  something else on each machine. The sender is connected with the run it chose; it
  chooses without a question only where there is no choice; the scan ends.
* **Installer.** Several files have to change together, every command may fail, a signal
  may come between a change and the flag that records it, a kill anywhere, a second
  installer at any time. Old or new, never half; the executable is whole; other people's
  files survive; a run cleans up after itself.
* **Windows installer.** The same promise kept in another way: each step is recorded once it is
  done, and a catch block undoes what was recorded, in an order that differs between install
  and uninstall and that goes on when an undo throws; Ctrl+C runs the finally blocks only. The
  User PATH is read once and written twice (the change and its undo), while other programs
  change it. What a run reports is so; the state file says truthfully who owns the entry.

`PROJECT.json` lists every hazard at its line with the properties that cover it.

## 2. The modules and the code

### Transfer (`MCTransfer` for TLC; `TransferProofs`, `TransferRefinement` for the proofs)

One receiver process and any number of senders. `spc[s]` is where `send_files` is,
`rpc[s]` where the `handle_connection` of that sender is: a value for each await at which
other tasks can run. What a session does between two of them touches shared state (a permit, the
lock, a name in the directory) by one operation at most, so each such piece is one action:

| Actions | Code |
| --- | --- |
| `Start`, `Connected`, `ConnectTimeout`, `SendRequest`, `ReadAcceptance`, `OpenFile`, `FinishBody`, `SourceChanged`, `ReadVerdict`, `SenderLosesConnection` | `send_files` and `stream_file` |
| `Accept`, `Refuse`, `Interrupt`, `CloseEndpoint`, `WaitIdle` | `receive_files`: the permit is taken by `Accept`, Ctrl+C wins the `select!` |
| `Cancel`, `Exit` | the runtime dropped at the end of `main`: tasks are dropped at their await, and the process ends when no blocking call is left |
| `Handshake`, `ReadRequest`, `Prompt`, `UserAnswers`, `ConsoleFails`, `WriteAcceptance`, `WriteRejection` | the first half of `handle_connection`, `validate_request`, `request_approval` |
| `ReadHeader`, `MakeParents`, `Probe`, `CreateFails`, `ReceiveBody`, `ReceiveBodyFails`, `RemovePartial`, `WriteVerdict`, `PeerClosed` | its loop over the files, `create_destination` |
| `ConnectionError`, `Timeout`, `EndSession` (an operator) | every `?` of it, the `timeout`s on the control stream and on the next file's, and the task around it that gives the permit back |
| `ConnectionLost`, `SenderLosesNetwork` | the path is cut until QUIC gives the connection up |

A connection waits in the endpoint until the accept loop takes it (`pending`); with
`MaxIncoming` of them waiting the endpoint keeps no more (`WithIncoming`).
`disk` maps each name below the output directory to what is there: nothing, an older
file, a directory, or a partial or whole file of a given sender and manifest entry.
`config` is the situation, chosen once: who sends what, which senders are another
build (they may send the expected header index or a wrong one and a wrong digest, and may
stall), what the
directory holds, the options, whether there is a terminal, and which faults may happen.

What travels from a sender is a prefix of a fixed sequence of writes, so `written[s]`
counts them; in the other direction at most one response is unread, which is `reply[s]`.
The bytes of a body are left to `FileStream`, of which `Transfer` uses the result: a body
arrives with a good digest, with a bad one (another build only), or not at all. That
`Transfer` may take it so is what `FileDelivery` says, below.

### Delivery

The abstract specification: files of a manifest are saved in order and stay saved, and a
sender may report delivery only when all are. `KeepsPromise` says that `Transfer`
implements it, with `saved` computed from the receiver's disk and `outcome` from the
sender's position. TLC checks it, and `TransferRefinement` proves it.

### FileStream (`MCFileStream`, `FileStreamProofs`)

One file on its stream, byte by byte: the `FileRequest` that names it (`write_message`,
`read_message`), then `stream_file` and `receive_body`. The header is a length and a message:
the receiver reads exactly the prefix, refuses a length over `MAX_MESSAGE_LENGTH` before it
reads on, reads exactly the message and decodes it; whatever the sender has already put
behind the header stays in the stream for `receive_body`. The source may be edited while it
is read; a read returns any number of bytes up to a chunk; the stream holds `Window` bytes;
the receiver reads exactly `wanted` bytes (the prefix, the message, then the rest of the
file up to a chunk, then a digest); `Save` hands a chunk to the file, whose write
(`DiskWrite`, `DiskFull`) happens in the background and whose error is found at the next
call or at the flush. A foreign sender may declare another length than it writes or one over
the limit, name another file, write any bytes and the digest of anything. The digest of a
sequence is a record of that sequence, so it has no collisions. In `stream_file` nothing is
awaited between the last byte of the digest and the return to `send_files`, which calls
`finish()` at once, so one action, the `WriteSome` of that byte, is both.

### FileDelivery

The file as `Transfer` sees it: a header and a body, each written and read in one step. Its
actions carry the names of `Transfer`'s (`OpenFile`, `FinishBody`, `ReadHeader`,
`ReceiveBody`, the failures) and state what `Transfer` assumes of them: the receiver verifies
only after the sender has finished and keeps what it finished with; this build finishes only
with the declared content, unless somebody rewrote it; and each end fails only for a reason
(the file changed, another program sends, disk or network failed, the other end failed).
`KeepsPromise` maps the positions, the claimed content and the destination of `FileStream` to
it; chunks, windows, the framing and the background write are stutters.

### Discovery (`MCDiscovery`, `DiscoveryProofs`)

Each element of `Receivers` is one run of `gitler receive` and so one certificate, one
fingerprint and one id; a restarted receiver is another element with the same name and
sockets. The actions of a run are those of `receive_files` that others can see: `Bind`,
`Publish`, `Withdraw`, `Close`, `Exit` and `Crash`. The daemon that answers for a run is a thread
of its own: `shutdown_daemon` waits a second for it and ignores errors, so `Withdraw` may leave
the run `lingering`, still advertised (`DaemonStops`, or the end of the process, ends that), and
`Close` closes the endpoint all the same. The sender's actions are `discover_peers`
(`Browse`, `Resolve`, `Tick`, `DeadlineReached`, `DaemonError`), `select_peer` (`TakeOnly`,
`Ask`, `Choose`, `ChooseBadly`, `NoChoice`) and `connect` with `verify_fingerprint`
(`Connect`, `ConnectFails`). `gitler peers` makes the same scan and ends with
`PrintPeers` instead. A run whose endpoint or registration fails ends in `StartFails`. mDNS is
external: `Answer` and `Resolve` let an answer come at any time after it was given, any number
of times and with any part of the addresses.
`heard` is a history variable.

### InstallSh (`MCInstallSh`; `InstallShProofs`, `InstallShSequential`, `InstallShRefinement`)

`me[r]` is a run of the script: its position, one per command that changes a file or a
flag the exit trap reads, and its shell variables (`swapped` is `BINARY_SWAP_COMMITTED`,
`committed` is `STATE_COMMIT_DONE`, `ready` is `PATH_SNAPSHOT_READY`, `hadOld` is
`HAD_OLD_BINARY`, `seen` are `CURRENT_*`). The definitions follow the script from
`Inspect` (`inspect_installation`) over `Fetch`, `Decide` and the replacement
(`MakeDir` ... `DropRollback`) to the PATH block (`Snapshot` ... `Forget`) and uninstall.
`CommandFails` is `set -e` and `fail`; `Signal` is HUP, INT or TERM between two commands;
both lead into the trap, whose four parts are `CleanFiles`, `CleanBinary`, `CleanRollback`,
`CleanProfile`; `Kill` does not. Commands of the trap fail as well: an `rm` of a temporary file
that fails ends the trap there (`set -e`), with the executable and the profile as they are; a
failing `mv` retains the rollback copy; a failing `rm` of the rollback copy is reported, and the
trap goes on. A file that stays because its `rm` failed is noted in `uncleaned`. The profile
is restored by copying the snapshot over it, and a copy that fails, or is killed, may leave the
profile as it was, restored, or cut short (`RestoreFails`, `Kill`). The content of an
executable is its release, so contents are their own hashes.

### InstallPs1 (`MCInstallPs1`; `InstallPs1Proofs`)

Runs of `install.ps1` one after the other. `me` is the run: `pc` is the call it is at,
`flow` the part of the script that is at work (the main transaction, `Invoke-Uninstall` or
the branch for `-RemovePath`; without a directory the last is an installation like any
other, as in the code), `plan` the result of `Get-PathPlan`, `done` what the run has
changed (the transactions that are `Committed`, `movedExecutable`, `movedState`,
`userPathChanged`), `errors` whether `rollbackErrors` is not empty, and `before` what the
run found, which only the properties use. `temps` holds the staged executable and the two
backups. The transaction is `MakeDir`, `Stage`, `ReplaceExecutable`, `SetUserPath`,
`WriteState`, `DropBackups`; an uninstall goes through `MoveExecutable`, `MoveState`,
`SetUserPath`, `DropBackups`. Each may throw (`Throws`), and `Catch` leads into `UndoState`,
`UndoUserPath`, `UndoExecutable`, in the order of the flow; `Leave` leads into the finally
blocks (`CleanBackups`, `CleanStage`, `RemoveDir`). `Stop` is Ctrl+C, which skips the catch
block, and `Kill` skips both. `OtherProgram` changes the User PATH at any time.

### Installation

What both installers promise, as their user sees it: an executable, the release its state
file names, and the wish of the run under way. `Install` changes both at one moment, and only
as the wish allows (`MayInstall`: nothing there, or `install` of no older release and over an
executable nobody changed, unless `--allow-downgrade` and `--force` say so); `Remove` takes
both away. `CutInstall` and `CutRemove` are a run that is killed between its changes or
cannot undo them: an install then leaves the new executable under the old record, which the
next run refuses and `--force` repairs (without an old record, the directory is refused as
somebody else's), but never a new record with another executable, and never a record without
an executable. `KeepsInstallation` of `InstallSh` and of `InstallPs1`
say that the installers implement it. The mapping shows the executable a run found until the
run can no longer go back: in `install.sh` until the state file is renamed or removed, in
`install.ps1` (executable and record) until the backups may be dropped. What is moved and
moved back was then never seen.

Definitions with an underscore in their name (`Probe_Overwrite`, `KeyOf_Name`) are
variations with a plausible bug. No specification uses them; each is there because with
it in the place of the real definition some property has to fail.

## 3. What the runs check

| Run | What it shows |
| --- | --- |
| `transfer_safety` | All safety properties of `Transfer` and `KeepsPromise`, in nine situations with up to three senders (487,944 states) |
| `transfer_liveness` | If the user answers, senders and an interrupted receiver end, and sessions and `--once` end or are held by a peer of another build at a place without a timeout (168,587 states) |
| `transfer_interrupt` | *violation*: with nobody at the console, Ctrl+C does not end the receiver |
| `transfer_reject` | *violation*: a rejected sender may see a connection error instead |
| `install_safety` | Two runs in sequence, with every option on two releases, two failing commands (in the work, its undo or the trap), kills: old or new, profile as recorded, nobody else's files; the runs implement `Installation` (2,237,352 states) |
| `install_faults` | Two overlapping runs with two failures, signals and kills: only verified executables in place, no temporary file left by a run that ends but what a failing `rm` left (2,572,335 states) |
| `install_signal` | *violation*: a signal between a rename and its flag leaves half of an upgrade |
| `install_preserved` | *violation*: "existing executable was preserved" after the undo failed too |
| `install_two` | *violation*: of two overlapping installers the older release may win |
| `install_ps1` | Two runs of the Windows installer in sequence, every combination of options, two calls that throw, Ctrl+C, kills, and another program's change of the User PATH: what is reported is so, and the runs implement `Installation` (931,092 states) |
| `discovery` | The right receiver, no guess, no closed port advertised but by a run whose daemon did not stop in time, and the scan ends (409,572 states) |
| `file_stream` | Verified means whole and the file that was named, the stream implements `FileDelivery` (no false alarm, no digest before its file), and both ends end (306,190 states) |

The properties, besides a `TypeOK` per module:

* `Transfer`: `DoneMeansSaved`, `RejectedMeansMissing`, `DestinationOwned`,
  `OneNamePerEntry`, `NoPartialLeft`, `OnePrompt`, `OnlyApproved`, `PermitsAccounted`
  (invariants), `NeverClobber` (action property), `KeepsPromise` (refinement),
  `SessionsEnd`, `SendersFinish`, `OnceExits`, `InterruptStops` (liveness).
* `InstallSh`: `OnlyVerified`, `NeverMissing`, `NoLitter` (invariants), `AllOrNothing`,
  `PathFollowsState`, `NoDowngrade`, `UnmanagedRefused`, `EditedKept`, `PreservedIsTrue`
  (action properties, most of them about the last step of a run and what it found),
  `KeepsInstallation` (refinement). Of the sequential runs, `KeepsInstallation` implies
  `NoDowngrade`, which is checked by itself where runs overlap (`install_two`).
* `InstallPs1`: `OutcomeIsTrue` (what "restored", "installed" and "uninstalled" say of
  executable, state and entry), `PathFollowsState` (the entry and its recorded owner),
  `NeverMissing`, `UnmanagedRefused` (invariants), `OthersKept` (action property),
  `KeepsInstallation` (refinement).
* `Discovery`: `RightReceiver`, `NoGuess`, `AdvertisedIsServed`, `ScanEnds`.
* `FileStream`: `VerifiedIsWhole`, `StreamEnds`, `KeepsPromise` (refinement), which implies
  that an undisturbed file is never refused.

### Situations and bounds

`Transfer` is checked in situations rather than over all manifests, each chosen for an
interaction: *Race* (two senders, one name that is taken before, a second file; with
every fault, and again under `--once`), *Pair* (one file each under one name), *Nested* (a file `d` and a file `d/g`, in one
manifest and across two, with another build), *Invalid* and *TooMuch* (a request for each
rule of `validate_request`, an overflowing sum, a manifest over the length limit),
*Busy* (one sender more than there are permits), *Solo* without a terminal.

| Bound | In the code | Here | Why it is enough |
| --- | --- | --- | --- |
| candidate names of a file | 10,000 | 2 | free, taken, and all taken each occur |
| `MaxIncoming` | 64 | 2 (1 for liveness) | two senders wait to be accepted, and one more is not kept |
| `MaxActive` | 8 | 2 | full and one more is reached with three senders |
| `MaxTotal`, `MaxSize` | 2^64 - 1, `--max-size` | 3, 2 | two files of a legal size overflow the sum |
| `MaxEntries` | 16 KiB of JSON | 2 | a manifest of three is too long |
| versions of a release | any | 1, 2 (3 in `install_two`) | newer, same and older each occur; three are needed for a downgrade below an upgrade |
| runs of an installer | any | 2 | a run and what it left, or two at a time |
| `MaxFailures` | none | 2 (0 in `install_signal` and `install_two`) | a failed command, and a failed undo of it or a failed step of the trap |
| changes of the User PATH by others | any | 1 | before the plan, between the plan and the change, and before its undo |
| `Timeout` of the scan | seconds | 2 ticks | answers before, between and too late |
| receiver runs | any | 3 | a run, its restart on the same sockets, and one of another version on the sender's machine, behind the same loopback address |
| prefix, message, message limit | 4, the JSON, 16 KiB | 2, 2, 3 | reads end inside the prefix and the message; a declared length that is right, too short, too long, over the limit |
| file length, chunk, digest, window | any, 128 KiB, 32, QUIC's | 3, 2, 2, 3 | empty, part of a chunk, one chunk, a chunk and a rest; reads end inside chunk and digest |
| `MaxEdits` | none | 1 | appended, truncated or rewritten at every point of the reading |

Deadlock is checked in every run of `Transfer`, `Discovery` and `FileStream`: the only
states without a further step are those where every process has ended (`Terminated`,
`Finished`). The installers' runs simply stop, so their configurations switch the check off.
Symmetry is used over the installer's runs, which differ in nothing, and for no liveness.

### Fairness

* `Transfer`: the receiver's runtime polls each task that can go on, so the steps of sessions
  and of the accept loop are weakly fair, and so are `Timeout` and `ReceiveBodyFails`, which
  stand for timers that the code sets: `CONTROL_TIMEOUT` on the first stream and its message
  and on each file's, and the timeouts inside `receive_body`. The handshake, the writes of
  responses and `connection.closed()` have no timer (`PeerPaced`, `PeerClosed`): they go on for
  a peer that reads and closes, as this build does, or is gone. A peer of another build that
  keeps the connection alive may hold its session, and the permit, at those five places
  (`HeldByPeer`), and `SessionsEnd` and `OnceExits` say that it can do so nowhere else. That
  the path is cut (`ConnectionLost`) may happen under the fault `network` and is not fair. A
  sender of this build is a program that goes on, so it is fair; a crash is a fault, never
  required. Nothing in the code makes the user answer: `FairSpec` assumes it,
  `UnattendedSpec` does not, and `transfer_interrupt` is checked under the second.
* `Discovery`: the sender's clock and its task are fair. Nothing is assumed of receivers,
  of the network, of the daemon or of the user, who may leave the question open.
* `FileStream`: both tasks, background writes and timeouts are fair; a foreign sender may
  stop at any byte.
* `InstallSh` and `InstallPs1` have no fairness and no liveness property.

### Findings

1. `transfer_interrupt`: `request_approval` reads standard input in a blocking task
   (`src/transfer.rs:521`). After Ctrl+C the runtime, dropped at the end of `main`, waits
   for that read, so the process stays until a line is typed.
2. `transfer_reject`: `handle_connection` writes a rejection, calls `finish()` and returns
   (`src/transfer.rs:396`); the dropped connection may overtake the answer. After the last
   file the code does wait for the sender's close; here it does not.
3. `install_signal`: the flags of the exit trap are set one command after the renames they
   record (`install.sh:1006`).
4. `install_preserved`: a failed undo is ignored, and the flag is reset, so the rollback
   copy is deleted (`install.sh:1009`).
5. `install_two`: the guard against concurrent runs looks for names with this run's own
   PID (`install.sh:980`), and versions are compared with what was read at the start.

The interrupted receiver of `transfer_liveness` does end: there the user answers.

Observed while modelling `install.ps1`, and in the model as the code has it:

* `-RemovePath` without an install directory is not refused: the branch for it is inside the
  test for the directory, so the script goes on (`install.ps1:1673`) and installs gitler, although
  it says "remove the owned PATH entry only" (1586). `install.sh` ends there.
* The finally block of the uninstall (1470-1477) deletes the executable's backup also after a
  move back that threw, and after Ctrl+C between the moves, when it is the only copy.
  `NeverMissing` therefore excludes an uninstall that did not end well, and nothing else.
* The uninstall does not compare the executable with the recorded hash, as `install.sh` does.
* The User PATH is read at 1095 and written at 1858 and 1914. What another program changes in
  between is lost, so `OthersKept` speaks only of the entries that are there when the plan is
  made and stay. A kill between the change
  of PATH and the state file leaves an entry without an owner.

## 4. What is proved

All theorems hold for every value of the constants that satisfies the named assumptions
of the modules: `SendersAssumption`, `NamesAssumption`, `LimitsAssumption` (`Transfer`),
`RunsAssumption`, `SelectorsAssumption`, `TimeoutAssumption` (`Discovery`),
`VersionsAssumption`, `JobsAssumption`, `BoundsAssumption` (`InstallSh`, `InstallPs1`),
`SizesAssumption` (`FileStream`). In particular the number of senders, names, permits,
receivers, releases and runs is arbitrary, and so are the manifests, the set of situations and
the jobs. No liveness is proved, and no fairness is used.

**`TransferProofs`.** The properties are not inductive. `IInv` is the conjunction of:

* `TypeInv`: `TypeOK`, and `SessionOK`: a session past its request has a valid one, works
  on a file that the manifest has, and looks at a candidate that exists. Without it
  `Path(s, rIdx[s])` and the candidate have no type.
* `DiskInv`: `DestinationOwned`, and that a verified file is whole under the name its
  session holds; two sessions then never hold one name, since what is under a name says
  who put it there.
* `OnePrompt`.
* `InStep`: the sender's count of writes is never ahead of the session's count of files
  by more than the exchange allows, given the unread answer and both positions.
* `SavedInv`: the files before `rIdx[s]` are whole on disk, and a sender that is done has
  a session that is past its last file.
* `ApprovalInv`: a session that has got as far as a file has an approved request, and
  so has everybody whose files are in the directory.

`Invariant` is `Spec => []IInv`, one step per action and one lemma per conjunct
(`TypeStep`, `DiskStep`, `PromptStep`, `InStepStep`, `SavedStep`, `ApprovalStep`). From it
follow `TypeCorrect`, `OwnDestination`, `OneQuestion`, `ApprovedOnly`, `DoneIsSaved`, and
`NothingClobbered`, an action property, for which the name that `RemovePartial` frees is
the session's own.

`DoneIsSaved` is the central one: a chain from the sender's report to the receiver's
disk. `InStep` ties the last verdict it read to the last file the session verified,
`SavedInv` ties that to the disk, and `DiskInv` keeps what is whole from being changed.

**`TransferRefinement`.** `RInv` adds to `IInv`:

* `EntryInv`: every file of a session belongs to an entry that the session has reached
  (`FileOK`), is alone under that entry, and is partial only while the session writes it
  (or after it was cancelled, or the disk failed). `OneNamePerEntry` is not inductive without
  it: when `Probe` takes a name for entry `i`, something has to say that no name has `i` yet.
* `RejectInv`: from the session that writes a rejection to the sender that reads it, the
  entry the session is at is not saved, and the session ends there.

Lemmas say what one step may do to one session (`SessionMove`), to one sender's report
(`ReportMove`), to one destination and one name (`DestMove`, `DiskMove`); the steps of the
invariant and of the refinement are drawn from these and no longer mention the actions.
Theorems: `OneNameHolds`, `NoPartialHolds`, `RejectedIsMissing`, and **`PromiseKept`**:
`Spec => KeepsPromise`, that `Transfer` implements `Delivery`. For the refinement, the files
saved of a sender are a prefix of its manifest that only grows (`SavedPrefix`), a step
changes that prefix or a report but not both, and of one sender only (`OneSaves`,
`OneReports`); `PromiseStep` then maps each step to a step of `Delivery` or a stutter.
`PermitsHold` proves `PermitsAccounted` for a finite set of senders, by the cardinality of
the active sessions when one enters or leaves (`PermitMove`).

**`DiscoveryProofs`.** `DInv` follows an answer to the connection: what was heard was
answered and is of this version (`HeardInv`), the map holds exactly what was heard under
its id (`PeersInv`), the list is the map in some order (`ListInv`), and the choice is an
entry of the list, the only one left by `--to` unless the user was asked (`ChosenInv`).
Cardinality of the candidates needs the list to be finite, which needs a surjection from
what was heard (`FoundFinite`). Theorems: `Discovered` (`DInv`), `Pinning`
(`RightReceiver`), `NeverGuessed` (`NoGuess`), `ServedWhileAdvertised`
(`AdvertisedIsServed`, from `ServingInv`, which says where a run may be registered and where it
may be so with its endpoint closed), and
`DiscoveryTyped` (`TypeOK`), for which the preferred address of a nonempty set has to be one
of the set (`PreferredIsOne`).

**`InstallShProofs`**: any number of runs that overlap in any way, any failures, signals and
kills. `VInv` is `FilesInv`, the types, and `RunInv(r)` of each run: what it carries is the
release it verified, its staged file is whole from the verification to the rename, its
`rollback` is incomplete only if it failed to be made and was not swapped in, and past the
step of the trap that removes it each of its temporary files is gone, unless the run has noted
that the removal failed (or retained the rollback copy). `OnlyVerified` alone is not
inductive: that the renamed file is a release follows from what the run did three steps
earlier. `RunInv` speaks of one run's own files, so a step of one run cannot disturb that of
another (`VStep`). Theorems: `InstallTyped`, `OnlyVerifiedHolds`, `NoLitterHolds`.

**`InstallShSequential`**: runs that do not overlap and get no signal (`Quiet`), which is
what findings 3 and 5 say is needed. `SeqInv` relates the files to what the run found when it
started: `SeenInv` (what it read is what was there), `OrderInv` (unchanged up to the swap, the
new executable with the old state after it, both new after the commit, and the same for the
PATH block), and `Settled`, what must hold wherever a run enters its exit trap or is inside it.
A run may enter the trap with the executable swapped and the state not (`Torn`): without an old
executable the undo is an `rm`, and when that fails it ends the run. `TornInv` says that this is
the only way, so two commands have failed and there is no old executable to lose. Each command that fails or succeeds into the trap
owes `Settled`, and each part of the trap keeps it. Theorems, for any number of failures:
`NeverMissingHolds`, `NoDowngradeHolds`, `UnmanagedRefusedHolds`, `EditedKeptHolds`,
`PathFollowsStateHolds` (which leaves out the run whose very last command fails) and
`AllOrNothingHolds` (which speaks of runs that end after one failure at most before their last
command: with two, the undo of the first failed command may have failed as well, of which finding
4 is one case).

**`InstallShRefinement`**: the same runs implement `Installation`. `MapInv` adds to `SeqInv`
what the mapping needs: the hash of a state file is that of the release it names (`Genuine`),
an uninstall takes away what it found, the executable first (`Removal`), and what a run may
have said (`Said`). The run whose executable is still hidden is the only one (`View`). A step is
then one of four kinds: not seen
(`UnseenStep`, drawn from lemmas that say where an action takes its run and that it leaves
`Torn` alone: `Moves`); the rename of the state file, which is where both change (`CommitSeen`); its
undo or the removal of the state (`UndoCommitSeen`, `RemoveStateSeen`); a kill or a failure
that ends the run in between, or the trap that gives the undo up (`CutSeen`). `MayReplace` and
`MayTakeAway` carry what `Decide` and `Inspect` found, several steps and a download earlier, to that moment. Theorems:
**`InstallationKept`**, for any number of failures, and `PreservedIsTrueHolds`, that with one
failed command the message "existing executable was preserved" is true; finding 4 is what
happens with two.

**`InstallPs1Proofs`**: any number of runs, calls that throw, kills, Ctrl+C and edits of the
PATH by others. `PInv` says, for each position of a run, how files and PATH stand to what the
run found. `EarlyInv`: equal up to the first change. `PlanInv`: what the checks before the
plan let through, which is what makes an ownership that is given up harmless. `DoneInv`: each
thing in `done` has its old version in the backup, each other one is as it was found.
`ForwardInv`: what the steps so far have achieved. `UndoInv`: each undo that is over has
brought its part back or has left an error, which is why "restored" may be reported only
without errors; the order of the undo differs between uninstall and the rest, so it is stated
per flow. `Settled` is what the report owes. Each action has a lemma that says what it does
to the fields of the run, and one step per conjunct. Theorems: `Ps1Typed`,
`OutcomeIsTrueHolds`, `PathFollowsStatePs1`, `NeverMissingPs1`, `UnmanagedRefusedPs1`,
`OthersKeptHolds`, and **`InstallationKeptPs1`**: the installer implements `Installation`,
with no limit on failures. `ViewInv` adds what a run past its checks has found, as far as its
options matter (`FoundInv`), and what it leaves if it is cut short, when the mapping uncovers
its files: an install has touched no record that it has not put back, and has the old or the
new executable; an uninstall has each of both as found, or gone (`MaskInv`).

**`FileStreamProofs`**: contents, chunks, digests, prefixes and windows of any size, any number
of edits, any sender. `FlowInv` is conservation of bytes: what the receiver has taken, its
buffer, the stream and the sender's buffer are, one after the other, the header, what the
sender has read, and the digest once it is written. Each step moves a piece from the front of
one of these to the end of the one before it (`Shift`), adds a piece at the sender's end
(`Grown`), or leaves the line as it is (`SameLine`). From it: the first byte read is the first
of the frame (`FirstByte`); where the digest of what was received stands, the digest that was
sent stands, so both are of the same content (`DigestMatches`); and from a sender that is this
program, undisturbed, comes neither a mismatch nor an early end (`NoMismatch`,
`NotEndedEarly`). `ReceiveInv` carries what was received to the disk, `SourceInv` what was read
back to the source. The digest is the last thing in the line, so when the receiver has all of
it, nothing is left in the stream and the sender has finished (`DigestMatches`, from the part
of `Flow` that says that whoever has not finished holds a rest of the digest). In the same way
a request that was read leaves nothing of the header with the sender (`HeaderRead`).
`SenderReason` and `ReceiverReason` give the reason of every failure. Theorems: `StreamTyped`
(`TypeOK`), `NoFalseAlarm` (a file that nobody touched, over a network and a disk that work, is
never given up), `VerifiedIsWholeHolds`, and **`PromiseKept`**: `FileStream` implements
`FileDelivery`. The last two assume `NoByteIsDigest`: bytes of a content are not the digest of
what stands before them.

**Model-checked only.** The liveness properties (`SessionsEnd`, `SendersFinish`, `OnceExits`,
`InterruptStops`, `ScanEnds`, `StreamEnds`), because the prover has no rule for fairness and `ENABLED`. Every
safety property, action property and refinement of a passing run is proved. The five
properties of the runs that end in a violation are false of the code; `AllOrNothing`,
`NoDowngrade` and `PreservedIsTrue` are proved under the conditions that their findings
name. `RejectionDelivered`, and `InterruptStops` with nobody at the console, are left refuted.
`Transfer` and `FileStream` are not composed in a module: `FileDelivery`, which `FileStream` is
proved to implement, is compared with the actions of `Transfer` by reading.

## 5. What is left out

* *Transfer:* failures before the endpoint is up (bad options, no socket), an error of
  `ctrl_c` itself, and the metadata of files. Reading a message is one step: a frame is
  taken whole, or the stream fails. Files in the output directory are made by the receiver
  only.
* *Names:* the rules of `validate_manifest_path` are a predicate on strings (reserved
  names, characters, lengths) with unit tests of its own; the model has their outcome.
* *Discovery:* collisions of 48-bit ids; IPv6; the record's text. Cryptography is taken
  for granted: who does not hold a certificate's key cannot present it.
* *FileStream:* collisions of SHA-256; the lower layers of QUIC.
* *InstallPs1:* downloads, the grammars of metadata, manifest and state file (their outcome
  is one step), `-WhatIf`, the process PATH, two installers at once. `File.Replace` is taken to
  happen or not to happen; that it may leave a name missing when it is interrupted is the
  file system's affair.
* *Release pipeline:* its steps run on GitHub, and a re-run starts a job from the beginning;
  the scripts are sequential checks of a directory with no state that outlives them.
* *InstallSh:* the choice of platform and of download tool, the grammar of options, a
  shell whose profile the installer cannot edit, other programs that write the profile, an
  executable that is edited while a run is under way (between the comparison of its hash at
  `install.sh:533` and the rename at 1000 nothing protects it; `EditedKept` is about edits
  before the run), reuse of a PID. The temporary directory of the downloads is not a state of
  the model. A kill inside the copy to a temporary name leaves that name partial; no later
  step reads it, and the model leaves it as it was.
* *Crash of a session:* tasks dropped with the runtime leave a partial file; the code does
  so and promises nothing, so `NoPartialLeft` speaks of sessions that ran to their end.

## 6. Plan

Order of the work, most important first; all of it is done.

1. `Transfer` with `Delivery`: the core; its invariants, refinement, liveness, first proofs.
2. `InstallSh`: the transaction of the installer under failures, signals, kills, overlap.
3. `Discovery`: selection and pin, with proofs.
4. `FileStream`: the bytes of a file, with the framing of its header.
5. `InstallPs1`: the Windows installer's transactions, undo and reports.
6. The rest of the proofs about `Transfer`, with the refinement of `Delivery`.
7. Proofs about `InstallSh`: overlapping runs, and runs in sequence.
8. `TypeOK` of `Discovery`.
9. Proofs about `InstallPs1`: what was undone is what was done, per flow.
10. Proofs about `FileStream`: `VerifiedIsWhole`, from the conservation of bytes.
11. `Installation`, an abstract specification of an installation, implemented by both
    installers under faults; `FileDelivery`, implemented by `FileStream`; their proofs.
12. Left: the properties of sequential installer runs that do not need `Quiet`
    (`UnmanagedRefused`, `EditedKept`) for runs that get signals.
