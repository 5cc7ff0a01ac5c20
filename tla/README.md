# A verification project for PiKVM Smash Deck

The program in this repository is a Go server (`cmd/pikvm`, `internal/server`,
`internal/client`) with a browser front end (`web/pikvm/static/app.js`) that drives a PiKVM:
it takes screenshots, records the screen, streams it, types text, upgrades the PiKVM over SSH
and watches its go2rtc service. This directory holds TLA+ models of its concurrent parts, the
TLC configurations that check them on small instances and TLAPS proofs of their main
properties. Source lines are named in `PROJECT.json` (`map`), and so are the hazards the
properties are aimed at.

## 1. The system

| Component | State | Operations | Talks to |
|---|---|---|---|
| **Recorder** (`recording.go`) | `r.cfg` and its file, `r.stopCh`, per-loop locals, `r.vw` (the ffmpeg of the hour), `r.lastFrame`, `r.lastCaptured`, segment and JPEG files | `Start`, `Restart`, `captureLoop`, `captureFrame`, `writeVideoFrame`, `writeJPEGFrame`, `ensureVideoWriter`, `closeVideoWriter`, `HandleConfig` | PiKVM client (`Screenshot`), ffmpeg over a pipe, the disk, HTTP requests |
| **Cleanup** (`recording.go` 482-568) | day directories | `cleanupLoop`, `runCleanup` | the recorder's files |
| **Upgrade** (`upgrade.go`) | `curJob`, a log file and a done channel per job | `upgradeRun`, `runUpgradeAsync`, `upgradeStream` | SSH, the tabs' `EventSource` |
| **go2rtc watcher** (`go2rtc_watcher.go`) | `fails`, `checks`, `lastEvent`, `subs`, a channel per browser | `loop`, `poll`, `tryRestart`, `broadcast`, `subscribe`, `unsubscribe`, `HandleEvents` | go2rtc over HTTP, SSH, browsers |
| **PiKVM client** (`client.go`) | signal cache, `shmStale`, log mute, capture log (200 entries) | `Screenshot` (4 tiers), `checkSignal`, `SSHRun`, HID/ATX/MSD/GPIO calls | PiKVM over HTTP and SSH; called by the recorder, the handlers and the MJPEG stream at the same time |
| **Settings** (`settings.go`, `server.go`, `main.go`) | `h.host` ..., `h.kvm`, `.env` | `settingsSave`, `updateEnvFile`, `Run` | every handler that reads `h.kvm`; `reload.sh`, which sources `.env` |
| **Keys and EDID** (`handlers.go`, `client.go`, `edid.go`) | the client a request holds; the key on the machine | `sendKey`, `SendKey`, `requireKVM`, `requireSSH`, `edidStatus` ... | settings, the PiKVM's HID over HTTP, SSH |
| **Streams and preview** (`handlers.go`, `go2rtc.go`, `app.js`) | the response under way; `whepPc`, timers, the preview loop | `mjpegStream`, `whepProxy`, `whepConnect`, `whepStop`, `_previewLoop` | client, go2rtc |
| **Macros, EDID, diagnostics, launcher, templates** | none of their own | single calls | client |

### Hard behaviours and what makes each part correct

* *Recorder.* `Restart` launches a loop without waiting for the one it stops, `r.vw` and
  `r.lastFrame` are shared without a lock, spawns and writes fail, the hour turns, the process
  dies. Correct means: one live loop; the open ffmpeg is the one `r.vw` refers to; every ffmpeg
  is waited for; a frame goes to the file of its hour; a saved configuration survives; stopped
  loops end; a disabled recorder settles.
* *Cleanup.* One loop per `Start`, deleting while others do and while the recorder writes and
  truncates. Correct means: the oldest first, no more than the limits ask for but by what others
  took meanwhile, and it terminates.
* *Upgrade.* Several tabs, a stream that tails a file another goroutine writes, reconnects.
  Correct means: one job at a time, streams without gaps, a final log when done is closed, streams that
  end with all of it.
* *Watcher.* Sends outside the lock, channels that overflow. Correct means: the last event is
  true, and a subscriber gets every event after the one it starts with, or knows it lost some.
* *Client.* Caches shared by concurrent captures, one lock held during a request, timeouts that
  SSH ignores. Correct means: no capture refused on an answer that is too old, no failure that
  the log never told, calls that return.
* *Streams.* A fallback that is allowed only before the first byte, a browser that goes away.
  Correct means: a response of one kind, and polling that ends.
* *Settings.* Two critical sections where one is needed, a file rewritten without a lock, a
  process that can be cut at any step, values that bash reads back. Correct means: the client is
  that of the fields shown, the file holds what was answered for, and a restart reads it.
* *Keys and EDID.* The client is replaced between two steps of a request. Correct means: a key
  comes up where it went down, and a client that was there when checked is there when fetched.
* *Preview.* Asynchronous functions that are not cancelled. Correct means: at most one live peer
  connection and one preview loop.

## 2. The modules

| Module | Models | Checked by | Proved in |
|---|---|---|---|
| `Recorder` | recorder without cleanup | `MCRecorder` with five configurations | `RecorderProofs` |
| `Footage` | what the recorder promises of its files (abstract) | as `FootageProvided` of `Recorder` | `RecorderProofs` |
| `Cleanup` | cleanup loops and the recorder's files | `MCCleanup` with two configurations | `CleanupProofs`, with `SetSums` |
| `Upgrade` | upgrade job, streams, tabs | `MCUpgrade` with two configurations | `UpgradeProofs` |
| `UpgradeService` | what `/api/upgrade` promises (abstract) | as `ServiceProvided` of `Upgrade` | `UpgradeProofs` |
| `WatcherFeed` | watcher and event feed | `MCWatcher` | `WatcherProofs` |
| `HealthFeed` | what the feed promises a browser (abstract) | as `FeedProvided` of `WatcherFeed` | `WatcherProofs` |
| `Capture` | `Screenshot` called by several goroutines, the signal cache, the mute of the log | with `Streams` | `CaptureProofs` |
| `Streams` (extends `Capture`) | `mjpegStream` and the SSH tunnel | `MCStreams` | `StreamsProofs` |
| `Settings` | settings form, client, `.env`, restarts | with `Keys` | with `Keys` |
| `Keys` (extends `Settings`) | key requests and EDID requests that use the client meanwhile | `MCKeys` | `KeysProofs` |

The `MC...` modules only give names to constants. Operators introduced by a comment that starts
with "Mutant" are plausible mistakes in the operation that follows them; nothing in the
specifications uses them, they exist to show that each property can fail.

### Recorder

One process per capture loop (`pc`, `loc`), one per HTTP request (`hpc`, `hbuf`), and the
environment: the clock, crashes, Go's finalizer. A loop's iteration is cut wherever another loop
could see the difference, that is at each access of `r.vw` and `r.lastFrame`:
`Begin` (snapshot of `r.cfg`, schedule) → `ShotReturns`/`ShotFails` (screenshot, comparison
with `lastFrame`) → `StoreLast` → `EnsureWriter` → `CloseReads`, `CloseClears` → `Spawn` or
`SpawnFails` → `CheckWriter` → `WriteVideo`, or `WriteJPEG` → `Record` → `TimerFires` or `Stop`.
`closeVideoWriter` is a subroutine: `CallClose` stores where to go on. `WriteVideo` reads `r.vw`
a second time, as the code does, or reuses the first read, as the compiler may: the data race is
a choice. `HandleConfig` is `PostConfig`, `MarshalConfig`, `WriteConfig` or `WriteConfigFails`,
`Restart`; `os.WriteFile` may leave `Torn` when two writers meet, when it fails or when the
process dies.

Abstractions: the schedule is the set of hours it selects; frames are members of a set that
`framesAreSimilar` compares by equality, except for those that do not decode (`Undecoded`), which
are like none; an hour's segment is the set of frames in its file;
codec, quality and counters are left out; the interval between iterations is any time.
`overlapped` and `contended` are history variables: whether two loops were inside an iteration
at once since the process started, and whether two requests overlapped or a save failed.

`Footage` is the recorder without loops, locks, processes or pipes: at most one hour's segment is
open, what goes into it, or into a picture, is the frame taken last, pictures are stored while none
is open, and a segment loses frames only by being opened anew. The mapping takes as `open` the
hours of the ffmpeg processes whose pipe is open and as `latest` what `r.lastFrame` holds; the
promise is void from the moment two captures meet until the process restarts.

### Upgrade

`RunUpgrade` is the browser's `POST` and the check under `jobMu`; the job's actions follow
`runUpgradeAsync` up to the deferred `close(job.done)`; `OpenStream`, `ScanLog`, `KeepTailing`
and `SendDone` are `upgradeStream`, whose scan and look at `job.done` are two steps. A tab and
the stream that serves it are one process. `Drop` and `ServerRestart` are the faults. A log
line is `info` or `error` (one the job writes with the word ERROR), or one of those the command
prints (`Printed`); the two lines written after the connection stand as one. A line of the command
that speaks of an error would be taken for a failure by the tab when it is the last; no property is
about the verdict, and such lines are as any other. `LongLine` is the Scanner's 64 KB limit, after
which the job never ends.

The offset of a stream is in bytes. A line takes `Width` bytes of the file, `ends` keeps the byte
each ends at, and `seen` has the lines a tab was sent with the byte of the line they start at.
`upgradeStream` adds `len(scanner.Text())+1` per line (`NextOffset`), but `bufio.ScanLines` drops a
carriage return before the newline, so each stored line that ends in one (`CRLines`; the job's own
Scanner has dropped one of `\r\r\n` already) leaves the offset a byte behind the file. The next
tick then starts inside a line and sends the end of what it has sent once more (`NewLines`), and the
one after that again. When that end is of an ERROR line, the tab's last line has no ERROR in it and
the failed upgrade is reported complete (`LastIsError`).

`UpgradeService` knows no tabs, streams or files: upgrades start one after the other, the log of
the one under way grows by a line at a time and is final when the upgrade is over. `Upgrade`
implements it with `active` the job that has not closed its channel and `text` its files; a
`ServerRestart` ends the upgrade under way.

### WatcherFeed

`Check` is `poll` and the branch of `loop` that decides which events follow (`GoodNews`,
`BadNews`); `Broadcast` is the critical section, `Send` one non-blocking send; `Subscribe` is
the critical section of `subscribe`, `Greet` its blocking send after the unlock. Events are
numbered. `clean` is a history variable: connections none of whose events was dropped and which
no event overtook between `Subscribe` and `Greet`.

`HealthFeed` is the promise without channels: a follower has a place in the sequence of events,
starts before the last one and advances one by one until it is let go of. The mapping
(`Following`, `Place`) follows the clean connections that are past their greeting; the place is
the last event shown, or the one before the event `subscribe` read. Losing an event to a full
channel, or leaving, is `LetGo`.

### Cleanup

One process per loop. A run is `BeginRun` (snapshot of `r.cfg`, cutoff) → `ListDays` →
`AgeRule` for each listed day → `AgeDone` → `CheckTotal` → `PickOldest` → `RemoveOldest` and
back to `CheckTotal`; then `Tick` or `Exit`. A failing `ReadDir` ends the run in `ListDays` and in
`PickOldest`. What the run read (`todo`, the total, the oldest day) may be old by the time it is
used: in between other loops remove, and the recorder creates files (`CreateFile`), extends them
(`GrowFile`) and writes them anew under their name (`ReplaceFile`: `ffmpeg -y` on the segment of the
hour, `os.WriteFile` on the JPEG of the second), which can make a day smaller. `lost` is a history
variable: what others took from the files since a run found them above its limit. The walk of
`totalSizeBytes` over the files is one step. Removing the day of the segment under
way leaves ffmpeg a file without a name (`open` becomes `NoDay`).

Time is counted in half days, so that the local clock, which names the directories, and the
midnight UTC that `time.Parse` makes of a name can be apart by `West`. A file is created on the
day it is named for (the moment between `time.Now` and `MkdirAll` is left out), runs end within
the hour between two ticks, and directories whose name is no date, which the program does not
create, are left out. `Stuck` is the set of days that `RemoveAll` cannot remove.

### Capture and Streams

A caller of `Screenshot` goes through `Call` → `HttpOK` or `HttpFails` → `checkSignal`
(`CheckCached`, or `AskState` with the lock held until `StateAnswers` or `StateUnknown`) → the
go2rtc tier (`RtspOK`, `RtspFails`, `NoSSH`) → the shared-memory tier (`CheckStale`, `CompareHash`
or `DumpFails`, then `ShmFresh` or `ShmStale`, which read `shmStale` again) → the tunnel → `Report`
→ `Mute`. Each success is `Deliver`, each failure of a tier `Fall`. `shmStale` and the mute have no
lock, so their reads and writes are separate steps; whether a sink's frame equals the last one is
a free choice.

Time is kept as distances from now (`cacheAge`, `muteLeft`, `ask.age`, `downAge`), each up to the
value beyond which nothing depends on it; `Tick` ages them all, and does not outlive the context
of the request for the state. `alive` is what the PiKVM would answer (`power || hdmi`); an answer
is a value that held at some moment of the request. `downAge` and `news` are history variables:
since when the machine is up, and what the log says since the last success.

`Streams` adds the goroutines that serve `/api/stream`: `Open` → `TunnelRefused`, or `TunnelUp`
and `TunnelCut`; or polling, `Poll` → a call of `Screenshot`, whose steps are `Capture`'s →
`WriteFrame` or `PollFailed`. `Leave` is the browser closing the connection at any moment. `heads`
collects the kinds of response begun.

### Settings and Keys

A save is `SaveFields` (first critical section) → `BuildClient` (second) → `ReadEnv` → `Truncate`
→ `Write`, with `NothingToPersist`, `ReadFails`, `OpenFails` and `WriteFails` as the other ways
through; two saves interleave anywhere and `Restart` may cut them anywhere, a SIGTERM included,
since `Run` returns when `ListenAndServe` does. Three fields stand for the six: `host`, `pass`
(persisted, with a default, as `user` is), and `ssh` (never persisted, falls back to `pass`).
Two writers of one file leave any mixture of their lines (`Mixtures`). `Loaded` is what
`reload.sh`, `main.go` and `Run` make of the file. `updateEnvFile` writes a value as it is between
quotes and `reload.sh` has bash source the file, so a password with `$`, a quote, a backtick or a
backslash comes back as another one, or stops the script and no server starts: `Sourced` is what
bash reads of each value, any function that suits the assumption. Before it sources the file
`reload.sh` may pull the vault's values into it, and when bash stops at it somebody has to repair it:
`Restart` starts on the file as it is or on one of `Files`. Hosts are names bash reads as they are.
`met` and `clientDue` are history variables that say when saves overlapped; `saved` has the lines
saves were answered for since the file was last written by somebody else, or `None` when two saves
met or one failed.

`Keys` adds requests that hold a client across steps: `TakeClient` → `Press` → `Release`, each of
which may fail with or without effect; and `RequireSSH` → `FetchClient` → `SSHRun`, the two reads
of `h.kvm` in every handler of `edid.go`. `blamed` is a history variable: where a failure or a
restart left the key down.

## 3. The runs

| Run | Instance | Shows |
|---|---|---|
| `recorder` | 1 request, 2 loops, 3 ffmpeg, 2 hours, a video and a jpeg configuration; 842k states | `TypeOK`, `WriterUsable`, `SingleWriter`, `FfmpegReaped`, `FrameInItsHour`, `JpegAlone`, `FootageProvided` |
| `recorder_save` | 2 requests, 3 loops, no video, 2 frames of which one does not decode; 1.2M states | `OneLiveLoop`, `ConfigPersisted` |
| `recorder_live` | 1 request, 2 loops, 2 hours, fairness; 41k states | `StoppedLoopsExit`, `DisabledSettles` |
| `recorder_grow` | 1 loop | `SegmentsGrow` fails |
| `recorder_status` | 1 loop, unchanged frames skipped | `RecordingMeansStored` fails |
| `upgrade` | 2 tabs, 2 jobs, 1 output line, which ends in CR, 1 fault, fairness; 728k states | `TypeOK`, `OneUpgrade`, `StreamExact`, `LogFrozen`, `StreamEnds`, `ServiceProvided` |
| `upgrade_done` | 1 tab, 1 job | `DoneMeansAll` fails |
| `watcher` | 1 browser, a channel of 2, 7 events, 3 failed polls in a row, fairness; 118k states | `TypeOK`, `LastEventTruthful`, `FeedContiguous`, `FeedCatchesUp`, `FeedProvided` |
| `streams` | the recorder and 1 stream on one client, every limit one unit of time, fairness; 170k states | `TypeOK`, `FailureTold`, `OneResponse`, `RefusalJustified`, `CallsReturn`, `PollingEnds` |
| `console` | 2 saves, 2 key requests, 1 EDID request, 2 hosts, 3 passwords of which bash changes one and stops at one, 3 forms, symmetry of saves and of key requests; 1.6M states | `TypeOK`, `ClientCurrent`, `RestartKeepsSettings`, `KeysComeUp`, `FetchedClientIsReady` |
| `cleanup` | 2 loops, 2 pairs of limits, 2 days, files up to 2 a day, clock at UTC, fairness; 300k states | `TypeOK`, `NoOverDelete`, `OldestFirst`, `RetentionHonoured`, `RunsGetOn`, `StoppedCleanersExit` |
| `cleanup_age` | 1 loop, 3 days, local clock half a day behind UTC | `RetentionHonoured` fails |

Bounds. `MaxGen`, `MaxSegs`, `MaxHour`, `MaxJobs`, `MaxOut`, `MaxFaults`, `MaxEvents`,
`MaxFails`, `MaxLoops`, `MaxNow` and `MaxSize` cap counters the code does not cap. Two loops are enough for every conflict of an old
loop with a new one, three ffmpeg processes for a rotation or reopening on top of one per loop,
two hours for a boundary. When `MaxSegs` is reached a spawn can still fail, so loops go on.
Two jobs give a second upgrade after, or during, the first; one fault can hit any step. One
output line that ends in CR puts the offset a byte behind, so that the end of that line, or of the
error line after it, is sent again; three lines of one to three bytes, which put it several lines
behind, were checked with one tab (849k states), and the proof has any number. Two
places in a channel are enough to fill it, before the greeting too; the events of a browser
depend on no other browser, since broadcast never blocks, so one is enough. Three failed polls
reach the first SSH restart; the later restarts (every sixth failure) emit the same two events.
Two cleanup loops with different limits give every way in which one run's reading is spoiled by
another; two days are the day removed and the day kept, and files of up to two units exceed the
limits of one and two with one day or with both. That no day is stuck in `cleanup` is a
premise of `StoppedCleanersExit`, as is that the recorder at last creates no day anew (it may still
grow files); the other properties of the run are proved for any `Stuck`. One frame is enough for
`FootageProvided` in `recorder`: the frame a loop holds and the one in `r.lastFrame` differ by
being there or not; two frames were checked with two ffmpeg processes, and the proof has any
number.
Two callers meet in every way in which captures share the cache, the stale flag and the mute; a
limit of one unit distinguishes before, at and after it, and the proofs hold for any. Two saves
are what interleaving takes; of the three forms two change the host, with a password that bash reads
as another and with one at which it stops, and one the SSH password only; the file starts with a
host or without. The times of
`Capture` and the sets of `Settings` need no bound of their own.
The bounds let a model stop where the program would not, hence `CHECK_DEADLOCK FALSE` in all
configurations.

Fairness. Weak fairness of every goroutine: the Go scheduler runs what can run. Strong fairness of
taking `signalMu`: `sync.Mutex` hands the lock to whoever has waited for a millisecond. It also says
that calls return: `Screenshot` for the recorder, `poll` and `SSHRun` for the watcher, SSH and
the remote command for a job, the disk for a cleanup run. The first two are bounded by contexts except for SSH, which
ignores them (`client.go:345`); a hanging SSH server is outside these liveness properties.
Requests, crashes, faults, the clock and the browser's departure have no fairness.

### What fails, and why

* `SegmentsGrow` ("Fragmented MP4: playable immediately, grows as frames arrive",
  `recording.go:434`): after a write error the writer is closed; the next frame of the same hour
  starts `ffmpeg -y` on the same file and loses what it held. A restart of the loops or of the
  process does the same.
* `RecordingMeansStored` ("actually writing frames right now", `recording.go:573`): `lastFrame`
  is set before the write. When ffmpeg cannot be started and the screen stays as it is, the
  next capture counts as an unchanged success and the status says recording.
* `DoneMeansAll` ("Drain any remaining lines (flush above already read them)",
  `upgrade.go:209`): lines written between the scan and the look at `job.done` are lost, and
  with an ERROR line lost the browser reports a complete upgrade.
* `RetentionHonoured` ("Age-based: delete directories older than retention",
  `recording.go:501`), where the local clock is behind UTC: a directory is named by the local
  date and read as midnight UTC, so a day within the retention is removed. With `RetentionDays`
  1 it is the present day's in the last hours of the day, the segment under way with it.

Divergences between a comment and the code that have no run of their own:

* `SubscriberIsCurrent` in `WatcherFeed` ("sent to new subscribers immediately",
  `go2rtc_watcher.go:29`) is stated but fails: the event `subscribe` read can arrive after a
  newer one. `FeedContiguous` and `FeedCatchesUp` are about the connections this did not hit.
* `NoLingeringFfmpeg` in `Recorder` ("ensure no lingering ffmpeg process", `recording.go:332`) is
  stated but fails: the old loop, still in the middle of a capture, can start ffmpeg after the new
  loop closed the writer. `JpegAlone` is about loops that do not overlap.
* `client.go:763` says that repeated failures are muted for 60 s; each failure sets the mute anew
  (797, 815, 851), so a failure that lasts is silent until a capture succeeds. `FailureTold`
  promises the first entry only.
* `client.go:88` says "power is on AND an HDMI signal is present", the code computes
  `power || hdmi` (137), as the comment there says.
* `handlers.go:283` names a V4L2 tier; nothing calls `screenshotViaV4L2`. `client.go:759`
  describes the second tier as HTTP to port 1984; it is ffmpeg over SSH (801-812).
* `upgrade.go:201` counts "+1 for newline"; a line that ends in a carriage return takes two bytes
  more than its text, and the offset falls behind the file. `StreamExact` says what is left: no gap,
  and no line twice before such a one.
* `settings.templ:58` says that credentials are loaded from the vault on every reload and that changes
  override them until then; `reload.sh` does so only with a vault script and its client id, and
  otherwise goes on from the file a save has written. Both are in `Restart`.
* `settings.go:118` and `132` write values into quotes without escaping them, `reload.sh:41` has bash
  read them: a saved password can come back as another, or keep the server from starting.
* "settings saved" is answered when `.env` could not be written, and the SSH fields are never
  written (`settings.go:80-99`).

## 4. The proofs

Checked by TLAPS for all values of the constants that satisfy the named assumptions of the
modules (`RecorderAssumption`, `UpgradeAssumption`, `CaptureAssumption`, `SettingsAssumption` ...:
bounds are naturals, configurations are well typed, `NoFrame` and `Torn`
are none of the values they stand beside).

* `TypeCorrect`: `TypeOK` is inductive by itself. Lemmas on `Goto`, `CallClose`, `Return` and
  `NoLocals` type a loop's locals once for all actions.
* `LiveLoopUnique`: `OneLiveLoop` needs `LaunchInv`: loops are launched in order, and every
  launched loop but the last has its channel closed, whatever its `pc`.
* `ConfigSurvives`: `ConfigPersisted` speaks of moments without a request; `SaveInv` says
  what holds during one: what it marshalled, then what it wrote, is `r.cfg`.
* `WriterUnique`, `NoZombie`, `RightHour`, `NoFfmpegDuringJpeg`: all from `SoloInv`: as long as
  `overlapped` is false at most one loop is inside an iteration, the pipes are those of `r.vw`,
  and at each point of its program the loop knows whether `r.vw` is nil and whose hour it is.
  That a step moves no other loop is `OthersStay`. `SoloInv` is what the sequential program
  would rely on; the proof shows that overlapping is the only way to lose it.
* `WriterStaysUsable`: `WriterUsable`, which does not ask that loops do not overlap, from `OpenInv`:
  no ffmpeg is open and waited for, `r.vw` refers to an open one, and a new one is none that a loop
  remembers. It is why two captures that meet cost a writer, left to the finalizer, and not the
  rest of the hour: a write that fails reaches `closeVideoWriter`, and what it leaves is nil.
* `RecorderImplementsFootage`: every step of `Recorder` is a step or a stutter of `Footage`. On
  top of `SoloInv` it needs `HeldInv`: from `StoreLast` on, the frame a loop is about to write is
  what `r.lastFrame` holds, as long as no captures meet, although the two are read at
  different times; a step that ends the condition is `Forfeit`.
* `UpgradeExclusive`, `FinishedLogFrozen`: from `SlotInv`: jobs start in order, a running job is
  the one `curJob` refers to, and a closed channel means a job that has finished, so no step
  writes to its log.
* `RemovalsInOrder`: `OldestFirst` for any number of loops, limits and stuck days, from
  `OrderInv`: a day the run's listing does not hold any more was kept by the age rule, is stuck
  or was created since and then is today's; and the day chosen by the size rule stays the oldest,
  since the only day created is today. This is why runs may meet without harm to the order.
* `RetentionKept`: `RetentionHonoured` under the assumption `West <= 0`, from `CutoffInv` (the
  cutoff of a run is that of its configuration at a time passed). The `cleanup_age` run shows
  that the assumption is needed.
* `NothingRemovedInVain`: `NoOverDelete` from `LimitInv`: a total found above the run's limit still
  is when what others took since (`lost`: another run's removal, a file truncated by the recorder) is
  added to it, at every point between the total and the removal. Nothing is assumed about how runs
  meet. It needs that the sum over the days grows with its terms (`SumMonotone` of `SetSums`), for the sum as
  `FiniteSetsExt` computes it. The induction is over finite sets: `SubsetInduction` is stated
  with a set in the place of a predicate, which the provers can instantiate.
* `RunsGetToTheirEnd`: `RunsGetOn` says why `StoppedCleanersExit` holds: `StepsLeft`, a number
  computed from the days there are and the run's place in `runCleanup`, goes down with each of
  the run's steps and is never raised by another run. The two exceptions are stated in it: a day created
  anew, and a removal that fails. The second is why a stuck day makes the loop spin.
* `UpgradeImplementsService`: initial states map to initial states and every step to a step or a
  stutter of `UpgradeService`. It needs `SlotInv` and `JobInv`: jobs are numbered in order, a
  running job is `curJob`, and a step of a job writes at most one line and only to its own log.
* `StreamsAreExact`: from `TabInv`: the offset of a stream is at most the size of its job's log, and
  unless its connection dropped the tab has seen the first lines up to some line whose end it is not
  past, in order (`Covers`, `Following`). `OffsetAdvances` is the arithmetic of it: a scan leaves the offset behind by one byte
  per stripped line and never past the end, and each such line has two bytes at least.
  `LinesBeforeIsLast` turns the number of lines within the offset, a cardinality, into the place
  of the last.
* `LastEventIsTruthful`: from `WatchInv`, which says what the events still to be sent have to do
  with the last poll, at every point of the watcher's loop.
* `FeedsAreContiguous`, `WatcherImplementsFeed`: from `FeedInv` (`WatchInv`, the types of the
  connections and `ConnInv`): the channel of a clean connection goes on from its place up to the
  last event, or to the one before while `broadcast` has not come to it, and the event read by
  `subscribe` is the one before the channel's first. Both hold for any number of browsers and
  any capacity.
* `RefusalsJustified`: from `SignalInv`: a negative answer that is still valid at age `a` means that
  the machine was off at most `Timeout + a` ago, and a request that may answer "off" means that it
  was off since the request was sent. Nothing is assumed about the relation of the two limits.
* `FailuresTold`: from `NewsInv`: as long as nothing failed since the last success, no mute is on and
  a call under way is in its first tier and not muted, so its first failure gets an entry.
* `StreamsCapture` and `KeysSettings` say that the composed modules implement the ones they
  extend; the properties of `Capture` carry over by them. `ResponsesAreOne` says per control
  state of a stream which header can have been sent.
* `ClientIsCurrent`: from `ClientInv`, which follows a save's snapshot to the client it builds;
  `SettingsSurviveRestart`: from `EnvInv`, which says at each step of a save that met no other
  what the file and the lines to be written have in common with the fields and with the lines
  answered for, whatever bash reads of them and whatever the vault wrote before.
* `AllKeysComeUp`, `FetchedClientsReady`: from `RequestInv`; the second rests on the fact that a
  client is replaced but never removed.

Only model-checked: liveness (`StoppedLoopsExit`, `DisabledSettles`, `StreamEnds`,
`FeedCatchesUp`, `StoppedCleanersExit`, `CallsReturn`, `PollingEnds`), which TLAPS does not reach,
since fairness speaks of ENABLED. For `StoppedCleanersExit` the decreasing number is proved. Every
other property of a passing run is stated by a theorem.

## 5. Not modelled

Single remote calls (ATX, MSD, GPIO, OCR, typing, shortcuts, diagnostics) and what the scripts for
EDID and go2rtc do on the PiKVM: their control is one request, or a shell script outside the
program. `typeMacro` computes a timeout from the length of the text and sends one request; plain
text has 15 s whatever its length. Page templates, assets, build and container files have no
run-time state. `framesAreSimilar` is equality of frames that decode, not pixels. The read-only recording handlers only
list files. Of the capture log the models keep whether a failure has an entry, not the ring of 200.
`screenshotViaV4L2`, `queryV4L2Format`, `SignalOK`, `WakeStreamer`, `MSDSetImage` and `GPIOSwitch`
are called by nothing in the server. The stop of the whole server appears as a crash: `Run` stops
neither the recorder nor the requests under way. That `Run` starts the watcher, and pushes the
streamer's quality, only for a host known at start-up is a hazard listed in `PROJECT.json`, not a
property. SSH calls that never return are outside the liveness properties.

The page's live preview (`whepConnect`, `whepStop`, `whepReconnect`, `_previewLoop` in `app.js`) is
not modelled: its functions share `whepPc`, timers and flags between awaits without cancelling one
another, so what holds of them depends on the browser's event order at each await.

## 6. Plan

1. `Preview`: the asynchronous functions above as processes; how many peer connections and preview
   loops can be alive, and that they end when the tab is left.
2. The ring of the capture log as a refinement of "the last 200 entries".
3. The age of the open segment in `Recorder`, for the hazard that a static screen keeps the
   segment of a past hour open.
4. Proofs: decreasing numbers, as `StepsLeft`, for the other properties that something ends; and
   what more than `WriterUsable`
   holds of the recorder after two captures have met.
