# Verification of buildroot4G-4.x

TLA+ models, TLC runs and TLAPS proofs for the code of this repository that has
state worth arguing about: the field upgrade of the 4G board, Buildroot's
download of package sources and its package build steps, the camera's video
recorder, the push-button watcher, and the threading of the FFmpeg libraries the
recorder's pictures are encoded and decoded with. Paths below are relative to the repository, which `PROJECT.json` sees
as `src/`.

    tlc -workers 2 -config UpgradePowerLoss.cfg Upgrade    # one run
    tlapm UpgradeProofs.tla                                # one module's proofs

`PROJECT.json` lists the components, the runs, for every property a mutant of
the code that the property catches, the lines each definition models, the
findings, the hazards and the theorems.

## 1. Inventory

| Component | Source | State | Operations | What is hard |
|---|---|---|---|---|
| Firmware upgrade and A/B boot | `scripts/S021upgrade`, `scripts/fs-install-template`, `rootfs_overlay/etc/init.d/{rcS,S01mount.sh}` | two root partitions, `cmdline.txt`, the packages and `Install` on partition 7, mounts | boot, mount, list, unzip, wipe, untar, sync, edit, umount, remove | power loss between any two writes, unordered write-back, failing commands whose status nobody tests, a decision read from a file that an earlier package changed |
| Download of package sources | `buildroot/support/download/{dl-wrapper,check-hash}`, `buildroot/package/pkg-download.mk` | archive in `BR2_DL_DIR`, temporaries, stamps | try a site, check, copy, rename, fall through to the next site | builds that share the directory, kills, sites that lie, `set -e` |
| Package build steps | `buildroot/package/pkg-generic.mk` | stamp files, build tree | extract, rsync, patch, configure, build, install, clean-for-..., dirclean | a build interrupted between a step and its stamp, or while stamps are removed |
| Video recorder | `master-progs/video_record.c` | three buffer pools, two overlay buffers | set up, fill, camera and encoder callbacks, redraw | library threads against main; buffers that circulate among four parties |
| Camera demos | `master-progs/{buffer_demo,mmal-main}.c` | buffer pools | as above, without text | as above |
| Button watcher | `master-progs/{gpio-interrupt.c,S45btnwatch}` | last level, start time | select, read, run a script; start, stop | edges that coalesce, deafness during `system()`, thresholds |
| Wi-Fi, hotplug | `rootfs_overlay/etc/init.d/{S39network,S41ap,S41wpa_supplicant}`, `rootfs_overlay/home/usbhandler.sh` | processes, interface mode | start, stop, plug, unplug | boot scripts against hotplug events |
| 4G dial-up | `rootfs_overlay/usr/local/bin/*` | pppd processes | pon, poff, modem start | which process poff hits |
| SD card production | `scripts/*sdcard.sh` | the card | partition, format, copy | an operator's straight-line script |
| Patch application | `buildroot/support/scripts/apply-patches.sh` | patched tree | apply in order | interruption, a failing decompressor |
| mkusers | `buildroot/support/scripts/mkusers` | passwd and group tables | allocate ids | collisions |
| Compiler wrapper | `buildroot/toolchain/toolchain-wrapper.c` | none | rewrite arguments | - |
| FFmpeg frame-threaded encoding | `libavcodec/frame_thread_encoder.c` | task FIFO, ring of results | hand over, encode, store, collect, free | results out of order, a ring at its limit, a read without the mutex |
| FFmpeg frame-threaded decoding | `libavcodec/pthread_frame.c` | a context per thread, two ring positions | submit, set up, call back, decode, collect, drain, flush, free | contexts copied from running threads, callbacks served by the waiting caller, drains and flushes in any order |
| FFmpeg slice threading | `libavcodec/pthread_slice.c`, `libavcodec/hevc.c` | job counter, progress of each row | execute, take a job, await and report progress, free | one counter for all jobs, shared condition variables, rows that fail |
| Packages, configuration, documentation; the rest of FFmpeg and fdk-aac | `buildroot/**`, `FFmpeg-sources/**` | - | - | third-party code and data, out of scope |

How they meet. `rcS` runs the `S*` scripts in name order; `S021upgrade` therefore
runs after `S01mount.sh` and before everything else, and whatever it waits for,
the board waits for. `S021upgrade` and the install script inside a package share
nothing but the file systems. The build uses the download through a recipe that
calls `dl-wrapper` once per site and touches a stamp. The recorder's main thread
and its callbacks share one `PORT_USERDATA`. The watcher's scripts and the
recorder are separate processes, not connected to the rest. The FFmpeg sources
are `FFmpeg-sources/ffmpeg-3.0.2`; an application meets their threading only as
the order and the number of the pictures that come back, which `OrderedCodec`
states once for encoder and decoder.

What makes the parts correct: the board boots after a power loss at any instant,
never loses a package and never wipes what it runs; an archive under its final
name is complete and verified and stays; no buffer but one that could not be sent
leaves the circulation and no frame shows half-drawn text; no script runs that the button did not ask for; a
stamp file promises no more than the tree holds; threads change nothing of the
order in which pictures come back, and no call waits for ever.

## 2. Plan

Done, in this order: `Upgrade` with its abstract specification `AtomicUpgrade`
and `UpgradeProofs`; `Download` and `DownloadProofs`; `VideoRecord` and
`VideoProofs`; `ButtonWatch` and `ButtonProofs`; `OrderedCodec`, and
`EncoderThreads` with `EncoderProofs`; `FrameThreads`, which implements the same
`OrderedCodec`, with `FrameProofs`; `PkgStamps` with `StampsProofs`;
`SliceThreads` with `SliceProofs`.

Next:

1. `WifiBoot`: `S41ap`, `S41wpa_supplicant`, `usbhandler.sh` with plug and unplug
   events; `Ppp`: `pon`/`poff`.
2. `BufferDemo`: `buffer_demo.c` and `mmal-main.c`, on the pool operators of
   `VideoRecord`.
3. `MkUsers`: operators against a reference definition over bounded inputs.

## 3. Modules

### Upgrade

State: `cache` is what the running kernel sees of the file systems, `disk` what
the SD card holds; both are records of the partition `cmdline.txt` names, the
contents of the two roots, the packages and the `Install` directory. `pc` is the
next command of the boot scripts, `live` the partition mounted on `/`. Every
command of `S021upgrade` and `fs-install-template` that writes, decides or can
fail is one action, in the order of the scripts. A write changes `cache`; `sync`
and `umount` copy to `disk`; `WriteBack` copies at any moment, a root possibly
only in part. `PowerLoss` drops the cache. `Faults` names the commands that may
fail, `OnePerBoot` says whether a second package may be uploaded before the
first is installed (the comment at `S021upgrade:39` expects it is not).

Abstractions: `sed -i` replaces `cmdline.txt` by a rename, taken to be atomic on
the card, with the old or the new contents; the journal of the upgrade partition
keeps the order of its own changes; an upload is complete and on the card when
it ends; `MtabNamesRoot` chooses whether `/etc/mtab` shows the root as
`mmcblk0pN` or as `/dev/root`, which the kernel version decides. An `unzip` that
finds old files waits for an answer on the console; since `rcS:27` sends the
script's output to `/dev/null` nobody sees the question, so `AnswerPrompt` may
happen (`Answers` says with which answers) and never has to. A root that wipes itself executes
nothing more than shell built-ins. Install.log and the other output are left
out. That `[2..3]` in the `sed` also matches a dot makes no difference for the
names that occur.

`AtomicUpgrade` is the promise: an image that would boot now and a set of
pending packages; an upgrade changes the image in one step, and a package leaves
the queue only as the image that boots. `Upgrade` maps `image` to
`disk.root[disk.cmdline]` and `pending` to `disk.zips`.

### Download

State: the archive under its final name (`out`), and per build the next command
(`pc`), the site, the file in the temporary directory, the temporary next to the
final name, the stamp; `litter` records temporaries that nobody will remove.
`Fail` is the recipe's fall-through to the next site; the actions are the
commands of `dl-wrapper` in order. A backend (`wget`, `git`, ...) is one step
that ends with a file of any content, right or wrong, or fails; reliable sites
deliver a right one. `CheckHash` gives the exit code of `check-hash` for the
cases it tells apart: no .hash file, a matching or a wrong file, a file that is
not listed, an unknown hash type. The hash function and the formats of the
.hash file are not modelled. A build is killed with all its children.

### VideoRecord

Buffers of a pool are interchangeable, so a pool is four numbers: in the queue,
with the component, in a callback's hands, lost. `main` walks through
`setup_camera`, `setup_encoder` and `setup_preview` and then redraws for ever;
`camCb` and `outCb` are the positions in the two callbacks; `latched` is the
overlay pointer the camera callback took. `encoder_input_buffer_callback`
consists of one library call and is part of `EncoderInput`. MMAL is external:
its queues are locked, its ports run one callback at a time, a buffer that could
not be sent stays with the caller (which forgets it). `MaxWork` bounds the
frames inside the encoder. Pixels, formats and the frame-rate display are left
out. Frames may arrive as soon as the capture is on, before `setup_encoder` is done
(then the callback dereferences a NULL pool or loses its buffer), every setup call
and every send may fail, and a copy may take any time: nothing is assumed of them.
`slept` is a history variable: main has slept a whole `usleep(30000)` since the
callback chose its overlay buffer.

### ButtonWatch

`level`, `pending` and `exported` are the button and the sysfs files; `watch`,
`last`, `elapsed` and `command` the program; `script` is `S45btnwatch stop`
between its two commands. Time is relative and saturates at `Cap`, one tick past
the longest threshold, which loses nothing because longer times are treated
alike. The first `select()` returns at once, as it does for a value file that
has not been read. `late` is a history variable: an edge has waited a tick or
more while a press was being timed, so that two presses may have become one.
The scripts it runs are not in the repository; starting the program twice is not
modelled.

### PkgStamps

`stamps` is the set of stamp files and `newer` their times, as far as `make` sees
them: for each stamp, the ones touched after it. `OutOfDate` is make's rule,
`ToDo` the steps it would run, the first of them in the order of the
prerequisites (`Rank`); `rm` holds the stamps a `<pkg>-rebuild` or `-reconfigure`
has still to remove, one by one in the order of the rules. A step runs its commands and then touches its stamp; `Stop` ends `make`
anywhere, also between the two, and leaves what was under way half done (`Part`).
The sources have a version that a developer's edits raise; the build directory,
the build and each installation have the version they were made from. A developer
edits the build directory only once it is extracted: an edit made between an
interrupted extraction and its repetition is overwritten by the archive. `Rsync` is
`rsync -au`, which passes over files that are newer in the build directory and
deletes none: the tree takes the version of the source, or some of it stays older,
and the history variable `kept` records that for the request. The model allows this
for an empty directory too, where it cannot happen; that a file deleted from the
source is still built is not told apart from one that was passed over. The model
takes a package that installs to staging, target and images, or a host package.
Hooks, dependencies on other packages and the text of patches are left out.

### OrderedCodec, EncoderThreads, FrameThreads, SliceThreads

A section under a mutex is one step, and threads interleave wherever they hold
none. `pthread_cond_wait` puts a thread to sleep on a condition variable; a signal
wakes one sleeper, any of them, a broadcast all, and a thread may wake up by
itself (`SpuriousWakeup`, which no fairness helps: a lost signal stays lost).

`OrderedCodec` is what a caller may rely on: pictures are accepted and come back
one by one in the same order, none lost, repeated or invented, unless discarded
by a flush, and no more than `Depth` are inside. `EncoderThreads` and
`FrameThreads` both implement it, with `accepted` and `delivered` as the mapping.

`EncoderThreads`: the FIFO of tasks, the ring `finished_tasks` and its two
indices as in the source; frames are numbers. The look at the ring without the
mutex (line 274) is the separate action `Look`, which may or may not see a result
that is being stored.

`FrameThreads`: the fields of `FrameThreadContext` and `PerThreadContext` under
their names, the context of a codec reduced to the number of the last packet
whose setup it has seen (`setups`). `codec` is chosen at the start: with an
inter-frame context or not, with thread-safe callbacks or not, with a delay or
not, FFV1 with its smaller delay. Main serves the callbacks of the thread it
submits to and sleeps in between (`Serve`, `Grant`); workers ask for a format and
a buffer in their setup, the buffer under `buffer_mutex`. A worker reports the
progress of its whole picture in one step, and waits, if it is an inter-frame
codec, for that of the packet before. Empty packets, which a drain submits to a codec with
a delay, are numbered like the others and may come back with a picture.
`update_context_from_thread` may fail: `submit_packet` returns the error, and
`ff_thread_flush` ignores it (`Unroll`; `stale` is the history variable that records
it). A caller with one callback of its own that
is not thread safe next to a default one is left out.

`SliceThreads`: `current_job` gives workers their numbers at the start and jobs
afterwards; a job is a plain function or a row of the HEVC wavefront. A block
fails or succeeds, and the slice may end in any block. `bad` are the rows of a call
whose entry point is refused before their first wait, any of `BadEntry`; `Counts`
are the numbers of jobs a call may have. `rets` counts how often the
result of a job was stored.

## 4. Runs

| Run | Checks | Result |
|---|---|---|
| `upgrade_power_loss` | types, `CrashBootable`, `NoLostPackage`, refinement of `AtomicUpgrade`, `PackageInstalled` | hold with one package per boot and working commands; `PackageInstalled` excepts a boot that stands at unzip's prompt |
| `upgrade_faults` | `LiveRootIntact`, `BootCompletes` with failing mounts, unzip, tar and any answers or none | hold while the boot partition can be mounted; `BootCompletes` for boots without a left-over `Install` |
| `upgrade_two_packages` | a sentence of `fs-install-template` | violated, see Findings |
| `download_killed` | types, `OutputComplete`, `StampMeansArchive`, `OnlyVerified`, `UnlistedUntouched`, `DownloadEnds` | hold for two builds, a listed or an unlisted archive, all faults and kills |
| `download_reliable` | `NoTemporariesLeft`, `ReliableSiteSuffices` | hold without kills and failing commands: the backup site alone gets every build its stamp and, for good, the right archive, even with a wrong one in place at first; the archive is not an SCM's |
| `video` | `NeverStarved`, `NoneParked`, `SteadyText`, `RecordsForever` | hold with early frames and all calls failing; `RecordsForever` names the ends of a recording (`Stopped`) |
| `video_flicker` | a comment of `video_record.c` | violated, see Findings |
| `button_watch` | `InPhase`, `Deserved`, `PressAnswered` | hold however late the program is |
| `pkg_stamps` | types, `StampsTrue`, `RebuildTakesEdits` | hold with make stopped anywhere, as long as patches decompress and `dirclean` completes; `RebuildTakesEdits` if rsync kept no file |
| `encoder_threads` | types, `RingSuffices`, refinement of `OrderedCodec`, `CallsReturn` | hold |
| `frame_threads` | types, `SetupInOrder`, refinement of `OrderedCodec`, `EndOfStream`, `CallsReturn` | hold for five kinds of codec and caller; `SetupInOrder` while no update at a flush has failed |
| `slice_threads` | types, `JobsDone`, `OneWaiter`, `NeighboursDecoded`, `CallsReturn` | hold with three workers; `CallsReturn` and `OneWaiter` for calls in which no row above the last one is refused |

Bounds. Two packages suffice for an upgrade of an upgraded board and for two in
one boot; two power losses hit an installation and its repetition; the root
partitions are two by design. Two builds give every race of the wrapper, whose
builds interact through one file only; the sites are the recipe's three. Pool
sizes are the program's (two camera and two encoder buffers; the output pool has
the number MMAL recommends, here three). The button's thresholds 1, 3, 4, 6 keep
the order of the real ones with a tick in each range, on each bound and in the
gap between 500 and 501 ms. Two patches show an interruption before, in and after
one; two edits a change before and after a request. Three workers over a ring of
six entries overtake each other and wrap the ring; three decoding threads with
four packets wrap around, which two would do without ever having one thread
between the first and the last. Three slice workers with two or four jobs give
more and fewer jobs than workers, row 1 the last of two rows and one in the middle
of four, two calls a worker that slept through one, and
three columns rows that overlap. The type invariants of the recorder and the
button watcher are proved, not run. The proofs remove all these bounds for the safety
properties they cover.

Deadlock checking is off where the system really stops: the upgrade runs in which
nobody needs to upload or reboot or an unattended prompt waits, downloads that
have ended, the recorder after an exit, a crash or the loss of all buffers, and
thread pools that have been freed.

Fairness. The boot scripts run on (`WF(Script)`) and a board without power is
powered again; nobody has to upload, to reboot or to answer the prompt of `unzip`,
which nobody sees. A started build runs on; nobody has to restart it, and kills are not
fair. Main, the callbacks, the camera and the encoder proceed while they have
work. Threads that can run do, codecs return, and a call that has begun goes on;
nobody has to call, and nothing makes a sleeper wake up but a signal. `PkgStamps`
has safety properties only. The watcher runs, its scripts return and time passes; no fairness is put
on the button: `PressAnswered` assumes its release in the formula.

## 5. Proofs

All proofs are checked by TLAPS with SMT, Zenon and PTL; nothing is assumed but
the named assumptions on the constants and, where a theorem says so, a condition
on them (such as `Regular`, `Mountable`, `Reliable`). Each inductive invariant was
checked with TLC before it was proved.

`UpgradeProofs`. `TypeCorrect` for every fault and use. Under `Regular` (one
package per boot; no faults except the mount of partition 7; a prompt is
answered yes or not at all) for any packages and any number of power losses: `Bootable`,
`NothingLost`, and `Atomic`, that every step of the scripts, the
kernel and the power is a step of `AtomicUpgrade` or changes nothing there.
`CrashBootable` is not inductive: it needs which partition is being written
while `cmdline.txt` still names the other one. The invariant `IInv` says, label
by label, how cache and card may differ (`RootInv`), what `cmdline.txt` names in
both (`CmdlineInv`), what the script's variables hold (`ScriptInv`) and where the
package is (`PackageInv`). The assumption is needed: Findings shows what happens
outside it. `LiveSafe` needs less, `Mountable`: one package per boot and a boot
partition that can be mounted; every other command may fail and every answer be
given. Its invariant `LiveInv` says that until the edit `cmdline.txt`, as the
kernel sees it, names the running root, and that after it no package is left to
install in this boot.

`DownloadProofs`. For any builds and contents: `Complete` and `DownloadTypes`
(types and `OutputComplete`, all faults and kills), from the invariant that a
build past the download has all of the file (`CopyInv`); `Verified`, when there is
a .hash file, from `VerifiedInv`; `Unlisted`, from `UnlistedInv`, that a build never
gets past the verdict; `Stamped`, when moreover no wrong archive is
there at the start, from `ArchiveInv`; `Clean`, without kills and `mktemp` or
`chmod` failures, from `CleanInv`.

`VideoProofs`. For pools of any size and all faults: `Served` (types,
`NeverStarved`, `NoneParked`; `VideoTypes` and `AlwaysABuffer` state the first two
on their own). What a queue holds follows from the positions of
main and of the callback: while the output pool is being filled it holds what is
left to send plus the one buffer a callback is about to return (`OutInv`), which
is why main and the callbacks taking from one queue never find it empty.
`TextSteady` is `SteadyText`; its invariant `CopyInv` says that a copy works on the
latest text, or main has swapped the buffers since and is still in the sleep after
that, or has slept it out.

`ButtonProofs`. For all thresholds: `ButtonTypes`, `AlwaysInPhase` and `NoUndeservedCommand`,
from the invariant that the time measured by a program that is not late never
exceeds the time the button has been down (`TimeInv`), which rests on the program
being in phase (`PhaseInv`).

`EncoderProofs`. For any number of workers and frames and any ring longer than
`thread_count + 1`: `EncoderTypes`, `EncoderRing` and `EncoderInOrder`, the
refinement of `OrderedCodec`. None is inductive: the invariant says that the frames
between `delivered` and `accepted` are each in exactly one place (the FIFO, a
worker's hands or the ring), that a frame's entry is its number modulo the length
of the ring, and that their number is bounded by the comparison on line 274, so
that two of them never share an entry.

`FrameProofs`. For any number of threads (at least two) and packets and every kind
of codec: `FrameTypes`, `FrameSetupInOrder`, `FrameEndOfStream` and
`FrameInOrder`, the refinement of `OrderedCodec` with `Depth` = `thread_count`.
The picture a caller gets depends on two ring positions that calls with packets,
drains and flushes move in different ways, so none of this is inductive.
`Dist(t)` is the distance of thread `t` from `next_finished`; the invariant says
where Main is on the ring (`PlaceInv`: `next_decoding` follows `prev_thread`, but
for the moment between a submission and the wrap at the end of the call), that
only threads up to the last submitted one have something inside (`RingInv`), that
the packets not yet returned are in these threads, all of them, in the order of
the ring (`PacketInv`), what a worker's position says of its state (`StateInv`)
and that only the last packet is ever being set up, with the context of all
before it as long as no update at a flush has failed (`SetupInv`). `SubmitRoom` and `CollectFacts` draw the consequences: a
packet is submitted only when fewer than `thread_count` are inside, and what
`Collect` finds is the next packet or none.

`SliceProofs`. For any number of workers (at least two), jobs, calls and columns:
`SliceTypes`, `SliceJobsDone`, `SliceOneWaiter` and `SliceNeighbours`. The caller
waits for one number, `current_job = thread_count + job_count`; the invariant
says what it counts: `current_job` is `thread_count` plus the jobs that are done
and whose worker has come back for another (`JobInv`, by cardinality), every job is
open, in one worker's hands or done, and a worker that has not seen the call keeps
its first job open (`Late`, `Open`). For the wavefront, `RowInv` relates the
progress of a row to that of the row above, in blocks reported and in blocks
really decoded; `FinishedInv` and `OrderInv` say what a row that has ended has
reported and that rows end in order while none fails; `SleepInv` and `ReasonInv`
that a row sleeps on the condition variable of the row above, and only while that
row is not far enough. Two sleepers on one condition variable would be
`thread_count` rows apart, and the upper one could not be asleep any more. The
proof does not go through when a row has failed and there are four workers, and
TLC shows why (Findings).

`StampsProofs`. `StampsTypes` for everything the tools may do. Under `Reliable` (a
patch that is there is decompressed; `dirclean` completes), for any number of
patches and edits: `StampsAreTrue` and `StampsRebuildTakesEdits`. Both are false
without `Reliable` (Findings). The first is not inductive, because the commands of
a step change the tree before its stamp: the invariant adds where make is and
that the step under way is out of date while all before it are not (`MakeInv`),
that the stamps of the tree lie in their order and go only together (`TreeInv`),
and what a step that is done but not touched has made (`ProductInv`). The second
needs that whatever has a stamp which the request no longer has to remove was made
from sources as new as the request, unless rsync kept a file (`WantedInv`). Two facts about make's rule carry
the proof: a stamp that is touched makes nothing up to date but itself
(`TouchFacts`), a stamp that is removed nothing at all (`RemoveFacts`).

Only model-checked: the liveness properties (`PackageInstalled`,
`BootCompletes`, `DownloadEnds`, `ReliableSiteSuffices`, `RecordsForever`,
`PressAnswered`, the three `CallsReturn`), which are outside the prover's reach.
Every invariant, action property and refinement a passing run checks is also
proved, under the conditions named above.

## 6. Findings

Sentences of the code that a run refutes; `PROJECT.json` quotes them.

- A second package in one boot is installed over the running root:
  `fs-install-template:32` takes the active partition from a `cmdline.txt` that
  the first package has already changed (`upgrade_two_packages`).
- A copy slower than main's sleep reads an overlay buffer that main redraws, against
  the comment at `video_record.c:525`: the callback chooses its buffer once
  (`video_record.c:76`) and main's `usleep` waits for nobody (`video_flicker`).

The models contain the following, too; they are listed as hazards. What is in
parentheses shows them: a change of the constants of the run that checks the
property, or the exception the property states, without which TLC violates it.

- A failing `tar` is reported as success, and the incomplete root becomes the one
  to boot: `fs-install-template:55` tests the status of an `echo`
  (`Faults = {"tar"}` against `CrashBootable`).
- After a power loss during an installation, `unzip` without `-o` waits for an
  answer at every later boot, which nobody is shown, `S021upgrade:47` and `rcS:27`
  (the exceptions of `PackageInstalled` and `BootCompletes`).
- `dl-wrapper:62` removes an archive on a verdict that another wrapper may have
  made stale by installing the right one (`Existing = {"bad"}` against
  `StampMeansArchive`).
- A compressed patch that cannot be decompressed counts as applied,
  `apply-patches.sh:103`, although `docs/manual/patch-policy.txt:89` says the build
  fails (`Uncompressed = {TRUE, FALSE}` against `StampsTrue`).
- A `dirclean` stopped half way may leave stamps of files that are gone,
  `pkg-generic.mk:293` (`Removed = {TRUE, FALSE}` against `StampsTrue`).
- A row of a slice whose entry point is refused returns without reporting, and the
  rows below it wait for ever, `hevc.c:2383` (the condition `OnlyLastBad` of
  `CallsReturn`).
- A flush whose `update_context_from_thread` fails goes on with the old context of
  thread 0, `pthread_frame.c:730` (the condition on `stale` in `SetupInOrder`).
- A rebuild of an overridden package does not see a change that `rsync -au` passes
  over, `pkg-generic.mk:145` (the condition on `kept` in `RebuildTakesEdits`).
- With four slice workers or more, rows `r` and `r + thread_count` can sleep on the
  same condition variable once a row between them has failed; the signal of
  `pthread_slice.c:253` may then wake the wrong one, and the other sleeps for ever
  with `execute()` (four workers and six rows; the exception of `CallsReturn`). So can
  two rows when more than one entry point is refused. Found while proving
  `OneWaiter`, which is stated for the cases in which it holds.
- If the boot partition cannot be mounted, partition 2 is wiped even when it is
  the running root, `fs-install-template:16` (`Faults = {"bootmount"}` against
  `LiveRootIntact`).
- The fallback mount of `S021upgrade:33` names a path that is no device.
- A failing `mktemp` or `chmod` ends `dl-wrapper` without removing its
  temporaries, `dl-wrapper:102` (`Faults = {"mktemp"}` against
  `NoTemporariesLeft`).
- A frame that arrives before `setup_encoder` has stored its pool is copied
  through a NULL pointer, `video_record.c:73`, and a buffer that cannot be sent is
  dropped for good, `video_record.c:109` (`Stopped` in `RecordsForever`).

## 7. Not modelled

See the components with status `not_modelled` in `PROJECT.json`: the Wi-Fi and
modem scripts, the camera demos and `mkusers` are planned; the production scripts
are straight-line and leave the initial state of `Upgrade`; the compiler wrapper
has no state; Buildroot's packages are recipes and data. FFmpeg and fdk-aac are
by far the largest part of the repository and third-party code kept unchanged:
codecs, formats, filters and tables, mostly sequential arithmetic on the data of a
stream, which a model of this kind has nothing to say about. Of what they do
concurrently, libavcodec's three thread pools are modelled; VP8's own row
threading, `libavformat/async.c` and the input threads of `ffmpeg.c` are not.
