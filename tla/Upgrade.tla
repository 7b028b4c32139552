------------------------------ MODULE Upgrade ------------------------------
(***************************************************************************)
(* Field upgrade of the 4G board: the two root file systems, the boot       *)
(* partition whose cmdline.txt names the root to boot, and the scripts that *)
(* run at boot and install a new root file system.                          *)
(*                                                                          *)
(*   rootfs_overlay/etc/init.d/rcS          runs the S scripts in order     *)
(*   rootfs_overlay/etc/init.d/S01mount.sh  mounts the data partitions      *)
(*   scripts/S021upgrade                    installs every pending package  *)
(*   scripts/fs-install-template            the package's install script    *)
(*                                                                          *)
(* Every file system has a cached state, which the running kernel sees, and *)
(* a state on the SD card, which is all that survives a loss of power.  A   *)
(* write changes the cache; it reaches the card with sync, umount or the    *)
(* kernel's own write-back, which may happen at any moment.                 *)
(***************************************************************************)
EXTENDS Integers

CONSTANTS
  Package,        \* upgrade packages, named by numbers: `ls' sorts them
  OnePerBoot,     \* TRUE: a package is uploaded only when none is pending
  Faults,         \* which commands may fail
  Answers,        \* what an operator may type at unzip's overwrite prompt
  MtabNamesRoot,  \* does /etc/mtab name the root device by its mmcblk0pN?
  MaxLosses       \* bound on the number of power losses

FaultNames == {"p7mount", "unzip", "bootmount", "shadowmount", "tar"}

ASSUME PackageAssumption == Package \subseteq Nat \ {0}
ASSUME OnePerBootAssumption == OnePerBoot \in BOOLEAN
ASSUME FaultsAssumption == Faults \subseteq FaultNames
ASSUME AnswersAssumption == Answers \subseteq {"y", "n"}
ASSUME MtabAssumption == MtabNamesRoot \in BOOLEAN
ASSUME LossesAssumption == MaxLosses \in Nat

VARIABLES
  cache,    \* the file systems as the running kernel sees them
  disk,     \* the file systems as the SD card holds them
  pc,       \* the next command of the boot scripts
  live,     \* the partition mounted on /, 0 with the power off
  mounted,  \* is mmcblk0p7 mounted on /mnt/upgrade?
  bootMnt,  \* is mmcblk0p1 mounted on /mnt/boot?
  shadow,   \* the partition mounted on /mnt/shadow-rootfs, 0 if none
  todo,     \* packages the loop of S021upgrade has still to visit
  cur,      \* the package the loop is at (its variable p), 0 if none
  use,      \* use_part of the install script
  rc,       \* exit code of the install script
  want,     \* history: the package uploaded last (Factory if none)
  losses    \* power losses so far

script == <<mounted, bootMnt, shadow, todo, cur, use, rc>>
vars == <<cache, disk, pc, live, mounted, bootMnt, shadow, todo, cur, use, rc,
          want, losses>>

-----------------------------------------------------------------------------
(* Contents of the partitions. *)

Broken  == -1              \* a root file system that is empty or incomplete
Factory == 0               \* the root file system written in production
Image   == Package \cup {Factory}

NoDir   == -2              \* /mnt/upgrade/Install does not exist
Partial == -1              \* it exists, with some of its files missing or cut

Part == {2, 3}             \* the root partitions of mmcblk0

\* What the SD card holds: the root partition cmdline.txt names, the contents
\* of the two root partitions, and on the upgrade partition the packages and
\* the package unpacked in Install.
FileSystems == [cmdline : Part,
                root    : [Part -> Image \cup {Broken}],
                zips    : SUBSET Package,
                inst    : Package \cup {Partial, NoDir}]

Labels == {"off", "panic", "mount", "check", "list", "next", "unzip", "prompt",
           "mountBoot", "mountShadow", "wipe", "tar", "sync", "edit",
           "umountBoot", "umountShadow", "rmInstall", "rmZip", "up"}

TypeOK ==
  /\ cache \in FileSystems
  /\ disk \in FileSystems
  /\ pc \in Labels
  /\ live \in Part \cup {0}
  /\ mounted \in BOOLEAN
  /\ bootMnt \in BOOLEAN
  /\ shadow \in Part \cup {0}
  /\ todo \subseteq Package
  /\ cur \in Package \cup {0}
  /\ pc \in {"unzip", "prompt"} => cur \in Package
  /\ use \in Part
  /\ rc \in {0, 1}
  /\ want \in Image
  /\ losses \in 0..MaxLosses

Init ==
  /\ disk \in {[cmdline |-> 2, root |-> [p \in Part |-> IF p = 2 THEN Factory ELSE c],
                zips |-> {}, inst |-> NoDir] : c \in {Factory, Broken}}
  /\ cache = disk
  /\ pc = "off"
  /\ live = 0
  /\ mounted = FALSE
  /\ bootMnt = FALSE
  /\ shadow = 0
  /\ todo = {}
  /\ cur = 0
  /\ use = 2
  /\ rc = 0
  /\ want = Factory
  /\ losses = 0

-----------------------------------------------------------------------------
(* rcS and S01mount.sh *)

\* The kernel mounts the root that cmdline.txt names and init runs rcS; it
\* panics if there is no usable root file system there.
PowerOn ==
  /\ pc = "off"
  /\ live' = disk.cmdline
  /\ pc' = IF disk.root[disk.cmdline] = Broken THEN "panic" ELSE "mount"
  /\ UNCHANGED <<cache, disk, script, want, losses>>

\* S01mount.sh start, whose mounts may fail without anyone noticing.
MountPartitions ==
  /\ pc = "mount"
  /\ mounted' \in IF "p7mount" \in Faults THEN BOOLEAN ELSE {TRUE}
  /\ pc' = "check"
  /\ UNCHANGED <<cache, disk, live, bootMnt, shadow, todo, cur, use, rc, want, losses>>

-----------------------------------------------------------------------------
(* S021upgrade *)

\* When mtab has no `upgrade' line the script mounts /mnt/mmcblk0p7, which is
\* not a device: the mount fails and the script goes on.
FallbackMount ==
  /\ pc = "check"
  /\ pc' = "list"
  /\ UNCHANGED <<cache, disk, live, script, want, losses>>

\* for p in $(ls -1 /mnt/upgrade/*.zip): the list is made once.
ListPackages ==
  /\ pc = "list"
  /\ todo' = IF mounted THEN cache.zips ELSE {}
  /\ pc' = "next"
  /\ UNCHANGED <<cache, disk, live, mounted, bootMnt, shadow, cur, use, rc, want, losses>>

NextPackageKeepsItem ==
  /\ pc = "next"
  /\ \/ /\ todo = {}
        /\ cur' = 0
        /\ pc' = "up"
     \/ \E p \in todo :
          /\ \A q \in todo : p <= q
          /\ cur' = p
          /\ pc' = "unzip"
  /\ UNCHANGED <<cache, disk, live, mounted, bootMnt, shadow, todo, use, rc, want, losses>>

\* The head of the loop: the next package in name order.
NextPackage ==
  /\ pc = "next"
  /\ \/ /\ todo = {}
        /\ cur' = 0
        /\ pc' = "up"
        /\ UNCHANGED todo
     \/ \E p \in todo :
          /\ \A q \in todo : p <= q
          /\ cur' = p
          /\ todo' = todo \ {p}
          /\ pc' = "unzip"
  /\ UNCHANGED <<cache, disk, live, mounted, bootMnt, shadow, use, rc, want, losses>>

\* unzip -d ./Install $p.  Files left in Install by an earlier boot make unzip
\* ask on the console; a damaged package leaves Install incomplete, with or
\* without its install script.
Unzip ==
  /\ pc = "unzip"
  /\ \/ /\ cache.inst \in {NoDir, Partial}
        /\ cache' = [cache EXCEPT !.inst = cur]
        /\ pc' = "mountBoot"
     \/ /\ cache.inst # NoDir
        /\ pc' = "prompt"
        /\ UNCHANGED cache
     \/ /\ "unzip" \in Faults
        /\ cache' = [cache EXCEPT !.inst = Partial]
        /\ pc' \in {"mountBoot", "rmInstall"}
  /\ UNCHANGED <<disk, live, script, want, losses>>

\* An answer, should one ever come: overwrite the old files, or keep them.
\* rcS sends the output of S021upgrade to /dev/null, so nobody sees the prompt
\* and nothing makes this step happen.
AnswerPrompt ==
  /\ pc = "prompt"
  /\ \/ /\ "y" \in Answers
        /\ cache' = [cache EXCEPT !.inst = cur]
        /\ pc' = "mountBoot"
     \/ /\ "n" \in Answers
        /\ pc' \in IF cache.inst = Partial THEN {"mountBoot", "rmInstall"} ELSE {"mountBoot"}
        /\ UNCHANGED cache
  /\ UNCHANGED <<disk, live, script, want, losses>>

-----------------------------------------------------------------------------
(* fs-install-template *)

UnusedRootfsActive(read) == IF read THEN cache.cmdline ELSE 2
UnusedRootfsOffByOne(read) == IF read THEN cache.cmdline + 1 ELSE 2

\* get_unused_rootfs_partition: the first of 2, 3 that cmdline.txt does not
\* name.  An unreadable cmdline.txt names neither.
UnusedRootfs(read) == IF read /\ cache.cmdline = 2 THEN 3 ELSE 2

\* mount /dev/mmcblk0p1 /mnt/boot; use_part=$(get_unused_rootfs_partition)
MountBoot ==
  /\ pc = "mountBoot"
  /\ bootMnt' \in IF "bootmount" \in Faults THEN BOOLEAN ELSE {TRUE}
  /\ use' = UnusedRootfs(bootMnt')
  /\ pc' = "mountShadow"
  /\ UNCHANGED <<cache, disk, live, mounted, shadow, todo, cur, rc, want, losses>>

\* The partition is mounted unless mtab already names it.
MountShadow ==
  /\ pc = "mountShadow"
  /\ \/ /\ ~ (MtabNamesRoot /\ use = live)
        /\ shadow' = use
     \/ /\ \/ MtabNamesRoot /\ use = live
           \/ "shadowmount" \in Faults
        /\ UNCHANGED shadow
  /\ pc' = "wipe"
  /\ UNCHANGED <<cache, disk, live, mounted, bootMnt, todo, cur, use, rc, want, losses>>

\* rm -rf /mnt/shadow-rootfs/*.  Should that be the running root, no command
\* can be executed afterwards: the shell's own built-ins run the remaining
\* lines of all the scripts, and install still exits with 0.
Wipe ==
  /\ pc = "wipe"
  /\ cache' = IF shadow = 0 THEN cache ELSE [cache EXCEPT !.root[shadow] = Broken]
  /\ IF shadow = live
       THEN pc' = "up" /\ rc' = 0 /\ cur' = 0 /\ todo' = {}
       ELSE pc' = "tar" /\ UNCHANGED <<rc, cur, todo>>
  /\ UNCHANGED <<disk, live, mounted, bootMnt, shadow, use, want, losses>>

\* tar -xvf ./rootfs.tar -C /mnt/shadow-rootfs.  With nothing mounted there the
\* files land in a directory of the running root.
Untar ==
  /\ pc = "tar"
  /\ \/ /\ cache.inst \in Package
        /\ cache' = IF shadow = 0 THEN cache
                    ELSE [cache EXCEPT !.root[shadow] = cache.inst]
        /\ rc' = 0
     \/ /\ cache.inst = Partial \/ "tar" \in Faults
        /\ UNCHANGED cache
        /\ rc' = 1
  /\ pc' = "sync"
  /\ UNCHANGED <<disk, live, mounted, bootMnt, shadow, todo, cur, use, want, losses>>

SyncAndLogNoSync ==
  /\ pc = "sync"
  /\ rc' = 0
  /\ pc' = "edit"
  /\ UNCHANGED <<cache, disk, live, mounted, bootMnt, shadow, todo, cur, use, want, losses>>

\* The `if' tests the status of the echo before it, which is 0 whatever tar
\* returned: the first branch is always taken.
SyncAndLog ==
  /\ pc = "sync"
  /\ disk' = cache
  /\ rc' = 0
  /\ pc' = "edit"
  /\ UNCHANGED <<cache, live, mounted, bootMnt, shadow, todo, cur, use, want, losses>>

EditCmdlineForgotten ==
  /\ pc = "edit"
  /\ pc' = "umountBoot"
  /\ UNCHANGED <<cache, disk, live, script, want, losses>>

\* sed -i s/mmcblk0p[2..3]/mmcblk0p$use_part/g /mnt/boot/cmdline.txt
EditCmdline ==
  /\ pc = "edit"
  /\ cache' = IF bootMnt THEN [cache EXCEPT !.cmdline = use] ELSE cache
  /\ pc' = "umountBoot"
  /\ UNCHANGED <<disk, live, script, want, losses>>

UmountBootLazy ==
  /\ pc = "umountBoot"
  /\ bootMnt' = FALSE
  /\ pc' = "umountShadow"
  /\ UNCHANGED <<cache, disk, live, mounted, shadow, todo, cur, use, rc, want, losses>>

\* umount writes what the cache holds of the file system.
UmountBoot ==
  /\ pc = "umountBoot"
  /\ disk' = IF bootMnt THEN [disk EXCEPT !.cmdline = cache.cmdline] ELSE disk
  /\ bootMnt' = FALSE
  /\ pc' = "umountShadow"
  /\ UNCHANGED <<cache, live, mounted, shadow, todo, cur, use, rc, want, losses>>

UmountShadow ==
  /\ pc = "umountShadow"
  /\ disk' = IF shadow = 0 THEN disk
             ELSE [disk EXCEPT !.root[shadow] = cache.root[shadow]]
  /\ shadow' = 0
  /\ pc' = "rmInstall"
  /\ UNCHANGED <<cache, live, mounted, bootMnt, todo, cur, use, rc, want, losses>>

\* Back in S021upgrade: rm -rf ./Install, whatever install returned ...
RemoveInstall ==
  /\ pc = "rmInstall"
  /\ cache' = [cache EXCEPT !.inst = NoDir]
  /\ pc' = "rmZip"
  /\ UNCHANGED <<disk, live, script, want, losses>>

\* ... and rm $p.
RemovePackage ==
  /\ pc = "rmZip"
  /\ cache' = [cache EXCEPT !.zips = @ \ {cur}]
  /\ pc' = "next"
  /\ UNCHANGED <<disk, live, script, want, losses>>

Script ==
  \/ MountPartitions \/ FallbackMount \/ ListPackages \/ NextPackage \/ Unzip
  \/ MountBoot \/ MountShadow \/ Wipe \/ Untar \/ SyncAndLog \/ EditCmdline
  \/ UmountBoot \/ UmountShadow \/ RemoveInstall \/ RemovePackage

-----------------------------------------------------------------------------
(* The board's surroundings: uploads, reboots, power, kernel write-back. *)

Running == pc \notin {"off", "panic"}

\* A complete package arrives on the upgrade partition.
Upload(p) ==
  /\ pc = "up" /\ mounted /\ cache.root[live] # Broken
  /\ p \notin cache.zips
  /\ OnePerBoot => cache.zips = {}
  /\ cache' = [cache EXCEPT !.zips = @ \cup {p}]
  /\ disk' = [disk EXCEPT !.zips = cache.zips \cup {p}, !.inst = cache.inst]
  /\ want' = p
  /\ UNCHANGED <<pc, live, script, losses>>

Halted ==
  /\ pc' = "off" /\ live' = 0
  /\ mounted' = FALSE /\ bootMnt' = FALSE /\ shadow' = 0
  /\ todo' = {} /\ cur' = 0 /\ use' = 2 /\ rc' = 0

\* Orderly reboot: the stop scripts and umount -a write everything.
Reboot ==
  /\ pc = "up" /\ cache.root[live] # Broken
  /\ disk' = cache
  /\ Halted
  /\ UNCHANGED <<cache, want, losses>>

PowerLoss ==
  /\ Running
  /\ losses < MaxLosses
  /\ losses' = losses + 1
  /\ cache' = disk
  /\ Halted
  /\ UNCHANGED <<disk, want>>

\* The kernel writes back a file system.  cmdline.txt is replaced by a rename
\* and the upgrade partition's journal commits in order; a root partition or
\* the Install directory is many files, of which only some may be written.
WriteBack ==
  /\ Running
  /\ \/ disk' = [disk EXCEPT !.cmdline = cache.cmdline]
     \/ \E p \in Part : /\ disk.root[p] # cache.root[p]
                        /\ \E c \in {Broken, cache.root[p]} :
                             disk' = [disk EXCEPT !.root[p] = c]
     \/ disk' = [disk EXCEPT !.zips = cache.zips, !.inst = cache.inst]
     \/ /\ disk.inst # cache.inst
        /\ disk' = [disk EXCEPT !.inst = Partial]
  /\ UNCHANGED <<cache, pc, live, script, want, losses>>

Next ==
  \/ PowerOn
  \/ Script
  \/ AnswerPrompt
  \/ \E p \in Package : Upload(p)
  \/ Reboot
  \/ PowerLoss
  \/ WriteBack

\* The scripts run on and a board that lost power is powered up again; nobody
\* has to upload, to reboot or to answer a prompt that is not shown.
Fairness ==
  /\ WF_vars(Script)
  /\ WF_vars(PowerOn)

Spec == Init /\ [][Next]_vars /\ Fairness

-----------------------------------------------------------------------------
(* Properties *)

\* Cut the power at any instant and the board still boots: the cmdline.txt on
\* the card names a root partition whose files are all on the card.  It rests
\* on the order of wipe, tar, sync and sed in fs-install-template.
CrashBootable == disk.root[disk.cmdline] # Broken

\* The scripts never take the root file system from under the running system
\* (the rm -rf of fs-install-template only ever hits the other partition).
LiveRootIntact == Running => cache.root[live] # Broken

\* An uploaded package is on the card until the card boots its image, whatever
\* the instant power is lost at: rm $p in S021upgrade comes after everything
\* fs-install-template writes is on the card.
NoLostPackage == want \in disk.zips \/ disk.root[disk.cmdline] = want

\* The scripts implement the atomic upgrade: seen from the SD card, the image
\* that boots changes in one step from the old one to a pending package's, and
\* a package is consumed only once it is that image.
Abstract == INSTANCE AtomicUpgrade WITH image <- disk.root[disk.cmdline], pending <- disk.zips
UpgradeIsAtomic == Abstract!Spec

\* A package that is pending when S01mount.sh runs is eventually installed and
\* removed from the queue, through power losses in the middle - unless one of
\* them left files in Install, so that a later boot comes to stand at unzip's
\* prompt (S021upgrade:47, no -o), where it may wait for ever.
PackageInstalled ==
  (pc = "mount" /\ want \in cache.zips)
    ~> \/ disk.root[disk.cmdline] = want /\ want \notin cache.zips
       \/ pc = "prompt" /\ cache.inst # NoDir

\* Whatever fails, S021upgrade comes to its end and rcS goes on, in every boot
\* that finds no Install directory left over from an earlier one (a boot that
\* finds one may never get past unzip's prompt).
BootCompletes == (pc = "mount" /\ cache.inst = NoDir) ~> pc \in {"up", "off"}

\* fs-install-template:4 "install a file system on the currently non-active
\* file system partition".
InstallsOnNonActive == pc = "wipe" => use # live
=============================================================================
