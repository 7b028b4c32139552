--------------------------- MODULE UpgradeProofs ---------------------------
(***************************************************************************)
(* Proofs about Upgrade, for every set of packages and any number of power *)
(* losses: type correctness without any further assumption, and, for the   *)
(* use the scripts are written for (one package per boot, commands that    *)
(* work), that the board boots after a power loss at any instant, that no  *)
(* package is lost, and that the scripts implement AtomicUpgrade; and that *)
(* the running root is left alone whatever fails but the boot partition.   *)
(***************************************************************************)
EXTENDS Upgrade, TLAPS

\* One package per boot (S021upgrade:39), commands that succeed, except that
\* the upgrade partition may fail to mount, and an operator who lets unzip
\* overwrite what an interrupted installation left behind.
Regular == OnePerBoot /\ Faults \subseteq {"p7mount"} /\ Answers \subseteq {"y"}

\* Labels at which the current boot has not yet edited cmdline.txt, and those
\* at which the installed image is on the card.
Deciding  == {"mountShadow", "wipe", "tar", "sync", "edit"}
Untouched == {"mount", "check", "list", "unzip", "prompt", "mountBoot"} \cup Deciding
Leaving   == {"umountBoot", "umountShadow", "rmInstall", "rmZip"}
Visiting  == {"unzip", "prompt", "mountBoot"} \cup Deciding \cup Leaving
Unpacked  == {"mountBoot", "umountBoot", "umountShadow"} \cup Deciding

\* The running root is complete and the same in the cache and on the card; the
\* two only differ elsewhere while a root is being written.
RootInv ==
  /\ pc # "panic"
  /\ disk.root[disk.cmdline] # Broken
  /\ Running => live \in Part /\ cache.root[live] # Broken
  /\ pc \notin {"tar", "sync"} => cache.root = disk.root
  /\ Running => cache.root[live] = disk.root[live]
  /\ pc = "off" => cache = disk

\* Which partition cmdline.txt names, in the cache and on the card.
CmdlineInv ==
  /\ pc \in Untouched \/ (pc = "next" /\ todo # {})
       => cache.cmdline = live /\ disk.cmdline = live
  /\ pc \in Leaving \/ pc = "edit" => disk.root[use] = cur
  /\ pc = "sync" => cache.root[use] = cur
  /\ pc \in Leaving => cache.cmdline = use
  /\ pc = "umountBoot" => disk.cmdline \in {live, use}
  /\ pc # "umountBoot" => cache.cmdline = disk.cmdline

\* The script's own variables.
ScriptInv ==
  /\ pc \in Deciding => use # live
  /\ pc \in Deciding \cup {"umountBoot"} => bootMnt
  /\ shadow = IF pc \in {"wipe", "tar", "sync", "edit", "umountBoot", "umountShadow"}
                THEN use ELSE 0
  /\ pc \in Unpacked => cache.inst = cur
  /\ todo # {} => pc = "next" /\ todo \subseteq cache.zips
  /\ pc \in Visiting => cur = want /\ want \in cache.zips

\* Where the package uploaded last is.
PackageInv ==
  /\ disk.zips \subseteq {want}
  /\ cache.zips \subseteq disk.zips
  /\ want \in cache.zips \/ disk.root[disk.cmdline] = want

IInv == RootInv /\ CmdlineInv /\ ScriptInv /\ PackageInv

-----------------------------------------------------------------------------
(* Type correctness *)

\* The parts of the file systems have their types, ...
LEMMA FieldTypes ==
  ASSUME NEW f \in FileSystems
  PROVE /\ f.cmdline \in Part /\ f.zips \subseteq Package
        /\ f.inst \in Package \cup {Partial, NoDir}
        /\ \A p \in Part : f.root[p] \in Image \cup {Broken}
  BY DEF FileSystems

\* ... and writing one of them keeps the type of the whole.
LEMMA WriteCmdline ==
  ASSUME NEW f \in FileSystems, NEW c \in Part
  PROVE [f EXCEPT !.cmdline = c] \in FileSystems
  BY DEF FileSystems

LEMMA WriteRoot ==
  ASSUME NEW f \in FileSystems, NEW p \in Part, NEW i \in Image \cup {Broken}
  PROVE [f EXCEPT !.root[p] = i] \in FileSystems
  BY DEF FileSystems

LEMMA WriteInst ==
  ASSUME NEW f \in FileSystems, NEW i \in Package \cup {Partial, NoDir}
  PROVE [f EXCEPT !.inst = i] \in FileSystems
  BY DEF FileSystems

LEMMA WriteZips ==
  ASSUME NEW f \in FileSystems, NEW z \in SUBSET Package
  PROVE [f EXCEPT !.zips = z] \in FileSystems
  BY DEF FileSystems

LEMMA WriteUpgrade ==
  ASSUME NEW f \in FileSystems, NEW z \in SUBSET Package,
         NEW i \in Package \cup {Partial, NoDir}
  PROVE [f EXCEPT !.zips = z, !.inst = i] \in FileSystems
  BY DEF FileSystems

\* Every step of the board keeps the types of the variables.
LEMMA TypeStep == TypeOK /\ [Next]_vars => TypeOK'
<1> SUFFICES ASSUME TypeOK, [Next]_vars PROVE TypeOK'
  OBVIOUS
<1> USE DEF TypeOK, script, Labels
<1>1. CASE PowerOn
  BY <1>1, FieldTypes DEF PowerOn
<1>2. CASE MountPartitions
  BY <1>2 DEF MountPartitions
<1>3. CASE FallbackMount
  BY <1>3 DEF FallbackMount
<1>4. CASE ListPackages
  BY <1>4, FieldTypes DEF ListPackages
<1>5. CASE NextPackage
  BY <1>5 DEF NextPackage
<1>6. CASE Unzip
  <2>1. cache' \in {cache, [cache EXCEPT !.inst = cur], [cache EXCEPT !.inst = Partial]}
    BY <1>6 DEF Unzip
  <2>2. cache' \in FileSystems
    BY <1>6, <2>1, WriteInst DEF Unzip
  <2> QED
    BY <1>6, <2>2 DEF Unzip
<1>7. CASE AnswerPrompt
  BY <1>7, WriteInst DEF AnswerPrompt
<1>8. CASE MountBoot
  BY <1>8 DEF MountBoot, UnusedRootfs, Part
<1>9. CASE MountShadow
  BY <1>9 DEF MountShadow
<1>10. CASE Wipe
  BY <1>10, WriteRoot DEF Wipe
<1>11. CASE Untar
  <2>1. cache' \in FileSystems
    <3>1. CASE cache' = cache
      BY <3>1
    <3>2. CASE /\ cache.inst \in Package /\ shadow # 0
               /\ cache' = [cache EXCEPT !.root[shadow] = cache.inst]
      BY <3>2, WriteRoot DEF Image
    <3> QED
      BY <1>11, <3>1, <3>2 DEF Untar
  <2> QED
    BY <1>11, <2>1 DEF Untar
<1>12. CASE SyncAndLog
  BY <1>12 DEF SyncAndLog
<1>13. CASE EditCmdline
  BY <1>13, WriteCmdline DEF EditCmdline
<1>14. CASE UmountBoot
  BY <1>14, FieldTypes, WriteCmdline DEF UmountBoot
<1>15. CASE UmountShadow
  BY <1>15, FieldTypes, WriteRoot DEF UmountShadow
<1>16. CASE RemoveInstall
  BY <1>16, WriteInst DEF RemoveInstall
<1>17. CASE RemovePackage
  BY <1>17, FieldTypes, WriteZips DEF RemovePackage
<1>18. ASSUME NEW p \in Package, Upload(p) PROVE TypeOK'
  <2>1. cache' \in FileSystems
    BY <1>18, FieldTypes, WriteZips DEF Upload
  <2>2. disk' \in FileSystems
    BY <1>18, FieldTypes, WriteUpgrade DEF Upload
  <2> QED
    BY <1>18, <2>1, <2>2 DEF Upload, Image
<1>19. CASE Reboot
  BY <1>19 DEF Reboot, Halted, Part
<1>20. CASE PowerLoss
  <2>1. losses' \in 0..MaxLosses
    BY <1>20, LossesAssumption DEF PowerLoss
  <2> QED
    BY <1>20, <2>1 DEF PowerLoss, Halted, Part
<1>21. CASE WriteBack
  <2>1. disk' \in FileSystems
    <3>1. CASE disk' = [disk EXCEPT !.cmdline = cache.cmdline]
      BY <3>1, FieldTypes, WriteCmdline
    <3>2. ASSUME NEW p \in Part, NEW c \in {Broken, cache.root[p]},
                 disk' = [disk EXCEPT !.root[p] = c]
          PROVE disk' \in FileSystems
      <4>1. c \in Image \cup {Broken}
        BY FieldTypes
      <4> QED
        BY <3>2, <4>1, WriteRoot
    <3>3. CASE disk' = [disk EXCEPT !.zips = cache.zips, !.inst = cache.inst]
      BY <3>3, FieldTypes, WriteUpgrade
    <3>4. CASE disk' = [disk EXCEPT !.inst = Partial]
      BY <3>4, WriteInst
    <3> QED
      BY <1>21, <3>1, <3>2, <3>3, <3>4 DEF WriteBack
  <2> QED
    BY <1>21, <2>1 DEF WriteBack
<1>22. CASE UNCHANGED vars
  BY <1>22 DEF vars
<1> QED
  BY <1>1, <1>2, <1>3, <1>4, <1>5, <1>6, <1>7, <1>8, <1>9, <1>10, <1>11, <1>12, <1>13,
     <1>14, <1>15, <1>16, <1>17, <1>18, <1>19, <1>20, <1>21, <1>22 DEF Next, Script

\* The initial states have the types.
LEMMA InitTypes == Init => TypeOK
<1> SUFFICES ASSUME Init PROVE TypeOK
  OBVIOUS
<1>1. disk \in FileSystems
  <2>1. PICK c \in {Factory, Broken} :
          disk = [cmdline |-> 2, root |-> [p \in Part |-> IF p = 2 THEN Factory ELSE c],
                  zips |-> {}, inst |-> NoDir]
    BY DEF Init
  <2> QED
    BY <2>1 DEF FileSystems, Part, Image
<1>2. cache \in FileSystems /\ losses \in 0..MaxLosses
  BY <1>1, LossesAssumption DEF Init
<1> QED
  BY <1>1, <1>2 DEF Init, TypeOK, Part, Image, Labels

\* The variables keep their types for every value of the constants, faults and
\* several packages per boot included.
THEOREM TypeCorrect == Spec => []TypeOK
  BY InitTypes, TypeStep, PTL DEF Spec

-----------------------------------------------------------------------------
(* The inductive invariant *)

\* Reading a part of the file systems after another was written.
LEMMA AfterWrite ==
  ASSUME NEW f \in FileSystems
  PROVE /\ \A c : LET g == [f EXCEPT !.cmdline = c]
                 IN  g.cmdline = c /\ g.root = f.root /\ g.zips = f.zips /\ g.inst = f.inst
        /\ \A p, i : LET g == [f EXCEPT !.root[p] = i]
                 IN  /\ g.cmdline = f.cmdline /\ g.zips = f.zips /\ g.inst = f.inst
                     /\ g.root = [f.root EXCEPT ![p] = i]
        /\ \A i : LET g == [f EXCEPT !.inst = i]
                 IN  g.cmdline = f.cmdline /\ g.root = f.root /\ g.zips = f.zips /\ g.inst = i
        /\ \A z : LET g == [f EXCEPT !.zips = z]
                 IN  g.cmdline = f.cmdline /\ g.root = f.root /\ g.zips = z /\ g.inst = f.inst
        /\ \A z, i : LET g == [f EXCEPT !.zips = z, !.inst = i]
                 IN  g.cmdline = f.cmdline /\ g.root = f.root /\ g.zips = z /\ g.inst = i
        /\ f.root \in [Part -> Image \cup {Broken}]
  BY DEF FileSystems

\* Every step of the regular use of the board keeps the invariant.
LEMMA IInvStep == Regular /\ TypeOK /\ IInv /\ [Next]_vars => IInv'
<1> SUFFICES ASSUME Regular, TypeOK, IInv, [Next]_vars PROVE IInv'
  OBVIOUS
<1>a. "unzip" \notin Faults /\ "bootmount" \notin Faults /\ "shadowmount" \notin Faults
      /\ "tar" \notin Faults /\ "n" \notin Answers /\ OnePerBoot
  BY DEF Regular
<1>b. \A p \in Package : p # Broken /\ p # Partial /\ p # NoDir /\ p # 0
  BY PackageAssumption DEF Broken, Partial, NoDir
<1> USE DEF IInv, RootInv, CmdlineInv, ScriptInv, PackageInv, TypeOK, script, Part,
            Deciding, Untouched, Leaving, Visiting, Unpacked, Running
<1>1. CASE PowerOn
  <2>1. RootInv'
    BY <1>1, <1>a, <1>b, FieldTypes, AfterWrite DEF PowerOn
  <2>2. CmdlineInv'
    BY <1>1, <1>a, <1>b, FieldTypes, AfterWrite DEF PowerOn
  <2>3. ScriptInv'
    BY <1>1, <1>a, <1>b, FieldTypes, AfterWrite DEF PowerOn
  <2>4. PackageInv'
    BY <1>1, <1>a, <1>b, FieldTypes, AfterWrite DEF PowerOn
  <2> QED
    BY <2>1, <2>2, <2>3, <2>4
<1>2. CASE MountPartitions
  <2>1. RootInv'
    BY <1>2, <1>a, <1>b, FieldTypes, AfterWrite DEF MountPartitions
  <2>2. CmdlineInv'
    BY <1>2, <1>a, <1>b, FieldTypes, AfterWrite DEF MountPartitions
  <2>3. ScriptInv'
    BY <1>2, <1>a, <1>b, FieldTypes, AfterWrite DEF MountPartitions
  <2>4. PackageInv'
    BY <1>2, <1>a, <1>b, FieldTypes, AfterWrite DEF MountPartitions
  <2> QED
    BY <2>1, <2>2, <2>3, <2>4
<1>3. CASE FallbackMount
  <2>1. RootInv'
    BY <1>3, <1>a, <1>b, FieldTypes, AfterWrite DEF FallbackMount
  <2>2. CmdlineInv'
    BY <1>3, <1>a, <1>b, FieldTypes, AfterWrite DEF FallbackMount
  <2>3. ScriptInv'
    BY <1>3, <1>a, <1>b, FieldTypes, AfterWrite DEF FallbackMount
  <2>4. PackageInv'
    BY <1>3, <1>a, <1>b, FieldTypes, AfterWrite DEF FallbackMount
  <2> QED
    BY <2>1, <2>2, <2>3, <2>4
<1>4. CASE ListPackages
  <2>1. RootInv'
    BY <1>4, <1>a, <1>b, FieldTypes, AfterWrite DEF ListPackages
  <2>2. CmdlineInv'
    BY <1>4, <1>a, <1>b, FieldTypes, AfterWrite DEF ListPackages
  <2>3. ScriptInv'
    BY <1>4, <1>a, <1>b, FieldTypes, AfterWrite DEF ListPackages
  <2>4. PackageInv'
    BY <1>4, <1>a, <1>b, FieldTypes, AfterWrite DEF ListPackages
  <2> QED
    BY <2>1, <2>2, <2>3, <2>4
<1>5. CASE NextPackage
  <2>1. RootInv'
    BY <1>5, <1>a, <1>b, FieldTypes, AfterWrite DEF NextPackage
  <2>2. CmdlineInv'
    BY <1>5, <1>a, <1>b, FieldTypes, AfterWrite DEF NextPackage
  <2>3. ScriptInv'
    BY <1>5, <1>a, <1>b, FieldTypes, AfterWrite DEF NextPackage
  <2>4. PackageInv'
    BY <1>5, <1>a, <1>b, FieldTypes, AfterWrite DEF NextPackage
  <2> QED
    BY <2>1, <2>2, <2>3, <2>4
<1>6. CASE Unzip
  <2>a. /\ pc = "unzip"
        /\ \/ cache' = [cache EXCEPT !.inst = cur] /\ pc' = "mountBoot"
           \/ cache' = cache /\ pc' = "prompt"
    BY <1>6, <1>a, <1>b DEF Unzip
  <2>c. /\ pc = "unzip" /\ pc' \in {"mountBoot", "prompt"}
        /\ cache'.root = cache.root /\ cache'.cmdline = cache.cmdline /\ cache'.zips = cache.zips
        /\ pc' = "mountBoot" => cache'.inst = cur
    <3>1. cache \in FileSystems
      OBVIOUS
    <3>2. CASE cache' = [cache EXCEPT !.inst = cur] /\ pc' = "mountBoot"
      BY <2>a, <3>1, <3>2, AfterWrite
    <3>3. CASE cache' = cache /\ pc' = "prompt"
      BY <2>a, <3>3
    <3> QED
      BY <2>a, <3>2, <3>3
  <2>b. UNCHANGED <<disk, live, mounted, bootMnt, shadow, todo, cur, use, want>>
    BY <1>6 DEF Unzip
  <2>1. RootInv'
    BY <2>c, <2>b, <1>b
  <2>2. CmdlineInv'
    BY <2>c, <2>b, <1>b
  <2>3. ScriptInv'
    BY <2>c, <2>b, <1>b
  <2>4. PackageInv'
    BY <2>c, <2>b, <1>b
  <2> QED
    BY <2>1, <2>2, <2>3, <2>4
<1>7. CASE AnswerPrompt
  <2>a. /\ pc = "prompt" /\ pc' = "mountBoot"
        /\ cache' = [cache EXCEPT !.inst = cur]
    BY <1>7, <1>a, <1>b DEF AnswerPrompt
  <2>b. UNCHANGED <<disk, live, mounted, bootMnt, shadow, todo, cur, use, want>>
    BY <1>7 DEF AnswerPrompt
  <2>1. RootInv'
    BY <2>a, <2>b, <1>b, FieldTypes, AfterWrite
  <2>2. CmdlineInv'
    BY <2>a, <2>b, <1>b, FieldTypes, AfterWrite
  <2>3. ScriptInv'
    BY <2>a, <2>b, <1>b, FieldTypes, AfterWrite
  <2>4. PackageInv'
    BY <2>a, <2>b, <1>b, FieldTypes, AfterWrite
  <2> QED
    BY <2>1, <2>2, <2>3, <2>4
<1>8. CASE MountBoot
  <2>1. RootInv'
    BY <1>8, <1>a, <1>b, FieldTypes, AfterWrite DEF MountBoot, UnusedRootfs
  <2>2. CmdlineInv'
    BY <1>8, <1>a, <1>b, FieldTypes, AfterWrite DEF MountBoot, UnusedRootfs
  <2>3. ScriptInv'
    BY <1>8, <1>a, <1>b, FieldTypes, AfterWrite DEF MountBoot, UnusedRootfs
  <2>4. PackageInv'
    BY <1>8, <1>a, <1>b, FieldTypes, AfterWrite DEF MountBoot, UnusedRootfs
  <2> QED
    BY <2>1, <2>2, <2>3, <2>4
<1>9. CASE MountShadow
  <2>1. RootInv'
    BY <1>9, <1>a, <1>b, FieldTypes, AfterWrite DEF MountShadow
  <2>2. CmdlineInv'
    BY <1>9, <1>a, <1>b, FieldTypes, AfterWrite DEF MountShadow
  <2>3. ScriptInv'
    BY <1>9, <1>a, <1>b, FieldTypes, AfterWrite DEF MountShadow
  <2>4. PackageInv'
    BY <1>9, <1>a, <1>b, FieldTypes, AfterWrite DEF MountShadow
  <2> QED
    BY <2>1, <2>2, <2>3, <2>4
<1>10. CASE Wipe
  <2>1. RootInv'
    BY <1>10, <1>a, <1>b, FieldTypes, AfterWrite DEF Wipe
  <2>2. CmdlineInv'
    BY <1>10, <1>a, <1>b, FieldTypes, AfterWrite DEF Wipe
  <2>3. ScriptInv'
    BY <1>10, <1>a, <1>b, FieldTypes, AfterWrite DEF Wipe
  <2>4. PackageInv'
    BY <1>10, <1>a, <1>b, FieldTypes, AfterWrite DEF Wipe
  <2> QED
    BY <2>1, <2>2, <2>3, <2>4
<1>11. CASE Untar
  <2>0. pc = "tar" /\ pc' = "sync" /\ cache.inst = cur /\ shadow \in Part /\ cur \in Package
    BY <1>11, FieldTypes DEF Untar
  <2>a. /\ pc = "tar" /\ pc' = "sync" /\ shadow # 0 /\ cur \in Package
        /\ cache' = [cache EXCEPT !.root[shadow] = cur]
    BY <1>11, <1>a, <1>b, <2>0 DEF Untar
  <2>b. UNCHANGED <<disk, live, mounted, bootMnt, shadow, todo, cur, use, want>>
    BY <1>11 DEF Untar
  <2>1. RootInv'
    BY <2>a, <2>b, <1>b, FieldTypes, AfterWrite
  <2>2. CmdlineInv'
    BY <2>a, <2>b, <1>b, FieldTypes, AfterWrite
  <2>3. ScriptInv'
    BY <2>a, <2>b, <1>b, FieldTypes, AfterWrite
  <2>4. PackageInv'
    BY <2>a, <2>b, <1>b, FieldTypes, AfterWrite
  <2> QED
    BY <2>1, <2>2, <2>3, <2>4
<1>12. CASE SyncAndLog
  <2>1. RootInv'
    BY <1>12, <1>a, <1>b, FieldTypes, AfterWrite DEF SyncAndLog
  <2>2. CmdlineInv'
    BY <1>12, <1>a, <1>b, FieldTypes, AfterWrite DEF SyncAndLog
  <2>3. ScriptInv'
    BY <1>12, <1>a, <1>b, FieldTypes, AfterWrite DEF SyncAndLog
  <2>4. PackageInv'
    BY <1>12, <1>a, <1>b, FieldTypes, AfterWrite DEF SyncAndLog
  <2> QED
    BY <2>1, <2>2, <2>3, <2>4
<1>13. CASE EditCmdline
  <2>1. RootInv'
    BY <1>13, <1>a, <1>b, FieldTypes, AfterWrite DEF EditCmdline
  <2>2. CmdlineInv'
    BY <1>13, <1>a, <1>b, FieldTypes, AfterWrite DEF EditCmdline
  <2>3. ScriptInv'
    BY <1>13, <1>a, <1>b, FieldTypes, AfterWrite DEF EditCmdline
  <2>4. PackageInv'
    BY <1>13, <1>a, <1>b, FieldTypes, AfterWrite DEF EditCmdline
  <2> QED
    BY <2>1, <2>2, <2>3, <2>4
<1>14. CASE UmountBoot
  <2>1. RootInv'
    BY <1>14, <1>a, <1>b, FieldTypes, AfterWrite DEF UmountBoot
  <2>2. CmdlineInv'
    BY <1>14, <1>a, <1>b, FieldTypes, AfterWrite DEF UmountBoot
  <2>3. ScriptInv'
    BY <1>14, <1>a, <1>b, FieldTypes, AfterWrite DEF UmountBoot
  <2>4. PackageInv'
    BY <1>14, <1>a, <1>b, FieldTypes, AfterWrite DEF UmountBoot
  <2> QED
    BY <2>1, <2>2, <2>3, <2>4
<1>15. CASE UmountShadow
  <2>1. RootInv'
    BY <1>15, <1>a, <1>b, FieldTypes, AfterWrite DEF UmountShadow
  <2>2. CmdlineInv'
    BY <1>15, <1>a, <1>b, FieldTypes, AfterWrite DEF UmountShadow
  <2>3. ScriptInv'
    BY <1>15, <1>a, <1>b, FieldTypes, AfterWrite DEF UmountShadow
  <2>4. PackageInv'
    BY <1>15, <1>a, <1>b, FieldTypes, AfterWrite DEF UmountShadow
  <2> QED
    BY <2>1, <2>2, <2>3, <2>4
<1>16. CASE RemoveInstall
  <2>1. RootInv'
    BY <1>16, <1>a, <1>b, FieldTypes, AfterWrite DEF RemoveInstall
  <2>2. CmdlineInv'
    BY <1>16, <1>a, <1>b, FieldTypes, AfterWrite DEF RemoveInstall
  <2>3. ScriptInv'
    BY <1>16, <1>a, <1>b, FieldTypes, AfterWrite DEF RemoveInstall
  <2>4. PackageInv'
    BY <1>16, <1>a, <1>b, FieldTypes, AfterWrite DEF RemoveInstall
  <2> QED
    BY <2>1, <2>2, <2>3, <2>4
<1>17. CASE RemovePackage
  <2>1. RootInv'
    BY <1>17, <1>a, <1>b, FieldTypes, AfterWrite DEF RemovePackage
  <2>2. CmdlineInv'
    BY <1>17, <1>a, <1>b, FieldTypes, AfterWrite DEF RemovePackage
  <2>3. ScriptInv'
    BY <1>17, <1>a, <1>b, FieldTypes, AfterWrite DEF RemovePackage
  <2>4. PackageInv'
    BY <1>17, <1>a, <1>b, FieldTypes, AfterWrite DEF RemovePackage
  <2> QED
    BY <2>1, <2>2, <2>3, <2>4
<1>18. ASSUME NEW p \in Package, Upload(p) PROVE IInv'
  <2>1. RootInv'
    BY <1>18, <1>a, <1>b, FieldTypes, AfterWrite DEF Upload
  <2>2. CmdlineInv'
    BY <1>18, <1>a, <1>b, FieldTypes, AfterWrite DEF Upload
  <2>3. ScriptInv'
    BY <1>18, <1>a, <1>b, FieldTypes, AfterWrite DEF Upload
  <2>4. PackageInv'
    BY <1>18, <1>a, <1>b, FieldTypes, AfterWrite DEF Upload
  <2> QED
    BY <2>1, <2>2, <2>3, <2>4
<1>19. CASE Reboot
  <2>1. RootInv'
    BY <1>19, <1>a, <1>b, FieldTypes, AfterWrite DEF Reboot, Halted
  <2>2. CmdlineInv'
    BY <1>19, <1>a, <1>b, FieldTypes, AfterWrite DEF Reboot, Halted
  <2>3. ScriptInv'
    BY <1>19, <1>a, <1>b, FieldTypes, AfterWrite DEF Reboot, Halted
  <2>4. PackageInv'
    BY <1>19, <1>a, <1>b, FieldTypes, AfterWrite DEF Reboot, Halted
  <2> QED
    BY <2>1, <2>2, <2>3, <2>4
<1>20. CASE PowerLoss
  <2>1. RootInv'
    BY <1>20, <1>a, <1>b, FieldTypes, AfterWrite DEF PowerLoss, Halted
  <2>2. CmdlineInv'
    BY <1>20, <1>a, <1>b, FieldTypes, AfterWrite DEF PowerLoss, Halted
  <2>3. ScriptInv'
    BY <1>20, <1>a, <1>b, FieldTypes, AfterWrite DEF PowerLoss, Halted
  <2>4. PackageInv'
    BY <1>20, <1>a, <1>b, FieldTypes, AfterWrite DEF PowerLoss, Halted
  <2> QED
    BY <2>1, <2>2, <2>3, <2>4
<1>21. CASE WriteBack
  <2> USE <1>21, <1>b, FieldTypes, AfterWrite DEF WriteBack
  <2>1. CASE disk' = [disk EXCEPT !.cmdline = cache.cmdline]
    <3>1. RootInv'
      BY <2>1
    <3>2. CmdlineInv'
      BY <2>1
    <3>3. ScriptInv'
      BY <2>1
    <3>4. PackageInv'
      BY <2>1
    <3> QED
      BY <3>1, <3>2, <3>3, <3>4
  <2>2. ASSUME NEW p \in Part, disk.root[p] # cache.root[p],
             NEW c \in {Broken, cache.root[p]}, disk' = [disk EXCEPT !.root[p] = c]
       PROVE IInv'
    <3>0. pc \in {"tar", "sync"} /\ p # live /\ disk.cmdline = live
      BY <2>2
    <3>00. /\ disk'.root = [disk.root EXCEPT ![p] = c]
           /\ disk'.cmdline = disk.cmdline /\ disk'.zips = disk.zips
      BY <2>2
    <3>1. RootInv'
      BY <2>2, <3>0, <3>00
    <3>2. CmdlineInv'
      BY <2>2, <3>0, <3>00
    <3>3. ScriptInv'
      BY <2>2, <3>0, <3>00
    <3>4. PackageInv'
      BY <2>2, <3>0, <3>00
    <3> QED
      BY <3>1, <3>2, <3>3, <3>4
  <2>3. CASE disk' = [disk EXCEPT !.zips = cache.zips, !.inst = cache.inst]
    <3>1. RootInv'
      BY <2>3
    <3>2. CmdlineInv'
      BY <2>3
    <3>3. ScriptInv'
      BY <2>3
    <3>4. PackageInv'
      BY <2>3
    <3> QED
      BY <3>1, <3>2, <3>3, <3>4
  <2>4. CASE disk' = [disk EXCEPT !.inst = Partial]
    <3>1. RootInv'
      BY <2>4
    <3>2. CmdlineInv'
      BY <2>4
    <3>3. ScriptInv'
      BY <2>4
    <3>4. PackageInv'
      BY <2>4
    <3> QED
      BY <3>1, <3>2, <3>3, <3>4
  <2> QED
    BY <2>1, <2>2, <2>3, <2>4
<1>22. CASE UNCHANGED vars
  BY <1>22 DEF vars
<1> QED
  BY <1>1, <1>2, <1>3, <1>4, <1>5, <1>6, <1>7, <1>8, <1>9, <1>10, <1>11, <1>12, <1>13,
     <1>14, <1>15, <1>16, <1>17, <1>18, <1>19, <1>20, <1>21, <1>22 DEF Next, Script

\* The invariant holds throughout the regular use of the board.
LEMMA Invariance == ASSUME Regular PROVE Spec => [](TypeOK /\ IInv)
<1>1. ASSUME Init PROVE IInv
  <2>1. PICK c \in {Factory, Broken} :
          disk = [cmdline |-> 2, root |-> [p \in Part |-> IF p = 2 THEN Factory ELSE c],
                  zips |-> {}, inst |-> NoDir]
    BY <1>1 DEF Init
  <2>2. disk.cmdline = 2 /\ disk.root[2] = Factory /\ disk.zips = {}
    BY <2>1 DEF Part
  <2>3. Factory # Broken
    BY DEF Factory, Broken
  <2> QED
    BY <1>1, <2>2, <2>3 DEF Init, IInv, RootInv, CmdlineInv, ScriptInv, PackageInv, Running,
       Deciding, Untouched, Leaving, Visiting, Unpacked
<1>2. TypeOK /\ IInv /\ [Next]_vars => (TypeOK /\ IInv)'
  BY TypeStep, IInvStep
<1>3. Init => TypeOK
  BY InitTypes
<1> QED
  BY <1>1, <1>2, <1>3, PTL DEF Spec

\* A power loss at any instant of an upgrade leaves a card that boots.
THEOREM Bootable == ASSUME Regular PROVE Spec => []CrashBootable
<1>1. IInv => CrashBootable
  BY DEF IInv, RootInv, CrashBootable
<1> QED
  BY <1>1, Invariance, PTL

\* An uploaded package is on the card until its image is the one that boots.
THEOREM NothingLost == ASSUME Regular PROVE Spec => []NoLostPackage
<1>1. IInv => NoLostPackage
  BY DEF IInv, PackageInv, NoLostPackage
<1> QED
  BY <1>1, Invariance, PTL

-----------------------------------------------------------------------------
(* The running root, whatever fails *)

\* One package per boot, and a boot partition that can be mounted: every other
\* command may fail and the operator may answer what he likes.
Mountable == OnePerBoot /\ "bootmount" \notin Faults

\* Labels from the boot to the moment cmdline.txt is edited.
Before == {"mount", "check", "list", "unzip", "prompt", "mountBoot", "mountShadow",
           "wipe", "tar", "sync", "edit"}

\* What keeps the script off the running root, whatever else fails.
LiveInv ==
  /\ pc = "off" => cache = disk
  /\ Running => live \in Part /\ cache.root[live] # Broken
  /\ pc \in Before \/ (pc = "next" /\ todo # {}) => cache.cmdline = live
  /\ pc \in {"mountShadow", "wipe", "tar"} => use # live
  /\ shadow # 0 => shadow = use /\ pc \in {"wipe", "tar", "sync", "edit", "umountBoot", "umountShadow"}
  /\ todo # {} => pc = "next" /\ todo \subseteq {want}
  /\ disk.zips \subseteq {want} /\ cache.zips \subseteq {want}

LEMMA LiveInit == Init => LiveInv
<1> SUFFICES ASSUME Init PROVE LiveInv
  OBVIOUS
<1>1. disk.zips = {} /\ cache = disk /\ pc = "off" /\ shadow = 0 /\ todo = {}
  BY DEF Init
<1> QED BY <1>1 DEF LiveInv, Running, Before

LEMMA LiveStep == ASSUME Mountable, TypeOK, LiveInv, [Next]_vars PROVE LiveInv'
<1> USE DEF LiveInv, Running, Before, Part
<1>1. /\ live \in Part \cup {0} /\ use \in Part /\ shadow \in Part \cup {0}
      /\ cache \in FileSystems /\ disk \in FileSystems
  BY DEF TypeOK
<1>2. cache.root \in [Part -> Image \cup {Broken}]
  BY <1>1, AfterWrite
<1>3. CASE PowerOn
  BY <1>3, <1>1, FieldTypes DEF PowerOn, script
<1>4. CASE MountPartitions \/ FallbackMount \/ ListPackages
  BY <1>4 DEF MountPartitions, FallbackMount, ListPackages, script
<1>5. CASE NextPackage
  <2>1. todo' = {}
    BY <1>5 DEF NextPackage
  <2> QED BY <1>5, <2>1 DEF NextPackage
<1>6. CASE Unzip \/ AnswerPrompt \/ RemoveInstall \/ RemovePackage
  <2>1. /\ cache'.root = cache.root /\ cache'.cmdline = cache.cmdline
        /\ cache'.zips \subseteq cache.zips
    <3>1. CASE cache' = cache
      BY <3>1
    <3>2. ASSUME NEW i, cache' = [cache EXCEPT !.inst = i]
          PROVE  cache'.root = cache.root /\ cache'.cmdline = cache.cmdline /\ cache'.zips = cache.zips
      BY <3>2, <1>1, AfterWrite
    <3>3. CASE cache' = [cache EXCEPT !.zips = cache.zips \ {cur}]
      BY <3>3, <1>1, AfterWrite
    <3>4. \/ cache' = cache \/ cache' = [cache EXCEPT !.zips = cache.zips \ {cur}]
          \/ \E i : cache' = [cache EXCEPT !.inst = i]
      BY <1>6 DEF Unzip, AnswerPrompt, RemoveInstall, RemovePackage
    <3> QED BY <3>1, <3>2, <3>3, <3>4
  <2>2. /\ UNCHANGED <<disk, live, shadow, todo, use, want>> /\ pc' \notin {"off", "panic"}
        /\ pc \in {"unzip", "prompt", "rmInstall", "rmZip"}
        /\ pc' \in {"mountBoot", "prompt", "rmInstall", "rmZip", "next"}
        /\ pc' \in {"mountBoot", "prompt"} => pc \in {"unzip", "prompt"}
    BY <1>6 DEF Unzip, AnswerPrompt, RemoveInstall, RemovePackage, script
  <2> QED BY <2>1, <2>2
<1>7. CASE MountBoot
  <2>1. bootMnt' = TRUE /\ use' = IF cache.cmdline = 2 THEN 3 ELSE 2
    BY <1>7 DEF MountBoot, Mountable, UnusedRootfs
  <2>2. use' # live
    BY <1>7, <2>1 DEF MountBoot
  <2> QED BY <1>7, <2>2 DEF MountBoot
<1>8. CASE MountShadow
  BY <1>8 DEF MountShadow
<1>9. CASE Wipe
  <2>1. shadow # live /\ live \in Part
    BY <1>9, <1>1 DEF Wipe
  <2>2. cache'.cmdline = cache.cmdline /\ cache'.zips = cache.zips /\ cache'.root[live] = cache.root[live]
    BY <1>9, <1>1, <1>2, <2>1, AfterWrite DEF Wipe
  <2> QED BY <1>9, <2>1, <2>2 DEF Wipe
<1>10. CASE Untar
  <2>1. shadow # live /\ live \in Part
    BY <1>10, <1>1 DEF Untar
  <2>2. cache'.cmdline = cache.cmdline /\ cache'.zips = cache.zips /\ cache'.root[live] = cache.root[live]
    <3>1. CASE cache' = cache
      BY <3>1
    <3>2. CASE cache' = [cache EXCEPT !.root[shadow] = cache.inst]
      BY <3>2, <1>1, <1>2, <2>1, AfterWrite
    <3> QED BY <1>10, <3>1, <3>2 DEF Untar
  <2> QED BY <1>10, <2>1, <2>2 DEF Untar
<1>11. CASE SyncAndLog
  BY <1>11 DEF SyncAndLog
<1>12. CASE EditCmdline
  <2>1. cache'.root = cache.root /\ cache'.zips = cache.zips
    BY <1>12, <1>1, AfterWrite DEF EditCmdline
  <2> QED BY <1>12, <2>1 DEF EditCmdline, script
<1>13. CASE UmountBoot \/ UmountShadow
  <2>1. disk'.zips = disk.zips
    <3>1. \/ disk' = disk \/ disk' = [disk EXCEPT !.cmdline = cache.cmdline]
          \/ disk' = [disk EXCEPT !.root[shadow] = cache.root[shadow]]
      BY <1>13 DEF UmountBoot, UmountShadow
    <3>2. CASE disk' = [disk EXCEPT !.cmdline = cache.cmdline]
      BY <3>2, <1>1, AfterWrite
    <3>3. CASE disk' = [disk EXCEPT !.root[shadow] = cache.root[shadow]]
      BY <3>3, <1>1, AfterWrite
    <3> QED BY <3>1, <3>2, <3>3
  <2> QED BY <1>13, <2>1 DEF UmountBoot, UmountShadow
<1>14. ASSUME NEW p \in Package, Upload(p) PROVE LiveInv'
  <2>1. cache.zips = {} /\ want' = p /\ pc = "up" /\ UNCHANGED <<pc, live, shadow, todo, use>>
    BY <1>14 DEF Upload, Mountable, script
  <2>2. /\ cache'.root = cache.root /\ cache'.zips = {p} /\ disk'.zips = {p}
    BY <1>14, <1>1, <2>1, AfterWrite DEF Upload
  <2> QED BY <2>1, <2>2
<1>15. CASE Reboot \/ PowerLoss
  BY <1>15 DEF Reboot, PowerLoss, Halted
<1>16. CASE WriteBack
  <2>1. disk'.zips \in {disk.zips, cache.zips}
    <3>1. CASE disk' = [disk EXCEPT !.cmdline = cache.cmdline]
      BY <3>1, <1>1, AfterWrite
    <3>2. ASSUME NEW p, NEW c, disk' = [disk EXCEPT !.root[p] = c]
          PROVE  disk'.zips = disk.zips
      BY <3>2, <1>1, AfterWrite
    <3>3. CASE disk' = [disk EXCEPT !.zips = cache.zips, !.inst = cache.inst]
      BY <3>3, <1>1, AfterWrite
    <3>4. CASE disk' = [disk EXCEPT !.inst = Partial]
      BY <3>4, <1>1, AfterWrite
    <3> QED BY <1>16, <3>1, <3>2, <3>3, <3>4 DEF WriteBack
  <2> QED BY <1>16, <2>1 DEF WriteBack, script
<1>17. CASE UNCHANGED vars
  BY <1>17 DEF vars
<1> QED BY <1>3, <1>4, <1>5, <1>6, <1>7, <1>8, <1>9, <1>10, <1>11, <1>12, <1>13, <1>14, <1>15,
           <1>16, <1>17 DEF Next, Script

\* The rm -rf of fs-install-template never hits the root file system the board runs
\* on, whichever mounts, unzips and tars fail and however often power is lost, as
\* long as cmdline.txt can be read and there is one package per boot.
THEOREM LiveSafe == ASSUME Mountable PROVE Spec => []LiveRootIntact
<1>1. TypeOK /\ LiveInv /\ [Next]_vars => (TypeOK /\ LiveInv)'
  BY TypeStep, LiveStep
<1>2. LiveInv => LiveRootIntact
  BY DEF LiveInv, LiveRootIntact
<1> QED BY <1>1, <1>2, LiveInit, InitTypes, PTL DEF Spec

-----------------------------------------------------------------------------
(* The scripts implement AtomicUpgrade *)

\* Every step of the board is a step of the atomic upgrade or leaves it alone.
LEMMA AtomicStep ==
  Regular /\ TypeOK /\ IInv /\ [Next]_vars => [Abstract!Next]_(Abstract!absVars)
<1> SUFFICES ASSUME Regular, TypeOK, IInv, [Next]_vars
             PROVE [Abstract!Next]_(Abstract!absVars)
  OBVIOUS
<1> DEFINE image == disk.root[disk.cmdline]
<1>a. ASSUME image' = image, disk'.zips = disk.zips
      PROVE [Abstract!Next]_(Abstract!absVars)
  BY <1>a DEF Abstract!absVars
<1>b. ASSUME NEW p \in Package, p \in disk.zips, image' = p, disk'.zips = disk.zips
      PROVE [Abstract!Next]_(Abstract!absVars)
  BY <1>b DEF Abstract!Next, Abstract!Switch
<1>c. ASSUME NEW p \in Package, p \in disk.zips, image = p, image' = image,
             disk'.zips = disk.zips \ {p}
      PROVE [Abstract!Next]_(Abstract!absVars)
  BY <1>c DEF Abstract!Next, Abstract!Consume
\* Writing the upgrade partition consumes the package that boots, if any.
<1>d. ASSUME image' = image, disk'.zips = cache.zips
      PROVE [Abstract!Next]_(Abstract!absVars)
  <2>1. CASE cache.zips = disk.zips
    BY <1>a, <1>d, <2>1
  <2>2. CASE cache.zips # disk.zips
    <3>1. disk.zips = {want} /\ cache.zips = {} /\ image = want
      BY <2>2 DEF IInv, PackageInv
    <3>2. want \in Package
      BY <3>1, FieldTypes DEF TypeOK
    <3> QED
      BY <1>c, <1>d, <3>1, <3>2
  <2> QED
    BY <2>1, <2>2
\* Writing cmdline.txt switches to the image of the pending package, if it
\* changes anything.
<1>e. ASSUME disk'.root = disk.root, disk'.zips = disk.zips, disk'.cmdline = cache.cmdline
      PROVE [Abstract!Next]_(Abstract!absVars)
  <2>1. CASE pc # "umountBoot"
    BY <1>a, <1>e, <2>1 DEF IInv, CmdlineInv
  <2>2. CASE pc = "umountBoot"
    <3>1. want \in Package /\ want \in disk.zips /\ image' = want
      BY <1>e, <2>2, FieldTypes DEF IInv, CmdlineInv, ScriptInv, PackageInv, TypeOK, Leaving,
         Visiting
    <3> QED
      BY <1>b, <1>e, <3>1
  <2> QED
    BY <2>1, <2>2
\* Writing a root partition does not touch the one that boots.
<1>f. ASSUME NEW p \in Part, NEW i, disk' = [disk EXCEPT !.root[p] = i],
             i = disk.root[p] \/ p # disk.cmdline
      PROVE [Abstract!Next]_(Abstract!absVars)
  <2>1. /\ disk'.cmdline = disk.cmdline /\ disk'.zips = disk.zips
        /\ disk'.root = [disk.root EXCEPT ![p] = i]
    BY <1>f, AfterWrite DEF TypeOK
  <2>2. image' = image
    BY <1>f, <2>1, AfterWrite, FieldTypes DEF TypeOK
  <2> QED
    BY <1>a, <2>1, <2>2
<1>1. CASE MountPartitions
  BY <1>1, <1>a DEF MountPartitions
<1>2. CASE FallbackMount
  BY <1>2, <1>a DEF FallbackMount
<1>3. CASE ListPackages
  BY <1>3, <1>a DEF ListPackages
<1>4. CASE NextPackage
  BY <1>4, <1>a DEF NextPackage
<1>5. CASE Unzip
  BY <1>5, <1>a DEF Unzip
<1>6. CASE AnswerPrompt
  BY <1>6, <1>a DEF AnswerPrompt
<1>7. CASE MountBoot
  BY <1>7, <1>a DEF MountBoot
<1>8. CASE MountShadow
  BY <1>8, <1>a DEF MountShadow
<1>9. CASE Wipe
  BY <1>9, <1>a DEF Wipe
<1>10. CASE Untar
  BY <1>10, <1>a DEF Untar
<1>11. CASE EditCmdline
  BY <1>11, <1>a DEF EditCmdline
<1>12. CASE RemoveInstall
  BY <1>12, <1>a DEF RemoveInstall
<1>13. CASE RemovePackage
  BY <1>13, <1>a DEF RemovePackage
<1>14. CASE PowerOn
  BY <1>14, <1>a DEF PowerOn
<1>15. CASE PowerLoss
  BY <1>15, <1>a DEF PowerLoss
<1>16. CASE SyncAndLog
  <2>1. disk' = cache /\ pc = "sync" /\ cache.cmdline = disk.cmdline /\ disk.cmdline = live
    BY <1>16 DEF SyncAndLog, IInv, CmdlineInv, Untouched, Deciding
  <2>2. image' = image
    BY <2>1 DEF IInv, RootInv, Running
  <2> QED
    BY <1>d, <2>1, <2>2
<1>17. CASE UmountBoot
  <2>1. CASE bootMnt
    BY <1>17, <2>1, <1>e, AfterWrite DEF UmountBoot, TypeOK
  <2>2. CASE ~ bootMnt
    BY <1>17, <2>2, <1>a DEF UmountBoot
  <2> QED
    BY <2>1, <2>2
<1>18. CASE UmountShadow
  <2>1. CASE shadow = 0
    BY <1>18, <2>1, <1>a DEF UmountShadow
  <2>2. CASE shadow # 0
    BY <1>18, <2>2, <1>f DEF UmountShadow, IInv, RootInv, TypeOK
  <2> QED
    BY <2>1, <2>2
<1>19. ASSUME NEW p \in Package, Upload(p) PROVE [Abstract!Next]_(Abstract!absVars)
  <2>1. image' = image /\ disk'.zips = cache.zips \cup {p}
    BY <1>19, AfterWrite DEF Upload, TypeOK
  <2>2. \E q \in SUBSET (disk.zips \cap {image}) : disk'.zips = (disk.zips \ q) \cup {p}
    <3>1. CASE cache.zips = disk.zips
      <4>1. disk'.zips = (disk.zips \ {}) \cup {p}
        BY <2>1, <3>1
      <4> QED
        BY <4>1
    <3>2. CASE cache.zips # disk.zips
      <4>1. disk.zips = {want} /\ cache.zips = {} /\ image = want
        BY <3>2 DEF IInv, PackageInv
      <4> QED
        BY <2>1, <4>1
    <3> QED
      BY <3>1, <3>2
  <2> QED
    BY <2>1, <2>2 DEF Abstract!Next, Abstract!Upload
<1>20. CASE Reboot
  <2>1. disk' = cache /\ cache.cmdline = disk.cmdline /\ cache.root = disk.root
    BY <1>20 DEF Reboot, IInv, CmdlineInv, RootInv
  <2> QED
    BY <1>d, <2>1
<1>21. CASE WriteBack
  <2>1. CASE disk' = [disk EXCEPT !.cmdline = cache.cmdline]
    BY <2>1, <1>e, AfterWrite DEF TypeOK
  <2>2. ASSUME NEW p \in Part, disk.root[p] # cache.root[p], NEW c \in {Broken, cache.root[p]},
               disk' = [disk EXCEPT !.root[p] = c]
        PROVE [Abstract!Next]_(Abstract!absVars)
    <3>1. pc \in {"tar", "sync"} /\ p # live
      BY <1>21, <2>2 DEF WriteBack, IInv, RootInv
    <3>2. disk.cmdline = live
      BY <3>1 DEF IInv, CmdlineInv, Untouched, Deciding
    <3> QED
      BY <2>2, <3>1, <3>2, <1>f
  <2>3. CASE disk' = [disk EXCEPT !.zips = cache.zips, !.inst = cache.inst]
    BY <2>3, <1>d, AfterWrite DEF TypeOK
  <2>4. CASE disk' = [disk EXCEPT !.inst = Partial]
    BY <2>4, <1>a, AfterWrite DEF TypeOK
  <2> QED
    BY <1>21, <2>1, <2>2, <2>3, <2>4 DEF WriteBack
<1>22. CASE UNCHANGED vars
  BY <1>22, <1>a DEF vars
<1> QED
  BY <1>1, <1>2, <1>3, <1>4, <1>5, <1>6, <1>7, <1>8, <1>9, <1>10, <1>11, <1>12, <1>13,
     <1>14, <1>15, <1>16, <1>17, <1>18, <1>19, <1>20, <1>21, <1>22 DEF Next, Script

\* Seen from the SD card an upgrade is atomic, whatever the kernel writes back
\* and whenever power is lost: the scripts implement AtomicUpgrade.
THEOREM Atomic == ASSUME Regular PROVE Spec => UpgradeIsAtomic
<1>1. ASSUME Init PROVE Abstract!Init
  <2>1. PICK c \in {Factory, Broken} :
          disk = [cmdline |-> 2, root |-> [p \in Part |-> IF p = 2 THEN Factory ELSE c],
                  zips |-> {}, inst |-> NoDir]
    BY <1>1 DEF Init
  <2> QED
    BY <2>1 DEF Abstract!Init, Part
<1>2. TypeOK /\ IInv /\ [Next]_vars => [Abstract!Next]_(Abstract!absVars)
  BY AtomicStep
<1> QED
  BY <1>1, <1>2, Invariance, PTL DEF Spec, UpgradeIsAtomic, Abstract!Spec
=============================================================================
