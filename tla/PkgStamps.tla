----------------------------- MODULE PkgStamps -----------------------------
(***************************************************************************)
(* buildroot/package/pkg-generic.mk and support/scripts/apply-patches.sh:   *)
(* the steps of one package, each recorded by a stamp file touched when its *)
(* commands are done, and the requests that remove stamps.  make runs one   *)
(* step at a time (.NOTPARALLEL) and may be stopped anywhere, by an error   *)
(* or by the user; what it was doing is then left half done.                *)
(***************************************************************************)
EXTENDS Naturals, FiniteSets

CONSTANTS
  Patches,        \* number of patches, applied in order
  MaxEdits,       \* bound on the changes a developer makes to the sources
  Uncompressed,   \* how the decompression of a patch may end: TRUE, FALSE
  Removed         \* how the removal of the build directory may end: TRUE, FALSE

ASSUME StampsAssumption ==
  /\ Patches \in Nat /\ MaxEdits \in Nat
  /\ Uncompressed \subseteq BOOLEAN /\ Removed \subseteq BOOLEAN

Installs == {"staging_installed", "target_installed", "images_installed", "host_installed"}
Step == {"downloaded", "extracted", "rsynced", "patched", "configured", "built"} \cup Installs
Request == {"make", "reinstall", "rebuild", "reconfigure"}
Part == 0    \* the version of something half done or never done

VARIABLES
  override,    \* whether <pkg>_OVERRIDE_SRCDIR is set
  host,        \* whether it is a host package
  stamps,      \* the stamp files there are
  newer,       \* their times: for each of them, the ones touched after it
  request,     \* what make was asked for, or "none"
  rm,          \* stamps the request still has to remove
  step,        \* the step under way, or "none"
  phase,       \* "commands", or "touch" when they are done
  next_patch,  \* the next patch of scan_patchdir
  source,      \* version of the sources a developer works on
  wanted,      \* that version when the request was made
  kept,        \* history: rsync kept files of the build directory in this request
  tree,        \* the build directory: its version
  applied,     \* and the patches applied to it
  product      \* what build and install have made, from which version

fixed == <<override, host>>
results == <<tree, applied, product>>
making == <<request, rm, step, phase, next_patch, wanted, kept>>
files == <<stamps, newer>>
vars == <<fixed, files, making, source, results>>

Version == 0 .. MaxEdits + 1

TypeOK ==
  /\ override \in BOOLEAN /\ host \in BOOLEAN
  /\ stamps \subseteq Step /\ newer \in [Step -> SUBSET Step]
  /\ request \in Request \cup {"none"}
  /\ rm \subseteq Step
  /\ step \in Step \cup {"none"}
  /\ phase \in {"commands", "touch"}
  /\ next_patch \in 1 .. Patches + 1
  /\ source \in Version /\ wanted \in Version /\ kept \in BOOLEAN
  /\ tree \in Version /\ applied \subseteq 1 .. Patches
  /\ product \in [Installs \cup {"built"} -> Version]

Init ==
  /\ override \in BOOLEAN /\ host \in BOOLEAN
  /\ stamps = {} /\ newer = [s \in Step |-> {}]
  /\ request = "none" /\ rm = {} /\ step = "none" /\ phase = "commands" /\ next_patch = 1
  /\ source = 1 /\ wanted = 1 /\ kept = FALSE
  /\ tree = Part /\ applied = {}
  /\ product = [s \in Installs \cup {"built"} |-> Part]

-----------------------------------------------------------------------------
(* Which steps make runs *)

\* The order of the steps, along the prerequisites of <pkg>-install.
Rank(s) ==
  CASE s = "downloaded" -> 1
    [] s = "extracted" -> 2
    [] s = "patched" -> 3
    [] s = "rsynced" -> 4
    [] s = "configured" -> 5
    [] s = "built" -> 6
    [] s = "staging_installed" -> 7
    [] s = "target_installed" -> 8
    [] s = "images_installed" -> 9
    [] s = "host_installed" -> 10

Steps ==
  (IF override THEN {"rsynced"} ELSE {"downloaded", "extracted", "patched"})
    \cup {"configured", "built"}
    \cup (IF host THEN {"host_installed"} ELSE Installs \ {"host_installed"})

\* The normal prerequisites: rsynced is an order-only one of configured.
Prerequisites(s) ==
  CASE s = "extracted" -> {"downloaded"}
    [] s = "patched" -> {"extracted"}
    [] s = "configured" -> IF override THEN {} ELSE {"patched"}
    [] s = "built" -> {"configured"}
    [] s = "target_installed" -> {"built", "staging_installed"}
    [] s \in Installs \ {"target_installed"} -> {"built"}
    [] OTHER -> {}

OutOfDate(s) == s \notin stamps \/ \E p \in Prerequisites(s) : p \in newer[s]
ToDo == {s \in Steps : OutOfDate(s)}

TouchStamp(s) ==
  /\ stamps' = stamps \cup {s}
  /\ newer' = [t \in Step |-> IF t \in stamps \ {s} THEN newer[t] \cup {s} ELSE {}]

RemoveStamps(S) ==
  /\ stamps' = stamps \ S
  /\ newer' = [t \in Step |-> IF t \in S THEN {} ELSE newer[t] \ S]

-----------------------------------------------------------------------------
(* Requests *)

CleanForReinstallNoSync == Installs

\* <pkg>-clean-for-reinstall, -rebuild and -reconfigure.
CleanForReinstall == Installs \cup (IF override THEN {"rsynced"} ELSE {})
CleanForRebuild == CleanForReinstall \cup {"built"}
CleanForReconfigure == CleanForRebuild \cup {"configured"}

Ask(r) ==
  /\ request = "none" /\ request' = r
  /\ rm' = CASE r = "make" -> {}
             [] r = "reinstall" -> CleanForReinstall
             [] r = "rebuild" -> CleanForRebuild
             [] r = "reconfigure" -> CleanForReconfigure
  /\ wanted' = IF override THEN source ELSE tree
  /\ kept' = FALSE
  /\ UNCHANGED <<fixed, files, step, phase, next_patch, source, results>>

\* One rm -f after the other: rsync's stamp, those of the installations, built, configured.
RemovedBefore(s, t) ==
  \/ s = "rsynced" \/ t = "configured"
  \/ s \in Installs /\ (t \in Installs => Rank(s) <= Rank(t)) /\ t # "rsynced"
  \/ s = t

RemoveStamp ==
  /\ \E s \in rm :
       /\ \A t \in rm : RemovedBefore(s, t)
       /\ RemoveStamps({s}) /\ rm' = rm \ {s}
  /\ UNCHANGED <<fixed, request, step, phase, next_patch, wanted, kept, source, results>>

BeginByTouch ==
  /\ request # "none" /\ rm = {} /\ step = "none"
  /\ step' \in ToDo /\ \A t \in ToDo : Rank(step') <= Rank(t)
  /\ phase' = "commands" /\ next_patch' = 1
  /\ TouchStamp(step')
  /\ UNCHANGED <<fixed, request, rm, wanted, kept, source, results>>

\* The next step whose stamp is missing or older than a prerequisite.
Begin ==
  /\ request # "none" /\ rm = {} /\ step = "none"
  /\ step' \in ToDo /\ \A t \in ToDo : Rank(step') <= Rank(t)
  /\ phase' = "commands" /\ next_patch' = 1
  /\ UNCHANGED <<fixed, files, request, rm, wanted, kept, source, results>>

Done ==
  /\ request # "none" /\ rm = {} /\ step = "none" /\ ToDo = {}
  /\ request' = "none"
  /\ UNCHANGED <<fixed, files, rm, step, phase, next_patch, wanted, kept, source, results>>

-----------------------------------------------------------------------------
(* Steps *)

At(s) == step = s /\ phase = "commands"
Finish == phase' = "touch" /\ UNCHANGED <<fixed, files, request, rm, step, wanted, source>>
Ready == Finish /\ UNCHANGED kept

\* The archive overwrites what it finds; the patches are not in it.
Extract ==
  /\ At("extracted")
  /\ tree' = 1 /\ applied' = {} /\ Ready
  /\ UNCHANGED <<next_patch, product>>

\* rsync -au: the tree becomes the source, or, since it passes over files that
\* are newer in the build directory and deletes none, something of an older
\* version stays in it.
Rsync ==
  /\ At("rsynced")
  /\ \/ tree' = source /\ UNCHANGED kept
     \/ tree' \in 1 .. source /\ kept' = TRUE
  /\ Finish
  /\ UNCHANGED <<next_patch, applied, product>>

ApplyPastEnd ==
  /\ At("patched")
  /\ applied' = applied \cup {next_patch} /\ next_patch' = next_patch + 1
  /\ UNCHANGED <<fixed, files, request, rm, step, phase, wanted, kept, source, tree, product>>

\* patch -N refuses a patch it finds applied, if only in part; only the status of
\* patch counts, and it does nothing with an empty input.
ApplyPatch ==
  /\ At("patched") /\ next_patch <= Patches
  /\ \E uncompressed \in Uncompressed :
       \/ ~ uncompressed /\ UNCHANGED applied
       \/ uncompressed /\ next_patch \notin applied /\ applied' = applied \cup {next_patch}
  /\ next_patch' = next_patch + 1
  /\ UNCHANGED <<fixed, files, request, rm, step, phase, wanted, kept, source, tree, product>>

Patched ==
  /\ At("patched") /\ next_patch > Patches
  /\ Ready
  /\ UNCHANGED <<next_patch, results>>

\* A download and a configuration leave nothing the properties look at.
DownloadOrConfigure ==
  /\ At("downloaded") \/ At("configured")
  /\ Ready
  /\ UNCHANGED <<next_patch, results>>

Build ==
  /\ At("built")
  /\ product' = [product EXCEPT !["built"] = IF override \/ applied = 1 .. Patches THEN tree ELSE Part]
  /\ Ready
  /\ UNCHANGED <<next_patch, tree, applied>>

Install ==
  /\ step \in Installs /\ phase = "commands"
  /\ product' = [product EXCEPT ![step] = product["built"]]
  /\ Ready
  /\ UNCHANGED <<next_patch, tree, applied>>

Touch ==
  /\ phase = "touch"
  /\ TouchStamp(step)
  /\ step' = "none" /\ phase' = "commands"
  /\ UNCHANGED <<fixed, request, rm, next_patch, wanted, kept, source, results>>

\* make stops, because a command failed or because it was killed, before the
\* stamp is touched.  Commands under way leave their result half done; of a
\* patch something may be in the tree or nothing.
Stop ==
  /\ request # "none"
  /\ request' = "none" /\ rm' = {} /\ step' = "none" /\ phase' = "commands"
  /\ IF phase = "touch" THEN UNCHANGED results
     ELSE /\ tree' = IF step \in {"extracted", "rsynced"} THEN Part ELSE tree
          /\ product' = [s \in DOMAIN product |-> IF s = step THEN Part ELSE product[s]]
          /\ applied' \in IF step = "patched" /\ next_patch <= Patches
                          THEN {applied, applied \cup {next_patch}} ELSE {applied}
  /\ UNCHANGED <<fixed, files, next_patch, wanted, kept, source>>

\* <pkg>-dirclean: rm -Rf of the build directory, in whatever order.
Dirclean ==
  /\ request = "none"
  /\ \E removed \in Removed, lost \in SUBSET stamps :
       /\ removed => lost = stamps
       /\ RemoveStamps(lost)
  /\ tree' = Part /\ applied' = {}
  /\ product' = [product EXCEPT !["built"] = Part]
  /\ UNCHANGED <<fixed, making, source>>

\* A developer changes the sources: those of the override, at any time, or the
\* patched ones of an extracted build directory.
Edit ==
  /\ source <= MaxEdits /\ source' = source + 1
  /\ \/ override /\ UNCHANGED tree
     \/ ~ override /\ request = "none" /\ "extracted" \in stamps /\ applied = 1 .. Patches
          /\ tree' = source'
  /\ UNCHANGED <<fixed, files, making, applied, product>>

Next ==
  \/ \E r \in Request : Ask(r)
  \/ RemoveStamp \/ Begin \/ Done
  \/ Extract \/ Rsync \/ ApplyPatch \/ Patched \/ DownloadOrConfigure \/ Build \/ Install \/ Touch
  \/ Stop \/ Dirclean \/ Edit

Spec == Init /\ [][Next]_vars

-----------------------------------------------------------------------------
(* Properties *)

\* A stamp tells the truth wherever make was stopped before: the tree it stands
\* for is whole and has every patch once, the build is one of such a tree, and
\* what is installed is what was built, unless make would do it again.  It does
\* not hold after a dirclean that was stopped half way or a patch that could not
\* be decompressed (Removed, Uncompressed), which no stamp tells.
Ancestors(s) ==
  {t \in (Steps \ Installs) \ {"rsynced"} : Rank(t) < Rank(s)}
    \cup (IF s = "target_installed" THEN {"staging_installed"} ELSE {})
UpToDate(s) == \A t \in Ancestors(s) \cup {s} : ~ OutOfDate(t)
StampsTrue ==
  /\ UpToDate("extracted") => tree # Part
  /\ ~ override /\ UpToDate("patched") => applied = 1 .. Patches
  /\ UpToDate("built") => product["built"] # Part
  /\ \A s \in Installs : UpToDate(s) => product[s] = product["built"]

\* After <pkg>-rebuild or -reconfigure, what is installed has the changes made
\* before the request, whether the sources are overridden or not and whatever
\* requests were interrupted before - if rsync took all of them, that is, had no
\* file of the build directory to keep.
RebuildTakesEdits ==
  [][Done /\ request \in {"rebuild", "reconfigure"} /\ ~ kept =>
       \A s \in Installs \cap stamps : product[s] >= wanted]_vars
=============================================================================
