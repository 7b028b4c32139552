------------------------------ MODULE Download ------------------------------
(***************************************************************************)
(* Download of one source archive by several builds that share BR2_DL_DIR.  *)
(*                                                                          *)
(*   buildroot/package/pkg-generic.mk        .stamp_downloaded, _extracted  *)
(*   buildroot/package/pkg-download.mk       DOWNLOAD_INNER: which sites    *)
(*   buildroot/support/download/dl-wrapper   one attempt at one site        *)
(*   buildroot/support/download/check-hash   the verdict on a file          *)
(*                                                                          *)
(* Every command of dl-wrapper that another build can observe or that can   *)
(* fail is a step of its own.                                               *)
(***************************************************************************)
EXTENDS Naturals

CONSTANTS
  Build,        \* builds sharing the download directory
  Content,      \* what a file can contain
  Accepted,     \* contents that match the hashes of the .hash file
  Existing,     \* what may be in the download directory at first
  HashFiles,    \* what the .hash file may say of the archive, see HashKind
  Scm,          \* is the upstream method one of bzr cvs git hg svn?
  Enabled,      \* which of the three sites are configured
  PrimaryOnly,  \* BR2_PRIMARY_SITE_ONLY
  Reliable,     \* sites that always deliver an accepted file
  Faults,       \* commands that may fail
  MayKill       \* may make be killed?

Site == {"primary", "upstream", "backup"}
\* No .hash file; the archive in it; not in it; with a hash of no known type.
HashKind == {"missing", "listed", "unlisted", "unknown"}

ASSUME ContentAssumption == {"absent", "none", "empty", "partial"} \cap Content = {}
ASSUME AcceptedAssumption == Accepted \subseteq Content
ASSUME ExistingAssumption == Existing \subseteq Content \cup {"absent"}
ASSUME HashAssumption == HashFiles \subseteq HashKind
ASSUME SiteAssumption == Enabled \subseteq Site /\ Reliable \subseteq Enabled
ASSUME FlagAssumption == Scm \in BOOLEAN /\ PrimaryOnly \in BOOLEAN /\ MayKill \in BOOLEAN

VARIABLES
  hash,    \* what the .hash file says of the archive
  out,     \* the archive in the download directory, or "absent"
  pc,      \* next command of each build
  site,    \* the site each build is at, "end" past the last one
  tmpd,    \* tmpf in the build's temporary directory, "none" without one
  tmpo,    \* tmp_output in the download directory, "none" without one
  stamp,   \* does the build have .stamp_downloaded?
  litter   \* kinds of temporaries nobody will remove any more

vars == <<hash, out, pc, site, tmpd, tmpo, stamp, litter>>

Labels == {"idle", "exists", "check", "rm", "mktempd", "backend", "checkTmp",
           "mktempo", "chmod", "cat", "catEnd", "rmTmpd", "mv", "ok",
           "extract", "failed", "extracted"}

TypeOK ==
  /\ hash \in HashFiles
  /\ out \in Content \cup {"absent", "partial"}
  /\ pc \in [Build -> Labels]
  /\ site \in [Build -> Site \cup {"end"}]
  /\ tmpd \in [Build -> Content \cup {"none", "empty"}]
  /\ tmpo \in [Build -> Content \cup {"none", "empty", "partial"}]
  /\ stamp \in [Build -> BOOLEAN]
  /\ litter \subseteq {"tmpd", "tmpo"}

Init ==
  /\ hash \in HashFiles
  /\ out \in Existing
  /\ pc = [b \in Build |-> "idle"]
  /\ site = [b \in Build |-> "end"]
  /\ tmpd = [b \in Build |-> "none"]
  /\ tmpo = [b \in Build |-> "none"]
  /\ stamp = [b \in Build |-> FALSE]
  /\ litter = {}

-----------------------------------------------------------------------------
(* DOWNLOAD_INNER: the sites in the order they are tried. *)

SitesNoBackup == IF PrimaryOnly THEN Enabled \cap {"primary"} ELSE Enabled \ {"backup"}

Sites == IF PrimaryOnly THEN Enabled \cap {"primary"} ELSE Enabled

\* The first of the sites S in the order of the recipe.
First(S) == CASE "primary" \in S  -> "primary"
              [] "primary" \notin S /\ "upstream" \in S -> "upstream"
              [] S \cap {"primary", "upstream"} = {} /\ "backup" \in S -> "backup"
              [] OTHER -> "end"

Later(s) == CASE s = "primary"  -> {"upstream", "backup"}
              [] s = "upstream" -> {"backup"}
              [] OTHER          -> {}

Goto(b, l) == pc' = [pc EXCEPT ![b] = l]

TrySite(b, s) == /\ site' = [site EXCEPT ![b] = s]
                 /\ Goto(b, IF s = "end" THEN "failed" ELSE "exists")

FailRetries(b) == TrySite(b, site[b])

\* The attempt failed: the next site, or the end of the recipe.
Fail(b) == TrySite(b, First(Sites \cap Later(site[b])))

\* dl-wrapper dies without its error handling (set -e): whatever temporaries
\* the build has stay behind.
Abandon(b) ==
  /\ litter' = litter \cup (IF tmpd[b] = "none" THEN {} ELSE {"tmpd"})
                      \cup (IF tmpo[b] = "none" THEN {} ELSE {"tmpo"})
  /\ tmpd' = [tmpd EXCEPT ![b] = "none"]
  /\ tmpo' = [tmpo EXCEPT ![b] = "none"]

\* make runs: the download step if it has no stamp yet, then the extraction.
Start(b) ==
  /\ pc[b] \in {"idle", "failed"}
  /\ IF stamp[b] THEN Goto(b, "extract") /\ UNCHANGED site
                 ELSE TrySite(b, First(Sites))
  /\ UNCHANGED <<out, tmpd, tmpo, stamp, litter>>

-----------------------------------------------------------------------------
(* check-hash *)

CheckHashLenient(s, c) == 0

\* The exit code of check-hash for contents c.  SCM downloads pass no hash file,
\* and are exported in BR_NO_CHECK_HASH_FOR for the other sites; a file that
\* has vanished hashes to the empty string.
CheckHash(s, c) ==
  CASE Scm /\ s = "upstream"              -> 0
    [] hash = "missing"                   -> 0
    [] hash = "listed"                    -> IF c \in Accepted THEN 0 ELSE 2
    [] hash = "unlisted"                  -> IF Scm THEN 0 ELSE 3
    [] hash = "unknown"                   -> 4

-----------------------------------------------------------------------------
(* dl-wrapper *)

TestOutputForces(b) ==
  /\ pc[b] = "exists"
  /\ Goto(b, IF out = "absent" THEN "mktempd" ELSE "rm")
  /\ UNCHANGED <<out, site, tmpd, tmpo, stamp, litter>>

\* if [ -e "${output}" ]
TestOutput(b) ==
  /\ pc[b] = "exists"
  /\ Goto(b, IF out = "absent" THEN "mktempd" ELSE "check")
  /\ UNCHANGED <<out, site, tmpd, tmpo, stamp, litter>>

CheckOutputReplaces(b) ==
  /\ pc[b] = "check"
  /\ Goto(b, IF CheckHash(site[b], out) = 0 THEN "ok" ELSE "rm")
  /\ UNCHANGED <<out, site, tmpd, tmpo, stamp, litter>>

\* The verdict on the existing file: keep it, replace it, or stop.
CheckOutput(b) ==
  /\ pc[b] = "check"
  /\ LET v == CheckHash(site[b], out) IN
       \/ v = 0 /\ Goto(b, "ok") /\ UNCHANGED site
       \/ v = 2 /\ Goto(b, "rm") /\ UNCHANGED site
       \/ v \notin {0, 2} /\ Fail(b)
  /\ UNCHANGED <<out, tmpd, tmpo, stamp, litter>>

\* rm -f "${output}": whatever is there by now.
RemoveOutput(b) ==
  /\ pc[b] = "rm"
  /\ out' = "absent"
  /\ Goto(b, "mktempd")
  /\ UNCHANGED <<site, tmpd, tmpo, stamp, litter>>

\* tmpd="$(mktemp -d ...)"
MakeTmpd(b) ==
  /\ pc[b] = "mktempd"
  /\ \/ /\ tmpd' = [tmpd EXCEPT ![b] = "empty"]
        /\ Goto(b, "backend")
        /\ UNCHANGED site
     \/ /\ "mktemp" \in Faults
        /\ Fail(b)
        /\ UNCHANGED tmpd
  /\ UNCHANGED <<out, tmpo, stamp, litter>>

\* The backend fails, or reports success with some file.
RunBackend(b) ==
  /\ pc[b] = "backend"
  /\ \/ \E c \in IF site[b] \in Reliable THEN Accepted ELSE Content :
          /\ tmpd' = [tmpd EXCEPT ![b] = c]
          /\ Goto(b, "checkTmp")
          /\ UNCHANGED site
     \/ /\ site[b] \notin Reliable
        /\ tmpd' = [tmpd EXCEPT ![b] = "none"]
        /\ Fail(b)
  /\ UNCHANGED <<out, tmpo, stamp, litter>>

CheckTmpfKeepsDir(b) ==
  /\ pc[b] = "checkTmp"
  /\ \/ /\ CheckHash(site[b], tmpd[b]) = 0
        /\ Goto(b, "mktempo")
        /\ UNCHANGED <<site, tmpd, tmpo, litter>>
     \/ /\ CheckHash(site[b], tmpd[b]) # 0
        /\ Abandon(b)
        /\ Fail(b)
  /\ UNCHANGED <<out, stamp>>

\* The downloaded file must pass the check whatever the exit code.
CheckTmpf(b) ==
  /\ pc[b] = "checkTmp"
  /\ \/ /\ CheckHash(site[b], tmpd[b]) = 0
        /\ Goto(b, "mktempo")
        /\ UNCHANGED <<site, tmpd>>
     \/ /\ CheckHash(site[b], tmpd[b]) # 0
        /\ tmpd' = [tmpd EXCEPT ![b] = "none"]
        /\ Fail(b)
  /\ UNCHANGED <<out, tmpo, stamp, litter>>

MakeTmpOutputNoCopy(b) ==
  /\ pc[b] = "mktempo"
  /\ tmpo' = [tmpo EXCEPT ![b] = "empty"]
  /\ Goto(b, "rmTmpd")
  /\ UNCHANGED <<out, site, tmpd, stamp, litter>>

\* tmp_output="$(mktemp "${output}.XXXXXX")", which set -e makes fatal.
MakeTmpOutput(b) ==
  /\ pc[b] = "mktempo"
  /\ \/ /\ tmpo' = [tmpo EXCEPT ![b] = "empty"]
        /\ Goto(b, "chmod")
        /\ UNCHANGED <<site, tmpd, litter>>
     \/ /\ "mktemp" \in Faults
        /\ Abandon(b)
        /\ Fail(b)
  /\ UNCHANGED <<out, stamp>>

Chmod(b) ==
  /\ pc[b] = "chmod"
  /\ \/ /\ Goto(b, "cat")
        /\ UNCHANGED <<site, tmpd, tmpo, litter>>
     \/ /\ "chmod" \in Faults
        /\ Abandon(b)
        /\ Fail(b)
  /\ UNCHANGED <<out, stamp>>

\* cat "${tmpf}" >>"${tmp_output}" takes a while ...
CopyStart(b) ==
  /\ pc[b] = "cat"
  /\ tmpo' = [tmpo EXCEPT ![b] = "partial"]
  /\ Goto(b, "catEnd")
  /\ UNCHANGED <<out, site, tmpd, stamp, litter>>

CopyEndUnchecked(b) ==
  /\ pc[b] = "catEnd"
  /\ \/ tmpo' = [tmpo EXCEPT ![b] = tmpd[b]]
     \/ "cat" \in Faults /\ UNCHANGED tmpo
  /\ Goto(b, "rmTmpd")
  /\ UNCHANGED <<out, site, tmpd, stamp, litter>>

\* ... and ends, or fails on a full disk.
CopyEnd(b) ==
  /\ pc[b] = "catEnd"
  /\ \/ /\ tmpo' = [tmpo EXCEPT ![b] = tmpd[b]]
        /\ Goto(b, "rmTmpd")
        /\ UNCHANGED <<site, tmpd>>
     \/ /\ "cat" \in Faults
        /\ tmpd' = [tmpd EXCEPT ![b] = "none"]
        /\ tmpo' = [tmpo EXCEPT ![b] = "none"]
        /\ Fail(b)
  /\ UNCHANGED <<out, stamp, litter>>

RemoveTmpd(b) ==
  /\ pc[b] = "rmTmpd"
  /\ tmpd' = [tmpd EXCEPT ![b] = "none"]
  /\ Goto(b, "mv")
  /\ UNCHANGED <<out, site, tmpo, stamp, litter>>

\* mv -f "${tmp_output}" "${output}" is one rename().
Rename(b) ==
  /\ pc[b] = "mv"
  /\ tmpo' = [tmpo EXCEPT ![b] = "none"]
  /\ \/ out' = tmpo[b] /\ Goto(b, "ok") /\ UNCHANGED site
     \/ "mv" \in Faults /\ Fail(b) /\ UNCHANGED out
  /\ UNCHANGED <<tmpd, stamp, litter>>

-----------------------------------------------------------------------------
(* pkg-generic.mk *)

\* The download recipe ends with touch .stamp_downloaded.
TouchDownloaded(b) ==
  /\ pc[b] = "ok"
  /\ stamp' = [stamp EXCEPT ![b] = TRUE]
  /\ Goto(b, "extract")
  /\ UNCHANGED <<out, site, tmpd, tmpo, litter>>

\* The extraction reads the archive; one that is not the right one may fail.
Extract(b) ==
  /\ pc[b] = "extract"
  /\ \/ out \in Content /\ Goto(b, "extracted")
     \/ out \notin Accepted /\ Goto(b, "failed")
  /\ UNCHANGED <<out, site, tmpd, tmpo, stamp, litter>>

\* make and its children are killed.
Kill(b) ==
  /\ MayKill
  /\ pc[b] \notin {"idle", "failed", "extracted"}
  /\ Abandon(b)
  /\ Goto(b, "failed")
  /\ UNCHANGED <<out, site, stamp>>

Step(b) ==
  \/ TestOutput(b) \/ CheckOutput(b) \/ RemoveOutput(b) \/ MakeTmpd(b) \/ RunBackend(b)
  \/ CheckTmpf(b) \/ MakeTmpOutput(b) \/ Chmod(b) \/ CopyStart(b) \/ CopyEnd(b)
  \/ RemoveTmpd(b) \/ Rename(b) \/ TouchDownloaded(b) \/ Extract(b)

Next == (\E b \in Build : Start(b) \/ Step(b) \/ Kill(b)) /\ UNCHANGED hash

\* A build that was started runs on; nobody has to start one again.
Spec == Init /\ [][Next]_vars /\ \A b \in Build : WF_vars(Step(b) /\ UNCHANGED hash)

-----------------------------------------------------------------------------
(* Properties *)

\* Whatever fails or is killed in the middle of a copy, the archive other
\* builds see under its final name is complete (dl-wrapper's final rename).
OutputComplete == out # "partial"

\* What appears in the download directory under the final name has been checked
\* against the hashes, in whichever order the builds' commands interleave.
OnlyVerified == [][out' # out => out' \in Accepted \cup {"absent"}]_vars

\* When a build has its .stamp_downloaded the archive is there and right, and
\* stays so: no other build's wrapper takes it away.
\* dl-wrapper:154 "Ensures that concurrent downloads do not conflict".
StampMeansArchive == \A b \in Build : stamp[b] => out \in Accepted

\* dl-wrapper:16 "If anything goes wrong, we just remove all the temporaries
\* created so far": neither a failed attempt nor a finished one leaves a file
\* or directory behind that no build will remove.
NoTemporariesLeft ==
  /\ litter = {}
  /\ \A b \in Build : pc[b] \in {"idle", "exists", "ok", "extract", "failed", "extracted"}
                        => tmpd[b] = "none" /\ tmpo[b] = "none"

\* dl-wrapper:57 "Do not remove the file, otherwise it might get re-downloaded
\* from a later location": a file the .hash file does not list is neither
\* removed nor replaced, by no site and no build.
UnlistedUntouched == [][hash = "unlisted" => UNCHANGED out]_vars

\* With one reliable site left in the list, however the others fail or lie and
\* whatever other wrappers do to the file in between, a build that was started
\* ends with its .stamp_downloaded and with the right archive under the final
\* name, for good.  (An SCM upstream is not checked, dl-wrapper and check-hash
\* believe it: the property is for archives the .hash file vouches for.)
ReliableSiteSuffices ==
  \A b \in Build : pc[b] = "exists" ~> [](stamp[b] /\ out \in Accepted)

\* DOWNLOAD_INNER comes to an end whatever the sites do.
DownloadEnds == \A b \in Build : pc[b] = "exists" ~> pc[b] \in {"failed", "extracted"}
=============================================================================
