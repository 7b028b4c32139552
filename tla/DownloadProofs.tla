--------------------------- MODULE DownloadProofs ---------------------------
(***************************************************************************)
(* Proofs about Download, for any number of builds and any contents.       *)
(***************************************************************************)
EXTENDS Download, TLAPS

\* A build that has a downloaded or a copied file has all of it.
CopyInv ==
  \A b \in Build :
    /\ pc[b] \in {"checkTmp", "mktempo", "chmod", "cat", "catEnd"} => tmpd[b] \in Content
    /\ pc[b] \in {"rmTmpd", "mv"} => tmpo[b] \in Content

\* The sites of the recipe are sites.
LEMMA FirstType == \A S : First(S) \in Site \cup {"end"}
  BY DEF First, Site

\* Every step keeps the types and only moves complete files.
LEMMA CopyStep == TypeOK /\ CopyInv /\ OutputComplete /\ [Next]_vars
                    => (TypeOK /\ CopyInv /\ OutputComplete)'
<1> SUFFICES ASSUME TypeOK, CopyInv, OutputComplete, NEW b \in Build, Start(b) \/ Step(b) \/ Kill(b),
                    UNCHANGED hash
             PROVE (TypeOK /\ CopyInv /\ OutputComplete)'
  BY DEF Next, vars, TypeOK, CopyInv, OutputComplete, Labels
<1> USE DEF TypeOK, CopyInv, OutputComplete, Labels
<1>1. CASE Start(b)
  BY <1>1, FirstType, ContentAssumption, AcceptedAssumption DEF Start, Goto, TrySite
<1>2. CASE TestOutput(b)
  BY <1>2, FirstType, ContentAssumption, AcceptedAssumption DEF TestOutput, Goto
<1>3. CASE CheckOutput(b)
  BY <1>3, FirstType, ContentAssumption, AcceptedAssumption DEF CheckOutput, Goto, Fail, TrySite
<1>4. CASE RemoveOutput(b)
  BY <1>4, FirstType, ContentAssumption, AcceptedAssumption DEF RemoveOutput, Goto
<1>5. CASE MakeTmpd(b)
  BY <1>5, FirstType, ContentAssumption, AcceptedAssumption DEF MakeTmpd, Goto, Fail, TrySite
<1>6. CASE RunBackend(b)
  BY <1>6, FirstType, ContentAssumption, AcceptedAssumption DEF RunBackend, Goto, Fail, TrySite
<1>7. CASE CheckTmpf(b)
  BY <1>7, FirstType, ContentAssumption, AcceptedAssumption DEF CheckTmpf, Goto, Fail, TrySite
<1>8. CASE MakeTmpOutput(b)
  <2>0. pc[b] = "mktempo" /\ UNCHANGED <<out, stamp>>
    BY <1>8 DEF MakeTmpOutput
  <2>1. CASE /\ tmpo' = [tmpo EXCEPT ![b] = "empty"] /\ Goto(b, "chmod")
             /\ UNCHANGED <<site, tmpd, litter>>
    BY <2>0, <2>1 DEF Goto
  <2>2. CASE Abandon(b) /\ Fail(b)
    BY <2>0, <2>2, FirstType DEF Abandon, Fail, TrySite, Goto
  <2> QED
    BY <1>8, <2>1, <2>2 DEF MakeTmpOutput
<1>9. CASE Chmod(b)
  <2>0. pc[b] = "chmod" /\ UNCHANGED <<out, stamp>>
    BY <1>9 DEF Chmod
  <2>1. CASE /\ tmpo' = tmpo /\ Goto(b, "cat")
             /\ UNCHANGED <<site, tmpd, litter>>
    BY <2>0, <2>1 DEF Goto
  <2>2. CASE Abandon(b) /\ Fail(b)
    BY <2>0, <2>2, FirstType DEF Abandon, Fail, TrySite, Goto
  <2> QED
    BY <1>9, <2>1, <2>2 DEF Chmod
<1>10. CASE CopyStart(b)
  BY <1>10, FirstType, ContentAssumption, AcceptedAssumption DEF CopyStart, Goto
<1>11. CASE CopyEnd(b)
  BY <1>11, FirstType, ContentAssumption, AcceptedAssumption DEF CopyEnd, Goto, Fail, TrySite
<1>12. CASE RemoveTmpd(b)
  BY <1>12, FirstType, ContentAssumption, AcceptedAssumption DEF RemoveTmpd, Goto
<1>13. CASE Rename(b)
  BY <1>13, FirstType, ContentAssumption, AcceptedAssumption DEF Rename, Goto, Fail, TrySite
<1>14. CASE TouchDownloaded(b)
  BY <1>14, FirstType, ContentAssumption, AcceptedAssumption DEF TouchDownloaded, Goto
<1>15. CASE Extract(b)
  BY <1>15, FirstType, ContentAssumption, AcceptedAssumption DEF Extract, Goto
<1>16. CASE Kill(b)
  BY <1>16, FirstType, ContentAssumption, AcceptedAssumption DEF Kill, Goto, Abandon
<1> QED
  BY <1>1, <1>2, <1>3, <1>4, <1>5, <1>6, <1>7, <1>8, <1>9, <1>10, <1>11, <1>12, <1>13, <1>14, <1>15, <1>16 DEF Step

\* The variables keep their types, and no interleaving, failure or kill ever
\* shows another build an incomplete archive.
THEOREM Complete == Spec => [](TypeOK /\ OutputComplete)
<1>1. Init => TypeOK /\ CopyInv /\ OutputComplete
  BY ExistingAssumption, ContentAssumption DEF Init, TypeOK, CopyInv, OutputComplete, Labels
<1> QED
  BY <1>1, CopyStep, PTL DEF Spec

\* Type correctness on its own, for every fault and kill.
THEOREM DownloadTypes == Spec => []TypeOK
  BY Complete, PTL

-----------------------------------------------------------------------------
(* Archives are checked before they are installed *)

\* There is a .hash file and every site is checked against it.
Hashed == "missing" \notin HashFiles /\ ~ Scm

\* What a build is about to install has passed the check.
VerifiedInv ==
  \A b \in Build :
    /\ pc[b] \in {"mktempo", "chmod", "cat", "catEnd"} => tmpd[b] \in Accepted
    /\ pc[b] \in {"rmTmpd", "mv"} => tmpo[b] \in Accepted

\* What a verdict of check-hash says of a file.
LEMMA Verdict ==
  ASSUME Hashed, TypeOK, NEW s, NEW c
  PROVE /\ CheckHash(s, c) = 0 => c \in Accepted
        /\ CheckHash(s, c) = 2 => c \notin Accepted
  BY HashAssumption DEF Hashed, HashKind, TypeOK, CheckHash

\* Every step keeps what is being installed verified.
LEMMA VerifiedStep == Hashed /\ TypeOK /\ VerifiedInv /\ [Next]_vars => VerifiedInv'
<1> SUFFICES ASSUME Hashed, TypeOK, VerifiedInv, NEW b \in Build, Start(b) \/ Step(b) \/ Kill(b),
                    UNCHANGED hash
             PROVE VerifiedInv'
  BY DEF Next, vars, TypeOK, VerifiedInv
<1> USE DEF TypeOK, VerifiedInv
<1>1. CASE Start(b)
  BY <1>1 DEF Start, Goto, TrySite
<1>2. CASE TestOutput(b)
  BY <1>2 DEF TestOutput, Goto
<1>3. CASE CheckOutput(b)
  BY <1>3 DEF CheckOutput, Goto, Fail, TrySite
<1>4. CASE RemoveOutput(b)
  BY <1>4 DEF RemoveOutput, Goto
<1>5. CASE MakeTmpd(b)
  BY <1>5 DEF MakeTmpd, Goto, Fail, TrySite
<1>6. CASE RunBackend(b)
  BY <1>6 DEF RunBackend, Goto, Fail, TrySite
<1>7. CASE CheckTmpf(b)
  BY <1>7, Verdict DEF CheckTmpf, Goto, Fail, TrySite
<1>8. CASE MakeTmpOutput(b)
  BY <1>8 DEF MakeTmpOutput, Goto, Fail, TrySite, Abandon
<1>9. CASE Chmod(b)
  BY <1>9 DEF Chmod, Goto, Fail, TrySite, Abandon
<1>10. CASE CopyStart(b)
  BY <1>10 DEF CopyStart, Goto
<1>11. CASE CopyEnd(b)
  BY <1>11 DEF CopyEnd, Goto, Fail, TrySite
<1>12. CASE RemoveTmpd(b)
  BY <1>12 DEF RemoveTmpd, Goto
<1>13. CASE Rename(b)
  BY <1>13 DEF Rename, Goto, Fail, TrySite
<1>14. CASE TouchDownloaded(b)
  BY <1>14 DEF TouchDownloaded, Goto
<1>15. CASE Extract(b)
  BY <1>15 DEF Extract, Goto
<1>16. CASE Kill(b)
  BY <1>16 DEF Kill, Goto, Abandon
<1> QED
  BY <1>1, <1>2, <1>3, <1>4, <1>5, <1>6, <1>7, <1>8, <1>9, <1>10, <1>11, <1>12, <1>13, <1>14, <1>15, <1>16 DEF Step

\* Nothing but a verified archive ever appears under the final name.
THEOREM Verified == ASSUME Hashed PROVE Spec => OnlyVerified
<1>1. Init => VerifiedInv
  BY DEF Init, VerifiedInv
<1>2. TypeOK /\ VerifiedInv /\ [Next]_vars => VerifiedInv'
  BY VerifiedStep
<1>3. ASSUME TypeOK, VerifiedInv, [Next]_vars
      PROVE [out' # out => out' \in Accepted \cup {"absent"}]_vars
  <2>1. ASSUME NEW b \in Build, Start(b) \/ Step(b) \/ Kill(b), out' # out
        PROVE RemoveOutput(b) \/ Rename(b)
    BY <2>1 DEF Start, Step, Kill, TestOutput, CheckOutput, MakeTmpd, RunBackend, CheckTmpf,
       MakeTmpOutput, Chmod, CopyStart, CopyEnd, RemoveTmpd, TouchDownloaded, Extract
  <2>2. ASSUME NEW b \in Build, RemoveOutput(b) \/ Rename(b), out' # out
        PROVE out' \in Accepted \cup {"absent"}
    BY <1>3, <2>2 DEF RemoveOutput, Rename, VerifiedInv
  <2> QED
    BY <1>3, <2>1, <2>2 DEF Next
<1> QED
  BY <1>1, <1>2, <1>3, DownloadTypes, PTL DEF Spec, OnlyVerified

-----------------------------------------------------------------------------
(* A stamp means an archive *)

\* As long as the download directory holds no archive that fails its hashes,
\* no build ever has a reason to remove one.
ArchiveInv ==
  /\ out \in Accepted \cup {"absent"}
  /\ \A b \in Build :
       /\ pc[b] # "rm"
       /\ pc[b] \in {"check", "ok"} \/ stamp[b] => out \in Accepted

\* No step takes a verified archive away.
LEMMA ArchiveStep == Hashed /\ TypeOK /\ VerifiedInv /\ ArchiveInv /\ [Next]_vars => ArchiveInv'
<1> SUFFICES ASSUME Hashed, TypeOK, VerifiedInv, ArchiveInv, NEW b \in Build, Start(b) \/ Step(b) \/ Kill(b),
                    UNCHANGED hash
             PROVE ArchiveInv'
  BY DEF Next, vars, TypeOK, ArchiveInv
<1> USE DEF TypeOK, ArchiveInv
<1>1. CASE Start(b)
  BY <1>1 DEF Start, Goto, TrySite
<1>2. CASE TestOutput(b)
  BY <1>2 DEF TestOutput, Goto
<1>3. CASE CheckOutput(b)
  BY <1>3, Verdict DEF CheckOutput, Goto, Fail, TrySite
<1>4. CASE RemoveOutput(b)
  BY <1>4 DEF RemoveOutput, Goto
<1>5. CASE MakeTmpd(b)
  BY <1>5 DEF MakeTmpd, Goto, Fail, TrySite
<1>6. CASE RunBackend(b)
  BY <1>6 DEF RunBackend, Goto, Fail, TrySite
<1>7. CASE CheckTmpf(b)
  BY <1>7 DEF CheckTmpf, Goto, Fail, TrySite
<1>8. CASE MakeTmpOutput(b)
  BY <1>8 DEF MakeTmpOutput, Goto, Fail, TrySite, Abandon
<1>9. CASE Chmod(b)
  BY <1>9 DEF Chmod, Goto, Fail, TrySite, Abandon
<1>10. CASE CopyStart(b)
  BY <1>10 DEF CopyStart, Goto
<1>11. CASE CopyEnd(b)
  BY <1>11 DEF CopyEnd, Goto, Fail, TrySite
<1>12. CASE RemoveTmpd(b)
  BY <1>12 DEF RemoveTmpd, Goto
<1>13. CASE Rename(b)
  BY <1>13 DEF Rename, Goto, Fail, TrySite, VerifiedInv
<1>14. CASE TouchDownloaded(b)
  BY <1>14 DEF TouchDownloaded, Goto
<1>15. CASE Extract(b)
  BY <1>15 DEF Extract, Goto
<1>16. CASE Kill(b)
  BY <1>16 DEF Kill, Goto, Abandon
<1> QED
  BY <1>1, <1>2, <1>3, <1>4, <1>5, <1>6, <1>7, <1>8, <1>9, <1>10, <1>11, <1>12, <1>13, <1>14, <1>15, <1>16 DEF Step

\* Once a build has its .stamp_downloaded the archive stays there, whatever the
\* other builds do, provided no wrong archive was there to begin with.
THEOREM Stamped ==
  ASSUME Hashed, Existing \subseteq Accepted \cup {"absent"}
  PROVE Spec => []StampMeansArchive
<1>1. Init => VerifiedInv /\ ArchiveInv
  BY DEF Init, VerifiedInv, ArchiveInv
<1>2. TypeOK /\ VerifiedInv /\ ArchiveInv /\ [Next]_vars => (VerifiedInv /\ ArchiveInv)'
  BY VerifiedStep, ArchiveStep
<1>3. ArchiveInv => StampMeansArchive
  BY DEF ArchiveInv, StampMeansArchive
<1> QED
  BY <1>1, <1>2, <1>3, DownloadTypes, PTL DEF Spec

-----------------------------------------------------------------------------
(* An archive that is not listed *)

\* No build gets as far as to remove or to install it.
UnlistedInv ==
  hash = "unlisted" =>
    \A b \in Build : pc[b] \notin {"rm", "mktempo", "chmod", "cat", "catEnd", "rmTmpd", "mv"}

\* Every verdict on an archive that is not listed stops the attempt.
LEMMA UnlistedStep == ~ Scm /\ TypeOK /\ UnlistedInv /\ [Next]_vars => UnlistedInv'
<1> SUFFICES ASSUME ~ Scm, TypeOK, UnlistedInv, NEW b \in Build, Start(b) \/ Step(b) \/ Kill(b),
                    UNCHANGED hash, hash = "unlisted"
             PROVE UnlistedInv'
  BY DEF Next, vars, TypeOK, UnlistedInv
<1>1. \A s, c : CheckHash(s, c) = 3
  BY DEF CheckHash
<1>2. pc' = [pc EXCEPT ![b] = pc'[b]]
         /\ pc'[b] \notin {"rm", "mktempo", "chmod", "cat", "catEnd", "rmTmpd", "mv"}
  BY <1>1 DEF TypeOK, UnlistedInv, Start, Step, Kill, TestOutput, CheckOutput, RemoveOutput,
     MakeTmpd, RunBackend, CheckTmpf, MakeTmpOutput, Chmod, CopyStart, CopyEnd, RemoveTmpd,
     Rename, TouchDownloaded, Extract, Goto, Fail, TrySite
<1> QED
  BY <1>2 DEF TypeOK, UnlistedInv

\* No build removes or replaces an archive that the .hash file does not list, when
\* every site is checked.
THEOREM Unlisted == ASSUME ~ Scm PROVE Spec => UnlistedUntouched
<1>1. Init => UnlistedInv
  BY DEF Init, UnlistedInv
<1>2. TypeOK /\ UnlistedInv /\ [Next]_vars => UnlistedInv'
  BY UnlistedStep
<1>3. TypeOK /\ UnlistedInv /\ [Next]_vars => [hash = "unlisted" => UNCHANGED out]_vars
  BY DEF UnlistedInv, Next, Start, Step, Kill, TestOutput, CheckOutput, RemoveOutput,
     MakeTmpd, RunBackend, CheckTmpf, MakeTmpOutput, Chmod, CopyStart, CopyEnd, RemoveTmpd,
     Rename, TouchDownloaded, Extract
<1> QED
  BY <1>1, <1>2, <1>3, DownloadTypes, PTL DEF Spec, UnlistedUntouched

-----------------------------------------------------------------------------
(* Nothing is left behind *)

\* No kill, and mktemp and chmod succeed: the ways out that dl-wrapper handles.
Handled == ~ MayKill /\ "mktemp" \notin Faults /\ "chmod" \notin Faults

\* Which temporaries a build has at each command.
CleanInv ==
  /\ litter = {}
  /\ \A b \in Build :
       /\ pc[b] \notin {"backend", "checkTmp", "mktempo", "chmod", "cat", "catEnd", "rmTmpd"}
            => tmpd[b] = "none"
       /\ pc[b] \notin {"chmod", "cat", "catEnd", "rmTmpd", "mv"} => tmpo[b] = "none"

\* Every step removes the temporaries it no longer needs.
LEMMA CleanStep == Handled /\ TypeOK /\ CleanInv /\ [Next]_vars => CleanInv'
<1> SUFFICES ASSUME Handled, TypeOK, CleanInv, NEW b \in Build, Start(b) \/ Step(b) \/ Kill(b),
                    UNCHANGED hash
             PROVE CleanInv'
  BY DEF Next, vars, TypeOK, CleanInv, Handled
<1> USE DEF TypeOK, CleanInv, Handled
<1>1. CASE Start(b)
  BY <1>1 DEF Start, Goto, TrySite
<1>2. CASE TestOutput(b)
  BY <1>2 DEF TestOutput, Goto
<1>3. CASE CheckOutput(b)
  BY <1>3 DEF CheckOutput, Goto, Fail, TrySite
<1>4. CASE RemoveOutput(b)
  BY <1>4 DEF RemoveOutput, Goto
<1>5. CASE MakeTmpd(b)
  BY <1>5 DEF MakeTmpd, Goto, Fail, TrySite
<1>6. CASE RunBackend(b)
  BY <1>6 DEF RunBackend, Goto, Fail, TrySite
<1>7. CASE CheckTmpf(b)
  BY <1>7 DEF CheckTmpf, Goto, Fail, TrySite
<1>8. CASE MakeTmpOutput(b)
  BY <1>8 DEF MakeTmpOutput, Goto, Fail, TrySite, Abandon
<1>9. CASE Chmod(b)
  BY <1>9 DEF Chmod, Goto, Fail, TrySite, Abandon
<1>10. CASE CopyStart(b)
  BY <1>10 DEF CopyStart, Goto
<1>11. CASE CopyEnd(b)
  BY <1>11 DEF CopyEnd, Goto, Fail, TrySite
<1>12. CASE RemoveTmpd(b)
  BY <1>12 DEF RemoveTmpd, Goto
<1>13. CASE Rename(b)
  BY <1>13 DEF Rename, Goto, Fail, TrySite
<1>14. CASE TouchDownloaded(b)
  BY <1>14 DEF TouchDownloaded, Goto
<1>15. CASE Extract(b)
  BY <1>15 DEF Extract, Goto
<1>16. CASE Kill(b)
  BY <1>16 DEF Kill, Goto, Abandon
<1> QED
  BY <1>1, <1>2, <1>3, <1>4, <1>5, <1>6, <1>7, <1>8, <1>9, <1>10, <1>11, <1>12, <1>13, <1>14, <1>15, <1>16 DEF Step

\* Whatever the backend, the hashes, the copy or the rename do, an attempt ends
\* without temporaries.
THEOREM Clean == ASSUME Handled PROVE Spec => []NoTemporariesLeft
<1>1. Init => CleanInv
  BY DEF Init, CleanInv
<1>2. TypeOK /\ CleanInv /\ [Next]_vars => CleanInv'
  BY CleanStep
<1>3. CleanInv => NoTemporariesLeft
  BY DEF CleanInv, NoTemporariesLeft
<1> QED
  BY <1>1, <1>2, <1>3, DownloadTypes, PTL DEF Spec
=============================================================================
