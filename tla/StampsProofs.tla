---------------------------- MODULE StampsProofs ----------------------------
(* Proofs about PkgStamps, for any number of patches and of edits.          *)
EXTENDS PkgStamps, TLAPS

\* What the proofs about the contents of the tree ask of the tools: a patch is
\* decompressed, and rm -Rf of the build directory completes.
Reliable == Uncompressed \subseteq {TRUE} /\ Removed \subseteq {TRUE}

\* Which stamps there can be, and where make is.
MakeInv ==
  /\ stamps \subseteq Steps
  /\ \A s \in Step : s \notin stamps => newer[s] = {}
  /\ request = "none" => rm = {} /\ step = "none"
  /\ rm # {} => step = "none"
  /\ step = "none" => phase = "commands"
  /\ step # "none" =>
       /\ step \in ToDo
       /\ \A t \in Steps : Rank(t) < Rank(step) => ~ OutOfDate(t)

\* The commands of s are done: its stamp is touched, or about to be.
Holds(s) == s \in stamps \/ (step = s /\ phase = "touch")

\* The build directory: its stamps are removed only all together.
TreeInv ==
  /\ source # Part
  /\ rm \cap {"downloaded", "extracted", "patched"} = {}
  /\ "extracted" \in stamps => "downloaded" \in stamps \ newer["extracted"]
  /\ "patched" \in stamps => "extracted" \in stamps \ newer["patched"]
  /\ Holds("extracted") \/ Holds("rsynced") => tree # Part
  /\ Holds("patched") => applied = 1 .. Patches
  /\ step = "patched" => 1 .. next_patch - 1 \subseteq applied
  /\ ~ override /\ "extracted" \notin stamps => tree <= 1

\* What was built and installed, and is up to date or about to be touched.
Current(s) == UpToDate(s) \/ (step = s /\ phase = "touch")

ProductInv ==
  /\ Current("built") => product["built"] # Part
  /\ \A s \in Installs : Current(s) => product[s] = product["built"]

\* Made since the request to build again.
Remade(s) == Holds(s) /\ s \notin rm

WantedInv ==
  request \in {"rebuild", "reconfigure"} /\ ~ kept =>
    /\ override => wanted <= source
    /\ ~ override => wanted <= (IF Holds("extracted") THEN tree ELSE 1)
    /\ Remade("rsynced") => wanted <= tree
    /\ \A s \in Installs \cup {"built"} : Remade(s) => wanted <= product[s]

Base == TypeOK /\ MakeInv
IInv == Base /\ TreeInv /\ ProductInv /\ WantedInv

-----------------------------------------------------------------------------
(* Facts about the operators *)

LEMMA StepsAreSteps == Steps \subseteq Step
BY DEF Steps, Step, Installs

\* A prerequisite of what s rests on is something s rests on.
LEMMA AncestorsClosed ==
  ASSUME NEW s \in Steps, NEW t \in Ancestors(s) \cup {s}, NEW p \in Prerequisites(t)
  PROVE  p \in Ancestors(s)
BY DEF Ancestors, Steps, Installs, Prerequisites, Rank

\* Whatever s rests on is a prerequisite of something on the way to s.
LEMMA AncestorsLinked ==
  ASSUME NEW s \in Steps, NEW x \in Ancestors(s)
  PROVE  \E u \in Ancestors(s) \cup {s} : u # x /\ x \in Prerequisites(u)
<1>1. CASE x = "downloaded"
  <2>1. "extracted" \in Ancestors(s) \cup {s} /\ x \in Prerequisites("extracted")
    BY <1>1 DEF Ancestors, Steps, Installs, Prerequisites, Rank
  <2> QED BY <2>1, <1>1
<1>2. CASE x = "extracted"
  <2>1. "patched" \in Ancestors(s) \cup {s} /\ x \in Prerequisites("patched")
    BY <1>2 DEF Ancestors, Steps, Installs, Prerequisites, Rank
  <2> QED BY <2>1, <1>2
<1>3. CASE x = "patched"
  <2>1. "configured" \in Ancestors(s) \cup {s} /\ x \in Prerequisites("configured")
    BY <1>3 DEF Ancestors, Steps, Installs, Prerequisites, Rank
  <2> QED BY <2>1, <1>3
<1>4. CASE x = "configured"
  <2>1. "built" \in Ancestors(s) \cup {s} /\ x \in Prerequisites("built")
    BY <1>4 DEF Ancestors, Steps, Installs, Prerequisites, Rank
  <2> QED BY <2>1, <1>4
<1>5. CASE x = "built" \/ x = "staging_installed"
  <2>1. x \in Prerequisites(s) /\ s # x
    BY <1>5 DEF Ancestors, Steps, Installs, Prerequisites, Rank
  <2> QED BY <2>1
<1> QED BY <1>1, <1>2, <1>3, <1>4, <1>5 DEF Ancestors, Steps, Installs

LEMMA KeptFiles ==
  ASSUME UNCHANGED <<fixed, files>>
  PROVE  /\ Steps' = Steps /\ ToDo' = ToDo
         /\ \A s : OutOfDate(s)' <=> OutOfDate(s)
         /\ \A s : UpToDate(s)' <=> UpToDate(s)
BY DEF fixed, files, Steps, ToDo, OutOfDate, Prerequisites, UpToDate, Ancestors

\* A stamp that is removed makes nothing up to date.
LEMMA RemoveFacts ==
  ASSUME TypeOK, MakeInv, UNCHANGED fixed, NEW S, RemoveStamps(S), NEW s \in Step, UpToDate(s)'
  PROVE  UpToDate(s)
<1>1. Steps' = Steps /\ Ancestors(s)' = Ancestors(s)
  BY DEF fixed, Steps, Ancestors
<1>2. s \in Steps
  BY DEF UpToDate, OutOfDate, RemoveStamps, MakeInv
<1>3. Ancestors(s) \cup {s} \subseteq Step
  BY StepsAreSteps DEF Ancestors, Step, Installs
<1> SUFFICES ASSUME NEW t \in Ancestors(s) \cup {s} PROVE ~ OutOfDate(t)
  BY DEF UpToDate
<1>4. t \in stamps /\ t \notin S /\ \A p \in Prerequisites(t) : p \notin newer'[t]
  BY <1>1 DEF UpToDate, OutOfDate, RemoveStamps, Prerequisites, fixed
<1>5. newer'[t] = newer[t] \ S
  BY <1>3, <1>4 DEF RemoveStamps
<1>6. \A p \in Prerequisites(t) : p \notin S
  <2> SUFFICES ASSUME NEW p \in Prerequisites(t) PROVE p \notin S
    OBVIOUS
  <2>1. p \in Ancestors(s)'
    BY <1>1, <1>2, AncestorsClosed
  <2> QED BY <2>1 DEF UpToDate, OutOfDate, RemoveStamps
<1> QED BY <1>4, <1>5, <1>6 DEF OutOfDate

\* A stamp that is touched makes nothing up to date but itself.
LEMMA TouchFacts ==
  ASSUME TypeOK, MakeInv, UNCHANGED fixed, NEW x \in Steps, TouchStamp(x)
  PROVE  \A s \in Step : s # x /\ UpToDate(s)' => UpToDate(s)
<1>1. \A s : Ancestors(s)' = Ancestors(s) /\ Prerequisites(s)' = Prerequisites(s)
  BY DEF fixed, Steps, Ancestors, Prerequisites
<1>2. \A s \in Step : s # x /\ s \in stamps => newer'[s] = newer[s] \cup {x}
  BY DEF TouchStamp
<1>3. ASSUME NEW s \in Step, s # x, UpToDate(s)' PROVE UpToDate(s)
  <2>1. s \in Steps
    BY <1>3 DEF UpToDate, OutOfDate, TouchStamp, MakeInv
  <2>2. Ancestors(s) \cup {s} \subseteq Step
    BY StepsAreSteps DEF Ancestors, Step, Installs
  <2>3. \A t \in Ancestors(s) \cup {s} : ~ OutOfDate(t)'
    BY <1>1, <1>3 DEF UpToDate
  <2>4. x \notin Ancestors(s)
    <3> SUFFICES ASSUME x \in Ancestors(s) PROVE FALSE
      OBVIOUS
    <3>1. PICK u \in Ancestors(s) \cup {s} : u # x /\ x \in Prerequisites(u)
      BY <2>1, AncestorsLinked
    <3>2. u \in stamps /\ x \in newer'[u]
      BY <3>1, <2>2, <2>3, <1>2 DEF OutOfDate, TouchStamp
    <3> QED BY <3>1, <3>2, <2>3, <1>1 DEF OutOfDate
  <2>5. ASSUME NEW t \in Ancestors(s) \cup {s} PROVE ~ OutOfDate(t)
    <3>1. t # x /\ t \in Step /\ ~ OutOfDate(t)'
      BY <2>2, <2>3, <2>4, <1>3
    <3> QED BY <3>1, <1>1, <1>2 DEF OutOfDate, TouchStamp
  <2> QED BY <2>5 DEF UpToDate
<1> QED BY <1>3

-----------------------------------------------------------------------------
(* Types, and where make is *)

LEMMA BaseInit == Init => Base
<1> SUFFICES ASSUME Init PROVE Base
  OBVIOUS
<1>1. kept \in BOOLEAN
  BY DEF Init
<1>2. 1 \in 1 .. Patches + 1 /\ 1 \in Version /\ Part \in Version
  BY StampsAssumption DEF Version, Part
<1>3. TypeOK
  BY <1>1, <1>2 DEF Init, TypeOK, Step
<1>4. MakeInv
  BY DEF Init, MakeInv, Steps
<1> QED BY <1>3, <1>4 DEF Base

\* The steps that leave the stamps alone.
LEMMA BaseKept ==
  ASSUME Base, TypeOK', UNCHANGED <<fixed, files>>,
         request' = "none" => rm' = {} /\ step' = "none",
         rm' # {} => step' = "none",
         step' = "none" => phase' = "commands",
         step' # "none" => /\ step' \in ToDo
                           /\ \A t \in Steps : Rank(t) < Rank(step') => ~ OutOfDate(t)
  PROVE  Base'
<1>1. /\ Steps' = Steps /\ ToDo' = ToDo /\ stamps' = stamps /\ newer' = newer
      /\ \A s : OutOfDate(s)' <=> OutOfDate(s)
  BY KeptFiles DEF files
<1>2. MakeInv'
  BY <1>1 DEF Base, MakeInv, Rank
<1> QED BY <1>2 DEF Base

LEMMA AskBase == ASSUME Base, NEW r \in Request, Ask(r) PROVE Base'
<1>1. UNCHANGED <<fixed, files, step, phase>> /\ request' = r /\ request = "none" /\ request' # "none"
  BY DEF Ask, Request
<1>2. TypeOK'
  <2>1. rm' \subseteq Step
    BY DEF Ask, Request, CleanForReconfigure, CleanForRebuild, CleanForReinstall, Step, Installs
  <2>2. wanted' \in Version
    BY DEF Ask, Base, TypeOK
  <2> QED BY <1>1, <2>1, <2>2 DEF Ask, Base, TypeOK, fixed, files, results
<1> QED BY <1>1, <1>2, BaseKept DEF Base, MakeInv

LEMMA RemoveBase ==
  ASSUME Base, NEW S, RemoveStamps(S), UNCHANGED fixed, step = "none",
         UNCHANGED <<step, phase>>, request' = "none" => rm' = {},
         request' \in Request \cup {"none"}, rm' \subseteq Step, UNCHANGED <<next_patch, source, wanted, kept>>,
         tree' \in Version, applied' \subseteq 1 .. Patches, product' \in [Installs \cup {"built"} -> Version]
  PROVE  Base'
<1>1. stamps' \subseteq Step /\ newer' \in [Step -> SUBSET Step]
  BY DEF RemoveStamps, Base, TypeOK
<1>2. TypeOK'
  BY <1>1 DEF Base, TypeOK, fixed
<1>3. \A s \in Step : s \notin stamps' => newer'[s] = {}
  BY DEF RemoveStamps, Base, MakeInv
<1>4. MakeInv'
  BY <1>3 DEF RemoveStamps, Base, MakeInv, fixed, Steps
<1> QED BY <1>2, <1>4 DEF Base

LEMMA BeginBase == ASSUME Base, Begin PROVE Base'
<1>1. /\ UNCHANGED <<fixed, files, request, rm, wanted, kept, source, results>>
      /\ step' \in ToDo /\ \A t \in ToDo : Rank(step') <= Rank(t)
      /\ phase' = "commands" /\ next_patch' = 1 /\ rm = {} /\ request # "none"
  BY DEF Begin
<1>2. step' \in Step /\ step' # "none"
  BY <1>1, StepsAreSteps DEF ToDo, Step, Installs
<1>3. 1 \in 1 .. Patches + 1
  BY StampsAssumption
<1>4. TypeOK'
  BY <1>1, <1>2, <1>3 DEF Base, TypeOK, fixed, files, results
<1>5. ASSUME NEW t \in Steps, Rank(t) < Rank(step') PROVE ~ OutOfDate(t)
  <2>1. Rank(t) \in Nat /\ Rank(step') \in Nat
    BY <1>2, StepsAreSteps DEF Rank, Step, Installs
  <2> QED BY <2>1, <1>1, <1>5 DEF ToDo
<1> QED BY <1>1, <1>2, <1>4, <1>5, BaseKept

LEMMA CommandsBase ==
  ASSUME Base,
         Extract \/ Rsync \/ ApplyPatch \/ Patched \/ DownloadOrConfigure \/ Build \/ Install
  PROVE  Base'
<1>1. /\ UNCHANGED <<fixed, files, request, rm, step, wanted, source>> /\ step # "none"
      /\ phase' \in {"commands", "touch"}
  BY DEF Extract, Rsync, ApplyPatch, Patched, DownloadOrConfigure, Build, Install, At, Ready, Finish,
         Installs
<1>2. 1 \in Version /\ Part \in Version
  BY StampsAssumption DEF Version, Part
<1>3. tree' \in Version
  <2>1. source \in Version /\ 1 .. source \subseteq Version
    BY StampsAssumption DEF Base, TypeOK, Version
  <2> QED BY <1>2, <2>1 DEF Extract, Rsync, ApplyPatch, Patched, DownloadOrConfigure, Build,
                            Install, results, Base, TypeOK
<1>4. applied' \subseteq 1 .. Patches /\ next_patch' \in 1 .. Patches + 1
  <2>1. CASE ApplyPatch
    <3>1. /\ next_patch <= Patches /\ next_patch' = next_patch + 1
          /\ applied' = applied \/ applied' = applied \cup {next_patch}
      BY <2>1 DEF ApplyPatch
    <3>2. next_patch \in 1 .. Patches /\ next_patch + 1 \in 1 .. Patches + 1
      BY <3>1, StampsAssumption DEF Base, TypeOK
    <3> QED BY <3>1, <3>2 DEF Base, TypeOK
  <2>2. CASE ~ ApplyPatch
    BY <2>2 DEF Extract, Rsync, Patched, DownloadOrConfigure, Build, Install, results, Base, TypeOK
  <2> QED BY <2>1, <2>2
<1>5. product' \in [Installs \cup {"built"} -> Version]
  BY <1>2 DEF Extract, Rsync, ApplyPatch, Patched, DownloadOrConfigure, Build, Install, results,
              Base, TypeOK
<1>6. kept' \in BOOLEAN
  BY DEF Extract, Rsync, ApplyPatch, Patched, DownloadOrConfigure, Build, Install, Ready, Base,
         TypeOK
<1>7. TypeOK'
  BY <1>1, <1>3, <1>4, <1>5, <1>6 DEF Base, TypeOK, fixed, files
<1> QED BY <1>1, <1>7, BaseKept DEF Base, MakeInv

\* The stamp that is touched is the one of a step.
LEMMA Touching == ASSUME Base, Touch PROVE step \in Steps /\ step \in Step /\ step # "none"
BY StepsAreSteps DEF Base, MakeInv, Touch, ToDo, Step, Installs

LEMMA TouchBase == ASSUME Base, Touch PROVE Base'
<1>1. step \in Steps /\ step \in Step
  BY Touching
<1>2. /\ UNCHANGED <<fixed, request, rm, next_patch, wanted, kept, source, results>> /\ step' = "none"
      /\ phase' = "commands" /\ stamps' = stamps \cup {step}
      /\ newer' = [t \in Step |-> IF t \in stamps \ {step} THEN newer[t] \cup {step} ELSE {}]
  BY DEF Touch, TouchStamp
<1>3. TypeOK'
  BY <1>1, <1>2 DEF Base, TypeOK, fixed, results
<1>4. MakeInv'
  BY <1>1, <1>2 DEF Base, MakeInv, fixed, Steps
<1> QED BY <1>3, <1>4 DEF Base

LEMMA StopBase == ASSUME Base, Stop PROVE Base'
<1>1. /\ UNCHANGED <<fixed, files, next_patch, wanted, kept, source>>
      /\ request' = "none" /\ rm' = {} /\ step' = "none" /\ phase' = "commands"
  BY DEF Stop
<1>2. Part \in Version
  BY StampsAssumption DEF Version, Part
<1>3. tree' \in Version
  BY <1>2 DEF Stop, results, Base, TypeOK
<1>4. applied' \subseteq 1 .. Patches
  <2>1. next_patch <= Patches => next_patch \in 1 .. Patches
    BY StampsAssumption DEF Base, TypeOK
  <2>2. applied' = applied \/ (next_patch <= Patches /\ applied' = applied \cup {next_patch})
    BY DEF Stop, results
  <2> QED BY <2>1, <2>2 DEF Base, TypeOK
<1>5. product' \in [Installs \cup {"built"} -> Version]
  BY <1>2 DEF Stop, results, Base, TypeOK
<1>6. TypeOK'
  BY <1>1, <1>3, <1>4, <1>5 DEF Base, TypeOK, fixed, files
<1> QED BY <1>1, <1>6, BaseKept

LEMMA NextBase == ASSUME Base, [Next]_vars PROVE Base'
<1>1. ASSUME NEW r \in Request, Ask(r) PROVE Base'
  BY <1>1, AskBase
<1>2. CASE RemoveStamp
  <2>1. PICK s \in rm : RemoveStamps({s}) /\ rm' = rm \ {s}
    BY <1>2 DEF RemoveStamp
  <2>2. UNCHANGED <<fixed, request, step, phase, next_patch, wanted, kept, source, results>>
    BY <1>2 DEF RemoveStamp
  <2> QED BY <2>1, <2>2, RemoveBase DEF Base, MakeInv, TypeOK, results
<1>3. CASE Done
  <2>1. UNCHANGED <<fixed, files, rm, step, phase, next_patch, wanted, kept, source, results>>
        /\ request' = "none" /\ rm = {} /\ step = "none"
    BY <1>3 DEF Done
  <2>2. TypeOK'
    BY <2>1 DEF Base, TypeOK, fixed, files, results
  <2> QED BY <2>1, <2>2, BaseKept DEF Base, MakeInv
<1>4. CASE Dirclean
  <2>1. PICK lost : RemoveStamps(lost)
    BY <1>4 DEF Dirclean
  <2>2. /\ UNCHANGED <<fixed, request, rm, step, phase, next_patch, wanted, kept, source>>
        /\ request = "none" /\ tree' = Part /\ applied' = {}
        /\ product' = [product EXCEPT !["built"] = Part]
    BY <1>4 DEF Dirclean, making
  <2>3. Part \in Version
    BY StampsAssumption DEF Version, Part
  <2> QED BY <2>1, <2>2, <2>3, RemoveBase DEF Base, MakeInv, TypeOK
<1>5. CASE Edit
  <2>1. UNCHANGED <<fixed, files, request, rm, step, phase, next_patch, wanted, kept, applied, product>>
    BY <1>5 DEF Edit, making
  <2>2. source' \in Version /\ tree' \in Version
    BY <1>5, StampsAssumption DEF Edit, Base, TypeOK, Version
  <2>3. TypeOK'
    BY <2>1, <2>2 DEF Base, TypeOK, fixed, files
  <2> QED BY <2>1, <2>3, BaseKept DEF Base, MakeInv
<1>6. CASE UNCHANGED vars
  <2>1. UNCHANGED <<fixed, files, request, rm, step, phase, next_patch, wanted, kept, source, results>>
    BY <1>6 DEF vars, making
  <2>2. TypeOK'
    BY <2>1 DEF Base, TypeOK, fixed, files, results
  <2> QED BY <2>1, <2>2, BaseKept DEF Base, MakeInv
<1> QED BY <1>1, <1>2, <1>3, <1>4, <1>5, <1>6, BeginBase, CommandsBase, TouchBase, StopBase
        DEF Next

-----------------------------------------------------------------------------
(* What the step under way can rely on *)

LEMMA Configuration ==
  ASSUME Base
  PROVE  /\ override => "extracted" \notin stamps /\ "patched" \notin stamps
         /\ ~ override => "rsynced" \notin stamps
         /\ step \in {"extracted", "patched"} => ~ override
         /\ step = "rsynced" => override
BY DEF Base, MakeInv, ToDo, Steps, Installs

\* A step of the tree that runs has no stamp, nor has what follows from the tree.
LEMMA TreeStale ==
  ASSUME Base, TreeInv
  PROVE  /\ step \in {"downloaded", "extracted", "patched", "rsynced"} => step \notin stamps
         /\ step \in {"downloaded", "extracted"} => "patched" \notin stamps
         /\ step = "downloaded" => "extracted" \notin stamps
<1>1. step # "none" => OutOfDate(step)
  BY DEF Base, MakeInv, ToDo
<1>2. CASE step = "downloaded" \/ step = "rsynced"
  <2>1. Prerequisites(step) = {}
    BY <1>2 DEF Prerequisites, Installs
  <2>2. step \notin stamps
    BY <1>1, <1>2, <2>1 DEF OutOfDate
  <2> QED BY <1>2, <2>2 DEF TreeInv
<1>3. CASE step = "extracted"
  <2>1. Prerequisites("extracted") = {"downloaded"}
    BY DEF Prerequisites, Installs
  <2> QED BY <1>1, <1>3, <2>1 DEF TreeInv, OutOfDate
<1>4. CASE step = "patched"
  <2>1. Prerequisites("patched") = {"extracted"}
    BY DEF Prerequisites, Installs
  <2> QED BY <1>1, <1>4, <2>1 DEF TreeInv, OutOfDate
<1> QED BY <1>2, <1>3, <1>4

\* What is built or installed again is not up to date, nor what rests on it.
LEMMA ProductStale ==
  ASSUME Base
  PROVE  /\ step = "built" => ~ UpToDate("built") /\ \A s \in Installs : ~ UpToDate(s)
         /\ step \in Installs => ~ UpToDate(step)
<1>1. step # "none" => OutOfDate(step) /\ step \in Steps
  BY DEF Base, MakeInv, ToDo
<1>2. step \in Installs \cup {"built"} => ~ UpToDate(step)
  BY <1>1 DEF UpToDate, Installs
<1>3. ASSUME step = "built", NEW s \in Installs PROVE ~ UpToDate(s)
  <2>1. "built" \in Ancestors(s)
    BY DEF Ancestors, Steps, Installs, Rank
  <2> QED BY <2>1, <1>1, <1>3 DEF UpToDate
<1> QED BY <1>2, <1>3

\* make runs a step when those before have left their stamps.
LEMMA EarlierDone ==
  ASSUME Base
  PROVE  /\ step = "built" /\ override => "rsynced" \in stamps
         /\ step = "built" /\ ~ override => "extracted" \in stamps /\ "patched" \in stamps
         /\ step \in Installs => "built" \in stamps
         /\ step = "extracted" => "downloaded" \in stamps
         /\ step = "patched" => "extracted" \in stamps
<1>1. ASSUME step # "none", NEW t \in Steps, Rank(t) < Rank(step) PROVE t \in stamps
  BY <1>1 DEF Base, MakeInv, OutOfDate
<1>2. step # "none" => step \in Steps
  BY DEF Base, MakeInv, ToDo
<1>3. step = "built" /\ override => "rsynced" \in stamps
  BY <1>1 DEF Steps, Rank
<1>4. step = "built" /\ ~ override => "extracted" \in stamps /\ "patched" \in stamps
  BY <1>1 DEF Steps, Rank
<1>5. step \in Installs => "built" \in stamps
  BY <1>1 DEF Steps, Rank, Installs
<1>6. step = "extracted" => "downloaded" \in stamps
  BY <1>1, <1>2 DEF Steps, Rank, Installs
<1>7. step = "patched" => "extracted" \in stamps
  BY <1>1, <1>2 DEF Steps, Rank, Installs
<1> QED BY <1>3, <1>4, <1>5, <1>6, <1>7

LEMMA InitInv == Init => IInv
<1> SUFFICES ASSUME Init PROVE IInv
  OBVIOUS
<1>1. Base /\ stamps = {} /\ step = "none" /\ phase = "commands" /\ request = "none" /\ rm = {}
      /\ tree = Part /\ source = 1
  BY BaseInit DEF Init
<1>2. TreeInv
  BY <1>1 DEF TreeInv, Holds, Part
<1>3. \A s : ~ UpToDate(s)
  BY <1>1 DEF UpToDate, OutOfDate
<1>4. ProductInv
  BY <1>1, <1>3 DEF ProductInv, Current
<1>5. WantedInv
  BY <1>1 DEF WantedInv
<1> QED BY <1>1, <1>2, <1>4, <1>5 DEF IInv

-----------------------------------------------------------------------------
(* Every step keeps the inductive invariant *)

\* The steps after which no commands are done that have no stamp yet.
LEMMA Quiet ==
  ASSUME IInv, UNCHANGED <<fixed, files, results, source>>, phase' = "commands",
         rm' \cap {"downloaded", "extracted", "patched"} = {},
         step' = "patched" => 1 .. next_patch' - 1 \subseteq applied
  PROVE  TreeInv' /\ ProductInv'
<1>1. /\ UNCHANGED <<override, stamps, newer, tree, applied, product>>
      /\ \A s : OutOfDate(s)' <=> OutOfDate(s)
      /\ \A s : UpToDate(s)' <=> UpToDate(s)
  BY KeptFiles DEF fixed, files, results
<1>2. \A s : Holds(s)' => Holds(s)
  BY <1>1 DEF Holds
<1>3. \A s : Current(s)' => Current(s)
  BY <1>1 DEF Current
<1>4. TreeInv'
  BY <1>1, <1>2 DEF IInv, TreeInv
<1>5. ProductInv'
  BY <1>1, <1>3 DEF IInv, ProductInv
<1> QED BY <1>4, <1>5

LEMMA AskStep == ASSUME IInv, NEW r \in Request, Ask(r) PROVE IInv'
<1>1. /\ UNCHANGED <<fixed, files, step, phase, next_patch, source, results>>
      /\ request' = r /\ request = "none" /\ wanted' = IF override THEN source ELSE tree
  BY DEF Ask
<1>2. step = "none" /\ phase = "commands" /\ Base'
  BY <1>1, AskBase DEF IInv, Base, MakeInv
<1>3. TreeInv' /\ ProductInv'
  <2>1. rm' \cap {"downloaded", "extracted", "patched"} = {}
    BY DEF Ask, Request, CleanForReconfigure, CleanForRebuild, CleanForReinstall, Installs
  <2> QED BY <1>1, <1>2, <2>1, Quiet
<1>4. WantedInv'
  <2> SUFFICES ASSUME r \in {"rebuild", "reconfigure"} PROVE WantedInv'
    BY <1>1 DEF WantedInv
  <2>1. /\ Installs \cup {"built"} \subseteq rm'
        /\ override => "rsynced" \in rm'
    BY DEF Ask, CleanForReconfigure, CleanForRebuild, CleanForReinstall
  <2>2. ~ override => ~ Holds("rsynced")'
    BY <1>1, <1>2, Configuration DEF IInv, Holds, files
  <2>3. source \in Nat /\ tree \in Nat
    BY DEF IInv, Base, TypeOK, Version
  <2>4. Holds("extracted")' <=> "extracted" \in stamps
    BY <1>1, <1>2 DEF Holds, files
  <2>5. override' = override /\ tree' = tree /\ source' = source
    BY <1>1 DEF fixed, results
  <2>6. ~ override => wanted' <= (IF Holds("extracted")' THEN tree' ELSE 1)
    BY <1>1, <2>3, <2>4, <2>5 DEF IInv, TreeInv
  <2>7. override => wanted' <= source'
    BY <1>1, <2>3, <2>5
  <2>8. \A s \in Installs \cup {"built"} : ~ Remade(s)'
    BY <2>1 DEF Remade
  <2>9. ~ Remade("rsynced")'
    BY <2>1, <2>2 DEF Remade
  <2> QED BY <2>5, <2>6, <2>7, <2>8, <2>9 DEF WantedInv
<1> QED BY <1>2, <1>3, <1>4 DEF IInv

LEMMA RemoveStampStep == ASSUME IInv, RemoveStamp PROVE IInv'
<1>1. PICK s \in rm : RemoveStamps({s}) /\ rm' = rm \ {s}
  BY DEF RemoveStamp
<1>2. /\ UNCHANGED <<override, host, request, step, phase, next_patch, wanted, kept, source, tree, applied, product>>
      /\ UNCHANGED fixed
  BY DEF RemoveStamp, fixed, results
<1>3. /\ step = "none" /\ phase = "commands" /\ TypeOK /\ MakeInv
      /\ s \notin {"downloaded", "extracted", "patched"}
  BY <1>1 DEF IInv, Base, MakeInv, TreeInv
<1>4. Base'
  BY NextBase DEF IInv, Next
<1>5. stamps' = stamps \ {s} /\ \A t \in Step : t # s => newer'[t] = newer[t] \ {s}
  BY <1>1 DEF RemoveStamps
<1>6. \A t : Holds(t)' => Holds(t) /\ t # s
  BY <1>2, <1>3, <1>5 DEF Holds
<1>7. TreeInv'
  <2>1. \A t \in {"extracted", "patched"} : (t \in stamps' <=> t \in stamps) /\ newer'[t] = newer[t] \ {s}
    BY <1>3, <1>5 DEF Step
  <2> QED BY <1>1, <1>2, <1>3, <1>5, <1>6, <2>1 DEF IInv, TreeInv
<1>8. ProductInv'
  <2>1. \A t \in Step : Current(t)' => Current(t)
    BY <1>1, <1>2, <1>3, RemoveFacts DEF Current
  <2> QED BY <1>2, <2>1 DEF IInv, ProductInv, Step
<1>9. WantedInv'
  <2>1. \A t : Remade(t)' => Remade(t)
    BY <1>1, <1>6 DEF Remade
  <2>2. Holds("extracted")' <=> Holds("extracted")
    BY <1>2, <1>3, <1>5 DEF Holds
  <2> QED BY <1>2, <2>1, <2>2 DEF IInv, WantedInv
<1> QED BY <1>4, <1>7, <1>8, <1>9 DEF IInv

\* The request goes on, or another one that asks for nothing to be built again.
LEMMA WantedKept ==
  ASSUME IInv, request' \in {request, "none"}, UNCHANGED <<fixed, files, rm, wanted, kept, source, results>>,
         phase' = "commands", phase = "commands"
  PROVE  WantedInv'
<1>1. UNCHANGED <<override, stamps, tree, product>>
  BY DEF fixed, files, results
<1>2. \A s : (Holds(s)' <=> Holds(s)) /\ (Remade(s)' <=> Remade(s))
  BY <1>1 DEF Holds, Remade
<1> QED BY <1>1, <1>2 DEF IInv, WantedInv

LEMMA BeginStep == ASSUME IInv, Begin PROVE IInv'
<1>1. /\ UNCHANGED <<fixed, files, request, rm, wanted, kept, source, results>>
      /\ phase' = "commands" /\ next_patch' = 1 /\ step = "none" /\ rm = {}
  BY DEF Begin
<1>2. phase = "commands" /\ Base'
  BY <1>1, BeginBase DEF IInv, Base, MakeInv
<1>3. 1 .. next_patch' - 1 \subseteq applied
  BY <1>1
<1> QED BY <1>1, <1>2, <1>3, Quiet, WantedKept DEF IInv

LEMMA DoneStep == ASSUME IInv, Done PROVE IInv'
<1>1. /\ UNCHANGED <<fixed, files, rm, step, phase, next_patch, wanted, kept, source, results>>
      /\ request' = "none" /\ step = "none" /\ rm = {}
  BY DEF Done
<1>2. phase = "commands" /\ Base'
  BY <1>1, NextBase DEF IInv, Base, MakeInv, Next
<1> QED BY <1>1, <1>2, Quiet, WantedKept DEF IInv

\* The commands of a step: what has been touched stays, and the step itself may
\* now be about to.
LEMMA CommandFacts ==
  ASSUME IInv, UNCHANGED <<fixed, files, rm, step>>, phase = "commands", step # "none"
  PROVE  /\ UNCHANGED <<override, stamps, newer>> /\ rm = {}
         /\ \A s : Holds(s)' => Holds(s) \/ s = step
         /\ \A s : Holds(s) => Holds(s)'
         /\ \A s : Holds(s) => s \in stamps
         /\ \A s : Current(s)' => UpToDate(s) \/ s = step
         /\ \A s : UpToDate(s) => Current(s)
<1>1. /\ UNCHANGED <<override, stamps, newer>> /\ rm = {}
      /\ \A s : UpToDate(s)' <=> UpToDate(s)
  BY KeptFiles DEF fixed, files, IInv, Base, MakeInv
<1> QED BY <1>1 DEF Holds, Current

LEMMA ExtractStep == ASSUME IInv, Extract PROVE IInv'
<1>1. /\ UNCHANGED <<fixed, files, request, rm, step, wanted, kept, source, product>>
      /\ step = "extracted" /\ phase = "commands" /\ tree' = 1 /\ applied' = {} /\ phase' = "touch"
  BY DEF Extract, At, Ready, Finish
<1>2. Base'
  BY CommandsBase DEF IInv
<1>3. /\ ~ override /\ "rsynced" \notin stamps /\ "patched" \notin stamps
      /\ "extracted" \notin stamps
  BY <1>1, Configuration, TreeStale DEF IInv
<1>4. TreeInv'
  BY <1>1, <1>3, CommandFacts DEF IInv, TreeInv, Part, Holds
<1>5. ProductInv'
  <2>1. \A s \in Installs \cup {"built"} : Current(s)' => Current(s)
    BY <1>1, CommandFacts DEF Installs
  <2> QED BY <1>1, <2>1 DEF IInv, ProductInv
<1>6. WantedInv'
  <2>1. \A s \in Installs \cup {"built", "rsynced"} : Remade(s)' => Remade(s)
    BY <1>1, CommandFacts DEF Installs, Remade
  <2>2. ~ Remade("rsynced") /\ ~ Holds("extracted")
    BY <1>1, <1>3 DEF Remade, Holds
  <2>3. request' \in {"rebuild", "reconfigure"} /\ ~ kept' => wanted' <= 1
    BY <1>1, <1>3, <2>2 DEF IInv, WantedInv
  <2>4. override' = override
    BY <1>1 DEF fixed
  <2> QED BY <1>1, <1>3, <2>1, <2>2, <2>3, <2>4 DEF IInv, WantedInv
<1> QED BY <1>2, <1>4, <1>5, <1>6 DEF IInv

LEMMA RsyncStep == ASSUME IInv, Rsync PROVE IInv'
<1>1. /\ UNCHANGED <<fixed, files, request, rm, step, wanted, source, applied, product>>
      /\ step = "rsynced" /\ phase = "commands" /\ phase' = "touch"
      /\ (tree' = source /\ kept' = kept) \/ (tree' \in 1 .. source /\ kept' = TRUE)
  BY DEF Rsync, At, Finish
<1>2. Base'
  BY CommandsBase DEF IInv
<1>3. override /\ override' = override /\ "extracted" \notin stamps /\ "patched" \notin stamps
  BY <1>1, Configuration DEF IInv, fixed
<1>4. TreeInv'
  <2>1. tree' # Part
    BY <1>1 DEF IInv, TreeInv, Part, Base, TypeOK, Version
  <2> QED BY <1>1, <1>3, <2>1, CommandFacts DEF IInv, TreeInv, Part, Holds
<1>5. ProductInv'
  <2>1. \A s \in Installs \cup {"built"} : Current(s)' => Current(s)
    BY <1>1, CommandFacts DEF Installs
  <2> QED BY <1>1, <2>1 DEF IInv, ProductInv
<1>6. WantedInv'
  <2>1. \A s \in Installs \cup {"built"} : Remade(s)' => Remade(s)
    BY <1>1, CommandFacts DEF Installs, Remade
  <2>2. CASE kept'
    BY <2>2 DEF WantedInv
  <2>3. CASE ~ kept'
    BY <1>1, <1>3, <2>1, <2>3 DEF IInv, WantedInv
  <2> QED BY <2>2, <2>3
<1> QED BY <1>2, <1>4, <1>5, <1>6 DEF IInv

\* What make does while neither tree nor products change.
LEMMA ProductsKept ==
  ASSUME IInv, UNCHANGED <<fixed, files, request, rm, step, wanted, kept, source, tree, product>>,
         phase = "commands", step \in {"downloaded", "configured", "patched"}
  PROVE  ProductInv' /\ WantedInv'
<1>1. step # "none" /\ step \notin Installs \cup {"built", "rsynced", "extracted"}
  BY DEF Installs
<1>2. \A s \in Installs \cup {"built"} : Current(s)' => Current(s)
  BY <1>1, CommandFacts
<1>3. ProductInv'
  BY <1>2 DEF IInv, ProductInv
<1>4. \A s \in Installs \cup {"built", "rsynced"} : Remade(s)' => Remade(s)
  BY <1>1, CommandFacts DEF Remade
<1>5. Holds("extracted")' <=> Holds("extracted")
  BY <1>1, CommandFacts
<1>6. WantedInv'
  BY <1>4, <1>5 DEF IInv, WantedInv, fixed
<1> QED BY <1>3, <1>6

LEMMA ApplyPatchStep == ASSUME Reliable, IInv, ApplyPatch PROVE IInv'
<1>1. /\ UNCHANGED <<fixed, files, request, rm, step, phase, wanted, kept, source, tree, product>>
      /\ step = "patched" /\ phase = "commands" /\ next_patch' = next_patch + 1
      /\ applied' = applied \cup {next_patch}
  BY DEF ApplyPatch, At, Reliable
<1>2. Base'
  BY CommandsBase DEF IInv
<1>3. "patched" \notin stamps
  BY <1>1, TreeStale DEF IInv
<1>4. 1 .. next_patch' - 1 \subseteq applied'
  <2>1. next_patch \in Nat
    BY StampsAssumption DEF IInv, Base, TypeOK
  <2>2. 1 .. next_patch - 1 \subseteq applied
    BY <1>1 DEF IInv, TreeInv
  <2>3. ASSUME NEW i \in 1 .. next_patch' - 1 PROVE i \in applied'
    <3>1. i \in 1 .. next_patch - 1 \/ i = next_patch
      BY <1>1, <2>1
    <3> QED BY <1>1, <2>2, <3>1
  <2> QED BY <2>3
<1>5. TreeInv'
  <2>1. /\ UNCHANGED <<override, stamps, newer>>
        /\ \A s : Holds(s)' <=> Holds(s)
    BY <1>1 DEF Holds, fixed, files
  <2>2. ~ Holds("patched")
    BY <1>1, <1>3 DEF Holds
  <2> QED BY <1>1, <1>4, <2>1, <2>2 DEF IInv, TreeInv
<1> QED BY <1>1, <1>2, <1>5, ProductsKept DEF IInv

LEMMA PatchedStep == ASSUME IInv, Patched PROVE IInv'
<1>1. /\ UNCHANGED <<fixed, files, request, rm, step, wanted, kept, source, next_patch, results>>
      /\ UNCHANGED <<tree, applied, product>>
      /\ step = "patched" /\ phase = "commands" /\ next_patch > Patches
  BY DEF Patched, At, Ready, Finish, results
<1>2. Base'
  BY CommandsBase DEF IInv
<1>3. applied = 1 .. Patches
  <2>1. next_patch = Patches + 1
    BY <1>1, StampsAssumption DEF IInv, Base, TypeOK
  <2>2. next_patch - 1 = Patches
    BY <2>1, StampsAssumption
  <2>3. 1 .. next_patch - 1 \subseteq applied
    BY <1>1 DEF IInv, TreeInv
  <2> QED BY <2>2, <2>3 DEF IInv, Base, TypeOK
<1>4. TreeInv'
  BY <1>1, <1>3, CommandFacts DEF IInv, TreeInv
<1> QED BY <1>1, <1>2, <1>4, ProductsKept DEF IInv

LEMMA DownloadOrConfigureStep == ASSUME IInv, DownloadOrConfigure PROVE IInv'
<1>1. /\ UNCHANGED <<fixed, files, request, rm, step, wanted, kept, source, next_patch, results>>
      /\ UNCHANGED <<tree, applied, product>>
      /\ step \in {"downloaded", "configured"} /\ phase = "commands"
  BY DEF DownloadOrConfigure, At, Ready, Finish, results
<1>2. Base'
  BY CommandsBase DEF IInv
<1>3. step # "none"
  BY <1>1
<1>4. TreeInv'
  <2>1. \A s \in {"extracted", "patched", "rsynced"} : Holds(s)' => Holds(s)
    BY <1>1, <1>3, CommandFacts
  <2> QED BY <1>1, <1>3, <2>1, CommandFacts DEF IInv, TreeInv
<1> QED BY <1>1, <1>2, <1>4, ProductsKept DEF IInv

LEMMA BuildStep == ASSUME IInv, Build PROVE IInv'
<1>1. /\ UNCHANGED <<fixed, files, request, rm, step, wanted, kept, source, next_patch, tree, applied>>
      /\ step = "built" /\ phase = "commands" /\ phase' = "touch"
      /\ product' = [product EXCEPT !["built"] = IF override \/ applied = 1 .. Patches THEN tree ELSE Part]
  BY DEF Build, At, Ready, Finish
<1>2. Base' /\ override' = override /\ product \in [Installs \cup {"built"} -> Version]
  BY <1>1, CommandsBase DEF IInv, Base, TypeOK, fixed
<1>3. "built" \notin Installs
  BY DEF Installs
<1>4. IF override THEN "rsynced" \in stamps ELSE "extracted" \in stamps /\ "patched" \in stamps
  BY <1>1, EarlierDone DEF IInv
<1>5. product'["built"] = tree /\ \A s \in Installs : product'[s] = product[s]
  <2>1. override \/ applied = 1 .. Patches
    BY <1>4 DEF IInv, TreeInv, Holds
  <2> QED BY <1>1, <1>2, <1>3, <2>1
<1>6. tree # Part
  BY <1>4 DEF IInv, TreeInv, Holds
<1>7. TreeInv'
  <2>1. \A s \in {"extracted", "patched", "rsynced"} : Holds(s)' => Holds(s)
    BY <1>1, CommandFacts
  <2> QED BY <1>1, <2>1, CommandFacts DEF IInv, TreeInv
<1>8. ProductInv'
  <2>1. \A s \in Installs : ~ Current(s)'
    BY <1>1, <1>3, CommandFacts, ProductStale DEF IInv
  <2> QED BY <1>5, <1>6, <2>1 DEF ProductInv
<1>9. WantedInv'
  <2> SUFFICES ASSUME request \in {"rebuild", "reconfigure"}, ~ kept PROVE WantedInv'
    BY <1>1 DEF WantedInv
  <2>1. \A s \in Installs \cup {"rsynced"} : Remade(s)' => Remade(s)
    BY <1>1, <1>3, CommandFacts DEF Remade
  <2>2. Holds("extracted")' <=> Holds("extracted")
    BY <1>1, CommandFacts
  <2>3. wanted <= tree
    <3>1. rm = {}
      BY <1>1, CommandFacts
    <3> QED BY <1>4, <3>1 DEF IInv, WantedInv, Remade, Holds
  <2> QED BY <1>1, <1>2, <1>5, <2>1, <2>2, <2>3 DEF IInv, WantedInv
<1> QED BY <1>2, <1>7, <1>8, <1>9 DEF IInv

LEMMA InstallStep == ASSUME IInv, Install PROVE IInv'
<1>1. /\ UNCHANGED <<fixed, files, request, rm, step, wanted, kept, source, next_patch, tree, applied>>
      /\ step \in Installs /\ phase = "commands" /\ phase' = "touch"
      /\ product' = [product EXCEPT ![step] = product["built"]]
  BY DEF Install, Ready, Finish
<1>2. /\ Base' /\ override' = override /\ product \in [Installs \cup {"built"} -> Version]
      /\ step \notin {"none", "built", "extracted", "patched", "rsynced"}
  BY <1>1, CommandsBase DEF IInv, Base, TypeOK, fixed, Installs
<1>3. "built" \in stamps
  BY <1>1, EarlierDone DEF IInv
<1>4. /\ product'[step] = product["built"]
      /\ \A s \in Installs \cup {"built"} : s # step => product'[s] = product[s]
  BY <1>1, <1>2
<1>5. TreeInv'
  <2>1. \A s \in {"extracted", "patched", "rsynced"} : Holds(s)' => Holds(s)
    BY <1>1, <1>2, CommandFacts
  <2> QED BY <1>1, <1>2, <2>1, CommandFacts DEF IInv, TreeInv
<1>6. ProductInv'
  <2>1. \A s : s # step /\ Current(s)' => Current(s)
    BY <1>1, <1>2, CommandFacts
  <2> QED BY <1>1, <1>2, <1>4, <2>1 DEF IInv, ProductInv
<1>7. WantedInv'
  <2> SUFFICES ASSUME request \in {"rebuild", "reconfigure"}, ~ kept PROVE WantedInv'
    BY <1>1 DEF WantedInv
  <2>1. \A s : s # step /\ Remade(s)' => Remade(s)
    BY <1>1, <1>2, CommandFacts DEF Remade
  <2>2. Holds("extracted")' <=> Holds("extracted")
    BY <1>1, <1>2, CommandFacts
  <2>3. wanted <= product["built"]
    <3>1. rm = {}
      BY <1>1, <1>2, CommandFacts
    <3> QED BY <1>3, <3>1 DEF IInv, WantedInv, Remade, Holds
  <2> QED BY <1>1, <1>2, <1>4, <2>1, <2>2, <2>3 DEF IInv, WantedInv
<1> QED BY <1>2, <1>5, <1>6, <1>7 DEF IInv

LEMMA TouchStep == ASSUME IInv, Touch PROVE IInv'
<1>1. /\ UNCHANGED <<fixed, request, rm, next_patch, wanted, kept, source, results>>
      /\ UNCHANGED <<override, tree, applied, product>>
      /\ phase = "touch" /\ step' = "none" /\ phase' = "commands" /\ TouchStamp(step)
  BY DEF Touch, fixed, results
<1>2. Base' /\ step \in Steps /\ step \in Step /\ step # "none" /\ TypeOK /\ MakeInv
  BY TouchBase, Touching DEF IInv, Base
<1>3. stamps' = stamps \cup {step} /\ newer'[step] = {}
      /\ \A s \in Step : s \in stamps /\ s # step => newer'[s] = newer[s] \cup {step}
  BY <1>1, <1>2 DEF TouchStamp
<1>4. \A s \in Step : Holds(s)' <=> Holds(s)
  BY <1>1, <1>2, <1>3 DEF Holds
<1>5. TreeInv'
  <2>1. "extracted" \in stamps' => "downloaded" \in stamps' \ newer'["extracted"]
    <3>1. CASE step = "extracted"
      BY <3>1, <1>3, EarlierDone DEF IInv
    <3>2. CASE step # "extracted"
      <4>1. "extracted" \in stamps => step # "downloaded" /\ newer'["extracted"] = newer["extracted"] \cup {step}
        BY <3>2, <1>3, TreeStale DEF IInv, Step
      <4> QED BY <3>2, <4>1, <1>3 DEF IInv, TreeInv
    <3> QED BY <3>1, <3>2
  <2>2. "patched" \in stamps' => "extracted" \in stamps' \ newer'["patched"]
    <3>1. CASE step = "patched"
      BY <3>1, <1>3, EarlierDone DEF IInv
    <3>2. CASE step # "patched"
      <4>1. "patched" \in stamps => step # "extracted" /\ newer'["patched"] = newer["patched"] \cup {step}
        BY <3>2, <1>3, TreeStale DEF IInv, Step
      <4> QED BY <3>2, <4>1, <1>3 DEF IInv, TreeInv
    <3> QED BY <3>1, <3>2
  <2>3. \A s \in {"extracted", "patched", "rsynced"} : Holds(s)' => Holds(s)
    BY <1>4 DEF Step
  <2> QED BY <1>1, <1>3, <2>1, <2>2, <2>3 DEF IInv, TreeInv
<1>6. ProductInv'
  <2>1. \A s \in Step : UpToDate(s)' => Current(s)
    BY <1>1, <1>2, TouchFacts DEF Current
  <2>2. \A s \in Step : Current(s)' => Current(s)
    BY <1>1, <2>1 DEF Current
  <2> QED BY <1>1, <2>2 DEF IInv, ProductInv, Step
<1>7. WantedInv'
  <2>1. \A s \in Step : Remade(s)' => Remade(s)
    BY <1>1, <1>4 DEF Remade
  <2>2. Holds("extracted")' <=> Holds("extracted")
    BY <1>4 DEF Step
  <2> QED BY <1>1, <2>1, <2>2 DEF IInv, WantedInv, Step
<1> QED BY <1>2, <1>5, <1>6, <1>7 DEF IInv

LEMMA StopStep == ASSUME IInv, Stop PROVE IInv'
<1>1. /\ UNCHANGED <<fixed, files, next_patch, wanted, kept, source>>
      /\ UNCHANGED <<override, stamps, newer>>
      /\ request' = "none" /\ rm' = {} /\ step' = "none" /\ phase' = "commands"
  BY DEF Stop, fixed, files
<1>2. Base'
  BY StopBase DEF IInv
<1>3. WantedInv'
  BY <1>1 DEF WantedInv
<1>4. CASE phase = "touch"
  <2>1. UNCHANGED results
    BY <1>4 DEF Stop
  <2>2. TreeInv' /\ ProductInv'
    BY <1>1, <2>1, Quiet
  <2> QED BY <1>2, <1>3, <2>2 DEF IInv
<1>5. CASE phase # "touch"
  <2>1. /\ tree' = IF step \in {"extracted", "rsynced"} THEN Part ELSE tree
        /\ product' = [s \in DOMAIN product |-> IF s = step THEN Part ELSE product[s]]
        /\ step # "patched" => applied' = applied
    BY <1>5 DEF Stop
  <2>2. \A s : (Holds(s)' => s \in stamps) /\ (s \in stamps => Holds(s))
    BY <1>1 DEF Holds
  <2>3. /\ step \in {"extracted", "rsynced"} => "extracted" \notin stamps /\ "rsynced" \notin stamps
        /\ step = "patched" => "patched" \notin stamps
    BY TreeStale, Configuration DEF IInv
  <2>4. TreeInv'
    BY <1>1, <2>1, <2>2, <2>3 DEF IInv, TreeInv, Part
  <2>5. \A s : Current(s)' => UpToDate(s) /\ Current(s)
    BY <1>1, KeptFiles DEF Current
  <2>6. ProductInv'
    <3>1. \A s \in Installs \cup {"built"} : product'[s] = IF s = step THEN Part ELSE product[s]
      BY <2>1 DEF IInv, Base, TypeOK
    <3>2. \A s \in Installs \cup {"built"} : Current(s)' => s # step
      BY <2>5, ProductStale DEF IInv
    <3>3. \A s \in Installs : Current(s)' => step # "built"
      BY <2>5, ProductStale DEF IInv
    <3>4. ASSUME Current("built")' PROVE product'["built"] # Part
      BY <3>1, <3>2, <3>4, <2>5 DEF IInv, ProductInv
    <3>5. ASSUME NEW s \in Installs, Current(s)' PROVE product'[s] = product'["built"]
      BY <3>1, <3>2, <3>3, <3>5, <2>5 DEF IInv, ProductInv
    <3> QED BY <3>4, <3>5 DEF ProductInv
  <2> QED BY <1>2, <1>3, <2>4, <2>6 DEF IInv
<1> QED BY <1>4, <1>5

LEMMA DircleanStep == ASSUME Reliable, IInv, Dirclean PROVE IInv'
<1>1. /\ UNCHANGED <<fixed, making, source>> /\ UNCHANGED <<request, rm, step, phase>>
      /\ request = "none" /\ tree' = Part /\ stamps' = {}
  BY DEF Dirclean, Reliable, RemoveStamps, making
<1>2. Base'
  BY NextBase DEF IInv, Next
<1>3. step' = "none" /\ phase' = "commands" /\ rm' = {}
  BY <1>1 DEF IInv, Base, MakeInv
<1>4. TreeInv'
  BY <1>1, <1>3 DEF IInv, TreeInv, Holds, Part
<1>5. \A s : ~ UpToDate(s)'
  BY <1>1 DEF UpToDate, OutOfDate
<1>6. ProductInv' /\ WantedInv'
  BY <1>1, <1>3, <1>5 DEF ProductInv, Current, WantedInv
<1> QED BY <1>2, <1>4, <1>6 DEF IInv

LEMMA EditStep == ASSUME IInv, Edit PROVE IInv'
<1>1. /\ UNCHANGED <<fixed, files, request, rm, step, phase, next_patch, wanted, kept, applied, product>>
      /\ UNCHANGED <<override, stamps, newer>> /\ source' = source + 1
  BY DEF Edit, fixed, files, making
<1>2. Base' /\ source \in Nat /\ source' # Part /\ wanted \in Nat
  BY <1>1, NextBase DEF IInv, Next, Base, TypeOK, Version, Part
<1>3. /\ \A s : Holds(s)' <=> Holds(s)
      /\ \A s : Remade(s)' <=> Remade(s)
      /\ \A s : Current(s)' <=> Current(s)
  BY <1>1, KeptFiles DEF Holds, Remade, Current
<1>4. \/ override /\ tree' = tree
      \/ ~ override /\ request = "none" /\ "extracted" \in stamps /\ tree' = source'
  BY DEF Edit
<1>5. TreeInv'
  BY <1>1, <1>2, <1>3, <1>4 DEF IInv, TreeInv
<1>6. ProductInv'
  BY <1>1, <1>3 DEF IInv, ProductInv
<1>7. WantedInv'
  BY <1>1, <1>2, <1>3, <1>4 DEF IInv, WantedInv
<1> QED BY <1>2, <1>5, <1>6, <1>7 DEF IInv

LEMMA NextInv == ASSUME Reliable, IInv, [Next]_vars PROVE IInv'
<1>1. ASSUME NEW r \in Request, Ask(r) PROVE IInv'
  BY <1>1, AskStep
<1>2. CASE UNCHANGED vars
  <2>1. /\ UNCHANGED <<fixed, files, results, source, phase, step, rm, wanted, kept, request, next_patch>>
        /\ UNCHANGED <<override, stamps, newer, tree, applied, product>>
    BY <1>2 DEF vars, fixed, files, results, making
  <2>2. /\ \A s : Holds(s)' <=> Holds(s)
        /\ \A s : Remade(s)' <=> Remade(s)
        /\ \A s : Current(s)' <=> Current(s)
    BY <2>1, KeptFiles DEF Holds, Remade, Current
  <2>3. Base'
    BY <1>2, NextBase DEF IInv
  <2>4. TreeInv'
    BY <2>1, <2>2 DEF IInv, TreeInv
  <2>5. ProductInv' /\ WantedInv'
    BY <2>1, <2>2 DEF IInv, ProductInv, WantedInv
  <2> QED BY <2>3, <2>4, <2>5 DEF IInv
<1> QED BY <1>1, <1>2, RemoveStampStep, BeginStep, DoneStep, ExtractStep, RsyncStep,
           ApplyPatchStep, PatchedStep, DownloadOrConfigureStep, BuildStep, InstallStep, TouchStep,
           StopStep, DircleanStep, EditStep DEF Next

-----------------------------------------------------------------------------
(* The theorems *)

LEMMA Invariance == ASSUME Reliable PROVE Spec => []IInv
<1>1. IInv /\ [Next]_vars => IInv'
  BY NextInv
<1> QED BY <1>1, InitInv, PTL DEF Spec

\* The stamps are those of known steps and the next patch is one there is or the
\* end of the list, however make is stopped and whatever the tools do.
THEOREM StampsTypes == Spec => []TypeOK
<1>1. Base => TypeOK
  BY DEF Base
<1> QED BY <1>1, BaseInit, NextBase, PTL DEF Spec

\* A stamp of pkg-generic.mk that make finds up to date tells the truth: the tree
\* is whole, has every patch once, and the build and the installations are of it.
\* It needs that decompression and the rm -Rf of dirclean do not fail half way.
THEOREM StampsAreTrue == ASSUME Reliable PROVE Spec => []StampsTrue
<1>1. IInv => StampsTrue
  <2> SUFFICES ASSUME IInv PROVE StampsTrue
    OBVIOUS
  <2>1. \A s \in Step : UpToDate(s) => Holds(s) /\ Current(s)
    BY DEF UpToDate, OutOfDate, Holds, Current
  <2> QED BY <2>1 DEF IInv, TreeInv, ProductInv, StampsTrue, Step
<1> QED BY <1>1, Invariance, PTL

\* When <pkg>-rebuild or <pkg>-reconfigure has run to its end, everything that is
\* installed was made after the request from sources at least as new, for any
\* number of edits, interrupted requests and dircleans before, unless rsync -au
\* kept a file of the build directory.
THEOREM StampsRebuildTakesEdits == ASSUME Reliable PROVE Spec => RebuildTakesEdits
<1> DEFINE Takes == Done /\ request \in {"rebuild", "reconfigure"} /\ ~ kept =>
                      \A s \in Installs \cap stamps : product[s] >= wanted
<1>1. IInv => [Takes]_vars
  <2> SUFFICES ASSUME IInv, Done, request \in {"rebuild", "reconfigure"}, ~ kept,
                      NEW s \in Installs \cap stamps
               PROVE  product[s] >= wanted
    OBVIOUS
  <2>1. Remade(s)
    BY DEF Done, Remade, Holds
  <2>2. product[s] \in Nat /\ wanted \in Nat
    BY DEF IInv, Base, TypeOK, Version
  <2> QED BY <2>1, <2>2 DEF IInv, WantedInv
<1> QED BY <1>1, Invariance, PTL DEF RebuildTakesEdits
=============================================================================
