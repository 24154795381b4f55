------------------------ MODULE CloudInitToolProofs ------------------------
(***************************************************************************)
(* Proofs about CloudInitTool for any hosts, number of targets, of log     *)
(* commands and of runs: the number the tool counts is worth what its exit *)
(* status is taken for.                                                    *)
(***************************************************************************)
EXTENDS CloudInitTool, FiniteSetTheorems, SequenceTheorems, TLAPS

(* The positions the run is done with.                                      *)
Judged == 1..(IF log > 0 THEN pos ELSE pos - 1)

Whereabouts ==
  /\ cpc \in {"mkdir", "host", "nodedir", "check"} => log = 0
  /\ cpc = "logs" => log > 0
  /\ log > 0 => pos <= Len(targets)

Counted ==
  /\ passed \subseteq Judged
  /\ successful_nodes = Cardinality(passed)

(* A host that is given twice may fail the second time and so replace the   *)
(* log of its success, but then not all positions have passed.              *)
Proven ==
  /\ \A i \in passed : targets[i] \in bootstrapped
  /\ passed = Judged => \A i \in passed : success_log[targets[i]] = "success"

Concluded ==
  exitcode = 0 => Judged = 1..Len(targets) /\ passed = Judged

CloudInv == CloudTypeOK /\ Whereabouts /\ Counted /\ Proven /\ Concluded

-----------------------------------------------------------------------------
LEMMA TargetsAreSeqs ==
  ASSUME CloudTypeOK
  PROVE  /\ Len(targets) \in Nat
         /\ 1..Len(targets) \subseteq 1..MaxTargets
         /\ \A i \in 1..Len(targets) : targets[i] \in Hosts \cup {Empty}
<1>1. CASE targets = << >>
  BY <1>1
<1>2. CASE targets \in Targets
  <2>1. PICK n \in 1..MaxTargets : targets \in [1..n -> Hosts \cup {Empty}]
    BY <1>2 DEF Targets
  <2>2. n \in Nat /\ targets \in Seq(Hosts \cup {Empty})
    BY <2>1, SeqDef, CloudInitAssumption DEF CloudInitAssumption
  <2>3. Len(targets) = n
    BY <2>1, <2>2, LenProperties
  <2>4. QED
    BY <2>1, <2>2, <2>3, CloudInitAssumption DEF CloudInitAssumption
<1>3. QED BY <1>1, <1>2 DEF CloudTypeOK

LEMMA StatusIsNoNumber == None # 0 /\ None # 1
BY CloudInitAssumption DEF CloudInitAssumption

(* Positions among the first n are as many as n only if they are all.       *)
LEMMA AllCounted ==
  ASSUME NEW n \in Nat, NEW S, S \subseteq 1..n
  PROVE  /\ IsFiniteSet(S)
         /\ Cardinality(S) \in 0..n
         /\ Cardinality(S) = n <=> S = 1..n
<1>1. IsFiniteSet(1..n) /\ Cardinality(1..n) = n
  BY FS_Interval
<1>2. IsFiniteSet(S) /\ Cardinality(S) <= n /\ (Cardinality(S) = n => S = 1..n)
  BY <1>1, FS_Subset
<1>3. Cardinality(S) \in Nat
  BY <1>2, FS_CardinalityType
<1>4. QED BY <1>1, <1>2, <1>3

LEMMA JudgedRange ==
  ASSUME CloudTypeOK, Whereabouts
  PROVE  /\ pos \in Nat /\ log \in Nat /\ pos > 0
         /\ Judged \subseteq 1..Len(targets)
         /\ log = 0 => Judged = 1..(pos - 1) /\ pos \notin Judged
                       /\ 1..pos = Judged \cup {pos}
<1>1. /\ pos \in Nat /\ pos > 0 /\ pos <= Len(targets) + 1 /\ Len(targets) \in Nat
      /\ log \in Nat
  BY TargetsAreSeqs, CloudInitAssumption DEF CloudTypeOK, CloudInitAssumption
<1>2. Judged \subseteq 1..Len(targets)
  BY <1>1 DEF Judged, Whereabouts
<1>3. QED BY <1>1, <1>2 DEF Judged

-----------------------------------------------------------------------------
LEMMA InitCloudInv == CloudInit => CloudInv
<1> SUFFICES ASSUME CloudInit PROVE CloudInv
  OBVIOUS
<1>1. Len(targets) = 0 /\ Judged = {} /\ Cardinality({}) = 0
  BY FS_EmptySet DEF CloudInit, Judged
<1>2. pos \in 1..Len(targets) + 1 /\ 0 \in 0..Commands + 1 /\ 0 \in 0..MaxRuns
  BY <1>1, CloudInitAssumption DEF CloudInit, CloudInitAssumption
<1>3. CloudTypeOK
  BY <1>1, <1>2 DEF CloudInit, CloudTypeOK
<1>4. Whereabouts /\ Counted /\ Proven
  BY <1>1 DEF CloudInit, Whereabouts, Counted, Proven
<1>5. Concluded
  BY StatusIsNoNumber DEF CloudInit, Concluded
<1>6. QED BY <1>3, <1>4, <1>5 DEF CloudInv

LEMMA StartCloudInv == ASSUME CloudInv, CloudStart PROVE CloudInv'
<1> USE DEF CloudInv
<1>1. /\ targets' \in Targets /\ patient' \in BOOLEAN /\ pos' = 1 /\ log' = 0
      /\ successful_nodes' = 0 /\ passed' = {} /\ UNCHANGED bootstrapped
      /\ \/ cpc' = "mkdir" /\ exitcode' = None
         \/ cpc' = "exited" /\ exitcode' = 1
      /\ runs' \in 0..MaxRuns
      /\ success_log' \in [Hosts -> {"none", "old", "success", "failure"}]
  BY CloudInitAssumption DEF CloudStart, CloudTypeOK, CloudInitAssumption
<1>2. Len(targets') \in Nat
  <2>1. PICK n \in 1..MaxTargets : targets' \in [1..n -> Hosts \cup {Empty}]
    BY <1>1 DEF Targets
  <2>2. targets' \in Seq(Hosts \cup {Empty})
    BY <2>1, SeqDef, CloudInitAssumption DEF CloudInitAssumption
  <2>3. QED BY <2>2, LenProperties
<1>3. Judged' = {} /\ Cardinality({}) = 0
  BY <1>1, FS_EmptySet DEF Judged
<1>4. CloudTypeOK'
  <2>1. pos' \in 1..Len(targets') + 1 /\ 0 \in 0..Len(targets') /\ 0 \in 0..Commands + 1
    BY <1>1, <1>2, CloudInitAssumption DEF CloudInitAssumption
  <2>2. QED BY <1>1, <2>1, StatusIsNoNumber DEF CloudTypeOK
<1>5. QED
  BY <1>1, <1>3, <1>4, StatusIsNoNumber DEF Whereabouts, Counted, Proven, Concluded

(* A step that only moves on, or ends the run with an error.                *)
LEMMA MoveCloudInv ==
  ASSUME CloudInv, CloudRunning,
         \/ CloudExit(1) \/ CloudGoto("killed")
         \/ cpc = "mkdir" /\ CloudGoto("host")
         \/ cpc = "host" /\ pos <= Len(targets) /\ Reachable /\ CloudGoto("nodedir")
         \/ cpc = "nodedir" /\ CloudGoto("check")
  PROVE  CloudInv'
<1> USE DEF CloudInv, perRun, counted
<1>1. UNCHANGED <<perRun, counted, pos, log, success_log, bootstrapped>>
  BY DEF CloudExit, CloudGoto
<1>2. \/ cpc' = "exited" /\ exitcode' = 1
      \/ cpc' = "killed" /\ exitcode' = exitcode
      \/ cpc = "mkdir" /\ cpc' = "host" /\ exitcode' = exitcode
      \/ /\ cpc = "host" /\ pos <= Len(targets) /\ targets[pos] \in Hosts
         /\ cpc' = "nodedir" /\ exitcode' = exitcode
      \/ cpc = "nodedir" /\ cpc' = "check" /\ exitcode' = exitcode
  BY DEF CloudExit, CloudGoto, Reachable
<1>3. exitcode = None
  BY DEF CloudRunning, CloudTypeOK
<1>4. CloudTypeOK'
  BY <1>1, <1>2, <1>3, StatusIsNoNumber DEF CloudTypeOK
<1>5. Judged' = Judged
  BY <1>1 DEF Judged
<1>6. QED
  BY <1>1, <1>2, <1>3, <1>4, <1>5, StatusIsNoNumber
     DEF Whereabouts, Counted, Proven, Concluded

(* A host that is skipped, before any of its logs.                          *)
LEMMA SkipCloudInv ==
  ASSUME CloudInv, cpc \in {"host", "nodedir"}, pos <= Len(targets),
         NextHost, UNCHANGED counted
  PROVE  CloudInv'
<1> USE DEF CloudInv, perRun, counted
<1>1. /\ log = 0 /\ log' = 0 /\ pos' = pos + 1 /\ cpc' = "host"
      /\ UNCHANGED <<perRun, counted, exitcode, success_log, bootstrapped>>
  BY DEF NextHost, Whereabouts
<1>2. pos \in Nat /\ Len(targets) \in Nat /\ exitcode = None
  BY JudgedRange, TargetsAreSeqs DEF CloudTypeOK
<1>3. Judged' = Judged \cup {pos} /\ pos \notin Judged
  <2>1. Judged' = 1..pos
    BY <1>1, <1>2 DEF Judged
  <2>2. QED BY <1>1, <2>1, JudgedRange
<1>4. CloudTypeOK'
  BY <1>1, <1>2 DEF CloudTypeOK
<1>5. passed' # Judged'
  BY <1>1, <1>3 DEF Counted
<1>6. QED
  BY <1>1, <1>2, <1>3, <1>4, <1>5, StatusIsNoNumber
     DEF Whereabouts, Counted, Proven, Concluded

(* The check of the host's bootstrap-success.complete.                      *)
LEMMA CheckCloudInv == ASSUME CloudInv, CheckBootstrap PROVE CloudInv'
<1> USE DEF CloudInv, perRun, counted
<1>1. /\ cpc = "check" /\ cpc' = "logs" /\ log = 0 /\ log' = 1
      /\ UNCHANGED <<perRun, pos, exitcode, bootstrapped>>
  BY DEF CheckBootstrap, Whereabouts
<1>2. /\ pos \in Nat /\ Len(targets) \in Nat /\ exitcode = None
      /\ pos <= Len(targets) /\ pos > 0 /\ targets[pos] \in Hosts
  BY <1>1, JudgedRange, TargetsAreSeqs DEF CloudTypeOK
<1>3. Judged' = Judged \cup {pos} /\ pos \notin Judged /\ Judged' \subseteq 1..Len(targets)
  <2>1. Judged' = 1..pos
    BY <1>1 DEF Judged
  <2>2. 1..pos \subseteq 1..Len(targets)
    BY <1>2
  <2>3. QED BY <1>1, <2>1, <2>2, JudgedRange
<1>4. success_log' \in [Hosts -> {"none", "old", "success", "failure"}]
  BY <1>2 DEF CheckBootstrap, CheckSucceeds, CheckFails, SuccessLogIs, CloudTypeOK
<1>5. IsFiniteSet(passed) /\ pos \notin passed
  BY <1>2, <1>3, AllCounted DEF CloudTypeOK, Counted
<1>6. Counted'
  <2>1. CASE CountHost
    <3>1. Cardinality(passed \cup {pos}) = Cardinality(passed) + 1
      BY <1>5, FS_AddElement
    <3>2. QED BY <1>3, <2>1, <3>1 DEF CountHost, Counted
  <2>2. CASE UNCHANGED counted
    BY <1>3, <2>2 DEF Counted
  <2>3. QED BY <2>1, <2>2 DEF CheckBootstrap
<1>7. passed' \subseteq 1..Len(targets) /\ successful_nodes' \in 0..Len(targets)
  BY <1>2, <1>3, <1>6, AllCounted DEF Counted
<1>8. CloudTypeOK'
  <2>1. log' \in 0..Commands + 1
    BY <1>1, CloudInitAssumption DEF CloudInitAssumption
  <2>2. QED BY <1>1, <1>2, <1>4, <1>7, <2>1 DEF CloudTypeOK
<1>9. Proven'
  <2>1. CASE CheckSucceeds /\ CountHost
    <3>1. /\ targets[pos] \in bootstrapped
          /\ success_log' = [success_log EXCEPT ![targets[pos]] = "success"]
          /\ passed' = passed \cup {pos}
      BY <2>1 DEF CheckSucceeds, SuccessLogIs, CountHost
    <3>2. passed' = Judged' => passed = Judged
      BY <1>3, <1>5, <3>1 DEF Counted
    <3>3. \A i \in passed' : targets[i] \in bootstrapped
      BY <3>1 DEF Proven
    <3>4. ASSUME passed = Judged, NEW i \in passed'
          PROVE  success_log'[targets[i]] = "success"
      BY <1>2, <3>1, <3>3, <3>4 DEF Proven, CloudTypeOK
    <3>5. QED BY <1>1, <3>2, <3>3, <3>4 DEF Proven
  <2>2. CASE UNCHANGED counted
    <3>1. passed' # Judged'
      BY <1>3, <1>5, <2>2
    <3>2. QED BY <1>1, <2>2, <3>1 DEF Proven
  <2>3. QED BY <2>1, <2>2 DEF CheckBootstrap
<1>10. Whereabouts' /\ Concluded'
  BY <1>1, <1>2, StatusIsNoNumber DEF Whereabouts, Concluded
<1>11. QED BY <1>6, <1>8, <1>9, <1>10

(* The log commands, whatever comes of them, and the end of the host.       *)
LEMMA CollectCloudInv ==
  ASSUME CloudInv, CollectLog \/ LogsCollected
  PROVE  CloudInv'
<1> USE DEF CloudInv, perRun, counted
<1>1. /\ cpc = "logs" /\ log > 0 /\ pos <= Len(targets) /\ exitcode = None
      /\ UNCHANGED <<perRun, counted, exitcode, success_log, bootstrapped>>
  BY DEF CollectLog, LogsCollected, NextHost, Whereabouts, CloudTypeOK
<1>2. pos \in Nat /\ log \in Nat /\ Len(targets) \in Nat /\ Commands \in Nat
  BY JudgedRange, TargetsAreSeqs, CloudInitAssumption DEF CloudInitAssumption
<1>3. /\ \/ cpc' = "logs" /\ log' = log + 1 /\ log <= Commands /\ pos' = pos
         \/ cpc' = "host" /\ log' = 0 /\ pos' = pos + 1
  BY DEF CollectLog, LogsCollected, NextHost
<1>4. Judged' = Judged
  BY <1>1, <1>2, <1>3 DEF Judged
<1>5. CloudTypeOK'
  <2>1. log' \in 0..Commands + 1 /\ pos' \in 1..Len(targets) + 1
    BY <1>1, <1>2, <1>3 DEF CloudTypeOK
  <2>2. QED BY <1>1, <1>3, <2>1 DEF CloudTypeOK
<1>6. Whereabouts'
  BY <1>1, <1>2, <1>3 DEF Whereabouts
<1>7. QED
  BY <1>1, <1>4, <1>5, <1>6, StatusIsNoNumber DEF Counted, Proven, Concluded

(* The exit status is 0 exactly if all positions have passed.               *)
LEMMA SummaryJudgesAll ==
  ASSUME CloudInv, Summary
  PROVE  /\ Judged = 1..Len(targets)
         /\ exitcode = None
         /\ exitcode' = IF passed = 1..Len(targets) THEN 0 ELSE 1
<1> USE DEF CloudInv
<1>1. /\ pos = Len(targets) + 1 /\ log = 0 /\ exitcode = None /\ Len(targets) \in Nat
      /\ pos \in Nat
  BY JudgedRange, TargetsAreSeqs DEF Summary, Whereabouts, CloudTypeOK
<1>2. Judged = 1..Len(targets)
  BY <1>1 DEF Judged
<1>3. successful_nodes = Len(targets) <=> passed = 1..Len(targets)
  BY <1>1, <1>2, AllCounted DEF Counted
<1>4. QED BY <1>1, <1>2, <1>3 DEF Summary, CloudExit

LEMMA SummaryCloudInv == ASSUME CloudInv, Summary PROVE CloudInv'
<1> USE DEF CloudInv, perRun, counted
<1>1. /\ Judged = 1..Len(targets)
      /\ exitcode' = IF passed = 1..Len(targets) THEN 0 ELSE 1
  BY SummaryJudgesAll
<1>2. cpc' = "exited" /\ UNCHANGED <<perRun, counted, pos, log, success_log, bootstrapped>>
  BY DEF Summary, CloudExit
<1>3. Judged' = Judged
  BY <1>2 DEF Judged
<1>4. CloudTypeOK'
  BY <1>1, <1>2, StatusIsNoNumber DEF CloudTypeOK
<1>5. QED
  BY <1>1, <1>2, <1>3, <1>4 DEF Whereabouts, Counted, Proven, Concluded

(* A host bootstraps: what was found to be so stays so.                     *)
LEMMA HostCloudInv == ASSUME CloudInv, HostBootstraps PROVE CloudInv'
<1> USE DEF CloudInv, perRun, counted
<1>1. /\ UNCHANGED <<perRun, counted, cpc, pos, log, exitcode, success_log>>
      /\ bootstrapped \subseteq bootstrapped' /\ bootstrapped' \subseteq Hosts
  BY DEF HostBootstraps, CloudTypeOK
<1>2. Judged' = Judged
  BY <1>1 DEF Judged
<1>3. CloudTypeOK'
  BY <1>1 DEF CloudTypeOK
<1>4. QED
  BY <1>1, <1>2, <1>3 DEF Whereabouts, Counted, Proven, Concluded

LEMMA NextCloudInv == CloudInv /\ [CloudNext]_cloudVars => CloudInv'
<1> SUFFICES ASSUME CloudInv, [CloudNext]_cloudVars PROVE CloudInv'
  OBVIOUS
<1>1. CASE CloudStart
  BY <1>1, StartCloudInv
<1>2. CASE MakeLogDir \/ CloudKilled
  BY <1>2, MoveCloudInv DEF MakeLogDir, CloudKilled, CloudRunning
<1>3. CASE CheckAvailable
  BY <1>3, MoveCloudInv, SkipCloudInv DEF CheckAvailable, CloudRunning
<1>4. CASE MakeNodeDir
  <2>1. cpc = "nodedir" => pos <= Len(targets)
    BY DEF CloudInv, CloudTypeOK
  <2>2. QED BY <1>4, <2>1, MoveCloudInv, SkipCloudInv DEF MakeNodeDir, CloudRunning
<1>5. CASE CheckBootstrap
  BY <1>5, CheckCloudInv
<1>6. CASE CollectLog \/ LogsCollected
  BY <1>6, CollectCloudInv
<1>7. CASE Summary
  BY <1>7, SummaryCloudInv
<1>8. CASE HostBootstraps
  BY <1>8, HostCloudInv
<1>9. CASE UNCHANGED cloudVars
  BY <1>9 DEF cloudVars, CloudInv, CloudTypeOK, Whereabouts, Counted, Proven,
              Concluded, Judged
<1>10. QED
  BY <1>1, <1>2, <1>3, <1>4, <1>5, <1>6, <1>7, <1>8, <1>9 DEF CloudNext, CloudStep

LEMMA CloudInvHolds == CloudSpec => []CloudInv
BY InitCloudInv, NextCloudInv, PTL DEF CloudSpec

-----------------------------------------------------------------------------
(* The types of main(), for any hosts and any number of them: it counts no  *)
(* more hosts than were given.                                              *)
THEOREM CloudTypeCorrect == CloudSpec => []CloudTypeOK
<1>1. CloudInv => CloudTypeOK
  BY DEF CloudInv
<1>2. QED BY <1>1, CloudInvHolds, PTL

(* An exit code of 0 proves every given host, for any number of hosts and   *)
(* runs on the same volume.                                                 *)
THEOREM ZeroMeansAll == CloudSpec => []ExitZeroMeansAll
<1>1. CloudInv => ExitZeroMeansAll
  BY DEF CloudInv, Proven, Concluded, ExitZeroMeansAll
<1>2. QED BY <1>1, CloudInvHolds, PTL

-----------------------------------------------------------------------------
LEMMA InitVerdict == CloudInit => Verdict!Init
BY DEF CloudInit, Verdict!Init

(* A step that is done with the host at hand, counted or not.               *)
LEMMA JudgeStep ==
  ASSUME CloudInv, log = 0, pos <= Len(targets), exitcode = None,
         Judged' = 1..pos, passed' \in {passed, passed \cup {pos}},
         UNCHANGED <<targets, exitcode>>
  PROVE  Verdict!Next
<1> USE DEF CloudInv
<1>1. /\ pos \in 1..Len(targets) /\ pos \in 1..MaxTargets
      /\ Judged' = Judged \cup {pos} /\ pos \notin Judged
  BY JudgedRange, TargetsAreSeqs
<1>2. Verdict!Judge(pos)
  BY <1>1 DEF Verdict!Judge, Judged
<1>3. QED BY <1>1, <1>2 DEF Verdict!Next

(* A step that leaves given, judged, passed and the status as they are.     *)
LEMMA StutterStep ==
  ASSUME UNCHANGED <<targets, passed, exitcode>>, Judged' = Judged
  PROVE  UNCHANGED Verdict!vars
BY DEF Verdict!vars, Judged

LEMMA NextVerdict ==
  ASSUME CloudInv, [CloudNext]_cloudVars
  PROVE  [Verdict!Next]_(Verdict!vars)
<1> USE DEF CloudInv, perRun, counted
<1>1. CASE CloudStart
  <2>1. /\ targets' \in Targets /\ Judged' = {} /\ passed' = {}
        /\ exitcode' \in {None, 1}
    BY <1>1 DEF CloudStart, Judged
  <2>2. 1..Len(targets') \in SUBSET (1..MaxTargets)
    <3>1. PICK n \in 1..MaxTargets : targets' \in [1..n -> Hosts \cup {Empty}]
      BY <2>1 DEF Targets
    <3>2. n \in Nat /\ targets' \in Seq(Hosts \cup {Empty})
      BY <3>1, SeqDef, CloudInitAssumption DEF CloudInitAssumption
    <3>3. Len(targets') = n
      BY <3>1, <3>2, LenProperties
    <3>4. QED BY <3>1, <3>2, <3>3, CloudInitAssumption DEF CloudInitAssumption
  <2>3. Verdict!Begin
    BY <2>1, <2>2 DEF Verdict!Begin, Judged
  <2>4. QED BY <2>3 DEF Verdict!Next
<1>2. ASSUME CloudExit(1), CloudRunning
      PROVE  Verdict!Next
  <2>1. exitcode = None /\ exitcode' = 1 /\ UNCHANGED <<targets, passed, pos, log>>
    BY <1>2 DEF CloudExit, CloudRunning, CloudTypeOK
  <2>2. Verdict!Abort
    BY <2>1 DEF Verdict!Abort
  <2>3. QED BY <2>2 DEF Verdict!Next
<1>3. ASSUME NEW label, CloudGoto(label)
      PROVE  UNCHANGED Verdict!vars
  <2>1. UNCHANGED <<targets, passed, exitcode, pos, log>>
    BY <1>3 DEF CloudGoto
  <2>2. QED BY <2>1, StutterStep DEF Judged
<1>4. ASSUME cpc \in {"host", "nodedir"}, pos <= Len(targets), NextHost,
             UNCHANGED counted
      PROVE  Verdict!Next
  <2>1. /\ log = 0 /\ log' = 0 /\ pos' = pos + 1 /\ exitcode = None /\ pos \in Nat
        /\ UNCHANGED <<targets, passed, exitcode>>
    BY <1>4, JudgedRange DEF NextHost, Whereabouts, CloudTypeOK
  <2>2. Judged' = 1..pos
    BY <2>1 DEF Judged
  <2>3. QED BY <1>4, <2>1, <2>2, JudgeStep
<1>5. CASE MakeLogDir \/ CheckAvailable \/ MakeNodeDir
  <2>1. cpc = "nodedir" => pos <= Len(targets)
    BY DEF CloudTypeOK
  <2>2. QED
    BY <1>2, <1>3, <1>4, <1>5, <2>1
       DEF MakeLogDir, CheckAvailable, MakeNodeDir, CloudRunning
<1>6. CASE CheckBootstrap
  <2>1. /\ log = 0 /\ log' = 1 /\ pos <= Len(targets) /\ exitcode = None
        /\ UNCHANGED <<targets, exitcode, pos>>
    BY <1>6 DEF CheckBootstrap, Whereabouts, CloudTypeOK
  <2>2. Judged' = 1..pos
    BY <2>1 DEF Judged
  <2>3. passed' \in {passed, passed \cup {pos}}
    BY <1>6 DEF CheckBootstrap, CountHost
  <2>4. QED BY <2>1, <2>2, <2>3, JudgeStep
<1>7. CASE CollectLog \/ LogsCollected
  <2>1. pos \in Nat /\ log \in Nat /\ log > 0
    BY <1>7, JudgedRange DEF CollectLog, LogsCollected, Whereabouts
  <2>2. /\ UNCHANGED <<targets, passed, exitcode>>
        /\ \/ log' = log + 1 /\ pos' = pos
           \/ log' = 0 /\ pos' = pos + 1
    BY <1>7 DEF CollectLog, LogsCollected, NextHost
  <2>3. Judged' = Judged
    BY <2>1, <2>2 DEF Judged
  <2>4. QED BY <2>2, <2>3, StutterStep
<1>8. CASE Summary
  <2>1. /\ Judged = 1..Len(targets) /\ exitcode = None
        /\ exitcode' = IF passed = 1..Len(targets) THEN 0 ELSE 1
    BY <1>8, SummaryJudgesAll
  <2>2. UNCHANGED <<targets, passed, pos, log>>
    BY <1>8 DEF Summary, CloudExit
  <2>3. Verdict!Conclude
    BY <2>1, <2>2 DEF Verdict!Conclude, Judged
  <2>4. QED BY <2>3 DEF Verdict!Next
<1>9. CASE CloudKilled
  BY <1>3, <1>9 DEF CloudKilled
<1>10. CASE HostBootstraps \/ UNCHANGED cloudVars
  <2>1. UNCHANGED <<targets, passed, exitcode, pos, log>>
    BY <1>10 DEF HostBootstraps, cloudVars
  <2>2. QED BY <2>1, StutterStep DEF Judged
<1>11. QED
  BY <1>1, <1>5, <1>6, <1>7, <1>8, <1>9, <1>10 DEF CloudNext, CloudStep

(* The tool keeps the promise of BootstrapVerdict, for any number of hosts: *)
(* the exit status is 0 exactly if all that were given have bootstrapped.   *)
THEOREM GivesVerdict == CloudSpec => VerdictSpec
BY InitVerdict, NextVerdict, CloudInvHolds, PTL
   DEF CloudSpec, VerdictSpec, Verdict!Spec
-----------------------------------------------------------------------------
(* A run comes to an end: the part of CloudEnds that needs no fairness.     *)

(* Steps for a host: is it there, its directory, the check, its logs, the   *)
(* next.                                                                    *)
StepsPerHost == Commands + 4

HostsTake == (Len(targets) + 1 - pos) * StepsPerHost

CloudStepsLeft ==
  CASE cpc = "mkdir"   -> HostsTake + 2
    [] cpc = "host"    -> HostsTake + 1
    [] cpc = "nodedir" -> HostsTake
    [] cpc = "check"   -> HostsTake - 1
    [] cpc = "logs"    -> HostsTake - 1 - log
    [] OTHER           -> 0

LEMMA OneHostLess ==
  ASSUME NEW n \in Nat, NEW k \in Nat
  PROVE  /\ n * k \in Nat
         /\ (n + 1) * k = n * k + k
OBVIOUS

LEMMA FewerHosts ==
  ASSUME NEW n \in Nat, NEW m \in 0..n, NEW k \in Nat
  PROVE  m * k <= n * k
<1>1. /\ n - m \in Nat /\ (n - m) * k \in Nat
  OBVIOUS
<1>2. n * k = m * k + (n - m) * k
  OBVIOUS
<1>3. QED BY <1>1, <1>2, m * k \in Nat, n * k \in Nat

(* The product of hosts and steps, for the provers to work with as a number. *)
LEMMA HostsTakeRange ==
  ASSUME CloudInv
  PROVE  /\ Commands \in Nat /\ StepsPerHost = Commands + 4
         /\ HostsTake \in 0..(Len(targets) * StepsPerHost)
         /\ Len(targets) * StepsPerHost \in Nat
         /\ pos <= Len(targets) => HostsTake >= StepsPerHost
<1> DEFINE hosts == Len(targets) + 1 - pos
<1>1. /\ Len(targets) \in Nat /\ pos \in Nat /\ pos > 0 /\ pos <= Len(targets) + 1
      /\ Commands \in Nat /\ StepsPerHost \in Nat /\ StepsPerHost = Commands + 4
  BY JudgedRange, TargetsAreSeqs, CloudInitAssumption
     DEF CloudInv, CloudInitAssumption, StepsPerHost, CloudTypeOK
<1>2. hosts \in 0..Len(targets)
  BY <1>1
<1>3. /\ hosts * StepsPerHost \in Nat
      /\ hosts * StepsPerHost <= Len(targets) * StepsPerHost
      /\ Len(targets) * StepsPerHost \in Nat
  <2> HIDE DEF hosts
  <2>1. hosts \in Nat
    BY <1>1, <1>2
  <2>2. QED BY <1>1, <1>2, <2>1, OneHostLess, FewerHosts
<1>4. ASSUME pos <= Len(targets) PROVE hosts * StepsPerHost >= StepsPerHost
  <2>1. hosts - 1 \in Nat /\ hosts = (hosts - 1) + 1
    BY <1>1, <1>4
  <2> HIDE DEF hosts
  <2>2. /\ (hosts - 1) * StepsPerHost \in Nat
        /\ ((hosts - 1) + 1) * StepsPerHost = (hosts - 1) * StepsPerHost + StepsPerHost
    BY <1>1, <2>1, OneHostLess
  <2> DEFINE before == (hosts - 1) * StepsPerHost
  <2>3. hosts * StepsPerHost = before + StepsPerHost /\ before \in Nat
    BY <2>1, <2>2
  <2> HIDE DEF before
  <2>4. QED BY <1>1, <2>3
<1>5. QED BY <1>1, <1>3, <1>4 DEF HostsTake

LEMMA HostsTakeNext ==
  ASSUME CloudInv, pos <= Len(targets), UNCHANGED targets, pos' = pos + 1
  PROVE  HostsTake = HostsTake' + StepsPerHost
<1>1. /\ Len(targets) \in Nat /\ pos \in Nat /\ StepsPerHost \in Nat
  BY JudgedRange, TargetsAreSeqs, CloudInitAssumption
     DEF CloudInv, CloudInitAssumption, StepsPerHost
<1> DEFINE hosts == Len(targets') + 1 - pos'
<1>2. hosts \in Nat /\ Len(targets) + 1 - pos = hosts + 1
  BY <1>1
<1>3. HostsTake' = hosts * StepsPerHost /\ HostsTake = (hosts + 1) * StepsPerHost
  BY <1>2 DEF HostsTake, StepsPerHost
<1> HIDE DEF hosts
<1>4. QED BY <1>1, <1>2, <1>3, OneHostLess

LEMMA CloudStepsLeftRange ==
  ASSUME CloudInv, CloudRunning
  PROVE  CloudStepsLeft \in 1..(Len(targets) * StepsPerHost + 2)
<1> DEFINE all == Len(targets) * StepsPerHost
<1>1. /\ log \in Nat /\ log <= Commands + 1
      /\ cpc \in {"nodedir", "check", "logs"} => pos <= Len(targets)
      /\ cpc \in {"mkdir", "host", "nodedir", "check", "logs"}
  BY JudgedRange, CloudInitAssumption
     DEF CloudInv, CloudInitAssumption, CloudTypeOK, CloudRunning
<1>2. /\ Commands \in Nat /\ StepsPerHost = Commands + 4
      /\ HostsTake \in Nat /\ HostsTake <= all /\ all \in Nat
      /\ pos <= Len(targets) => HostsTake >= StepsPerHost
  BY HostsTakeRange
<1> HIDE DEF all
<1>3. CloudStepsLeft \in 1..(all + 2)
  <2>1. CASE cpc \in {"mkdir", "host"}
    BY <1>2, <2>1 DEF CloudStepsLeft
  <2>2. CASE cpc \in {"nodedir", "check", "logs"}
    <3>1. HostsTake >= Commands + 4
      BY <1>1, <1>2, <2>2
    <3>2. CASE cpc = "nodedir"
      BY <1>2, <3>1, <3>2 DEF CloudStepsLeft
    <3>3. CASE cpc = "check"
      BY <1>2, <3>1, <3>3 DEF CloudStepsLeft
    <3>4. CASE cpc = "logs"
      BY <1>1, <1>2, <3>1, <3>4 DEF CloudStepsLeft
    <3>5. QED BY <2>2, <3>2, <3>3, <3>4
  <2>3. QED BY <1>1, <2>1, <2>2
<1>4. QED BY <1>3 DEF all

LEMMA NextCloudStepsLeft ==
  ASSUME CloudInv, CloudStep
  PROVE  CloudStepsLeft' < CloudStepsLeft
<1>1. /\ Commands \in Nat /\ StepsPerHost = Commands + 4 /\ HostsTake \in Nat
      /\ log \in Nat
      /\ cpc \in {"nodedir", "check", "logs"} => pos <= Len(targets) /\ log <= Commands + 1
  BY HostsTakeRange, JudgedRange, CloudInitAssumption
     DEF CloudInv, CloudTypeOK, CloudInitAssumption
<1>2. CloudStepsLeft > 0 /\ CloudStepsLeft \in Nat
  <2>1. CloudRunning
    BY DEF CloudStep, MakeLogDir, CheckAvailable, MakeNodeDir, CheckBootstrap,
       CollectLog, LogsCollected, Summary, CloudRunning
  <2>2. Len(targets) * StepsPerHost \in Nat
    BY HostsTakeRange
  <2>3. QED BY <2>1, <2>2, CloudStepsLeftRange
(* The run ends, stays with the host, or goes on to the next.               *)
<1>3. ASSUME cpc' = "exited" PROVE CloudStepsLeft' < CloudStepsLeft
  <2>1. CloudStepsLeft' = 0
    BY <1>3 DEF CloudStepsLeft
  <2>2. QED BY <1>2, <2>1
<1>4. ASSUME UNCHANGED <<targets, pos>> PROVE HostsTake' = HostsTake
  BY <1>4 DEF HostsTake, StepsPerHost
<1>5. ASSUME pos <= Len(targets), NextHost, cpc \in {"host", "nodedir", "logs"}
      PROVE  CloudStepsLeft' < CloudStepsLeft
  <2>1. HostsTake = HostsTake' + StepsPerHost
    BY <1>5, HostsTakeNext DEF NextHost, perRun
  <2>2. CloudStepsLeft' = HostsTake' + 1
    BY <1>5 DEF NextHost, CloudStepsLeft
  <2>3. HostsTake' \in Int
    <3>1. UNCHANGED targets /\ pos' = pos + 1 /\ pos \in Nat /\ Len(targets) \in Nat
      BY <1>5, JudgedRange, TargetsAreSeqs DEF NextHost, perRun, CloudInv
    <3>2. Len(targets') + 1 - pos' \in Int /\ StepsPerHost \in Int
      BY <1>1, <3>1
    <3>3. HostsTake' = (Len(targets') + 1 - pos') * StepsPerHost
      BY DEF HostsTake, StepsPerHost
    <3>4. QED BY <3>2, <3>3
  <2>4. QED BY <1>1, <1>5, <2>1, <2>2, <2>3 DEF CloudStepsLeft
<1>6. CASE MakeLogDir
  <2>1. CASE CloudGoto("host")
    BY <1>1, <1>4, <1>6, <2>1 DEF MakeLogDir, CloudGoto, perRun, CloudStepsLeft
  <2>2. QED BY <1>3, <1>6, <2>1 DEF MakeLogDir, CloudExit
<1>7. CASE CheckAvailable
  <2>1. CASE CloudGoto("nodedir")
    BY <1>1, <1>4, <1>7, <2>1 DEF CheckAvailable, CloudGoto, perRun, CloudStepsLeft
  <2>2. QED BY <1>5, <1>7, <2>1 DEF CheckAvailable
<1>8. CASE MakeNodeDir
  <2>1. CASE CloudGoto("check")
    BY <1>1, <1>4, <1>8, <2>1 DEF MakeNodeDir, CloudGoto, perRun, CloudStepsLeft
  <2>2. QED BY <1>1, <1>3, <1>5, <1>8, <2>1 DEF MakeNodeDir, CloudExit
<1>9. CASE CheckBootstrap
  BY <1>1, <1>4, <1>9 DEF CheckBootstrap, perRun, CloudStepsLeft
<1>10. CASE CollectLog
  BY <1>1, <1>4, <1>10 DEF CollectLog, perRun, CloudStepsLeft
<1>11. CASE LogsCollected
  BY <1>1, <1>5, <1>11 DEF LogsCollected
<1>12. CASE Summary
  BY <1>3, <1>12 DEF Summary, CloudExit
<1>13. QED
  BY <1>6, <1>7, <1>8, <1>9, <1>10, <1>11, <1>12 DEF CloudStep

(* A run over n hosts, whichever of them fail and wherever, takes at most   *)
(* n * (Commands + 4) + 2 steps: each takes one off a bound that is         *)
(* positive while the run goes on.                                          *)
THEOREM CloudIsBounded ==
  CloudSpec =>
    /\ [](CloudRunning => CloudStepsLeft \in 1..(Len(targets) * (Commands + 4) + 2))
    /\ [][CloudStep => CloudStepsLeft' < CloudStepsLeft]_cloudVars
<1>1. CloudInv => (CloudRunning => CloudStepsLeft \in 1..(Len(targets) * (Commands + 4) + 2))
  BY CloudStepsLeftRange DEF StepsPerHost
<1>2. CloudInv => [CloudStep => CloudStepsLeft' < CloudStepsLeft]_cloudVars
  BY NextCloudStepsLeft
<1>3. QED BY <1>1, <1>2, CloudInvHolds, PTL DEF CloudSpec
=============================================================================
