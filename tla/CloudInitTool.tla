--------------------------- MODULE CloudInitTool ---------------------------
(***************************************************************************)
(* cloud-init-tool/main.py: one container run asks every target host over  *)
(* SSH whether it has bootstrapped, collects its logs and exits with 0 if  *)
(* all of them have.  The directory /output-logs is a volume that outlives *)
(* the run; a run may be killed and another one started on the same        *)
(* volume, with other targets.  The hosts go on bootstrapping meanwhile.   *)
(*                                                                         *)
(* A step is one SSH command or one directory.  Of the log files only the  *)
(* host's bootstrap-success.log is kept, the others are a number of        *)
(* commands whose outcome nobody looks at.                                 *)
(***************************************************************************)
EXTENDS Naturals, Sequences

CONSTANTS
  Hosts,       \* user@address of the hosts
  Empty,       \* the host that a trailing or doubled ';' makes
  Commands,    \* number of commands of DEFAULT_LOGS and EXTRA_COMMANDS
  MaxTargets,  \* bound on the hosts in TARGET_HOSTS
  MaxRuns,     \* bound on the container runs
  None

ASSUME CloudInitAssumption ==
  /\ Empty \notin Hosts
  /\ None \notin Nat
  /\ {Commands, MaxTargets, MaxRuns} \subseteq Nat

VARIABLES
  cpc,               \* where main() is
  targets,           \* cfg[Vars.HOSTS]
  patient,           \* SSH_TIMEOUT is more than 0
  pos,               \* position of the host at hand
  log,               \* number of the next log command, 0 before the check
  successful_nodes,
  exitcode,          \* of the run, or None
  success_log,       \* bootstrap-success.log of each host on the volume
  bootstrapped,      \* hosts with a bootstrap-success.complete
  runs,              \* container runs so far
  passed             \* history: the positions counted in successful_nodes

cloudVars == <<cpc, targets, patient, pos, log, successful_nodes, exitcode,
               success_log, bootstrapped, runs, passed>>
perRun == <<targets, patient, runs>>
counted == <<successful_nodes, passed>>

Targets == UNION {[1..n -> Hosts \cup {Empty}] : n \in 1..MaxTargets}

CloudInit ==
  /\ cpc = "idle"
  /\ targets = << >>
  /\ patient = TRUE
  /\ pos = 1
  /\ log = 0
  /\ successful_nodes = 0
  /\ exitcode = None
  /\ success_log = [h \in Hosts |-> "none"]
  /\ bootstrapped = {}
  /\ runs = 0
  /\ passed = {}

CloudRunning == cpc \notin {"idle", "exited", "killed"}

(* docker run, up to the end of parse_env: without TARGET_HOSTS, or with an *)
(* SSH_TIMEOUT that is no number, it exits with 1.                          *)
CloudStart ==
  /\ ~CloudRunning
  /\ runs < MaxRuns
  /\ runs' = runs + 1
  /\ targets' \in Targets
  /\ patient' \in BOOLEAN
  /\ pos' = 1
  /\ log' = 0
  /\ successful_nodes' = 0
  /\ passed' = {}
  /\ \/ cpc' = "mkdir" /\ exitcode' = None
     \/ cpc' = "exited" /\ exitcode' = 1
  /\ success_log' = [h \in Hosts |->
                       IF success_log[h] = "none" THEN "none" ELSE "old"]
  /\ UNCHANGED bootstrapped

CloudExit(code) ==
  /\ cpc' = "exited"
  /\ exitcode' = code
  /\ UNCHANGED <<perRun, counted, pos, log, success_log, bootstrapped>>

CloudGoto(label) ==
  /\ cpc' = label
  /\ UNCHANGED <<perRun, counted, pos, log, exitcode, success_log,
                 bootstrapped>>

(* os.mkdir(LOG_DIR): made, there already, or not permitted. *)
MakeLogDir ==
  /\ cpc = "mkdir"
  /\ CloudGoto("host") \/ CloudExit(1)

NextHost ==
  /\ cpc' = "host"
  /\ pos' = pos + 1
  /\ log' = 0
  /\ UNCHANGED <<perRun, exitcode, success_log, bootstrapped>>

(* run_ssh_command cannot succeed without a host, nor with a timeout of 0.  *)
Reachable == targets[pos] \in Hosts /\ patient

(* Mutant: a host that does not answer is tried again. *)
CheckAvailableAgain ==
  /\ cpc = "host"
  /\ pos <= Len(targets)
  /\ \/ Reachable /\ CloudGoto("nodedir")
     \/ CloudGoto("host")

(* ssh true: a host that is not available is skipped. *)
CheckAvailable ==
  /\ cpc = "host"
  /\ pos <= Len(targets)
  /\ \/ Reachable /\ CloudGoto("nodedir")
     \/ NextHost /\ UNCHANGED counted

(* A PermissionError skips the host, any other OSError ends the run. *)
MakeNodeDir ==
  /\ cpc = "nodedir"
  /\ \/ CloudGoto("check")
     \/ NextHost /\ UNCHANGED counted
     \/ CloudExit(1)

SuccessLogIs(content) ==
  success_log' = [success_log EXCEPT ![targets[pos]] = content]

CountHost ==
  /\ successful_nodes' = successful_nodes + 1
  /\ passed' = passed \cup {pos}

(* The file of the host is there, and so is its log. *)
CheckSucceeds ==
  /\ targets[pos] \in bootstrapped
  /\ Reachable
  /\ SuccessLogIs("success")

(* The command exits with another code, which is logged; or it times out or *)
(* its log cannot be written, and the log stays or is cut short; or the log *)
(* of a success is written and the line printed after it raises.            *)
CheckFails ==
  \/ SuccessLogIs("failure")
  \/ UNCHANGED success_log
  \/ CheckSucceeds

(* Mutant: the result of a command whose log was not written counts. *)
CheckBootstrapUnlogged ==
  /\ cpc = "check"
  /\ \/ CheckSucceeds /\ CountHost
     \/ targets[pos] \in bootstrapped /\ UNCHANGED success_log /\ CountHost
     \/ CheckFails /\ UNCHANGED counted
  /\ cpc' = "logs"
  /\ log' = 1
  /\ UNCHANGED <<perRun, pos, exitcode, bootstrapped>>

CheckBootstrap ==
  /\ cpc = "check"
  /\ \/ CheckSucceeds /\ CountHost
     \/ CheckFails /\ UNCHANGED counted
  /\ cpc' = "logs"
  /\ log' = 1
  /\ UNCHANGED <<perRun, pos, exitcode, bootstrapped>>

(* Mutant: the result of a log command is taken for the host's. *)
CollectLogCounts ==
  /\ cpc = "logs"
  /\ log <= Commands
  /\ log' = log + 1
  /\ successful_nodes' \in {successful_nodes, successful_nodes + 1}
  /\ UNCHANGED <<perRun, cpc, pos, passed, exitcode, success_log, bootstrapped>>

(* One command of DEFAULT_LOGS or EXTRA_COMMANDS, whatever comes of it. *)
CollectLog ==
  /\ cpc = "logs"
  /\ log <= Commands
  /\ log' = log + 1
  /\ UNCHANGED <<perRun, counted, cpc, pos, exitcode, success_log, bootstrapped>>

LogsCollected ==
  /\ cpc = "logs"
  /\ log > Commands
  /\ NextHost
  /\ UNCHANGED counted

(* Mutant: the run succeeds if any host has. *)
SummaryAny ==
  /\ cpc = "host"
  /\ pos > Len(targets)
  /\ CloudExit(IF successful_nodes > 0 THEN 0 ELSE 1)

Summary ==
  /\ cpc = "host"
  /\ pos > Len(targets)
  /\ CloudExit(IF successful_nodes = Len(targets) THEN 0 ELSE 1)

CloudStep ==
  \/ MakeLogDir \/ CheckAvailable \/ MakeNodeDir \/ CheckBootstrap
  \/ CollectLog \/ LogsCollected \/ Summary

CloudKilled == CloudRunning /\ CloudGoto("killed")

HostBootstraps ==
  /\ \E h \in Hosts \ bootstrapped : bootstrapped' = bootstrapped \cup {h}
  /\ UNCHANGED <<perRun, counted, cpc, pos, log, exitcode, success_log>>

CloudNext == CloudStart \/ CloudStep \/ CloudKilled \/ HostBootstraps

CloudSpec == CloudInit /\ [][CloudNext]_cloudVars

-----------------------------------------------------------------------------
(* Types; the host at hand is one that exists, and a code goes with an exit. *)
CloudTypeOK ==
  /\ cpc \in {"idle", "mkdir", "host", "nodedir", "check", "logs", "exited",
              "killed"}
  /\ targets \in Targets \cup {<< >>}
  /\ patient \in BOOLEAN
  /\ pos \in 1..Len(targets) + 1
  /\ log \in 0..Commands + 1
  /\ successful_nodes \in 0..Len(targets)
  /\ exitcode \in {None, 0, 1}
  /\ success_log \in [Hosts -> {"none", "old", "success", "failure"}]
  /\ bootstrapped \subseteq Hosts
  /\ runs \in 0..MaxRuns
  /\ passed \subseteq 1..Len(targets)
  /\ cpc \in {"nodedir", "check", "logs"} =>
       pos <= Len(targets) /\ targets[pos] \in Hosts
  /\ exitcode # None <=> cpc = "exited"

(* An exit code of 0 is proof of every given host: it has bootstrapped, and *)
(* its bootstrap-success.log is one this run wrote about a success, though  *)
(* a host may be given twice, the volume holds files of earlier runs and a  *)
(* log may fail to be written.                                              *)
ExitZeroMeansAll ==
  exitcode = 0 => \A i \in 1..Len(targets) :
                    /\ targets[i] \in bootstrapped
                    /\ success_log[targets[i]] = "success"

(* The tool implements BootstrapVerdict: the number it counts says of every *)
(* host, whichever of its commands failed, what the exit status promises.   *)
Verdict == INSTANCE BootstrapVerdict WITH
  Positions <- 1..MaxTargets,
  given <- 1..Len(targets),
  judged <- 1..(IF log > 0 THEN pos ELSE pos - 1),
  status <- exitcode

VerdictSpec == Verdict!Spec

(* A run ends, however many hosts do not answer: every SSH command has a    *)
(* timeout and no host is tried for ever.                                   *)
CloudEnds == CloudRunning ~> ~CloudRunning
=============================================================================
