# TLA+ specifications of the Metal3 utility images

This directory specifies the programs of this repository that keep state of
their own, above all FakeIPA (`fake-ipa/`), a server that pretends to be the
Ironic Python Agent of many machines at once. Paths below are relative to
`fake-ipa/fake_ipa/` unless they say otherwise.

## The system

| component | state | operations | called by |
|---|---|---|---|
| notification handler (`main.py`) | `booted_q`, `app.agents` | `PUT /`, `boot`, `remove_from_heartbeater` | sushy-tools, one Flask thread per request |
| fake agent (`fake_agent.py`) | class attributes of `initialize`, `node`, token, timeout | `boot` in a thread of its own, `process_lookup_data` | notification handler |
| heartbeater (`heartbeater.py`) | `queue`, `remove_from_q`, intervals | `heartbeat` (the loop of the pool's threads), `add_to_q`, `remove_from_heartbeater_q` | boot threads, Flask threads, its own threads |
| command interface (`base.py`, routes in `main.py`) | `command_results` of each agent | execute, get, list; `refresh_last_async_command` | Ironic, one Flask thread per request |
| extensions (`standby`, `clean`, `deploy`, `image`, `log`) | none | the commands | command interface |
| API client (`ironic_api_client.py`) | cached API version, token | `lookup_node` with retries, `heartbeat` | boot and heartbeat threads |
| inspector (`inspector.py`) | none | `inspect` with retries | boot threads |
| cloud-init tool (`cloud-init-tool/main.py`) | count of bootstrapped hosts, log files | one sequential run | a container |
| keepalived start (`keepalived/manage-keepalived.sh`) | a configuration file on a volume | one sequential run | a container, restarted |
| iPXE builder (`ipxe-builder/buildipxe.sh`) | a source tree, the firmware | one sequential run | an init container |

A power notification makes a Flask thread add the system to `booted_q` and start
a boot thread, which sleeps, sends inspection data, looks the node up in Ironic,
registers the agent in `app.agents` and appends it to the heartbeater's deque.
Two daemon threads pop agents from the deque, heartbeat them and append them
again. Off removes the system from `booted_q` and puts a mark into
`remove_from_q`; the thread that pops an agent of a marked system uses the mark
up and drops the agent. Ironic, told the callback URL by the heartbeat, sends
commands to the agent.

What is hard here: three kinds of threads share these objects and the program
takes no lock (`command_lock` exists and is never used), so correctness rests on
the atomicity of single operations of Python's `deque`, `set` and `dict`; a
removal is a request that another thread fulfils later; a new boot cancels the
mark of an old shutdown; commands have no thread of their own and run when some
later request finds them due. Towards Ironic, answers are lost after Ironic acted
on them (a token is handed out once), version discovery fails at times, and
requests have no timeout. The container programs can be killed between any two
commands and started again on volumes that still hold what they left.

What makes the parts correct, in a line each: an agent is in one place at a time
and a mark takes out the agent it is for (heartbeater); one agent per system, off
when the system is off (notification handler); no command is forgotten, a
response is complete, what is done stays (command interface); the token in use is
the one Ironic expects and every request says a version Ironic speaks (API
client, tokens); exit status 0 proves every host (cloud-init tool); what runs is
what this start was asked for (keepalived start, iPXE builder).

## Modules

- `HeartbeatPool`: the abstract specification. An agent joins once, is
  heartbeated by one caller at a time, and leaves by a mark, each mark taking
  out one agent, or because its thread died.
- `Heartbeater`: `heartbeater.py`. A step is one operation on a shared object.
  `queue` and `remove_from_q` are the class attributes; `pc[t]` and `entry[t]`
  are where thread `t` is in `heartbeat()` and the tuple it popped; `adding[a]`
  is where the boot thread of `a` is in `add_to_q`. `due[a]` keeps of
  `previous_heartbeat` and the interval only the outcome of
  `_heartbeat_expected`. `printq` is two steps, since a change of the deque
  during its loop raises RuntimeError. The tuple an agent is in is the agent
  itself; `SystemOf` gives its system.
- `Lifecycle`: `main.py` and `fake_agent.py` on top of `Heartbeater`, which it
  EXTENDS and whose operators it calls where the code calls the class. `hpc[h]`
  and `request[h]` are where a Flask thread is in `notification_handler`,
  `boot[a]` where the boot thread is, `api` and `logger` what `hasattr` would
  say. `overlapped` is a history variable used only by properties: the systems
  for which a notification was acted on before the opposite one had taken effect.
  Power-offs that race each other do not count: one of them removes the system
  from `booted_q`, the others end in a KeyError.
- `PowerSwitch`: the abstract specification of the notification handler, over
  systems instead of threads, sets and marks: a system switched on boots one
  agent, one switched off has its agent marked before it counts as off and is not
  switched on again before that agent left, and no mark outlives the next boot.
  `Lifecycle` maps to it what its handlers, boot threads and the heartbeater have
  in hand for a system (`Power`, `AgentOf`); a system in `overlapped` is out of
  its reach.
- `CommandLog`: the abstract specification of the command interface: a log to
  which a command is added when all before it are done, and in which each comes
  to its outcome (status, result and error) in one step, a background command
  once and not before its time. `Commands` maps to it what a client may see of a
  result (`Seen`), so that a command that was run but whose status is not set yet
  is still pending, and one that is run twice has its outcome already.
- `Commands`: `base.py`, the command routes, and the outcomes of the commands of
  the five extensions. `results` is the `OrderedDict` of one agent.
- `TokenHandshake`: the abstract specification of one boot's tokens. Ironic hands
  a token out at most once, the agent ends up with that token, with none or not
  at all, and is accepted only with the token Ironic expects.
- `ApiClient`: `ironic_api_client.py`, `inspector.py`, and the token part of
  `fake_agent.py`, for one boot. `boot` is where the boot thread is, `request`
  the lookup or heartbeat under way, `api_version` the class's cached version,
  `agent_token` and `client_token` the two attributes of that name, `required`
  whether `agent_token_required` exists. `version`, `requires`, `expects` and
  `faulty` are Ironic and the network, modelled from what the client takes them
  for. The discovery of the version and the request after it are one step, as
  nothing else of this boot happens in between.
- `BootstrapVerdict`: the abstract specification of the cloud-init tool, over
  sets of hosts: each is judged once, and the exit status is 0 exactly if all
  passed.
- `CloudInitTool`: `cloud-init-tool/main.py`. A step is one SSH command or one
  directory; `log` counts the log commands of the host at position `pos`,
  `success_log` is the `bootstrap-success.log` of each host on the volume.
- `Keepalived`: `keepalived/manage-keepalived.sh`. A step is one command of the
  script or one turn of its loop; `conf` is the file in the mounted directory,
  reduced to the placeholders left in it and what replaced the others.
- `IpxeBuild`: `ipxe-builder/buildipxe.sh`. `tree` is `/tmp/ipxe-source`, reduced
  to whether it is complete and which edits it has had, `firmware` the two files
  on the shared volume, each with how and by which start it was built and whether
  it is cut short: `cp` empties a file (`CopyOpens`) before it writes it
  (`CopyFirst`, `CopySecond`), may fail at either file, goes on with the other and
  fails in the end. `good` is a history variable: the starts that ended well.
- `Containers` EXTENDS the last three. The programs share nothing, so a behaviour
  is one of either: `ContainersNext` lets a program step only while the others
  have not started. All their states are reached, and they add up instead of
  multiplying.
- `HeartbeaterProofs`, `LifecycleProofs`, `CommandsProofs`, `ApiClientProofs`,
  `CloudInitToolProofs`, `KeepalivedProofs`, `IpxeBuildProofs`,
  `ContainersProofs`: theorems.
- `MCHeartbeater`, `MCLifecycle`, `MCCommands`, `MCApiClient`, `MCContainers`:
  constants for TLC. Operators introduced by a comment `Mutant:` are wrong variants of an operation that no
  specification uses; each makes one property of a run fail.

## Runs

| run | instance | result |
|---|---|---|
| `heartbeater` | 3 agents of 2 systems, one `Silent`, 2 threads | passes, 60,216 states |
| `lifecycle` | 2 boots of a system, 2 handlers with a heartbeat thread each | passes, 145,851 states |
| `commands` | 1 poster, 1 poller, 3 results | passes, 84,996 states |
| `api_client` | versions 1.35, 1.61, 1.62, 1.70, waits of 1 and 2 s, timeout 3 s | passes, 26,776 states |
| `containers` | 2 runs over up to 2 of 2 hosts; 2 starts with up to 2 of 3 entries; 2 builds | passes, 181,778 states |
| `heartbeater_survive` | 2 agents, 2 threads | `HeartbeatersSurvive` violated |
| `lifecycle_off` | 1 handler | `OffTakesEffect` violated |
| `lifecycle_duplicate` | 2 handlers | `DuplicateOnIgnored` violated |
| `commands_busy` | 2 posters | `AtMostOneRunning` violated |
| `commands_join` | 1 poster | `JoinedIsDone` violated |
| `commands_errors` | 1 poster | `ErrorsAreMessages` violated |
| `ipxe_https` | as `containers` | `HttpsSwitchDecides` violated |

**heartbeater** drives the class by arbitrary callers. `SingleCarrier`: without
a lock no agent is ever with two threads or twice in the deque.
`MarkStolenOnlyByTwin`: the window between the test of a mark and its removal
is closed unless a system has two agents. `PoolSpec`: the class implements
`HeartbeatPool`. `NoOvertaking`: an agent leaves the deque only from its head and
no agent that is put back or added later gets before it, which is what makes the
waiting of every agent bounded. `ServedAgentBeats` and `MarkedAgentLeaves`: no agent starves and
a mark reaches its agent while a thread is left. Bounds: two agents of one
system are what a stolen mark needs, a third of another system and two threads
what starvation needs; the `Silent` agent takes a thread away for ever.

**lifecycle** composes everything a power notification touches. Conflicts of
notifications are what the code does not protect against, so the properties
whose names end in `Alone`, and `OneLiveAgent`, are claimed for systems whose
notifications did not overlap (`overlapped`), at every interleaving with boot
and heartbeat threads and with all that goes on for other systems, and of
power-offs of one system among each other. A power-off
handled between the two assignments by which another system's handler
initialises the classes counts as overlapping: its mark is lost
(`RequestRemovalAttributeError`).
`JoinsUnmarked`: the mark of an Off that found no agent, because the boot before
had failed or a thread had died with the agent, is cancelled before the next
agent joins. `MarkedByItselfWhileOn`: a power-off marks its system only once it is
out of `booted_q`, so that a system that is on gets no mark but from a heartbeat
of its own agent that Ironic did not find. `SwitchSpec`: refinement of
`PowerSwitch`, in which a power-off that comes too late to remove its system
(`TooLate`) is none: it must not mark the agent of the next boot.
`CallbackResolves` is claimed always. A power-on that is handled beside another,
or before the last power-off has taken effect, is what the two violated
properties `DuplicateOnIgnored` and `OffTakesEffect` are about: they except
nothing. That the classes may be initialised twice, with two pools of threads,
is in the model and breaks none of the properties. The bound is the
number of boots of a system (`RoomFor`); two is what a stale agent beside a new
one needs, and two handlers what a race of two notifications needs.
`CHECK_DEADLOCK FALSE` is right here: once all boots are spent, the machine is
off and the deque empty, the program waits (threads that find the deque empty
sleep and change nothing).

**commands**: one client that executes commands and one that lists the results,
three commands. `OnlyLastRuns`: no command is forgotten with one such client.
`ResponseIsComplete`: a response that says SUCCEEDED has its result, though the
command may be running while it is serialised. `DoneIsFinal`: a command run
twice by two requests still never changes once it was seen done. `LogSpec`: refinement of `CommandLog`, for one client that executes
commands: the three separate assignments of `run`, the double runs and the
requests between them show a client nothing but outcomes.
`PolledCommandsFinish`: liveness, as long as somebody lists. A third result is
needed for one to be neither first nor last. `MaxResults` bounds how many
commands are posted.

**api_client**: one boot against an Ironic that may fail every request, lose the
answer of a lookup after it handed its token out, require tokens or not, have
handed the token to an earlier boot, and be upgraded at any time. There is a
version on each side of every threshold the code compares with: 1.35 is below
the first version with `agent_version`, 1.61 and 1.62 are on the two sides of
tokens, and 1.70 is above all the client knows; the fallback is 1.31. `LookupTimeout` 3 with waits of 1 and 2 is
the smallest instance in which a lookup is retried more than once and the last
wait may overshoot. `TokenAlwaysSent`: `heartbeat()` decides on a version that
may be the fallback whether to send the token, which would be wrong once a token
is there; it is not, because a token only comes with a discovered version, which
is kept. `HeaderSupported`: body and header of a heartbeat are made for one
version, which Ironic speaks. `AcceptedAgentObeys`: the commands Ironic sends
after it accepted a heartbeat pass `validate_agent_token`, whose branch for
requests without a token raises AttributeError. `HandshakeSpec`: refinement of
`TokenHandshake`. `BootEnds` and `AcceptedInTheEnd`: liveness.
`InspectionNeverStopsBoot`: liveness too; whatever an inspection comes to, the
fifth connection error included, the boot goes on and asks for its node.

**containers**: each of the three programs, started twice, so that the second
start meets whatever the first left, with the same settings or others; every
command may fail, and the program may be killed, at each step.
`ExitZeroMeansAll`: a success of the exit status is this run's own evidence for
every host, also one that is given twice. `VerdictSpec`: refinement of
`BootstrapVerdict`, by the counter. Two hosts and the empty one, in lists of up
to two, are what a duplicate, a mix of outcomes and the empty host need.
`RunningAsConfigured`: keepalived runs with this start's environment; the three
entries differ in IP version, prefix and interface (one has none).
`CompleteEnvironmentRuns`: either group of variables is enough by itself.
`DoneAsAsked`: a start that ends well has put both files on the shared volume,
whole, from this start and as `IPXE_ENABLE_TLS` asks; none ends well without that
variable, and `IPXE_ENABLE_HTTPS`, which the settings have too, decides nothing.
That it does, as the repository's README says, is `HttpsSwitchDecides`, which is
violated. `FirmwareIsSound`: what is on the volume at any time. A file may be cut
short, and files of two builds may lie side by side, but only where the later
start has not ended well; a file that is there, in part or whole, is never one
that loads over HTTPS without the certificate. `MaxRuns`, `MaxStarts`, `MaxBuilds`,
`MaxTargets` and `MaxEntries` are the bounds; that two starts are enough for
safety is not left to the instance: the theorems are for any number. Programs
end, hence `CHECK_DEADLOCK FALSE`, as in `api_client` (a failed boot).

The seven other runs check what a comment or document says and the code does not
do; PROJECT.json quotes each under "findings".

## Fairness

Weak fairness of every thread's next step: the operating system runs threads,
and no thread waits for another (there is no lock). Time passes (`Tick`,
`TimePasses`). A heartbeat's answer is not fair for `Silent` agents: the requests carry
no timeout. Callers (power notifications, `add_to_q`, posts, lookups answered)
are not fair; only in `Commands` are pollers assumed to go on polling, because
Ironic polls and the code relies on it: nothing else runs a command. No strong
fairness is used. Liveness of the heartbeater is claimed while one thread is
left (`NoThreadLeft`), since threads do die.

In `ApiClient` the boot thread's own steps are fair. What waits for Ironic is
not, requests having no timeout: an answer, or a version that is still to be
discovered, is fair only when `faulty` is over, and nothing says it ever is.
`BootEnds` and `InspectionNeverStopsBoot` therefore except a boot that waits for
one answer for ever. `AcceptedInTheEnd` starts when the faults have ended and
assumes that a heartbeat under way is answered then and that a thread is left to
send it. In `Containers` the steps
of `CloudStep` and `KeepStep` are fair: SSH commands have a timeout, which
`CloudEnds` takes for granted and does not check, the rest are local commands. Starting a container, killing it and a failing command never are.

## Proofs

All theorems hold for any constants that satisfy the named assumptions
(`HeartbeaterAssumption`, `LifecycleAssumption`, `CommandsAssumption`,
`ApiClientAssumption`, `CloudInitAssumption`, `KeepalivedAssumption`,
`IpxeBuildAssumption`), which TLC checks of its instances.

- `HeartbeaterProofs`: `TypeCorrect`, then `AgentInOnePlace` (inductive together
  with the types: every append is of an agent that was out of circulation or in
  the hands of the appending thread), `ServedInOrder` (from it: what is appended was not in the deque),
  `MarksAreSafe` (uses both: the only other
  thread that removes a mark of `s` carries or boots another agent of `s`), and
  `ImplementsPool` by a step lemma for each action, mapping to a step of
  `HeartbeatPool` or a stutter.
- `CommandsProofs`: `Inv` strengthens the types with what each request knows of
  the result it works on; `ResponsesComplete` and `ResultsAreFinal` follow for
  any number of clients; `NoCommandForgotten` adds that at most one client is
  between the busy test and the recording. `KeepsLog`, the refinement of
  `CommandLog` under the same assumption (posters are at most one), rests on
  `AllFit`: a result that is RUNNING has at most set what its command comes to,
  and one that is done has all of it; so a second run by another request changes
  nothing a client sees, and `NoCommandForgotten` gives that no result before the
  last is pending when one is added. `KeepsLogOfMany` is what is left with any
  number of posters, without the guard of the log's `Record`: a command may then
  stay pending for ever (`commands_busy`), but it is in the log and what comes
  of it is right.
- `LifecycleProofs`: `LifecycleTypeCorrect`, and the lemma
  `ProgramUsesHeartbeater`: the program uses the class only through its operations,
  by which all that is proved of
  the class holds in the program (`ProgramSingleCarrier`,
  `ProgramMarksAreSafe`, `ProgramServesInOrder`, `ProgramImplementsPool`). `OneLiveAgent` and the properties that end in
  `Alone` are not inductive: that a power-on finds nothing left rests on what
  the handler of the power-off did long before. `IInv` says, of each system
  outside `overlapped`: one handler works for it, and beside it there are only
  power-offs that came too late to (`OneHandler`); while it is
  switched on nothing of it lives (`BootsFromNothing`); while it is switched
  off its boot is over, the classes are initialised, and it is out of `booted_q`
  once a power-off has removed it (`StopsTheRunning`);
  one agent lives (`OneLive`); when it is off the agent in service is marked
  (`OffIsMarked`); a mark somebody saw is there (`MarksStay`). The last needs
  `OneLive`, since only a second agent could use the mark up, and `OffIsMarked`
  needs the facts about handlers. The proof has a lemma for each role a step
  can play for a system: none, receiving its notification, going on with it,
  finishing it. `OneAgentPerSystem`, `OffMeansNoAgent`, `MarksAreKept` and,
  with one more invariant (`Callbacks`), `CallbacksResolve` follow.
  `NextBootIsNotMarked` is inductive relative to `IInv`: while an agent is about
  to be appended, nobody marks its system, neither a power-off
  (`StopsTheRunning`) nor a heartbeat that was not found (`OneLive`). `IInv` was
  checked by TLC on the instance of the run `lifecycle` before it was proved.
  `SInv` is `IInv` with `JoinsUnmarked`. It gives `OnlyItselfMarksWhileOn` and
  `ImplementsPowerSwitch`: a lemma for each action says what it does to the power
  and the agent of the one system it works for, another that every other system
  stutters, and the steps of the abstract specification are read off these.
- `ApiClientProofs`: `ApiInv` says what a token implies, that a version was
  discovered which has tokens, that agent and client have the same one and that
  it is the one Ironic expects, and of each request under way for which version
  it was made; it is inductive because Ironic's version only grows.
  `TokenIsSent`, `HeadersAreSupported`, `AcceptedAgentsObey` and the refinement
  `KeepsHandshake` follow. `BootIsBounded`: every step of the boot thread takes
  one off `StepsLeft`, which starts at most at `3 * LookupTimeout + 9`, since each
  wait is of at least one second.
- `CloudInitToolProofs`: `CloudInv` ties the counter to the set of counted
  positions, all of which the loop is done with and whose hosts have
  bootstrapped; that their logs of success are there holds only while every
  position so far was counted, since a host that is given twice may fail the
  second time and replace its log (`Proven`).
  `ZeroMeansAll` and the refinement `GivesVerdict` need that a counter equal to
  the number of hosts is a set of all positions (`FiniteSetTheorems`).
  `CloudIsBounded`: a run over `n` hosts takes at most `n * (Commands + 4) + 2`
  steps.
- `KeepalivedProofs`: `KeepInv` says at each step of the script what the file and
  the local variables hold of this start's environment, for lists of any length.
  `CompleteEnvironmentIsEnough`: with either group of variables only a failing
  command ends the script. `KeepIsBounded`: a start takes at most
  seven steps and one for each entry.
- `IpxeBuildProofs`: `IpxeInv` says at each step how much of what was asked for the
  tree, the options and the files have (`Progress`), and of what earlier starts
  left on the volume only that it is sound and of no later start (`Volume`). That
  a copy keeps the files sound (`CopyIsSound`) needs that this start is not one of
  `good` before its last command: a file that it cuts off may lie beside one of a
  start that did end well. `BuildsWhatIsAsked` and `SoundFirmware` follow.
- `ContainersProofs`: a behaviour of `Containers` is one of each program, so the
  theorems above hold of what the run `containers` checks (`ContainersAreSafe`,
  `ContainersGiveVerdict`).
- Model-checked only: all liveness (`ServedAgentBeats`, `MarkedAgentLeaves`,
  `SwitchedOffGoesQuiet`, `PolledCommandsFinish`, `BootEnds`,
  `InspectionNeverStopsBoot`, `AcceptedInTheEnd`, `CloudEnds`, `CompleteEnvironmentRuns`), which TLAPS cannot
  prove. What they need besides fairness is proved for five of them: bounds on
  the steps of a boot, a run and a start (`BootEnds`, `CloudEnds`,
  `CompleteEnvironmentRuns`), and the order of the deque and the marks that
  are not lost (`ServedAgentBeats`, `MarkedAgentLeaves`). The violated properties have
  counterexamples and no proof.

## Not modelled

- Durations: sleeps, jitter, `min_interval` and the timeouts of Ironic.
  Heartbeats are due or not, at any time; that two threads keep up with many
  agents is a question of rates that needs a timed model. `heartbeat_forced` is
  never set: extensions are created without their agent, so `force_heartbeat` is
  never called.
- The configuration without an API URL, in which nothing is shared.
- Contents of requests: bodies and unknown uuids that are refused before they
  reach the agent. Several of these refusals are a 500 (`main.py:222-226` leaves
  `results` unbound, `HTTPException.BadRequest` does not exist), but no state is
  touched.
- In `Lifecycle` a lookup is an outcome, in `ApiClient` a boot is one: which token
  the next boot of the same system gets is Ironic's affair (`expects` starts with
  either). A downgrade of Ironic, after which a cached version would be too new,
  is left out: nothing in the code provides for it.
- The environment variables of `conf.py`, `parse_args`, `api_root` and `api_v1`:
  no state. `error.py` is classes with texts; which error is which is in the
  actions that raise it.
- The results that commands return, beyond what can become of the command: fixed
  data.
- Whether an empty host, from a trailing `;` in `TARGET_HOSTS`, should count: it is
  in the model as a host that never passes, and no document says otherwise.
- Of the scripts: what sed would do to values with its own metacharacters, the
  text of the embedded iPXE script, and tools that are installed in the images.
- Dockerfiles, hooks, linters and repository automation: nothing that runs in
  the system.

## Plan

The plan is carried out: `Heartbeater` with `HeartbeatPool`, `Lifecycle` and
`Commands` first, then `ApiClient` with `TokenHandshake`, `CloudInitTool` with
`BootstrapVerdict`, `Keepalived` and `IpxeBuild`, with their proofs, and last the
abstract specifications `PowerSwitch` and `CommandLog`. What could
still be added is a timed model of the heartbeater, for the number of agents that
a pool of two threads can serve within their `heartbeat_timeout`.
