----------------------------- MODULE Keepalived -----------------------------
(***************************************************************************)
(* keepalived/manage-keepalived.sh: the entry point of the keepalived      *)
(* container.  It copies the default configuration to a mounted directory, *)
(* replaces the placeholders INTERFACE and CHANGEIP by what the            *)
(* environment says and becomes keepalived.  The directory outlives the    *)
(* container, which may be killed at any point and started again, with the *)
(* same environment or another one.                                        *)
(*                                                                         *)
(* With set -eu every command that fails and every variable that is not    *)
(* set ends the script.                                                    *)
(***************************************************************************)
EXTENDS Naturals, Sequences

CONSTANTS
  Addresses,   \* IP addresses
  V6,          \* those with a colon
  Interfaces,
  Prefixes,    \* prefixes that an entry may name
  Entries,     \* entries of KEEPALIVED_VIRTUAL_IPS
  Blank,       \* the empty string
  Unset,       \* a variable of the environment that is not set
  MaxEntries,  \* bound on the entries of KEEPALIVED_VIRTUAL_IPS
  MaxStarts    \* bound on the starts of the container

ASSUME KeepalivedAssumption ==
  /\ V6 \subseteq Addresses
  /\ Blank \notin Interfaces \cup Addresses
  /\ Unset \notin Addresses \cup Interfaces \cup {Blank}
  /\ Entries \subseteq [ip : Addresses \cup {Blank},
                         interface : Interfaces \cup {Blank},
                         prefix : Prefixes \cup {Blank}]
  /\ {MaxEntries, MaxStarts} \subseteq Nat

EntryLists == UNION {[1..n -> Entries] : n \in 0..MaxEntries}

(* KEEPALIVED_VIRTUAL_IPS, PROVISIONING_IP and PROVISIONING_INTERFACE; a     *)
(* list without entries is a string of spaces.  The legacy variables may be *)
(* set to the empty string, which set -u lets through.                      *)
Environments == [virtual : EntryLists \cup {Unset},
                 ip : Addresses \cup {Blank, Unset},
                 interface : Interfaces \cup {Blank, Unset}]

VirtualAddresses ==
  [ip : Addresses \cup {Blank}, prefix : Prefixes \cup {32, 128},
   dev : Interfaces \cup {Blank}]

VARIABLES
  kpc,              \* where the script is
  env,              \* the environment of the container
  conf,             \* keepalived.conf in the mounted directory
  done,             \* entries read so far
  first_interface,
  virtual_ips,
  interface,
  assignedIP,
  starts,           \* starts of the container
  failed            \* history: a command of this start failed

keepVars == <<kpc, env, conf, done, first_interface, virtual_ips, interface,
              assignedIP, starts, failed>>
locals == <<done, first_interface, virtual_ips, interface, assignedIP>>
container == <<env, starts>>

(* The file: the placeholders still in it, and what replaced the others.    *)
NoConf == [whole |-> FALSE, left |-> {}, interface |-> Blank,
           addresses |-> << >>]
DefaultConf == [NoConf EXCEPT !.whole = TRUE, !.left = {"INTERFACE", "CHANGEIP"}]

(* An address of the virtual_ipaddress block; without dev for the legacy    *)
(* variables.  The empty string is no IPv6 address: it becomes "/32".       *)
FormatIpWithPrefix(ip, prefix, dev) ==
  [ip |-> ip, dev |-> dev,
   prefix |-> IF prefix # Blank THEN prefix ELSE IF ip \in V6 THEN 128 ELSE 32]

KeepInit ==
  /\ kpc = "idle"
  /\ env = [virtual |-> Unset, ip |-> Unset, interface |-> Unset]
  /\ conf = NoConf
  /\ done = 0
  /\ first_interface = Blank
  /\ virtual_ips = << >>
  /\ interface = Blank
  /\ assignedIP = << >>
  /\ starts = 0
  /\ failed = FALSE

KeepStopped == kpc \in {"idle", "killed", "exited"}

KeepStart ==
  /\ KeepStopped
  /\ starts < MaxStarts
  /\ starts' = starts + 1
  /\ env' \in Environments
  /\ kpc' = "mkdir"
  /\ done' = 0
  /\ first_interface' = Blank
  /\ virtual_ips' = << >>
  /\ interface' = Blank
  /\ assignedIP' = << >>
  /\ failed' = FALSE
  /\ UNCHANGED conf

MakeDirs ==
  /\ kpc = "mkdir"
  /\ kpc' = "copy"
  /\ UNCHANGED <<container, locals, conf, failed>>

(* Mutant: a configuration that is there already is kept. *)
CopyDefaultOnce ==
  /\ kpc = "copy"
  /\ conf' = IF conf.whole THEN conf ELSE DefaultConf
  /\ kpc' = "mode"
  /\ UNCHANGED <<container, locals, failed>>

CopyDefault ==
  /\ kpc = "copy"
  /\ conf' = DefaultConf
  /\ kpc' = "mode"
  /\ UNCHANGED <<container, locals, failed>>

UseVirtualIps ==
  /\ kpc = "mode"
  /\ env.virtual # Unset
  /\ kpc' = "entries"
  /\ UNCHANGED <<container, locals, conf, failed>>

ReadEntry ==
  /\ kpc = "entries"
  /\ done < Len(env.virtual)
  /\ LET e == env.virtual[done + 1] IN
       /\ first_interface' = IF first_interface = Blank THEN e.interface
                                                        ELSE first_interface
       /\ virtual_ips' = Append(virtual_ips,
                           FormatIpWithPrefix(e.ip, e.prefix, e.interface))
  /\ done' = done + 1
  /\ UNCHANGED <<container, kpc, conf, interface, assignedIP, failed>>

EntriesRead ==
  /\ kpc = "entries"
  /\ done = Len(env.virtual)
  /\ interface' = first_interface
  /\ assignedIP' = virtual_ips
  /\ kpc' = "interface"
  /\ UNCHANGED <<container, conf, done, first_interface, virtual_ips, failed>>

(* Mutant: an interface that is not set is used all the same. *)
UseProvisioningIpOnly ==
  /\ kpc = "mode"
  /\ env.virtual = Unset
  /\ env.ip # Unset
  /\ interface' = env.interface
  /\ assignedIP' = <<FormatIpWithPrefix(env.ip, Blank, Blank)>>
  /\ kpc' = "interface"
  /\ UNCHANGED <<container, conf, done, first_interface, virtual_ips, failed>>

UseProvisioningIp ==
  /\ kpc = "mode"
  /\ env.virtual = Unset
  /\ env.interface # Unset
  /\ env.ip # Unset
  /\ interface' = env.interface
  /\ assignedIP' = <<FormatIpWithPrefix(env.ip, Blank, Blank)>>
  /\ kpc' = "interface"
  /\ UNCHANGED <<container, conf, done, first_interface, virtual_ips, failed>>

(* Mutant: PROVISIONING_INTERFACE is read in both modes. *)
UnboundInBothModes ==
  /\ kpc = "mode"
  /\ env.interface = Unset
  /\ kpc' = "exited"
  /\ UNCHANGED <<container, locals, conf, failed>>

UnboundVariable ==
  /\ kpc = "mode"
  /\ env.virtual = Unset
  /\ Unset \in {env.interface, env.ip}
  /\ kpc' = "exited"
  /\ UNCHANGED <<container, locals, conf, failed>>

(* sed -i replaces the file at once, and only where it finds the word. *)
SubstituteInterface ==
  /\ kpc = "interface"
  /\ conf' = IF "INTERFACE" \in conf.left
             THEN [conf EXCEPT !.left = @ \ {"INTERFACE"}, !.interface = interface]
             ELSE conf
  /\ kpc' = "changeip"
  /\ UNCHANGED <<container, locals, failed>>

SubstituteAddresses ==
  /\ kpc = "changeip"
  /\ conf' = IF "CHANGEIP" \in conf.left
             THEN [conf EXCEPT !.left = @ \ {"CHANGEIP"}, !.addresses = assignedIP]
             ELSE conf
  /\ kpc' = "exec"
  /\ UNCHANGED <<container, locals, failed>>

ExecKeepalived ==
  /\ kpc = "exec"
  /\ kpc' = "running"
  /\ UNCHANGED <<container, locals, conf, failed>>

KeepStep ==
  \/ MakeDirs \/ CopyDefault \/ UseVirtualIps \/ ReadEntry \/ EntriesRead
  \/ UseProvisioningIp \/ UnboundVariable
  \/ SubstituteInterface \/ SubstituteAddresses \/ ExecKeepalived

(* The copy is not atomic: stopped halfway it leaves part of a file. *)
MaybeCutShort ==
  conf' \in {conf} \cup (IF kpc = "copy" THEN {NoConf} ELSE {})

(* mkdir, cp, sed or exec fails. *)
CommandFails ==
  /\ kpc \in {"mkdir", "copy", "interface", "changeip", "exec"}
  /\ MaybeCutShort
  /\ kpc' = "exited"
  /\ failed' = TRUE
  /\ UNCHANGED <<container, locals>>

(* The container is stopped, or keepalived itself ends. *)
KeepKilled ==
  /\ ~KeepStopped
  /\ MaybeCutShort
  /\ kpc' = "killed"
  /\ UNCHANGED <<container, locals, failed>>

KeepNext == KeepStart \/ KeepStep \/ CommandFails \/ KeepKilled

KeepSpec == KeepInit /\ [][KeepNext]_keepVars

-----------------------------------------------------------------------------
Confs == [whole : BOOLEAN, left : SUBSET {"INTERFACE", "CHANGEIP"},
          interface : Interfaces \cup {Blank},
          addresses : Seq(VirtualAddresses)]

(* Types. *)
KeepTypeOK ==
  /\ kpc \in {"idle", "mkdir", "copy", "mode", "entries", "interface",
              "changeip", "exec", "running", "exited", "killed"}
  /\ env \in Environments
  /\ conf \in Confs
  /\ done \in Nat
  /\ first_interface \in Interfaces \cup {Blank}
  /\ virtual_ips \in Seq(VirtualAddresses)
  /\ interface \in Interfaces \cup {Blank}
  /\ assignedIP \in Seq(VirtualAddresses)
  /\ starts \in 0..MaxStarts
  /\ failed \in BOOLEAN

(* The first interface that an entry among the first n of list names, or    *)
(* none.                                                                    *)
IsFirstInterface(i, list, n) ==
  \/ i = Blank /\ \A k \in 1..n : list[k].interface = Blank
  \/ \E k \in 1..n : /\ list[k].interface = i /\ i # Blank
                     /\ \A j \in 1..(k - 1) : list[j].interface = Blank

FormattedEntries(list, n) ==
  [k \in 1..n |-> FormatIpWithPrefix(list[k].ip, list[k].prefix,
                                     list[k].interface)]

IsConfiguredFor(e, i, addresses) ==
  IF e.virtual = Unset
  THEN /\ i = e.interface
       /\ addresses = <<FormatIpWithPrefix(e.ip, Blank, Blank)>>
  ELSE /\ IsFirstInterface(i, e.virtual, Len(e.virtual))
       /\ addresses = FormattedEntries(e.virtual, Len(e.virtual))

(* keepalived runs with a file that has no placeholder left and says what   *)
(* the environment of this start says, each address with its prefix and     *)
(* device, whatever an earlier start, perhaps with another environment or   *)
(* killed halfway, has left in the mounted directory.                       *)
RunningAsConfigured ==
  kpc = "running" =>
    /\ conf.whole
    /\ conf.left = {}
    /\ IsConfiguredFor(env, conf.interface, conf.addresses)

(* Either group of variables is enough: a container that has one of them    *)
(* gets keepalived running, unless a command fails or it is killed.         *)
EnoughVariables ==
  env.virtual # Unset \/ Unset \notin {env.ip, env.interface}

CompleteEnvironmentRuns ==
  (~KeepStopped /\ EnoughVariables) ~> (kpc \in {"running", "killed"} \/ failed)
=============================================================================
