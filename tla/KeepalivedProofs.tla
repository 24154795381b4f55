-------------------------- MODULE KeepalivedProofs --------------------------
(***************************************************************************)
(* Proofs about Keepalived for any number of entries and of starts: the    *)
(* configuration that keepalived runs with is the one the environment of   *)
(* this very start asks for.                                               *)
(***************************************************************************)
EXTENDS Keepalived, SequenceTheorems, TLAPS

(* What the script has worked out of the environment, by its place. *)
LocalsFit ==
  /\ kpc \in {"mkdir", "copy", "mode"} =>
       done = 0 /\ first_interface = Blank /\ virtual_ips = << >>
  /\ kpc = "entries" =>
       /\ env.virtual # Unset
       /\ done <= Len(env.virtual)
       /\ IsFirstInterface(first_interface, env.virtual, done)
       /\ virtual_ips = FormattedEntries(env.virtual, done)
  /\ kpc \in {"interface", "changeip", "exec"} =>
       IsConfiguredFor(env, interface, assignedIP)

(* What is in the file: a fresh copy each time, then its two placeholders   *)
(* replaced one after the other.                                            *)
FileFits ==
  /\ kpc \in {"mode", "entries", "interface"} => conf = DefaultConf
  /\ kpc \in {"changeip", "exec", "running"} => conf.whole
  /\ kpc = "changeip" => conf.left = {"CHANGEIP"} /\ conf.interface = interface
  /\ kpc \in {"exec", "running"} =>
       /\ conf.left = {}
       /\ IsConfiguredFor(env, conf.interface, conf.addresses)

KeepInv == KeepTypeOK /\ LocalsFit /\ FileFits

-----------------------------------------------------------------------------
(* The list of entries is a sequence of them. *)
LEMMA EntryListIsSeq ==
  ASSUME NEW list \in EntryLists
  PROVE  /\ list \in Seq(Entries)
         /\ Len(list) \in Nat
         /\ \A k \in 1..Len(list) :
              /\ list[k].ip \in Addresses \cup {Blank}
              /\ list[k].interface \in Interfaces \cup {Blank}
              /\ list[k].prefix \in Prefixes \cup {Blank}
<1>1. list \in Seq(Entries)
  BY SeqDef, KeepalivedAssumption DEF EntryLists, KeepalivedAssumption
<1>2. Len(list) \in Nat /\ \A k \in 1..Len(list) : list[k] \in Entries
  BY <1>1, LenProperties, ElementOfSeq
<1>3. QED
  BY <1>1, <1>2, KeepalivedAssumption DEF KeepalivedAssumption

LEMMA FormattedType ==
  ASSUME NEW ip \in Addresses \cup {Blank}, NEW prefix \in Prefixes \cup {Blank},
         NEW dev \in Interfaces \cup {Blank}
  PROVE  FormatIpWithPrefix(ip, prefix, dev) \in VirtualAddresses
BY DEF FormatIpWithPrefix, VirtualAddresses

(* FormattedEntries of the first n entries is a sequence of length n. *)
LEMMA FormattedEntriesSeq ==
  ASSUME NEW list \in EntryLists, NEW n \in 0..Len(list)
  PROVE  /\ FormattedEntries(list, n) \in Seq(VirtualAddresses)
         /\ Len(FormattedEntries(list, n)) = n
<1>1. n \in Nat /\ \A k \in 1..n : k \in 1..Len(list)
  BY EntryListIsSeq
<1>2. FormattedEntries(list, n) \in [1..n -> VirtualAddresses]
  BY <1>1, EntryListIsSeq, FormattedType DEF FormattedEntries
<1>3. FormattedEntries(list, n) \in Seq(VirtualAddresses)
  BY <1>1, <1>2, SeqDef
<1>4. DOMAIN FormattedEntries(list, n) = 1..n
  BY DEF FormattedEntries
<1>5. QED BY <1>1, <1>3, <1>4, LenProperties

LEMMA NoEntriesFormatted ==
  ASSUME NEW list \in EntryLists
  PROVE  FormattedEntries(list, 0) = << >>
<1>1. 0 \in 0..Len(list)
  BY EntryListIsSeq
<1>2. QED
  BY <1>1, FormattedEntriesSeq, EmptySeq

(* Reading one more entry appends its address. *)
LEMMA OneMoreFormatted ==
  ASSUME NEW list \in EntryLists, NEW n \in Nat, n < Len(list)
  PROVE  FormattedEntries(list, n + 1) =
           Append(FormattedEntries(list, n),
                  FormatIpWithPrefix(list[n + 1].ip, list[n + 1].prefix,
                                     list[n + 1].interface))
<1> DEFINE s == FormattedEntries(list, n)
           t == FormattedEntries(list, n + 1)
           e == FormatIpWithPrefix(list[n + 1].ip, list[n + 1].prefix,
                                   list[n + 1].interface)
           a == Append(s, e)
<1>1. Len(list) \in Nat /\ n \in 0..Len(list) /\ n + 1 \in 0..Len(list)
      /\ n + 1 \in 1..Len(list)
  BY EntryListIsSeq
<1>2. /\ s \in Seq(VirtualAddresses) /\ Len(s) = n
      /\ t \in Seq(VirtualAddresses) /\ Len(t) = n + 1
  BY <1>1, FormattedEntriesSeq
<1>3. e \in VirtualAddresses
  BY <1>1, EntryListIsSeq, FormattedType
<1>4. /\ a \in Seq(VirtualAddresses) /\ Len(a) = n + 1
      /\ \A k \in 1..n : a[k] = s[k]
      /\ a[n + 1] = e
  BY <1>2, <1>3, AppendProperties
<1>5. (\A k \in 1..n : t[k] = s[k]) /\ t[n + 1] = e
  BY DEF FormattedEntries
<1>6. \A k \in 1..Len(t) : t[k] = a[k]
  BY <1>2, <1>4, <1>5
<1>7. t = a
  BY <1>2, <1>4, <1>6, SeqEqual
<1>8. QED BY <1>7

(* The first interface named among one entry more. *)
LEMMA OneMoreInterface ==
  ASSUME NEW list, NEW n \in Nat, NEW i, IsFirstInterface(i, list, n)
  PROVE  IsFirstInterface(IF i = Blank THEN list[n + 1].interface ELSE i,
                          list, n + 1)
<1>1. CASE i # Blank
  BY <1>1 DEF IsFirstInterface
<1>2. CASE i = Blank
  <2>1. \A k \in 1..n : list[k].interface = Blank
    BY <1>2 DEF IsFirstInterface
  <2>2. CASE list[n + 1].interface = Blank
    BY <1>2, <2>1, <2>2 DEF IsFirstInterface
  <2>3. CASE list[n + 1].interface # Blank
    <3>1. n + 1 \in 1..(n + 1) /\ \A j \in 1..((n + 1) - 1) : list[j].interface = Blank
      BY <2>1
    <3>2. QED BY <1>2, <2>3, <3>1 DEF IsFirstInterface
  <2>4. QED BY <2>2, <2>3
<1>3. QED BY <1>1, <1>2

LEMMA DefaultConfType ==
  /\ NoConf \in Confs
  /\ DefaultConf \in Confs
  /\ DefaultConf.whole
  /\ DefaultConf.left = {"INTERFACE", "CHANGEIP"}
BY EmptySeq DEF NoConf, DefaultConf, Confs

-----------------------------------------------------------------------------
LEMMA InitKeepInv == KeepInit => KeepInv
<1> SUFFICES ASSUME KeepInit PROVE KeepInv
  OBVIOUS
<1>1. env \in Environments
  BY DEF KeepInit, Environments
<1>2. << >> \in Seq(VirtualAddresses)
  BY EmptySeq
<1>3. starts \in 0..MaxStarts
  BY KeepalivedAssumption DEF KeepInit, KeepalivedAssumption
<1>4. KeepTypeOK
  BY <1>1, <1>2, <1>3, DefaultConfType DEF KeepInit, KeepTypeOK
<1>5. LocalsFit /\ FileFits
  BY DEF KeepInit, LocalsFit, FileFits
<1>6. QED BY <1>4, <1>5 DEF KeepInv

LEMMA StartKeepInv == ASSUME KeepInv, KeepStart PROVE KeepInv'
<1> USE DEF KeepInv
<1>1. << >> \in Seq(VirtualAddresses)
  BY EmptySeq
<1>2. starts' \in 0..MaxStarts
  BY KeepalivedAssumption DEF KeepStart, KeepTypeOK, KeepalivedAssumption
<1>3. KeepTypeOK'
  BY <1>1, <1>2 DEF KeepStart, KeepTypeOK
<1>4. LocalsFit' /\ FileFits'
  BY DEF KeepStart, LocalsFit, FileFits
<1>5. QED BY <1>3, <1>4

(* The commands up to the choice of the mode. *)
LEMMA CopyKeepInv ==
  ASSUME KeepInv, MakeDirs \/ CopyDefault \/ UseVirtualIps \/ UnboundVariable
  PROVE  KeepInv'
<1> USE DEF KeepInv, container, locals
<1>1. CASE MakeDirs
  BY <1>1 DEF MakeDirs, KeepTypeOK, LocalsFit, FileFits
<1>2. CASE CopyDefault
  BY <1>2, DefaultConfType DEF CopyDefault, KeepTypeOK, LocalsFit, FileFits
<1>3. CASE UseVirtualIps
  <2>1. env.virtual \in EntryLists /\ Blank = first_interface /\ done = 0
    BY <1>3 DEF UseVirtualIps, KeepTypeOK, Environments, LocalsFit
  <2>2. FormattedEntries(env.virtual, 0) = << >> /\ 0 <= Len(env.virtual)
    BY <2>1, NoEntriesFormatted, EntryListIsSeq
  <2>3. IsFirstInterface(Blank, env.virtual, 0)
    BY DEF IsFirstInterface
  <2>4. KeepTypeOK' /\ FileFits'
    BY <1>3 DEF UseVirtualIps, KeepTypeOK, FileFits
  <2>5. LocalsFit'
    BY <1>3, <2>1, <2>2, <2>3 DEF UseVirtualIps, LocalsFit
  <2>6. QED BY <2>4, <2>5
<1>4. CASE UnboundVariable
  BY <1>4 DEF UnboundVariable, KeepTypeOK, LocalsFit, FileFits
<1>5. QED BY <1>1, <1>2, <1>3, <1>4

(* The loop over KEEPALIVED_VIRTUAL_IPS. *)
LEMMA ReadKeepInv == ASSUME KeepInv, ReadEntry PROVE KeepInv'
<1> USE DEF KeepInv, container
<1>1. /\ kpc = "entries" /\ done < Len(env.virtual) /\ done \in Nat
      /\ env.virtual \in EntryLists
      /\ done' = done + 1
      /\ UNCHANGED <<env, starts, kpc, conf, interface, assignedIP, failed>>
  BY DEF ReadEntry, KeepTypeOK, Environments, LocalsFit
<1> DEFINE e == env.virtual[done + 1]
           a == FormatIpWithPrefix(e.ip, e.prefix, e.interface)
<1>2. /\ first_interface' = IF first_interface = Blank THEN e.interface
                                                       ELSE first_interface
      /\ virtual_ips' = Append(virtual_ips, a)
  BY DEF ReadEntry
<1>3. Len(env.virtual) \in Nat /\ done + 1 \in 1..Len(env.virtual)
  BY <1>1, EntryListIsSeq
<1>4. a \in VirtualAddresses /\ e.interface \in Interfaces \cup {Blank}
  BY <1>1, <1>3, EntryListIsSeq, FormattedType
<1>5. Append(virtual_ips, a) \in Seq(VirtualAddresses)
  BY <1>4, AppendProperties DEF KeepTypeOK
<1>6. KeepTypeOK'
  BY <1>1, <1>2, <1>4, <1>5 DEF KeepTypeOK
<1>7. IsFirstInterface(first_interface', env.virtual, done + 1)
  BY <1>1, <1>2, OneMoreInterface DEF LocalsFit
<1>8. virtual_ips' = FormattedEntries(env.virtual, done + 1)
  BY <1>1, <1>2, OneMoreFormatted DEF LocalsFit
<1>9. LocalsFit'
  BY <1>1, <1>3, <1>7, <1>8 DEF LocalsFit
<1>10. FileFits'
  BY <1>1 DEF FileFits
<1>11. QED BY <1>6, <1>9, <1>10

(* Either mode ends with what the environment is configured for. *)
LEMMA ConfigureKeepInv ==
  ASSUME KeepInv, EntriesRead \/ UseProvisioningIp
  PROVE  KeepInv'
<1> USE DEF KeepInv, container
<1>1. CASE EntriesRead
  <2>1. IsConfiguredFor(env, first_interface, virtual_ips)
    BY <1>1 DEF EntriesRead, LocalsFit, IsConfiguredFor
  <2>2. KeepTypeOK' /\ FileFits'
    BY <1>1 DEF EntriesRead, KeepTypeOK, FileFits
  <2>3. LocalsFit'
    BY <1>1, <2>1 DEF EntriesRead, LocalsFit
  <2>4. QED BY <2>2, <2>3
<1>2. CASE UseProvisioningIp
  <2> DEFINE a == FormatIpWithPrefix(env.ip, Blank, Blank)
  <2>1. env.ip \in Addresses \cup {Blank} /\ env.interface \in Interfaces \cup {Blank}
    BY <1>2 DEF UseProvisioningIp, KeepTypeOK, Environments
  <2>2. a \in VirtualAddresses
    BY <2>1, FormattedType
  <2>3. <<a>> \in Seq(VirtualAddresses)
    BY <2>2
  <2>4. assignedIP' = <<a>> /\ interface' = env.interface /\ kpc' = "interface"
        /\ kpc = "mode" /\ env.virtual = Unset
        /\ UNCHANGED <<env, starts, conf, done, first_interface, virtual_ips, failed>>
    BY <1>2 DEF UseProvisioningIp
  <2>5. KeepTypeOK'
    BY <2>1, <2>3, <2>4 DEF KeepTypeOK
  <2>6. IsConfiguredFor(env, interface', assignedIP')
    BY <2>4 DEF IsConfiguredFor
  <2>7. LocalsFit' /\ FileFits'
    BY <2>4, <2>6 DEF LocalsFit, FileFits
  <2>8. QED BY <2>5, <2>7
<1>3. QED BY <1>1, <1>2

(* The two substitutions and the exec. *)
LEMMA SubstituteKeepInv ==
  ASSUME KeepInv, SubstituteInterface \/ SubstituteAddresses \/ ExecKeepalived
  PROVE  KeepInv'
<1> USE DEF KeepInv, container, locals
<1>1. CASE SubstituteInterface
  <2>1. conf = DefaultConf
    BY <1>1 DEF SubstituteInterface, FileFits
  <2>2. /\ conf' \in Confs /\ conf'.whole /\ conf'.interface = interface
        /\ conf'.left = {"CHANGEIP"}
    BY <1>1, <2>1, DefaultConfType DEF SubstituteInterface, KeepTypeOK, Confs
  <2>3. QED
    BY <1>1, <2>2 DEF SubstituteInterface, KeepTypeOK, LocalsFit, FileFits
<1>2. CASE SubstituteAddresses
  <2>1. conf.left = {"CHANGEIP"} /\ conf.whole /\ conf.interface = interface
    BY <1>2 DEF SubstituteAddresses, FileFits
  <2>2. /\ conf' \in Confs /\ conf'.whole /\ conf'.interface = interface
        /\ conf'.addresses = assignedIP /\ conf'.left = {}
    BY <1>2, <2>1 DEF SubstituteAddresses, KeepTypeOK, Confs
  <2>3. QED
    BY <1>2, <2>2 DEF SubstituteAddresses, KeepTypeOK, LocalsFit, FileFits
<1>3. CASE ExecKeepalived
  BY <1>3 DEF ExecKeepalived, KeepTypeOK, LocalsFit, FileFits
<1>4. QED BY <1>1, <1>2, <1>3

(* A command fails or the container is killed, perhaps halfway the copy. *)
LEMMA StopKeepInv == ASSUME KeepInv, CommandFails \/ KeepKilled PROVE KeepInv'
<1> USE DEF KeepInv, container, locals
<1>1. conf' \in Confs /\ kpc' \in {"exited", "killed"} /\ failed' \in BOOLEAN
      /\ UNCHANGED <<env, starts, done, first_interface, virtual_ips, interface,
                     assignedIP>>
  BY DefaultConfType DEF CommandFails, KeepKilled, MaybeCutShort, KeepTypeOK
<1>2. KeepTypeOK'
  BY <1>1 DEF KeepTypeOK
<1>3. LocalsFit' /\ FileFits'
  BY <1>1 DEF LocalsFit, FileFits
<1>4. QED BY <1>2, <1>3

LEMMA NextKeepInv == KeepInv /\ [KeepNext]_keepVars => KeepInv'
<1> SUFFICES ASSUME KeepInv, [KeepNext]_keepVars PROVE KeepInv'
  OBVIOUS
<1>1. CASE KeepStart
  BY <1>1, StartKeepInv
<1>2. CASE KeepStep
  BY <1>2, CopyKeepInv, ReadKeepInv, ConfigureKeepInv, SubstituteKeepInv DEF KeepStep
<1>3. CASE CommandFails \/ KeepKilled
  BY <1>3, StopKeepInv
<1>4. CASE UNCHANGED keepVars
  BY <1>4 DEF keepVars, KeepInv, KeepTypeOK, LocalsFit, FileFits
<1>5. QED BY <1>1, <1>2, <1>3, <1>4 DEF KeepNext

LEMMA KeepInvHolds == KeepSpec => []KeepInv
BY InitKeepInv, NextKeepInv, PTL DEF KeepSpec

-----------------------------------------------------------------------------
(* The types of manage-keepalived.sh, for any environment and any number of *)
(* entries: no step works with a variable that is not set.                  *)
THEOREM KeepTypeCorrect == KeepSpec => []KeepTypeOK
<1>1. KeepInv => KeepTypeOK
  BY DEF KeepInv
<1>2. QED BY <1>1, KeepInvHolds, PTL

(* keepalived runs with a file that says what the environment of this start *)
(* says, for any number of entries and whatever earlier starts left behind. *)
THEOREM RunsAsConfigured == KeepSpec => []RunningAsConfigured
<1>1. KeepInv => RunningAsConfigured
  BY DEF KeepInv, FileFits, RunningAsConfigured
<1>2. QED BY <1>1, KeepInvHolds, PTL
-----------------------------------------------------------------------------
(* A start comes to keepalived: the part of CompleteEnvironmentRuns that    *)
(* needs no fairness.                                                       *)

(* With one of the two groups of variables the script only ends early when  *)
(* a command fails: it never meets a variable that is not set.              *)
EndsOnlyByFailure == kpc = "exited" /\ EnoughVariables => failed

THEOREM CompleteEnvironmentIsEnough == KeepSpec => []EndsOnlyByFailure
<1>1. KeepInit => EndsOnlyByFailure
  BY DEF KeepInit, EndsOnlyByFailure
<1>2. EndsOnlyByFailure /\ [KeepNext]_keepVars => EndsOnlyByFailure'
  <2> SUFFICES ASSUME EndsOnlyByFailure, [KeepNext]_keepVars
               PROVE  EndsOnlyByFailure'
    OBVIOUS
  <2>1. CASE UnboundVariable
    BY <2>1 DEF UnboundVariable, EndsOnlyByFailure, EnoughVariables, container
  <2>2. CASE CommandFails
    BY <2>2 DEF CommandFails, EndsOnlyByFailure
  <2>3. CASE UNCHANGED keepVars
    BY <2>3 DEF keepVars, EndsOnlyByFailure, EnoughVariables
  <2>4. ASSUME KeepNext, ~UnboundVariable, ~CommandFails PROVE kpc' # "exited"
    BY <2>4 DEF KeepNext, KeepStart, KeepStep, MakeDirs, CopyDefault,
       UseVirtualIps, ReadEntry, EntriesRead, UseProvisioningIp,
       SubstituteInterface, SubstituteAddresses, ExecKeepalived, KeepKilled
  <2>5. QED BY <2>1, <2>2, <2>3, <2>4 DEF EndsOnlyByFailure
<1>3. QED BY <1>1, <1>2, PTL DEF KeepSpec

EntriesGiven == IF env.virtual = Unset THEN 0 ELSE Len(env.virtual)

KeepStepsLeft ==
  CASE kpc = "mkdir"     -> EntriesGiven + 7
    [] kpc = "copy"      -> EntriesGiven + 6
    [] kpc = "mode"      -> EntriesGiven + 5
    [] kpc = "entries"   -> EntriesGiven - done + 4
    [] kpc = "interface" -> 3
    [] kpc = "changeip"  -> 2
    [] kpc = "exec"      -> 1
    [] OTHER             -> 0

Starting == kpc \in {"mkdir", "copy", "mode", "entries", "interface", "changeip", "exec"}

LEMMA EntriesGivenRange ==
  ASSUME KeepInv
  PROVE  /\ EntriesGiven \in Nat /\ done \in Nat
         /\ kpc \in {"mkdir", "copy", "mode"} => done = 0
         /\ kpc = "entries" => done <= EntriesGiven
<1>1. EntriesGiven \in Nat
  BY EntryListIsSeq DEF KeepInv, KeepTypeOK, Environments, EntriesGiven
<1>2. done \in Nat /\ (kpc \in {"mkdir", "copy", "mode"} => done = 0)
  BY DEF KeepInv, KeepTypeOK, LocalsFit
<1>3. kpc = "entries" => done <= EntriesGiven
  BY DEF KeepInv, LocalsFit, EntriesGiven
<1>4. QED BY <1>1, <1>2, <1>3

LEMMA KeepStepsLeftRange ==
  ASSUME KeepInv, Starting
  PROVE  KeepStepsLeft \in 1..(EntriesGiven + 7)
BY EntriesGivenRange DEF KeepStepsLeft, Starting

LEMMA NextKeepStepsLeft ==
  ASSUME KeepInv, KeepStep
  PROVE  KeepStepsLeft' < KeepStepsLeft
<1>1. EntriesGiven' = EntriesGiven
  BY DEF KeepStep, MakeDirs, CopyDefault, UseVirtualIps, ReadEntry,
     EntriesRead, UseProvisioningIp, UnboundVariable, SubstituteInterface,
     SubstituteAddresses, ExecKeepalived, container, EntriesGiven
<1>2. CASE MakeDirs \/ CopyDefault \/ UseVirtualIps
  BY <1>1, <1>2, EntriesGivenRange
     DEF MakeDirs, CopyDefault, UseVirtualIps, locals, KeepStepsLeft
<1>3. CASE ReadEntry
  BY <1>1, <1>3, EntriesGivenRange DEF ReadEntry, KeepStepsLeft
<1>4. CASE EntriesRead
  BY <1>4, EntriesGivenRange DEF EntriesRead, KeepStepsLeft
<1>5. CASE UseProvisioningIp \/ UnboundVariable
  BY <1>5, EntriesGivenRange DEF UseProvisioningIp, UnboundVariable, KeepStepsLeft
<1>6. CASE SubstituteInterface \/ SubstituteAddresses \/ ExecKeepalived
  BY <1>6 DEF SubstituteInterface, SubstituteAddresses, ExecKeepalived, KeepStepsLeft
<1>7. QED BY <1>2, <1>3, <1>4, <1>5, <1>6 DEF KeepStep

(* A start takes at most seven steps and one for each entry: each takes one *)
(* off a bound that is positive until keepalived runs or the script ended.  *)
THEOREM KeepIsBounded ==
  KeepSpec =>
    /\ [](Starting => KeepStepsLeft \in 1..(EntriesGiven + 7))
    /\ [][KeepStep => KeepStepsLeft' < KeepStepsLeft]_keepVars
BY KeepStepsLeftRange, NextKeepStepsLeft, KeepInvHolds, PTL DEF KeepSpec
=============================================================================
