----------------------------- MODULE IpxeBuild -----------------------------
(***************************************************************************)
(* ipxe-builder/buildipxe.sh: the entry point of an init container that    *)
(* fetches the sources of iPXE, edits their configuration, builds two      *)
(* files and copies them to a shared volume.  The volume outlives the      *)
(* container.  The container may be killed at any point and started again; *)
(* /tmp and what is in it is then as the earlier start left it.            *)
(*                                                                         *)
(* With set -eu every command that fails and every variable that is not    *)
(* set ends the script.  Of the source tree the model keeps whether it was *)
(* fetched completely and which of the edits that depend on the            *)
(* environment it has had.  The sources are those of iPXE, unedited.       *)
(*                                                                         *)
(* cp truncates a file and writes it, and goes on with the next file when  *)
(* it could not write one: the volume may at any time hold a file that is  *)
(* cut short.                                                              *)
(***************************************************************************)
EXTENDS Naturals

CONSTANTS
  NoFirmware,
  MaxBuilds    \* bound on the starts of the script

Files == {"undionly.kpxe", "snponly.efi"}

(* IPXE_BUILD_FROM_CACHE, IPXE_BUILD_FROM_REPO, IPXE_ENABLE_TLS,            *)
(* IPXE_ENABLE_HTTPS (whether it is "true") and IPXE_ENABLE_IPV6; whether   *)
(* the cache and the certificate are readable and whether                   *)
(* IPXE_SHARED_FIRMWARE_SOURCE ends in ipxe-source, the name the script     *)
(* gives the work directory.  Line 18 overwrites IPXE_ENABLE_HTTPS with     *)
(* IPXE_ENABLE_TLS, and no line reads it.                                   *)
Settings == [cache : BOOLEAN, repo : BOOLEAN, tls : {"unset", "true", "false"},
             https : BOOLEAN, ipv6 : BOOLEAN, readable : BOOLEAN,
             cert : BOOLEAN, named : BOOLEAN]

(* A file: what make built it from, in which start, and whether it is cut   *)
(* short.                                                                   *)
Firmware == [ipv6 : BOOLEAN, https : BOOLEAN, cert : BOOLEAN, whole : BOOLEAN,
             build : 1..MaxBuilds, cut : BOOLEAN]

ASSUME IpxeBuildAssumption ==
  /\ MaxBuilds \in Nat
  /\ NoFirmware \notin Firmware

VARIABLES
  xpc,         \* where the script is
  settings,    \* the environment of the container
  tree,        \* /tmp/ipxe-source
  options,     \* IPXE_BUILD_OPTIONS have EMBED, CERT and TRUST
  built,       \* what make left in the tree
  firmware,    \* IPXE_CUSTOM_FIRMWARE_DIR on the shared volume
  builds,      \* starts so far
  broken,      \* a command of this start failed
  good         \* history: the starts that ended with status 0

ipxeVars ==
  <<xpc, settings, tree, options, built, firmware, builds, broken, good>>
fixed == <<settings, builds>>
status == <<broken, good>>

NoTree == [there |-> FALSE, whole |-> FALSE, ipv6 |-> FALSE, https |-> FALSE]
FreshTree == [NoTree EXCEPT !.there = TRUE, !.whole = TRUE]

IpxeInit ==
  /\ xpc = "idle"
  /\ settings = [cache |-> TRUE, repo |-> FALSE, tls |-> "unset",
                 https |-> FALSE, ipv6 |-> FALSE, readable |-> TRUE,
                 cert |-> TRUE, named |-> TRUE]
  /\ tree = NoTree
  /\ options = FALSE
  /\ built = NoFirmware
  /\ firmware = [f \in Files |-> NoFirmware]
  /\ builds = 0
  /\ broken = FALSE
  /\ good = {}

IpxeStopped == xpc \in {"idle", "done", "failed", "killed"}

StartScript ==
  /\ IpxeStopped
  /\ builds < MaxBuilds
  /\ builds' = builds + 1
  /\ xpc' = "fetch"
  /\ options' = FALSE
  /\ broken' = FALSE
  /\ UNCHANGED <<firmware, good>>

NewContainer ==
  /\ StartScript
  /\ settings' \in Settings
  /\ tree' = NoTree
  /\ built' = NoFirmware

SameContainer ==
  /\ StartScript
  /\ builds > 0
  /\ UNCHANGED <<settings, tree, built>>

IpxeGoto(label) ==
  /\ xpc' = label
  /\ UNCHANGED <<fixed, status, tree, options, built, firmware>>

(* cp -r overwrites a tree that is there, which undoes earlier edits; under *)
(* another name the copy does not become the work directory, and ls fails.  *)
FetchCache ==
  /\ xpc = "fetch"
  /\ settings.cache
  /\ settings.readable
  /\ settings.named
  /\ tree' = FreshTree
  /\ xpc' = "ipv6"
  /\ UNCHANGED <<fixed, status, options, built, firmware>>

(* Mutant: a tree that is there is taken for a clone. *)
FetchRepoOnce ==
  /\ xpc = "fetch"
  /\ ~settings.cache
  /\ settings.repo
  /\ tree' = IF tree.there THEN tree ELSE FreshTree
  /\ xpc' = "ipv6"
  /\ UNCHANGED <<fixed, status, options, built, firmware>>

(* git clone refuses a directory that is there and not empty. *)
FetchRepo ==
  /\ xpc = "fetch"
  /\ ~settings.cache
  /\ settings.repo
  /\ ~tree.there
  /\ tree' = FreshTree
  /\ xpc' = "ipv6"
  /\ UNCHANGED <<fixed, status, options, built, firmware>>

FetchRefused ==
  /\ xpc = "fetch"
  /\ \/ settings.cache /\ ~(settings.readable /\ settings.named)
     \/ ~settings.cache /\ ~settings.repo
     \/ ~settings.cache /\ tree.there
  /\ IpxeGoto("failed")

EnableIpv6 ==
  /\ xpc = "ipv6"
  /\ tree' = [tree EXCEPT !.ipv6 = tree.ipv6 \/ settings.ipv6]
  /\ xpc' = "tls"
  /\ UNCHANGED <<fixed, status, options, built, firmware>>

DisableTls == xpc = "tls" /\ settings.tls = "false" /\ IpxeGoto("make")

EnableHttps ==
  /\ xpc = "tls"
  /\ settings.tls = "true"
  /\ settings.cert
  /\ tree' = [tree EXCEPT !.https = TRUE]
  /\ xpc' = "embed"
  /\ UNCHANGED <<fixed, status, options, built, firmware>>

(* render_j2_config writes the script to embed; the options name it. *)
EmbedScript ==
  /\ xpc = "embed"
  /\ options' = TRUE
  /\ xpc' = "make"
  /\ UNCHANGED <<fixed, status, tree, built, firmware>>

(* No certificate; or IPXE_ENABLE_TLS is not set: line 18 gives a default   *)
(* to IPXE_ENABLE_HTTPS instead, and under set -u line 75 ends the script.  *)
TlsRefused ==
  /\ xpc = "tls"
  /\ \/ settings.tls = "unset"
     \/ settings.tls = "true" /\ ~settings.cert
  /\ IpxeGoto("failed")

Make ==
  /\ xpc = "make"
  /\ built' = [ipv6 |-> tree.ipv6, https |-> tree.https, cert |-> options,
               whole |-> tree.whole, build |-> builds, cut |-> FALSE]
  /\ xpc' = "install"
  /\ UNCHANGED <<fixed, status, tree, options, firmware>>

(* cp opens the one file, which cuts it off, and writes it; then the other. *)
CopyOpens(f) ==
  /\ xpc = (IF f = "undionly.kpxe" THEN "install" ELSE "second")
  /\ firmware' = [firmware EXCEPT ![f] = [built EXCEPT !.cut = TRUE]]
  /\ xpc' = f
  /\ UNCHANGED <<fixed, status, tree, options, built>>

CopyFirst ==
  /\ xpc = "undionly.kpxe"
  /\ firmware' = [firmware EXCEPT ![xpc] = built]
  /\ xpc' = "second"
  /\ UNCHANGED <<fixed, status, tree, options, built>>

(* Mutant: the exit status is that of the last copy. *)
CopySecondDecides ==
  /\ xpc = "snponly.efi"
  /\ firmware' = [firmware EXCEPT ![xpc] = built]
  /\ xpc' = "done"
  /\ good' = good \cup {builds}
  /\ UNCHANGED <<fixed, tree, options, built, broken>>

(* It fails if it could not copy one of them. *)
CopySecond ==
  /\ xpc = "snponly.efi"
  /\ firmware' = [firmware EXCEPT ![xpc] = built]
  /\ xpc' = IF broken THEN "failed" ELSE "done"
  /\ good' = IF broken THEN good ELSE good \cup {builds}
  /\ UNCHANGED <<fixed, tree, options, built, broken>>

(* A file cannot be opened, or not be written to its end. *)
CopyBreaks ==
  /\ xpc \in {"install", "second"} \cup Files
  /\ xpc' = IF xpc \in {"install", "undionly.kpxe"} THEN "second" ELSE "failed"
  /\ broken' = TRUE
  /\ UNCHANGED <<fixed, good, tree, options, built, firmware>>

IpxeStep ==
  \/ FetchCache \/ FetchRepo \/ FetchRefused \/ EnableIpv6
  \/ DisableTls \/ EnableHttps \/ EmbedScript \/ TlsRefused
  \/ Make
  \/ \E f \in Files : CopyOpens(f)
  \/ CopyFirst \/ CopySecond \/ CopyBreaks

(* A fetch that is stopped may leave part of a tree. *)
MaybePartOfATree ==
  tree' \in {tree} \cup (IF xpc = "fetch"
                         THEN {[NoTree EXCEPT !.there = TRUE]} ELSE {})

(* Another command fails: cp -r, git, sed, python3, make or mkdir. *)
BuildBreaks ==
  /\ ~IpxeStopped
  /\ xpc \notin {"second"} \cup Files
  /\ MaybePartOfATree
  /\ xpc' = "failed"
  /\ broken' = TRUE
  /\ UNCHANGED <<fixed, good, options, built, firmware>>

(* A file that was being copied stays cut short. *)
IpxeKilled ==
  /\ ~IpxeStopped
  /\ MaybePartOfATree
  /\ xpc' = "killed"
  /\ UNCHANGED <<fixed, status, options, built, firmware>>

IpxeNext ==
  NewContainer \/ SameContainer \/ IpxeStep \/ BuildBreaks \/ IpxeKilled

IpxeSpec == IpxeInit /\ [][IpxeNext]_ipxeVars

-----------------------------------------------------------------------------
(* Types; only a complete tree is worked on, and the options name the       *)
(* certificate only for a tree that was edited for HTTPS.                   *)
IpxeTypeOK ==
  /\ xpc \in {"idle", "fetch", "ipv6", "tls", "embed", "make", "install",
              "second", "done", "failed", "killed"} \cup Files
  /\ settings \in Settings
  /\ tree \in [there : BOOLEAN, whole : BOOLEAN, ipv6 : BOOLEAN, https : BOOLEAN]
  /\ options \in BOOLEAN
  /\ built \in Firmware \cup {NoFirmware}
  /\ firmware \in [Files -> Firmware \cup {NoFirmware}]
  /\ builds \in 0..MaxBuilds
  /\ broken \in BOOLEAN
  /\ good \subseteq 1..builds
  /\ builds = 0 <=> xpc = "idle"
  /\ xpc \in {"ipv6", "tls", "embed", "make", "install", "second"} \cup Files
       => tree.whole
  /\ options => tree.https

(* A script that ends well has put both files on the shared volume, neither *)
(* cut short, from this very start and as IPXE_ENABLE_TLS and               *)
(* IPXE_ENABLE_IPV6 ask for them, not files of an earlier start or of a     *)
(* tree that an earlier start edited.  None ends well without               *)
(* IPXE_ENABLE_TLS, and IPXE_ENABLE_HTTPS has no say.                       *)
DoneAsAsked ==
  xpc = "done" =>
    /\ settings.tls # "unset"
    /\ \A f \in Files : firmware[f] = [ipv6  |-> settings.ipv6,
                                       https |-> settings.tls = "true",
                                       cert  |-> settings.tls = "true",
                                       whole |-> TRUE,
                                       build |-> builds,
                                       cut   |-> FALSE]

(* Whatever is on the shared volume at any time, though starts fail or are  *)
(* killed between any two commands or in the middle of a copy: a file, cut  *)
(* short or not, is of firmware that carries the certificate and the script *)
(* just if it loads over HTTPS, built from a complete tree.  The files of a *)
(* start that ended well are whole and lie side by side until a later start *)
(* copies over them, and a file beside one of them that is not of the same  *)
(* start is of a later one that has not ended well.                         *)
FirmwareIsSound ==
  \A f \in Files : firmware[f] # NoFirmware =>
    /\ firmware[f].https <=> firmware[f].cert
    /\ firmware[f].whole
    /\ firmware[f].build \in good =>
         /\ ~firmware[f].cut
         /\ \A g \in Files : firmware[g] # firmware[f] =>
              /\ firmware[g] # NoFirmware
              /\ firmware[g].build > firmware[f].build
              /\ firmware[g].build \notin good

(* What README.md says of the environment: IPXE_ENABLE_HTTPS has firmware   *)
(* built with TLS support.  This does not hold: line 18 overwrites it, and  *)
(* what line 75 reads is IPXE_ENABLE_TLS, which README.md does not name.    *)
HttpsSwitchDecides ==
  xpc = "done" => \A f \in Files : firmware[f].https = settings.https
=============================================================================
