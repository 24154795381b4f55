-------------------------- MODULE IpxeBuildProofs --------------------------
(***************************************************************************)
(* Proofs about IpxeBuild for any number of starts: what is on the shared  *)
(* volume is sound at any time, files that are cut short included, and     *)
(* what a script that ends well leaves there is what IPXE_ENABLE_TLS and   *)
(* IPXE_ENABLE_IPV6 ask for.                                               *)
(***************************************************************************)
EXTENDS IpxeBuild, TLAPS

Trees == [there : BOOLEAN, whole : BOOLEAN, ipv6 : BOOLEAN, https : BOOLEAN]

(* The firmware that the environment of this start asks for. *)
Asked == [ipv6  |-> settings.ipv6,
          https |-> settings.tls = "true",
          cert  |-> settings.tls = "true",
          whole |-> TRUE,
          build |-> builds,
          cut   |-> FALSE]

Copying == {"install", "second"} \cup Files

(* How much of what was asked for is done, by the place of the script.  A   *)
(* step can only rely on the edits before it if a fetch undoes whatever an  *)
(* earlier start did to the tree.                                           *)
Progress ==
  /\ xpc = "fetch" => ~options
  /\ xpc = "ipv6" => ~tree.ipv6 /\ ~tree.https /\ ~options
  /\ xpc = "tls" => tree.ipv6 = settings.ipv6 /\ ~tree.https /\ ~options
  /\ xpc = "embed" => tree.ipv6 = settings.ipv6 /\ tree.https /\ ~options
                      /\ settings.tls = "true"
  /\ xpc = "make" => /\ tree.ipv6 = settings.ipv6
                     /\ tree.https = (settings.tls = "true")
                     /\ options = (settings.tls = "true")
  /\ xpc \in {"embed", "make", "done"} \cup Copying => settings.tls # "unset"
  /\ xpc \in Copying => built = Asked
  /\ xpc \in {"second", "snponly.efi"} /\ ~broken => firmware["undionly.kpxe"] = Asked
  /\ xpc = "done" => \A f \in Files : firmware[f] = Asked

(* No file is of a later start than this, which has not ended well before   *)
(* its last command: its copies do not pass for those of a start that did.  *)
Volume ==
  /\ \A f \in Files : firmware[f] # NoFirmware => firmware[f].build <= builds
  /\ xpc # "done" => builds \notin good

IpxeInv == IpxeTypeOK /\ Progress /\ Volume /\ FirmwareIsSound

LEMMA FreshTreeIsTree ==
  /\ NoTree \in Trees
  /\ FreshTree \in Trees
  /\ [NoTree EXCEPT !.there = TRUE] \in Trees
  /\ FreshTree.whole /\ ~FreshTree.ipv6 /\ ~FreshTree.https
  /\ ~NoTree.ipv6 /\ ~NoTree.https
BY DEF NoTree, FreshTree, Trees

(* NoFirmware is no file, so soundness speaks of every file there is, cut   *)
(* short or not.                                                            *)
LEMMA AskedIsFirmware ==
  ASSUME IpxeTypeOK, builds > 0,
         NEW file \in {Asked, [Asked EXCEPT !.cut = TRUE]}
  PROVE  /\ file \in Firmware
         /\ file # NoFirmware
         /\ file.https = file.cert
         /\ file.whole
         /\ file.build = builds
<1>1. builds \in 1..MaxBuilds /\ settings.ipv6 \in BOOLEAN
  BY IpxeBuildAssumption DEF IpxeBuildAssumption, IpxeTypeOK, Settings
<1>2. file \in Firmware
  <2>1. Asked \in Firmware
    BY <1>1 DEF Asked, Firmware
  <2>2. [Asked EXCEPT !.cut = TRUE] \in Firmware
    BY <2>1 DEF Firmware
  <2>3. QED BY <2>1, <2>2
<1>3. file # NoFirmware
  BY <1>2, IpxeBuildAssumption DEF IpxeBuildAssumption
<1>4. file.https = file.cert /\ file.whole /\ file.build = builds
  BY DEF Asked
<1>5. QED BY <1>2, <1>3, <1>4

(* While a start runs a copy of its own does not disturb what others left.  *)
LEMMA CopyIsSound ==
  ASSUME IpxeTypeOK, Volume, FirmwareIsSound, builds > 0, xpc # "done",
         NEW f \in Files, NEW file \in {Asked, [Asked EXCEPT !.cut = TRUE]},
         firmware' = [firmware EXCEPT ![f] = file],
         good' = good, builds' = builds
  PROVE  /\ firmware' \in [Files -> Firmware \cup {NoFirmware}]
         /\ \A g \in Files : firmware'[g] # NoFirmware => firmware'[g].build <= builds'
         /\ FirmwareIsSound'
<1>1. /\ file \in Firmware /\ file # NoFirmware /\ file.https = file.cert
      /\ file.whole /\ file.build = builds
  BY AskedIsFirmware
<1>2. firmware' \in [Files -> Firmware \cup {NoFirmware}]
  BY <1>1 DEF IpxeTypeOK
<1>3. \A g \in Files : firmware'[g] = IF g = f THEN file ELSE firmware[g]
  BY DEF IpxeTypeOK
<1>4. builds \in Nat /\ builds \notin good
  BY IpxeBuildAssumption DEF IpxeBuildAssumption, IpxeTypeOK, Volume
<1>5. \A g \in Files : firmware'[g] # NoFirmware => firmware'[g].build <= builds'
  BY <1>1, <1>3, <1>4 DEF Volume
<1>6. ASSUME NEW g \in Files, g # f, firmware[g] # NoFirmware, firmware[g].build \in good
      PROVE  builds > firmware[g].build
  <2>1. firmware[g].build <= builds /\ firmware[g].build # builds
    BY <1>4, <1>6 DEF Volume
  <2>2. firmware[g].build \in 1..MaxBuilds
    BY <1>6 DEF IpxeTypeOK, Firmware
  <2>3. QED BY <1>4, <2>1, <2>2, IpxeBuildAssumption DEF IpxeBuildAssumption
<1>7. FirmwareIsSound'
  <2>1. SUFFICES ASSUME NEW g \in Files, firmware'[g] # NoFirmware
                 PROVE  /\ firmware'[g].https <=> firmware'[g].cert
                        /\ firmware'[g].whole
                        /\ firmware'[g].build \in good' =>
                             /\ ~firmware'[g].cut
                             /\ \A k \in Files : firmware'[k] # firmware'[g] =>
                                  /\ firmware'[k] # NoFirmware
                                  /\ firmware'[k].build > firmware'[g].build
                                  /\ firmware'[k].build \notin good'
    BY DEF FirmwareIsSound
  <2>2. CASE g = f
    BY <1>1, <1>3, <1>4, <2>2
  <2>3. CASE g # f
    <3>1. firmware'[g] = firmware[g]
      BY <1>3, <2>3
    <3>2. ASSUME firmware[g].build \in good, NEW k \in Files, firmware'[k] # firmware[g]
          PROVE  /\ firmware'[k] # NoFirmware
                 /\ firmware'[k].build > firmware[g].build
                 /\ firmware'[k].build \notin good
      <4>1. CASE k = f
        BY <1>1, <1>3, <1>4, <1>6, <2>1, <2>3, <3>1, <3>2, <4>1
      <4>2. CASE k # f
        BY <1>3, <2>1, <3>1, <3>2, <4>2 DEF FirmwareIsSound
      <4>3. QED BY <4>1, <4>2
    <3>3. QED BY <2>1, <3>1, <3>2 DEF FirmwareIsSound
  <2>4. QED BY <2>2, <2>3
<1>8. QED BY <1>2, <1>5, <1>7

LEMMA InitIpxeInv == IpxeInit => IpxeInv
<1> SUFFICES ASSUME IpxeInit PROVE IpxeInv
  OBVIOUS
<1>1. settings \in Settings
  BY DEF IpxeInit, Settings
<1>2. tree \in Trees /\ 0 \in 0..MaxBuilds
  BY FreshTreeIsTree, IpxeBuildAssumption DEF IpxeBuildAssumption, IpxeInit
<1>3. firmware \in [Files -> Firmware \cup {NoFirmware}]
  BY DEF IpxeInit
<1>4. IpxeTypeOK
  BY <1>1, <1>2, <1>3 DEF IpxeInit, IpxeTypeOK, Trees, Files
<1>5. Progress /\ Volume /\ FirmwareIsSound
  BY DEF IpxeInit, Progress, Copying, Volume, FirmwareIsSound, Files
<1>6. QED BY <1>4, <1>5 DEF IpxeInv

(* A start, in a new container or in one that was there before. *)
LEMMA StartIpxeInv ==
  ASSUME IpxeInv, NewContainer \/ SameContainer
  PROVE  IpxeInv'
<1> USE IpxeBuildAssumption DEF IpxeBuildAssumption
<1>1. /\ xpc' = "fetch" /\ options' = FALSE /\ broken' = FALSE
      /\ builds' = builds + 1 /\ builds < MaxBuilds
      /\ firmware' = firmware /\ good' = good
  BY DEF NewContainer, SameContainer, StartScript
<1>2. settings' \in Settings /\ tree' \in Trees /\ built' \in Firmware \cup {NoFirmware}
  BY FreshTreeIsTree DEF NewContainer, SameContainer, IpxeInv, IpxeTypeOK, Trees
<1>3. /\ builds' \in 0..MaxBuilds /\ builds' # 0
      /\ good' \subseteq 1..builds' /\ builds' \notin good'
  BY <1>1 DEF IpxeInv, IpxeTypeOK
<1>4. IpxeTypeOK'
  BY <1>1, <1>2, <1>3 DEF IpxeInv, IpxeTypeOK, Trees, Files
<1>5. Progress' /\ FirmwareIsSound'
  BY <1>1 DEF IpxeInv, Progress, Copying, Files, FirmwareIsSound
<1>6. Volume'
  <2>1. \A f \in Files : firmware[f] # NoFirmware => firmware[f].build \in Nat
    BY DEF IpxeInv, IpxeTypeOK, Firmware
  <2>2. QED BY <1>1, <1>3, <2>1 DEF IpxeInv, IpxeTypeOK, Volume
<1>7. QED BY <1>4, <1>5, <1>6 DEF IpxeInv

(* The commands up to make, which do not touch the shared volume. *)
LEMMA EditIpxeInv ==
  ASSUME IpxeInv,
         \/ FetchCache \/ FetchRepo \/ FetchRefused \/ EnableIpv6
         \/ DisableTls \/ EnableHttps \/ EmbedScript \/ TlsRefused
  PROVE  IpxeInv'
<1> USE DEF IpxeInv, Copying, Files
<1>1. UNCHANGED <<fixed, status, built, firmware>> /\ xpc # "done" /\ xpc' # "done"
  BY DEF FetchCache, FetchRepo, FetchRefused, EnableIpv6, DisableTls, EnableHttps,
         EmbedScript, TlsRefused, IpxeGoto
<1>2. FirmwareIsSound' /\ Volume'
  BY <1>1 DEF FirmwareIsSound, Volume, fixed, status
<1>3. CASE FetchCache \/ FetchRepo
  <2>1. /\ tree' = FreshTree /\ xpc = "fetch" /\ xpc' = "ipv6"
        /\ options' = options
    BY <1>3 DEF FetchCache, FetchRepo
  <2>2. IpxeTypeOK'
    BY <1>1, <2>1, FreshTreeIsTree DEF IpxeTypeOK, Trees, fixed, status, Progress
  <2>3. Progress'
    BY <1>1, <2>1, FreshTreeIsTree DEF Progress
  <2>4. QED BY <1>2, <2>2, <2>3
<1>4. CASE FetchRefused \/ TlsRefused
  BY <1>1, <1>2, <1>4 DEF FetchRefused, TlsRefused, IpxeGoto, IpxeTypeOK, Progress, fixed, status
<1>5. CASE EnableIpv6
  <2>1. /\ tree' \in Trees /\ tree'.whole = tree.whole /\ tree'.https = tree.https
        /\ tree'.ipv6 = (tree.ipv6 \/ settings.ipv6)
    BY <1>5 DEF EnableIpv6, IpxeTypeOK, Trees, Settings
  <2>2. xpc = "ipv6" /\ xpc' = "tls" /\ options' = options /\ settings.ipv6 \in BOOLEAN
    BY <1>5 DEF EnableIpv6, IpxeTypeOK, Settings
  <2>3. IpxeTypeOK'
    BY <1>1, <2>1, <2>2 DEF IpxeTypeOK, Trees, fixed, status
  <2>4. tree'.ipv6 = settings.ipv6
    BY <2>1, <2>2 DEF Progress
  <2>5. Progress'
    BY <1>1, <2>1, <2>2, <2>4 DEF Progress, fixed, status
  <2>6. QED BY <1>2, <2>3, <2>5
<1>6. CASE DisableTls
  <2>1. /\ xpc = "tls" /\ xpc' = "make" /\ settings.tls # "true"
        /\ settings.tls # "unset" /\ UNCHANGED <<tree, options>>
    BY <1>6 DEF DisableTls, IpxeGoto
  <2>2. IpxeTypeOK'
    BY <1>1, <2>1 DEF IpxeTypeOK, fixed, status
  <2>3. tree.https = FALSE /\ options = FALSE
    BY <2>1 DEF Progress, IpxeTypeOK
  <2>4. Progress'
    BY <1>1, <2>1, <2>3 DEF Progress, fixed, status
  <2>5. QED BY <1>2, <2>2, <2>4
<1>7. CASE EnableHttps
  <2>1. /\ tree' \in Trees /\ tree'.whole = tree.whole /\ tree'.ipv6 = tree.ipv6
        /\ tree'.https = TRUE
    BY <1>7 DEF EnableHttps, IpxeTypeOK, Trees
  <2>2. /\ xpc = "tls" /\ xpc' = "embed" /\ options' = options
        /\ settings.tls = "true"
    BY <1>7 DEF EnableHttps
  <2>3. IpxeTypeOK'
    BY <1>1, <2>1, <2>2 DEF IpxeTypeOK, Trees, fixed, status
  <2>4. Progress'
    BY <1>1, <2>1, <2>2 DEF Progress, fixed, status
  <2>5. QED BY <1>2, <2>3, <2>4
<1>8. CASE EmbedScript
  <2>1. xpc = "embed" /\ xpc' = "make" /\ options' = TRUE /\ tree' = tree
    BY <1>8 DEF EmbedScript
  <2>2. IpxeTypeOK'
    BY <1>1, <2>1 DEF IpxeTypeOK, Progress, fixed, status
  <2>3. tree.https = TRUE
    BY <2>1 DEF Progress, IpxeTypeOK
  <2>4. Progress'
    BY <1>1, <2>1, <2>3 DEF Progress, fixed, status
  <2>5. QED BY <1>2, <2>2, <2>4
<1>9. QED BY <1>3, <1>4, <1>5, <1>6, <1>7, <1>8

LEMMA MakeIpxeInv == ASSUME IpxeInv, Make PROVE IpxeInv'
<1> USE DEF IpxeInv, Copying, Files
<1>1. /\ xpc = "make" /\ xpc' = "install"
      /\ UNCHANGED <<fixed, status, tree, options, firmware>>
  BY DEF Make
<1>2. builds > 0
  BY <1>1, IpxeBuildAssumption DEF IpxeBuildAssumption, IpxeTypeOK
<1>3. built' = Asked
  BY <1>1 DEF Make, Asked, Progress, IpxeTypeOK
<1>4. IpxeTypeOK'
  BY <1>1, <1>2, <1>3, AskedIsFirmware DEF IpxeTypeOK, fixed, status
<1>5. Asked' = Asked
  BY <1>1 DEF Asked, fixed
<1>6. Progress' /\ Volume' /\ FirmwareIsSound'
  BY <1>1, <1>3, <1>5 DEF Progress, Volume, FirmwareIsSound, fixed, status
<1>7. QED BY <1>4, <1>6

(* The final cp: it cuts off a file, writes it, and goes on with the other  *)
(* though it could not; *)
LEMMA CopyIpxeInv ==
  ASSUME IpxeInv,
         \/ \E f \in Files : CopyOpens(f)
         \/ CopyFirst \/ CopyBreaks
         \/ CopySecond /\ broken
  PROVE  IpxeInv'
<1> USE DEF IpxeInv, Copying
<1>1. /\ xpc \in Copying /\ xpc' \in {"second", "failed"} \cup Files
      /\ UNCHANGED <<fixed, good, tree, options, built>>
      /\ broken' \in BOOLEAN
  BY DEF CopyOpens, CopyFirst, CopyBreaks, CopySecond, Files, status, IpxeTypeOK
<1>2. builds > 0 /\ built = Asked /\ xpc # "done" /\ xpc' # "done" /\ tree.whole
  BY <1>1, IpxeBuildAssumption DEF IpxeBuildAssumption, IpxeTypeOK, Progress, Files
<1>3. \/ firmware' = firmware
      \/ \E f \in Files, file \in {Asked, [Asked EXCEPT !.cut = TRUE]} :
            firmware' = [firmware EXCEPT ![f] = file]
  BY <1>2 DEF CopyOpens, CopyFirst, CopyBreaks, CopySecond, Files
<1>4. /\ firmware' \in [Files -> Firmware \cup {NoFirmware}]
      /\ \A g \in Files : firmware'[g] # NoFirmware => firmware'[g].build <= builds'
      /\ FirmwareIsSound'
  <2>1. CASE firmware' = firmware
    BY <1>1, <2>1 DEF IpxeTypeOK, Volume, FirmwareIsSound, fixed
  <2>2. QED BY <1>1, <1>2, <1>3, <2>1, CopyIsSound DEF fixed
<1>5. IpxeTypeOK'
  BY <1>1, <1>2, <1>4 DEF IpxeTypeOK, fixed, Files
<1>6. Volume'
  BY <1>1, <1>2, <1>4 DEF Volume, fixed
<1>7. Asked' = Asked
  BY <1>1 DEF Asked, fixed
<1>8. xpc' \in {"second", "snponly.efi"} /\ ~broken' =>
        firmware'["undionly.kpxe"] = Asked
  <2>1. CASE CopyFirst
    BY <1>2, <2>1 DEF CopyFirst, IpxeTypeOK, Files
  <2>2. ASSUME NEW f \in Files, CopyOpens(f)
        PROVE  xpc' \in {"second", "snponly.efi"} /\ ~broken' =>
                 firmware'["undionly.kpxe"] = Asked
    <3>1. CASE f = "undionly.kpxe"
      BY <2>2, <3>1 DEF CopyOpens
    <3>2. CASE f = "snponly.efi"
      <4>1. firmware'["undionly.kpxe"] = firmware["undionly.kpxe"]
        BY <2>2, <3>2 DEF CopyOpens, IpxeTypeOK, Files
      <4>2. QED BY <2>2, <3>2, <4>1 DEF CopyOpens, Progress, status
    <3>3. QED BY <3>1, <3>2 DEF Files
  <2>3. CASE CopyBreaks \/ (CopySecond /\ broken)
    BY <2>3 DEF CopyBreaks, CopySecond
  <2>4. QED BY <2>1, <2>2, <2>3
<1>9. Progress'
  BY <1>1, <1>2, <1>7, <1>8 DEF Progress, fixed, Files
<1>10. QED BY <1>4, <1>5, <1>6, <1>9

(* it succeeds if it could write both. *)
LEMMA DoneIpxeInv == ASSUME IpxeInv, CopySecond, ~broken PROVE IpxeInv'
<1> USE DEF IpxeInv, Copying
<1>1. /\ xpc = "snponly.efi" /\ xpc' = "done" /\ good' = good \cup {builds}
      /\ UNCHANGED <<fixed, tree, options, built, broken>>
  BY DEF CopySecond
<1>2. /\ builds > 0 /\ built = Asked /\ settings.tls # "unset"
      /\ firmware["undionly.kpxe"] = Asked
  BY <1>1, IpxeBuildAssumption DEF IpxeBuildAssumption, IpxeTypeOK, Progress, Files
<1>3. \A f \in Files : firmware'[f] = Asked
  BY <1>1, <1>2 DEF CopySecond, IpxeTypeOK, Files
<1>4. /\ Asked \in Firmware /\ Asked # NoFirmware /\ Asked.https = Asked.cert
      /\ Asked.whole /\ Asked.build = builds /\ ~Asked.cut
  BY <1>2, AskedIsFirmware DEF Asked
<1>5. IpxeTypeOK'
  <2>1. firmware' \in [Files -> Firmware \cup {NoFirmware}]
    BY <1>1, <1>2, <1>4 DEF CopySecond, IpxeTypeOK
  <2>2. good' \subseteq 1..builds
    BY <1>1, <1>2 DEF IpxeTypeOK
  <2>3. QED BY <1>1, <2>1, <2>2 DEF IpxeTypeOK, fixed, Files
<1>6. Asked' = Asked
  BY <1>1 DEF Asked, fixed
<1>7. Progress'
  BY <1>1, <1>2, <1>3, <1>6 DEF Progress, fixed, Files
<1>8. Volume'
  <2>1. builds \in Nat
    BY IpxeBuildAssumption DEF IpxeBuildAssumption, IpxeTypeOK
  <2>2. QED BY <1>1, <1>3, <1>4, <2>1 DEF Volume, fixed
<1>9. FirmwareIsSound'
  BY <1>3, <1>4 DEF FirmwareIsSound
<1>10. QED BY <1>5, <1>7, <1>8, <1>9

(* Another command fails or the container is killed, perhaps halfway the    *)
(* fetch or a copy.                                                         *)
LEMMA StopIpxeInv == ASSUME IpxeInv, BuildBreaks \/ IpxeKilled PROVE IpxeInv'
<1> USE DEF IpxeInv
<1>1. /\ ~IpxeStopped /\ xpc' \in {"failed", "killed"} /\ broken' \in BOOLEAN
      /\ UNCHANGED <<settings, builds, good, options, built, firmware>>
  BY DEF BuildBreaks, IpxeKilled, IpxeTypeOK, fixed, status
<1>2. tree' = tree \/ (xpc = "fetch" /\ tree' = [NoTree EXCEPT !.there = TRUE])
  BY DEF BuildBreaks, IpxeKilled, MaybePartOfATree
<1>3. options' => tree'.https
  BY <1>1, <1>2 DEF IpxeTypeOK, Progress
<1>4. IpxeTypeOK'
  BY <1>1, <1>2, <1>3, FreshTreeIsTree DEF IpxeTypeOK, Trees, IpxeStopped, Files
<1>5. Progress' /\ Volume' /\ FirmwareIsSound'
  BY <1>1 DEF Progress, Copying, Files, Volume, FirmwareIsSound, IpxeStopped
<1>6. QED BY <1>4, <1>5

LEMMA NextIpxeInv == IpxeInv /\ [IpxeNext]_ipxeVars => IpxeInv'
<1> SUFFICES ASSUME IpxeInv, [IpxeNext]_ipxeVars PROVE IpxeInv'
  OBVIOUS
<1>1. CASE NewContainer \/ SameContainer
  BY <1>1, StartIpxeInv
<1>2. CASE IpxeStep
  BY <1>2, EditIpxeInv, MakeIpxeInv, CopyIpxeInv, DoneIpxeInv DEF IpxeStep
<1>3. CASE BuildBreaks \/ IpxeKilled
  BY <1>3, StopIpxeInv
<1>4. CASE UNCHANGED ipxeVars
  BY <1>4 DEF ipxeVars, IpxeInv, IpxeTypeOK, Progress, Volume, FirmwareIsSound, Asked
<1>5. QED BY <1>1, <1>2, <1>3, <1>4 DEF IpxeNext

LEMMA IpxeInvHolds == IpxeSpec => []IpxeInv
BY InitIpxeInv, NextIpxeInv, PTL DEF IpxeSpec

-----------------------------------------------------------------------------
(* The types of buildipxe.sh, for any number of starts: only a complete     *)
(* tree is worked on, and the certificate is named only for HTTPS.          *)
THEOREM IpxeTypeCorrect == IpxeSpec => []IpxeTypeOK
<1>1. IpxeInv => IpxeTypeOK
  BY DEF IpxeInv
<1>2. QED BY <1>1, IpxeInvHolds, PTL

(* Whatever start of buildipxe.sh failed or was killed wherever, also in    *)
(* the middle of a copy: firmware on the shared volume comes from a         *)
(* complete tree and carries the certificate and the script exactly if it   *)
(* loads over HTTPS, and the files of a start that ended well stay whole    *)
(* and side by side but for those that a later start copies over, which     *)
(* then has not ended well.                                                 *)
THEOREM SoundFirmware == IpxeSpec => []FirmwareIsSound
<1>1. IpxeInv => FirmwareIsSound
  BY DEF IpxeInv
<1>2. QED BY <1>1, IpxeInvHolds, PTL

(* When buildipxe.sh ends well both files are whole, come from this start   *)
(* and are what IPXE_ENABLE_TLS and IPXE_ENABLE_IPV6 ask for; it never ends *)
(* well without IPXE_ENABLE_TLS.                                            *)
THEOREM BuildsWhatIsAsked == IpxeSpec => []DoneAsAsked
<1>1. IpxeInv => DoneAsAsked
  BY DEF IpxeInv, Progress, DoneAsAsked, Asked
<1>2. QED BY <1>1, IpxeInvHolds, PTL
=============================================================================
