-------------------------- MODULE ContainersProofs --------------------------
(***************************************************************************)
(* Containers adds nothing to the three programs it puts together.         *)
(***************************************************************************)
EXTENDS Containers, CloudInitToolProofs, KeepalivedProofs, IpxeBuildProofs

LEMMA StepOfEither ==
  ASSUME [ContainersNext]_allVars
  PROVE  [CloudNext]_cloudVars /\ [KeepNext]_keepVars /\ [IpxeNext]_ipxeVars
BY DEF ContainersNext, allVars

(* Every behaviour of Containers is one of the cloud-init tool, one of the  *)
(* keepalived script and one of the iPXE script, so that what is proved     *)
(* about each of these holds in it.                                         *)
THEOREM ContainersAreTheThree == ContainersSpec => CloudSpec /\ KeepSpec /\ IpxeSpec
<1>1. ContainersInit => CloudInit /\ KeepInit /\ IpxeInit
  BY DEF ContainersInit
<1>2. QED
  BY <1>1, StepOfEither, PTL DEF ContainersSpec, CloudSpec, KeepSpec, IpxeSpec

(* Put together, an exit status of 0 proves every given host, keepalived    *)
(* runs as its start was configured, and firmware on the volume is sound    *)
(* and, after a start that ended well, what it asked for.                   *)
THEOREM ContainersAreSafe ==
  ContainersSpec => /\ []ExitZeroMeansAll
                    /\ []RunningAsConfigured
                    /\ []FirmwareIsSound
                    /\ []DoneAsAsked
BY ContainersAreTheThree, ZeroMeansAll, RunsAsConfigured, SoundFirmware,
   BuildsWhatIsAsked

(* Put together too, the cloud-init tool gives the verdict it promises.     *)
THEOREM ContainersGiveVerdict == ContainersSpec => VerdictSpec
BY ContainersAreTheThree, GivesVerdict
=============================================================================
