----------------------------- MODULE Containers -----------------------------
(***************************************************************************)
(* The three container programs that share nothing: the cloud-init tool,   *)
(* the keepalived start script and the iPXE build script.  A behaviour is  *)
(* one of either of them, so that their states add up and do not multiply. *)
(***************************************************************************)
EXTENDS CloudInitTool, Keepalived, IpxeBuild

CloudOff == cpc = "idle" /\ bootstrapped = {}
KeepOff == kpc = "idle"
IpxeOff == xpc = "idle"

ContainersInit == CloudInit /\ KeepInit /\ IpxeInit

ContainersNext ==
  \/ CloudNext /\ KeepOff /\ IpxeOff /\ UNCHANGED <<keepVars, ipxeVars>>
  \/ KeepNext /\ CloudOff /\ IpxeOff /\ UNCHANGED <<cloudVars, ipxeVars>>
  \/ IpxeNext /\ CloudOff /\ KeepOff /\ UNCHANGED <<cloudVars, keepVars>>

allVars == <<cloudVars, keepVars, ipxeVars>>

(* A program that was started goes on: nothing in it waits without a        *)
(* timeout but for files and local commands.                                *)
ContainersSpec ==
  /\ ContainersInit
  /\ [][ContainersNext]_allVars
  /\ WF_allVars(CloudStep /\ UNCHANGED <<keepVars, ipxeVars>>)
  /\ WF_allVars(KeepStep /\ UNCHANGED <<cloudVars, ipxeVars>>)
=============================================================================
