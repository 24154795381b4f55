---------------------------- MODULE MCContainers ----------------------------
(* A small instance of each of the container programs.  The entries of     *)
(* KEEPALIVED_VIRTUAL_IPS differ in all that the script looks at.          *)
EXTENDS Containers

CONSTANTS host1, host2, ip4, ip6, eth0, eth1

MCEntries ==
  {[ip |-> ip4, interface |-> eth0, prefix |-> Blank],
   [ip |-> ip6, interface |-> eth1, prefix |-> Blank],
   [ip |-> ip6, interface |-> Blank, prefix |-> 24]}
=============================================================================
