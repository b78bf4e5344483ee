---------------------------- MODULE MCNatDiscovery ----------------------------
(* Instances of NatDiscovery for TLC.                                        *)
EXTENDS NatDiscovery

\* Every NAT and firewall, and servers of every kind.
AnyWorld == World

\* The script as nat.ts runs it, from a host without NAT or firewall.
OpenHosts ==
    {w \in World : w.procedure = "type" /\ w.open /\ w.filtering = "none"}
===============================================================================
