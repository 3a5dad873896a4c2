----------------------------- MODULE MCMacAlloc -----------------------------
(* The interfaces of the script and a few random numbers.                   *)
EXTENDS MacAlloc

MCIfaces == <<"dsl0", "dsl1", "eth0", "eth1", "eth2", "eth3", "eth4", "eth5">>

=============================================================================
