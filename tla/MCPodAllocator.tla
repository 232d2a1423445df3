--------------------------- MODULE MCPodAllocator ---------------------------
\* PodAllocator with the networks the cluster manager allocates pods for.
EXTENDS PodAllocator

\* Layer 2 with and without subnets, localnet with subnets.
AllNetworks == {[ipam |-> TRUE, ids |-> TRUE], [ipam |-> FALSE, ids |-> TRUE],
                [ipam |-> TRUE, ids |-> FALSE]}

Layer2 == {[ipam |-> TRUE, ids |-> TRUE]}

\* The second subnet has fewer IPs than the first.
OneExcluded == [s \in 1 .. NumSubnets |-> IF s = 2 THEN {0} ELSE {}]
=============================================================================
