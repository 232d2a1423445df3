-------------------------- MODULE MCNodeAllocator --------------------------
(***************************************************************************)
(* Instances of NodeAllocator for TLC.                                     *)
(***************************************************************************)
EXTENDS NodeAllocator, TLC

CONSTANTS n1, n2, blue, red, flat, zone, hybrid, a4, b4, a6, r4, r6, h4, none

\* The default network blue has two IPv4 ranges, red has a single IPv6 subnet
\* and flat is a network without subnets for the nodes.
Sizes == (a4 :> 1) @@ (b4 :> 2) @@ (a6 :> 2) @@ (r4 :> 2) @@ (r6 :> 1) @@ (h4 :> 2)
V4Of  == (blue :> <<a4, b4>>) @@ (red :> <<r4>>) @@ (flat :> <<>>) @@ (hybrid :> <<h4>>)
V6Of  == (blue :> <<a6>>) @@ (red :> <<r6>>) @@ (flat :> <<>>) @@ (hybrid :> <<>>)

New == [noHostSubnet |-> FALSE, subnets |-> [x \in Nets |-> {}], hybrid |-> {}, networkIDs |-> {},
        id |-> none, other |-> FALSE]

Of(r, i) == [range |-> r, index |-> i]

\* Nodes that have been annotated before.
Old == [New EXCEPT !.subnets = (blue :> {Of(a4, 0), Of(a6, 0)}) @@ (red :> {Of(r4, 0), Of(r6, 0)}) @@ (flat :> {}),
                   !.networkIDs = Nets, !.id = 2]
NoHost == [New EXCEPT !.noHostSubnet = TRUE]

Only(node) == (n1 :> node) @@ (n2 :> none)

\* A node joins, is annotated by others, deleted and created again.
Joining(controllers, n, f) ==
    [nodes |-> Only(none), controllers |-> controllers, names |-> {n1}, forms |-> {New}, hybrid |-> FALSE,
     MaxChanges |-> n, MaxFailures |-> f, MaxRestarts |-> 0]

\* Nodes that compete for a subnet.
Competing(n, f) == [Joining({red}, n, f) EXCEPT !.names = Nodes]

\* Two nodes annotated with the same values; the process is restarted.
Duplicates(c) ==
    [Joining({c}, 0, 1) EXCEPT !.nodes = [m \in Nodes |-> Old], !.MaxRestarts = 1]

\* Nodes without host subnets.
Overlay(n, f) ==
    [Joining({blue}, n, f) EXCEPT !.nodes = (n1 :> NoHost) @@ (n2 :> NoHost), !.names = Nodes,
                                  !.forms = {NoHost}, !.hybrid = TRUE]

\* A network that leaves nodes without host subnets alone, and one that has no
\* subnets for them.
Unconcerned(n) == [Joining({red, flat}, n, 0) EXCEPT !.forms = {NoHost, New}]

\* The process is restarted while a node joins.
Restarting(n) == [Joining({red}, n, 0) EXCEPT !.MaxRestarts = 1]

AllScenarios ==
    {Joining({blue}, 3, 1), Joining({blue, red}, 1, 0), Joining({red, zone}, 2, 0), Competing(3, 0),
     Overlay(1, 1), Unconcerned(1), Restarting(2)} \cup {Duplicates(c) : c \in {blue, zone}}

=============================================================================
