----------------------------- MODULE MCEgressIP -----------------------------
(***************************************************************************)
(* Instances of EgressIPCluster for TLC.                                   *)
(***************************************************************************)
EXTENDS EgressIPCluster, TLC

CONSTANTS n1, n2, e1, e2, i1, i2, x2, loop, none

\* The network of address x2 hosts i2; i1 is on the primary network, and may be
\* the address of a host, too.
NetworkOf == (x2 :> {i2}) @@ (i1 :> {})

Plain     == [label |-> TRUE, ready |-> TRUE, annotated |-> TRUE, addrs |-> {}]
Secondary == [Plain EXCEPT !.addrs = {x2}]
Joining   == [Plain EXCEPT !.annotated = FALSE]
Unlabelled(node) == [node EXCEPT !.label = FALSE]

TwoNodes  == (n1 :> Secondary) @@ (n2 :> Plain)

Assigned   == [spec |-> {i1}, status |-> {[ip |-> i1, node |-> n1]}]
Unassigned == [spec |-> {i1}, status |-> {}]

Just(eip) == (e1 :> eip) @@ (e2 :> none)

\* One EgressIP that is updated, deleted and created again while nodes change
\* in these respects.
Flapping(aspects, n) ==
    [nodes |-> TwoNodes, eips |-> Just(Assigned), warm |-> TRUE, created |-> {e1}, deleted |-> {e1},
     specs |-> {{i1, i2}}, forms |-> {}, aspects |-> aspects, MaxChanges |-> n, MaxFailures |-> 0, MaxRestarts |-> 0]

\* Nodes are deleted and created again; a call of the API server fails.
Replaced(aspects, n) ==
    [Flapping(aspects, n) EXCEPT !.created = {n1, n2}, !.deleted = {n1, n2}, !.forms = {Plain, Secondary},
                            !.MaxFailures = 1]

\* A node joins: it is annotated after it has been created.
Joined(n) ==
    [Flapping({"annotated"}, n) EXCEPT !.nodes = (n1 :> none) @@ (n2 :> none), !.eips = Just(Unassigned),
                                       !.created = {n1, n2}, !.deleted = {}, !.forms = {Joining}]

\* A node that is not labelled joins, or a host has the address i1, next to a node
\* that can be used; nodes are labelled and unlabelled, or deleted.
Beside(forms, aspects, deleted, n) ==
    [Joined(n) EXCEPT !.nodes = (n1 :> Plain) @@ (n2 :> none), !.created = {n2, e1}, !.deleted = deleted,
                      !.eips = Just(none), !.specs = {{i1}}, !.forms = forms, !.aspects = aspects]

\* Two EgressIP objects; one of them can only be on one of the nodes.
Other == [spec |-> {i2}, status |-> {[ip |-> i2, node |-> n1]}]
TwoEIPs(aspects, n) ==
    [Flapping(aspects, n) EXCEPT !.eips = (e1 :> Assigned) @@ (e2 :> Other), !.created = {}, !.deleted = {},
                                 !.specs = {}]

\* The controller is started and started again.
Restarts(n) == [Flapping({"ready"}, n) EXCEPT !.warm = FALSE, !.MaxRestarts = 1]

AllScenarios ==
    {Flapping({a}, 4) : a \in {"label", "ready", "addrs", "reach"}}
        \cup {Flapping({a, "addrs", "reach"}, 3) : a \in {"label", "ready"}}
        \cup {Replaced({"reach"}, 3), Joined(4), TwoEIPs({"reach"}, 4), Restarts(1),
              Beside({Joining, Unlabelled(Joining)}, {"annotated", "label"}, {}, 4),
              Beside({Joining, Unlabelled(Joining)}, {"annotated"}, {n2}, 4),
              Beside({[Plain EXCEPT !.addrs = {i1}]}, {"addrs"}, {n2}, 3)}

\* A node is unlabelled and deleted.
GoneNode == {[Replaced({"label"}, 2) EXCEPT !.created = {}, !.MaxFailures = 0]}

\* A node becomes not ready while it is not labelled, and is labelled again.
Relabelled == {[Flapping({"label", "ready"}, 3) EXCEPT !.nodes = (n1 :> Plain) @@ (n2 :> none),
                                                       !.created = {}, !.deleted = {}, !.specs = {}]}

\* An EgressIP is created and deleted while its IPs are being assigned.
Withdrawn == {[Flapping({}, 2) EXCEPT !.eips = Just(none)]}

=============================================================================
