---------------------------- MODULE MC_DirTreeCodec ----------------------------
(***************************************************************************)
(* Checks the tree codec on every ordered tree of at most MaxNodes nodes   *)
(* over the names Names: the state is one tree, grown a child at a time,  *)
(* so that the invariants are evaluated on every such tree.                *)
(***************************************************************************)
EXTENDS DirTreeCodec, FiniteSets

CONSTANTS Names, MaxNodes, a, b

MCNames == {a, b}
MCNameSize == [n \in {a, b} |-> IF n = a THEN 2 ELSE 3]

ASSUME MaxNodes \in Nat \ {0} /\ Names # {}

VARIABLE tree

\* The positions of the nodes of t: sequences of child indices.
RECURSIVE NodePaths(_)
NodePaths(t) ==
    {<<>>} \cup UNION {{<<j>> \o p : p \in NodePaths(t.subdirs[j])} : j \in 1..Len(t.subdirs)}

RECURSIVE At(_, _)
At(t, p) == IF p = <<>> THEN t ELSE At(t.subdirs[Head(p)], Tail(p))

\* t with a new leaf named n appended to the children of the node at p.
RECURSIVE AddLeaf(_, _, _)
AddLeaf(t, p, n) ==
    IF p = <<>>
    THEN [t EXCEPT !.subdirs = Append(@, [name |-> n, subdirs |-> <<>>])]
    ELSE [t EXCEPT !.subdirs[Head(p)] = AddLeaf(@, Tail(p), n)]

Init == \E n \in Names : tree = [name |-> n, subdirs |-> <<>>]

Grow ==
    /\ Cardinality(NodePaths(tree)) < MaxNodes
    /\ \E p \in NodePaths(tree), n \in Names : tree' = AddLeaf(tree, p, n)

Done == Cardinality(NodePaths(tree)) = MaxNodes /\ UNCHANGED tree

Next == Grow \/ Done

Spec == Init /\ [][Next]_tree

-----------------------------------------------------------------------------
\* Breadth-first order, stated independently of the queue: shallower nodes
\* first, and among nodes of one depth the one whose path from the root is
\* lexicographically smaller first (parent order, then child order).
BfsBefore(p, q) ==
    \/ Len(p) < Len(q)
    \/ /\ Len(p) = Len(q)
       /\ \E k \in 1..Len(p) : p[k] < q[k] /\ \A m \in 1..(k - 1) : p[m] = q[m]

BfsLayout(t) ==
    LET order == SetToSortSeq(NodePaths(t), BfsBefore)
    IN  [k \in 1..Len(order) |-> Record(At(t, order[k]))]

\* The spec's wire layout (spec 4.5): marshalTree writes exactly one record
\* per node, in breadth-first order, each with its own child count.
WireLayoutIsBFS == marshalTree(tree) = BfsLayout(tree)

\* Round trip (spec 8): the tree process_client_getdirtree rebuilds from
\* the records marshalTree writes is the server's tree, child order included.
RoundTrip == process_client_getdirtree(marshalTree(tree)) = tree

\* The frame length agrees with the body: get_total_len (which sizes the
\* reply buffer and its total_len) equals the bytes marshalTree writes and
\* the bytes the client's reader consumes; a mismatch overruns the buffer
\* or leaves the client waiting for bytes that never come.
LengthAgrees ==
    /\ get_total_len(tree) = BytesOf(marshalTree(tree))
    /\ get_total_len(tree) = BytesRead(marshalTree(tree))

=============================================================================
