----------------------------- MODULE DirTreeCodec -----------------------------
(***************************************************************************)
(* The wire form of a directory tree (the DIRTREE reply).                  *)
(*   marshalTree, get_total_len          src/.../server.c                  *)
(*   process_client_getdirtree           src/.../mylib.c                   *)
(* A tree node is a record [name |-> n, subdirs |-> <<child, ...>>], the   *)
(* struct dirtreenode with its num_subdirs given by Len(subdirs).  The     *)
(* reply is a sequence of records [num_subdirs, filename_len, name], one   *)
(* dirtree_reply_header_t each with its name after it.                     *)
(***************************************************************************)
EXTENDS Integers, Sequences, SequencesExt

CONSTANTS
    RecHdr,     \* sizeof(dirtree_reply_header_t): num_subdirs and filename_len
    NameSize    \* name -> strlen(name) + 1, the bytes the name takes on the wire

\* One record of the reply, written for a node (the body of marshalTree's
\* inner loop and of its root case).
Record(node) ==
    [num_subdirs  |-> Len(node.subdirs),
     filename_len |-> NameSize[node.name],
     name         |-> node.name]

\* Bytes one record takes: the header then filename_len bytes of name.
RecordBytes(r) == RecHdr + r.filename_len

\* Bytes a sequence of records takes.
BytesOf(recs) == FoldLeft(LAMBDA acc, r : acc + RecordBytes(r), 0, recs)

\* marshalTree's while (size > 0) loop: queue holds one level of the tree,
\* queue2 the next one, built from the subdirs of every node of queue in
\* order; the records of queue2 are written as it is built.
RECURSIVE MarshalLevels(_)
MarshalLevels(queue) ==
    IF queue = <<>> THEN <<>>
    ELSE LET queue2 == FlattenSeq([i \in 1..Len(queue) |-> queue[i].subdirs])
         IN  [j \in 1..Len(queue2) |-> Record(queue2[j])] \o MarshalLevels(queue2)

\* Mutant: the inner loop writes a node's record before its children are
\* queued, depth first (a recursive writer in place of the queue).
RECURSIVE marshalTree_DepthFirst(_)
marshalTree_DepthFirst(root) ==
    <<Record(root)>> \o FlattenSeq([j \in 1..Len(root.subdirs) |->
                                        marshalTree_DepthFirst(root.subdirs[j])])

\* marshalTree: the root's record, then the levels below it.
marshalTree(root) == <<Record(root)>> \o MarshalLevels(<<root>>)

\* Mutant: the size of a record counts strlen(name) without its NUL.
RECURSIVE get_total_len_NoNul(_)
get_total_len_NoNul(node) ==
    RecHdr + NameSize[node.name] - 1
      + FoldLeft(LAMBDA acc, c : acc + get_total_len_NoNul(c), 0, node.subdirs)

\* get_total_len: depth-first sum of header plus name bytes over all nodes.
RECURSIVE get_total_len(_)
get_total_len(node) ==
    RecHdr + NameSize[node.name]
      + FoldLeft(LAMBDA acc, c : acc + get_total_len(c), 0, node.subdirs)

\* The reader's cursor: process_client_getdirtree consumes records in order,
\* the children of every node of a level in turn, so the children of the
\* i-th record read are the num_subdirs records that follow all children of
\* records 1..i-1.
FirstChild(recs, i) ==
    2 + FoldLeft(LAMBDA acc, r : acc + r.num_subdirs, 0, SubSeq(recs, 1, i - 1))

\* The indices of the records the reader consumes, starting from the root.
RECURSIVE Visited(_, _)
Visited(recs, i) ==
    {i} \cup UNION {Visited(recs, FirstChild(recs, i) + j - 1) :
                        j \in 1..recs[i].num_subdirs}

\* Mutant: a node's child slots are filled from the last one back.
process_client_getdirtree_Reversed(recs) ==
    LET RECURSIVE Node(_)
        Node(i) == [name    |-> recs[i].name,
                    subdirs |-> [j \in 1..recs[i].num_subdirs |->
                                    Node(FirstChild(recs, i) + recs[i].num_subdirs - j)]]
    IN  Node(1)

\* process_client_getdirtree, for a reply whose first num_subdirs is not
\* negative (the error case is the caller's, see RPCSession): every node is
\* built by new_dirtreenode with its name and num_subdirs, and its child
\* slots are filled from the records the cursor reaches.
process_client_getdirtree(recs) ==
    LET RECURSIVE Node(_)
        Node(i) == [name    |-> recs[i].name,
                    subdirs |-> [j \in 1..recs[i].num_subdirs |->
                                    Node(FirstChild(recs, i) + j - 1)]]
    IN  Node(1)

\* Bytes the reader consumes.
BytesRead(recs) ==
    LET idx == Visited(recs, 1)
    IN  FoldLeft(LAMBDA acc, i : acc + RecordBytes(recs[i]), 0, SetToSeq(idx))

=============================================================================
