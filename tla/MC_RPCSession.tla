---------------------------- MODULE MC_RPCSession ----------------------------
(***************************************************************************)
(* Instances of RPCSession for TLC: one file f, one directory d whose tree *)
(* is d with one subdirectory, one missing path m.                         *)
(***************************************************************************)
EXTENDS RPCSession

CONSTANTS f, d, m, n1, n2, t1, t2

MCDirTreeOf == [p \in {d} |-> [name |-> n1,
                               subdirs |-> <<[name |-> n2, subdirs |-> <<>>]>>]]

=============================================================================
