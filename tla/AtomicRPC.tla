------------------------------ MODULE AtomicRPC ------------------------------
(***************************************************************************)
(* What the remote file system promises an application (spec.md, "the     *)
(* intercepted call surface": return values and errors are those of the   *)
(* host primitives): every remote call takes effect on the server's file  *)
(* system in one step between its invocation and its return, and returns  *)
(* what the host primitive returned there.  Remote descriptors are the    *)
(* application's own numbers (RemoteFds); no wire, no worker, no offset   *)
(* arithmetic.  Each call is a request (Invoke), its effect (Execute) and *)
(* its response (Respond).                                                *)
(***************************************************************************)
EXTENDS Integers, Sequences, FiniteSets, Functions, TLC

CONSTANTS
    Threads,        \* application threads
    Paths,          \* server paths
    Inos,           \* inode numbers
    DirInos,        \* the inodes that are directories
    RemoteFds,      \* descriptors the shim routes to the server
    Invocations,    \* the calls applications make: [op, a, b]
    DirTreeOf,      \* getdirtree's tree, per directory path
    ByteOf(_, _),   \* the byte of an inode at an offset
    StatOf(_, _),   \* the stat buffer of an inode of a size
    None

ENOENT == 2
EBADF == 9
ENOTDIR == 20
EISDIR == 21
O_RDONLY == 0
O_CREAT == 64

VARIABLES
    ns,     \* path -> inode, 0 for no entry
    size,   \* inode -> size
    fds,    \* the application's remote descriptors -> [ino, off, wr]
    live,   \* the application process is running
    call,   \* per thread: [pc, inv, res] of its current call
    last    \* per thread: what its last remote call returned

avars == <<ns, size, fds, live, call, last>>

Idle == [pc |-> "idle", inv |-> None, res |-> None]

Ok(r, data) == [ret |-> r, err |-> 0, data |-> data]
Fail(e) == [ret |-> -1, err |-> e, data |-> <<>>]

Init ==
    /\ ns \in [Paths -> {0} \cup Inos]
    /\ size \in [Inos -> Nat]
    /\ fds = <<>>
    /\ live = TRUE
    /\ call = [t \in Threads |-> Idle]
    /\ last = [t \in Threads |-> None]

\* The call of thread t takes effect with result res.
Done(t, res) == call' = [call EXCEPT ![t] = [pc |-> "done", inv |-> None, res |-> res]]

\* A call that fails changes nothing on the server.
Fails(t, e) == Done(t, Fail(e)) /\ UNCHANGED <<ns, size, fds>>

InUse == Range(ns) \cup {fds[d].ino : d \in DOMAIN fds}

\* The bytes of a file a read of n at descriptor d returns, and the offset
\* after it.
Chunk(d, n) ==
    LET f == fds[d]
        k == IF n < size[f.ino] - f.off THEN n ELSE size[f.ino] - f.off
        m == IF k < 0 THEN 0 ELSE k
    IN  [n |-> m, data |-> [i \in 1..m |-> ByteOf(f.ino, f.off + i - 1)]]

Open(t, path, flags) ==
    LET creat == (flags \div O_CREAT) % 2 = 1
    IN  \/ ns[path] = 0 /\ ~creat /\ Fails(t, ENOENT)
        \/ ns[path] \in DirInos /\ flags # O_RDONLY /\ Fails(t, EISDIR)
        \/ /\ ns[path] # 0 => (ns[path] \notin DirInos \/ flags = O_RDONLY)
           /\ ns[path] = 0 => creat
           /\ \E ino \in IF ns[path] # 0 THEN {ns[path]} ELSE Inos \ (InUse \cup DirInos),
                 d \in RemoteFds \ DOMAIN fds :
                /\ ns' = [ns EXCEPT ![path] = ino]
                /\ size' = IF ns[path] = 0 THEN [size EXCEPT ![ino] = 0] ELSE size
                /\ fds' = (d :> [ino |-> ino, off |-> 0, wr |-> flags # O_RDONLY]) @@ fds
                /\ Done(t, Ok(d, <<>>))

Close(t, d) ==
    \/ d \notin DOMAIN fds /\ Fails(t, EBADF)
    \/ /\ d \in DOMAIN fds
       /\ fds' = [x \in DOMAIN fds \ {d} |-> fds[x]]
       /\ Done(t, Ok(0, <<>>))
       /\ UNCHANGED <<ns, size>>

Read(t, d, n) ==
    \/ d \notin DOMAIN fds /\ Fails(t, EBADF)
    \/ d \in DOMAIN fds /\ fds[d].ino \in DirInos /\ Fails(t, EISDIR)
    \/ /\ d \in DOMAIN fds /\ fds[d].ino \notin DirInos
       /\ fds' = [fds EXCEPT ![d].off = @ + Chunk(d, n).n]
       /\ Done(t, Ok(Chunk(d, n).n, Chunk(d, n).data))
       /\ UNCHANGED <<ns, size>>

Write(t, d, n) ==
    \/ (d \notin DOMAIN fds \/ ~fds[d].wr) /\ Fails(t, EBADF)
    \/ /\ d \in DOMAIN fds /\ fds[d].wr
       /\ size' = [size EXCEPT ![fds[d].ino] = IF @ < fds[d].off + n THEN fds[d].off + n ELSE @]
       /\ fds' = [fds EXCEPT ![d].off = @ + n]
       /\ Done(t, Ok(n, <<>>))
       /\ UNCHANGED ns

Lseek(t, d, o) ==
    \/ d \notin DOMAIN fds /\ Fails(t, EBADF)
    \/ /\ d \in DOMAIN fds
       /\ fds' = [fds EXCEPT ![d].off = o]
       /\ Done(t, Ok(o, <<>>))
       /\ UNCHANGED <<ns, size>>

Stat(t, path) ==
    \/ ns[path] = 0 /\ Fails(t, ENOENT)
    \/ /\ ns[path] # 0
       /\ Done(t, Ok(0, <<StatOf(ns[path], size[ns[path]])>>))
       /\ UNCHANGED <<ns, size, fds>>

Unlink(t, path) ==
    \/ ns[path] = 0 /\ Fails(t, ENOENT)
    \/ ns[path] \in DirInos /\ Fails(t, EISDIR)
    \/ /\ ns[path] # 0 /\ ns[path] \notin DirInos
       /\ ns' = [ns EXCEPT ![path] = 0]
       /\ Done(t, Ok(0, <<>>))
       /\ UNCHANGED <<size, fds>>

\* getdirentries: the entries from the offset on, after *basep, which is
\* the offset before the call.
GetEntries(t, d, n) ==
    \/ d \notin DOMAIN fds /\ Fails(t, EBADF)
    \/ d \in DOMAIN fds /\ fds[d].ino \notin DirInos /\ Fails(t, ENOTDIR)
    \/ /\ d \in DOMAIN fds /\ fds[d].ino \in DirInos
       /\ fds' = [fds EXCEPT ![d].off = @ + Chunk(d, n).n]
       /\ Done(t, Ok(Chunk(d, n).n, <<fds[d].off>> \o Chunk(d, n).data))
       /\ UNCHANGED <<ns, size>>

DirTree(t, path) ==
    \/ ns[path] = 0 /\ Fails(t, ENOENT)
    \/ ns[path] # 0 /\ ns[path] \notin DirInos /\ Fails(t, ENOTDIR)
    \/ /\ ns[path] \in DirInos
       /\ Done(t, Ok(0, <<DirTreeOf[path]>>))
       /\ UNCHANGED <<ns, size, fds>>

Invoke(t) ==
    /\ live /\ call[t].pc = "idle"
    /\ \E i \in Invocations : call' = [call EXCEPT ![t] = [pc |-> "called", inv |-> i, res |-> None]]
    /\ UNCHANGED <<ns, size, fds, live, last>>

Execute(t) ==
    LET i == call[t].inv
    IN  /\ call[t].pc = "called"
        /\ CASE i.op = "open"          -> Open(t, i.a, i.b)
             [] i.op = "close"         -> Close(t, i.a)
             [] i.op = "read"          -> Read(t, i.a, i.b)
             [] i.op = "write"         -> Write(t, i.a, i.b)
             [] i.op = "lseek"         -> Lseek(t, i.a, i.b)
             [] i.op = "stat"          -> Stat(t, i.a)
             [] i.op = "unlink"        -> Unlink(t, i.a)
             [] i.op = "getdirentries" -> GetEntries(t, i.a, i.b)
             [] i.op = "getdirtree"    -> DirTree(t, i.a)
        /\ UNCHANGED <<live, last>>

Respond(t) ==
    /\ call[t].pc = "done"
    /\ call' = [call EXCEPT ![t] = Idle]
    /\ last' = [last EXCEPT ![t] = call[t].res]
    /\ UNCHANGED <<ns, size, fds, live>>

\* The application exits between calls; the server then drops its
\* descriptors.
Exit ==
    /\ live /\ \A t \in Threads : call[t].pc = "idle"
    /\ live' = FALSE
    /\ UNCHANGED <<ns, size, fds, call, last>>

Release ==
    /\ ~live
    /\ fds' = <<>>
    /\ UNCHANGED <<ns, size, live, call, last>>

Next == \E t \in Threads : Invoke(t) \/ Execute(t) \/ Respond(t)
        \/ Exit \/ Release

\* Every call takes effect and returns.
Spec == Init /\ [][Next]_avars
        /\ \A t \in Threads : WF_avars(Execute(t)) /\ WF_avars(Respond(t))

=============================================================================
