------------------------- MODULE MC_RPCSessionAtomic -------------------------
(***************************************************************************)
(* RPCSession, with one thread, shown to implement AtomicRPC.  The        *)
(* refinement mapping:                                                    *)
(*   ns, size        the worker's host file system, as it is              *)
(*   fds             the worker's descriptor table, renumbered by         *)
(*                   FD_OFFSET (the numbers the application holds)        *)
(*   call            idle while the thread is; "called" while its request *)
(*                   is on the wire or in the worker's buffer, the        *)
(*                   invocation being what that request frame says;       *)
(*                   "done" once the handler has sent the reply, the      *)
(*                   result being what the shim makes of it (ClientView)  *)
(*   live            the client process is running                        *)
(* A request's effect is the abstract Execute: the step in which          *)
(* processRPC runs its handler.                                           *)
(***************************************************************************)
EXTENDS MC_RPCSession

OpName == (OPEN :> "open") @@ (CLOSE :> "close") @@ (READ :> "read") @@
          (WRITE :> "write") @@ (LSEEK :> "lseek") @@ (STAT :> "stat") @@
          (UNLINK :> "unlink") @@ (GETENTRY :> "getdirentries") @@
          (DIRTREE :> "getdirtree")

\* The call a request frame asks for, read off the fields the client's
\* stub marshalled (RPClib.h request headers).
InvOf(frame) ==
    LET op == frame[1]
        b  == Drop(frame, 2)
    IN  [op |-> OpName[op],
         a  |-> CASE op = OPEN -> b[4] [] op = STAT -> b[3]
                  [] op \in {UNLINK, DIRTREE} -> b[2] [] OTHER -> b[1],
         b  |-> CASE op = OPEN -> b[1]
                  [] op \in {READ, WRITE, LSEEK, GETENTRY} -> b[2] [] OTHER -> None]

\* The request of the one thread not yet served: what the worker has
\* received of it followed by what is still on the wire.
PendingFrame == srv.buf \o c2s

AbsIdle == [pc |-> "idle", inv |-> None, res |-> None]

AbsCall == [t \in Threads |->
              IF cl[t].pc = "idle" THEN AbsIdle
              ELSE IF \E i \in DOMAIN owners : owners[i] = t
                   THEN [pc |-> "called", inv |-> InvOf(PendingFrame), res |-> None]
                   ELSE [pc |-> "done", inv |-> None, res |-> ClientView(expect[t])]]

RemoteFdSet == {x + FD_OFFSET : x \in 0..MaxFd}

MCInvocations ==
    {[op |-> "open", a |-> p, b |-> fl] : p \in Paths, fl \in OpenFlags}
    \cup {[op |-> o, a |-> x, b |-> None] : o \in {"close"}, x \in RemoteFdSet}
    \cup {[op |-> "read", a |-> x, b |-> n] : x \in RemoteFdSet, n \in ReadSizes}
    \cup {[op |-> "write", a |-> x, b |-> n] : x \in RemoteFdSet, n \in WriteSizes}
    \cup {[op |-> "getdirentries", a |-> x, b |-> n] : x \in RemoteFdSet, n \in EntrySizes}
    \cup {[op |-> "lseek", a |-> x, b |-> n] : x \in RemoteFdSet, n \in SeekOffsets}
    \cup {[op |-> o, a |-> p, b |-> None] : o \in {"stat", "unlink", "getdirtree"}, p \in Paths}

Atomic == INSTANCE AtomicRPC WITH
    Paths <- Paths, Inos <- Inos, DirInos <- DirInos, RemoteFds <- RemoteFdSet,
    Invocations <- MCInvocations, DirTreeOf <- DirTreeOf,
    ByteOf <- ByteOf, StatOf <- StatOf, None <- None,
    ns <- ns, size <- size,
    fds <- [x \in {y + FD_OFFSET : y \in DOMAIN fdt} |-> fdt[x - FD_OFFSET]],
    live <- app = "running",
    call <- AbsCall,
    last <- last

\* RPCSession implements AtomicRPC: every remote call takes effect once, in
\* one handler step between the stub's send and its return, with the host
\* semantics on the application's own descriptor numbers, returns what the
\* host returned there, and eventually returns.  This is the whole path of
\* the stubs' marshalling, the handlers' FD_OFFSET arithmetic and the
\* shim's decoding at once.
AtomicSpec == Atomic!Spec

=============================================================================
