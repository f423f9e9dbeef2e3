---------------------------- MODULE IntReplyBuffer ----------------------------
(***************************************************************************)
(* The integer replies of open, close, write, lseek and unlink, counted in *)
(* bytes.  Each of these calls in the shim (src/15440-p1/mysolution/      *)
(* mylib.c) mallocs a buffer of length bytes, the size of its request as   *)
(* the RPClib.h structs lay it out on the LP64 build, sends it, and reads  *)
(* the reply back into that same buffer:                                   *)
(*     rv = recv(sockfd, buffer, length, 0); buffer[rv] = 0; atoi(buffer)  *)
(* The worker (server.c) answers each request with sprintf("%d") and       *)
(* send(msg, strlen(msg)): the reply is the decimal text alone, no length, *)
(* no terminator.  The store buffer[rv] is inside the buffer only while    *)
(* rv < length.  Several application threads share the one socket, so a   *)
(* recv may take the replies of other threads' calls as well.              *)
(*                                                                         *)
(* RPCSession models the same calls with one unit per header field; this  *)
(* module keeps only what decides the byte count: the request lengths and  *)
(* the text of the replies.  The worker serves requests in the order they  *)
(* were sent (one connection, one worker).                                 *)
(***************************************************************************)
EXTENDS Integers, Sequences, FiniteSets, DecimalText

CONSTANTS
    Threads,        \* application threads calling into the shim
    PathLen,        \* strlen of the paths open and unlink are given
    WriteSizes,     \* counts write is called with
    SeekOffsets,    \* offsets lseek is called with (SEEK_SET)
    WorkerFds,      \* descriptors the worker's open may return
    MaxCalls        \* remote calls the application makes

ASSUME PathLen \in Nat /\ MaxCalls \in Nat

FD_OFFSET == 25000
ENOENT == 2
EBADF == 9

\* sizeof the RPClib.h structs on x86-64 (int 4, mode_t 4, size_t 8,
\* off_t 8; a struct is padded to the alignment of its widest member).
SizeofRequestHeader == 8
SizeofOpenHeader == 12
SizeofCloseHeader == 4
SizeofWriteHeader == 16
SizeofUnlinkHeader == 4
SizeofLseekHeader == 24

\* The length each call mallocs, sends as total_len, and passes to recv.
OpenLength == 1 + PathLen + SizeofRequestHeader + SizeofOpenHeader
CloseLength == SizeofRequestHeader + SizeofCloseHeader
WriteLength(count) == count + SizeofRequestHeader + SizeofWriteHeader
LseekLength == SizeofRequestHeader + SizeofLseekHeader
UnlinkLength == PathLen + 1 + SizeofRequestHeader + SizeofUnlinkHeader

\* What each handler may compute for its request: the host call's result,
\* or -errno when it returned -1.  open adds FD_OFFSET to the descriptor.
process_open(r) == {fd + FD_OFFSET : fd \in WorkerFds} \cup {-ENOENT}
process_close(r) == {0, -EBADF}
process_write(r) == {r.arg, -EBADF}
process_lseek(r) == {r.arg, -EBADF}
process_unlink(r) == {0, -ENOENT}

Results(r) ==
    CASE r.op = "open"   -> process_open(r)
      [] r.op = "close"  -> process_close(r)
      [] r.op = "write"  -> process_write(r)
      [] r.op = "lseek"  -> process_lseek(r)
      [] r.op = "unlink" -> process_unlink(r)

VARIABLES
    cl,         \* per thread: pc, and the length of its request buffer
    c2s,        \* requests sent and not yet served, oldest first
    s2c,        \* reply bytes sent and not yet received
    calls,      \* remote calls made so far
    nul         \* ghost, per thread: [at, size] of its last buffer[rv] = 0

vars == <<cl, c2s, s2c, calls, nul>>

Idle == [pc |-> "idle", len |-> 0]

Init ==
    /\ cl = [t \in Threads |-> Idle]
    /\ c2s = <<>>
    /\ s2c = <<>>
    /\ calls = 0
    /\ nul = [t \in Threads |-> [at |-> 0, size |-> 1]]

\* Any of the five calls: marshal length bytes, send them, and block in
\* recv on the same buffer.
Call(t, op, arg, length) ==
    /\ cl[t].pc = "idle" /\ calls < MaxCalls
    /\ cl' = [cl EXCEPT ![t] = [pc |-> "wait", len |-> length]]
    /\ c2s' = Append(c2s, [op |-> op, arg |-> arg])
    /\ calls' = calls + 1
    /\ UNCHANGED <<s2c, nul>>

open(t) == Call(t, "open", 0, OpenLength)
close(t) == Call(t, "close", 0, CloseLength)
write(t, count) == Call(t, "write", count, WriteLength(count))
lseek(t, offset) == Call(t, "lseek", offset, LseekLength)
unlink(t) == Call(t, "unlink", 0, UnlinkLength)

\* The worker serves the oldest request: its handler computes a result and
\* sends sprintf("%d", result), strlen(msg) bytes.
Serve ==
    /\ c2s # <<>>
    /\ \E res \in Results(Head(c2s)) : s2c' = s2c \o Itoa(res)
    /\ c2s' = Tail(c2s)
    /\ UNCHANGED <<cl, calls, nul>>

\* rv = recv(sockfd, buffer, length, 0) takes rv bytes of what has
\* arrived, at most length, then buffer[rv] = 0 and atoi.  Any thread
\* blocked in recv may be the one the kernel wakes.
Receive(t) ==
    /\ cl[t].pc = "wait" /\ s2c # <<>>
    /\ \E rv \in 1..Min({Len(s2c), cl[t].len}) :
          /\ s2c' = SubSeq(s2c, rv + 1, Len(s2c))
          /\ nul' = [nul EXCEPT ![t] = [at |-> rv, size |-> cl[t].len]]
    /\ cl' = [cl EXCEPT ![t] = Idle]
    /\ UNCHANGED <<c2s, calls>>

\* All calls made and answered.
Done ==
    /\ calls = MaxCalls /\ c2s = <<>>
    /\ \A t \in Threads : cl[t].pc = "idle"
    /\ UNCHANGED vars

Next ==
    \/ \E t \in Threads :
          \/ open(t) \/ close(t) \/ unlink(t)
          \/ \E n \in WriteSizes : write(t, n)
          \/ \E o \in SeekOffsets : lseek(t, o)
          \/ Receive(t)
    \/ Serve
    \/ Done

Spec == Init /\ [][Next]_vars

-----------------------------------------------------------------------------
TypeOK ==
    /\ cl \in [Threads -> [pc : {"idle", "wait"}, len : Nat]]
    /\ calls \in 0..MaxCalls
    /\ nul \in [Threads -> [at : Nat, size : Nat]]

\* Every "buffer[rv] = 0" of the integer-reply calls stores inside the
\* length-byte buffer malloc returned: no recv fills the request buffer
\* completely.
NulInBounds == \A t \in Threads : nul[t].at < nul[t].size

=============================================================================
