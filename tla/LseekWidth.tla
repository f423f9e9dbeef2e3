------------------------------ MODULE LseekWidth ------------------------------
(***************************************************************************)
(* One remote descriptor's offset as lseek reports it:                     *)
(*   lseek          src/15440-p1/mysolution/mylib.c   the client stub      *)
(*   process_lseek  src/15440-p1/mysolution/server.c  the worker's handler *)
(* The host's lseek returns an off_t; process_lseek stores it in an int,   *)
(* replaces a negative int by -errno, and sends it as "%d"; the client     *)
(* takes atoi of it, and a negative number as an errno.  Widths are scaled *)
(* down: an int has IntBits bits and off_t holds every offset up to        *)
(* MaxOff.  The worker's errno persists between handlers, so a failed      *)
(* call earlier in the session leaves its value behind.                    *)
(***************************************************************************)
EXTENDS Integers, DecimalText

CONSTANTS
    IntBits,    \* the width of C's int (32 in the build)
    MaxOff,     \* the largest offset a behaviour reaches (off_t is wider than int)
    FileSize,   \* the size of the open file, the base of SEEK_END
    Deltas      \* the offset arguments applications pass

ASSUME IntBits \in Nat \ {0} /\ MaxOff \in Nat /\ FileSize \in 0..MaxOff
ASSUME Deltas \subseteq Int

SEEK_SET == 0
SEEK_CUR == 1
SEEK_END == 2
Whence == {SEEK_SET, SEEK_CUR, SEEK_END}

\* Host errno values.
ENOENT == 2
EINVAL == 22

VARIABLES
    off,     \* the host file offset of the worker's descriptor
    werrno,  \* errno in the worker process
    ret,     \* what the application's last lseek returned
    cerrno   \* errno in the application

vars == <<off, werrno, ret, cerrno>>

\* Converting an off_t to int: gcc keeps the low IntBits bits, two's
\* complement.
ToInt(x) == ((x + 2^(IntBits - 1)) % 2^IntBits) - 2^(IntBits - 1)

Base(w) == CASE w = SEEK_SET -> 0 [] w = SEEK_CUR -> off [] w = SEEK_END -> FileSize

\* The host's lseek(fd, offset, whence): a target before the start of the
\* file fails with EINVAL and leaves the offset; otherwise the offset moves
\* and is returned.  errno is set on failure only.
HostLseek(w, d) ==
    LET t == Base(w) + d
    IN  IF t >= 0 THEN [ret |-> t, off |-> t, errno |-> werrno]
                  ELSE [ret |-> -1, off |-> off, errno |-> EINVAL]

\* Mutant: the error test of process_lseek is "<= 0".
process_lseek_LeqZero(r, e) ==
    LET lseek_state == ToInt(r)
    IN  Itoa(IF lseek_state <= 0 THEN -1 * e ELSE lseek_state)

\* process_lseek after the host call: int lseek_state = lseek(...);
\* if (lseek_state < 0) lseek_state = -1 * errno; sprintf(msg, "%d", ...).
process_lseek(r, e) ==
    LET lseek_state == ToInt(r)
    IN  Itoa(IF lseek_state < 0 THEN -1 * e ELSE lseek_state)

\* Mutant: errno is set to the reply itself, not to its negation.
ClientLseek_NoNegate(msg) ==
    LET lseek_num == Atoi(msg)
    IN  IF lseek_num < 0 THEN [ret |-> -1, errno |-> lseek_num]
                         ELSE [ret |-> lseek_num, errno |-> cerrno]

\* The client stub's reply half: lseek_num = atoi(buffer); a negative
\* number sets errno and returns -1, anything else is the offset.
ClientLseek(msg) ==
    LET lseek_num == Atoi(msg)
    IN  IF lseek_num < 0 THEN [ret |-> -1, errno |-> -1 * lseek_num]
                         ELSE [ret |-> lseek_num, errno |-> cerrno]

Init ==
    /\ off = 0
    /\ werrno = 0
    /\ ret = 0
    /\ cerrno = 0

\* One remote lseek call, whole (the reply arrives in one recv here).
Lseek(w, d) ==
    LET h == HostLseek(w, d)
        c == ClientLseek(process_lseek(h.ret, h.errno))
    IN  /\ h.off <= MaxOff
        /\ off' = h.off
        /\ werrno' = h.errno
        /\ ret' = c.ret
        /\ cerrno' = c.errno

\* Another call in the same session fails on the host, e.g. process_open
\* of a missing path: the worker's errno is left at e, and the client's
\* open sets its errno from the reply.
OtherCallFails(e) ==
    /\ werrno' = e
    /\ cerrno' = e
    /\ UNCHANGED <<off, ret>>

Next ==
    \/ \E w \in Whence, d \in Deltas : Lseek(w, d)
    \/ OtherCallFails(ENOENT)

Spec == Init /\ [][Next]_vars

-----------------------------------------------------------------------------
TypeOK ==
    /\ off \in 0..MaxOff
    /\ werrno \in {0, ENOENT, EINVAL}
    /\ cerrno \in {0, ENOENT, EINVAL}
    /\ ret \in -1..MaxOff

\* lseek returns what the host's lseek returns (spec: "return values and
\* error-indicator semantics are those of the host primitives"): the new
\* offset on success, and -1 with errno EINVAL, the offset unchanged, on
\* failure.  This is about the int in process_lseek, its "-1 * errno" of
\* whatever errno an earlier call left, and the decimal text between them.
LseekReportsHost ==
    [][\A w \in Whence, d \in Deltas :
         Lseek(w, d) =>
            LET t == Base(w) + d
            IN  IF t >= 0 THEN ret' = t /\ off' = t
                          ELSE ret' = -1 /\ cerrno' = EINVAL /\ off' = off]_vars

=============================================================================
