------------------------------ MODULE RPCSession ------------------------------
(***************************************************************************)
(* One client process and the server worker that serves its connection.   *)
(*   client shim   src/15440-p1/mysolution/mylib.c  (open ... getdirtree)  *)
(*   worker        src/15440-p1/mysolution/server.c (serve_client,         *)
(*                 processRPC and the process_ handlers)                   *)
(*   connection    one TCP stream per direction, c2s and s2c               *)
(*                                                                         *)
(* A stream is a sequence of units.  A unit stands for one field of a      *)
(* binary header (opcode, total_len, fd, ...), one byte of a payload, one  *)
(* name, or one ASCII character of a decimal reply; total_len, the recv    *)
(* sizes and MAXMSGLEN are counted in the same units.  A recv takes a      *)
(* prefix of what has been sent and not yet received.                      *)
(***************************************************************************)
EXTENDS Integers, Sequences, SequencesExt, FiniteSets, FiniteSetsExt, DecimalText

CONSTANTS
    Threads,        \* application threads calling into the shim
    Files,          \* server paths that are regular files at start
    Dirs,           \* server paths that are directories
    Missing,        \* server paths with no directory entry at start
    FileSize,       \* size of every initial file
    DirEntries,     \* size of the entries of every directory
    DirTreeOf,      \* what getdirtree() returns on the server, per directory
    TreeNames,      \* the names in those trees
    LocalFds,       \* descriptors the application holds from its own OS
    FD_OFFSET,      \* RPClib.h
    MAXMSGLEN,      \* the recv scratch buffer of every receive loop
    MaxCalls,       \* calls the application makes before it exits
    ReadSizes, WriteSizes, EntrySizes, SeekOffsets,
    Uninit,         \* a unit of memory nobody wrote (malloc, stack)
    None,           \* no value
    Split,          \* TRUE: a recv may return any non-empty part of what is there
    ServerMayCrash, \* TRUE: the worker process may be killed at any point
    ClientMayDieMidSend \* TRUE: the application may be killed inside write's send

Paths == Files \cup Dirs \cup Missing

ASSUME /\ Files \cap Dirs = {} /\ (Files \cup Dirs) \cap Missing = {}
       /\ MAXMSGLEN >= 4 /\ MaxCalls \in Nat
       /\ \A fd \in LocalFds : 0 <= fd /\ fd < FD_OFFSET

\* RPClib.h opcodes.
OPEN == 0
CLOSE == 1
READ == 2
WRITE == 3
DIRTREE == 4
UNLINK == 5
LSEEK == 6
STAT == 7
GETENTRY == 8

\* The host's errno values and flags the model uses.
ENOENT == 2
EBADF == 9
ENOTDIR == 20
EISDIR == 21
O_RDONLY == 0
O_RDWR == 2
O_CREAT == 64
SEEK_SET == 0
STAT_VER == 1
OpenFlags == {O_RDONLY, O_CREAT + O_RDWR}
HasCreat(flags) == (flags \div O_CREAT) % 2 = 1

\* The worker's own descriptors: stdio, and the connection (fd 4: main()
\* holds the listening socket at 3 when accept returns 4, and the child
\* closes 3).
SessFd == 4
WorkerFds == {0, 1, 2, SessFd}

\* request_header_t: opcode and total_len before the body.
Frame(op, body) == <<op, 2 + Len(body)>> \o body

\* The request bodies after request_header_t, field by field as the
\* RPClib.h structs lay them out; a path is one unit after its length.
OpenRequest(flag, mode, path) == <<flag, mode, 1, path>>
CloseRequest(fd) == <<fd>>
ReadRequest(fd, nbyte) == <<fd, nbyte>>
WriteRequest(fd, count, data) == <<fd, count>> \o data
DirtreeRequest(path) == <<1, path>>
UnlinkRequest(path) == <<1, path>>
LseekRequest(fd, offset, whence) == <<fd, offset, whence>>
StatRequest(ver, path) == <<ver, 1, path>>
GetEntriesRequest(fd, nbyte, basep) == <<fd, nbyte, basep>>

\* The framed reply bodies: read_reply_header_t, stat_reply_header_t and
\* getdirentries_reply_header_t, each followed by its data.
ReadReply(read_num, data) == <<read_num>> \o data
StatReply(state, buf) == <<state, buf>>
GetEntriesReply(read_num, basep, data) == <<read_num, basep>> \o data

\* Drop the first k units of a stream.
Drop(s, k) == SubSeq(s, k + 1, Len(s))

\* What one recv may return when avail units are there and the buffer has
\* room for cap: all that fits (the delivery the code assumes) or, under
\* Split, any non-empty part of it (what TCP allows).
ChunkSizes(avail, cap) ==
    IF Split THEN 1..Min({avail, cap}) ELSE {Min({avail, cap})}

-----------------------------------------------------------------------------
(* The directory tree reply: records of three units, num_subdirs,          *)
(* filename_len and the name (a name is one unit).                          *)
Codec == INSTANCE DirTreeCodec WITH RecHdr <- 2, NameSize <- [n \in TreeNames |-> 1]

RecordUnits(r) == <<r.num_subdirs, r.filename_len, r.name>>

\* The records of a DIRTREE reply body, three units each.
Records(units) ==
    [i \in 1..(Len(units) \div 3) |->
        [num_subdirs |-> units[3 * i - 2], filename_len |-> units[3 * i - 1],
         name |-> units[3 * i]]]

-----------------------------------------------------------------------------
(* The server's file system (the host OS the handlers call).               *)
InitialPaths == SetToSeq(Files \cup Dirs)
InoOf0(p) == CHOOSE i \in 1..Len(InitialPaths) : InitialPaths[i] = p
MaxIno == Len(InitialPaths) + MaxCalls
Inos == 1..MaxIno
DirInos == {InoOf0(p) : p \in Dirs}
MaxFd == SessFd + MaxCalls + 1

\* Payload units: byte off of inode ino, the stat buffer of ino, the bytes
\* the application writes.
ByteOf(ino, off) == 100 * ino + off
StatOf(ino, sz) == 10000 + 100 * ino + sz
WDATA == 1

VARIABLES
    c2s, s2c,        \* units sent and not yet received, per direction
    c2sEof, s2cEof,  \* the sender of that direction has closed its socket
    cl,              \* per thread: the call it is in and its receive state
    app,             \* the client process: "running", "exited", "killed",
                     \* or "overrun" when a receive loop left its buffer
    calls,           \* calls the application has made
    srv,             \* the worker: its pc and its receive state
    ns,              \* server namespace: path -> inode, 0 for no entry
    size,            \* inode -> size
    nino,            \* next free inode number
    fdt,             \* worker descriptor table: fd -> [ino, off, wr]
    known,           \* descriptors open() has returned to the application
    held,            \* ghost: open remote fds of the application -> inode
    expect,          \* ghost: per thread, the server's result for its request
    owners,          \* ghost: the threads of the requests not yet served
    last,            \* ghost: per thread, what its last remote call returned
    garbage          \* ghost: inodes write() was given bytes nobody sent

fsVars  == <<ns, size, nino, fdt, garbage>>
netVars == <<c2s, s2c, c2sEof, s2cEof>>
vars == <<c2s, s2c, c2sEof, s2cEof, cl, app, calls, srv, ns, size, nino, fdt,
          known, held, expect, owners, last, garbage>>

\* What the application sees for a server result: the shim's "if (x < 0)
\* { errno = -x; return -1; }" and its success path.
ClientView(res) ==
    IF res.ret < 0 THEN [ret |-> -1, err |-> -res.ret, data |-> <<>>]
    ELSE [ret |-> res.ret, err |-> 0, data |-> res.data]

Result(ret, data, ino) == [ret |-> ret, data |-> data, ino |-> ino]

IdleThread == [pc |-> "idle", op |-> None, fd |-> 0, cap |-> 0, buf |-> <<>>, len |-> 0]

Init ==
    /\ c2s = <<>> /\ s2c = <<>> /\ c2sEof = FALSE /\ s2cEof = FALSE
    /\ cl = [t \in Threads |-> IdleThread]
    /\ app = "running"
    /\ calls = 0
    /\ srv = [pc |-> "recv", buf |-> <<>>, len |-> 0]
    /\ ns = [p \in Paths |-> IF p \in Missing THEN 0 ELSE InoOf0(p)]
    /\ size = [i \in Inos |-> IF i \in DirInos THEN DirEntries
                              ELSE IF i <= Len(InitialPaths) THEN FileSize ELSE 0]
    /\ nino = Len(InitialPaths) + 1
    /\ fdt = <<>>
    /\ known = {}
    /\ held = <<>>
    /\ expect = [t \in Threads |-> None]
    /\ owners = <<>>
    /\ last = [t \in Threads |-> None]
    /\ garbage = {}

-----------------------------------------------------------------------------
(* Client shim: the call half of every intercepted function.               *)

AppFds == LocalFds \cup known

CanCall(t) == app = "running" /\ cl[t].pc = "idle" /\ calls < MaxCalls

\* The "if (fd < FD_OFFSET) return orig_...(fd, ...)" branch: the host's
\* own primitive, no network I/O.
PassThrough(t) ==
    /\ calls' = calls + 1
    /\ UNCHANGED <<netVars, cl, app, srv, fsVars, known, held, expect, owners, last>>

\* send(sockfd, buffer, length, 0), after which the thread blocks in recv
\* with a buffer of cap units.  The shim's "if (flag < -1)" never holds, so
\* a failed send goes unnoticed.  Once the worker has died the bytes are
\* lost, or, when the peer's reset has come back, SIGPIPE kills the process.
SendRequest(t, op, fd, frame, cap) ==
    /\ calls' = calls + 1
    /\ expect' = [expect EXCEPT ![t] = None]
    /\ \E sigpipe \in IF s2cEof THEN BOOLEAN ELSE {FALSE} :
         IF sigpipe
         THEN /\ app' = "killed"
              /\ c2sEof' = TRUE
              /\ UNCHANGED <<c2s, cl, owners>>
         ELSE /\ c2s' = IF s2cEof THEN c2s ELSE c2s \o frame
              /\ owners' = IF s2cEof THEN owners ELSE Append(owners, t)
              /\ cl' = [cl EXCEPT ![t] = [pc |-> "wait", op |-> op, fd |-> fd,
                                          cap |-> cap, buf |-> <<>>, len |-> 0]]
              /\ UNCHANGED <<app, c2sEof>>
    /\ UNCHANGED <<s2c, s2cEof, srv, fsVars, known, held, last>>

\* The application is killed while send(sockfd, buffer, length, 0) blocks
\* on a request larger than the socket buffer: only write's can be, and
\* by then its headers and count have gone and a part of the data.  The
\* bytes already queued still reach the worker; then the socket closes.
SendCut(t, frame, count) ==
    /\ ClientMayDieMidSend /\ ~s2cEof
    /\ calls' = calls + 1
    /\ \E k \in (Len(frame) - count)..(Len(frame) - 1) : c2s' = c2s \o SubSeq(frame, 1, k)
    /\ owners' = Append(owners, t)
    /\ expect' = [expect EXCEPT ![t] = None]
    /\ app' = "killed" /\ c2sEof' = TRUE
    /\ UNCHANGED <<s2c, s2cEof, cl, srv, fsVars, known, held, last>>

\* open(): marshal {flag, mode, filename_len, path}; mode is written only
\* when O_CREAT is set.  There is no local path.
open(t, path, flags) ==
    /\ CanCall(t)
    /\ LET frame == Frame(OPEN, OpenRequest(flags, IF HasCreat(flags) THEN 420 ELSE Uninit, path))
       IN  SendRequest(t, OPEN, 0, frame, Len(frame))

close(t, fd) ==
    /\ CanCall(t)
    /\ IF fd < FD_OFFSET THEN PassThrough(t)
       ELSE SendRequest(t, CLOSE, fd, Frame(CLOSE, CloseRequest(fd)), Len(Frame(CLOSE, CloseRequest(fd))))

read(t, fd, nbyte) ==
    /\ CanCall(t)
    /\ IF fd < FD_OFFSET THEN PassThrough(t)
       ELSE SendRequest(t, READ, fd, Frame(READ, ReadRequest(fd, nbyte)), MAXMSGLEN)

write(t, fd, count) ==
    /\ CanCall(t)
    /\ IF fd < FD_OFFSET THEN PassThrough(t)
       ELSE LET frame == Frame(WRITE, WriteRequest(fd, count, [i \in 1..count |-> WDATA]))
            IN  \/ SendRequest(t, WRITE, fd, frame, Len(frame))
                \/ SendCut(t, frame, count)

\* getdirentries(): *basep goes out with the request (the application's 0).
getdirentries(t, fd, nbytes) ==
    /\ CanCall(t)
    /\ IF fd < FD_OFFSET THEN PassThrough(t)
       ELSE SendRequest(t, GETENTRY, fd, Frame(GETENTRY, GetEntriesRequest(fd, nbytes, 0)), MAXMSGLEN)

lseek(t, fd, offset) ==
    /\ CanCall(t)
    /\ IF fd < FD_OFFSET THEN PassThrough(t)
       ELSE LET frame == Frame(LSEEK, LseekRequest(fd, offset, SEEK_SET))
            IN  SendRequest(t, LSEEK, fd, frame, Len(frame))

\* __xstat(): always remote; its reply is read into a fresh MAXMSGLEN buffer.
xstat(t, path) ==
    /\ CanCall(t)
    /\ SendRequest(t, STAT, 0, Frame(STAT, StatRequest(STAT_VER, path)), MAXMSGLEN)

unlink(t, path) ==
    /\ CanCall(t)
    /\ SendRequest(t, UNLINK, 0, Frame(UNLINK, UnlinkRequest(path)), Len(Frame(UNLINK, UnlinkRequest(path))))

getdirtree(t, path) ==
    /\ CanCall(t)
    /\ SendRequest(t, DIRTREE, 0, Frame(DIRTREE, DirtreeRequest(path)), MAXMSGLEN)

-----------------------------------------------------------------------------
(* Client shim: the reply half.                                            *)

\* The thread leaves the call with what the application sees.
Return(t, out) ==
    /\ cl' = [cl EXCEPT ![t] = IdleThread]
    /\ last' = [last EXCEPT ![t] = out]

\* err(1, 0), or a fault, ends the whole client process; its socket closes.
Killed ==
    /\ app' = "killed"
    /\ c2sEof' = TRUE
    /\ UNCHANGED <<cl, last, known, held>>

\* A receive loop that takes its length from bytes recv did not write, or
\* whose memcpy runs past the malloc'd buffer: undefined behaviour, which
\* the model ends the process with, marked as such.
Overrun ==
    /\ app' = "overrun"
    /\ c2sEof' = TRUE
    /\ UNCHANGED <<cl, last, known, held>>

Waiting(t, op) == app = "running" /\ cl[t].pc = "wait" /\ cl[t].op = op

\* rv = recv(sockfd, buffer, length, 0); buffer[rv] = 0; x = atoi(buffer):
\* the outcomes of the one recv the integer replies get.  rv = 0 (the worker
\* is gone) leaves "" and x = 0; rv < 0 is err(1, 0).
IntRecv(t) ==
    IF s2c # <<>>
    THEN {[k |-> k, x |-> Atoi(SubSeq(s2c, 1, k)), fail |-> FALSE] :
              k \in ChunkSizes(Len(s2c), cl[t].cap)}
    ELSE IF s2cEof THEN {[k |-> 0, x |-> 0, fail |-> f] : f \in BOOLEAN}
    ELSE {}

\* "if (x < 0) { errno = -1 * x; return -1; } return x;"
IntOut(x) ==
    IF x < 0 THEN [ret |-> -1, err |-> -x, data |-> <<>>]
    ELSE [ret |-> x, err |-> 0, data |-> <<>>]

\* The reply of open, close, write, lseek and unlink, given the value x
\* atoi made of the outcome r of the recv.
IntReply(t, op, x, r) ==
    /\ Waiting(t, op)
    /\ s2c' = Drop(s2c, r.k)
    /\ IF r.fail THEN Killed
       ELSE /\ Return(t, IntOut(x))
            /\ UNCHANGED <<app, c2sEof>>
    /\ UNCHANGED <<calls, srv, s2cEof, c2s, fsVars, expect, owners>>

openReply(t) ==
    \E r \in IntRecv(t) :
        /\ IntReply(t, OPEN, r.x, r)
        /\ IF r.x >= 0 /\ ~r.fail
           THEN /\ known' = known \cup {r.x}
                /\ held' = (r.x :> (IF expect[t] # None THEN expect[t].ino ELSE 0)) @@ held
           ELSE UNCHANGED <<known, held>>

closeReply(t) ==
    \E r \in IntRecv(t) :
        /\ IntReply(t, CLOSE, r.x, r)
        /\ held' = IF r.x = 0 /\ ~r.fail
                   THEN [f \in DOMAIN held \ {cl[t].fd} |-> held[f]] ELSE held
        /\ UNCHANGED known

writeReply(t) ==
    \E r \in IntRecv(t) : IntReply(t, WRITE, r.x, r) /\ UNCHANGED <<known, held>>

lseekReply(t) ==
    \E r \in IntRecv(t) : IntReply(t, LSEEK, r.x, r) /\ UNCHANGED <<known, held>>

unlinkReply(t) ==
    \E r \in IntRecv(t) : IntReply(t, UNLINK, r.x, r) /\ UNCHANGED <<known, held>>

\* The decoding that follows the receive loop, per call; None when a field
\* it reads is not an integer (memory nobody wrote, or a name where a count
\* belongs), which makes the rest of the call undefined.
DecodeRead(buf) ==
    LET n == buf[3]
    IN  IF n \notin Int THEN None
        ELSE IF n < 0 THEN [ret |-> -1, err |-> -n, data |-> <<>>]
        ELSE IF 3 + n > Len(buf) THEN None
        ELSE [ret |-> n, err |-> 0, data |-> SubSeq(buf, 4, 3 + n)]

DecodeGetEntries(buf) ==
    LET state == buf[3]
    IN  IF state \notin Int THEN None
        ELSE IF state < 0 THEN [ret |-> -1, err |-> -state, data |-> <<>>]
        ELSE IF 4 + state > Len(buf) THEN None
        ELSE [ret |-> state, err |-> 0, data |-> <<buf[4]>> \o SubSeq(buf, 5, 4 + state)]

\* process_client_getdirtree stays inside the reply: every count and name
\* length is one it can use, and its cursor over the children stops at a
\* record K of the reply, K being the records consumed.
TreeReadable(recs) ==
    /\ \A i \in DOMAIN recs : recs[i].num_subdirs \in Nat /\ recs[i].filename_len = 1
    /\ \E K \in DOMAIN recs : Codec!FirstChild(recs, K + 1) = K + 1

\* getdirtree() after its loop: process_client_getdirtree on the body; a
\* negative first num_subdirs is the errno, and NULL is returned.  A
\* successful return (a non-NULL tree) is ret 0 with the tree as data.
DecodeDirTree(buf) ==
    LET recs == Records(Drop(buf, 2))
    IN  IF buf[3] \notin Int THEN None
        ELSE IF buf[3] < 0 THEN [ret |-> -1, err |-> -buf[3], data |-> <<>>]
        ELSE IF ~TreeReadable(recs) THEN None
        ELSE [ret |-> 0, err |-> 0, data |-> <<Codec!process_client_getdirtree(recs)>>]

\* What each call does with the buffer its receive loop filled.
Decode(op, buf) ==
    CASE op = READ     -> DecodeRead(buf)
      [] op = GETENTRY -> DecodeGetEntries(buf)
      [] op = DIRTREE  -> DecodeDirTree(buf)

\* The first recv of the loop fills a buffer of total_len units; a buffer
\* cut short at end of stream is padded with what malloc left there.
Padded(buf, len) == buf \o [i \in 1..(len - Len(buf)) |-> Uninit]

\* One pass of the receive loop of read, getdirentries and getdirtree:
\* rv = recv(sockfd, buf2, MAXMSGLEN, 0); the first pass takes length from
\* the header in buf2 and mallocs the buffer; every pass appends rv units
\* and the loop breaks when read_size == length, and the call decodes the
\* buffer with Decode.  A first chunk shorter than the header leaves length
\* to uninitialized memory, and a read_size past length never breaks the
\* loop while memcpy runs past the buffer: both undefined, modelled as the
\* process dying.  rv = 0 ends the loop: with nothing read the header is
\* read through a NULL pointer; rv < 0 is err(1, 0).
RecvLoop(t, op) ==
    /\ \/ /\ s2c # <<>>
          /\ \E k \in ChunkSizes(Len(s2c), MAXMSGLEN) :
               LET chunk == SubSeq(s2c, 1, k)
                   len   == IF cl[t].buf # <<>> THEN cl[t].len
                            ELSE IF k >= 2 THEN chunk[2] ELSE Uninit
                   buf   == cl[t].buf \o chunk
               IN  /\ s2c' = Drop(s2c, k)
                   /\ IF len \notin Int \/ Len(buf) > len THEN Overrun
                      ELSE IF Len(buf) < len
                      THEN /\ cl' = [cl EXCEPT ![t].buf = buf, ![t].len = len]
                           /\ UNCHANGED <<app, c2sEof, last>>
                      ELSE IF Decode(op, buf) = None THEN Killed
                      ELSE Return(t, Decode(op, buf)) /\ UNCHANGED <<app, c2sEof>>
       \/ /\ s2c = <<>>
          /\ s2cEof
          /\ UNCHANGED s2c
          /\ IF cl[t].buf = <<>> \/ Decode(op, Padded(cl[t].buf, cl[t].len)) = None
             THEN Killed
             ELSE \E fail \in BOOLEAN :
                    IF fail THEN Killed
                    ELSE Return(t, Decode(op, Padded(cl[t].buf, cl[t].len)))
                         /\ UNCHANGED <<app, c2sEof>>
    /\ UNCHANGED <<calls, srv, s2cEof, c2s, fsVars, known, held, expect, owners>>

readReply(t) == Waiting(t, READ) /\ RecvLoop(t, READ)

getdirentriesReply(t) == Waiting(t, GETENTRY) /\ RecvLoop(t, GETENTRY)

getdirtreeReply(t) == Waiting(t, DIRTREE) /\ RecvLoop(t, DIRTREE)

\* __xstat() after its send: one rv = recv(sockfd, buffer2, MAXMSGLEN, 0)
\* into a fresh malloc'd buffer, then state and the stat buffer are read at
\* their offsets whatever rv was.  A state that was never received is
\* garbage: the call fails with a garbage errno or succeeds with a garbage
\* stat buffer.  rv < 0 is err(1, 0).
StatOuts(chunk) ==
    LET state == IF Len(chunk) >= 3 THEN chunk[3] ELSE Uninit
    IN  IF state \notin Int
        THEN {[ret |-> -1, err |-> Uninit, data |-> <<>>],
              [ret |-> 0, err |-> 0, data |-> <<Uninit>>]}
        ELSE IF state < 0 THEN {[ret |-> -1, err |-> -state, data |-> <<>>]}
        ELSE {[ret |-> 0, err |-> 0,
               data |-> <<IF Len(chunk) >= 4 THEN chunk[4] ELSE Uninit>>]}

xstatReply(t) ==
    /\ Waiting(t, STAT)
    /\ \/ /\ s2c # <<>>
          /\ \E k \in ChunkSizes(Len(s2c), MAXMSGLEN) :
               \E out \in StatOuts(SubSeq(s2c, 1, k)) :
                  /\ s2c' = Drop(s2c, k)
                  /\ Return(t, out)
       \/ /\ s2c = <<>>
          /\ s2cEof
          /\ UNCHANGED s2c
          /\ \E out \in StatOuts(<<>>) : Return(t, out)
    /\ UNCHANGED <<app, c2sEof, calls, srv, s2cEof, c2s, fsVars, known, held, expect, owners>>

\* Every way a thread can leave a remote call.
Replies(t) ==
    \/ openReply(t) \/ closeReply(t) \/ writeReply(t) \/ lseekReply(t)
    \/ unlinkReply(t) \/ readReply(t) \/ getdirentriesReply(t)
    \/ getdirtreeReply(t) \/ xstatReply(t)

\* _fini: orig_close(sockfd) when the application exits.
AppExit ==
    /\ app = "running"
    /\ \A t \in Threads : cl[t].pc = "idle"
    /\ app' = "exited"
    /\ c2sEof' = TRUE
    /\ UNCHANGED <<c2s, s2c, s2cEof, cl, calls, srv, fsVars, known, held, expect, owners, last>>

-----------------------------------------------------------------------------
(* Server worker: serve_client, processRPC and the handlers.               *)

\* Mutant: the worker's end does not close the connection (a worker left
\* hanging on its socket instead of exiting).
WorkerDies_KeepSocket ==
    /\ srv' = [srv EXCEPT !.pc = "dead"]
    /\ fdt' = <<>>
    /\ UNCHANGED <<s2c, s2cEof, c2sEof, cl, app, calls, ns, size, nino, garbage, known, held,
                   expect, owners, last>>

\* The worker process ends; the kernel closes its descriptors, so the
\* client sees end of stream once it has read what was sent.
WorkerDies ==
    /\ srv' = [srv EXCEPT !.pc = "dead"]
    /\ fdt' = <<>>
    /\ s2cEof' = TRUE
    /\ UNCHANGED <<s2c, c2sEof, cl, app, calls, ns, size, nino, garbage, known, held,
                   expect, owners, last>>

\* serve_client's loop overruns its buffer (undefined behaviour): the
\* worker's end, marked as such.
WorkerOverrun ==
    /\ srv' = [srv EXCEPT !.pc = "overrun"]
    /\ fdt' = <<>>
    /\ s2cEof' = TRUE
    /\ UNCHANGED <<s2c, c2sEof, cl, app, calls, ns, size, nino, garbage, known, held,
                   expect, owners, last>>

\* A handler's send of its reply, res being the result it computed (the
\* ghost expect of the thread whose request this is, the oldest one).  Once
\* the client has closed its socket the bytes go nowhere.
Reply(msg, res) ==
    /\ s2c' = IF c2sEof THEN s2c ELSE s2c \o msg
    /\ IF owners # <<>>
       THEN /\ expect' = [expect EXCEPT ![Head(owners)] = res]
            /\ owners' = Tail(owners)
       ELSE UNCHANGED <<expect, owners>>

\* The lowest descriptor the worker's open() can return.
FreeFd == Min((0..MaxFd) \ (WorkerFds \cup DOMAIN fdt))

InoAt(path) == IF path \in Paths THEN ns[path] ELSE 0

\* An error result -e, as the handlers compute it from errno.
Err(e) == Result(-e, <<>>, 0)

\* Mutant: the reply is formatted before "open_fd += FD_OFFSET".
process_open_SendBeforeOffset(b) ==
    LET flags == b[1]
        path  == b[4]
        ino   == IF InoAt(path) # 0 THEN InoAt(path) ELSE nino
        fd    == FreeFd
        e     == IF InoAt(path) = 0 /\ ~HasCreat(flags) THEN ENOENT
                 ELSE IF ino \in DirInos /\ flags # O_RDONLY THEN EISDIR
                 ELSE 0
    IN  IF e # 0
        THEN Reply(Itoa(-e), Err(e)) /\ UNCHANGED <<ns, size, nino, fdt>>
        ELSE /\ ns' = [ns EXCEPT ![path] = ino]
             /\ UNCHANGED size
             /\ nino' = IF InoAt(path) = 0 THEN nino + 1 ELSE nino
             /\ fdt' = (fd :> [ino |-> ino, off |-> 0, wr |-> flags # O_RDONLY]) @@ fdt
             /\ Reply(Itoa(fd), Result(fd + FD_OFFSET, <<>>, ino))

\* Mutant: the descriptor is returned without the FD_OFFSET conversion.
process_open_NoOffset(b) ==
    LET flags == b[1]
        path  == b[4]
        ino   == IF InoAt(path) # 0 THEN InoAt(path) ELSE nino
        fd    == FreeFd
        e     == IF InoAt(path) = 0 /\ ~HasCreat(flags) THEN ENOENT
                 ELSE IF ino \in DirInos /\ flags # O_RDONLY THEN EISDIR
                 ELSE 0
    IN  IF e # 0
        THEN Reply(Itoa(-e), Err(e)) /\ UNCHANGED <<ns, size, nino, fdt>>
        ELSE /\ ns' = [ns EXCEPT ![path] = ino]
             /\ UNCHANGED size
             /\ nino' = IF InoAt(path) = 0 THEN nino + 1 ELSE nino
             /\ fdt' = (fd :> [ino |-> ino, off |-> 0, wr |-> flags # O_RDONLY]) @@ fdt
             /\ Reply(Itoa(fd), Result(fd, <<>>, ino))

\* process_open: open(path, flags[, mode]); "open_fd += FD_OFFSET" on
\* success, -errno otherwise, sent as sprintf("%d").
process_open(b) ==
    LET flags == b[1]
        path  == b[4]
        ino   == IF InoAt(path) # 0 THEN InoAt(path) ELSE nino
        fd    == FreeFd
        e     == IF InoAt(path) = 0 /\ ~HasCreat(flags) THEN ENOENT
                 ELSE IF ino \in DirInos /\ flags # O_RDONLY THEN EISDIR
                 ELSE 0
    IN  IF e # 0
        THEN Reply(Itoa(-e), Err(e)) /\ UNCHANGED <<ns, size, nino, fdt>>
        ELSE /\ ns' = [ns EXCEPT ![path] = ino]
             /\ UNCHANGED size
             /\ nino' = IF InoAt(path) = 0 THEN nino + 1 ELSE nino
             /\ fdt' = (fd :> [ino |-> ino, off |-> 0, wr |-> flags # O_RDONLY]) @@ fdt
             /\ Reply(Itoa(fd + FD_OFFSET), Result(fd + FD_OFFSET, <<>>, ino))

\* process_close: close(fd - FD_OFFSET).
process_close(b) ==
    LET fd == b[1] - FD_OFFSET
    IN  IF fd \notin DOMAIN fdt
        THEN Reply(Itoa(-EBADF), Err(EBADF)) /\ UNCHANGED <<ns, size, nino, fdt>>
        ELSE /\ fdt' = [f \in DOMAIN fdt \ {fd} |-> fdt[f]]
             /\ Reply(Itoa(0), Result(0, <<>>, 0))
             /\ UNCHANGED <<ns, size, nino>>

process_read(b) ==
    LET fd == b[1] - FD_OFFSET
        e  == IF fd \notin DOMAIN fdt THEN EBADF
              ELSE IF fdt[fd].ino \in DirInos THEN EISDIR ELSE 0
    IN  /\ UNCHANGED <<ns, size, nino>>
        /\ IF e # 0
           THEN Reply(Frame(READ, ReadReply(-e, <<>>)), Err(e)) /\ UNCHANGED fdt
           ELSE LET f    == fdt[fd]
                    n    == Max({0, Min({b[2], size[f.ino] - f.off})})
                    data == [i \in 1..n |-> ByteOf(f.ino, f.off + i - 1)]
                IN  /\ fdt' = [fdt EXCEPT ![fd].off = f.off + n]
                    /\ Reply(Frame(READ, ReadReply(n, data)), Result(n, data, 0))

\* process_write: memcpy count bytes of the request's data, then
\* write(fd, buffer, count); a unit of the request nobody sent goes into
\* the file as it is (the ghost garbage).
process_write(b) ==
    LET fd == b[1] - FD_OFFSET
        count == b[2]
    IN  /\ UNCHANGED <<ns, nino>>
        /\ IF fd \notin DOMAIN fdt \/ ~fdt[fd].wr
           THEN Reply(Itoa(-EBADF), Err(EBADF)) /\ UNCHANGED <<size, fdt, garbage>>
           ELSE /\ size' = [size EXCEPT ![fdt[fd].ino] = Max({@, fdt[fd].off + count})]
                /\ fdt' = [fdt EXCEPT ![fd].off = @ + count]
                /\ garbage' = IF Uninit \in Range(SubSeq(b, 3, 2 + count))
                               THEN garbage \cup {fdt[fd].ino} ELSE garbage
                /\ Reply(Itoa(count), Result(count, <<>>, 0))

\* process_lseek: lseek(fd, offset, whence) with SEEK_SET.
process_lseek(b) ==
    LET fd == b[1] - FD_OFFSET
    IN  /\ UNCHANGED <<ns, size, nino>>
        /\ IF fd \notin DOMAIN fdt
           THEN Reply(Itoa(-EBADF), Err(EBADF)) /\ UNCHANGED fdt
           ELSE /\ fdt' = [fdt EXCEPT ![fd].off = b[2]]
                /\ Reply(Itoa(b[2]), Result(b[2], <<>>, 0))

\* process_stat: __xstat(ver, path, reply->data); the stat buffer is sent
\* whether or not __xstat wrote it.
process_stat(b) ==
    LET ino == InoAt(b[3])
    IN  /\ UNCHANGED <<ns, size, nino, fdt>>
        /\ IF ino = 0
           THEN Reply(Frame(STAT, StatReply(-ENOENT, Uninit)), Err(ENOENT))
           ELSE Reply(Frame(STAT, StatReply(0, StatOf(ino, size[ino]))),
                      Result(0, <<StatOf(ino, size[ino])>>, 0))

\* process_unlink: unlink(pathname).
process_unlink(b) ==
    LET path == b[2]
        e    == IF InoAt(path) = 0 THEN ENOENT
                ELSE IF InoAt(path) \in DirInos THEN EISDIR ELSE 0
    IN  /\ UNCHANGED <<size, nino, fdt>>
        /\ IF e # 0
           THEN Reply(Itoa(-e), Err(e)) /\ UNCHANGED ns
           ELSE /\ ns' = [ns EXCEPT ![path] = 0]
                /\ Reply(Itoa(0), Result(0, <<>>, 0))

\* Mutant: the reply's basep is the position after the read.
process_getEntry_BaseAfter(b) ==
    LET fd == b[1] - FD_OFFSET
        e  == IF fd \notin DOMAIN fdt THEN EBADF
              ELSE IF fdt[fd].ino \notin DirInos THEN ENOTDIR ELSE 0
    IN  /\ UNCHANGED <<ns, size, nino>>
        /\ IF e # 0
           THEN Reply(Frame(GETENTRY, GetEntriesReply(-e, Uninit, <<>>)), Err(e)) /\ UNCHANGED fdt
           ELSE LET f    == fdt[fd]
                    n    == Max({0, Min({b[2], size[f.ino] - f.off})})
                    data == [i \in 1..n |-> ByteOf(f.ino, f.off + i - 1)]
                IN  /\ fdt' = [fdt EXCEPT ![fd].off = f.off + n]
                    /\ Reply(Frame(GETENTRY, GetEntriesReply(n, f.off + n, data)),
                             Result(n, <<f.off + n>> \o data, 0))

\* process_getEntry: getdirentries(fd, buf, nbytes, basep) with *basep set
\* to the request's; glibc stores in *basep the position before the read.
\* On error the reply's basep is never written.
process_getEntry(b) ==
    LET fd == b[1] - FD_OFFSET
        e  == IF fd \notin DOMAIN fdt THEN EBADF
              ELSE IF fdt[fd].ino \notin DirInos THEN ENOTDIR ELSE 0
    IN  /\ UNCHANGED <<ns, size, nino>>
        /\ IF e # 0
           THEN Reply(Frame(GETENTRY, GetEntriesReply(-e, Uninit, <<>>)), Err(e)) /\ UNCHANGED fdt
           ELSE LET f    == fdt[fd]
                    n    == Max({0, Min({b[2], size[f.ino] - f.off})})
                    data == [i \in 1..n |-> ByteOf(f.ino, f.off + i - 1)]
                IN  /\ fdt' = [fdt EXCEPT ![fd].off = f.off + n]
                    /\ Reply(Frame(GETENTRY, GetEntriesReply(n, f.off, data)),
                             Result(n, <<f.off>> \o data, 0))

\* process_dirtree: getdirtree(filename); NULL gives a reply of the header
\* and num_subdirs = -errno, a tree gives get_total_len bytes of marshalTree.
process_dirtree(b) ==
    LET path == b[2]
        ino  == InoAt(path)
        e    == IF ino = 0 THEN ENOENT ELSE IF ino \notin DirInos THEN ENOTDIR ELSE 0
    IN  /\ UNCHANGED <<ns, size, nino, fdt>>
        /\ IF e # 0
           THEN Reply(Frame(DIRTREE, <<-e, Uninit>>), Err(e))
           ELSE LET tree == DirTreeOf[path]
                    recs == Codec!marshalTree(tree)
                    body == FlattenSeq([i \in 1..Len(recs) |-> RecordUnits(recs[i])])
                IN  Reply(<<DIRTREE, 2 + Codec!get_total_len(tree)>> \o body,
                          Result(0, <<tree>>, 0))

\* processRPC: dispatch on the opcode; an unknown one is only logged.
processRPC(buf) ==
    LET b == Drop(buf, 2)
    IN  /\ CASE buf[1] = OPEN     -> process_open(b)
             [] buf[1] = CLOSE    -> process_close(b)
             [] buf[1] = WRITE    -> process_write(b)
             [] buf[1] = DIRTREE  -> process_dirtree(b)
             [] buf[1] = READ     -> process_read(b)
             [] buf[1] = UNLINK   -> process_unlink(b)
             [] buf[1] = LSEEK    -> process_lseek(b)
             [] buf[1] = STAT     -> process_stat(b)
             [] buf[1] = GETENTRY -> process_getEntry(b)
             [] OTHER             -> UNCHANGED <<s2c, expect, owners, ns, size, nino, fdt>>
        /\ buf[1] # WRITE => UNCHANGED garbage

\* One pass of serve_client's receive loop: rv = recv(sessfd, buf,
\* MAXMSGLEN, 0); the first pass takes length from the request header and
\* mallocs the buffer, and the loop breaks to processRPC when read_size ==
\* length.  As in the client, a first chunk shorter than the header or a
\* read_size past length is undefined (the worker dies).  rv = 0 after
\* the client has closed.  The loop then ends with rv = 0, which only
\* "rv < 0" would catch: a request cut short goes to processRPC as it is,
\* the rest of its malloc'd buffer unwritten, and the next pass, with
\* nothing read, faults in processRPC(NULL).
ServerRecv ==
    /\ srv.pc = "recv"
    /\ \/ /\ c2s # <<>>
          /\ \E k \in ChunkSizes(Len(c2s), MAXMSGLEN) :
               LET chunk == SubSeq(c2s, 1, k)
                   len   == IF srv.buf # <<>> THEN srv.len
                            ELSE IF k >= 2 THEN chunk[2] ELSE Uninit
                   buf   == srv.buf \o chunk
               IN  IF len \notin Int \/ Len(buf) > len
                   THEN WorkerOverrun /\ c2s' = Drop(c2s, k)
                   ELSE /\ c2s' = Drop(c2s, k)
                        /\ UNCHANGED <<c2sEof, s2cEof, cl, app, calls, known, held, last>>
                        /\ IF Len(buf) < len
                           THEN /\ srv' = [srv EXCEPT !.buf = buf, !.len = len]
                                /\ UNCHANGED <<s2c, expect, owners, fsVars>>
                           ELSE /\ srv' = [srv EXCEPT !.buf = <<>>, !.len = 0]
                                /\ processRPC(buf)
       \/ /\ c2s = <<>>
          /\ c2sEof
          /\ UNCHANGED c2s
          /\ IF srv.buf = <<>>
             THEN WorkerDies
             ELSE /\ srv' = [srv EXCEPT !.buf = <<>>, !.len = 0]
                  /\ processRPC(Padded(srv.buf, srv.len))
                  /\ UNCHANGED <<c2sEof, s2cEof, cl, app, calls, known, held, last>>

\* The worker process is killed (a crash of the server host, or kill(1)).
ServerCrash ==
    /\ ServerMayCrash
    /\ srv.pc = "recv"
    /\ WorkerDies /\ UNCHANGED c2s

\* Both processes are gone: nothing more happens.
Terminating ==
    /\ app # "running"
    /\ srv.pc # "recv"
    /\ UNCHANGED vars

Next ==
    \/ \E t \in Threads :
          \/ \E p \in Paths, fl \in OpenFlags : open(t, p, fl)
          \/ \E fd \in AppFds : close(t, fd)
          \/ \E fd \in AppFds, n \in ReadSizes : read(t, fd, n)
          \/ \E fd \in AppFds, n \in WriteSizes : write(t, fd, n)
          \/ \E fd \in AppFds, n \in EntrySizes : getdirentries(t, fd, n)
          \/ \E fd \in AppFds, off \in SeekOffsets : lseek(t, fd, off)
          \/ \E p \in Paths : xstat(t, p)
          \/ \E p \in Paths : unlink(t, p)
          \/ \E p \in Paths : getdirtree(t, p)
          \/ Replies(t)
    \/ ServerRecv
    \/ ServerCrash
    \/ AppExit
    \/ Terminating

\* The worker is always runnable when bytes or end of stream are there, and
\* a thread blocked in recv is woken when they are: weak fairness.
Spec ==
    /\ Init /\ [][Next]_vars
    /\ WF_vars(ServerRecv)
    /\ \A t \in Threads : WF_vars(Replies(t))

-----------------------------------------------------------------------------
(* Properties.                                                              *)

ReturnsOwnReply ==
    [][\A t \in Threads :
         (cl[t].pc = "wait" /\ cl'[t].pc = "idle" /\ expect[t] # None)
            => last'[t] = ClientView(expect[t])]_vars

\* A remote call that returns without the server having answered it
\* reports failure: the shim never turns a lost connection into a success
\* (spec: calls fail with -1 once the server is gone).
NoSuccessWithoutReply ==
    [][\A t \in Threads :
         (cl[t].pc = "wait" /\ cl'[t].pc = "idle" /\ expect[t] = None)
            => last'[t].ret = -1]_vars

\* Between calls, the remote descriptors the application holds are exactly
\* the worker's open descriptors shifted by FD_OFFSET, each naming the file
\* the application opened: the descriptor open's "+= FD_OFFSET" hands out
\* names the worker's open file, and a close releases it on both sides
\* together.
DescriptorBijection ==
    (app = "running" /\ srv.pc = "recv" /\ \A t \in Threads : cl[t].pc = "idle")
        => /\ DOMAIN held = {f + FD_OFFSET : f \in DOMAIN fdt}
           /\ \A f \in DOMAIN fdt : held[f + FD_OFFSET] = fdt[f].ino

\* A file on the server only ever receives bytes the application wrote:
\* process_write never passes write() a part of its buffer that no request
\* filled, whatever happens to the client in the middle of a send.
NoUninitWritten == garbage = {}

\* Every remote call eventually returns, unless the client process ends:
\* the client's loops stop once the reply the worker sent has arrived.
CallsComplete ==
    \A t \in Threads : cl[t].pc = "wait" ~> (cl[t].pc = "idle" \/ app # "running")

=============================================================================
