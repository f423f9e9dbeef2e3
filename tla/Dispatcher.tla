------------------------------ MODULE Dispatcher ------------------------------
(***************************************************************************)
(* The server's parent process and the workers it forks.                   *)
(*   main             src/15440-p1/mysolution/server.c  accept/fork loop   *)
(*   sigchld_handler  src/15440-p1/mysolution/server.c  WNOHANG reaping    *)
(* The parent blocks in accept, forks a worker per connection and closes   *)
(* its copy of the connection.  A worker closes the listening socket,      *)
(* serves (RPCSession models what it does there) and exits.  The kernel    *)
(* records one pending SIGCHLD however many workers exit, and blocks       *)
(* SIGCHLD while its handler runs; signal() on glibc keeps the handler     *)
(* installed and restarts accept after it.                                 *)
(***************************************************************************)
EXTENDS Integers, Sequences, FiniteSets, FiniteSetsExt, Functions, TLC

CONSTANTS
    Clients,        \* client processes, each loading the shim once
    Backlog,        \* listen(sockfd, 5): connections the kernel queues
    MaxAcceptFails, \* failed accepts (-1, not checked) in a behaviour
    SetupMayFail,   \* TRUE: socket, bind or listen may fail (EADDRINUSE ...)
    ForkMayFail,    \* TRUE: fork may return -1 (EAGAIN at the process limit)
    None

ASSUME /\ IsFiniteSet(Clients) /\ Backlog \in Nat \ {0} /\ MaxAcceptFails \in Nat
       /\ SetupMayFail \in BOOLEAN /\ ForkMayFail \in BOOLEAN

\* Descriptors 0-2 are stdio; socket() in main returns 3.
Stdio == {0, 1, 2}
ListenFd == 3
\* One worker per accept, failed ones included.
Pids == 1..(Cardinality(Clients) + MaxAcceptFails)

VARIABLES
    parent,     \* [pc, conn, client, fds]: where main is, its connection, its descriptors
    inHandler,  \* sigchld_handler is running in the parent
    pending,    \* a SIGCHLD is pending for the parent
    child,      \* pid -> [st, fds, sess, client] for every worker forked so far
    accepted,   \* accept calls returned so far
    fails,      \* of which failed
    backlog,    \* connections completed by the kernel, not yet accepted
    cst         \* client -> "init", "queued", "accepted", "refused"

vars == <<parent, inHandler, pending, child, accepted, fails, backlog, cst>>

\* The lowest descriptor not in fds: what socket, accept and open return.
LowestFree(fds) == Min((0..(ListenFd + Cardinality(Pids) + 1)) \ fds)

Forked == DOMAIN child

Init ==
    /\ parent = [pc |-> "socket", conn |-> -1, client |-> None, fds |-> Stdio]
    /\ inHandler = FALSE
    /\ pending = FALSE
    /\ child = <<>>
    /\ accepted = 0
    /\ fails = 0
    /\ backlog = <<>>
    /\ cst = [c \in Clients |-> "init"]

-----------------------------------------------------------------------------
(* main's setup: each call's failure is err(1, 0), and the server is gone. *)

SetupOutcomes == IF SetupMayFail THEN BOOLEAN ELSE {TRUE}

\* sockfd = socket(AF_INET, SOCK_STREAM, 0); if (sockfd < 0) err(1, 0);
ServerSocket ==
    /\ parent.pc = "socket"
    /\ \E ok \in SetupOutcomes :
         parent' = IF ok THEN [parent EXCEPT !.pc = "bind", !.fds = @ \cup {LowestFree(@)}]
                   ELSE [parent EXCEPT !.pc = "exited", !.fds = {}]
    /\ UNCHANGED <<inHandler, pending, child, accepted, fails, backlog, cst>>

\* rv = bind(sockfd, ...); if (rv < 0) err(1, 0); the port may be taken.
ServerBind ==
    /\ parent.pc = "bind"
    /\ \E ok \in SetupOutcomes :
         parent' = [parent EXCEPT !.pc = IF ok THEN "listen" ELSE "exited", !.fds = IF ok THEN @ ELSE {}]
    /\ UNCHANGED <<inHandler, pending, child, accepted, fails, backlog, cst>>

\* rv = listen(sockfd, 5); if (rv < 0) err(1, 0); then
\* signal(SIGCHLD, sigchld_handler), which cannot fail with these arguments,
\* before the loop (no child exists before it).
ServerListen ==
    /\ parent.pc = "listen"
    /\ \E ok \in SetupOutcomes :
         parent' = [parent EXCEPT !.pc = IF ok THEN "accept" ELSE "exited", !.fds = IF ok THEN @ ELSE {}]
    /\ UNCHANGED <<inHandler, pending, child, accepted, fails, backlog, cst>>

\* The port accepts connections while some process holds the listening
\* socket open after listen: the parent, or a child that has not yet
\* closed its copy.
Listening ==
    \/ parent.pc \in {"accept", "fork", "close"} /\ ListenFd \in parent.fds
    \/ \E p \in Forked : ListenFd \in child[p].fds

\* The shim's _init: sockfd = connect2server(serverip, port).  The kernel
\* completes the handshake and queues the connection while the backlog has
\* room; with no listener connect fails (ECONNREFUSED), err(1, 0), and the
\* client process never runs.
Connect(c) ==
    /\ cst[c] = "init"
    /\ ~(Listening /\ Len(backlog) >= Backlog)
    /\ IF Listening
       THEN /\ backlog' = Append(backlog, c)
            /\ cst' = [cst EXCEPT ![c] = "queued"]
       ELSE /\ cst' = [cst EXCEPT ![c] = "refused"]
            /\ UNCHANGED backlog
    /\ UNCHANGED <<parent, inHandler, pending, child, accepted, fails>>

\* With the queue full the SYNs go unanswered and connect retries them
\* until it gives up with ETIMEDOUT: err(1, 0) as well.
ConnectTimesOut(c) ==
    /\ cst[c] = "init"
    /\ Listening /\ Len(backlog) >= Backlog
    /\ cst' = [cst EXCEPT ![c] = "refused"]
    /\ UNCHANGED <<parent, inHandler, pending, child, accepted, fails, backlog>>

-----------------------------------------------------------------------------
(* main's loop and the workers.                                             *)

\* The parent runs main's loop only while no signal handler runs on it.
MainRuns == ~inHandler

LoopVars == <<inHandler, pending, child>>

\* connection = accept(sockfd, ...) returning the oldest queued connection
\* on the lowest free descriptor; it blocks while the queue is empty.
AcceptConn ==
    /\ MainRuns
    /\ parent.pc = "accept"
    /\ accepted < Cardinality(Pids)
    /\ ListenFd \in parent.fds
    /\ backlog # <<>>
    /\ LET fd == LowestFree(parent.fds)
       IN  parent' = [pc |-> "fork", conn |-> fd, client |-> Head(backlog),
                      fds |-> parent.fds \cup {fd}]
    /\ backlog' = Tail(backlog)
    /\ cst' = [cst EXCEPT ![Head(backlog)] = "accepted"]
    /\ accepted' = accepted + 1
    /\ UNCHANGED <<LoopVars, fails>>

\* accept returns -1 (EMFILE, ECONNABORTED, EINTR; EBADF on a closed
\* sockfd, every time): the code does not check, and goes on to fork.
AcceptFails ==
    /\ MainRuns
    /\ parent.pc = "accept"
    /\ accepted < Cardinality(Pids)
    /\ fails < MaxAcceptFails \/ ListenFd \notin parent.fds
    /\ parent' = [parent EXCEPT !.pc = "fork", !.conn = -1, !.client = None]
    /\ accepted' = accepted + 1
    /\ fails' = fails + 1
    /\ UNCHANGED <<LoopVars, backlog, cst>>

\* if (fork() == 0) {...}: the child starts with a copy of the parent's
\* descriptors.  A failed fork takes the parent's branch alone.
Fork ==
    /\ MainRuns
    /\ parent.pc = "fork"
    /\ \E ok \in IF ForkMayFail THEN BOOLEAN ELSE {TRUE} :
         child' = IF ok
                  THEN (accepted :> [st |-> "forked", fds |-> parent.fds,
                                     sess |-> parent.conn, client |-> parent.client]) @@ child
                  ELSE child
    /\ parent' = [parent EXCEPT !.pc = "close"]
    /\ UNCHANGED <<inHandler, pending, accepted, fails, backlog, cst>>

\* Mutant: the parent keeps its copy of the connection.
ParentClose_Keep ==
    /\ MainRuns
    /\ parent.pc = "close"
    /\ parent' = [parent EXCEPT !.pc = "accept"]
    /\ UNCHANGED <<inHandler, pending, child, accepted, fails, backlog, cst>>

\* Mutant: close(sockfd) on the parent's side of the fork as well.
ParentClose_Listener ==
    /\ MainRuns
    /\ parent.pc = "close"
    /\ parent' = [parent EXCEPT !.pc = "accept", !.fds = @ \ {parent.conn, ListenFd}]
    /\ UNCHANGED <<inHandler, pending, child, accepted, fails, backlog, cst>>

\* close(connection) in the parent (close(-1) fails and changes nothing).
ParentClose ==
    /\ MainRuns
    /\ parent.pc = "close"
    /\ parent' = [parent EXCEPT !.pc = "accept", !.fds = @ \ {parent.conn}]
    /\ UNCHANGED <<inHandler, pending, child, accepted, fails, backlog, cst>>

\* The child's close(sockfd) before serve_client.
ChildCloseListener(p) ==
    /\ child[p].st = "forked"
    /\ child' = [child EXCEPT ![p].st = "serving", ![p].fds = @ \ {ListenFd}]
    /\ UNCHANGED <<parent, inHandler, pending, accepted, fails, backlog, cst>>

\* The worker ends: exit(0), err(1, 0) (serve_client(-1) fails its first
\* recv), or a fault.  The kernel closes its descriptors, keeps it as a
\* zombie and marks SIGCHLD pending for the parent (once, however many).
ChildExit(p) ==
    /\ child[p].st = "serving"
    /\ child' = [child EXCEPT ![p].st = "zombie", ![p].fds = {}]
    /\ pending' = TRUE
    /\ UNCHANGED <<parent, inHandler, accepted, fails, backlog, cst>>

\* The kernel runs the handler when SIGCHLD is pending and not blocked,
\* whatever main is doing (blocked in accept or not); the signal is blocked
\* until the handler returns.
DeliverSIGCHLD ==
    /\ pending /\ ~inHandler
    /\ pending' = FALSE
    /\ inHandler' = TRUE
    /\ UNCHANGED <<parent, child, accepted, fails, backlog, cst>>

Zombies == {p \in Forked : child[p].st = "zombie"}

\* Mutant: "if" in place of "while": one waitpid per signal.
sigchld_handler_Once ==
    /\ inHandler
    /\ inHandler' = FALSE
    /\ IF Zombies # {}
       THEN \E p \in Zombies : child' = [child EXCEPT ![p].st = "reaped"]
       ELSE UNCHANGED child
    /\ UNCHANGED <<parent, pending, accepted, fails, backlog, cst>>

\* One test of sigchld_handler's "while (waitpid(-1, 0, WNOHANG) > 0)":
\* waitpid reaps some zombie and the loop goes on, or finds none and
\* returns 0, and the handler returns.
sigchld_handler ==
    /\ inHandler
    /\ IF Zombies # {}
       THEN /\ \E p \in Zombies : child' = [child EXCEPT ![p].st = "reaped"]
            /\ UNCHANGED inHandler
       ELSE /\ inHandler' = FALSE
            /\ UNCHANGED child
    /\ UNCHANGED <<parent, pending, accepted, fails, backlog, cst>>

\* Nothing left to happen: the parent blocked in accept with no client
\* left to come, or gone after a failed setup.
Quiescent ==
    /\ \/ parent.pc = "accept" /\ backlog = <<>>
       \/ parent.pc = "exited"
    /\ UNCHANGED vars

Next ==
    \/ ServerSocket \/ ServerBind \/ ServerListen
    \/ \E c \in Clients : Connect(c) \/ ConnectTimesOut(c)
    \/ AcceptConn \/ AcceptFails \/ Fork \/ ParentClose
    \/ \E p \in Forked : ChildCloseListener(p) \/ ChildExit(p)
    \/ DeliverSIGCHLD \/ sigchld_handler
    \/ Quiescent

\* The server's setup, its loop while a connection is queued, the workers
\* and the handler run whenever they can (the scheduler runs every runnable
\* process, accept wakes when a connection is queued, the kernel delivers a
\* pending unblocked signal).  Clients are not obliged to start, and accept
\* failures are not forced.
Spec ==
    /\ Init /\ [][Next]_vars
    /\ WF_vars(ServerSocket) /\ WF_vars(ServerBind) /\ WF_vars(ServerListen)
    /\ WF_vars(AcceptConn) /\ WF_vars(Fork) /\ WF_vars(ParentClose)
    /\ \A p \in Pids : WF_vars(p \in Forked /\ (ChildCloseListener(p) \/ ChildExit(p)))
    /\ WF_vars(DeliverSIGCHLD) /\ WF_vars(sigchld_handler)

-----------------------------------------------------------------------------
\* Every worker begins serve_client holding stdio and its connection only,
\* and the connection is descriptor 4 (the parent holds only stdio and the
\* listening socket whenever it accepts): the parent's close(connection)
\* and the child's close(sockfd) keep both tables from growing, and the
\* worker model (RPCSession's WorkerFds) relies on this layout.
WorkerDescriptors ==
    \A p \in Forked : child[p].st = "serving" =>
        \/ child[p].sess = ListenFd + 1 /\ child[p].fds = Stdio \cup {ListenFd + 1}
        \/ child[p].sess = -1 /\ child[p].fds = Stdio

\* Every worker that exits is eventually reaped: SIGCHLD is not queued, so
\* this depends on the handler looping until waitpid finds no zombie and on
\* the signal blocked during the handler being delivered after it.
ZombiesReaped ==
    \A p \in Pids : (p \in Forked /\ child[p].st = "zombie")
                        ~> (p \in Forked /\ child[p].st = "reaped")

\* Every client whose connect2server succeeded is eventually accepted by
\* the parent: the loop returns to accept after every fork, failed accepts
\* and forks included, and keeps the listening socket open.
ConnectedAccepted ==
    \A c \in Clients : cst[c] = "queued" ~> cst[c] = "accepted"

=============================================================================
