\* Three clients, a backlog of two (listen's 5, scaled), one failed accept;
\* setup and fork may fail.
CONSTANTS
    Clients = {c1, c2, c3}
    Backlog = 2
    MaxAcceptFails = 1
    SetupMayFail = TRUE
    ForkMayFail = TRUE
    None = None
SPECIFICATION Spec
INVARIANT WorkerDescriptors
PROPERTIES ZombiesReaped ConnectedAccepted
