\* Two application threads share the one connection.
CONSTANTS
    f = f  d = d  m = m  n1 = n1  n2 = n2  t1 = t1  t2 = t2
    Uninit = Uninit  None = None
    Threads = {t1, t2}
    Files = {f}
    Dirs = {d}
    Missing = {m}
    TreeNames = {n1, n2}
    DirTreeOf <- MCDirTreeOf
    FileSize = 2
    DirEntries = 2
    LocalFds = {1}
    FD_OFFSET = 25000
    MAXMSGLEN = 4
    MaxCalls = 3
    ReadSizes = {2}
    WriteSizes = {2}
    EntrySizes = {2}
    SeekOffsets = {0}
    Split = FALSE
    ServerMayCrash = FALSE
    ClientMayDieMidSend = FALSE
SPECIFICATION Spec
PROPERTIES ReturnsOwnReply
