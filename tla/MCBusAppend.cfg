SPECIFICATION FairSpecBus
CONSTANTS
    Parts = {"log", "simple", "cli", "roles"}
    a1 = a1  a2 = a2  a3 = a3  r1 = r1  h1 = h1  h2 = h2
    Appends = {a1, a2, a3}
    Reads = {}
    Handles = {h1, h2}
    HandleOf <- TwoHandles
    Filters <- NoFilter
    Limits = {1}
    MaxPoll = 2
    Capacity = 4
    Empty = Empty
    MaxFaults = 3
    Readers = {rb}
    Poller = rp
    Pager = rr
    EntryTtl = 0
    Types = {"x", "y"}
    How <- ReaderHow
    Filter <- ReaderFilter
    PageSize <- ReaderPage
    MaxPollEntries = 1
    Timeout = 1
    MaxEntries = 3
    MaxEntryClock = 2
    Counts <- TypedCounts
    Starts <- TypedStarts
    DefaultTail = 1
    CliPage = 2
    MaxCliLog = 3
    CliBuses = {b1}
PROPERTIES
    ImplementsSharedLog
    AppendsReturn
    WaitersGetOn
CHECK_DEADLOCK FALSE
