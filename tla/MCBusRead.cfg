SPECIFICATION SpecBus
CONSTANTS
    Parts = {"log", "simple", "cli"}
    a1 = a1  a2 = a2  a3 = a3  r1 = r1  h1 = h1  h2 = h2
    Appends = {a1, a2, a3}
    Reads = {r1}
    Handles = {h1, h2}
    HandleOf <- TwoHandles
    Filters <- AllOrFirst
    Limits = {0, 2}
    MaxPoll = 1
    Capacity = 3
    Empty = Empty
    MaxFaults = 1
    Readers = {rp, rr, rb}
    Poller = rp
    Pager = rr
    EntryTtl = 2
    Types = {"x", "y"}
    How <- ReaderHow
    Filter <- ReaderFilter
    PageSize <- ReaderPage
    MaxPollEntries = 1
    Timeout = 1
    MaxEntries = 3
    MaxEntryClock = 2
    Counts <- TypedCounts
    Starts <- TypedStarts
    DefaultTail = 1
    CliPage = 2
    MaxCliLog = 3
    CliBuses = {b1, b2}
SYMMETRY Symmetry
INVARIANTS
    ReadsCoverAcked
    PagesAreExact
PROPERTIES
    ReadersGetTheirRange
CHECK_DEADLOCK FALSE
