SPECIFICATION ArchiveSpec
CONSTANTS
    Transactions = {1, 2, 3, 4}
    Bare = {2}
    Young = {4}
    ARCHIVE_BATCH = 2
    Processes = {p1, p2}
    MaxFaults = 1
INVARIANTS XdrKept FewLeftBehind
PROPERTIES AllArchived
