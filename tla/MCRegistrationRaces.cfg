SPECIFICATION Spec
CONSTANTS
    j1 = j1
    j2 = j2
    row1 = row1
    row2 = row2
    row3 = row3
    Jobs = {j1, j2}
    Phones = {"phone"}
    PhoneOf <- MCPhoneOf
    Bvns = {"bvn"}
    BvnOf <- MCBvnOf
    RecordedBvns = {"bvn"}
    Devices = {"device"}
    DeviceOf <- MCDeviceOf
    Rows = {row1, row2, row3}
    RowsOf <- MCRowsOf
    Sweepers = {s1}
    Kickers = {k1}
    SweepLimit = 2
    Requests = {r1, r2}
    MaxCalls = 3
    MaxFaults = 2
    CommitAcks = FALSE
    NoJob = NoJob
CHECK_DEADLOCK FALSE
INVARIANT FinalizationAtomic
INVARIANT WalletIsRemote
INVARIANT SessionClaimedOnce
