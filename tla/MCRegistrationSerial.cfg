SPECIFICATION FairSpec
CONSTANTS
    j1 = j1
    j2 = j2
    row1 = row1
    row2 = row2
    row3 = row3
    Jobs = {j1, j2}
    Phones = {"phone1", "phone2"}
    PhoneOf <- MCPhoneOfTwo
    Bvns = {"bvn"}
    BvnOf <- MCBvnOf
    RecordedBvns = {"bvn"}
    Devices = {"device1", "device2"}
    DeviceOf <- MCDeviceOfTwo
    Rows = {row1, row2, row3}
    RowsOf <- MCRowsOf
    Sweepers = {s1}
    Kickers = {k1}
    SweepLimit = 2
    Requests = {r1}
    MaxCalls = 2
    MaxFaults = 1
    CommitAcks = TRUE
    NoJob = NoJob
CHECK_DEADLOCK FALSE
INVARIANT OneWorkerPerJob
INVARIANT OneUserPerPerson
PROPERTY EveryJobSettles
PROPERTY ImplementsSaga
