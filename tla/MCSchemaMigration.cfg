SPECIFICATION MCSpec
CONSTANTS
    Processes = {api, notifier, sweeper}
    Unprepared = {api}
    Users = {u1, u2}
    MaxFaults = 1
    api = api
    notifier = notifier
    sweeper = sweeper
    u1 = u1
    u2 = u2
INVARIANTS
    SettingsKept
    ServesMigrated
PROPERTIES
    RestartsChangeNothing
    EveryoneServes
