SPECIFICATION FairTasksSpec
CONSTANTS
    Tenants = {acme, bolt}
    DefaultDb = main
    NoTask = NoTask
    MaxExits = 1
    MaxQueue = 1
    None = None
INVARIANT TasksStayHome
INVARIANT RunsSavedHome
INVARIANT HooksFollowSchedulers
PROPERTY SettledTenantsServed
