SPECIFICATION CompanySpec
CONSTANTS
    u1 = u1
    d1 = d1
    d2 = d2
    d3 = d3
    r1 = r1
    r2 = r2
    None = None
    Users = {u1}
    Devices = {d1, d2, d3}
    Admins = {}
    Own <- OwnDevice
    Origin <- OriginDevice
    Channel <- ChannelOfDevice
    Clients = {r1, r2}
    Codes = {1, 2, 3, 4}
    MaxAttempts = 2
    MaxRetries = 2
    MaxSecrets = 2
    MaxMishaps = 1
CHECK_DEADLOCK FALSE
INVARIANTS TypeOK
PROPERTIES NoFalseRefusal OnlyNewCodes GetsIn
