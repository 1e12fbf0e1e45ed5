CONSTANTS
    c1 = c1
    c2 = c2
    Clients = {c1, c2}
    MaxClients = 1
    LogCap = 2
    MaxFailures = 1
    Setups <- MCSetups
SPECIFICATION ServerSpec
INVARIANTS LogFlushed StartupIsSound
PROPERTIES SigtermStops ClientsAnswered
CHECK_DEADLOCK FALSE
