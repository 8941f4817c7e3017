SPECIFICATION FairWiFiSpec
CONSTANTS
    s1 = s1
    s2 = s2
    Stations <- TwoStations
    NULL = NULL
    Calls <- AllCalls
    MaxEvents = 3
INVARIANTS WiFiTypeOK NoFalseLink HandlersAlive
PROPERTIES Reconnects
