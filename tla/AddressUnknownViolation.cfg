SPECIFICATION MessengerSpec
CONSTANTS
    Peers = {u, v}
    Named = {}
    Behind = 3
    MaxMessengers = 2
    MaxRestarts = 0
    MaxMessages = 2
    MaxChunks = 1
    MaxArrivals = 2
INVARIANTS
    AddressKnown
CHECK_DEADLOCK FALSE
