SPECIFICATION Spec
CONSTANTS
    OETH_TXBD_NUM = 2
    OETH_RXBD_NUM = 2
    Hosts = {h1}
    Kinds = {"arp", "ping", "udp", "other"}
    IpLens = {0, 2, 3}
    EchoHead = 1
    HisRoom = 2
    EchoRoom = 1
    MaxRx = 3
    None = None
INVARIANTS TypeOK WireOrder TakenOnce 
PROPERTIES RxServed RequestAnswered
CHECK_DEADLOCK FALSE
