CONSTANT Ips = {ip1, ip2, ip3, ip4}
SPECIFICATION FairSpec
INVARIANTS OutcomeIsTrue
PROPERTY NoneLeftOpen
CHECK_DEADLOCK FALSE
