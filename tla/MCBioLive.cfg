CONSTANTS
    c1 = c1
    c2 = c2
    q1 = q1
    q2 = q2
    q3 = q3
    Clients <- MCClients
    Req <- MCReq
    Devs = {0, 1}
    RingSize = 1
CHECK_DEADLOCK FALSE
SPECIFICATION FairSpec
PROPERTY BioImplementsService 
