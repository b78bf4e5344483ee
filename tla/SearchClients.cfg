\* One search over two providers, which answer in time, late or never; two
\* clients that come and go.
SPECIFICATION FairSpec
CONSTANTS
    me = me
    q1 = q1
    q2 = q2
    c1 = c1
    c2 = c2
    s1 = s1
    Peers <- TwoProviders
    Self <- me
    Sockets <- TwoSockets
    Searches <- OneSearch
INVARIANTS
    TypeOK
    ClientSeesAll
    DoneIsLast
    ResponseIsComplete
PROPERTIES
    SearchEnds
CHECK_DEADLOCK FALSE
