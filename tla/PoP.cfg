SPECIFICATION Spec
CONSTANTS
    me = me
    d1 = d1
    d2 = d2
    d3 = d3
    c1 = c1
    c2 = c2
    c3 = c3
    Blocks <- MCBlocks
    Addresses <- MCAddresses
    Me = me
    Challenger <- MCChallenger
    Challengee <- MCChallengee
    CidsOf <- MCCidsOf
    NoPoP = NoPoP
    NoCid = NoCid
    Envs <- EnvsAll
INVARIANTS
    TypeOK
    ResultsOnAnswerer
    ReportedOnce
    SuccessIsProven
    NoTopicLeft
PROPERTIES
    ImplementsReporting
CHECK_DEADLOCK FALSE
