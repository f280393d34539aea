SPECIFICATION FairSpec
CONSTANTS
    Calls <- FourCalls
    Deploys = {"d1", "d2"}
    AddressOf <- CallAddress
    SelectorOf <- CallSelector
    NoSelector = "nosel"
    TimeOf <- CallTime
    Parties = {1, 2, 3}
    Host = 1
    Threshold = 1
    Signers = {{1, 2}}
    MaxRooms = 6
    Nodes = {"a", "b"}
    PeerIds = {"p"}
    PeerIdOf <- SharedPeer
    MaxVersion <- MetadataVersions
    Mortal = {"b"}
    Exchanges <- FourExchanges
    From <- ExchangeFrom
    To <- ExchangeTo
    Parent <- ExchangeParent
    SendLimit = 1
    ServeLimit = 1
INVARIANTS
    StatesFollow
    ForkEndsTask
    
    ResultBacked
    
    WaitersUpToDate
PROPERTIES
    CallAnswered
    SessionEnds
    OrphansRepaired
    
    EveryCallReturns
CHECK_DEADLOCK FALSE
