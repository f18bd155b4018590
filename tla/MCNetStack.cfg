SPECIFICATION Spec
CONSTANTS
    Host <- MCHost
    Offers <- MCOffers
    Slots <- MCSlots
    PollFrames = 2
    LinkTime = 1
    WaitTime = 1
    ArpTime = 1
    ArpLife = 1
    DhcpAttempts = 2
    ArpAttempts = 2
    RandomBits = 4
    IdBits = 3
    PortBits = 3
    MaxOps = 3
VIEW WithoutPacket
INVARIANTS
    AnswersAreOurs
PROPERTIES
    LeaseHonoured
    OperationEnds
