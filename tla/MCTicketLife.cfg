SPECIFICATION ChainSpec
CONSTANTS
    TicketLifetime = 3
    LifetimeMax = 2
    Instants = {0, 1, 2, 3, 4, 5}
INVARIANTS
    ResumedInTime
    OffersAreTaken
