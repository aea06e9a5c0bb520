SPECIFICATION FairSpec
CONSTANTS
    a = a
    poison = poison
    service = service
    operator = operator
    Events = {a, poison}
    Poison = {poison}
    Dispatchers = {service, operator}
    Service = {service}
    Limit = 2
    Budget = 2
INVARIANTS TypeOK PublishedHasNoError
PROPERTIES KeepsContract HealthyEventsSettle
CHECK_DEADLOCK FALSE
