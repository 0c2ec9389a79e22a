SPECIFICATION Spec
CONSTANTS
  NEvents = 3
  MaxBatch = 3
  MaxCalls = 1
  Priorities = {"LOW", "HIGH"}
INVARIANTS ListsSound EventsConserved OnlyPutEventsTravel
PROPERTY CallsAtomic
