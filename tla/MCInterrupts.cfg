SPECIFICATION Spec
CONSTANTS
    Sources = {1, 2}
    Program = {0, 1}
    EnableChoices <- Enables
    PriorityChoices <- Priorities
    Reload = 2
INVARIANTS TypeOK
PROPERTIES RoutinesNest ForemostServed Wakes
