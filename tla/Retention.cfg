\* Days of two seconds, seconds of two ticks; rows are kept for a day, files
\* for one day too: the horizons at which the two purges are closest.
CONSTANTS
    TicksPerSecond = 2
    TicksPerDay = 4
    EventDays = 1
    FileDays = 1
    MaxTime = 10
    MaxEvents = 2
    MaxRebuilds = 1
    MaxFailures = 1
SPECIFICATION FairSpec
INVARIANTS
    TypeOK
    YoungDataKept
PROPERTIES
    OldDataGoes
\* Time, events and rebuilds are bounded, but the loop never ends.
