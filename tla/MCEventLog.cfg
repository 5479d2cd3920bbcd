\* Every subscriber may have left or ended after the run's end.
CHECK_DEADLOCK FALSE
CONSTANTS
    Subscriber = {s1, s2, s3}
    MaxEvents = 3
SPECIFICATION LogSpec
INVARIANTS
    SleepersAreCurrent
    EndedReadersSawTheEnd
PROPERTIES
    EveryReaderEnds
