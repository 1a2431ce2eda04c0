SPECIFICATION RadioSpec
CONSTANTS
    MAX_DECTECTOR = 2
    States = {"normal", "alarm"}
    QueueLength = 1
    inputChannel = 0
    OtherEvents = FALSE
PROPERTIES
    AlarmPublished
