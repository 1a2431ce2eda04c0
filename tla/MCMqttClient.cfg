SPECIFICATION ClientSpec
CONSTANTS
    MaxMessages = 2
    Ids = {i1, i2, i3, i4, i5}
    MaxOutbox = 2
    MaxCount = 2
    MaxWire = 1
    LengthBase = 8
    MessageIds = {255}
    Publishes <- SomePublishes
    SubscribeTopics <- SomeTopics
    ConnectInfos <- SomeInfos
    buffer_length = 32
    in_buffer_length = 12
    BrokerMessages <- SomeMessages
    MaxSent = 3
INVARIANTS
    PendingCovers
    FreedUnused
    MessagesWritten
    MessagesRead
PROPERTIES
    Delivered
    ClientProgress
