CONSTANTS
    Packet <- MCPacket
    Resource <- MCResource
    None = None
    Everyone = Everyone
SPECIFICATION FairSpec
INVARIANT TypeOK
INVARIANT BusyIsHeld
 
INVARIANT AnsweredOnce
PROPERTY QueueDrains
PROPERTY NoteEnds
