\* Two requests of any kind, and two responses, in segments of 6 bytes or of any length.
SPECIFICATION Spec
CONSTANTS
    BYTE = 200
    ClientIds <- OneId
    ClientNames <- Names
    PublicKeys <- Keys
    Files <- FilesInRange
    MAX_REQUESTS = 2
    Responses <- SomeResponses
    Reports <- SomeReports
    MAX_RESPONSES = 2
    Segments = {6, 300}
    ClientId <- Id
INVARIANTS
    Framed
    RequestsUnderstood
    EchoWithinPayload
    NoHugeRead
    PayloadsUnderstood
PROPERTY IsFifo
