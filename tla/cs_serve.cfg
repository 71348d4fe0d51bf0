CONSTANTS
    Client = {a, b}
    NoClient = NoClient
    Typed = {"help", "stop", "ls", "rm"}
    MaxFds = 2
    MaxPieces = 2
    Room = 2
SPECIFICATION Spec
\* Clients that have left or wait for an answer of no length stop the system.
CHECK_DEADLOCK FALSE
INVARIANTS TypeOK WaitsOnlyForSilence InStep EndsOnlyByMishap
PROPERTIES Answered TurnComes
