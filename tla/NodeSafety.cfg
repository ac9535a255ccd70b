\* Two requests at a time.  ReadBufCap > DrainMax, as in the code, so that an
\* upstream can close with more buffered than one drain takes; StreamLen is the
\* first length at which an unbounded buffer would show.
SPECIFICATION Spec
CONSTANTS
    Handlers = {h1, h2}
    StreamLen = 4
    MaxChunk = 1
    ReadBufCap = 3
    DrainMax = 2
    Budget = 2
    IdleLimit = 0
    MaxFaults = 1
SYMMETRY HandlerSymmetry
INVARIANTS TypeOK ByteConservation EofMeansDrained BufferBounded ReaderNotForgotten
CHECK_DEADLOCK FALSE
