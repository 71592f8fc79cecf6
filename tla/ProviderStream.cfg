\* Two requests on one wire, two pieces each, a queue of one.
SPECIFICATION Spec
CONSTANTS
  Streams = {s1, s2}
  Chunks = 2
  ChunkQueue = 1
  NoChunk = NoChunk
SYMMETRY StreamSymmetry
INVARIANTS BodyIsWhole ClosedBodyIsWithdrawn
\* Every request may be over.
CHECK_DEADLOCK FALSE
