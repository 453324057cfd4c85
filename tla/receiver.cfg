\* The sender runs out of lines: then the stream is idle.
SPECIFICATION Spec
CONSTANTS
  Count = 3
  Lengths = {0, 2, 3, 6}
  Kinds = {"record", "own", "bare", "junk", "faulty"}
  MaxLine = 2
  MaxRead = 4
  MaxBytes = 21
  MaxDrops = 1
CHECK_DEADLOCK FALSE
INVARIANTS
  TypeOK
  ShortLinesArrive
  OnlyTailsBesides
  BufferBounded
