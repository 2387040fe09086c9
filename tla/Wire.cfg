SPECIFICATION WireSpec
CONSTANTS
  LineEnds <- MCLineEnds
  MaxEvents = 1
  MaxChunk = 4
INVARIANTS ChunksDoNotMatter OneTerminalEvent
PROPERTY StreamEnds
CHECK_DEADLOCK FALSE
