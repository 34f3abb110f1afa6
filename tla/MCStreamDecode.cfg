SPECIFICATION MCSpec
CONSTANTS
  Wires <- AllWires
  MaxChunk = 5
  MaxEvents = 3
CHECK_DEADLOCK FALSE
INVARIANTS
  TypeOK
  ExchangesFaithful
  ExchangesOnce
  ExchangesAll
  FailsOnlyRefused
  ProjectionMatchesStream
  ExpectableEncodes
