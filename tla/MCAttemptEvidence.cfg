SPECIFICATION EvidenceSpec
CONSTANT MaxEvents = 3
INVARIANT OnlyTurnEventsEnd
