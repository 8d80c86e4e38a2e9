CONSTANTS
  Slots = {0, 1}
  MinRto = 1
  MaxRto = 3
  MaxRetries = 1
  Keepalive = 3
  Timeout = 7
  MinTrip = 1
  MaxTrip = 2
  TickGap = 1
  MaxResends = 4
SPECIFICATION Spec
INVARIANTS TypeOK EstimateWithinTrips NotGivenUpEarly GivenUpInTime AliveStaysOpen
CHECK_DEADLOCK FALSE
