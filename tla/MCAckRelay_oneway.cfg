SPECIFICATION FairSpec
CONSTANTS
  Desktop = Desktop
  Phone = Phone
  Payload = {p, q}
  MaxFragments = 2
  ReplayBufferMax = 3
  HighWaterMark = 2
  LowWaterMark = 1
  MaxMessages <- MCOneWay
  WireCapacity = 3
  MaxFailures = 1
INVARIANTS TypeOK AdmissionIsExact BackPressureIsLive OnlyHonestFaults ReleasedWasDelivered
PROPERTIES ImplementsFifo EveryMessageAcknowledged
CHECK_DEADLOCK FALSE
