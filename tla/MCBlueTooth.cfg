\* The detector, its inquiries and the service searches within them.
SPECIFICATION Spec
CONSTANTS
  Addr = {phone, gps}
  HasSerial = {gps}
  MaxSockets = 3
  MaxFailures = 1
INVARIANTS
  TypeOK
  LeaksBounded
PROPERTIES
  DiscoveredIsServed
  KeepsInquiring
