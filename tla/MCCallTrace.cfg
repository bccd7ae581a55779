CONSTANTS
  Mod = 3
  MaxSeq = 2
  Thread = {serial, mqtt}
  Mqtt = mqtt
  Nobody = Nobody
SPECIFICATION Spec
INVARIANT
  RetainedIdCurrentUnlessMixed
PROPERTY
  EventStream
