SPECIFICATION Spec
CONSTANTS
  Elements = {e1, e2}
  Garbage = Garbage
  NX_MAX_QUEUE_ELEMENT = 3
INVARIANT RingConsistent
PROPERTIES ImplementsFIFO
