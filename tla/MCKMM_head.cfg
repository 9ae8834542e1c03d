CONSTANTS
  HEAP_SIZE = 16
  HDR = 1
  NODE = 3
  Requests = {1, 3, 4}
  Increments = {1, 2, 4}
SPECIFICATION Spec
INVARIANT HeadNotGranted
