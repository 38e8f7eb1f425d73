SPECIFICATION IntSpec
CONSTANTS
  W = 8
  K = 4
  Elements = {e1, e2}
PROPERTY IntImplementsFifo
