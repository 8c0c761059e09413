SPECIFICATION MixSpec
CONSTANTS
  MixCalls = {a, b}
  Nobody = Nobody
INVARIANT SwitchedHeard
