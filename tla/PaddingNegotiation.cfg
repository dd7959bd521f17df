SPECIFICATION Spec
CONSTANTS
  Conns = {c1, c2, c3}
  Users = {"kCapable", "kIncapable"}
  Tunnels = {"h2", "http"}
  Upstreams = {"direct", "naive"}
  MaxChanges = 1
  MaxRefusals = 1
SYMMETRY ConnSymmetry
INVARIANTS SupportKnownWhenRunning ServerChangesFollowed
CHECK_DEADLOCK FALSE
