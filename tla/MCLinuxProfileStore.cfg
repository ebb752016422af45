SPECIFICATION Spec
CONSTANTS
  p1 = p1
  p2 = p2
  Profiles = {p1, p2}
  NoProfile = NoProfile
  NoDigest = NoDigest
SYMMETRY Payloads
INVARIANTS
  BoundNeverUnmarked
  StagedIsKept
