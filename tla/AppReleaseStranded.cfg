SPECIFICATION Spec
CONSTANTS
  a = a  r = r  i0 = i0  i1 = i1
  Releases = {a, r}
  NoRelease = NoRelease
  Images = {i0, i1}
  Deployed = i0
  NoImage = NoImage
  Current <- MCCurrent
  Wanted <- MCWanted
  FailedOf <- MCFailedOf
  MaxLapses = 1
INVARIANTS DocumentedNoStranding
