CONSTANTS
  Section = {s1, s2}
  Absent = Absent
  Mac = {m1, m2}
  Host = {h1, h2}
  Ignore = Ignore
  Addr = {3, 4}
  Size = {4, 8}
  Offset = {1, 2}
SYMMETRY Symmetry
SPECIFICATION Spec
INVARIANTS
  LeasesInNetwork
  ClientsListed
PROPERTIES
  NoNewClash
