SPECIFICATION SelSpec
CONSTANTS
  Absent = Absent
  NodeIDs = {i1, i2, i3, i4, i5, i6, i7}
  Groups = {g1, g2}
  Homes <- MCHomes
  MaxEvents = 2
INVARIANTS
  SelInv
  HasAgreesWithPick
