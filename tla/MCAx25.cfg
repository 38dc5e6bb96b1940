SPECIFICATION LinkSpec
CONSTANTS
  AX25_SFLAGS = 2
  AX25_EFLAGS = 1
  Contents <- MCContents
INVARIANTS
  LinkTypeOK
  Transparent
  Delivers
