CONSTANTS
  Requests = {r1, r2, r3}
  Workers = {w1, w2, w3, w4}
  Cleaner = Cleaner
  Nobody = Nobody
SPECIFICATION Spec
SYMMETRY Symmetry
INVARIANT SecondPassAssertions
