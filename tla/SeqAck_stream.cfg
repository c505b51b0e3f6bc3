SPECIFICATION Spec
CONSTANTS
  SeqMod = 6
  Isn <- IsnNearWrap
  Lens = {1, 2}
  MaxSent = 7
INVARIANTS TypeOK NoGapAcked StreamHasNoHole
