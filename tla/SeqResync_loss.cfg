SPECIFICATION Spec
CONSTANTS
  SeqMod = 6
  Isn <- IsnNearWrap
  Lens <- Answering
  NetCap = 2
  Limited = {"client"}
  MaxAhead = 4
PROPERTIES LossIsRepaired 
