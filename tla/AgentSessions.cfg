SPECIFICATION Spec
CONSTANTS
  Keep = 2
  Room = 4
  MinItems = 3
  MaxImages = 1
  MaxStrips = 1
  MaxCompactions = 1
  MaxFilters = 1
  MaxItems = 5
  MaxFaults = 2
  MaxStops = 1
INVARIANTS PairsStayTogether
PROPERTIES NothingIsForgotten CycleEnds
