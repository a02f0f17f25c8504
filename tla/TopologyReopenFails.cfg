CONSTANTS
  a = a
  b = b
  h = h
  Layouts <- MCLayouts
  Topologies <- MCTopologies
  Readers = {}
  Writers = {}
  MaxGen = 6
  MaxDisruptions = 2
SPECIFICATION FairSpec
PROPERTIES ReconciliationRepublishes
CHECK_DEADLOCK FALSE
