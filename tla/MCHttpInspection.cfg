CONSTANTS
  Conns = {k1}
  Txns = {1,2}
  Tabs = {b1}
  MaxOwed = 1
SPECIFICATION FairSpec
INVARIANT TypeOK
PROPERTIES ViewsUnderstand TrafficFlows AnalyzersEnd
CHECK_DEADLOCK FALSE
