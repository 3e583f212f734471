SPECIFICATION FairSpec
INVARIANTS RanIsComplete GroupDiesWithChild
PROPERTY Returns
\* Run returns and the system stops.
CHECK_DEADLOCK FALSE
