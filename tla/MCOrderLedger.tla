--------------------------- MODULE MCOrderLedger ---------------------------
EXTENDS OrderLedger
DistinctFillTimes == [n \in 1..Requested |-> n]
EqualFillTimes == [n \in 1..Requested |-> 1]
=============================================================================
