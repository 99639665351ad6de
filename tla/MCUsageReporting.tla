------------------------- MODULE MCUsageReporting --------------------------
EXTENDS UsageReporting, TLC

CONSTANTS m1, m2, r1, r2, a, b, hour1

SameHour == m1 :> hour1 @@ m2 :> hour1
=============================================================================
