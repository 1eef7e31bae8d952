--------------------------- MODULE MCWorkMapStore ---------------------------
EXTENDS WorkMapStore

CONSTANTS p1, p2

\* Nothing is promised once one of the two races happened, and no step takes a
\* race back.  A stolen lock is not explored further, an overtaken create only as
\* long as nothing else goes wrong, to see the directory disappear under a call.
Explored ==
  \/ broken = {}
  \/ broken = {"overtaken"} /\ crashes = 0 /\ failures = 0

\* For the run that looks at the stolen lock alone.
CreatedAlone == "overtaken" \notin broken
=============================================================================
