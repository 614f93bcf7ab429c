------------------------------- MODULE MCSCC -------------------------------
(* The graphs of four nodes over eight pairs: two triangles that share a     *)
(* side, the way back from either tip, and a self edge.                      *)
EXTENDS SCCDetection

CONSTANTS a, b, c, d

NestedPairs == {<<a, b>>, <<b, c>>, <<c, a>>, <<c, d>>, <<d, b>>, <<b, a>>, <<d, c>>, <<d, d>>}
=============================================================================
