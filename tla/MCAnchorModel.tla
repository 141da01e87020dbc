---------------------------- MODULE MCAnchorModel ----------------------------
(* Two counts: the first activates one pair of anchors, the second another *)
(* as well.                                                                *)
EXTENDS AnchorModel
CONSTANTS first, other
MCPairs == {first, other}
MCActivePairs == [c \in {1, 2} |-> IF c = 1 THEN {first} ELSE {first, other}]
==============================================================================
