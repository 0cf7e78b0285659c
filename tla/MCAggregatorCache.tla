--------------------------- MODULE MCAggregatorCache ---------------------------
(* AggregatorCache on small instances. *)
EXTENDS AggregatorCache

CONSTANTS a1, s1, r1  \* an actuator's message, a sensor's, a register message

==============================================================================
