----------------------- MODULE MCTopologyPublication -----------------------
EXTENDS TopologyPublication

CONSTANTS a, b, h

MCLayouts == {a, b, h}
MCTopologies == {[point |-> x, health |-> h] : x \in {a, b}}
=============================================================================
