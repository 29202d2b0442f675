--------------------------- MODULE MCBlockGetter ----------------------------
EXTENDS BlockGetter

CONSTANTS a, b, c

\* The branches have a transaction in common, at another place.
TwoBranches == << <<a, b>>, <<b, c>> >>

\* Each class; QuickNodeBlockGetter with and without an alternateEth.
Every ==
    {[class |-> k, alternate |-> FALSE] : k \in {"block", "erigon", "quicknode"}}
        \cup {[class |-> "quicknode", alternate |-> TRUE]}
=============================================================================
