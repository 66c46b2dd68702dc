-------------------------- MODULE MCOperationTracking --------------------------
\* Two sequencers, lists of one to three shards keys in chunks of two, one of
\* them with a key that was generated twice.
EXTENDS OperationTracking

CONSTANTS k1, k2, k3

MCRequests == {<<k1>>, <<k1, k2>>, <<k1, k1>>, <<k1, k2, k3>>}
===============================================================================
