------------------------------- MODULE MCRawSender -------------------------------
\* Two calls of up to three groups, an empty one, and a single transaction
\* that does not fit into a group.
EXTENDS RawSender
================================================================================
