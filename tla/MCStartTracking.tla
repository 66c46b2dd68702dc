---------------------------- MODULE MCStartTracking ----------------------------
EXTENDS StartTracking

\* One transaction in TON, or two of which the second failed; a profile from
\* before the end has none.
MCExecutions == {<<TRUE>>, <<TRUE, FALSE>>}
================================================================================
