----------------------------- MODULE MCBatchSender -----------------------------
\* Two concurrent calls whose batches need one to three groups; one of them
\* holds a message that fits into no group.
EXTENDS BatchSender

MCBatches == { <<>>, <<1, 1>>, <<1, 2, 1>>, <<1, 3>> }
===============================================================================
