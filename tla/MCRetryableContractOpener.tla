---------------------- MODULE MCRetryableContractOpener ----------------------
\* Three openers with different budgets, one of them without retries.
EXTENDS RetryableContractOpener

MCRetries == [i \in 1..3 |-> CASE i = 1 -> 2 [] i = 2 -> 0 [] OTHER -> 1]
==============================================================================
