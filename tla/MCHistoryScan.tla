----------------------------- MODULE MCHistoryScan -----------------------------
\* Histories of up to four transactions, pages of two or three.
EXTENDS HistoryScan
===============================================================================
