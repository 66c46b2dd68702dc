--------------------------- MODULE MCTransactionTree ---------------------------
\* Four transactions: a chain, a fork with an external message, and a fork
\* entered at one of its leaves.
EXTENDS TransactionTree

CONSTANTS r, a, b, c

MCTx == {r, a, b, c}

Tree(or, oa, ob, oc) ==
    [t \in MCTx |-> CASE t = r -> or [] t = a -> oa [] t = b -> ob [] OTHER -> oc]

MCTrees == { Tree(<<a>>, <<b>>, <<c>>, <<>>),
             Tree(<<a, Nobody, b>>, <<c>>, <<>>, <<>>),
             Tree(<<b>>, <<r, c>>, <<>>, <<>>) }

Phase(generic, aborted, compute, action) ==
    [generic |-> generic, aborted |-> aborted, compute |-> compute, action |-> action]

Good == Phase(TRUE, FALSE, "ok", "ok")

Other == { Phase(TRUE, TRUE, "skipped", "missing"),
           Phase(TRUE, FALSE, "missing", "missing"),
           Phase(TRUE, FALSE, "failed", "missing"),
           Phase(TRUE, FALSE, "ok", "failed"),
           Phase(TRUE, FALSE, "skipped", "missing"),
           Phase(FALSE, TRUE, "missing", "missing") }

\* All transactions went well, or one of them went another way, or two failed.
MCOutcomes ==
    {[t \in MCTx |-> Good]}
        \cup {[[t \in MCTx |-> Good] EXCEPT ![u] = p] : u \in MCTx, p \in Other}
        \cup {[[t \in MCTx |-> Good] EXCEPT ![u] = Phase(TRUE, FALSE, "ok", "failed"),
                                            ![c] = Phase(TRUE, TRUE, "skipped", "missing")]
                 : u \in {a, b}}
===============================================================================
