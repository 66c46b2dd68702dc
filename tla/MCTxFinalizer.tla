---------------------------- MODULE MCTxFinalizer ----------------------------
\* Four transactions: a chain, a fork whose leaf is shared by a longer path,
\* a root entered in the middle, and a single message.
EXTENDS TxFinalizer

CONSTANTS r, a, b, c

MCTx == {r, a, b, c}

Outs(or, oa, ob, oc) ==
    [t \in MCTx |-> CASE t = r -> or [] t = a -> oa [] t = b -> ob [] OTHER -> oc]

MCTrees == { Outs({a}, {b}, {c}, {}),
             Outs({a, b}, {}, {c}, {}),
             Outs({a}, {}, {r, c}, {}),
             Outs({a}, {}, {}, {}) }

Transaction(msg, aborted, compute, action) ==
    [msg |-> msg, aborted |-> aborted, compute |-> compute, action |-> action]

Good == Transaction("call", FALSE, "ok", "ok")

Other == { Transaction("call", TRUE, "ok", "missing"),
           Transaction("call", FALSE, "missing", "missing"),
           Transaction("call", FALSE, "exitCode", "ok"),
           Transaction("call", FALSE, "ok", "failed"),
           Transaction("call", FALSE, "ok", "missing"),
           Transaction("nano", TRUE, "failed", "missing"),
           Transaction("ignored", TRUE, "failed", "missing"),
           Transaction("noOpcode", FALSE, "ok", "ok") }

AllGood == [t \in MCTx |-> Good]

\* All went well, one did not or is skipped, or one is skipped and c failed.
MCOutcomes ==
    {AllGood}
        \cup {[AllGood EXCEPT ![u] = p] : u \in MCTx, p \in Other}
        \cup {[AllGood EXCEPT ![u] = Transaction("ignored", FALSE, "ok", "ok"),
                              ![c] = Transaction("call", TRUE, "failed", "missing")]
                 : u \in {a, b}}
==============================================================================
