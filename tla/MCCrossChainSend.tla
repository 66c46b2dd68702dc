--------------------------- MODULE MCCrossChainSend ---------------------------
EXTENDS CrossChainSend

Request(kind, sender, shards, keys, waits, ensures) ==
    [kind |-> kind, sender |-> sender, shards |-> shards, keys |-> keys,
     waits |-> waits, ensures |-> ensures]

\* Single transactions of one and three shards through a wallet, and batches
\* of two and three transactions, some with equal keys, through any sender.
Singles == {Request("single", "wallet", <<n>>, <<"k1">>, w, e) :
               n \in {1, 3}, w \in BOOLEAN, e \in BOOLEAN}

Batches == {Request("batch", s, <<1, 2>>, ks, w, TRUE) :
               s \in {"wallet", "tonConnect"}, ks \in {<<"k1", "k1">>, <<"k1", "k2">>},
               w \in BOOLEAN}
    \cup {Request("batch", "wallet", <<1, 1, 1>>, ks, TRUE, TRUE) :
               ks \in {<<"k1", "k2", "k1">>, <<"k2", "k3", "k1">>}}

MCRequests == Singles \cup Batches
================================================================================
