----------------------------- MODULE MCPipeline -----------------------------
(***************************************************************************)
(* Pipeline for TLC.                                                       *)
(***************************************************************************)
EXTENDS Pipeline

CONSTANTS x, y

Kind(t, c, s, b, f, n) ==
    [transformer |-> t, consumer |-> c, service |-> s, contents |-> b,
     maxFaults |-> f, maxBlocks |-> n]
Usual == {Kind("synchronous", "execute", "matic_transfer", {<< >>, <<y, x>>}, 1, 3),
          Kind("synchronous", "consume", "nft_balancer", {<<x>>, <<y, x>>}, 1, 3),
          Kind("asynchronous", "consume", "matic_transfer", {<<x>>}, 1, 3),
          Kind("synchronous", "consume", "matic_transfer", {<<x>>}, 2, 2)}
Matics == {Kind("synchronous", "consume", "matic_transfer", {<<x>>}, 1, 3)}
Balancers == {Kind("synchronous", "consume", "nft_balancer", {<<x>>, <<y>>}, 0, 2)}
=============================================================================
