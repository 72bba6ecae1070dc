----------------------------- MODULE MCRpcChannel -----------------------------
(* Small instances of RpcChannel for TLC.                                   *)
EXTENDS RpcChannel

CONSTANTS h1, h2, r1, r2
=============================================================================
