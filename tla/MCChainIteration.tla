-------------------------- MODULE MCChainIteration -------------------------
(***************************************************************************)
(* The trees of MCBestChain for ChainIteration.                            *)
(***************************************************************************)
EXTENDS ChainIteration, MCBestChain

============================================================================
