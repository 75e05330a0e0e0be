-------------------------- MODULE MCRelayPipeline --------------------------
(* RelayPipeline for TLC.                                                  *)
EXTENDS RelayPipelineInvariants, TLC

RoundSymmetry == Permutations(Scheduled) \cup Permutations(Rounds \ Scheduled)
AddressSymmetry == Permutations(Addresses)
MCSymmetry == RoundSymmetry \cup AddressSymmetry
=============================================================================
