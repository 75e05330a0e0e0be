----------------------- MODULE MCHardwareVerification -----------------------
(* HardwareVerification for TLC: what relays may list.                     *)
EXTENDS HardwareVerification, TLC

Sound == [atec |-> "a1", upper |-> FALSE, nft |-> FALSE,
          id |-> TRUE, rest |-> TRUE, signed |-> TRUE]
OfNft == [Sound EXCEPT !.nft = TRUE]

\* Proofs of both kinds for two devices, a signature that does not verify, a
\* serial in capital letters, a missing serial, missing values, and a missing
\* node id that only one of the proofs needs.
Listed == {Sound, [Sound EXCEPT !.signed = FALSE], [Sound EXCEPT !.id = FALSE],
           [Sound EXCEPT !.atec = None], OfNft, [OfNft EXCEPT !.upper = TRUE],
           [OfNft EXCEPT !.atec = "a2", !.id = FALSE], [OfNft EXCEPT !.rest = FALSE]}

\* Nothing tells relays apart, or verifiers.
Interchangeable == Permutations(Relays) \cup Permutations(Verifiers)

=============================================================================
