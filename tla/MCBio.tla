-------------------------------- MODULE MCBio --------------------------------
(* Bio for TLC: two submitters, two devices, three request records and    *)
(* rings of one entry, so that a submitter blocks on a full ring while    *)
(* the other device's requests complete.                                  *)
EXTENDS Bio, TLC

CONSTANTS c1, c2, q1, q2, q3

MCClients == {c1, c2}
MCReq == {q1, q2, q3}

\* Submitters are interchangeable, and so are records.
MCSymmetry == Permutations(MCClients) \cup Permutations(MCReq)

=============================================================================
