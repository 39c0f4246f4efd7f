------------------------------ MODULE MCBlkDev ------------------------------
EXTENDS BlkDev, TLC

CONSTANTS c1, c2

\* One caller: the slots are opened by a single rump thread at a time.
MCOneClient == {c1}

\* Two callers that may open the same slot concurrently.
MCTwoClients == {c1, c2}
=============================================================================
