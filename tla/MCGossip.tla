------------------------------ MODULE MCGossip ------------------------------
EXTENDS Gossip, TLC

CONSTANTS m1, m2, m3

\* The chain of the repository's configuration files, Memory/.config to Memory3/.config.
Chain == m1 :> <<m2>> @@ m2 :> <<m3>> @@ m3 :> <<>>

=============================================================================
