---------------------------- MODULE MCClientView ----------------------------
\* Instances of ClientView for TLC.
EXTENDS ClientView, TLC

\* Rooms other than general, and nicknames other than guest, are interchangeable.
Names == Permutations(RoomName \ {General}) \cup Permutations(NickName \ {Guest})
=============================================================================
