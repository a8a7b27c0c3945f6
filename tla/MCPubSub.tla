------------------------------ MODULE MCPubSub ------------------------------
(***************************************************************************)
(* Finite instances of PubSub for TLC.                                      *)
(***************************************************************************)
EXTENDS PubSub, TLC

CONSTANTS p1, p2, s1, s2, ch1, ch2, ch3

TwoPublishers == {p1, p2}
TwoSubscriptions == {s1, s2}
ThreeChunks == {ch1, ch2, ch3}
OnePublisher == {p1}
OneSubscription == {s1}
AllFailures == {"resize", "deserialize"}
NoFailures == {}
TopicSymmetry ==
  Permutations(Publishers) \cup Permutations(Subscriptions) \cup Permutations(Chunks)
=============================================================================
