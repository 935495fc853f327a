----------------------------- MODULE MCTCPServer ----------------------------
(* Instances of TCPServer for TLC.  A request is a pair of its connection  *)
(* and its kind.                                                           *)
EXTENDS TCPServer

CONSTANTS c1, c2, c3

\* A client with two requests that waits for each reply, one that does not
\* wait, and one that only connects, when there is a descriptor for it.
Mixed      == {<<c1, "read">>, <<c1, "write">>, <<c2, "plain">>, <<c2, "silent">>}
\* One client with two requests.
SameClient == {<<c1, "read">>, <<c1, "plain">>}

\* A request may be refused while the same client's other one is in the pool.
MixedRefused == {<<c2, "silent">>}

MCOwner == [r \in Requests |-> r[1]]
MCKind  == [r \in Requests |-> r[2]]
=============================================================================
