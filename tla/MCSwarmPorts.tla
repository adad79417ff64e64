---------------------------- MODULE MCSwarmPorts ----------------------------
(* Small instances of SwarmPorts for TLC.                                  *)
EXTENDS SwarmPorts

(* Ports of which one begins with another, and one with a leading zero.    *)
Texts == {<<1>>, <<1, 2>>, <<2>>, <<0, 1>>}

Tcp(p) == [proto |-> "tcp", port |-> p]
Udp(p) == [proto |-> "udp", port |-> p]
Other  == [proto |-> "other", port |-> <<>>]

Addresses ==
  {<<Other, Tcp(p)>> : p \in Texts} \cup {<<Other, Udp(p), Other>> : p \in Texts}
  \cup {<<Tcp(p), Udp(q)>> : p, q \in Texts} \cup {<<Tcp(p), Tcp(q)>> : p, q \in Texts}

MCLists == {<<>>} \cup {<<a>> : a \in Addresses} \cup {<<a, b>> : a, b \in Addresses}

(* The last one is out of range.                                           *)
MCPorts == {<<1>>, <<1, 2>>, <<2, 1>>, <<1, 1, 2>>}
=============================================================================
