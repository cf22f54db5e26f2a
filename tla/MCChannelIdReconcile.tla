------------------------ MODULE MCChannelIdReconcile ------------------------
(* Instance of ChannelIdReconcile for TLC: two cell servers, two channel *)
(* names, and a 2-bit rnd field so that the router's four IDs can run    *)
(* out and the random start can land on a taken one.                     *)
EXTENDS ChannelIdReconcile

CONSTANTS s1, s2, n1, n2

MCServers == {s1, s2}
MCNames == {n1, n2}

====
