--------------------------- MODULE MCClientFailover ---------------------------
(***************************************************************************)
(* Small instances of ClientFailover for TLC.                              *)
(***************************************************************************)
EXTENDS ClientFailover

MCServers == {"s1", "s2"}
MCDefaultUrls == <<"s1", "s2">>
\* The first server routes the number to the second, which has lost the first.
MCRoutes == [s \in MCServers |-> IF s = "s1" THEN {<<"s2", "s1">>} ELSE {<<"s2">>}]
MCListings == {<<"s1", "s2">>}
MCReference == [o \in {"referenced", "plain"} |-> IF o = "plain" THEN "none" ELSE "ref"]
=============================================================================
