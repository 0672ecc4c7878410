----------------------------- MODULE MCOutbound -----------------------------
(* Instances of Outbound: sends with the same text, over one process or two. *)
EXTENDS Outbound

MCEventOf == [s \in Sends |-> IF s = "s1" THEN "e1" ELSE "e2"]
MCOwn     == [s \in Sends |-> IF s = "s1" THEN "m1" ELSE "m2"]
OneRoom   == [s \in Sends |-> "r1"]
SameText  == [x \in Sends \cup Remotes |-> "hi"]
AllSets   == SUBSET Remotes
OneHost   == [t \in Threads |-> "p1"]
TwoHosts  == [t \in Threads |-> IF t = "h1" THEN "p1" ELSE "p2"]
=============================================================================
