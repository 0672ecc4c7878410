-------------------------- MODULE MCOutboundStore --------------------------
(* Three sends over the outbox: s1 and s2 are two logins that relay one    *)
(* Matrix event, s3 is another message of s1's conversation.               *)
EXTENDS OutboundStore

EventOfSend == [s \in Sends |-> IF s = "s3" THEN "e2" ELSE "e1"]
OneRoom     == [s \in Sends |-> "room"]
=============================================================================
