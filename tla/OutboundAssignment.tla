-------------------------- MODULE OutboundAssignment --------------------------
(***************************************************************************)
(* Which message is the echo of which send.  An edge <<send, message>> says *)
(* that the message may be the send's.  A match is forced when every largest *)
(* assignment contains it (forcedOutboundCandidateMatches in outbound.go).  *)
(***************************************************************************)
EXTENDS Naturals, FiniteSets

Matchings(E) == {M \in SUBSET E : \A e, f \in M : e[1] = f[1] \/ e[2] = f[2] => e = f}
Largest(E)   == {M \in Matchings(E) : \A N \in Matchings(E) : Cardinality(N) <= Cardinality(M)}
Forced(E)    == {e \in E : \A M \in Largest(E) : e \in M}
=============================================================================
