-------------------------- MODULE MCOutboundMatching --------------------------
(***************************************************************************)
(* An instance of OutboundMatching for TLC: every order of the candidates  *)
(* of three sends and two messages, or two sends and three messages; every *)
(* graph of three and three; and, with one order each, every set of        *)
(* unverified relations of three sends and two messages.                   *)
(***************************************************************************)
EXTENDS OutboundMatching, SequencesExt

Lists(M)  == SetToAllKPermutations(M)
Sorted(M) == {SetToSortSeq(S, <) : S \in SUBSET M}
Known(L)  == [sets : L, unknown : {{}}]
Partly(s) == {[sets |-> s, unknown |-> u] : u \in SUBSET {e \in (DOMAIN s) \X (1..2) : e[2] \notin ToSet(s[e[1]])}}

MCInputs == Known([1..3 -> Lists(1..2)]) \cup Known([1..2 -> Lists(1..3)])
              \cup Known([1..3 -> Sorted(1..3)]) \cup UNION {Partly(s) : s \in [1..3 -> Sorted(1..2)]}
=============================================================================
