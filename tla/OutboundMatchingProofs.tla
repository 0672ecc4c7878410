------------------------ MODULE OutboundMatchingProofs ------------------------
(***************************************************************************)
(* The matching of candidates, proved for any sends, messages, candidate   *)
(* lists and unverified relations.                                         *)
(*                                                                         *)
(* The argument has three parts.  What is forced: one largest matching is  *)
(* enough to find every forced edge (ForcedByRemoval), and edges that have *)
(* no send and no message in common with others do not matter to them      *)
(* (ForcedApart).  The search: while it looks for a message for one send   *)
(* after the other, it keeps a set of sends that have no candidates but    *)
(* the messages of the set itself (Exhausted); at its end only sends of    *)
(* that set are left out, and no matching is larger (SearchFindsLargest).  *)
(* The result: a test of an edge is a search, and the blockade is closed   *)
(* when the first search begins (ResultInv).                               *)
(***************************************************************************)
EXTENDS OutboundMatching, FiniteSetTheorems, WellFoundedInduction, TLAPS

-----------------------------------------------------------------------------
(* What is forced. *)

(* A subset of a matching is a matching, also of fewer edges.              *)
LEMMA SubMatching ==
  ASSUME NEW E, NEW M \in Matchings(E), NEW D, NEW N, N \subseteq M, N \subseteq D
  PROVE  N \in Matchings(D)
BY DEF Matchings

LEMMA MatchingFinite ==
  ASSUME NEW E, IsFiniteSet(E), NEW M \in Matchings(E)
  PROVE  IsFiniteSet(M) /\ Cardinality(M) \in Nat /\ M \subseteq E /\ Cardinality(M) <= Cardinality(E)
<1>1. M \in SUBSET E
  BY DEF Matchings
<1>2. QED
  BY <1>1, FS_Subset, FS_CardinalityType

(* Finitely many edges have a largest matching.                            *)
LEMMA LargestExists ==
  ASSUME NEW E, IsFiniteSet(E)
  PROVE  \E M \in Matchings(E) : M \in Largest(E)
<1> DEFINE Left == {n \in Nat : \E M \in Matchings(E) : n = Cardinality(E) - Cardinality(M)}
           Less == OpToRel(<, Nat)
<1>1. {} \in Matchings(E)
  BY DEF Matchings
<1>2. Cardinality(E) \in Nat
  BY FS_CardinalityType
<1>3. \A M \in Matchings(E) : Cardinality(M) \in Nat /\ Cardinality(M) <= Cardinality(E)
  BY MatchingFinite
<1>4. Left # {} /\ Left \subseteq Nat
  <2>1. Cardinality(E) - Cardinality({}) \in Nat
    BY <1>1, <1>2, <1>3
  <2>2. QED
    BY <1>1, <2>1
<1>5. \E n \in Left : \A k \in Left : ~ (<<k, n>> \in Less)
  <2> HIDE DEF Left, Less
  <2> IsWellFoundedOn(Less, Nat)
    BY NatLessThanWellFounded DEF Less
  <2> QED
    BY <1>4, WFMin
<1>6. PICK n \in Left : \A k \in Left : ~ (k < n)
  BY <1>4, <1>5 DEF OpToRel
<1>7. PICK M \in Matchings(E) : n = Cardinality(E) - Cardinality(M)
  BY <1>6
<1>8. ASSUME NEW N \in Matchings(E) PROVE Cardinality(N) <= Cardinality(M)
  <2>1. Cardinality(E) - Cardinality(N) \in Left
    BY <1>2, <1>3
  <2>2. ~ (Cardinality(E) - Cardinality(N) < n)
    BY <1>6, <2>1
  <2>3. QED
    BY <1>2, <1>3, <1>7, <2>2
<1>9. QED
  BY <1>7, <1>8 DEF Largest

(* Matchings of edges that have no send and no message in common are a     *)
(* matching together, and as large as both.                                *)
LEMMA Together ==
  ASSUME NEW D, NEW E, IsFiniteSet(D), IsFiniteSet(E),
         \A d \in D, e \in E : d[1] # e[1] /\ d[2] # e[2],
         NEW M \in Matchings(D), NEW N \in Matchings(E)
  PROVE  /\ M \cup N \in Matchings(D \cup E)
         /\ Cardinality(M \cup N) = Cardinality(M) + Cardinality(N)
<1>1. M \subseteq D /\ N \subseteq E
  BY DEF Matchings
<1>2. M \cap N = {}
  BY <1>1
<1>3. M \cup N \in Matchings(D \cup E)
  BY <1>1 DEF Matchings
<1>4. IsFiniteSet(M) /\ IsFiniteSet(N) /\ Cardinality(M) \in Nat /\ Cardinality(N) \in Nat
  BY MatchingFinite
<1>5. Cardinality(M \cup N) = Cardinality(M) + Cardinality(N) - Cardinality(M \cap N)
  BY <1>4, FS_Union
<1>6. QED
  BY <1>2, <1>3, <1>4, <1>5, FS_EmptySet

(* A largest matching of both is a largest one of each, and the other way round. *)
LEMMA LargestApart ==
  ASSUME NEW D, NEW E, IsFiniteSet(D), IsFiniteSet(E),
         \A d \in D, e \in E : d[1] # e[1] /\ d[2] # e[2],
         NEW M \in Largest(D \cup E), NEW L \in Largest(D)
  PROVE  M \cap D \in Largest(D) /\ L \cup (M \cap E) \in Largest(D \cup E)
<1>1. /\ M \in Matchings(D \cup E) /\ M \subseteq D \cup E
      /\ \A N \in Matchings(D \cup E) : Cardinality(N) <= Cardinality(M)
      /\ L \in Matchings(D) /\ \A N \in Matchings(D) : Cardinality(N) <= Cardinality(L)
  BY DEF Largest, Matchings
<1>2. M \cap D \in Matchings(D) /\ M \cap E \in Matchings(E)
  BY <1>1, SubMatching
<1>3. (M \cap D) \cup (M \cap E) = M
  BY <1>1
<1>4. Cardinality(M) = Cardinality(M \cap D) + Cardinality(M \cap E)
  <2>1. /\ (M \cap D) \cup (M \cap E) \in Matchings(D \cup E)
        /\ Cardinality((M \cap D) \cup (M \cap E)) = Cardinality(M \cap D) + Cardinality(M \cap E)
    BY <1>2, Together
  <2>2. QED
    BY <1>3, <2>1
<1>5. /\ L \cup (M \cap E) \in Matchings(D \cup E)
      /\ Cardinality(L \cup (M \cap E)) = Cardinality(L) + Cardinality(M \cap E)
  BY <1>1, <1>2, Together
<1>6. /\ Cardinality(L) \in Nat /\ Cardinality(M \cap D) \in Nat /\ Cardinality(M \cap E) \in Nat
  BY <1>1, <1>2, MatchingFinite
<1>7. Cardinality(L \cup (M \cap E)) <= Cardinality(M) /\ Cardinality(M \cap D) <= Cardinality(L)
  BY <1>1, <1>2, <1>5
<1>8. Cardinality(M \cap D) = Cardinality(L) /\ Cardinality(L \cup (M \cap E)) = Cardinality(M)
  BY <1>4, <1>5, <1>6, <1>7
<1>9. QED
  BY <1>1, <1>2, <1>5, <1>8 DEF Largest

(* What is forced is not changed by edges elsewhere.                       *)
LEMMA ForcedApart ==
  ASSUME NEW D, NEW E, IsFiniteSet(D), IsFiniteSet(E),
         \A d \in D, e \in E : d[1] # e[1] /\ d[2] # e[2]
  PROVE  Forced(D \cup E) \cap D = Forced(D)
<1>1. IsFiniteSet(D \cup E)
  BY FS_Union
<1>2. PICK M : M \in Largest(D \cup E)
  BY <1>1, LargestExists
<1>3. PICK L : L \in Largest(D)
  BY LargestExists
<1>4. ASSUME NEW e \in Forced(D \cup E), e \in D, NEW K \in Largest(D) PROVE e \in K
  <2>1. K \cup (M \cap E) \in Largest(D \cup E)
    BY <1>2, LargestApart
  <2>2. e \in K \cup (M \cap E)
    BY <2>1 DEF Forced
  <2>3. e \notin E
    BY <1>4
  <2>4. QED
    BY <2>2, <2>3
<1>5. ASSUME NEW e \in Forced(D), NEW K \in Largest(D \cup E) PROVE e \in K
  <2>1. K \cap D \in Largest(D)
    BY <1>3, LargestApart
  <2>2. QED
    BY <2>1 DEF Forced
<1>6. QED
  BY <1>4, <1>5 DEF Forced

(* A match is forced if the matching becomes smaller without it; one       *)
(* largest matching is enough to find them all                             *)
(* (forcedOutboundCandidateMatches).                                       *)
LEMMA ForcedByRemoval ==
  ASSUME NEW E, IsFiniteSet(E), NEW B \in Largest(E)
  PROVE  Forced(E) = {e \in B : \A N \in Matchings(E \ {e}) : Cardinality(N) < Cardinality(B)}
<1>1. B \in Matchings(E) /\ B \subseteq E /\ \A N \in Matchings(E) : Cardinality(N) <= Cardinality(B)
  BY DEF Largest, Matchings
<1>2. \A N \in Matchings(E) : Cardinality(N) \in Nat
  BY MatchingFinite
<1>3. \A e : \A N \in Matchings(E \ {e}) : N \in Matchings(E) /\ e \notin N
  BY DEF Matchings
<1>4. ASSUME NEW e \in Forced(E), NEW N \in Matchings(E \ {e}) PROVE Cardinality(N) < Cardinality(B)
  <2>1. N \in Matchings(E) /\ e \notin N
    BY <1>3
  <2>2. Cardinality(N) # Cardinality(B)
    <3> SUFFICES ASSUME Cardinality(N) = Cardinality(B) PROVE FALSE
      OBVIOUS
    <3>1. N \in Largest(E)
      BY <1>1, <2>1 DEF Largest
    <3>2. QED
      BY <2>1, <3>1 DEF Forced
  <2>3. QED
    BY <1>1, <1>2, <2>1, <2>2
<1>5. ASSUME NEW e \in B, \A N \in Matchings(E \ {e}) : Cardinality(N) < Cardinality(B), NEW M \in Largest(E)
      PROVE  e \in M
  <2> SUFFICES ASSUME e \notin M PROVE FALSE
    OBVIOUS
  <2>1. M \in Matchings(E) /\ Cardinality(B) <= Cardinality(M)
    BY <1>1 DEF Largest
  <2>2. M \in Matchings(E \ {e})
    BY <2>1 DEF Matchings
  <2>3. QED
    BY <1>1, <1>2, <1>5, <2>1, <2>2
<1>6. QED
  BY <1>1, <1>4, <1>5 DEF Forced

-----------------------------------------------------------------------------
(* The inductive invariant. *)

Graph   == Eligible \ {without}
Asking  == 1..(IF found THEN Len(calls) ELSE Len(calls) - 1)
Edge(c) == <<c.send, Wanted(c)>>

Typed ==
  /\ sets \in Seq(Seq(Messages)) /\ unknown \subseteq sends \X messages
  /\ sends \subseteq All /\ messages \subseteq Messages
  /\ phase \in {"spread", "search", "test"}
  /\ next \in 1..(Len(sets) + 1) /\ (next \in All \/ calls = << >>)
  /\ calls \in Seq([send : All, at : Nat \ {0}])
  /\ found \in BOOLEAN /\ visited \subseteq Messages
  /\ owner \in [Messages -> 0..Len(sets)] /\ size \in Nat
  /\ base \subseteq Eligible /\ todo \subseteq base /\ forced \subseteq base

(* Every call but the innermost waits for the send that has the message it *)
(* wants; no message is asked for twice.                                   *)
Waiting ==
  /\ calls = << >> => ~found
  /\ calls # << >> => calls[1].send = next
  /\ \A j \in Asking : Edge(calls[j]) \in Graph /\ Wanted(calls[j]) \in visited
  /\ \A j, k \in Asking : Wanted(calls[j]) = Wanted(calls[k]) => j = k
  /\ \A j \in 1..(Len(calls) - 1) : owner[Wanted(calls[j])] = calls[j + 1].send

(* A send has one message, but for the one that has just found another and *)
(* whose old one is taken over next.                                       *)
Loose == IF found THEN {Wanted(Top)} ELSE {}

Matched ==
  /\ \A m \in Messages : owner[m] # 0 => owner[m] < next /\ <<owner[m], m>> \in Graph
  /\ \A m, n \in Messages \ Loose : owner[m] = owner[n] /\ owner[m] # 0 => m = n
  /\ \A m \in Loose : owner[m] # 0 /\ \E n \in Messages \ {m} : owner[n] = owner[m]
  /\ Cardinality(Pairs) = size + Cardinality(Loose)

(* What the search has tried without success leads to visited messages.    *)
Behind(c) == \A k \in 1..(c.at - 1) : k \in DOMAIN List(c.send) /\
               <<c.send, List(c.send)[k]>> \in Graph => List(c.send)[k] \in visited

Tried ==
  ~found /\ calls # << >> =>
    /\ \A j \in DOMAIN calls : Behind(calls[j])
    /\ \A m \in visited : /\ owner[m] # 0
                          /\ \/ \E j \in DOMAIN calls : calls[j].send = owner[m]
                             \/ \A e \in Graph : e[1] = owner[m] => e[2] \in visited

(* The sends in A have candidates in B only, and B is taken by them: so no *)
(* matching is larger than one that leaves out only sends of A.            *)
Exhausted(A, B) ==
  /\ \A e \in Graph : e[1] \in A => e[2] \in B
  /\ \A m \in B : owner[m] \in A
  /\ \A i \in All : i < next => i \in A \/ \E m \in Messages : owner[m] = i
  /\ \A m \in Loose : owner[m] \notin A

SearchInv ==
  phase = "search" =>
    Waiting /\ Matched /\ Tried /\ \E A \in SUBSET All, B \in SUBSET Messages : Exhausted(A, B)

(* What was tested, and what the tests said.                               *)
Smaller(e) == \A N \in Matchings(Eligible \ {e}) : Cardinality(N) < Cardinality(base)
Testing    == phase = "test" \/ (phase = "search" /\ without # NoEdge)

ResultInv ==
  /\ phase # "spread" => Unequal = {}
  /\ ~Testing => base = {}
  /\ Testing => base \in Largest(Eligible) /\ forced = {e \in base \ todo : Smaller(e)}
  /\ phase = "search" => without \in todo \cup {NoEdge}

IInv == Typed /\ SearchInv /\ ResultInv

Frames == [send : All, at : Nat \ {0}]

-----------------------------------------------------------------------------
(* What the operators of a search return. *)

LEMMA SetsOK ==
  ASSUME Typed
  PROVE  /\ Len(sets) \in Nat /\ All = 1..Len(sets)
         /\ \A i \in All : sets[i] \in Seq(Messages) /\ List(i) \in Seq(Messages)
BY DEF Typed, All, List

LEMMA EdgesFinite ==
  ASSUME Typed
  PROVE  IsFiniteSet(Edges) /\ IsFiniteSet(Eligible) /\ IsFiniteSet(Graph)
<1>1. IsFiniteSet(All)
  BY SetsOK, FS_Interval
<1>2. IsFiniteSet(All \X Messages)
  BY <1>1, MatchingAssumption, FS_Product
<1>3. Edges \in SUBSET (All \X Messages) /\ Eligible \in SUBSET (All \X Messages) /\ Graph \in SUBSET (All \X Messages)
  BY DEF Edges, Eligible, Graph
<1>4. QED
  BY <1>2, <1>3, FS_Subset

(* The candidates in the lists are the eligible edges.                     *)
LEMMA Candidates ==
  ASSUME Typed, NEW i \in All
  PROVE  /\ \A k \in DOMAIN List(i) : List(i)[k] \in Messages /\ <<i, List(i)[k]>> \in Eligible
         /\ \A e \in Graph : e[1] = i => e[2] \in Messages /\ \E k \in DOMAIN List(i) : List(i)[k] = e[2]
<1>1. sets[i] \in Seq(Messages)
  BY SetsOK
<1>2. ASSUME NEW k \in DOMAIN List(i) PROVE List(i)[k] \in Messages /\ <<i, List(i)[k]>> \in Eligible
  <2>1. i \notin sends /\ List(i) = sets[i]
    BY <1>2 DEF List
  <2>2. k \in DOMAIN sets[i] /\ sets[i][k] \in Messages
    BY <1>1, <1>2, <2>1
  <2>3. QED
    BY <2>1, <2>2 DEF Eligible, Edges
<1>3. ASSUME NEW e \in Graph, e[1] = i PROVE e[2] \in Messages /\ \E k \in DOMAIN List(i) : List(i)[k] = e[2]
  BY <1>3 DEF Graph, Eligible, Edges, List
<1>4. QED
  BY <1>2, <1>3

LEMMA CallsOK ==
  ASSUME Typed, calls # << >>
  PROVE  /\ Len(calls) \in Nat \ {0} /\ DOMAIN calls = 1..Len(calls)
         /\ \A j \in DOMAIN calls : calls[j] \in Frames
         /\ Top = calls[Len(calls)] /\ Top \in Frames
         /\ Outer \in Seq(Frames) /\ Len(Outer) = Len(calls) - 1
         /\ DOMAIN Outer = 1..(Len(calls) - 1) /\ \A j \in DOMAIN Outer : Outer[j] = calls[j]
<1>1. calls \in Seq(Frames)
  BY DEF Typed, Frames
<1>2. Len(calls) \in Nat \ {0} /\ DOMAIN calls = 1..Len(calls) /\ \A j \in DOMAIN calls : calls[j] \in Frames
  BY <1>1
<1>3. Outer \in Seq(Frames) /\ Len(Outer) = Len(calls) - 1 /\ \A j \in 1..(Len(calls) - 1) : Outer[j] = calls[j]
  BY <1>1, <1>2 DEF Outer
<1>4. DOMAIN Outer = 1..(Len(calls) - 1)
  BY <1>3
<1>5. QED
  BY <1>2, <1>3, <1>4 DEF Top

(* A step of a search changes neither the lists nor the results.           *)
LEMMA SameGraph ==
  ASSUME Searching
  PROVE  /\ All' = All /\ Edges' = Edges /\ Eligible' = Eligible /\ Graph' = Graph
         /\ \A i : List(i)' = List(i)
         /\ phase = "search" /\ phase' = "search"
         /\ ResultInv => ResultInv'
BY DEF Searching, All, Edges, Eligible, Graph, List, inputVars, blockVars, resultVars,
       ResultInv, Testing, Unequal, Smaller

(* What a call tries is an edge of the graph unless it is left out.        *)
LEMMA WantedOK ==
  ASSUME Typed, Trying
  PROVE  /\ Top.send \in All /\ Top.at \in DOMAIN List(Top.send) /\ Wanted(Top) \in Messages
         /\ Edge(Top) # without => Edge(Top) \in Graph
<1>1. Top \in Frames /\ calls # << >>
  BY CallsOK DEF Trying
<1>2. Top.send \in All /\ Top.at \in Nat \ {0}
  BY <1>1 DEF Frames
<1>3. Top.at \in DOMAIN List(Top.send)
  <2>1. List(Top.send) \in Seq(Messages)
    BY <1>2, SetsOK
  <2>2. QED
    BY <1>2, <2>1 DEF Trying
<1>4. Wanted(Top) \in Messages /\ Edge(Top) \in Eligible
  BY <1>2, <1>3, Candidates DEF Wanted, Edge
<1>5. QED
  BY <1>2, <1>3, <1>4 DEF Graph

-----------------------------------------------------------------------------
(* The size of the matching. *)

LEMMA PairsFinite ==
  ASSUME Typed
  PROVE  IsFiniteSet(Pairs) /\ Cardinality(Pairs) \in Nat
<1>1. IsFiniteSet(All \X Messages)
  <2>1. IsFiniteSet(All)
    BY SetsOK, FS_Interval
  <2>2. QED
    BY <2>1, MatchingAssumption, FS_Product
<1>2. Pairs \in SUBSET (All \X Messages)
  BY DEF Pairs
<1>3. QED
  BY <1>1, <1>2, FS_Subset, FS_CardinalityType

(* A message that had no send gets one.                                    *)
LEMMA PairAdded ==
  ASSUME Typed, NEW m \in Messages, NEW i \in All, owner[m] = 0,
         All' = All, owner' = [owner EXCEPT ![m] = i]
  PROVE  Cardinality(Pairs') = Cardinality(Pairs) + 1
<1>1. Pairs' = Pairs \cup {<<i, m>>}
  <2>1. \A n \in Messages : owner'[n] = IF n = m THEN i ELSE owner[n]
    BY DEF Typed
  <2>2. 0 \notin All
    BY SetsOK
  <2>3. QED
    BY <2>1, <2>2 DEF Pairs
<1>2. <<i, m>> \notin Pairs
  <2>1. 0 \notin All
    BY SetsOK
  <2>2. QED
    BY <2>1 DEF Pairs
<1>3. QED
  BY <1>1, <1>2, PairsFinite, FS_AddElement

(* A message goes from one send to another.                                *)
LEMMA PairMoved ==
  ASSUME Typed, NEW m \in Messages, NEW i \in All, owner[m] \in All,
         All' = All, owner' = [owner EXCEPT ![m] = i]
  PROVE  Cardinality(Pairs') = Cardinality(Pairs)
<1> DEFINE Rest == Pairs \ {<<owner[m], m>>}
<1>1. \A n \in Messages : owner'[n] = IF n = m THEN i ELSE owner[n]
  BY DEF Typed
<1>2. Pairs' = Rest \cup {<<i, m>>}
  BY <1>1 DEF Pairs
<1>3. <<owner[m], m>> \in Pairs /\ <<i, m>> \notin Rest
  BY DEF Pairs
<1>4. IsFiniteSet(Rest) /\ Cardinality(Rest) = Cardinality(Pairs) - 1
  BY <1>3, PairsFinite, FS_RemoveElement
<1>5. Cardinality(Rest \cup {<<i, m>>}) = Cardinality(Rest) + 1
  BY <1>3, <1>4, FS_AddElement
<1>6. QED
  BY <1>2, <1>4, <1>5, PairsFinite

-----------------------------------------------------------------------------
(* The steps of a search. *)

Searches == Typed /\ SearchInv

(* The wants of the calls after a step, said of the calls before it.       *)
LEMMA SameWants ==
  ASSUME Searching
  PROVE  \A j : Wanted(calls[j])' = Wanted(calls'[j]) /\ Edge(calls[j])' = Edge(calls'[j])
BY DEF Searching, Wanted, Edge, List, inputVars, blockVars

LEMMA SameBehind ==
  ASSUME Searching, visited \subseteq visited', NEW j, NEW k, calls'[j] = calls[k], Behind(calls[k])
  PROVE  Behind(calls[j])'
BY DEF Searching, Behind, Graph, Eligible, Edges, All, List, inputVars, blockVars

LEMMA CallKeeps ==
  ASSUME Searches, Call
  PROVE  Searches'
<1> USE DEF Searches
<1>1. /\ Searching /\ calls = << >> /\ next \in All /\ phase = "search" /\ ~found
      /\ calls' = <<[send |-> next, at |-> 1]>> /\ visited' = {}
      /\ next' = next /\ found' = found /\ owner' = owner /\ size' = size
  BY DEF Call, Searching, SearchInv, Waiting
<1>2. Typed'
  <2>1. Typed /\ All' = All /\ Eligible' = Eligible
    BY <1>1, SameGraph
  <2>2. calls' \in Seq([send : All, at : Nat \ {0}])
    BY <1>1
  <2>3. QED
    BY <1>1, <2>1, <2>2 DEF Typed, Searching, inputVars, blockVars, resultVars
<1>3. Len(calls') = 1 /\ calls'[1] = [send |-> next, at |-> 1] /\ DOMAIN calls' = {1}
  BY <1>1
<1>4. Waiting'
  BY <1>1, <1>3 DEF Waiting, Asking
<1>5. Loose = {} /\ Loose' = {} /\ Pairs' = Pairs /\ Graph' = Graph /\ All' = All
  BY <1>1, SameGraph DEF Loose, Pairs
<1>6. Matched'
  BY <1>1, <1>5 DEF SearchInv, Matched
<1>7. Tried'
  BY <1>1, <1>3 DEF Tried, Behind
<1>8. ASSUME NEW A \in SUBSET All, NEW B \in SUBSET Messages, Exhausted(A, B) PROVE Exhausted(A, B)'
  BY <1>1, <1>5, <1>8 DEF Exhausted
<1>9. QED
  BY <1>1, <1>2, <1>4, <1>5, <1>6, <1>7, <1>8 DEF SearchInv

LEMMA SkipKeeps ==
  ASSUME Searches, Skip
  PROVE  Searches'
<1> USE DEF Searches
<1>1. /\ Searching /\ calls # << >> /\ ~found /\ Skipped /\ Trying /\ calls' = Onward
      /\ visited' = visited /\ next' = next /\ found' = found /\ owner' = owner /\ size' = size
      /\ phase = "search"
  BY DEF Skip, Searching, Trying
<1>2. /\ Len(calls) \in Nat \ {0} /\ DOMAIN calls = 1..Len(calls)
      /\ \A j \in DOMAIN calls : calls[j] \in Frames
  BY <1>1, CallsOK
<1>3. /\ calls' \in Seq(Frames) /\ Len(calls') = Len(calls) /\ DOMAIN calls' = DOMAIN calls
      /\ \A j \in DOMAIN calls : calls'[j].send = calls[j].send
      /\ \A j \in 1..(Len(calls) - 1) : calls'[j] = calls[j]
      /\ calls'[Len(calls)].at = calls[Len(calls)].at + 1
  <2>1. calls \in Seq(Frames)
    BY DEF Typed, Frames
  <2>2. QED
    BY <1>1, <1>2, <2>1 DEF Onward, Frames
<1>4. Typed'
  <2>1. Typed /\ All' = All /\ Eligible' = Eligible
    BY <1>1, SameGraph
  <2>2. calls' \in Seq([send : All, at : Nat \ {0}])
    BY <1>3 DEF Frames
  <2>3. next \in All
    BY <1>1 DEF Typed
  <2>4. QED
    BY <1>1, <2>1, <2>2, <2>3 DEF Typed, Searching, inputVars, blockVars, resultVars
<1>5. /\ \A j \in 1..(Len(calls) - 1) : Wanted(calls[j])' = Wanted(calls[j]) /\ Edge(calls[j])' = Edge(calls[j])
      /\ Asking = 1..(Len(calls) - 1) /\ Asking' = Asking /\ Graph' = Graph /\ All' = All
      /\ \A i : List(i)' = List(i)
      /\ Loose = {} /\ Loose' = {} /\ Pairs' = Pairs
  BY <1>1, <1>2, <1>3, SameGraph, SameWants DEF Asking, Loose, Pairs
<1>6. Waiting'
  <2>1. calls'[1].send = next /\ calls' # << >>
    BY <1>1, <1>2, <1>3 DEF SearchInv, Waiting
  <2>2. QED
    BY <1>1, <1>2, <1>3, <1>5, <2>1 DEF SearchInv, Waiting
<1>7. Matched'
  BY <1>1, <1>5 DEF SearchInv, Matched
<1>8. Tried'
  <2>1. ASSUME NEW j \in DOMAIN calls PROVE Behind(calls[j])'
    <3>1. Behind(calls[j])
      BY <1>1 DEF SearchInv, Tried
    <3>2. CASE j # Len(calls)
      BY <1>1, <1>2, <1>3, <3>1, <3>2, SameBehind
    <3>3. CASE j = Len(calls)
      <4>1. calls[j] = Top /\ Top.at \in Nat
        BY <1>2, <3>3 DEF Top, Frames
      <4>2. Edge(Top) \in Graph => Wanted(Top) \in visited
        BY <1>1 DEF Skipped, Edge, Graph
      <4>3. QED
        BY <1>1, <1>3, <1>5, <3>1, <3>3, <4>1, <4>2 DEF Behind, Edge, Wanted
    <3>4. QED
      BY <3>2, <3>3
  <2>2. QED
    BY <1>1, <1>3, <1>5, <2>1 DEF SearchInv, Tried
<1>9. ASSUME NEW A \in SUBSET All, NEW B \in SUBSET Messages, Exhausted(A, B) PROVE Exhausted(A, B)'
  BY <1>1, <1>5, <1>9 DEF Exhausted
<1>10. QED
  BY <1>1, <1>4, <1>5, <1>6, <1>7, <1>8, <1>9 DEF SearchInv

LEMMA AskKeeps ==
  ASSUME Searches, Ask
  PROVE  Searches'
<1> USE DEF Searches
<1> DEFINE m == Wanted(Top)
           n == Len(calls)
<1>1. /\ Searching /\ calls # << >> /\ ~found /\ ~Skipped /\ Trying /\ owner[m] # 0
      /\ calls' = Append(calls, [send |-> owner[m], at |-> 1])
      /\ visited' = visited \cup {m} /\ next' = next /\ found' = found /\ owner' = owner /\ size' = size
      /\ phase = "search"
  BY DEF Ask, Searching, Trying
<1>2. /\ n \in Nat \ {0} /\ DOMAIN calls = 1..n
      /\ \A j \in DOMAIN calls : calls[j] \in Frames
      /\ Top = calls[n]
  BY <1>1, CallsOK
<1>3. /\ m \in Messages /\ Edge(Top) \in Graph /\ m \notin visited /\ owner[m] \in All
  <2>1. m \in Messages /\ (Edge(Top) # without => Edge(Top) \in Graph) /\ Edge(Top) = <<Top.send, m>>
    BY <1>1, WantedOK DEF Edge
  <2>2. owner[m] \in All
    <3> HIDE DEF m
    <3>1. owner[m] \in 0..Len(sets)
      BY <2>1 DEF Typed
    <3>2. QED
      BY <1>1, <3>1, SetsOK
  <2>3. QED
    BY <1>1, <2>1, <2>2 DEF Skipped
<1> HIDE DEF m, n
<1>4. /\ calls' \in Seq(Frames) /\ Len(calls') = n + 1 /\ DOMAIN calls' = 1..(n + 1)
      /\ \A j \in 1..n : calls'[j] = calls[j]
      /\ calls'[n + 1] = [send |-> owner[m], at |-> 1]
  <2>1. calls \in Seq(Frames) /\ [send |-> owner[m], at |-> 1] \in Frames
    BY <1>3 DEF Typed, Frames
  <2>2. QED
    BY <1>1, <1>2, <2>1 DEF n
<1>5. Typed'
  <2>1. Typed /\ All' = All /\ Eligible' = Eligible
    BY <1>1, SameGraph
  <2>2. calls' \in Seq([send : All, at : Nat \ {0}])
    BY <1>4 DEF Frames
  <2>3. next \in All
    BY <1>1 DEF Typed
  <2>4. QED
    BY <1>1, <1>3, <2>1, <2>2, <2>3 DEF Typed, Searching, inputVars, blockVars, resultVars
<1>6. /\ \A j \in 1..n : Wanted(calls[j])' = Wanted(calls[j]) /\ Edge(calls[j])' = Edge(calls[j])
      /\ Asking = 1..(n - 1) /\ Asking' = 1..n /\ Graph' = Graph /\ All' = All
      /\ Loose = {} /\ Loose' = {} /\ Pairs' = Pairs
  BY <1>1, <1>2, <1>4, SameGraph, SameWants DEF Asking, Loose, Pairs, n
<1>7. Waiting'
  <2>1. calls'[1].send = next /\ calls' # << >>
    BY <1>1, <1>2, <1>4 DEF SearchInv, Waiting
  <2>2. Wanted(calls[n]) = m /\ Edge(calls[n]) \in Graph
    BY <1>2, <1>3 DEF m
  <2>3. ASSUME NEW j \in 1..n PROVE Edge(calls[j]) \in Graph /\ Wanted(calls[j]) \in visited \cup {m}
    BY <1>1, <1>2, <1>6, <2>2 DEF SearchInv, Waiting
  <2>4. ASSUME NEW j \in 1..n, NEW k \in 1..n, Wanted(calls[j]) = Wanted(calls[k]) PROVE j = k
    BY <1>1, <1>2, <1>3, <1>6, <2>2, <2>4 DEF SearchInv, Waiting
  <2>5. ASSUME NEW j \in 1..n PROVE owner[Wanted(calls[j])] = calls'[j + 1].send
    BY <1>1, <1>2, <1>4, <2>2 DEF SearchInv, Waiting, n
  <2>6. QED
    BY <1>1, <1>2, <1>4, <1>6, <2>1, <2>3, <2>4, <2>5 DEF Waiting
<1>8. Matched'
  BY <1>1, <1>6 DEF SearchInv, Matched
<1>9. Tried'
  <2>1. ASSUME NEW j \in 1..n PROVE Behind(calls[j])'
    BY <1>1, <1>2, <1>4, SameBehind DEF SearchInv, Tried
  <2>2. ASSUME NEW j, j = n + 1 PROVE Behind(calls[j])'
    BY <1>4, <2>2 DEF Behind
  <2>3. ASSUME NEW v \in visited
        PROVE \/ \E j \in DOMAIN calls' : calls'[j].send = owner[v]
              \/ \A e \in Graph : e[1] = owner[v] => e[2] \in visited
    BY <1>1, <1>2, <1>4 DEF SearchInv, Tried
  <2>4. \E j \in DOMAIN calls' : calls'[j].send = owner[m]
    BY <1>2, <1>4
  <2>5. \A v \in visited : owner[v] # 0
    BY <1>1 DEF SearchInv, Tried
  <2>6. \A j \in 1..(n + 1) : Behind(calls[j])'
    BY <1>2, <2>1, <2>2
  <2>7. QED
    BY <1>1, <1>4, <1>6, <2>3, <2>4, <2>5, <2>6 DEF Tried
<1>10. ASSUME NEW A \in SUBSET All, NEW B \in SUBSET Messages, Exhausted(A, B) PROVE Exhausted(A, B)'
  BY <1>1, <1>6, <1>10 DEF Exhausted
<1>11. QED
  BY <1>1, <1>5, <1>6, <1>7, <1>8, <1>9, <1>10 DEF SearchInv

(* The outermost call is the only one: the loop comes to the next send.    *)
LEMMA NextSend ==
  ASSUME Searches, calls # << >>, phase = "search"
  PROVE  /\ next \in All /\ next \in Nat /\ next # 0 /\ next + 1 \in 1..(Len(sets) + 1)
         /\ calls[1].send = next /\ \A m \in Messages : owner[m] # next
<1>1. next \in All /\ Waiting /\ Matched /\ owner \in [Messages -> 0..Len(sets)]
  BY DEF Searches, Typed, SearchInv
<1>2. next \in Nat /\ next # 0 /\ next + 1 \in 1..(Len(sets) + 1)
  BY <1>1, SetsOK DEF Searches
<1>3. ASSUME NEW m \in Messages, owner[m] = next PROVE FALSE
  <2>1. owner[m] # 0 /\ owner[m] < next
    BY <1>1, <1>2, <1>3 DEF Matched
  <2>2. ~ (next < next)
    BY <1>2
  <2>3. QED
    BY <1>3, <2>1, <2>2
<1>4. QED
  BY <1>1, <1>2, <1>3 DEF Waiting

(* A call that has returned leaves those around it as they were.           *)
LEMMA FoundReturns ==
  ASSUME Typed, calls # << >>, Return(TRUE)
  PROVE  /\ Len(calls) > 1 => found' = TRUE /\ next' = next /\ size' = size
         /\ Len(calls) = 1 => found' = FALSE /\ next' = next + 1 /\ size' = size + 1
<1>1. Len(calls) > 1 => next' = next /\ size' = size
  BY DEF Return
<1>2. ~ (Len(calls) > 1) => next' = next + 1 /\ size' = size + 1
  BY DEF Return
<1>3. Len(calls) = 1 => ~ (Len(calls) > 1)
  OBVIOUS
<1>4. found' = (TRUE /\ Len(calls) > 1)
  BY DEF Return
<1>5. QED
  BY <1>1, <1>2, <1>3, <1>4

LEMMA Returned ==
  ASSUME Searches, Searching, calls # << >>, calls' = Outer,
         Len(calls) > 1 => found' = TRUE /\ next' = next /\ size' = size,
         Len(calls) = 1 => found' = FALSE /\ next' = next + 1 /\ size' \in {size, size + 1},
         \A m \in Messages : owner'[m] \in 0..Len(sets), owner' \in [Messages -> 0..Len(sets)],
         visited' \subseteq Messages
  PROVE  /\ Typed'
         /\ Len(calls') = Len(calls) - 1 /\ DOMAIN calls' = 1..(Len(calls) - 1)
         /\ \A j \in 1..(Len(calls) - 1) : /\ calls'[j] = calls[j]
                                           /\ Wanted(calls[j])' = Wanted(calls[j])
                                           /\ Edge(calls[j])' = Edge(calls[j])
         /\ Len(calls) = 1 => calls' = << >> /\ found' = FALSE /\ next' = next + 1 /\ Loose' = {}
         /\ Len(calls) > 1 => /\ calls' # << >> /\ found' = TRUE /\ next' = next /\ size' = size
                              /\ Loose' = {Wanted(calls[Len(calls) - 1])}
<1> USE DEF Searches
<1>1. /\ Len(calls) \in Nat \ {0} /\ Outer \in Seq(Frames) /\ Len(Outer) = Len(calls) - 1
      /\ DOMAIN Outer = 1..(Len(calls) - 1) /\ \A j \in DOMAIN Outer : Outer[j] = calls[j]
  BY CallsOK
<1>2. Len(calls) = 1 => calls' = << >>
  BY <1>1
<1>3. Len(calls) > 1 => calls' # << >> /\ calls'[Len(calls')] = calls[Len(calls) - 1]
  BY <1>1
<1>4. \A j \in 1..(Len(calls) - 1) : Wanted(calls[j])' = Wanted(calls[j]) /\ Edge(calls[j])' = Edge(calls[j])
  BY <1>1, SameWants
<1>5. Loose' = IF found' THEN {Wanted(calls'[Len(calls')])} ELSE {}
  BY DEF Loose, Top, Wanted, List, Searching, inputVars, blockVars
<1>6. /\ Len(calls) = 1 => found' = FALSE /\ next' = next + 1 /\ size' \in Nat
      /\ Len(calls) > 1 => found' = TRUE /\ next' = next /\ size' = size
  <2>1. size \in Nat
    BY DEF Typed
  <2>2. QED
    BY <2>1
<1>7. Typed'
  <2>1. /\ All' = All /\ Eligible' = Eligible /\ phase = "search"
    BY SameGraph
  <2>2. calls' \in Seq([send : All, at : Nat \ {0}])
    BY <1>1 DEF Frames
  <2>3. next' \in 1..(Len(sets) + 1) /\ (next' \in All \/ calls' = << >>)
    <3>1. next \in All /\ next + 1 \in 1..(Len(sets) + 1) /\ next \in 1..(Len(sets) + 1)
      BY <2>1, NextSend DEF Typed
    <3>2. QED
      BY <1>1, <1>2, <1>6, <3>1
  <2>4. size' \in Nat /\ found' \in BOOLEAN
    <3>1. size \in Nat
      BY DEF Typed
    <3>2. CASE Len(calls) = 1
      BY <1>6, <3>1, <3>2
    <3>3. CASE Len(calls) > 1
      BY <1>6, <3>1, <3>3
    <3>4. QED
      BY <1>1, <3>2, <3>3
  <2>5. QED
    BY <2>1, <2>2, <2>3, <2>4 DEF Typed, Searching, inputVars, blockVars, resultVars
<1>8. QED
  BY <1>1, <1>2, <1>3, <1>4, <1>5, <1>6, <1>7

LEMMA TakeKeeps ==
  ASSUME Searches, Take
  PROVE  Searches'
<1> USE DEF Searches
<1> DEFINE m == Wanted(Top)
           i == Top.send
           n == Len(calls)
<1>1. /\ Searching /\ calls # << >> /\ ~found /\ ~Skipped /\ Trying /\ owner[m] = 0
      /\ visited' = visited \cup {m} /\ owner' = [owner EXCEPT ![m] = i]
      /\ calls' = Outer /\ Return(TRUE) /\ phase = "search"
  BY DEF Take, Searching, Trying
<1>2. /\ n \in Nat \ {0} /\ Top = calls[n] /\ DOMAIN calls = 1..n
  BY <1>1, CallsOK
<1>3. /\ m \in Messages /\ <<i, m>> \in Graph /\ m \notin visited /\ i \in All
  BY <1>1, WantedOK DEF Skipped, Edge
<1>4. Graph' = Graph /\ All' = All
  BY <1>1, SameGraph
<1>5. Cardinality(Pairs') = Cardinality(Pairs) + 1
  BY <1>1, <1>3, <1>4, PairAdded
<1> HIDE DEF m, i
<1>6. /\ \A x \in Messages : owner'[x] = IF x = m THEN i ELSE owner[x]
      /\ owner' \in [Messages -> 0..Len(sets)]
  <2>1. owner \in [Messages -> 0..Len(sets)]
    BY DEF Typed
  <2>2. i \in 0..Len(sets)
    BY <1>3, SetsOK
  <2>3. QED
    BY <1>1, <1>3, <2>1, <2>2
<1>7. /\ next \in All /\ next \in Nat /\ next # 0 /\ calls[1].send = next /\ \A x \in Messages : owner[x] # next
  BY <1>1, NextSend
<1>8. visited' \subseteq Messages
  BY <1>1, <1>3 DEF Typed
<1>9. /\ Typed' /\ Len(calls') = n - 1 /\ DOMAIN calls' = 1..(n - 1)
      /\ \A j \in 1..(n - 1) : /\ calls'[j] = calls[j] /\ Wanted(calls[j])' = Wanted(calls[j])
                               /\ Edge(calls[j])' = Edge(calls[j])
      /\ n = 1 => calls' = << >> /\ found' = FALSE /\ next' = next + 1 /\ Loose' = {}
      /\ n > 1 => /\ calls' # << >> /\ found' = TRUE /\ next' = next /\ size' = size
                  /\ Loose' = {Wanted(calls[n - 1])}
  BY <1>1, <1>6, <1>8, Returned, FoundReturns
<1>10. n = 1 => size' = size + 1 /\ i = next
  BY <1>1, <1>2, <1>7 DEF Return, i
<1>11. Loose = {} /\ Asking = 1..(n - 1)
  BY <1>1 DEF Loose, Asking
<1>12. Matched /\ Waiting
  BY <1>1 DEF SearchInv
<1>13. /\ \A j \in 1..(n - 1) : Wanted(calls[j]) \in visited /\ Edge(calls[j]) \in Graph /\ Wanted(calls[j]) \in Messages
       /\ n > 1 => owner[Wanted(calls[n - 1])] = i
  <2>1. \A j \in 1..(n - 1) : Wanted(calls[j]) \in visited /\ Edge(calls[j]) \in Graph
    BY <1>11, <1>12 DEF Waiting
  <2>2. n > 1 => owner[Wanted(calls[n - 1])] = calls[n].send
    BY <1>2, <1>12 DEF Waiting
  <2>3. QED
    BY <1>2, <2>1, <2>2 DEF Typed, i
<1> HIDE DEF n
<1>14. Waiting'
  <2>1. Asking' = 1..(n - 1)
    BY <1>2, <1>9 DEF Asking
  <2>2. \A j \in 1..(n - 2) : owner'[Wanted(calls[j])] = calls[j + 1].send
    BY <1>2, <1>3, <1>6, <1>12, <1>13 DEF Waiting, n
  <2>3. calls' # << >> => calls'[1].send = next'
    BY <1>2, <1>7, <1>9
  <2>4. \A j \in 1..(n - 1) : Wanted(calls[j]) \in visited' /\ Edge(calls[j]) \in Graph
    BY <1>1, <1>13
  <2>5. \A j, k \in 1..(n - 1) : Wanted(calls[j]) = Wanted(calls[k]) => j = k
    BY <1>11, <1>12 DEF Waiting
  <2>6. calls' = << >> => ~found'
    BY <1>2, <1>9
  <2>7. QED
    BY <1>2, <1>4, <1>9, <2>1, <2>2, <2>3, <2>4, <2>5, <2>6 DEF Waiting
<1>15. Matched'
  <2>1. ASSUME NEW x \in Messages, owner'[x] # 0 PROVE owner'[x] < next' /\ <<owner'[x], x>> \in Graph
    <3>1. CASE x # m
      BY <1>2, <1>6, <1>7, <1>9, <1>12, <2>1, <3>1, SetsOK DEF Matched, Typed
    <3>2. CASE x = m
      <4>1. CASE n = 1
        BY <1>3, <1>6, <1>7, <1>9, <1>10, <3>2, <4>1
      <4>2. CASE n > 1
        <5>1. owner'[x] = i /\ i # 0
          BY <1>6, <2>1, <3>2
        <5>2. Wanted(calls[n - 1]) \in Messages /\ owner[Wanted(calls[n - 1])] = i
          BY <1>2, <1>13, <4>2
        <5>3. i < next
          BY <1>12, <5>1, <5>2 DEF Matched
        <5>4. QED
          BY <1>3, <1>9, <3>2, <4>2, <5>1, <5>3
      <4>3. QED
        BY <1>2, <4>1, <4>2
    <3>3. QED
      BY <3>1, <3>2
  <2>2. ASSUME NEW x \in Messages \ Loose', NEW y \in Messages \ Loose', owner'[x] = owner'[y], owner'[x] # 0
        PROVE  x = y
    <3>1. \A z \in Messages \ Loose' : z # m => owner[z] # i
      <4>1. CASE n = 1
        BY <1>7, <1>10, <4>1
      <4>2. CASE n > 1
        <5>1. Wanted(calls[n - 1]) \in Messages /\ owner[Wanted(calls[n - 1])] = i /\ i # 0
          BY <1>2, <1>3, <1>13, <4>2, SetsOK
        <5>2. \A z \in Messages : owner[z] = i => z = Wanted(calls[n - 1])
          BY <1>11, <1>12, <5>1 DEF Matched
        <5>3. QED
          BY <1>9, <4>2, <5>2
      <4>3. QED
        BY <1>2, <4>1, <4>2
    <3>2. QED
      BY <1>6, <1>11, <1>12, <2>2, <3>1 DEF Matched
  <2>3. ASSUME NEW x \in Loose' PROVE owner'[x] # 0 /\ \E y \in Messages \ {x} : owner'[y] = owner'[x]
    <3>1. n > 1 /\ x = Wanted(calls[n - 1]) /\ x # m /\ x \in Messages
      BY <1>2, <1>3, <1>9, <1>13, <2>3
    <3>2. owner'[x] = i /\ owner'[m] = i /\ i # 0
      BY <1>3, <1>6, <1>13, <3>1, SetsOK
    <3>3. QED
      BY <1>3, <3>1, <3>2
  <2>4. Cardinality(Pairs') = size' + Cardinality(Loose')
    <3>1. Cardinality(Pairs) = size + 0 /\ size \in Nat
      BY <1>11, <1>12, FS_EmptySet DEF Matched, Typed
    <3>2. CASE n = 1
      <4>1. Cardinality(Loose') = 0
        BY <1>9, <3>2, FS_EmptySet
      <4>2. QED
        BY <1>5, <1>10, <3>1, <3>2, <4>1
    <3>3. CASE n > 1
      <4>1. Cardinality(Loose') = 1
        BY <1>9, <3>3, FS_Singleton
      <4>2. QED
        BY <1>5, <1>9, <3>1, <3>3, <4>1
    <3>4. QED
      BY <1>2, <3>2, <3>3
  <2>5. QED
    BY <1>4, <2>1, <2>2, <2>3, <2>4 DEF Matched
<1>16. Tried'
  BY <1>2, <1>9 DEF Tried
<1>17. ASSUME NEW A \in SUBSET All, NEW B \in SUBSET Messages, Exhausted(A, B) PROVE Exhausted(A, B)'
  <2>1. m \notin B /\ i \notin A
    BY <1>1, <1>3, <1>17, SetsOK DEF Exhausted
  <2>2. \A x \in B : owner'[x] \in A
    BY <1>6, <1>17, <2>1 DEF Exhausted
  <2>3. ASSUME NEW k \in All, k < next' PROVE k \in A \/ \E x \in Messages : owner'[x] = k
    <3>1. CASE k < next
      BY <1>1, <1>6, <1>17, <3>1, SetsOK DEF Exhausted
    <3>2. CASE ~(k < next)
      BY <1>2, <1>3, <1>6, <1>7, <1>9, <1>10, <2>3, <3>2, SetsOK
    <3>3. QED
      BY <3>1, <3>2
  <2>4. \A x \in Loose' : owner'[x] = i
    BY <1>2, <1>3, <1>6, <1>9, <1>13
  <2>5. QED
    BY <1>4, <1>17, <2>1, <2>2, <2>3, <2>4 DEF Exhausted
<1>18. QED
  BY <1>1, <1>4, <1>9, <1>12, <1>14, <1>15, <1>16, <1>17 DEF SearchInv

LEMMA TakeOverKeeps ==
  ASSUME Searches, TakeOver
  PROVE  Searches'
<1> USE DEF Searches
<1> DEFINE m == Wanted(Top)
           i == Top.send
           n == Len(calls)
<1>1. /\ Searching /\ calls # << >> /\ found = TRUE /\ visited' = visited
      /\ owner' = [owner EXCEPT ![m] = i]
      /\ calls' = Outer /\ Return(TRUE) /\ phase = "search"
  BY DEF TakeOver, Searching, Typed
<1>2. /\ n \in Nat \ {0} /\ Top = calls[n] /\ DOMAIN calls = 1..n
  BY <1>1, CallsOK
<1>3. Matched /\ Waiting
  BY <1>1 DEF SearchInv
<1>4. Loose = {m} /\ Asking = 1..n
  BY <1>1 DEF Loose, Asking
<1>5. /\ \A j \in 1..n : /\ Wanted(calls[j]) \in visited /\ Edge(calls[j]) \in Graph
                         /\ Wanted(calls[j]) \in Messages
      /\ \A j, k \in 1..n : Wanted(calls[j]) = Wanted(calls[k]) => j = k
  <2>1. \A j \in 1..n : Wanted(calls[j]) \in visited /\ Edge(calls[j]) \in Graph
    BY <1>3, <1>4 DEF Waiting
  <2>2. visited \subseteq Messages
    BY DEF Typed
  <2>3. QED
    BY <1>3, <1>4, <2>1, <2>2 DEF Waiting
<1>6. m \in Messages /\ <<i, m>> \in Graph /\ i \in All
  <2>1. Wanted(calls[n]) \in Messages /\ Edge(calls[n]) \in Graph
    BY <1>2, <1>5
  <2>2. \A e \in Graph : e[1] \in All
    BY DEF Graph, Eligible, Edges
  <2>3. QED
    BY <1>2, <2>1, <2>2 DEF Edge
<1>7. /\ owner[m] # 0 /\ \E y \in Messages \ {m} : owner[y] = owner[m]
      /\ owner[m] \in All
  <2>1. owner[m] # 0 /\ \E y \in Messages \ {m} : owner[y] = owner[m]
    BY <1>3, <1>4 DEF Matched
  <2> HIDE DEF m
  <2>2. owner[m] \in 0..Len(sets)
    BY <1>6 DEF Typed
  <2>3. QED
    BY <2>1, <2>2, SetsOK
<1>8. Graph' = Graph /\ All' = All
  BY <1>1, SameGraph
<1>9. Cardinality(Pairs') = Cardinality(Pairs)
  BY <1>1, <1>6, <1>7, <1>8, PairMoved
<1> HIDE DEF m, i
<1>10. /\ \A x \in Messages : owner'[x] = IF x = m THEN i ELSE owner[x]
       /\ owner' \in [Messages -> 0..Len(sets)]
  <2>1. owner \in [Messages -> 0..Len(sets)]
    BY DEF Typed
  <2>2. i \in 0..Len(sets)
    BY <1>6, SetsOK
  <2>3. QED
    BY <1>1, <1>6, <2>1, <2>2
<1>11. /\ next \in All /\ next \in Nat /\ next # 0 /\ calls[1].send = next /\ \A x \in Messages : owner[x] # next
  BY <1>1, NextSend
<1>12. visited' \subseteq Messages
  BY <1>1 DEF Typed
<1>13. /\ Typed' /\ Len(calls') = n - 1 /\ DOMAIN calls' = 1..(n - 1)
       /\ \A j \in 1..(n - 1) : /\ calls'[j] = calls[j] /\ Wanted(calls[j])' = Wanted(calls[j])
                                /\ Edge(calls[j])' = Edge(calls[j])
       /\ n = 1 => calls' = << >> /\ found' = FALSE /\ next' = next + 1 /\ Loose' = {}
       /\ n > 1 => /\ calls' # << >> /\ found' = TRUE /\ next' = next /\ size' = size
                   /\ Loose' = {Wanted(calls[n - 1])}
  BY <1>1, <1>10, <1>12, Returned, FoundReturns
<1>14. n = 1 => size' = size + 1 /\ i = next
  BY <1>1, <1>2, <1>11, FoundReturns DEF i
(* The message that the caller wants: it has the send that returns.        *)
<1>15. n > 1 => /\ Wanted(calls[n - 1]) \in Messages /\ owner[Wanted(calls[n - 1])] = i
                /\ Wanted(calls[n - 1]) # m /\ i # 0
  <2>1. n > 1 => owner[Wanted(calls[n - 1])] = calls[n].send
    BY <1>2, <1>3 DEF Waiting
  <2>2. n > 1 => Wanted(calls[n - 1]) \in Messages /\ Wanted(calls[n - 1]) # Wanted(calls[n])
    BY <1>2, <1>5
  <2>3. QED
    BY <1>2, <1>6, <2>1, <2>2, SetsOK DEF i, m
<1> HIDE DEF n
<1>16. Waiting'
  <2>1. Asking' = 1..(n - 1)
    BY <1>2, <1>13 DEF Asking
  <2>2. ASSUME NEW j \in 1..(n - 2) PROVE owner'[Wanted(calls[j])] = calls[j + 1].send
    <3>1. Wanted(calls[j]) \in Messages /\ Wanted(calls[j]) # Wanted(calls[n]) /\ Wanted(calls[n]) = m
      BY <1>2, <1>5 DEF m
    <3>2. owner[Wanted(calls[j])] = calls[j + 1].send
      BY <1>2, <1>3 DEF Waiting, n
    <3>3. QED
      BY <1>10, <3>1, <3>2
  <2>3. calls' # << >> => calls'[1].send = next'
    BY <1>2, <1>11, <1>13
  <2>4. \A j \in 1..(n - 1) : Wanted(calls[j]) \in visited' /\ Edge(calls[j]) \in Graph
    BY <1>1, <1>2, <1>5
  <2>5. \A j, k \in 1..(n - 1) : Wanted(calls[j]) = Wanted(calls[k]) => j = k
    BY <1>2, <1>5
  <2>6. calls' = << >> => ~found'
    BY <1>2, <1>13
  <2>7. QED
    BY <1>2, <1>8, <1>13, <2>1, <2>2, <2>3, <2>4, <2>5, <2>6 DEF Waiting
<1>17. Matched'
  <2>1. ASSUME NEW x \in Messages, owner'[x] # 0 PROVE owner'[x] < next' /\ <<owner'[x], x>> \in Graph
    <3>1. CASE x # m
      BY <1>2, <1>3, <1>10, <1>11, <1>13, <2>1, <3>1, SetsOK DEF Matched, Typed
    <3>2. CASE x = m
      <4>1. CASE n = 1
        BY <1>6, <1>10, <1>11, <1>13, <1>14, <3>2, <4>1
      <4>2. CASE n > 1
        <5>1. i < next
          BY <1>3, <1>15, <4>2 DEF Matched
        <5>2. QED
          BY <1>6, <1>10, <1>13, <3>2, <4>2, <5>1
      <4>3. QED
        BY <1>2, <4>1, <4>2
    <3>3. QED
      BY <3>1, <3>2
  <2>2. ASSUME NEW x \in Messages \ Loose', NEW y \in Messages \ Loose', owner'[x] = owner'[y], owner'[x] # 0
        PROVE  x = y
    <3>1. \A z \in Messages \ Loose' : z # m => owner[z] # i
      <4>1. CASE n = 1
        BY <1>11, <1>14, <4>1
      <4>2. CASE n > 1
        BY <1>3, <1>4, <1>13, <1>15, <4>2 DEF Matched
      <4>3. QED
        BY <1>2, <4>1, <4>2
    <3>2. CASE x = m \/ y = m
      BY <1>10, <2>2, <3>1, <3>2
    <3>3. CASE x # m /\ y # m
      BY <1>3, <1>4, <1>10, <2>2, <3>3 DEF Matched
    <3>4. QED
      BY <3>2, <3>3
  <2>3. ASSUME NEW x \in Loose' PROVE owner'[x] # 0 /\ \E y \in Messages \ {x} : owner'[y] = owner'[x]
    <3>1. n > 1 /\ x = Wanted(calls[n - 1]) /\ x # m /\ x \in Messages
      BY <1>2, <1>13, <1>15, <2>3
    <3>2. owner'[x] = i /\ owner'[m] = i /\ i # 0
      BY <1>6, <1>10, <1>15, <3>1
    <3>3. QED
      BY <1>6, <3>1, <3>2
  <2>4. Cardinality(Pairs') = size' + Cardinality(Loose')
    <3>1. Cardinality({m}) = 1 /\ size \in Nat
      BY FS_Singleton DEF Typed
    <3>2. Cardinality(Pairs) = size + 1
      BY <1>3, <1>4, <3>1 DEF Matched
    <3>3. CASE n = 1
      <4>1. Cardinality(Loose') = 0
        BY <1>13, <3>3, FS_EmptySet
      <4>2. QED
        BY <1>9, <1>14, <3>1, <3>2, <3>3, <4>1
    <3>4. CASE n > 1
      <4>1. Cardinality(Loose') = 1
        BY <1>13, <3>4, FS_Singleton
      <4>2. QED
        BY <1>9, <1>13, <3>2, <3>4, <4>1
    <3>5. QED
      BY <1>2, <3>3, <3>4
  <2>5. QED
    BY <1>8, <2>1, <2>2, <2>3, <2>4 DEF Matched
<1>18. Tried'
  BY <1>2, <1>13 DEF Tried
<1>19. ASSUME NEW A \in SUBSET All, NEW B \in SUBSET Messages, Exhausted(A, B) PROVE Exhausted(A, B)'
  <2>1. m \notin B /\ i \notin A
    <3>1. owner[m] \notin A
      BY <1>4, <1>19 DEF Exhausted
    <3>2. m \notin B
      BY <1>19, <3>1 DEF Exhausted
    <3>3. QED
      BY <1>6, <1>19, <3>2 DEF Exhausted
  <2>2. \A x \in B : owner'[x] \in A
    BY <1>10, <1>19, <2>1 DEF Exhausted
  <2>3. ASSUME NEW k \in All, k < next', k \notin A PROVE \E x \in Messages : owner'[x] = k
    <3>1. CASE k < next
      <4>1. PICK x \in Messages : owner[x] = k
        BY <1>19, <2>3, <3>1 DEF Exhausted
      <4>2. CASE x # m
        BY <1>10, <4>1, <4>2
      <4>3. CASE x = m
        BY <1>7, <1>10, <4>1, <4>3
      <4>4. QED
        BY <4>2, <4>3
    <3>2. CASE ~(k < next)
      BY <1>2, <1>6, <1>10, <1>11, <1>13, <1>14, <2>3, <3>2, SetsOK
    <3>3. QED
      BY <3>1, <3>2
  <2>4. \A x \in Loose' : owner'[x] = i
    BY <1>2, <1>10, <1>13, <1>15
  <2>5. QED
    BY <1>8, <1>19, <2>1, <2>2, <2>3, <2>4 DEF Exhausted
<1>20. QED
  BY <1>1, <1>8, <1>3, <1>13, <1>16, <1>17, <1>18, <1>19 DEF SearchInv

LEMMA OneFurther ==
  ASSUME NEW s \in Seq(Frames), NEW k \in DOMAIN s, NEW t, t = [s EXCEPT ![k].at = @ + 1]
  PROVE  /\ t \in Seq(Frames) /\ Len(t) = Len(s) /\ DOMAIN t = DOMAIN s
         /\ \A j \in DOMAIN s : t[j].send = s[j].send /\ (j # k => t[j] = s[j])
         /\ t[k].at = s[k].at + 1
<1> DEFINE f == [s[k] EXCEPT !.at = @ + 1]
<1>1. s[k] \in Frames
  OBVIOUS
<1>2. f \in Frames /\ f.send = s[k].send /\ f.at = s[k].at + 1
  BY <1>1 DEF Frames
<1>3. t = [s EXCEPT ![k] = f]
  OBVIOUS
<1> HIDE DEF f
<1>4. t \in Seq(Frames) /\ Len(t) = Len(s) /\ DOMAIN t = DOMAIN s
  BY <1>2, <1>3
<1>5. t[k] = f /\ \A j \in DOMAIN s : j # k => t[j] = s[j]
  BY <1>3
<1>6. QED
  BY <1>2, <1>4, <1>5

LEMMA GiveUpKeeps ==
  ASSUME Searches, GiveUp
  PROVE  Searches'
<1> USE DEF Searches
<1> DEFINE i == Top.send
           n == Len(calls)
<1>1. /\ Searching /\ calls # << >> /\ found = FALSE /\ visited' = visited /\ owner' = owner
      /\ phase = "search" /\ Return(FALSE) /\ Top.at > Len(List(i))
      /\ n > 1 => calls' = [Outer EXCEPT ![n - 1].at = @ + 1]
      /\ ~ (n > 1) => calls' = << >>
  BY DEF GiveUp, Searching, Typed
<1>2. /\ n \in Nat \ {0} /\ Top = calls[n] /\ DOMAIN calls = 1..n
      /\ \A j \in DOMAIN calls : calls[j] \in Frames
      /\ Outer \in Seq(Frames) /\ Len(Outer) = n - 1 /\ DOMAIN Outer = 1..(n - 1)
      /\ \A j \in DOMAIN Outer : Outer[j] = calls[j]
  BY <1>1, CallsOK
<1>3. Matched /\ Waiting /\ Tried
  BY <1>1 DEF SearchInv
<1>4. Loose = {} /\ Asking = 1..(n - 1) /\ Pairs' = Pairs /\ Graph' = Graph /\ All' = All
  BY <1>1, SameGraph DEF Loose, Asking, Pairs
<1>5. /\ found' = FALSE
      /\ n > 1 => next' = next /\ size' = size
      /\ ~ (n > 1) => next' = next + 1 /\ size' = size
  BY <1>1 DEF Return
<1>6. Loose' = {}
  BY <1>5 DEF Loose
<1>7. i \in All /\ Top.at \in Nat \ {0} /\ Behind(Top)
  <2>1. n \in DOMAIN calls
    BY <1>2
  <2>2. Top \in Frames /\ Behind(calls[n])
    BY <1>1, <1>2, <1>3, <2>1 DEF Tried
  <2>3. QED
    BY <1>2, <2>2 DEF Frames
(* Every candidate of the send has been tried. *)
<1>8. \A e \in Graph : e[1] = i => e[2] \in visited
  <2>1. ASSUME NEW e \in Graph, e[1] = i PROVE e[2] \in visited
    <3> HIDE DEF i
    <3>1. PICK k \in DOMAIN List(i) : List(i)[k] = e[2]
      BY <1>7, <2>1, Candidates
    <3>2. List(i) \in Seq(Messages)
      BY <1>7, SetsOK
    <3>3. k \in 1..(Top.at - 1)
      BY <1>1, <1>7, <3>1, <3>2
    <3>4. <<i, List(i)[k]>> \in Graph
      <4>1. e = <<i, List(i)[k]>>
        BY <2>1, <3>1 DEF Graph, Eligible, Edges
      <4>2. QED
        BY <4>1
    <3>5. QED
      BY <1>7, <3>1, <3>3, <3>4 DEF Behind, i
  <2>2. QED
    BY <2>1
<1>9. next \in All /\ next \in Nat /\ next + 1 \in 1..(Len(sets) + 1) /\ calls[1].send = next
  BY <1>1, NextSend
<1> HIDE DEF i, n
<1>10. CASE n = 1
  <2>1. calls' = << >> /\ next' = next + 1 /\ size' = size /\ i = next
    BY <1>1, <1>2, <1>5, <1>9, <1>10 DEF i
  <2>2. Typed'
    <3>1. Typed /\ Eligible' = Eligible
      BY <1>1, SameGraph
    <3>2. calls' \in Seq([send : All, at : Nat \ {0}])
      BY <2>1
    <3>3. QED
      BY <1>1, <1>4, <1>5, <1>9, <2>1, <3>1, <3>2 DEF Typed, Searching, inputVars, blockVars, resultVars
  <2>3. Waiting' /\ Tried'
    BY <1>5, <2>1 DEF Waiting, Tried, Asking
  <2>4. Matched'
    <3>1. \A x \in Messages : owner[x] \in Nat
      BY SetsOK DEF Typed
    <3>2. \A x \in Messages : owner[x] < next => owner[x] < next + 1
      BY <1>9, <3>1
    <3>3. QED
      BY <1>1, <1>3, <1>4, <1>6, <2>1, <3>2 DEF Matched
  <2>5. PICK A \in SUBSET All, B \in SUBSET Messages : Exhausted(A, B)
    BY <1>1 DEF SearchInv
  <2> DEFINE C == A \cup {i} \cup {owner[v] : v \in visited}
             D == B \cup visited
  <2>6. /\ visited \subseteq Messages
        /\ \A v \in visited : /\ owner[v] \in All
                              /\ \A e \in Graph : e[1] = owner[v] => e[2] \in visited
    <3>1. visited \subseteq Messages
      BY DEF Typed
    <3>2. ASSUME NEW v \in visited PROVE owner[v] \in All /\ \A e \in Graph : e[1] = owner[v] => e[2] \in visited
      <4>1. owner[v] # 0 /\ owner[v] \in 0..Len(sets)
        BY <1>1, <1>3, <3>1 DEF Tried, Typed
      <4>2. \/ \E j \in DOMAIN calls : calls[j].send = owner[v]
            \/ \A e \in Graph : e[1] = owner[v] => e[2] \in visited
        BY <1>1, <1>3 DEF Tried
      <4>3. \A j \in DOMAIN calls : calls[j].send = i
        BY <1>2, <1>10 DEF i
      <4>4. QED
        BY <1>8, <4>1, <4>2, <4>3, SetsOK
    <3>3. QED
      BY <3>1, <3>2
  <2>7. C \in SUBSET All /\ D \in SUBSET Messages
    BY <1>7, <2>6 DEF i
  <2>8. \A e \in Graph : e[1] \in C => e[2] \in D
    BY <1>8, <2>5, <2>6 DEF Exhausted
  <2>9. \A x \in D : owner[x] \in C
    BY <2>5 DEF Exhausted
  <2>10. ASSUME NEW k \in All, k < next + 1, k \notin C PROVE \E x \in Messages : owner[x] = k
    <3>1. k < next
      BY <1>9, <2>1, <2>10, SetsOK
    <3>2. QED
      BY <2>5, <2>10, <3>1 DEF Exhausted
  <2> HIDE DEF C, D
  <2>11. \E F \in SUBSET All, G \in SUBSET Messages : F = C /\ G = D
    BY <2>7
  <2>12. ASSUME NEW F, NEW G, F = C, G = D PROVE Exhausted(F, G)'
    BY <1>1, <1>4, <1>6, <2>1, <2>8, <2>9, <2>10, <2>12 DEF Exhausted
  <2>13. QED
    BY <1>1, <1>4, <2>2, <2>3, <2>4, <2>11, <2>12 DEF SearchInv
<1>11. CASE n > 1
  <2>1. calls' = [Outer EXCEPT ![n - 1].at = @ + 1] /\ next' = next /\ size' = size
    BY <1>1, <1>5, <1>11
  <2>2. /\ calls' \in Seq(Frames) /\ Len(calls') = n - 1 /\ DOMAIN calls' = 1..(n - 1)
        /\ \A j \in 1..(n - 1) : calls'[j].send = calls[j].send
        /\ \A j \in 1..(n - 2) : calls'[j] = calls[j]
        /\ calls'[n - 1].at = calls[n - 1].at + 1
    <3>1. n - 1 \in DOMAIN Outer
      BY <1>2, <1>11
    <3>2. /\ calls' \in Seq(Frames) /\ Len(calls') = Len(Outer) /\ DOMAIN calls' = DOMAIN Outer
          /\ \A j \in DOMAIN Outer : calls'[j].send = Outer[j].send /\ (j # n - 1 => calls'[j] = Outer[j])
          /\ calls'[n - 1].at = Outer[n - 1].at + 1
      BY <1>2, <2>1, <3>1, OneFurther
    <3>3. QED
      <4>1. \A j \in 1..(n - 1) : calls'[j].send = calls[j].send /\ (j # n - 1 => calls'[j] = calls[j])
        BY <1>2, <3>2
      <4>2. \A j \in 1..(n - 2) : j \in 1..(n - 1) /\ j # n - 1
        BY <1>2
      <4>3. calls'[n - 1].at = calls[n - 1].at + 1
        BY <1>2, <3>1, <3>2
      <4>4. QED
        BY <1>2, <3>2, <4>1, <4>2, <4>3
  <2>3. Typed'
    <3>1. Typed /\ Eligible' = Eligible
      BY <1>1, SameGraph
    <3>2. calls' \in Seq([send : All, at : Nat \ {0}])
      BY <2>2 DEF Frames
    <3>3. QED
      BY <1>1, <1>4, <1>5, <1>9, <2>1, <3>1, <3>2 DEF Typed, Searching, inputVars, blockVars, resultVars
  <2>4. /\ \A j \in 1..(n - 2) : Wanted(calls[j])' = Wanted(calls[j]) /\ Edge(calls[j])' = Edge(calls[j])
        /\ Asking' = 1..(n - 2) /\ \A x : List(x)' = List(x)
    BY <1>1, <1>2, <1>5, <2>2, SameWants, SameGraph DEF Asking
  <2>5. Waiting'
    <3>1. calls' # << >> /\ calls'[1].send = next
      BY <1>2, <1>9, <1>11, <2>2
    <3>2. \A j \in 1..(n - 2) : /\ Wanted(calls[j]) \in visited /\ Edge(calls[j]) \in Graph
                               /\ owner[Wanted(calls[j])] = calls'[j + 1].send
      BY <1>2, <1>3, <1>4, <2>2 DEF Waiting, n
    <3>3. \A j, k \in 1..(n - 2) : Wanted(calls[j]) = Wanted(calls[k]) => j = k
      BY <1>2, <1>3, <1>4 DEF Waiting
    <3>4. QED
      BY <1>1, <1>2, <1>4, <2>1, <2>2, <2>4, <3>1, <3>2, <3>3 DEF Waiting
  <2>6. Matched'
    BY <1>1, <1>3, <1>4, <1>6, <2>1 DEF Matched
  <2>7. Tried'
    <3>1. ASSUME NEW j \in 1..(n - 1) PROVE Behind(calls[j])'
      <4>1. Behind(calls[j])
        BY <1>1, <1>2, <1>3 DEF Tried
      <4>2. CASE j # n - 1
        BY <1>1, <1>2, <2>2, <4>1, <4>2, SameBehind
      <4>3. CASE j = n - 1
        <5>1. Wanted(calls[j]) \in visited /\ calls[j].at \in Nat
          BY <1>2, <1>3, <1>4, <4>3 DEF Waiting, Frames
        <5>2. QED
          BY <1>1, <1>2, <1>4, <2>2, <2>4, <4>1, <4>3, <5>1 DEF Behind, Wanted
      <4>4. QED
        BY <4>2, <4>3
    <3>2. ASSUME NEW v \in visited
          PROVE  /\ owner[v] # 0
                 /\ \/ \E j \in 1..(n - 1) : calls'[j].send = owner[v]
                    \/ \A e \in Graph : e[1] = owner[v] => e[2] \in visited
      <4>1. /\ owner[v] # 0
            /\ \/ \E j \in DOMAIN calls : calls[j].send = owner[v]
               \/ \A e \in Graph : e[1] = owner[v] => e[2] \in visited
        BY <1>1, <1>3 DEF Tried
      <4>2. CASE \E j \in DOMAIN calls : calls[j].send = owner[v]
        <5>1. PICK j \in DOMAIN calls : calls[j].send = owner[v]
          BY <4>2
        <5>2. CASE j = n
          BY <1>2, <1>8, <4>1, <5>1, <5>2 DEF i
        <5>3. CASE j # n
          BY <1>2, <2>2, <4>1, <5>1, <5>3
        <5>4. QED
          BY <5>2, <5>3
      <4>3. QED
        BY <4>1, <4>2
    <3>3. QED
      BY <1>1, <1>4, <2>2, <3>1, <3>2 DEF Tried
  <2>8. ASSUME NEW A \in SUBSET All, NEW B \in SUBSET Messages, Exhausted(A, B) PROVE Exhausted(A, B)'
    BY <1>1, <1>4, <1>6, <2>1, <2>8 DEF Exhausted
  <2>9. QED
    BY <1>1, <1>4, <2>3, <2>5, <2>6, <2>7, <2>8 DEF SearchInv
<1>12. QED
  BY <1>2, <1>10, <1>11

-----------------------------------------------------------------------------
(* A search from its start to its end. *)

LEMMA SearchStarts ==
  ASSUME Typed, NEW e, Search(e), sets' = sets, sends' = sends
  PROVE  SearchInv'
<1>1. /\ phase' = "search" /\ next' = 1 /\ calls' = << >> /\ found' = FALSE
      /\ visited' = {} /\ owner' = [m \in Messages |-> 0] /\ size' = 0
  BY DEF Search
<1>2. All' = All /\ 0 \notin All
  BY SetsOK DEF All
<1>3. Pairs' = {} /\ Loose' = {}
  BY <1>1, <1>2 DEF Pairs, Loose
<1>4. Waiting' /\ Tried'
  BY <1>1 DEF Waiting, Tried, Asking
<1>5. Matched'
  <2>1. Cardinality(Pairs') = 0 /\ Cardinality(Loose') = 0
    BY <1>3, FS_EmptySet
  <2>2. QED
    BY <1>1, <1>3, <2>1 DEF Matched
<1>6. \A i \in All : ~ (i < 1)
  BY SetsOK
<1>7. ASSUME NEW A, NEW B, A = {}, B = {} PROVE Exhausted(A, B)'
  BY <1>1, <1>2, <1>3, <1>6, <1>7 DEF Exhausted
<1>8. QED
  BY <1>1, <1>4, <1>5, <1>7 DEF SearchInv

LEMMA SearchFindsMatching ==
  ASSUME Typed, SearchInv, Searched
  PROVE  /\ Pairs \in Matchings(Graph) /\ Cardinality(Pairs) = size /\ Loose = {}
         /\ \A i \in All : i < next
<1>1. phase = "search" /\ calls = << >> /\ next \notin All /\ Waiting /\ Matched
  BY DEF Searched, SearchInv
<1>2. Loose = {}
  BY <1>1 DEF Waiting, Loose
<1>3. \A i \in All : i < next
  <2>1. next = Len(sets) + 1
    BY <1>1, SetsOK DEF Typed
  <2>2. QED
    BY <2>1, SetsOK
<1>4. Pairs \in Matchings(Graph)
  <2>1. \A e \in Pairs : /\ e[1] \in All /\ e[2] \in Messages /\ owner[e[2]] = e[1] /\ owner[e[2]] # 0
                         /\ e = <<e[1], e[2]>>
    BY SetsOK DEF Pairs
  <2>2. Pairs \subseteq Graph
    BY <1>1, <2>1 DEF Matched
  <2>3. ASSUME NEW e \in Pairs, NEW f \in Pairs, e[1] = f[1] \/ e[2] = f[2] PROVE e = f
    <3>1. e[1] = f[1] /\ e[2] = f[2]
      BY <1>1, <1>2, <2>1, <2>3 DEF Matched
    <3>2. QED
      BY <2>1, <3>1
  <2>4. QED
    BY <2>2, <2>3 DEF Matchings
<1>5. Cardinality(Pairs) = size
  BY <1>1, <1>2, FS_EmptySet DEF Matched, Typed
<1>6. QED
  BY <1>2, <1>3, <1>4, <1>5

(* No matching is larger: an edge of a send in A has a message in B, which *)
(* is taken; every other send has a message.                               *)
THEOREM SearchFindsLargest ==
  ASSUME Typed, SearchInv, Searched
  PROVE  Pairs \in Largest(Graph) /\ Cardinality(Pairs) = size
<1>1. /\ Pairs \in Matchings(Graph) /\ Cardinality(Pairs) = size
      /\ \A i \in All : i < next
  BY SearchFindsMatching
<1>2. PICK A \in SUBSET All, B \in SUBSET Messages : Exhausted(A, B)
  BY DEF Searched, SearchInv
<1>3. /\ \A e \in Graph : e[1] \in All /\ e[2] \in Messages
      /\ \A e \in Graph : e[1] \in A => e[2] \in B
      /\ \A m \in B : owner[m] \in A
      /\ \A i \in All : i \notin A => \E m \in Messages : owner[m] = i
  BY <1>1, <1>2 DEF Exhausted, Graph, Eligible, Edges
<1>4. ASSUME NEW N \in Matchings(Graph) PROVE Cardinality(N) <= Cardinality(Pairs)
  <2> DEFINE Of(i) == CHOOSE m \in Messages : owner[m] = i
             Pair(e) == IF e[1] \in A THEN <<owner[e[2]], e[2]>> ELSE <<e[1], Of(e[1])>>
  <2>1. N \subseteq Graph /\ \A e, f \in N : e[1] = f[1] \/ e[2] = f[2] => e = f
    BY DEF Matchings
  <2>2. \A i \in All : i \notin A => Of(i) \in Messages /\ owner[Of(i)] = i
    BY <1>3
  <2> HIDE DEF Of
  <2>3. ASSUME NEW e \in N PROVE Pair(e) \in Pairs
    <3>1. CASE e[1] \in A
      BY <1>3, <2>1, <3>1 DEF Pairs
    <3>2. CASE e[1] \notin A
      BY <1>3, <2>1, <2>2, <3>2 DEF Pairs
    <3>3. QED
      BY <3>1, <3>2
  <2>4. ASSUME NEW e \in N, NEW f \in N, Pair(e) = Pair(f) PROVE e = f
    <3>1. CASE e[1] \in A /\ f[1] \in A
      BY <2>1, <2>4, <3>1
    <3>2. CASE e[1] \notin A /\ f[1] \notin A
      BY <2>1, <2>4, <3>2
    <3>3. CASE e[1] \in A /\ f[1] \notin A
      BY <1>3, <2>1, <2>4, <3>3
    <3>4. CASE e[1] \notin A /\ f[1] \in A
      BY <1>3, <2>1, <2>4, <3>4
    <3>5. QED
      BY <3>1, <3>2, <3>3, <3>4
  <2> DEFINE g == [e \in N |-> Pair(e)]
  <2> HIDE DEF Pair
  <2>5. g \in Injection(N, Pairs)
    BY <2>3, <2>4 DEF Injection, IsInjective
  <2> HIDE DEF g
  <2>6. IsFiniteSet(N) /\ IsFiniteSet(Pairs)
    BY EdgesFinite, MatchingFinite, PairsFinite
  <2>7. QED
    BY <2>5, <2>6, FS_Injection DEF ExistsInjection
<1>5. QED
  BY <1>1, <1>4 DEF Largest

-----------------------------------------------------------------------------
(* The invariant. *)

LEMMA EdgesArePairs ==
  ASSUME Typed
  PROVE  /\ Edges \subseteq All \X Messages /\ Eligible \subseteq All \X Messages
         /\ NoEdge \notin Eligible
<1>1. Edges \subseteq All \X Messages /\ Eligible \subseteq All \X Messages
  BY DEF Edges, Eligible
<1>2. << >> \notin All \X Messages
  OBVIOUS
<1>3. QED
  BY <1>1, <1>2 DEF NoEdge

LEMMA InitIInv ==
  ASSUME Init
  PROVE  IInv
<1>1. PICK i \in Inputs : /\ sets = i.sets /\ unknown = i.unknown
                          /\ sends = {e[1] : e \in i.unknown} /\ messages = {e[2] : e \in i.unknown}
  BY DEF Init
<1>2. sets \in Seq(Seq(Messages)) /\ unknown \subseteq All \X Messages
  BY <1>1, MatchingAssumption DEF All
<1>3. unknown \subseteq sends \X messages /\ sends \subseteq All /\ messages \subseteq Messages
  BY <1>1, <1>2
<1>4. Len(sets) \in Nat
  BY <1>2
<1>5. Typed
  <2>1. << >> \in Seq([send : All, at : Nat \ {0}])
    OBVIOUS
  <2>2. next \in 1..(Len(sets) + 1) /\ owner \in [Messages -> 0..Len(sets)] /\ size \in Nat
    BY <1>4 DEF Init
  <2>3. phase = "spread" /\ calls = << >> /\ found = FALSE /\ visited = {} /\ base = {} /\ todo = {} /\ forced = {}
    BY DEF Init
  <2>4. QED
    BY <1>2, <1>3, <2>1, <2>2, <2>3 DEF Typed
<1>6. SearchInv /\ ResultInv
  BY DEF Init, SearchInv, ResultInv, Testing
<1>7. QED
  BY <1>5, <1>6 DEF IInv

LEMMA SpreadKeeps ==
  ASSUME IInv, Spread
  PROVE  IInv'
<1>1. PICK e \in Unequal : /\ phase = "spread"
                           /\ sends' = sends \cup {e[1]} /\ messages' = messages \cup {e[2]}
                           /\ UNCHANGED <<inputVars, phase, searchVars, resultVars>>
  BY DEF Spread
<1>2. Typed /\ base = {} /\ todo = {} /\ forced = {}
  BY <1>1 DEF IInv, ResultInv, Testing, Typed
<1>3. e[1] \in All /\ e[2] \in Messages
  BY DEF Unequal, Edges
<1>4. All' = All
  BY <1>1 DEF All, inputVars
<1>5. Typed'
  BY <1>1, <1>2, <1>3, <1>4 DEF Typed, inputVars, searchVars, resultVars
<1>6. SearchInv' /\ ResultInv'
  BY <1>1, <1>2 DEF SearchInv, ResultInv, Testing, searchVars, resultVars
<1>7. QED
  BY <1>5, <1>6 DEF IInv

(* What a search does not change. *)
LEMMA SameResults ==
  ASSUME UNCHANGED <<inputVars, blockVars>>
  PROVE  All' = All /\ Edges' = Edges /\ Eligible' = Eligible /\ Unequal' = Unequal
BY DEF All, Edges, Eligible, Unequal, inputVars, blockVars

LEMMA StartTyped ==
  ASSUME Typed, NEW e, Search(e), UNCHANGED <<inputVars, blockVars, resultVars>>
  PROVE  Typed'
<1>1. Len(sets) \in Nat /\ All' = All /\ Eligible' = Eligible
  BY SetsOK, SameResults
<1>2. << >> \in Seq([send : All, at : Nat \ {0}])
  OBVIOUS
<1>3. next' \in 1..(Len(sets) + 1) /\ owner' \in [Messages -> 0..Len(sets)] /\ size' \in Nat
  BY <1>1 DEF Search
<1>4. phase' = "search" /\ calls' = << >> /\ found' = FALSE /\ visited' = {}
  BY DEF Search
<1>5. QED
  BY <1>1, <1>2, <1>3, <1>4 DEF Typed, inputVars, blockVars, resultVars

LEMMA SearchAllKeeps ==
  ASSUME IInv, SearchAll
  PROVE  IInv'
<1>1. /\ phase = "spread" /\ Unequal = {} /\ Search(NoEdge)
      /\ UNCHANGED <<inputVars, blockVars, resultVars>> /\ Typed
  BY DEF SearchAll, IInv
<1>2. Typed' /\ SearchInv'
  BY <1>1, StartTyped, SearchStarts DEF inputVars, blockVars
<1>3. ResultInv'
  <2>1. Unequal' = {} /\ base' = {} /\ without' = NoEdge /\ phase' = "search"
    BY <1>1, SameResults DEF Search, IInv, ResultInv, Testing, resultVars
  <2>2. QED
    BY <2>1 DEF ResultInv, Testing
<1>4. QED
  BY <1>2, <1>3 DEF IInv

LEMMA TestKeeps ==
  ASSUME IInv, Test
  PROVE  IInv'
<1>1. PICK e \in todo : phase = "test" /\ Search(e) /\ UNCHANGED <<inputVars, blockVars, resultVars>>
  BY DEF Test
<1>2. Typed /\ ResultInv
  BY DEF IInv
<1>3. Typed' /\ SearchInv'
  BY <1>1, <1>2, StartTyped, SearchStarts DEF inputVars, blockVars
<1>4. e # NoEdge /\ without' = e /\ phase' = "search"
  BY <1>1, <1>2, EdgesArePairs DEF Typed, Search
<1>5. Unequal' = Unequal /\ Eligible' = Eligible /\ base' = base /\ todo' = todo /\ forced' = forced
  BY <1>1, SameResults DEF resultVars
<1>6. ResultInv'
  BY <1>1, <1>2, <1>4, <1>5 DEF ResultInv, Testing, Smaller
<1>7. QED
  BY <1>3, <1>6 DEF IInv

LEMMA StepKeeps ==
  ASSUME IInv, SearchStep
  PROVE  IInv'
<1>1. Searches /\ ResultInv
  BY DEF IInv, Searches
<1>2. Searching
  BY DEF SearchStep, Call, Skip, Ask, Take, TakeOver, GiveUp
<1>3. Searches'
  BY <1>1, CallKeeps, SkipKeeps, AskKeeps, TakeKeeps, TakeOverKeeps, GiveUpKeeps DEF SearchStep
<1>4. QED
  BY <1>1, <1>2, <1>3, SameGraph DEF IInv, Searches

LEMMA BaselineKeeps ==
  ASSUME IInv, Baseline
  PROVE  IInv'
<1>1. /\ Searched /\ without = NoEdge /\ base' = Pairs /\ todo' = Pairs /\ phase' = "test"
      /\ UNCHANGED <<inputVars, blockVars, searchVars>> /\ forced' = forced
      /\ Typed /\ SearchInv /\ ResultInv /\ phase = "search"
  BY DEF Baseline, IInv, Searched
<1>2. /\ All' = All /\ Eligible' = Eligible /\ Unequal' = Unequal
      /\ Graph = Eligible
  BY <1>1, SameResults, EdgesArePairs DEF Graph
<1>3. Pairs \in Largest(Eligible) /\ Pairs \subseteq Eligible
  BY <1>1, <1>2, SearchFindsLargest DEF Largest, Matchings
<1>4. forced = {} /\ Unequal = {}
  BY <1>1 DEF Typed, ResultInv, Testing
<1>5. Typed'
  BY <1>1, <1>2, <1>3, <1>4 DEF Typed, inputVars, blockVars, searchVars
<1>6. ResultInv'
  BY <1>1, <1>2, <1>3, <1>4 DEF ResultInv, Testing
<1>7. QED
  BY <1>1, <1>5, <1>6 DEF IInv, SearchInv

(* A test decides whether the matching is smaller without the edge.        *)
LEMMA JudgeKeeps ==
  ASSUME IInv, Judge
  PROVE  IInv'
<1>1. /\ Searched /\ without # NoEdge
      /\ forced' = IF size < Cardinality(base) THEN forced \cup {without} ELSE forced
      /\ todo' = todo \ {without} /\ phase' = "test" /\ base' = base
      /\ UNCHANGED <<inputVars, blockVars, searchVars>>
      /\ Typed /\ SearchInv /\ ResultInv /\ phase = "search"
  BY DEF Judge, IInv, Searched
<1>2. /\ All' = All /\ Eligible' = Eligible /\ Unequal' = Unequal /\ Unequal = {}
      /\ without \in todo /\ todo \subseteq base /\ base \subseteq Eligible /\ forced \subseteq base
      /\ base \in Largest(Eligible) /\ forced = {e \in base \ todo : Smaller(e)}
  BY <1>1, SameResults DEF ResultInv, Testing, Typed
<1>3. Smaller(without) <=> size < Cardinality(base)
  <2>1. Pairs \in Largest(Graph) /\ Cardinality(Pairs) = size
    BY <1>1, SearchFindsLargest
  <2>2. /\ Pairs \in Matchings(Graph) /\ \A N \in Matchings(Graph) : Cardinality(N) <= size
        /\ \A N \in Matchings(Graph) : Cardinality(N) \in Nat
    BY <1>1, <2>1, EdgesFinite, MatchingFinite DEF Largest
  <2>3. Cardinality(base) \in Nat /\ size \in Nat
    <3>1. base \in Matchings(Eligible)
      BY <1>2 DEF Largest
    <3>2. QED
      BY <1>1, <3>1, EdgesFinite, MatchingFinite DEF Typed
  <2>4. Graph = Eligible \ {without}
    BY DEF Graph
  <2>5. QED
    BY <2>1, <2>2, <2>3, <2>4 DEF Smaller
<1>4. \A e : Smaller(e)' <=> Smaller(e)
  BY <1>1, <1>2 DEF Smaller
<1>5. forced' = {e \in base \ todo' : Smaller(e)}
  <2>1. base \ todo' = (base \ todo) \cup {without}
    BY <1>1, <1>2
  <2>2. QED
    BY <1>1, <1>2, <1>3, <2>1
<1>6. Typed'
  BY <1>1, <1>2 DEF Typed, inputVars, blockVars, searchVars
<1>7. ResultInv'
  BY <1>1, <1>2, <1>4, <1>5 DEF ResultInv, Testing
<1>8. QED
  BY <1>1, <1>6, <1>7 DEF IInv, SearchInv

LEMMA StutterKeeps ==
  ASSUME IInv, UNCHANGED vars
  PROVE  IInv'
<1>1. /\ UNCHANGED <<inputVars, blockVars, searchVars, resultVars>> /\ phase' = phase
  BY DEF vars
<1>2. /\ sets' = sets /\ unknown' = unknown /\ sends' = sends /\ messages' = messages
      /\ without' = without /\ next' = next /\ calls' = calls /\ found' = found /\ visited' = visited
      /\ owner' = owner /\ size' = size /\ base' = base /\ todo' = todo /\ forced' = forced
      /\ phase' = phase
  BY <1>1 DEF inputVars, blockVars, searchVars, resultVars
<1>3. /\ All' = All /\ Edges' = Edges /\ Eligible' = Eligible /\ Unequal' = Unequal /\ Graph' = Graph
      /\ Loose' = Loose /\ Pairs' = Pairs /\ Asking' = Asking
  BY <1>2 DEF All, Edges, Eligible, Unequal, Graph, Loose, Pairs, Asking, Top, Wanted, List
<1>4. Typed' /\ ResultInv'
  BY <1>2, <1>3 DEF IInv, Typed, ResultInv, Testing, Smaller
<1>5. /\ \A j : Wanted(calls[j])' = Wanted(calls[j]) /\ Edge(calls[j])' = Edge(calls[j])
      /\ \A j : Behind(calls[j])' <=> Behind(calls[j])
  BY <1>2, <1>3 DEF Behind, Wanted, Edge, List
<1>6. (Waiting => Waiting') /\ (Matched => Matched') /\ (Tried => Tried')
  <2>1. Waiting => Waiting'
    BY <1>2, <1>3, <1>5 DEF Waiting
  <2>2. Matched => Matched'
    BY <1>2, <1>3 DEF Matched
  <2>3. Tried => Tried'
    BY <1>2, <1>3, <1>5 DEF Tried
  <2>4. QED
    BY <2>1, <2>2, <2>3
<1>7. \A A, B : Exhausted(A, B) => Exhausted(A, B)'
  BY <1>2, <1>3 DEF Exhausted
<1>8. SearchInv'
  BY <1>2, <1>3, <1>6, <1>7 DEF IInv, SearchInv
<1>9. QED
  BY <1>4, <1>8 DEF IInv

(* The invariant holds in every reachable state. *)
THEOREM Invariance == Spec => []IInv
<1>1. Init => IInv
  BY InitIInv
<1>2. IInv /\ [Next]_vars => IInv'
  BY SpreadKeeps, SearchAllKeeps, StepKeeps, BaselineKeeps, TestKeeps, JudgeKeeps, StutterKeeps DEF Next
<1>3. QED
  BY <1>1, <1>2, PTL DEF Spec

THEOREM TypeCorrect == Spec => []Typed
<1>1. IInv => Typed
  BY DEF IInv
<1>2. QED
  BY <1>1, Invariance, PTL

(* When every edge of the baseline is tested, what is forced is forced in  *)
(* the graph of all candidates, whichever unverified relations are real.   *)
LEMMA ClaimsHold ==
  ASSUME IInv
  PROVE  ClaimsForced
<1> SUFFICES ASSUME Claims, NEW real \in SUBSET unknown
             PROVE  forced = {e \in Forced(Edges \cup real) : e[1] \notin sends}
  BY DEF ClaimsForced
<1>1. /\ phase = "test" /\ todo = {} /\ Typed /\ Unequal = {}
      /\ base \in Largest(Eligible) /\ forced = {e \in base \ todo : Smaller(e)}
  BY DEF Claims, IInv, ResultInv, Testing
<1>2. forced = Forced(Eligible)
  BY <1>1, EdgesFinite, ForcedByRemoval DEF Smaller
<1> DEFINE Blocked == {e \in Edges : e[1] \in sends} \cup real
<1>3. /\ Edges \subseteq All \X Messages /\ real \subseteq sends \X messages
      /\ sends \subseteq All /\ messages \subseteq Messages
  BY <1>1, EdgesArePairs DEF Typed
<1>4. \A d \in Eligible, b \in Blocked : d[1] # b[1] /\ d[2] # b[2]
  <2>1. \A d \in Eligible : d[1] \notin sends /\ d[2] \notin messages
    BY <1>1 DEF Unequal, Eligible
  <2>2. \A b \in Blocked : b[1] \in sends /\ b[2] \in messages
    BY <1>1, <1>3 DEF Unequal
  <2>3. QED
    BY <2>1, <2>2
<1>5. IsFiniteSet(Eligible) /\ IsFiniteSet(Blocked)
  <2>1. IsFiniteSet(All \X Messages)
    <3>1. IsFiniteSet(All)
      BY <1>1, SetsOK, FS_Interval
    <3>2. QED
      BY <3>1, MatchingAssumption, FS_Product
  <2>2. Blocked \in SUBSET (All \X Messages)
    BY <1>3
  <2>3. QED
    BY <1>1, <2>1, <2>2, EdgesFinite, FS_Subset
<1>6. Edges \cup real = Eligible \cup Blocked
  BY DEF Eligible
<1>7. \A b \in Blocked : b[1] \in sends
  BY <1>3
<1> HIDE DEF Blocked
<1>8. Forced(Eligible \cup Blocked) \cap Eligible = Forced(Eligible)
  BY <1>4, <1>5, ForcedApart
<1>9. \A e \in Forced(Eligible \cup Blocked) : e \in Eligible \cup Blocked
  BY DEF Forced
<1>10. \A e \in Eligible : e[1] \notin sends
  BY DEF Eligible
<1>11. QED
  BY <1>2, <1>6, <1>7, <1>8, <1>9, <1>10

(* Only messages that are forced are claimed. *)
THEOREM ClaimsAreForced == Spec => []ClaimsForced
<1>1. QED
  BY Invariance, ClaimsHold, PTL
=============================================================================
