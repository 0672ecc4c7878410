--------------------------- MODULE OutboundMatching ---------------------------
(***************************************************************************)
(* How a reconciliation decides which messages to claim                    *)
(* (reconcileOutboundConversation, forcedOutboundCandidateMatches and      *)
(* maximumOutboundCandidateMatching in outbound.go).                       *)
(*                                                                         *)
(* A send has a list of candidates, messages that may be its echo.         *)
(* Relations that could not be verified, because an image was not          *)
(* downloaded, block the connected part of the candidates that they touch. *)
(* Among the rest a largest matching is searched along augmenting paths,   *)
(* and once more without each of its edges: an edge without which the      *)
(* matching is smaller is forced, and claimed.                             *)
(*                                                                         *)
(* The recursion of assign is a stack of calls.  A call tries its send's   *)
(* candidates one after the other; for one that another send has, it calls *)
(* assign for that send.  What that means, Forced, is in OutboundAssignment. *)
(***************************************************************************)
EXTENDS OutboundAssignment, Sequences

CONSTANTS
  Messages,  \* messages of the fetched page
  Inputs     \* candidate lists of the matchable sends, with the relations that are not verified

ASSUME MatchingAssumption ==
  /\ IsFiniteSet(Messages)
  /\ \A i \in Inputs : /\ i.sets \in Seq(Seq(Messages))
                       /\ i.unknown \subseteq (DOMAIN i.sets) \X Messages

VARIABLES
  sets,      \* candidates of each send, in order
  unknown,   \* relations that are not verified
  sends,     \* blockedSends
  messages,  \* blockedMessages
  phase,
  without,   \* the edge that the search leaves out
  next,      \* the send that the search comes to next
  calls,     \* calls of assign, the innermost last: a send, and how far it is in its list
  found,     \* the call that returned last returned true
  visited,
  owner,     \* matchedSetByMessage; 0: no send
  size,      \* matchingSize
  base,      \* baseline
  todo,      \* edges of the baseline that are not tested
  forced

inputVars  == <<sets, unknown>>
blockVars  == <<sends, messages>>
searchVars == <<without, next, calls, found, visited, owner, size>>
resultVars == <<base, todo, forced>>
vars       == <<inputVars, blockVars, phase, searchVars, resultVars>>

NoEdge  == << >>
All     == DOMAIN sets
Edges   == {e \in All \X Messages : \E k \in DOMAIN sets[e[1]] : sets[e[1]][k] = e[2]}

(* eligibleSets *)
List(i) == IF i \in sends THEN << >> ELSE sets[i]
Eligible == {e \in Edges : e[1] \notin sends}

Init ==
  /\ \E i \in Inputs : /\ sets = i.sets /\ unknown = i.unknown
                       /\ sends = {e[1] : e \in i.unknown} /\ messages = {e[2] : e \in i.unknown}
  /\ phase = "spread"
  /\ without = NoEdge /\ next = 1 /\ calls = << >> /\ found = FALSE /\ visited = {}
  /\ owner = [m \in Messages |-> 0] /\ size = 0
  /\ base = {} /\ todo = {} /\ forced = {}

-----------------------------------------------------------------------------
(* Mutant: the blockade spreads from messages to sends only.               *)
UnequalSends == {e \in Edges : e[1] \notin sends /\ e[2] \in messages}

(* The blockade spreads along the candidates.                              *)
Unequal == {e \in Edges : (e[1] \in sends) # (e[2] \in messages)}

Spread == \E e \in Unequal :
  /\ phase = "spread"
  /\ sends' = sends \cup {e[1]} /\ messages' = messages \cup {e[2]}
  /\ UNCHANGED <<inputVars, phase, searchVars, resultVars>>

(* A search begins with an empty matching and leaves one edge out, or none. *)
Search(e) ==
  /\ phase' = "search" /\ without' = e /\ next' = 1 /\ calls' = << >> /\ found' = FALSE
  /\ visited' = {} /\ owner' = [m \in Messages |-> 0] /\ size' = 0

SearchAll ==
  /\ phase = "spread" /\ Unequal = {}
  /\ Search(NoEdge)
  /\ UNCHANGED <<inputVars, blockVars, resultVars>>

-----------------------------------------------------------------------------
(* maximumOutboundCandidateMatching.                                       *)
Top       == calls[Len(calls)]
Outer     == SubSeq(calls, 1, Len(calls) - 1)
Wanted(c) == List(c.send)[c.at]
Onward    == [calls EXCEPT ![Len(calls)].at = @ + 1]

Searching == phase = "search" /\ UNCHANGED <<inputVars, blockVars, phase, without, resultVars>>
Trying    == calls # << >> /\ ~found /\ Top.at <= Len(List(Top.send))
Skipped   == Wanted(Top) \in visited \/ <<Top.send, Wanted(Top)>> = without

(* The innermost call returns; the outermost is a send of the loop.        *)
Return(ok) ==
  /\ found' = (ok /\ Len(calls) > 1)
  /\ IF Len(calls) > 1
     THEN UNCHANGED <<next, size>>
     ELSE next' = next + 1 /\ size' = IF ok THEN size + 1 ELSE size

Call ==
  /\ Searching /\ calls = << >> /\ next \in All
  /\ calls' = <<[send |-> next, at |-> 1]>> /\ visited' = {}
  /\ UNCHANGED <<next, found, owner, size>>

Skip ==
  /\ Searching /\ Trying /\ Skipped
  /\ calls' = Onward
  /\ UNCHANGED <<next, found, visited, owner, size>>

(* The message has a send, which is asked to take another one.             *)
Ask ==
  /\ Searching /\ Trying /\ ~Skipped /\ owner[Wanted(Top)] # 0
  /\ visited' = visited \cup {Wanted(Top)}
  /\ calls' = Append(calls, [send |-> owner[Wanted(Top)], at |-> 1])
  /\ UNCHANGED <<next, found, owner, size>>

Take ==
  /\ Searching /\ Trying /\ ~Skipped /\ owner[Wanted(Top)] = 0
  /\ visited' = visited \cup {Wanted(Top)}
  /\ owner' = [owner EXCEPT ![Wanted(Top)] = Top.send]
  /\ calls' = Outer /\ Return(TRUE)

(* The send that was asked has found another message.                      *)
TakeOver ==
  /\ Searching /\ calls # << >> /\ found
  /\ owner' = [owner EXCEPT ![Wanted(Top)] = Top.send]
  /\ calls' = Outer /\ Return(TRUE)
  /\ UNCHANGED visited

(* No candidate is left; the caller goes on with its next one.             *)
GiveUp ==
  /\ Searching /\ calls # << >> /\ ~found /\ Top.at > Len(List(Top.send))
  /\ calls' = IF Len(calls) > 1 THEN [Outer EXCEPT ![Len(calls) - 1].at = @ + 1] ELSE << >>
  /\ Return(FALSE)
  /\ UNCHANGED <<visited, owner>>

-----------------------------------------------------------------------------
(* forcedOutboundCandidateMatches.                                         *)
Pairs    == {e \in All \X Messages : owner[e[2]] = e[1]}
Searched == phase = "search" /\ calls = << >> /\ next \notin All

Baseline ==
  /\ Searched /\ without = NoEdge
  /\ base' = Pairs /\ todo' = Pairs /\ phase' = "test"
  /\ UNCHANGED <<inputVars, blockVars, searchVars, forced>>

Test == \E e \in todo :
  /\ phase = "test"
  /\ Search(e)
  /\ UNCHANGED <<inputVars, blockVars, resultVars>>

Judge ==
  /\ Searched /\ without # NoEdge
  /\ forced' = IF size < Cardinality(base) THEN forced \cup {without} ELSE forced
  /\ todo' = todo \ {without} /\ phase' = "test"
  /\ UNCHANGED <<inputVars, blockVars, searchVars, base>>

SearchStep == Call \/ Skip \/ Ask \/ Take \/ TakeOver \/ GiveUp

Next == Spread \/ SearchAll \/ SearchStep \/ Baseline \/ Test \/ Judge

Spec == Init /\ [][Next]_vars

-----------------------------------------------------------------------------
(* Properties. *)

(* What is claimed is forced whichever of the unverified relations are     *)
(* real, and of the sends that are not blocked nothing forced is left out: *)
(* "omitting an unknown edge could otherwise make a different edge look    *)
(* forced" (reconcileOutboundConversation).  The search has to move sends  *)
(* that have a message, and the blockade has to spread, for this.          *)
Claims == phase = "test" /\ todo = {}

ClaimsForced ==
  Claims => \A real \in SUBSET unknown :
              forced = {e \in Forced(Edges \cup real) : e[1] \notin sends}
=============================================================================
