-------------------------- MODULE OutboundHandler ---------------------------
(***************************************************************************)
(* The Matrix message handler (sendMatrixMessageToTumblr in client.go):    *)
(* from the delivery of a Matrix event to the POST and its answer.         *)
(***************************************************************************)
EXTENDS OutboundThread

Begin(t, s) ==
  /\ t \in Handlers /\ At(t, "idle")
  /\ calls[s] < MaxCalls
  /\ calls' = [calls EXCEPT ![s] = @ + 1]
  /\ Acquire(t)
  /\ Work(t, "load", s, Idle)
  /\ UNCHANGED <<storeVars, pending, netVars, told, faults>>

(* A draft's conversation is found by its participants once it exists. *)
KnownConv(s) == owner[RoomOf[s]] = Conv \/ (owner[RoomOf[s]] = Draft /\ landed # {})

(* Whether the row still has to be tied to the conversation before the POST. *)
MustBind(s, bound) ==
  \/ owner[RoomOf[s]] = Draft /\ (KnownConv(s) \/ bound \/ staged[s] = Conv)
  \/ ~bound /\ (staged[s] = Conv \/ owner[RoomOf[s]] = Conv)

Load(t) == LET s     == cur[t]
               bound == owner[RoomOf[s]] = Conv
               Proceed(b) == Work(t, IF MustBind(s, b) THEN "stage" ELSE "baseline",
                                  s, [mem[t] EXCEPT !.next = "baseline"])
           IN
  /\ At(t, "load")
  /\ UNCHANGED World
  /\ \/ /\ owner[RoomOf[s]] # NoConv /\ Insertable(s)
        /\ Insert(s, IF bound THEN Conv ELSE NoConv)
        /\ Proceed(bound)
     \/ /\ owner[RoomOf[s]] # NoConv /\ ~EventMapped(EventOf[s]) /\ state[s] = "prepared"
        /\ Proceed(conversation[s] = Conv)
        /\ UNCHANGED storeVars
     \/ /\ owner[RoomOf[s]] = NoConv \/ ~(Insertable(s) \/ state[s] = "prepared") \/ EventMapped(EventOf[s])
        /\ Goto(t, "leave")
        /\ UNCHANGED storeVars
  /\ pending' = IF state[s] \in FailedStates THEN [pending EXCEPT ![Host[t]] = @ \ {s}] ELSE pending

(* pendingAfterPreparedOwnershipLoss: another process took the row. *)
Yield(t) == LET s == cur[t] IN
  /\ Goto(t, "leave")
  /\ IF state[s] \in FailedStates \/ (state[s] \in {"absent", "completed"} /\ ~EventMapped(EventOf[s]))
     THEN DropPending(t, s)
     ELSE UNCHANGED pending
  /\ UNCHANGED <<storeVars, World>>

(* The read of the conversation's first page that excludes its messages as  *)
(* echoes; a conversation not yet known has none.                           *)
Baseline(t) == LET s == cur[t] IN
  /\ At(t, "baseline")
  /\ \/ /\ state[s] = "prepared"
        /\ Work(t, "submit", s, [mem[t] EXCEPT !.view = IF conversation[s] = Conv THEN landed ELSE {}])
        /\ UNCHANGED <<storeVars, World, pending>>
     \/ state[s] # "prepared" /\ Yield(t)
     \/ state[s] = "prepared" /\ Fail(t, "drop")

(* The compare-and-swap that licenses the POST.  An error may come back     *)
(* after the statement was applied.                                         *)
Submit(t) == LET s == cur[t] IN
  /\ At(t, "submit")
  /\ \/ /\ MarkSubmitting(s, mem[t].view)
        /\ pending' = [pending EXCEPT ![Host[t]] = @ \cup {s}]
        /\ Goto(t, "post")
        /\ UNCHANGED World
     \/ ~Submittable(s) /\ Yield(t)
     \/ Fail(t, "drop")
     \/ /\ MarkSubmitting(s, mem[t].view)
        /\ Spend /\ Goto(t, "drop")
        /\ UNCHANGED <<lockVars, pending, netVars, told, calls>>

(* deletePreparedOutbound.  The framework shows the error that the handler  *)
(* returns; told has only the statuses that the outbox decides.             *)
Drop(t) == LET s == cur[t] IN
  /\ At(t, "drop")
  /\ \/ DeletePrepared(s) /\ DropPending(t, s) /\ Goto(t, "leave") /\ UNCHANGED World
     \/ state[s] # "prepared" /\ Yield(t)
     \/ Fail(t, "leave")

-----------------------------------------------------------------------------
(* The POST and its answer. *)

Post(t) == LET s == cur[t] IN
  /\ At(t, "post")
  /\ posts' = [posts EXCEPT ![s] = @ + 1]
  /\ inflight' = inflight \cup {s}
  /\ Goto(t, "answer")
  /\ UNCHANGED <<storeVars, lockVars, pending, landed, refused, told, boundVars>>

(* Mutant: an answer that did not come counts as a refusal. *)
DefiniteOnTimeout(s) == Own[s] \notin landed
(* Whether the error is Tumblr's refusal (not IsMessageSendOutcomeUnknown). *)
Definite(s) == s \in refused

(* Accepted, with all or part of the conversation in the response; unknown  *)
(* (IsMessageSendOutcomeUnknown), at any time; or refused.                  *)
Answer(t) == LET s == cur[t] IN
  /\ At(t, "answer")
  /\ UNCHANGED <<storeVars, World, pending>>
  /\ \/ /\ Own[s] \in landed
        /\ \E seen \in {{}, {Own[s]}, landed} :
             Work(t, IF conversation[s] = NoConv THEN "stage" ELSE "ack",
                  s, [mem[t] EXCEPT !.view = seen, !.next = "ack"])
     \/ Goto(t, "unsure")
     \/ Definite(s) /\ Goto(t, "reject")

Ack(t) == LET s == cur[t] IN
  /\ At(t, "ack")
  /\ \/ MarkAwaitingEcho(s) /\ Statement(t, "claim_response")
     \/ ~Awaitable(s) /\ Decide(t, "unsure")
     \/ Fail(t, "unsure")

(* keepOutboundPendingAfterSubmit: the result of the statement is ignored. *)
Unsure(t) == LET s == cur[t] IN
  /\ At(t, "unsure")
  /\ \/ MarkUncertain(s) /\ Statement(t, "leave")
     \/ ~InFlight(s) /\ Decide(t, "leave")
     \/ Fail(t, "leave")

Reject(t) == LET s == cur[t] IN
  /\ At(t, "reject")
  /\ \/ MarkSubmittingNotSubmitted(s) /\ Statement(t, "notify")
     \/ ~Rejectable(s) /\ Yield(t)
     \/ Fail(t, "leave")

-----------------------------------------------------------------------------
(* claimOutboundSendResponseLocked.  A candidate is a message the send may  *)
(* have become (outboundMessageCandidate).                                  *)
Candidate(s, m) == /\ m \notin baseline[s]
                   /\ Content[m] = Content[s]
                   /\ mapped[m] = Unmapped
                   /\ \A r \in Sends \ {s} : ~(state[r] = "resolved" /\ remoteID[r] = m)

SoleClaim(s, m, seen) ==
  /\ s \in Matchable(Conv)
  /\ {x \in seen : Candidate(s, x)} = {m}
  /\ \A r \in Matchable(Conv) \ {s} : ~Candidate(r, m)
  /\ Unbound \ {s} = {}

ClaimResponse(t) == LET s == cur[t] IN
  /\ At(t, "claim_response")
  /\ \/ \E m \in mem[t].view : /\ SoleClaim(s, m, mem[t].view)
                               /\ FreeRemote(s, m)
                               /\ ClaimRemoteMessage(s, m)
                               /\ Statement(t, "leave")
     \/ /\ ~\E m \in mem[t].view : SoleClaim(s, m, mem[t].view) /\ FreeRemote(s, m)
        /\ Decide(t, "leave")
     \/ Fail(t, "leave")
=============================================================================
