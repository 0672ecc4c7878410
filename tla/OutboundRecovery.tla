-------------------------- MODULE OutboundRecovery --------------------------
(***************************************************************************)
(* The recovery worker (outboundSyncLoop in outbound.go), and the parts it *)
(* shares with the handler and the reconciler: tying a row to its          *)
(* conversation, reporting a failure, finishing a row that has found its   *)
(* message.                                                                *)
(***************************************************************************)
EXTENDS OutboundThread

-----------------------------------------------------------------------------
(* Tying a row to the conversation (prepareAndBindOutboundPendingPortal,    *)
(* bindOutboundSendToConversation, bindOutboundPortalOwnership).  next says *)
(* who asked: the handler before ("baseline") or after the POST ("ack"),    *)
(* the worker ("fetch") or the reconciler ("unbound").                      *)

BindFailed(t) == CASE mem[t].next = "baseline" -> "drop"
                   [] mem[t].next = "ack"      -> "unsure"
                   [] mem[t].next = "fetch"    -> "defer"
                   [] OTHER                    -> "broken"

Stage(t) == LET s == cur[t] IN
  /\ At(t, "stage")
  /\ \/ PrepareConversationBinding(s, Conv) /\ Statement(t, "move")
     \/ conversation[s] = Conv /\ state[s] \in PendingStates /\ Decide(t, "move")
     \/ ~Stageable(s, Conv) /\ ~(conversation[s] = Conv /\ state[s] \in PendingStates) /\ Decide(t, BindFailed(t))
     \/ Fail(t, BindFailed(t))

(* The framework moves the draft's room to the conversation's portal.  When *)
(* that portal has a room of its own the draft's room is replaced by it.    *)
Move(t) == LET s == cur[t]
               r == RoomOf[s]
               open == Present(s) /\ s \notin terminal
               Collide == /\ Goto(t, IF mem[t].next = "baseline" THEN "drop" ELSE "park")
                          /\ IF mem[t].next = "ack" THEN DropPending(t, s) ELSE UNCHANGED pending IN
  /\ At(t, "move")
  /\ \/ ~open /\ Decide(t, BindFailed(t))
     \/ open /\ MoveRoom(r, Conv) /\ Statement(t, "bind")
     \/ /\ open /\ owner[r] = Draft
        /\ LoseRoom(r) /\ Collide
        /\ Spend \/ (UNCHANGED faults /\ \E q \in Rooms : owner[q] = Conv)
        /\ UNCHANGED <<lockVars, netVars, told, calls>>
     \/ open /\ owner[r] = Conv /\ Decide(t, "bind")
     \/ open /\ owner[r] = NoConv /\ Collide /\ UNCHANGED <<storeVars, World>>
     \/ open /\ owner[r] = NoConv /\ Decide(t, BindFailed(t))
     \/ Fail(t, BindFailed(t))

Bind(t) == LET s == cur[t] IN
  /\ At(t, "bind")
  /\ \/ BindConversation(s, Conv) /\ Statement(t, mem[t].next)
     \/ ~Bindable(s, Conv) /\ conversation[s] = Conv /\ Decide(t, mem[t].next)
     \/ ~Bindable(s, Conv) /\ conversation[s] # Conv /\ Decide(t, BindFailed(t))
     \/ Fail(t, BindFailed(t))

-----------------------------------------------------------------------------
(* Reporting a failure (finishOutboundNotSubmitted, finishOutboundUnconfirmed, *)
(* notifyOutboundStatusAtLeastOnce).                                           *)

AfterNotice(t) == IF mem[t].next \in {"unbound", "resolved", "claim"} THEN mem[t].next ELSE "leave"
GiveUp(t)      == IF AfterNotice(t) = "leave" THEN "leave" ELSE "broken"

NotifyClaim(t) == LET s == cur[t] IN
  /\ At(t, "notify")
  /\ \/ /\ ClaimStatusDelivery(s, t)
        /\ Work(t, "tell", s, [mem[t] EXCEPT !.kind = state[s]])
        /\ UNCHANGED <<World, pending>>
     \/ /\ ~Claimable(s)
        /\ DropPending(t, s)
        /\ Goto(t, AfterNotice(t))
        /\ UNCHANGED <<storeVars, World>>
     \/ Fail(t, "postpone")

(* Mutant: an error counts as delivered. *)
TellIgnoringErrors(t) == LET s == cur[t]
                             seen == told \cup {<<s, mem[t].kind>>} IN
  /\ At(t, "tell")
  /\ UNCHANGED <<storeVars, lockVars, pending, netVars, calls>>
  /\ \/ told' = seen /\ Goto(t, "finish_notice") /\ UNCHANGED faults
     \/ told' \in {told, seen} /\ Spend /\ Goto(t, "finish_notice")

(* sendOutboundStatus: an error may come after the user has seen it. *)
Tell(t) == LET s == cur[t]
               seen == told \cup {<<s, mem[t].kind>>} IN
  /\ At(t, "tell")
  /\ UNCHANGED <<storeVars, lockVars, pending, netVars, calls>>
  /\ \/ told' = seen /\ Goto(t, "finish_notice") /\ UNCHANGED faults
     \/ told' \in {told, seen} /\ Spend /\ Goto(t, "release_notice")

FinishNotice(t) == LET s == cur[t] IN
  /\ At(t, "finish_notice")
  /\ \/ /\ FinishStatusDelivery(s, t)
        /\ DropPending(t, s)
        /\ Goto(t, AfterNotice(t))
        /\ UNCHANGED World
     \/ /\ s \in notified
        /\ DropPending(t, s)
        /\ Goto(t, AfterNotice(t))
        /\ UNCHANGED <<storeVars, World>>
     \/ s \notin notified /\ ~Finishable(s, t) /\ Decide(t, "postpone")
     \/ Fail(t, "postpone")

ReleaseNotice(t) == LET s == cur[t] IN
  /\ At(t, "release_notice")
  /\ \/ ReleaseStatusDelivery(s, t) /\ Statement(t, "postpone")
     \/ ~(token[s] = t /\ s \notin notified) /\ Decide(t, "postpone")
     \/ Fail(t, "postpone")

(* deferOutboundRecovery of a row that is resolved or terminal. *)
Postpone(t) == LET s == cur[t] IN
  /\ At(t, "postpone")
  /\ \/ ScheduleRetry(s) /\ Statement(t, AfterNotice(t))
     \/ ~Present(s) /\ Decide(t, GiveUp(t))
     \/ Fail(t, GiveUp(t))

(* parkOutboundUnconfirmed of a row that is in flight. *)
ParkFailed(t) == IF mem[t].next = "fetch" THEN "defer" ELSE GiveUp(t)

Park(t) == LET s == cur[t] IN
  /\ At(t, "park")
  /\ \/ MarkUnconfirmed(s) /\ DropPending(t, s) /\ Goto(t, "notify") /\ UNCHANGED World
     \/ ~(InFlight(s) /\ remoteID[s] = NoRemote) /\ Decide(t, ParkFailed(t))
     \/ Fail(t, ParkFailed(t))

(* Mutant: no age limit. *)
DeferForever(t) == LET s == cur[t] IN
  /\ At(t, "defer")
  /\ \/ MarkUncertain(s) /\ Statement(t, "leave")
     \/ ~InFlight(s) /\ Decide(t, "leave")
     \/ Fail(t, "leave")

(* deferOutboundRecovery of a row in flight: it becomes unconfirmed after a *)
(* day and uncertain until then.                                            *)
Defer(t) == LET s == cur[t] IN
  /\ At(t, "defer")
  /\ \/ /\ s \in aged
        /\ Work(t, "park", s, [mem[t] EXCEPT !.next = "leave"])
        /\ UNCHANGED <<storeVars, World, pending>>
     \/ s \notin aged /\ MarkUncertain(s) /\ Statement(t, "leave")
     \/ s \notin aged /\ ~InFlight(s) /\ Decide(t, "leave")
     \/ Fail(t, "leave")

-----------------------------------------------------------------------------
(* Finishing a row that has claimed its message (finalizeOutboundWithoutEcho, *)
(* persistOutboundMapping).                                                   *)

FinishFailed(t) == IF mem[t].next = "leave" THEN "postpone" ELSE "broken"

MappingConflict(s, m) == \/ owner[RoomOf[s]] # Conv
                         \/ EventMapped(EventOf[s]) /\ mapped[m] # EventOf[s]
                         \/ mapped[m] \notin {Unmapped, EventOf[s]}

MapEvent(t) == LET s == cur[t]
                   m == mem[t].rid IN
  /\ At(t, "map")
  /\ \/ /\ ~MappingConflict(s, m)
        /\ \/ mapped[m] = EventOf[s] /\ UNCHANGED storeVars
           \/ MapMessage(m, EventOf[s])
        /\ DropPending(t, s)
        /\ Goto(t, "succeed")
        /\ UNCHANGED World
     \/ MappingConflict(s, m) /\ Decide(t, "unmap")
     \/ Fail(t, FinishFailed(t))

Unmap(t) == LET s == cur[t]
                m == mem[t].rid IN
  /\ At(t, "unmap")
  /\ \/ MarkResolvedUnconfirmed(s, m) /\ DropPending(t, s) /\ Goto(t, "notify") /\ UNCHANGED World
     \/ ~(state[s] = "resolved" /\ remoteID[s] = m) /\ Decide(t, FinishFailed(t))
     \/ Fail(t, FinishFailed(t))

Succeed(t) == LET s == cur[t] IN
  /\ At(t, "succeed")
  /\ UNCHANGED <<storeVars, lockVars, pending, netVars, calls>>
  /\ \/ told' = told \cup {<<s, "success">>} /\ Goto(t, "complete") /\ UNCHANGED faults
     \/ told' \in {told, told \cup {<<s, "success">>}} /\ Spend /\ Goto(t, FinishFailed(t))

Complete(t) == LET s == cur[t]
                   m == mem[t].rid IN
  /\ At(t, "complete")
  /\ \/ MarkCompleted(s, m) /\ Statement(t, mem[t].next)
     \/ ~Completable(s, m) /\ Decide(t, IF state[s] = "completed" /\ remoteID[s] = m
                                        THEN mem[t].next ELSE FinishFailed(t))
     \/ Fail(t, FinishFailed(t))

-----------------------------------------------------------------------------
(* The recovery worker (processNextDueOutboundSend, prepareNextDueOutboundSend). *)

(* Mutant: a resolved row skips its mapping. *)
DueStepUnmapped(s) == CASE state[s] \in FailedStates /\ s \in notified    -> "purge"
                        [] state[s] \in FailedStates /\ s \notin notified -> "notify"
                        [] state[s] = "prepared"                          -> "cancel"
                        [] state[s] = "resolved"                          -> "succeed"
                        [] state[s] \in InFlightStates /\ conversation[s] = NoConv -> "recover"
                        [] state[s] \in InFlightStates /\ conversation[s] # NoConv -> "fetch"
DueStep(s) == CASE state[s] \in FailedStates /\ s \in notified    -> "purge"
                [] state[s] \in FailedStates /\ s \notin notified -> "notify"
                [] state[s] = "prepared"                          -> "cancel"
                [] state[s] = "resolved"                          -> "map"
                [] state[s] \in InFlightStates /\ conversation[s] = NoConv -> "recover"
                [] state[s] \in InFlightStates /\ conversation[s] # NoConv -> "fetch"

Due(t) ==
  /\ t \in Workers /\ At(t, "idle")
  /\ Acquire(t)
  /\ \E s \in NextDue : Work(t, DueStep(s), s, [Idle EXCEPT !.job = s, !.rid = remoteID[s]])
  /\ UNCHANGED <<storeVars, pending, netVars, told, boundVars>>

Purge(t) == LET s == cur[t] IN
  /\ At(t, "purge")
  /\ \/ DeleteFailed(s) /\ DropPending(t, s) /\ Goto(t, "leave") /\ UNCHANGED World
     \/ ~Present(s) /\ Decide(t, "leave")
     \/ Fail(t, "leave")

(* Mutant: the row that was read is cancelled, whatever became of it. *)
CancelUnchecked(t) == LET s == cur[t] IN
  /\ At(t, "cancel")
  /\ \/ Terminate(s, "not_submitted") /\ UNCHANGED remoteID /\ Statement(t, "notify")
     \/ ~CanReceipt(s) /\ Decide(t, "leave")
     \/ Fail(t, "leave")

Cancel(t) == LET s == cur[t] IN
  /\ At(t, "cancel")
  /\ \/ ClaimPreparedNotSubmitted(s) /\ Statement(t, "notify")
     \/ ~Submittable(s) /\ Decide(t, "leave")
     \/ Fail(t, "leave")

(* recoverOutboundConversationBinding: a conversation that exists may lie   *)
(* past the pages the search reads.                                         *)
Recover(t) == LET s == cur[t]
                  Bound == Work(t, "stage", s, [mem[t] EXCEPT !.next = "fetch"]) IN
  /\ At(t, "recover")
  /\ \/ /\ staged[s] = Conv \/ landed # {}
        /\ Bound /\ UNCHANGED <<storeVars, World, pending>>
     \/ staged[s] = NoConv /\ Decide(t, "park")
     \/ Fail(t, "defer")

(* finishDueOutboundSend: what is left of the due send after its sync. *)
Settle(t) == LET s == mem[t].job
                 Then(l) == /\ Work(t, l, s, [mem[t] EXCEPT !.next = "leave", !.rid = remoteID[s]])
                            /\ UNCHANGED <<storeVars, World, pending>>
                 open == Present(s) /\ s \notin terminal IN
  /\ At(t, "settle")
  /\ \/ ~Present(s) /\ Decide(t, "leave")
     \/ s \in terminal /\ DropPending(t, s) /\ Goto(t, "leave") /\ UNCHANGED <<storeVars, World>>
     \/ open /\ state[s] = "resolved" /\ Then("map")
     \/ open /\ state[s] # "resolved" /\ mem[t].outcome = "failed" /\ Then("defer")
     \/ open /\ state[s] # "resolved" /\ mem[t].outcome = "clean" /\ Then("park")
     \/ Fail(t, "leave")
=============================================================================
