------------------------------ MODULE Outbound ------------------------------
(***************************************************************************)
(* How one login's messages leave the bridge: the message handlers, the    *)
(* recovery workers and the conversation syncs of several processes, the   *)
(* tables they share, Tumblr, the user, failures and time.                 *)
(***************************************************************************)
EXTENDS OutboundSync

-----------------------------------------------------------------------------
(* The environment: Tumblr, the user, failures and time. *)

Land(s) ==
  /\ s \in inflight
  /\ inflight' = inflight \ {s}
  /\ landed' = landed \cup {Own[s]}
  /\ UNCHANGED <<storeVars, threadVars, lockVars, pending, refused, posts, told, boundVars>>

Refuse(s) ==
  /\ s \in inflight
  /\ inflight' = inflight \ {s}
  /\ refused' = refused \cup {s}
  /\ UNCHANGED <<storeVars, threadVars, lockVars, pending, landed, posts, told, boundVars>>

(* Someone writes to the conversation past the bridge. *)
Write(m) ==
  /\ m \in Foreign \ landed
  /\ Spend
  /\ landed' = landed \cup {m}
  /\ UNCHANGED <<storeVars, threadVars, lockVars, pending, inflight, refused, posts, told, calls>>

(* Tumblr reports the conversation deleted (terminalizeOutboundConversation, *)
(* under the fence).                                                         *)
ConversationGone(t) ==
  /\ t \in Syncers /\ At(t, "idle") /\ Unfenced(t)
  /\ Spend
  /\ TerminalizeConversation(Conv)
  /\ pending' = [pending EXCEPT ![Host[t]] = @ \ Cancellable(Conv)]
  /\ UNCHANGED <<threadVars, lockVars, netVars, told, calls>>

RoomGone(r) ==
  /\ owner[r] # NoConv
  /\ Spend
  /\ LoseRoom(r)
  /\ UNCHANGED <<threadVars, lockVars, pending, netVars, told, calls>>

(* The database connection that holds the lock drops; its holder goes on. *)
LoseSession ==
  /\ session # NoThread
  /\ Spend
  /\ session' = NoThread
  /\ UNCHANGED <<storeVars, threadVars, fence, pending, netVars, told, calls>>

Crash(p) == LET dead == {t \in Threads : Host[t] = p} IN
  /\ \E t \in dead : ~At(t, "idle")
  /\ Spend
  /\ pc' = [t \in Threads |-> IF t \in dead THEN "idle" ELSE pc[t]]
  /\ cur' = [t \in Threads |-> IF t \in dead THEN NoSend ELSE cur[t]]
  /\ mem' = [t \in Threads |-> IF t \in dead THEN Idle ELSE mem[t]]
  /\ fence' = [fence EXCEPT ![p] = NoThread]
  /\ session' = IF session \in dead THEN NoThread ELSE session
  /\ pending' = [pending EXCEPT ![p] = {}]
  /\ UNCHANGED <<storeVars, netVars, told, calls>>

Clock(A) == A /\ UNCHANGED <<threadVars, lockVars, pending, netVars, told, boundVars>>

-----------------------------------------------------------------------------

HandlerStep(t) == \/ Load(t) \/ Baseline(t) \/ Submit(t) \/ Drop(t) \/ Post(t) \/ Answer(t)
                  \/ Ack(t) \/ Unsure(t) \/ Reject(t) \/ ClaimResponse(t)
BindStep(t)    == Stage(t) \/ Move(t) \/ Bind(t)
NoticeStep(t)  == NotifyClaim(t) \/ Tell(t) \/ FinishNotice(t) \/ ReleaseNotice(t) \/ Postpone(t)
FinishStep(t)  == MapEvent(t) \/ Unmap(t) \/ Succeed(t) \/ Complete(t) \/ Park(t) \/ Defer(t)
WorkerStep(t)  == Purge(t) \/ Cancel(t) \/ Recover(t) \/ Settle(t)
SyncStep(t)    == \/ Fetch(t) \/ BindUnbound(t) \/ FinishResolved(t) \/ Match(t) \/ Claim(t) \/ Broken(t)
                  \/ Handover(t) \/ Deliver(t) \/ Persist(t) \/ Relock(t)
Continue(t)    == \/ HandlerStep(t) \/ BindStep(t) \/ NoticeStep(t) \/ FinishStep(t) \/ WorkerStep(t)
                  \/ SyncStep(t) \/ Leave(t)
Start(t)       == (\E s \in Sends : Begin(t, s)) \/ Due(t) \/ Sync(t)

Faulty == \/ \E t \in Threads : ConversationGone(t)
          \/ \E r \in Rooms : RoomGone(r)
          \/ LoseSession
          \/ \E p \in Procs : Crash(p)
Remote == (\E s \in Sends : Land(s) \/ Refuse(s)) \/ (\E m \in Remotes : Write(m))
Time   == \E s \in Sends : Clock(FallDue(s)) \/ Clock(LapseClaim(s)) \/ Clock(GrowOld(s))

Next == (\E t \in Threads : Start(t) \/ Continue(t)) \/ Faulty \/ Remote \/ Time

Spec == Init /\ [][Next]_vars

(* A call goes on until it ends: requests and statements have deadlines.    *)
(* Whoever waits for the fence gets it: a mutex serves waiters in turn, but *)
(* a lock of the database is polled, and that the polls do not miss it for  *)
(* ever is an assumption.  A due row is the next one when it is the oldest, *)
(* and timers fire.                                                         *)
Fairness ==
  /\ \A t \in Threads : WF_vars(Continue(t))
  /\ \A t \in Workers : SF_vars(Relock(t) \/ Due(t))
  /\ \A t \in Syncers : SF_vars(Sync(t))
  /\ \A s \in Sends : /\ SF_vars(session = NoThread /\ Clock(FallDue(s)))
                      /\ WF_vars(Clock(LapseClaim(s) \/ GrowOld(s)))

LiveSpec == Spec /\ Fairness

-----------------------------------------------------------------------------
(* Properties. *)

(* A send leaves for Tumblr at most once, whatever is redelivered, crashes  *)
(* or loses its lock between the row and the POST (MarkSubmitting licenses  *)
(* the POST; sendMatrixMessageToTumblr).                                    *)
AtMostOnePost == \A s \in Sends : posts[s] <= 1

(* A send that is recorded or reported as not submitted is not on Tumblr,   *)
(* is not on its way, and was not reported as delivered                     *)
(* (WithIsCertain(true) in finishOutboundNotSubmitted).                     *)
CertainFailure ==
  \A s \in Sends : state[s] = "not_submitted" \/ <<s, "not_submitted">> \in told =>
    Own[s] \notin landed /\ s \notin inflight /\ <<s, "success">> \notin told

(* A send reported as delivered stands for a message with its content that  *)
(* really is in the conversation, and no other event stands for that one,   *)
(* unless its room is gone (finalizeOutboundWithoutEcho saves the mapping   *)
(* before it reports).                                                      *)
HonestSuccess ==
  \A s \in Sends : <<s, "success">> \in told =>
    \/ owner[RoomOf[s]] = NoConv
    \/ \E m \in landed : mapped[m] = EventOf[s] /\ Content[m] = Content[s]

(* No send ends in silence: a row is completed, marked notified or deleted  *)
(* after its POST only when the user has been told (retainCompletedOutbound, *)
(* notifyOutboundStatusAtLeastOnce, deleteUnconfirmedOutboundSendQuery).    *)
NeverSilent ==
  \A s \in Sends :
    /\ state[s] = "completed" => <<s, "success">> \in told
    /\ s \in notified => <<s, state[s]>> \in told
    /\ Present(s) \/ submits[s] = 0 \/ \E k \in FailedStates : <<s, k>> \in told

(* The outbox took the message m for r's, or gave r up, which may have been m. *)
Took(r, m) == /\ Content[r] = Content[m]
              /\ remoteID[r] = m \/ state[r] = "unconfirmed" \/ <<r, "unconfirmed">> \in told

(* While a send waits for its echo, no sync bridges that echo as a message  *)
(* of its own, unless another send of its content was taken for it or given *)
(* up (the quarantine of reconcileOutboundConversation, which spans the     *)
(* fetch under the fence and the delivery after it).                        *)
HeldBack ==
  \A s \in Sends : InFlight(s) /\ Content[Own[s]] = Content[s] /\ mapped[Own[s]] = Ordinary =>
    \E r \in Sends \ {s} : Took(r, Own[s])

(* The threads use the outbox only through its statements.                  *)
UsesStore == StoreSpec

(* The sends keep the outbox's promise.                                     *)
Journey == [s \in Sends |-> CASE posts[s] = 0   -> "unsent"
                            [] s \in inflight -> "travelling"
                            [] s \in refused  -> "refused"
                            [] OTHER          -> "arrived"]
Promise == INSTANCE OutboundPromise WITH
             world <- Journey,
             verdicts <- [s \in Sends |-> {k \in Verdicts : <<s, k>> \in told}]
KeepsPromise == Promise!PromiseSpec

(* Every send that was marked submitting is reported, whatever crashes or   *)
(* fails meanwhile (the age limit of deferOutboundRecovery).                *)
EverySendReported ==
  \A s \in Sends : submits[s] > 0 ~> \E k \in Verdicts : <<s, k>> \in told

(* Every message of the conversation reaches Matrix, also one that was held *)
(* back because several sends, or none, could have become it                *)
(* (outboundReconciliationDeferredError).                                   *)
EveryMessageBridged == \A m \in Remotes : m \in landed ~> mapped[m] # Unmapped
=============================================================================
