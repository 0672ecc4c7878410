------------------------ MODULE OutboundStoreProofs ------------------------
(***************************************************************************)
(* What the outbox promises for every set of logins, events, conversations *)
(* and messages, under any order of its statements (OutboundStore).        *)
(*                                                                         *)
(* AtMostOneSubmission is not inductive.  It needs to know which row an    *)
(* event's receipt belongs to (ReceiptsMatch), that an event has one row   *)
(* (OneRowPerEvent) and which states a submitted row can be in             *)
(* (SubmissionsTraced).                                                    *)
(***************************************************************************)
EXTENDS OutboundStore, TLAPS

EndStates == FailedStates \cup {"completed"}

OneRowPerEvent ==
  \A s, r \in Sends : Present(s) /\ Present(r) /\ EventOf[s] = EventOf[r] => s = r

ReceiptsMatch ==
  \A s \in Sends :
    /\ s \in terminal <=> state[s] \in EndStates
    /\ s \in terminal => receipt[EventOf[s]] = s
    /\ Present(s) /\ s \notin terminal => receipt[EventOf[s]] = NoSend

SubmissionsTraced ==
  \A s \in Sends :
    /\ submits[s] \in {0, 1}
    /\ state[s] \in InFlightStates \cup IdentityStates \cup {"unconfirmed"} => submits[s] = 1
    /\ submits[s] = 1 => \/ state[s] \in InFlightStates \cup {"resolved"}
                         \/ receipt[EventOf[s]] = s

IInv == /\ StoreTypeOK
        /\ SchemaHolds
        /\ OneRowPerEvent
        /\ ReceiptsMatch
        /\ SubmissionsTraced
        /\ RemoteClaimedOnce

(* What every statement keeps: the invariant, and the two promises about    *)
(* what a step may never do.                                                *)
SafeStep == IInv' /\ FinalityStep /\ OutcomeStep

USE DEF PendingStates, InFlightStates, FailedStates, IdentityStates, States, EndStates, Present,
        StoreTypeOK, SchemaHolds, OneRowPerEvent, ReceiptsMatch, SubmissionsTraced,
        RemoteClaimedOnce, IInv, FinalityStep, OutcomeStep, SafeStep, rowVars, claimVars

-----------------------------------------------------------------------------
(* One lemma per statement. *)

(* What the transaction that ends a row writes (withTerminalReceipt). *)
LEMMA TerminateFacts ==
  ASSUME StoreTypeOK, NEW s \in Sends, NEW st \in States, Terminate(s, st)
  PROVE  /\ \A r \in Sends : state'[r] = IF r = s THEN st ELSE state[r]
         /\ \A e \in Events : receipt'[e] = IF e = EventOf[s] THEN s ELSE receipt[e]
         /\ receipt[EventOf[s]] \in {NoSend, s}
         /\ terminal' = terminal \cup {s}
         /\ submits' = submits
         /\ remoteID' \in [Sends -> Remotes \cup {NoRemote}] => StoreTypeOK'
<1> USE StoreAssumption DEF Terminate, CanReceipt, WriteReceipt, SetState, Reschedule
<1>1. EventOf[s] \in Events
  OBVIOUS
<1>2. state' \in [Sends -> States]
  OBVIOUS
<1>3. receipt' \in [Events -> Sends \cup {NoSend}]
  BY <1>1
<1>4. /\ UNCHANGED <<conversation, staged, baseline, notified, token, lapsed, aged, mapped, owner, submits>>
      /\ terminal' \subseteq Sends /\ due' \subseteq Sends
  OBVIOUS
<1>5. remoteID' \in [Sends -> Remotes \cup {NoRemote}] => StoreTypeOK'
  <2> HIDE DEF Terminate
  <2> QED BY <1>2, <1>3, <1>4
<1> QED BY <1>1, <1>2, <1>3, <1>5

(* A row that may end in st keeps the receipts and the submissions straight: *)
(* no other row of its event is there, so the receipt it writes is no other  *)
(* row's (withTerminalReceipt).                                              *)
LEMMA EndRow ==
  ASSUME IInv, NEW s \in Sends, NEW st \in EndStates, Terminate(s, st),
         Present(s), s \notin terminal,
         st = "not_submitted" => state[s] \in {"prepared", "submitting"},
         st # "not_submitted" => submits[s] = 1
  PROVE  OneRowPerEvent' /\ ReceiptsMatch' /\ SubmissionsTraced' /\ FinalityStep /\ OutcomeStep
<1> USE TerminateFacts, StoreAssumption
<1>1. \A r \in Sends : r # s /\ EventOf[r] = EventOf[s] => state[r] = "absent" /\ r \notin terminal
  OBVIOUS
<1>2. OneRowPerEvent'
  BY <1>1
<1>3. ReceiptsMatch'
  BY <1>1
<1>4. SubmissionsTraced'
  <2> SUFFICES ASSUME NEW r \in Sends
      PROVE  /\ submits[r] \in {0, 1}
             /\ state'[r] \in InFlightStates \cup IdentityStates \cup {"unconfirmed"} => submits[r] = 1
             /\ submits[r] = 1 => \/ state'[r] \in InFlightStates \cup {"resolved"}
                                  \/ receipt'[EventOf[r]] = r
    OBVIOUS
  <2>1. CASE r = s
    BY <2>1
  <2>2. CASE r # s
    BY <1>1, <2>2
  <2> QED BY <2>1, <2>2
<1>5. FinalityStep
  BY <1>1
<1>6. OutcomeStep
  OBVIOUS
<1> QED BY <1>2, <1>3, <1>4, <1>5, <1>6

(* An insert finds the event free of rows and receipts (insertOutboundSendQuery). *)
LEMMA InsertStep ==
  ASSUME IInv, NEW s \in Sends, NEW c \in Convs \cup {NoConv}, Insert(s, c)
  PROVE  SafeStep
<1> USE StoreAssumption DEF Insert, Insertable, EventTaken, EventMapped, SetState
<1>1. StoreTypeOK' /\ SchemaHolds' /\ RemoteClaimedOnce'
  <2>1. StoreTypeOK'
    OBVIOUS
  <2>2. SchemaHolds'
    OBVIOUS
  <2>3. RemoteClaimedOnce'
    OBVIOUS
  <2> QED BY <2>1, <2>2, <2>3
<1>2. OneRowPerEvent' /\ ReceiptsMatch'
  BY SMTT(30)
<1>3. SubmissionsTraced'
  BY SMTT(30)
<1>4. FinalityStep /\ OutcomeStep
  BY SMTT(30)
<1> QED BY <1>1, <1>2, <1>3, <1>4

(* Staging a conversation touches an unbound row (prepareOutboundSendConversationQuery). *)
LEMMA StageStep ==
  ASSUME IInv, NEW s \in Sends, NEW c \in Convs, PrepareConversationBinding(s, c)
  PROVE  SafeStep
BY SMTT(30), StoreAssumption DEF PrepareConversationBinding, Stageable, Reschedule

(* Binding clears the staged conversation (bindOutboundSendConversationQuery). *)
LEMMA BindConversationStep ==
  ASSUME IInv, NEW s \in Sends, NEW c \in Convs, BindConversation(s, c)
  PROVE  SafeStep
BY SMTT(30), StoreAssumption DEF BindConversation, Bindable, Reschedule

(* A prepared row was never submitted (markOutboundSendSubmittingQuery). *)
LEMMA SubmitStep ==
  ASSUME IInv, NEW s \in Sends, NEW base \in Baselines, MarkSubmitting(s, base)
  PROVE  SafeStep
BY SMTT(30), StoreAssumption DEF MarkSubmitting, Submittable, SetState, Reschedule

(* The send stays in flight (markOutboundSendAwaitingEchoQuery). *)
LEMMA AwaitStep ==
  ASSUME IInv, NEW s \in Sends, MarkAwaitingEcho(s)
  PROVE  SafeStep
BY SMTT(30), StoreAssumption DEF MarkAwaitingEcho, Awaitable, InFlight, SetState, Reschedule

(* The send stays in flight (markOutboundSendUncertainQuery). *)
LEMMA DoubtStep ==
  ASSUME IInv, NEW s \in Sends, MarkUncertain(s)
  PROVE  SafeStep
BY SMTT(30), StoreAssumption DEF MarkUncertain, InFlight, SetState, Reschedule

(* A claim takes a message no other row has (claimOutboundRemoteMessageQuery). *)
LEMMA ClaimStep ==
  ASSUME IInv, NEW s \in Sends, NEW m \in Remotes, ClaimRemoteMessage(s, m)
  PROVE  SafeStep
BY SMTT(30), StoreAssumption DEF ClaimRemoteMessage, FreeRemote, InFlight, SetState, Reschedule

(* A prepared row ends behind its receipt (markPreparedOutboundNotSubmittedQuery). *)
LEMMA RejectPreparedStep ==
  ASSUME IInv, NEW s \in Sends, ClaimPreparedNotSubmitted(s)
  PROVE  SafeStep
<1>1. Present(s) /\ s \notin terminal /\ Terminate(s, "not_submitted")
  BY DEF ClaimPreparedNotSubmitted, Submittable
<1>2. StoreTypeOK' /\ SchemaHolds' /\ RemoteClaimedOnce'
  <2>1. remoteID' \in [Sends -> Remotes \cup {NoRemote}]
    BY DEF ClaimPreparedNotSubmitted
  <2>2. StoreTypeOK'
    BY <1>1, <2>1, TerminateFacts
  <2> USE StoreAssumption DEF ClaimPreparedNotSubmitted, Submittable, Terminate, CanReceipt, WriteReceipt, SetState, Reschedule
  <2>3. SchemaHolds'
    OBVIOUS
  <2>4. RemoteClaimedOnce'
    OBVIOUS
  <2> QED BY <2>2, <2>3, <2>4
<1>3. OneRowPerEvent' /\ ReceiptsMatch' /\ SubmissionsTraced' /\ FinalityStep /\ OutcomeStep
  BY <1>1, EndRow DEF ClaimPreparedNotSubmitted, Submittable
<1> QED BY <1>2, <1>3

(* A rejected row ends behind its receipt (markSubmittingOutboundNotSubmittedQuery). *)
LEMMA RejectSubmittingStep ==
  ASSUME IInv, NEW s \in Sends, MarkSubmittingNotSubmitted(s)
  PROVE  SafeStep
<1>1. Present(s) /\ s \notin terminal /\ Terminate(s, "not_submitted")
  BY DEF MarkSubmittingNotSubmitted, Rejectable
<1>2. StoreTypeOK' /\ SchemaHolds' /\ RemoteClaimedOnce'
  <2>1. remoteID' \in [Sends -> Remotes \cup {NoRemote}]
    BY DEF MarkSubmittingNotSubmitted
  <2>2. StoreTypeOK'
    BY <1>1, <2>1, TerminateFacts
  <2> USE StoreAssumption DEF MarkSubmittingNotSubmitted, Rejectable, Terminate, CanReceipt, WriteReceipt, SetState, Reschedule
  <2>3. SchemaHolds'
    OBVIOUS
  <2>4. RemoteClaimedOnce'
    OBVIOUS
  <2> QED BY <2>2, <2>3, <2>4
<1>3. OneRowPerEvent' /\ ReceiptsMatch' /\ SubmissionsTraced' /\ FinalityStep /\ OutcomeStep
  BY <1>1, EndRow DEF MarkSubmittingNotSubmitted, Rejectable
<1> QED BY <1>2, <1>3

(* A send in flight ends behind its receipt (markOutboundSendUnconfirmedQuery). *)
LEMMA UnconfirmStep ==
  ASSUME IInv, NEW s \in Sends, MarkUnconfirmed(s)
  PROVE  SafeStep
<1>1. Present(s) /\ s \notin terminal /\ Terminate(s, "unconfirmed")
  BY DEF MarkUnconfirmed, InFlight
<1>2. StoreTypeOK' /\ SchemaHolds' /\ RemoteClaimedOnce'
  <2>1. remoteID' \in [Sends -> Remotes \cup {NoRemote}]
    BY DEF MarkUnconfirmed
  <2>2. StoreTypeOK'
    BY <1>1, <2>1, TerminateFacts
  <2> USE StoreAssumption DEF MarkUnconfirmed, InFlight, Terminate, CanReceipt, WriteReceipt, SetState, Reschedule
  <2>3. SchemaHolds'
    OBVIOUS
  <2>4. RemoteClaimedOnce'
    OBVIOUS
  <2> QED BY <2>2, <2>3, <2>4
<1>3. OneRowPerEvent' /\ ReceiptsMatch' /\ SubmissionsTraced' /\ FinalityStep /\ OutcomeStep
  BY <1>1, EndRow DEF MarkUnconfirmed, InFlight
<1> QED BY <1>2, <1>3

(* A resolved row gives its message up as it ends (markResolvedOutboundSendUnconfirmedQuery). *)
LEMMA UnconfirmResolvedStep ==
  ASSUME IInv, NEW s \in Sends, NEW m \in Remotes, MarkResolvedUnconfirmed(s, m)
  PROVE  SafeStep
<1>1. Present(s) /\ s \notin terminal /\ Terminate(s, "unconfirmed")
  BY DEF MarkResolvedUnconfirmed
<1>2. StoreTypeOK' /\ SchemaHolds' /\ RemoteClaimedOnce'
  <2>1. remoteID' \in [Sends -> Remotes \cup {NoRemote}]
    BY DEF MarkResolvedUnconfirmed
  <2>2. StoreTypeOK'
    BY <1>1, <2>1, TerminateFacts
  <2> USE StoreAssumption DEF MarkResolvedUnconfirmed, Terminate, CanReceipt, WriteReceipt, SetState, Reschedule
  <2>3. SchemaHolds'
    OBVIOUS
  <2>4. RemoteClaimedOnce'
    OBVIOUS
  <2> QED BY <2>2, <2>3, <2>4
<1>3. OneRowPerEvent' /\ ReceiptsMatch' /\ SubmissionsTraced' /\ FinalityStep /\ OutcomeStep
  BY <1>1, EndRow DEF MarkResolvedUnconfirmed
<1> QED BY <1>2, <1>3

(* A resolved row ends with its message (markOutboundSendCompletedQuery). *)
LEMMA CompleteStep ==
  ASSUME IInv, NEW s \in Sends, NEW m \in Remotes, MarkCompleted(s, m)
  PROVE  SafeStep
<1>1. Present(s) /\ s \notin terminal /\ Terminate(s, "completed")
  BY DEF MarkCompleted, Completable
<1>2. StoreTypeOK' /\ SchemaHolds' /\ RemoteClaimedOnce'
  <2>1. remoteID' \in [Sends -> Remotes \cup {NoRemote}]
    BY DEF MarkCompleted
  <2>2. StoreTypeOK'
    BY <1>1, <2>1, TerminateFacts
  <2> USE StoreAssumption DEF MarkCompleted, Completable, Terminate, CanReceipt, WriteReceipt, SetState, Reschedule
  <2>3. SchemaHolds'
    OBVIOUS
  <2>4. RemoteClaimedOnce'
    OBVIOUS
  <2> QED BY <2>2, <2>3, <2>4
<1>3. OneRowPerEvent' /\ ReceiptsMatch' /\ SubmissionsTraced' /\ FinalityStep /\ OutcomeStep
  BY <1>1, EndRow DEF MarkCompleted, Completable
<1> QED BY <1>2, <1>3

(* Only a failed row can be claimed for its notice (claimOutboundStatusDeliveryQuery). *)
LEMMA ClaimStatusStep ==
  ASSUME IInv, NEW s \in Sends, NEW k \in Tokens, ClaimStatusDelivery(s, k)
  PROVE  SafeStep
BY SMTT(30), StoreAssumption DEF ClaimStatusDelivery, Claimable, Unclaimed

(* The notice is recorded and the claim cleared (finishOutboundStatusDeliveryQuery). *)
LEMMA FinishStatusStep ==
  ASSUME IInv, NEW s \in Sends, NEW k \in Tokens, FinishStatusDelivery(s, k)
  PROVE  SafeStep
BY SMTT(30), StoreAssumption DEF FinishStatusDelivery, Finishable, Reschedule

(* The claim is cleared (releaseOutboundStatusDeliveryQuery). *)
LEMMA ReleaseStatusStep ==
  ASSUME IInv, NEW s \in Sends, NEW k \in Tokens, ReleaseStatusDelivery(s, k)
  PROVE  SafeStep
BY SMTT(30), StoreAssumption DEF ReleaseStatusDelivery

(* A retry only moves the due time (scheduleOutboundSendRetryQuery). *)
LEMMA RetryStep ==
  ASSUME IInv, NEW s \in Sends, ScheduleRetry(s)
  PROVE  SafeStep
BY SMTT(30), StoreAssumption DEF ScheduleRetry, Reschedule

(* The deleted row was never submitted (deletePreparedOutboundSendQuery). *)
LEMMA DropPreparedStep ==
  ASSUME IInv, NEW s \in Sends, DeletePrepared(s)
  PROVE  SafeStep
BY SMTT(30), StoreAssumption DEF DeletePrepared, EraseRow, SetState

(* The deleted row leaves its receipt behind (deleteUnconfirmedOutboundSendQuery). *)
LEMMA DropFailedStep ==
  ASSUME IInv, NEW s \in Sends, DeleteFailed(s)
  PROVE  SafeStep
BY SMTT(30), StoreAssumption DEF DeleteFailed, EraseRow, SetState

(* Time changes no column the invariant reads (next_attempt_ts). *)
LEMMA FallDueStep ==
  ASSUME IInv, NEW s \in Sends, FallDue(s)
  PROVE  SafeStep
BY SMTT(30), StoreAssumption DEF FallDue

(* A claim expires without being cleared (status_claim_expires_ts). *)
LEMMA LapseStep ==
  ASSUME IInv, NEW s \in Sends, LapseClaim(s)
  PROVE  SafeStep
BY SMTT(30), StoreAssumption DEF LapseClaim

(* Time changes no column the invariant reads (send_started_ts). *)
LEMMA OldStep ==
  ASSUME IInv, NEW s \in Sends, GrowOld(s)
  PROVE  SafeStep
BY SMTT(30), StoreAssumption DEF GrowOld

(* Every row of the conversation ends behind its own receipt
   (terminalizeOutboundConversationQuery). *)
LEMMA TerminalizeStep ==
  ASSUME IInv, NEW c \in Convs, TerminalizeConversation(c)
  PROVE  SafeStep
BY SMTT(30), StoreAssumption DEF TerminalizeConversation, Cancellable, CanReceipt

(* The message table is not the outbox's (database.Message.Insert). *)
LEMMA MapStep ==
  ASSUME IInv, NEW m \in Remotes, NEW e \in Events \cup {Ordinary}, MapMessage(m, e)
  PROVE  SafeStep
BY SMTT(30), StoreAssumption DEF MapMessage, EventMapped

(* Nor is the portal table (ReIDPortal). *)
LEMMA MoveStep ==
  ASSUME IInv, NEW r \in Rooms, NEW c \in Convs, MoveRoom(r, c)
  PROVE  SafeStep
BY SMTT(30), StoreAssumption DEF MoveRoom

(* Nor is the portal table (portal.Delete). *)
LEMMA LoseStep ==
  ASSUME IInv, NEW r \in Rooms, LoseRoom(r)
  PROVE  SafeStep
BY SMTT(30), StoreAssumption DEF LoseRoom

-----------------------------------------------------------------------------

(* The empty tables satisfy the invariant (StoreInit). *)
THEOREM InvariantHoldsInitially == StoreInit => IInv
BY StoreAssumption DEF StoreInit

(* A step of one row (RowNext) keeps the invariant and breaks no promise. *)
LEMMA RowSteps == ASSUME IInv, NEW s \in Sends, RowNext(s) PROVE SafeStep
<1>1. CASE \E c \in Convs \cup {NoConv} : Insert(s, c)
  BY <1>1, InsertStep
<1>2. CASE \E c \in Convs : PrepareConversationBinding(s, c) \/ BindConversation(s, c)
  BY <1>2, StageStep, BindConversationStep
<1>3. CASE \E base \in Baselines : MarkSubmitting(s, base)
  BY <1>3, SubmitStep
<1>4. CASE MarkAwaitingEcho(s) \/ MarkUncertain(s)
  BY <1>4, AwaitStep, DoubtStep
<1>5. CASE \E m \in Remotes : \/ ClaimRemoteMessage(s, m)
                              \/ MarkResolvedUnconfirmed(s, m)
                              \/ MarkCompleted(s, m)
  BY <1>5, ClaimStep, UnconfirmResolvedStep, CompleteStep
<1>6. CASE ClaimPreparedNotSubmitted(s) \/ MarkSubmittingNotSubmitted(s) \/ MarkUnconfirmed(s)
  BY <1>6, RejectPreparedStep, RejectSubmittingStep, UnconfirmStep
<1>7. CASE \E k \in Tokens : \/ ClaimStatusDelivery(s, k)
                             \/ FinishStatusDelivery(s, k)
                             \/ ReleaseStatusDelivery(s, k)
  BY <1>7, ClaimStatusStep, FinishStatusStep, ReleaseStatusStep
<1>8. CASE ScheduleRetry(s) \/ DeletePrepared(s) \/ DeleteFailed(s)
  BY <1>8, RetryStep, DropPreparedStep, DropFailedStep
<1>9. CASE FallDue(s) \/ LapseClaim(s) \/ GrowOld(s)
  BY <1>9, FallDueStep, LapseStep, OldStep
<1> HIDE DEF IInv, SafeStep
<1> QED BY <1>1, <1>2, <1>3, <1>4, <1>5, <1>6, <1>7, <1>8, <1>9 DEF RowNext

(* So does a step over several rows or over the framework's tables (TableNext). *)
LEMMA TableSteps == ASSUME IInv, TableNext PROVE SafeStep
<1>1. CASE \E c \in Convs : TerminalizeConversation(c)
  BY <1>1, TerminalizeStep
<1>2. CASE \E m \in Remotes, e \in Events \cup {Ordinary} : MapMessage(m, e)
  BY <1>2, MapStep
<1>3. CASE \E r \in Rooms : LoseRoom(r) \/ \E c \in Convs : MoveRoom(r, c)
  BY <1>3, LoseStep, MoveStep
<1> HIDE DEF IInv, SafeStep
<1> QED BY <1>1, <1>2, <1>3 DEF TableNext

(* The invariant is inductive: any statement, in any state the invariant    *)
(* allows, keeps it (StoreNext).                                            *)
THEOREM InvariantIsInductive == IInv /\ [StoreNext]_storeVars => IInv'
<1> SUFFICES ASSUME IInv, [StoreNext]_storeVars PROVE IInv'
  OBVIOUS
<1>1. CASE \E s \in Sends : RowNext(s)
  BY <1>1, RowSteps
<1>2. CASE TableNext
  BY <1>2, TableSteps
<1>3. CASE UNCHANGED storeVars
  BY <1>3 DEF storeVars, rowVars, claimVars
<1> QED BY <1>1, <1>2, <1>3 DEF StoreNext

(* The invariant holds in every reachable state (StoreSpec). *)
THEOREM InvariantHolds == StoreSpec => []IInv
<1> HIDE DEF IInv
<1> QED BY InvariantHoldsInitially, InvariantIsInductive, PTL DEF StoreSpec

(* The columns keep their types (schema.sql). *)
THEOREM TypesHold == StoreSpec => []StoreTypeOK
<1>1. IInv => StoreTypeOK
  OBVIOUS
<1> HIDE DEF IInv, StoreTypeOK
<1> QED BY <1>1, InvariantHolds, PTL

(* No statement is ever refused by a CHECK constraint (schema.sql). *)
THEOREM ChecksHold == StoreSpec => []SchemaHolds
<1>1. IInv => SchemaHolds
  OBVIOUS
<1> HIDE DEF IInv, SchemaHolds
<1> QED BY <1>1, InvariantHolds, PTL

(* One Matrix event is submitted at most once, by one row, over any number  *)
(* of logins, deletions and repeated inserts (tumblr_outbound_receipt).     *)
THEOREM EventSubmittedOnce == StoreSpec => []AtMostOneSubmission
<1>1. IInv => AtMostOneSubmission
  <2> SUFFICES ASSUME IInv PROVE AtMostOneSubmission
    OBVIOUS
  <2>1. \A s \in Sends : submits[s] <= 1
    OBVIOUS
  <2>2. ASSUME NEW s \in Sends, NEW r \in Sends, EventOf[s] = EventOf[r],
               submits[s] > 0, submits[r] > 0
        PROVE  s = r
    <3>1. submits[s] = 1 /\ submits[r] = 1
      BY <2>2
    <3>2. CASE Present(s) /\ s \notin terminal
      BY <2>2, <3>1, <3>2, StoreAssumption
    <3>3. CASE receipt[EventOf[s]] = s
      BY <2>2, <3>1, <3>3, StoreAssumption
    <3> QED BY <3>1, <3>2, <3>3
  <2> QED BY <2>1, <2>2 DEF AtMostOneSubmission
<1> HIDE DEF IInv
<1> QED BY <1>1, InvariantHolds, PTL

(* Two sends never claim the same remote message (claimOutboundRemoteMessageQuery). *)
THEOREM NoSharedRemote == StoreSpec => []RemoteClaimedOnce
<1>1. IInv => RemoteClaimedOnce
  OBVIOUS
<1> HIDE DEF IInv, RemoteClaimedOnce
<1> QED BY <1>1, InvariantHolds, PTL

(* A finished row stays finished, and an event's receipt stays               *)
(* (withTerminalReceipt).                                                   *)
THEOREM RowsStayFinal == StoreSpec => Finality
<1>1. IInv /\ [StoreNext]_storeVars => [FinalityStep]_storeVars
  BY RowSteps, TableSteps DEF StoreNext
<1> HIDE DEF IInv, FinalityStep
<1> QED BY <1>1, InvariantHolds, PTL DEF StoreSpec, Finality

(* No row is reported both as certainly not sent and as possibly sent       *)
(* (markSubmittingOutboundNotSubmittedQuery).                               *)
THEOREM OutcomesNeverConflict == StoreSpec => OutcomesAgree
<1>1. IInv /\ [StoreNext]_storeVars => [OutcomeStep]_storeVars
  BY RowSteps, TableSteps DEF StoreNext
<1> HIDE DEF IInv, OutcomeStep
<1> QED BY <1>1, InvariantHolds, PTL DEF StoreSpec, OutcomesAgree
=============================================================================
