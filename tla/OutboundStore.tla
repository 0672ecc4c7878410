--------------------------- MODULE OutboundStore ---------------------------
(***************************************************************************)
(* The durable outbox of the bridge: tables tumblr_outbound_send and       *)
(* tumblr_outbound_receipt, and the statements that change them            *)
(* (pkg/connector/tumblrdb/outbound.go, schema.sql).                       *)
(*                                                                         *)
(* One SQL statement, or one transaction, is one action.  The module says  *)
(* what the table does whatever its callers do: StoreNext lets any         *)
(* statement run at any time.  Module Outbound runs them from the message  *)
(* handler, the recovery worker and the reconciler.                        *)
(*                                                                         *)
(* A send is the row key (login, transaction).  A conversation and a       *)
(* remote message are Tumblr's as ONE login sees them: every statement     *)
(* over them also compares user_login_id or room_receiver.                 *)
(* A timestamp column is                                                   *)
(* modelled by what the statements ask of it: terminal_ts > 0 (terminal),  *)
(* status_notified_ts > 0 (notified), status_claim_expires_ts <= now       *)
(* (lapsed), next_attempt_ts <= now (due), send_started_ts older than      *)
(* outboundRecoveryMaxAge (aged).                                          *)
(***************************************************************************)
EXTENDS Naturals, FiniteSets

CONSTANTS
  Sends,     \* row keys: one per (login, Matrix event)
  Events,    \* Matrix events
  EventOf,   \* the Matrix event a send delivers
  Rooms,     \* Matrix rooms
  RoomOf,    \* the Matrix room a send was written in
  Convs,     \* Tumblr conversations
  Remotes,   \* Tumblr message IDs
  Baselines, \* message sets the read before a POST may save
  Tokens,    \* status claim tokens
  NoConv,    \* '' in a conversation column, or no portal owns the room
  Draft,     \* a room is owned by a pending-DM portal, not yet by a conversation
  NoRemote,  \* '' in remote_message_id
  NoToken,   \* '' in status_claim_token
  NoSend,    \* no receipt for the event
  Unmapped,  \* no row of the framework's message table has this remote ID
  Ordinary   \* the remote message was bridged as a Matrix event of its own

ASSUME StoreAssumption ==
  /\ EventOf \in [Sends -> Events]
  /\ RoomOf \in [Sends -> Rooms]
  /\ NoConv \notin Convs /\ Draft \notin Convs /\ NoConv # Draft
  /\ NoRemote \notin Remotes
  /\ Baselines \subseteq SUBSET Remotes
  /\ NoToken \notin Tokens
  /\ NoSend \notin Sends
  /\ Unmapped \notin Events /\ Ordinary \notin Events /\ Unmapped # Ordinary

VARIABLES
  state,         \* state column, or "absent" when there is no row
  conversation,  \* conversation_id
  staged,        \* binding_conversation_id
  remoteID,      \* remote_message_id
  baseline,      \* baseline_ids_json
  terminal,      \* rows with terminal_ts > 0
  notified,      \* rows with status_notified_ts > 0
  token,         \* status_claim_token
  lapsed,        \* rows whose claim has expired
  due,           \* rows whose next_attempt_ts has passed
  aged,          \* rows older than outboundRecoveryMaxAge
  receipt,       \* tumblr_outbound_receipt: the send that owns the event's receipt
  mapped,        \* the framework's message table: remote ID -> Matrix event
  owner,         \* the framework's portal table: who owns a Matrix room
  submits        \* history: how many times a send was marked submitting

claimVars == <<notified, token, lapsed>>
rowVars   == <<state, conversation, staged, remoteID, baseline, terminal,
               claimVars, due, aged>>
storeVars == <<rowVars, receipt, mapped, owner, submits>>

PendingStates  == {"prepared", "submitting", "awaiting_echo", "uncertain"}
InFlightStates == {"submitting", "awaiting_echo", "uncertain"}
FailedStates   == {"not_submitted", "unconfirmed"}
IdentityStates == {"resolved", "completed"}
States         == PendingStates \cup IdentityStates \cup FailedStates \cup {"absent"}

StoreTypeOK ==
  /\ state \in [Sends -> States]
  /\ conversation \in [Sends -> Convs \cup {NoConv}]
  /\ staged \in [Sends -> Convs \cup {NoConv}]
  /\ remoteID \in [Sends -> Remotes \cup {NoRemote}]
  /\ baseline \in [Sends -> SUBSET Remotes]
  /\ terminal \subseteq Sends
  /\ notified \subseteq Sends
  /\ token \in [Sends -> Tokens \cup {NoToken}]
  /\ lapsed \subseteq Sends
  /\ due \subseteq Sends
  /\ aged \subseteq Sends
  /\ receipt \in [Events -> Sends \cup {NoSend}]
  /\ mapped \in [Remotes -> Events \cup {Unmapped, Ordinary}]
  /\ owner \in [Rooms -> Convs \cup {NoConv, Draft}]
  /\ submits \in [Sends -> Nat]

(* A conversation's portal has one room. *)
OneRoomPerConv == \A q, r \in Rooms : owner[q] = owner[r] /\ owner[q] \in Convs => q = r

StoreInit ==
  /\ state = [s \in Sends |-> "absent"]
  /\ conversation = [s \in Sends |-> NoConv]
  /\ staged = [s \in Sends |-> NoConv]
  /\ remoteID = [s \in Sends |-> NoRemote]
  /\ baseline = [s \in Sends |-> {}]
  /\ terminal = {} /\ notified = {} /\ lapsed = {} /\ due = {} /\ aged = {}
  /\ token = [s \in Sends |-> NoToken]
  /\ receipt = [e \in Events |-> NoSend]
  /\ mapped = [m \in Remotes |-> Unmapped]
  /\ owner \in [Rooms -> Convs \cup {Draft}] /\ OneRoomPerConv
  /\ submits = [s \in Sends |-> 0]

-----------------------------------------------------------------------------
(* What the statements look for. *)

Present(s)      == state[s] # "absent"
EventTaken(e)   == \E r \in Sends : EventOf[r] = e /\ Present(r)
EventMapped(e)  == \E m \in Remotes : mapped[m] = e
Unclaimed(s)    == token[s] = NoToken \/ s \in lapsed

(* Mutant: the insert forgets the receipt table. *)
InsertableUnreceipted(s) == ~Present(s) /\ ~EventMapped(EventOf[s]) /\ ~EventTaken(EventOf[s])
Insertable(s)   == /\ ~Present(s)
                   /\ ~EventMapped(EventOf[s])
                   /\ receipt[EventOf[s]] = NoSend
                   /\ ~EventTaken(EventOf[s])
(* Mutant: a row can be marked submitting again. *)
SubmittableTwice(s) == /\ state[s] \in {"prepared", "submitting"}
                       /\ s \notin notified
                       /\ remoteID[s] = NoRemote
                       /\ s \notin terminal
Submittable(s)  == /\ state[s] = "prepared"
                   /\ s \notin notified
                   /\ remoteID[s] = NoRemote
                   /\ s \notin terminal
(* Mutant: a rejection is recorded over any send in flight. *)
RejectableInFlight(s) == /\ state[s] \in InFlightStates
                         /\ s \notin notified \cup terminal
                         /\ token[s] = NoToken
                         /\ remoteID[s] = NoRemote
Rejectable(s)   == /\ state[s] = "submitting"
                   /\ s \notin notified
                   /\ token[s] = NoToken
                   /\ remoteID[s] = NoRemote
                   /\ s \notin terminal
InFlight(s)     == state[s] \in InFlightStates /\ s \notin terminal
Awaitable(s)    == InFlight(s) /\ conversation[s] # NoConv /\ remoteID[s] = NoRemote
Stageable(s, c) == /\ state[s] \in PendingStates
                   /\ s \notin terminal
                   /\ conversation[s] = NoConv
                   /\ remoteID[s] = NoRemote
                   /\ staged[s] \in {NoConv, c}
Bindable(s, c)  == /\ state[s] \in PendingStates
                   /\ s \notin terminal
                   /\ remoteID[s] = NoRemote
                   /\ \/ conversation[s] = NoConv /\ staged[s] = c
                      \/ conversation[s] = c /\ staged[s] = NoConv
                   /\ owner[RoomOf[s]] = c
Claimable(s)    == /\ s \notin notified
                   /\ s \in terminal
                   /\ state[s] \in FailedStates
                   /\ Unclaimed(s)
Finishable(s, k) == /\ token[s] = k
                    /\ s \notin notified
                    /\ s \in terminal
                    /\ state[s] \in FailedStates
Completable(s, m) == /\ state[s] = "resolved"
                     /\ remoteID[s] = m
                     /\ s \notin terminal
                     /\ s \notin notified
                     /\ token[s] = NoToken
(* Mutant: the claim does not look for another row with the same message. *)
FreeRemoteShared(s, m) == /\ state[s] \in InFlightStates /\ s \notin terminal
                          /\ remoteID[s] = NoRemote
                          /\ token[s] = NoToken
                          /\ mapped[m] = Unmapped
FreeRemote(s, m) == /\ InFlight(s)
                    /\ remoteID[s] = NoRemote
                    /\ token[s] = NoToken
                    /\ \A r \in Sends : conversation[r] = conversation[s] => remoteID[r] # m
                    /\ mapped[m] = Unmapped
(* Mutants: a row is matched only once acknowledged; or even when finished. *)
MatchableAcknowledged(c) == {s \in Sends : conversation[s] = c /\ state[s] = "awaiting_echo" /\ s \notin terminal}
MatchableFinished(c)     == {s \in Sends : conversation[s] = c /\ state[s] \in InFlightStates \cup {"completed"}}
Matchable(c)    == {s \in Sends : conversation[s] = c /\ InFlight(s)}
Unbound         == {s \in Sends : /\ conversation[s] = NoConv
                                  /\ remoteID[s] = NoRemote
                                  /\ s \notin terminal
                                  /\ state[s] \in {"submitting", "uncertain"}}
NextDue         == {s \in Sends : Present(s) /\ state[s] # "completed" /\ s \in due /\ Unclaimed(s)}

(* ensureTerminalReceipt: the receipt is written once and must be the send's own. *)
CanReceipt(s)   == receipt[EventOf[s]] \in {NoSend, s}
WriteReceipt(s) == receipt' = [receipt EXCEPT ![EventOf[s]] = s]

Reschedule(s)   == due' = due \ {s}
SetState(s, st) == state' = [state EXCEPT ![s] = st]

-----------------------------------------------------------------------------
(* The statements. *)

Insert(s, c) ==
  /\ Insertable(s)
  /\ SetState(s, "prepared")
  /\ conversation' = [conversation EXCEPT ![s] = c]
  /\ staged' = [staged EXCEPT ![s] = NoConv]
  /\ baseline' = [baseline EXCEPT ![s] = {}]
  /\ UNCHANGED <<remoteID, terminal, claimVars, due, aged,
                 receipt, mapped, owner, submits>>

PrepareConversationBinding(s, c) ==
  /\ Stageable(s, c)
  /\ staged' = [staged EXCEPT ![s] = c]
  /\ Reschedule(s)
  /\ UNCHANGED <<state, conversation, remoteID, baseline, terminal, claimVars, aged,
                 receipt, mapped, owner, submits>>

BindConversation(s, c) ==
  /\ Bindable(s, c)
  /\ conversation' = [conversation EXCEPT ![s] = c]
  /\ staged' = [staged EXCEPT ![s] = NoConv]
  /\ Reschedule(s)
  /\ UNCHANGED <<state, remoteID, baseline, terminal, claimVars, aged,
                 receipt, mapped, owner, submits>>

MarkSubmitting(s, base) ==
  /\ Submittable(s)
  /\ SetState(s, "submitting")
  /\ baseline' = [baseline EXCEPT ![s] = base]
  /\ Reschedule(s)
  /\ aged' = aged \ {s}
  /\ submits' = [submits EXCEPT ![s] = @ + 1]
  /\ UNCHANGED <<conversation, staged, remoteID, terminal, claimVars, receipt, mapped, owner>>

MarkAwaitingEcho(s) ==
  /\ Awaitable(s)
  /\ SetState(s, "awaiting_echo")
  /\ Reschedule(s)
  /\ UNCHANGED <<conversation, staged, remoteID, baseline, terminal, claimVars, aged,
                 receipt, mapped, owner, submits>>

MarkUncertain(s) ==
  /\ InFlight(s)
  /\ SetState(s, "uncertain")
  /\ Reschedule(s)
  /\ UNCHANGED <<conversation, staged, remoteID, baseline, terminal, claimVars, aged,
                 receipt, mapped, owner, submits>>

ClaimRemoteMessage(s, m) ==
  /\ \/ FreeRemote(s, m)
     \/ state[s] = "resolved" /\ remoteID[s] = m
  /\ conversation[s] # NoConv
  /\ SetState(s, "resolved")
  /\ remoteID' = [remoteID EXCEPT ![s] = m]
  /\ Reschedule(s)
  /\ UNCHANGED <<conversation, staged, baseline, terminal, claimVars, aged,
                 receipt, mapped, owner, submits>>

(* One transaction: the row becomes terminal in state st and its receipt is saved. *)
Terminate(s, st) ==
  /\ CanReceipt(s)
  /\ SetState(s, st)
  /\ terminal' = terminal \cup {s}
  /\ Reschedule(s)
  /\ WriteReceipt(s)
  /\ UNCHANGED <<conversation, staged, baseline, claimVars, aged, mapped, owner, submits>>

ClaimPreparedNotSubmitted(s) ==
  /\ Submittable(s)
  /\ Terminate(s, "not_submitted")
  /\ UNCHANGED remoteID

MarkSubmittingNotSubmitted(s) ==
  /\ Rejectable(s)
  /\ Terminate(s, "not_submitted")
  /\ UNCHANGED remoteID

MarkUnconfirmed(s) ==
  /\ InFlight(s)
  /\ remoteID[s] = NoRemote
  /\ Terminate(s, "unconfirmed")
  /\ UNCHANGED remoteID

(* Mutant: remote_message_id is not cleared. *)
MarkResolvedUnconfirmedKeepingID(s, m) ==
  /\ state[s] = "resolved" /\ remoteID[s] = m /\ s \notin terminal
  /\ Terminate(s, "unconfirmed")
  /\ UNCHANGED remoteID

MarkResolvedUnconfirmed(s, m) ==
  /\ state[s] = "resolved" /\ remoteID[s] = m /\ s \notin terminal
  /\ Terminate(s, "unconfirmed")
  /\ remoteID' = [remoteID EXCEPT ![s] = NoRemote]

MarkCompleted(s, m) ==
  /\ Completable(s, m)
  /\ Terminate(s, "completed")
  /\ UNCHANGED remoteID

(* The rows a deleted conversation takes down.  A row that has claimed its  *)
(* remote message is left to be finished.                                   *)
Cancellable(c) == {s \in Sends : /\ conversation[s] = c \/ staged[s] = c
                                 /\ remoteID[s] = NoRemote
                                 /\ s \notin terminal
                                 /\ state[s] \in PendingStates}

TerminalizeConversation(c) ==
  /\ \A s \in Cancellable(c) : CanReceipt(s)
  /\ state' = [s \in Sends |-> IF s \in Cancellable(c)
                               THEN IF state[s] = "prepared" THEN "not_submitted" ELSE "unconfirmed"
                               ELSE state[s]]
  /\ terminal' = terminal \cup Cancellable(c)
  /\ due' = due \ Cancellable(c)
  /\ receipt' = [e \in Events |-> IF \E s \in Cancellable(c) : EventOf[s] = e
                                  THEN CHOOSE s \in Cancellable(c) : EventOf[s] = e
                                  ELSE receipt[e]]
  /\ UNCHANGED <<conversation, staged, remoteID, baseline, claimVars, aged, mapped, owner, submits>>

ClaimStatusDelivery(s, k) ==
  /\ Claimable(s)
  /\ token' = [token EXCEPT ![s] = k]
  /\ lapsed' = lapsed \ {s}
  /\ UNCHANGED <<state, conversation, staged, remoteID, baseline, terminal, notified, due, aged,
                 receipt, mapped, owner, submits>>

FinishStatusDelivery(s, k) ==
  /\ Finishable(s, k)
  /\ notified' = notified \cup {s}
  /\ token' = [token EXCEPT ![s] = NoToken]
  /\ lapsed' = lapsed \ {s}
  /\ Reschedule(s)
  /\ UNCHANGED <<state, conversation, staged, remoteID, baseline, terminal, aged,
                 receipt, mapped, owner, submits>>

ReleaseStatusDelivery(s, k) ==
  /\ token[s] = k /\ s \notin notified
  /\ token' = [token EXCEPT ![s] = NoToken]
  /\ lapsed' = lapsed \ {s}
  /\ UNCHANGED <<state, conversation, staged, remoteID, baseline, terminal, notified, due, aged,
                 receipt, mapped, owner, submits>>

ScheduleRetry(s) ==
  /\ Present(s)
  /\ Reschedule(s)
  /\ UNCHANGED <<state, conversation, staged, remoteID, baseline, terminal, claimVars, aged,
                 receipt, mapped, owner, submits>>

EraseRow(s) ==
  /\ SetState(s, "absent")
  /\ conversation' = [conversation EXCEPT ![s] = NoConv]
  /\ staged' = [staged EXCEPT ![s] = NoConv]
  /\ remoteID' = [remoteID EXCEPT ![s] = NoRemote]
  /\ baseline' = [baseline EXCEPT ![s] = {}]
  /\ terminal' = terminal \ {s}
  /\ notified' = notified \ {s}
  /\ token' = [token EXCEPT ![s] = NoToken]
  /\ lapsed' = lapsed \ {s}
  /\ due' = due \ {s}
  /\ aged' = aged \ {s}
  /\ UNCHANGED <<receipt, mapped, owner, submits>>

(* Mutant: the delete also takes a row that was marked submitting. *)
DeletePreparedOrSubmitting(s) ==
  /\ state[s] \in {"prepared", "submitting"} /\ remoteID[s] = NoRemote /\ s \notin terminal
  /\ EraseRow(s)

DeletePrepared(s) ==
  /\ state[s] = "prepared" /\ remoteID[s] = NoRemote /\ s \notin terminal
  /\ EraseRow(s)

(* DeleteNotSubmitted and DeleteUnconfirmed: the same guard over either state. *)
DeleteFailed(s) ==
  /\ state[s] \in FailedStates
  /\ remoteID[s] = NoRemote
  /\ s \in terminal /\ s \in notified /\ token[s] = NoToken
  /\ receipt[EventOf[s]] = s
  /\ EraseRow(s)

-----------------------------------------------------------------------------
(* Time, and the tables the framework owns. *)

FallDue(s) ==
  /\ Present(s) /\ state[s] # "completed"
  /\ due' = due \cup {s}
  /\ UNCHANGED <<state, conversation, staged, remoteID, baseline, terminal, claimVars, aged,
                 receipt, mapped, owner, submits>>

(* The claim expires.  ClaimStatusDelivery pulled next_attempt_ts back to   *)
(* the expiry, so that the row is due again by then.                        *)
LapseClaim(s) ==
  /\ token[s] # NoToken /\ s \notin lapsed
  /\ lapsed' = lapsed \cup {s}
  /\ due' = due \cup {s}
  /\ UNCHANGED <<state, conversation, staged, remoteID, baseline, terminal, notified, token, aged,
                 receipt, mapped, owner, submits>>

GrowOld(s) ==
  /\ Present(s) /\ aged' = aged \cup {s}
  /\ UNCHANGED <<state, conversation, staged, remoteID, baseline, terminal, claimVars, due,
                 receipt, mapped, owner, submits>>

(* A row of the message table, with its unique keys. *)
MapMessage(m, e) ==
  /\ mapped[m] = Unmapped
  /\ e # Ordinary => ~EventMapped(e)
  /\ mapped' = [mapped EXCEPT ![m] = e]
  /\ UNCHANGED <<rowVars, receipt, owner, submits>>

(* A room changes hands: a pending portal is re-IDed to a conversation that *)
(* has no room, or the room's portal is deleted and its message rows may go *)
(* with it.  A pending portal has none.                                     *)
MoveRoom(r, c) ==
  /\ owner[r] = Draft /\ \A q \in Rooms : owner[q] # c
  /\ owner' = [owner EXCEPT ![r] = c]
  /\ UNCHANGED <<rowVars, receipt, mapped, submits>>

LoseRoom(r) ==
  /\ owner' = [owner EXCEPT ![r] = NoConv]
  /\ \/ UNCHANGED mapped
     \/ owner[r] \in Convs /\ mapped' = [m \in Remotes |-> Unmapped]
  /\ UNCHANGED <<rowVars, receipt, submits>>

-----------------------------------------------------------------------------

RowNext(s) ==
  \/ \E c \in Convs \cup {NoConv} : Insert(s, c)
  \/ \E c \in Convs : PrepareConversationBinding(s, c) \/ BindConversation(s, c)
  \/ \E base \in Baselines : MarkSubmitting(s, base)
  \/ MarkAwaitingEcho(s) \/ MarkUncertain(s)
  \/ \E m \in Remotes : ClaimRemoteMessage(s, m) \/ MarkResolvedUnconfirmed(s, m) \/ MarkCompleted(s, m)
  \/ ClaimPreparedNotSubmitted(s) \/ MarkSubmittingNotSubmitted(s) \/ MarkUnconfirmed(s)
  \/ \E k \in Tokens : ClaimStatusDelivery(s, k) \/ FinishStatusDelivery(s, k) \/ ReleaseStatusDelivery(s, k)
  \/ ScheduleRetry(s) \/ DeletePrepared(s) \/ DeleteFailed(s)
  \/ FallDue(s) \/ LapseClaim(s) \/ GrowOld(s)

TableNext ==
  \/ \E c \in Convs : TerminalizeConversation(c)
  \/ \E m \in Remotes, e \in Events \cup {Ordinary} : MapMessage(m, e)
  \/ \E r \in Rooms : LoseRoom(r) \/ \E c \in Convs : MoveRoom(r, c)

StoreNext == (\E s \in Sends : RowNext(s)) \/ TableNext

StoreSpec == StoreInit /\ [][StoreNext]_storeVars

-----------------------------------------------------------------------------
(* Properties. *)

(* No statement can be refused by a CHECK constraint of the table: whatever *)
(* the order of the statements, the claim token and the notified mark are   *)
(* only on terminal failures, and a row names a remote message exactly when *)
(* it is resolved or completed (schema.sql, the CHECKs of                   *)
(* tumblr_outbound_send).                                                   *)
SchemaHolds ==
  \A s \in Sends :
    /\ staged[s] = NoConv \/ conversation[s] = NoConv
    /\ token[s] # NoToken => s \in terminal /\ state[s] \in FailedStates
    /\ s \in notified => token[s] = NoToken /\ s \in terminal /\ state[s] \in FailedStates
    /\ s \in terminal => \/ state[s] \in FailedStates /\ remoteID[s] = NoRemote
                         \/ state[s] = "completed" /\ remoteID[s] # NoRemote
    /\ state[s] \in IdentityStates <=> remoteID[s] # NoRemote
    /\ state[s] \in IdentityStates \cup {"awaiting_echo"} => conversation[s] # NoConv

(* One Matrix event is submitted to Tumblr at most once, by one row, as long *)
(* as its login exists: neither a deleted row, nor a second login, nor a     *)
(* repeated insert gives it a second POST (the comment over                  *)
(* tumblr_outbound_receipt; insertOutboundSendQuery).                        *)
AtMostOneSubmission ==
  /\ \A s \in Sends : submits[s] <= 1
  /\ \A s, r \in Sends : EventOf[s] = EventOf[r] /\ submits[s] > 0 /\ submits[r] > 0 => s = r

(* A remote message is claimed by one row of its conversation at most       *)
(* (claimOutboundRemoteMessageQuery; tumblr_outbound_send_remote_idx): no   *)
(* order of claims, binds and deletions makes two sends share one.          *)
RemoteClaimedOnce ==
  \A s, r \in Sends :
    s # r /\ conversation[s] = conversation[r] /\ conversation[s] # NoConv /\ remoteID[s] # NoRemote
      => remoteID[s] # remoteID[r]

(* A finished row is never reopened and its receipt never goes: from the    *)
(* step that ends it, an event that was submitted has no way back to        *)
(* prepared, and a row is deleted only behind its own receipt               *)
(* (withTerminalReceipt, deleteUnconfirmedOutboundSendQuery).               *)
FinalityStep ==
  /\ \A e \in Events : receipt[e] # NoSend => receipt'[e] = receipt[e]
  /\ \A s \in Sends :
       /\ s \in terminal => state'[s] = state[s] \/ (state'[s] = "absent" /\ receipt[EventOf[s]] = s)
       /\ submits[s] > 0 /\ state'[s] \in {"prepared", "absent"} => receipt'[EventOf[s]] # NoSend
Finality == [][FinalityStep]_storeVars

(* The two outcomes do not contradict each other: a row that reached the    *)
(* POST is reported not_submitted only while its own handler still waits    *)
(* for the answer.  From awaiting_echo and uncertain the only failure is    *)
(* unconfirmed, and what was never submitted is never unconfirmed           *)
(* (markSubmittingOutboundNotSubmittedQuery against                         *)
(* markOutboundSendUnconfirmedQuery and terminalizeOutboundConversation).   *)
OutcomeStep ==
  \A s \in Sends :
    /\ state'[s] = "not_submitted" /\ state[s] # "not_submitted" => state[s] \in {"prepared", "submitting"}
    /\ state'[s] = "unconfirmed" /\ state[s] # "unconfirmed" => submits[s] > 0
    /\ state[s] = "absent" /\ submits[s] > 0 => state'[s] = "absent"
OutcomesAgree == [][OutcomeStep]_storeVars
=============================================================================
