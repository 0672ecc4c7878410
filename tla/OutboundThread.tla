--------------------------- MODULE OutboundThread ---------------------------
(***************************************************************************)
(* The state of the bridge processes that send one login's messages to     *)
(* Tumblr, and what a step of one of their threads is made of.  The rows   *)
(* themselves are OutboundStore's.                                         *)
(*                                                                         *)
(* A thread runs one call at a time; pc names what it does next and every  *)
(* step is one SQL transaction, one network call or one local decision.    *)
(* The fence is the per-login submission lock: a mutex of the process plus *)
(* a lock of the database session, which the session can lose unnoticed.   *)
(* outboundGraphLock adds nothing to it: every holder of the one has the   *)
(* other, but for the echo handler and the replay check, which only read   *)
(* the outbox.                                                             *)
(*                                                                         *)
(* All sends go to one Tumblr conversation.  A thread decides on the row   *)
(* as the table has it when it takes the step.                             *)
(***************************************************************************)
EXTENDS OutboundStore

CONSTANTS
  Procs,      \* bridge processes that share the database
  Handlers,   \* threads that handle Matrix messages
  Workers,    \* outboundSyncLoop threads
  Syncers,    \* threads that sync the conversation for another reason
  Host,       \* the process of a thread
  NoThread,
  Conv,       \* the conversation
  Own,        \* the Tumblr message a send becomes when its POST is accepted
  Content,    \* content of a send or a message: its type and content hash
  MaxCalls,   \* bound: how often Matrix delivers an event to the bridge
  MaxFaults   \* bound: crashes, lost locks, failed calls, deleted rooms, messages of others

Threads == Handlers \cup Workers \cup Syncers
Foreign == Remotes \ {Own[s] : s \in Sends}

ASSUME OutboundAssumption ==
  /\ Host \in [Threads -> Procs]
  /\ NoThread \notin Threads
  /\ Convs = {Conv}
  /\ Own \in [Sends -> Remotes]
  /\ \A s, r \in Sends : Own[s] = Own[r] \/ EventOf[s] = EventOf[r] => s = r
  /\ Tokens = Threads
  /\ SUBSET Remotes \subseteq Baselines
  /\ MaxCalls \in Nat /\ MaxFaults \in Nat

VARIABLES
  pc,        \* what a thread does next
  cur,       \* the send it works on
  mem,       \* the rest of its local state
  fence,     \* process -> the thread that holds the submission mutex
  session,   \* the thread whose database session holds the submission lock
  pending,   \* process -> sends registered in memory to wait for their echo
  inflight,  \* sends whose POST is on its way
  landed,    \* messages of the conversation on Tumblr
  refused,   \* sends whose POST Tumblr refused
  posts,     \* history: POSTs made for a send
  told,      \* history: statuses the user has seen, <<send, status>>
  calls,     \* deliveries of a send's event to a handler
  faults     \* what the environment has spent of MaxFaults

threadVars == <<pc, cur, mem>>
lockVars   == <<fence, session>>
netVars    == <<inflight, landed, refused, posts>>
boundVars  == <<calls, faults>>
vars       == <<storeVars, threadVars, lockVars, pending, netVars, told, boundVars>>

(* next: where the current sub-call returns to; job: the due send a worker  *)
(* syncs for; view: messages at hand (baseline, response, or still to be    *)
(* delivered); tx: messages to be delivered as echoes of a send; held:      *)
(* messages kept back; plan: forced matches not claimed yet.                *)
Idle == [next |-> "leave", job |-> NoSend, rid |-> NoRemote, kind |-> "none", outcome |-> "clean",
         view |-> {}, tx |-> {}, held |-> {}, plan |-> {}]

HandlerLabels == {"load", "baseline", "submit", "drop", "post", "answer", "ack", "unsure", "reject", "claim_response"}
BindLabels    == {"stage", "move", "bind"}
NoticeLabels  == {"notify", "tell", "finish_notice", "release_notice", "postpone"}
FinishLabels  == {"map", "unmap", "succeed", "complete", "park", "defer"}
WorkerLabels  == {"purge", "cancel", "recover", "settle"}
SyncLabels    == {"fetch", "unbound", "resolved", "match", "claim", "broken", "handover", "deliver", "persist", "relock"}
Labels        == {"idle", "leave"} \cup HandlerLabels \cup BindLabels \cup NoticeLabels
                 \cup FinishLabels \cup WorkerLabels \cup SyncLabels

Verdicts      == {"success"} \cup FailedStates

Memories ==
  [next : Labels, job : Sends \cup {NoSend}, rid : Remotes \cup {NoRemote}, kind : States \cup {"none"},
   outcome : {"clean", "failed"}, view : SUBSET Remotes, held : SUBSET Remotes,
   tx : SUBSET (Remotes \X Sends), plan : SUBSET (Sends \X Remotes)]

OutboundTypeOK ==
  /\ StoreTypeOK
  /\ pc \in [Threads -> Labels]
  /\ cur \in [Threads -> Sends \cup {NoSend}]
  /\ mem \in [Threads -> Memories]
  /\ fence \in [Procs -> Threads \cup {NoThread}]
  /\ session \in Threads \cup {NoThread}
  /\ pending \in [Procs -> SUBSET Sends]
  /\ inflight \subseteq Sends /\ refused \subseteq Sends
  /\ landed \subseteq Remotes
  /\ posts \in [Sends -> Nat]
  /\ told \subseteq Sends \X Verdicts
  /\ calls \in [Sends -> 0..MaxCalls]
  /\ faults \in 0..MaxFaults

Init ==
  /\ StoreInit
  /\ pc = [t \in Threads |-> "idle"]
  /\ cur = [t \in Threads |-> NoSend]
  /\ mem = [t \in Threads |-> Idle]
  /\ fence = [p \in Procs |-> NoThread] /\ session = NoThread
  /\ pending = [p \in Procs |-> {}]
  /\ inflight = {} /\ refused = {} /\ landed \in {{}, Foreign}
  /\ posts = [s \in Sends |-> 0]
  /\ told = {}
  /\ calls = [s \in Sends |-> 0] /\ faults = 0

-----------------------------------------------------------------------------
(* Steps of a thread. *)

Goto(t, l)     == pc' = [pc EXCEPT ![t] = l] /\ UNCHANGED <<cur, mem>>
World          == <<lockVars, netVars, told, boundVars>>
Statement(t, l) == Goto(t, l) /\ UNCHANGED <<World, pending>>
Decide(t, l)   == Statement(t, l) /\ UNCHANGED storeVars
Spend          == faults < MaxFaults /\ faults' = faults + 1
Fail(t, l)     == /\ Spend
                  /\ Goto(t, l)
                  /\ UNCHANGED <<storeVars, lockVars, pending, netVars, told, calls>>
Work(t, l, s, r) == /\ pc' = [pc EXCEPT ![t] = l]
                    /\ cur' = [cur EXCEPT ![t] = s]
                    /\ mem' = [mem EXCEPT ![t] = r]

At(t, l)       == pc[t] = l
Unfenced(t)    == fence[Host[t]] = NoThread /\ session = NoThread
Acquire(t)     == /\ Unfenced(t)
                  /\ fence' = [fence EXCEPT ![Host[t]] = t]
                  /\ session' = t
Release(t)     == /\ fence' = [fence EXCEPT ![Host[t]] = NoThread]
                  /\ session' = IF session = t THEN NoThread ELSE session
DropPending(t, s) == pending' = [pending EXCEPT ![Host[t]] = @ \ {s}]

(* The call ends: the fence is released and the local state gone. *)
Leave(t) ==
  /\ At(t, "leave")
  /\ Release(t)
  /\ Work(t, "idle", NoSend, Idle)
  /\ UNCHANGED <<storeVars, pending, netVars, told, boundVars>>
=============================================================================
