---------------------------- MODULE OutboundSync ----------------------------
(***************************************************************************)
(* A sync of the conversation (syncConversationByIDWithSubmissionLock and  *)
(* deliverConversation in sync.go, reconcileOutboundConversation in        *)
(* outbound.go), for a due send or for another reason (Syncers).  The fence *)
(* is held from the fetch to the handover; the messages are delivered      *)
(* without it.                                                             *)
(***************************************************************************)
EXTENDS OutboundHandler, OutboundRecovery, OutboundAssignment

Sync(t) ==
  /\ t \in Syncers /\ At(t, "idle")
  /\ Acquire(t)
  /\ Work(t, "fetch", NoSend, Idle)
  /\ UNCHANGED <<storeVars, pending, netVars, told, boundVars>>

SyncFailed(t) == IF mem[t].job = NoSend THEN "leave" ELSE "broken"

Fetch(t) ==
  /\ At(t, "fetch")
  /\ \/ /\ Work(t, "unbound", cur[t], [mem[t] EXCEPT !.view = landed, !.tx = {}, !.plan = {}, !.held = {}])
        /\ UNCHANGED <<storeVars, World, pending>>
     \/ Fail(t, SyncFailed(t))

(* Sends of a draft whose participants are the conversation's are tied to it. *)
BindUnbound(t) ==
  /\ At(t, "unbound")
  /\ UNCHANGED <<storeVars, World, pending>>
  /\ \/ \E s \in Unbound : Work(t, "stage", s, [mem[t] EXCEPT !.next = "unbound"])
     \/ Unbound = {} /\ Goto(t, "resolved")

(* activeOutboundPending: this process waits for the echo in the send's room. *)
Awaits(t, s) == s \in pending[Host[t]] /\ owner[RoomOf[s]] # NoConv
Echoes(t)    == {e[1] : e \in mem[t].tx}

FinishResolved(t) == LET claims == {e \in (mem[t].view \ Echoes(t)) \X Sends :
                                      state[e[2]] = "resolved" /\ remoteID[e[2]] = e[1]} IN
  /\ At(t, "resolved")
  /\ UNCHANGED <<storeVars, World, pending>>
  /\ \/ \E e \in claims :
          /\ Awaits(t, e[2])
          /\ Work(t, "resolved", cur[t], [mem[t] EXCEPT !.tx = @ \cup {e}])
     \/ \E e \in claims :
          /\ ~Awaits(t, e[2])
          /\ Work(t, "map", e[2], [mem[t] EXCEPT !.view = @ \ {e[1]}, !.rid = e[1], !.next = "resolved"])
     \/ claims = {} /\ Goto(t, "match")

(* Mutant: the sends are kept back instead of the messages. *)
MatchHoldingSends(t) ==
  LET edges == {e \in Matchable(Conv) \X (mem[t].view \ Echoes(t)) : Candidate(e[1], e[2])} IN
  /\ At(t, "match")
  /\ Work(t, "claim", cur[t], [mem[t] EXCEPT !.plan = Forced(edges), !.held = {e[1] : e \in edges}])
  /\ UNCHANGED <<storeVars, World, pending>>

(* A match is claimed only when it is forced, as OutboundMatching finds out. *)
Match(t) == LET edges  == {e \in Matchable(Conv) \X (mem[t].view \ Echoes(t)) : Candidate(e[1], e[2])}
                likely == {e[2] : e \in edges} IN
  /\ At(t, "match")
  /\ Work(t, "claim", cur[t], [mem[t] EXCEPT !.plan = Forced(edges), !.held = likely, !.view = @ \ likely])
  /\ UNCHANGED <<storeVars, World, pending>>

Claim(t) ==
  /\ At(t, "claim")
  /\ \/ \E e \in mem[t].plan : LET rest == [mem[t] EXCEPT !.plan = @ \ {e}, !.held = @ \ {e[2]}] IN
          /\ FreeRemote(e[1], e[2]) \/ (state[e[1]] = "resolved" /\ remoteID[e[1]] = e[2])
          /\ ClaimRemoteMessage(e[1], e[2])
          /\ IF Awaits(t, e[1])
             THEN Work(t, "claim", cur[t], [rest EXCEPT !.tx = @ \cup {<<e[2], e[1]>>}, !.view = @ \cup {e[2]}])
             ELSE Work(t, "map", e[1], [rest EXCEPT !.rid = e[2], !.next = "claim"])
          /\ UNCHANGED <<World, pending>>
     \/ /\ \E e \in mem[t].plan : ~(FreeRemote(e[1], e[2]) \/ (state[e[1]] = "resolved" /\ remoteID[e[1]] = e[2]))
        /\ Decide(t, SyncFailed(t))
     \/ mem[t].plan = {} /\ Decide(t, "handover")
     \/ Fail(t, SyncFailed(t))

(* The sync failed with the fence held; the worker still settles its send. *)
Broken(t) ==
  /\ At(t, "broken")
  /\ IF mem[t].job = NoSend
     THEN Goto(t, "leave")
     ELSE Work(t, "settle", cur[t], [mem[t] EXCEPT !.outcome = "failed"])
  /\ UNCHANGED <<storeVars, World, pending>>

(* Messages that are mapped by now are not delivered again. *)
Handover(t) ==
  /\ At(t, "handover")
  /\ \/ /\ Release(t)
        /\ Work(t, "deliver", cur[t], [mem[t] EXCEPT !.view = {m \in @ : mapped[m] = Unmapped}])
        /\ UNCHANGED <<storeVars, pending, netVars, told, boundVars>>
     \/ Fail(t, SyncFailed(t))

(* The framework handles one message: an echo that is still pending goes to *)
(* outboundEchoHandler; any other message becomes an event of its own       *)
(* unless it is mapped already.                                             *)
Deliver(t) == LET unsent == mem[t].view
                  After(m) == [mem[t] EXCEPT !.view = @ \ {m}]
                  Echo(m, s) == <<m, s>> \in mem[t].tx /\ s \in pending[Host[t]] IN
  /\ At(t, "deliver")
  /\ \/ \E m \in unsent, s \in Sends :
          /\ Echo(m, s)
          /\ DropPending(t, s)
          /\ IF state[s] = "resolved" /\ remoteID[s] = m
             THEN Work(t, "persist", s, [After(m) EXCEPT !.rid = m])
             ELSE Work(t, "deliver", cur[t], After(m))
          /\ UNCHANGED <<storeVars, World>>
     \/ \E m \in unsent :
          /\ \A s \in Sends : ~Echo(m, s)
          /\ \/ mapped[m] # Unmapped /\ UNCHANGED storeVars
             \/ MapMessage(m, Ordinary)
          /\ Work(t, "deliver", cur[t], After(m))
          /\ UNCHANGED <<World, pending>>
     \/ /\ unsent # {} /\ Spend
        /\ Work(t, "deliver", cur[t], [mem[t] EXCEPT !.view = {}, !.outcome = "failed"])
        /\ UNCHANGED <<storeVars, lockVars, pending, netVars, told, calls>>
     \/ /\ unsent = {}
        /\ IF mem[t].job = NoSend THEN Work(t, "idle", NoSend, Idle) ELSE Goto(t, "relock")
        /\ UNCHANGED <<storeVars, World, pending>>

(* The echo handler's persistOutboundMapping; the worker reports success. *)
Persist(t) == LET s == cur[t]
                  m == mem[t].rid IN
  /\ At(t, "persist")
  /\ \/ ~MappingConflict(s, m) /\ mapped[m] = Unmapped /\ MapMessage(m, EventOf[s]) /\ Statement(t, "deliver")
     \/ (MappingConflict(s, m) \/ mapped[m] # Unmapped) /\ Decide(t, "deliver")
     \/ Fail(t, "deliver")

Relock(t) ==
  /\ At(t, "relock")
  /\ \/ /\ Acquire(t)
        /\ Work(t, "settle", cur[t], [mem[t] EXCEPT !.outcome = IF mem[t].held = {} THEN @ ELSE "failed"])
        /\ UNCHANGED <<storeVars, pending, netVars, told, boundVars>>
     \/ /\ Spend
        /\ Work(t, "idle", NoSend, Idle)
        /\ UNCHANGED <<storeVars, lockVars, pending, netVars, told, calls>>
=============================================================================
