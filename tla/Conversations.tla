---------------------------- MODULE Conversations ----------------------------
(***************************************************************************)
(* One conversation on Tumblr and in Matrix: what makes a process ask for  *)
(* a sync (pushes, the head probe, the walks through the conversation      *)
(* list), what happens on Tumblr meanwhile, and crashes, together with the *)
(* threads of ConversationSync and ConversationDelete.                     *)
(***************************************************************************)
EXTENDS ConversationDelete

Later(m, n) == IF m > n THEN m ELSE n

(* enqueueConversationSync, for a push or for a scan that listed message m. *)
HandleEvidence(m) ==
  /\ m \in evidence /\ fence = NoThread
  /\ evidence' = evidence \ {m}
  /\ SignOfLife
  /\ owed' = Later(owed, m)
  /\ UNCHANGED <<remoteVars, matrixVars, head, threadVars, user, probeVars, left, ended, asked, outdated>>

LoseEvidence(m) ==
  /\ m \in evidence
  /\ evidence' = evidence \ {m}
  /\ UNCHANGED <<remoteVars, matrixVars, tableVars, threadVars, user, probeVars, left, historyVars>>

(* reconcileConversationHead lists the conversation. *)
Scan ==
  /\ Listed /\ Spend("scan")
  /\ evidence' = evidence \cup {newest}
  /\ UNCHANGED <<remoteVars, matrixVars, tableVars, threadVars, user, probeVars, historyVars>>

(* probeChangedConversationHeads: the list, and later its turn of the fence. *)
ListHeads(h) ==
  /\ probe[h] = 0 /\ walk[h] = "idle"
  /\ \/ ~Listed /\ observed' = [observed EXCEPT ![h] = 0] /\ UNCHANGED probe
     \/ /\ Listed /\ observed[h] # newest
        /\ probe' = [probe EXCEPT ![h] = newest]
        /\ UNCHANGED observed
  /\ UNCHANGED <<remoteVars, evidence, matrixVars, tableVars, threadVars, user, listVars, left, historyVars>>

(* Mutant: only planned deletions are looked for. *)
ChangedDeletion(h) == job.room # NoRoom

Changed(h) == IF job # NoJob THEN job.room # NoRoom ELSE head # probe[h]

QueueChangedHead(h) ==
  /\ probe[h] # 0 /\ fence = NoThread
  /\ IF Changed(h) THEN SignOfLife /\ owed' = Later(owed, probe[h])
                   ELSE UNCHANGED <<job, released, unlisted, owed>>
  /\ observed' = [observed EXCEPT ![h] = probe[h]]
  /\ probe' = [probe EXCEPT ![h] = 0]
  /\ UNCHANGED <<remoteVars, evidence, matrixVars, head, threadVars, user, listVars, left, ended, asked, outdated>>

(* rememberListedConversations: whether a walk through the whole list found *)
(* the conversation.                                                        *)
Remember(h, found) ==
  /\ listed'   = IF found THEN listed \cup {h} ELSE listed \ {h}
  /\ unlisted' = IF found THEN unlisted \ {h} ELSE unlisted \cup {h}
  /\ job'      = IF found THEN NotAgainst(job, h) ELSE Against(job, h)
  /\ UNCHANGED <<remoteVars, evidence, matrixVars, head, threadVars, user, probe,
                 owed, ended, asked, released, outdated>>

HeadsForgotten(h) == observed' = [observed EXCEPT ![h] = 0]

(* reconcileConversationDeletions: the walk, and, when it did not find the  *)
(* conversation, the row that has its portal checked; after it the heads    *)
(* that the probe saw are forgotten.  The row is written without the fence. *)
ListAll(h) ==
  /\ probe[h] = 0 /\ walk[h] = "idle"
  /\ \/ /\ Listed /\ Remember(h, TRUE)
        /\ HeadsForgotten(h) /\ UNCHANGED <<walk, left>>
     \/ /\ Missing /\ Remember(h, FALSE)
        /\ walk' = [walk EXCEPT ![h] = "queue"] /\ UNCHANGED observed

QueueMissing(h) ==
  /\ walk[h] # "idle"
  /\ \/ /\ portal # NoRoom /\ job.rev < MaxRevision
        /\ \/ walk[h] = "queue" /\ job' = Against(Put(job), h) /\ unlisted' = unlisted \cup {h}
           \/ walk[h] = "overtaken" /\ job' = Put(job) /\ UNCHANGED unlisted
        /\ UNCHANGED left
     \/ (portal = NoRoom \/ job.rev >= MaxRevision) /\ UNCHANGED <<job, unlisted, left>>
     \/ Spend("fault") /\ UNCHANGED <<job, unlisted>>
  /\ walk' = [walk EXCEPT ![h] = "idle"] /\ HeadsForgotten(h)
  /\ UNCHANGED <<remoteVars, evidence, matrixVars, head, threadVars, user, probe, listed,
                 owed, ended, asked, released, outdated>>

(* The list could not be read. *)
ListNothing(h) ==
  /\ probe[h] = 0 /\ walk[h] = "idle"
  /\ HeadsForgotten(h)
  /\ UNCHANGED <<remoteVars, evidence, matrixVars, tableVars, threadVars, user, probe, listVars, left, historyVars>>

(* The walk that judges another conversation's deletion. *)
ListForAnother(h) ==
  /\ Spend("another")
  /\ \E found \in {Listed, FALSE} : Remember(h, found)
  /\ walk' = [walk EXCEPT ![h] = Overtaken(@)]
  /\ UNCHANGED observed

(* A walk is remembered for tumblrDeletionReconciliationInterval.           *)
Expire(h) ==
  /\ Spend("expire") /\ h \in listed \cup job.absent
  /\ listed' = listed \ {h} /\ job' = NotAgainst(job, h)
  /\ UNCHANGED <<remoteVars, evidence, matrixVars, head, threadVars, user, observed, probe, walk, historyVars>>

Backoff ==
  /\ job # NoJob /\ ~job.due
  /\ job' = FallDue(job)
  /\ UNCHANGED <<remoteVars, evidence, matrixVars, head, threadVars, user, probeVars, left, historyVars>>

-----------------------------------------------------------------------------
(* Tumblr and the processes. *)

Outside == <<matrixVars, tableVars, threadVars, user, probeVars>>

Arrive ==
  /\ newest < MaxMessages /\ ~blocked /\ Spend("message")
  /\ newest' = newest + 1
  /\ evidence' = evidence \cup {newest'}
  /\ UNCHANGED <<cut, blocked, renamed, Outside, historyVars>>

EndConversation ==
  /\ newest > cut /\ Spend("end")
  /\ cut' = newest
  /\ ended' = ended \cup rooms
  /\ UNCHANGED <<newest, blocked, renamed, evidence, Outside, owed, asked, released, unlisted, outdated>>

Block ==
  /\ Spend("block")
  /\ blocked' = ~blocked
  /\ outdated' = outdated \cup {r \in Rooms : ~blocked /\ \E t \in Threads : mem[t].room = r /\ mem[t].check = "clear"}
  /\ UNCHANGED <<newest, cut, renamed, evidence, Outside, owed, ended, asked, released, unlisted>>

Rename ==
  /\ ~renamed /\ Spend("rename")
  /\ renamed' = TRUE
  /\ UNCHANGED <<newest, cut, blocked, evidence, Outside, historyVars>>

Crash(h) == LET own == {t \in Threads : Host[t] = h} IN
  /\ Spend("crash")
  /\ pc' = [t \in Threads |-> IF t \in own THEN "idle" ELSE pc[t]]
  /\ mem' = [t \in Threads |-> IF t \in own THEN Idle ELSE mem[t]]
  /\ fence' = IF fence \in own \cup {h} THEN NoThread ELSE fence
  /\ Request(h, "idle", NoRoom)
  /\ observed' = [observed EXCEPT ![h] = 0] /\ probe' = [probe EXCEPT ![h] = 0]
  /\ walk' = [walk EXCEPT ![h] = "idle"] /\ listed' = listed \ {h}
  /\ job' = NotAgainst(job, h) /\ unlisted' = unlisted \ {h}
  /\ UNCHANGED <<remoteVars, evidence, matrixVars, head, owed, ended, asked, released, outdated>>

Environment == Arrive \/ EndConversation \/ Block \/ Rename \/ Scan
               \/ (\E m \in Messages : HandleEvidence(m) \/ LoseEvidence(m))
Loop(h)     == ListHeads(h) \/ QueueChangedHead(h) \/ ListAll(h) \/ QueueMissing(h) \/ ListNothing(h)

Next == \/ Environment \/ Backoff
        \/ \E h \in Hosts : Loop(h) \/ ListForAnother(h) \/ Expire(h) \/ ChatStep(h) \/ Crash(h)
        \/ \E t \in Threads : SyncStep(t) \/ DeleteStep(t)

Spec == Init /\ [][Next]_vars

(* A loop that runs goes on: its timers fire, its calls return, and a free  *)
(* fence is granted.                                                        *)
Fairness ==
  /\ WF_vars(Backoff)
  /\ \A h \in Hosts : /\ WF_vars(ListHeads(h)) /\ WF_vars(QueueChangedHead(h))
                      /\ WF_vars(ListAll(h)) /\ WF_vars(QueueMissing(h))
                      /\ WF_vars(ScheduleDelete(h) \/ RequestDelete(h) \/ FrameworkPortal(h) \/ FrameworkRoom(h))
  /\ \A t \in Threads : WF_vars(SyncStep(t) \/ DeleteStep(t))

FairSpec == Spec /\ Fairness

-----------------------------------------------------------------------------
(* What the conversation's users rely on. *)

(* Nobody deleted the chat, and no list of Tumblr's, of the conversations   *)
(* or of the blocked blogs, was believed that was not so: there messages    *)
(* leave Matrix, or a room its portal, although the conversation is not     *)
(* gone on Tumblr.                                                          *)
Undisturbed == asked = {} /\ outdated = {}

(* In Matrix, or older than the page a room was created with and so left to *)
(* bridgev2 to fetch.                                                       *)
Provided == bridged \cup backfill

(* The completed head never passes a message that is not in Matrix: what    *)
(* is at or below it is there, was left to the backfill of a new room, or   *)
(* was deleted on Tumblr, whichever thread commits last and wherever a sync *)
(* failed (sync.go, SetCompletedHead).                                      *)
HeadConfirmed == Undisturbed => \A m \in Messages : m > cut /\ m <= head => m \in Provided

(* A sync that was durably requested is not forgotten before the message is *)
(* in Matrix, deleted on Tumblr, or found to be out of reach: an older sync *)
(* does not acknowledge a newer request (processSelectedConversationJob).   *)
NoLostRequest == Undisturbed /\ owed > cut /\ owed \notin Provided => job # NoJob

(* A room is removed only when Tumblr said that its conversation was gone,  *)
(* or the user asked for it: a conversation whose history answers 404 for   *)
(* another reason, a blocked peer or a renamed blog, keeps its room         *)
(* (handleRemoteConversationDelete).  There are two exceptions, in which    *)
(* the room goes: the peer was blocked after the block list was read; or    *)
(* the walk through the conversation list that was asked missed the         *)
(* conversation or is out of date, and no sign of life has come since its   *)
(* answer was recorded.  A walk from before the last sign of life removes   *)
(* nothing (recentListedConversation).                                      *)
LiveRoomKept == made \ rooms \subseteq ended \cup asked \cup outdated

(* Every room is the portal's, or is named by the row that will remove it,  *)
(* whatever failed in between, unless the row was made to name another one, *)
(* or none, while it was being removed (deletedConversationRoomID).         *)
RoomAccounted == rooms \subseteq {portal, job.room} \cup released

(* No room is left behind with nothing that will remove it: the cleanup is  *)
(* persisted so that neither a crash nor a later failure strands it         *)
(* (conversation_delete.go:103-105).                                        *)
InHand         == {user[h].room : h \in Hosts}
NoStrandedRoom == rooms \subseteq {portal, job.room} \cup InHand

(* A message that can be fetched gets to Matrix, although its push may be   *)
(* lost and processes crash: the head probe finds it (inboundSyncLoop).     *)
EveryMessageArrives ==
  \A m \in Messages : (m \in Visible /\ Reachable) ~> (m \in Provided \/ m <= cut \/ ~Reachable)

(* A conversation that is gone loses its portal and its room, whatever      *)
(* crashed, unless it comes back: the complete list does not have it, and   *)
(* the job goes on from the row (reconcileConversationDeletions).           *)
EveryDeletionFinishes ==
  \A r \in Rooms : (r \in rooms /\ newest = cut /\ ~blocked) ~>
                   (r \notin rooms \/ r \in released \/ newest > cut \/ blocked)
=============================================================================
