--------------------------- MODULE ConversationSync ---------------------------
(***************************************************************************)
(* The sync of one conversation from Tumblr to Matrix, by the bridge       *)
(* processes that share a login's database: what they share, and how a     *)
(* thread fetches the conversation, delivers its messages and completes    *)
(* the job (inbound_sync.go, sync.go).                                     *)
(*                                                                         *)
(* A process has one thread that works on due jobs (inboundProcessLock)    *)
(* and others that sync the conversation for a pending send.  A thread     *)
(* holds the submission fence while it reads and writes rows, and not      *)
(* while it delivers.                                                      *)
(*                                                                         *)
(* Tumblr's messages are numbered as they come.  A deleted conversation    *)
(* loses those it has (cut), and is there again with the next message; its *)
(* history also answers 404 while the peer is blocked, and while the       *)
(* bridge uses a name the blog no longer has.                              *)
(*                                                                         *)
(* A page of a history has PageSize messages.  A sync that has to create   *)
(* the portal's room reads one, and leaves what is older to the backfill   *)
(* of bridgev2; any other reads on down to the completed head.             *)
(*                                                                         *)
(* Left out: the failure of a page after the first; what a sync does to    *)
(* the sends, but that a pending one makes it hold messages back; the      *)
(* portal without a room; the loss of the fence.                           *)
(***************************************************************************)
EXTENDS ConversationJob

CONSTANTS
  Workers,     \* threads that process due jobs
  Syncers,     \* threads that sync the conversation for a pending send
  Host,        \* the process of a thread
  NoThread,
  PageSize,    \* messages in a page of the history
  MaxMessages, \* bound: messages of the conversation
  MaxRevision, \* bound: revision up to which a missing conversation is requeued
  Limits       \* bounds: how often the environment acts, in each scenario

Threads  == Workers \cup Syncers
Messages == 1..MaxMessages
Kinds    == {"message", "fault", "crash", "sync", "scan", "walk", "another", "expire", "end", "delete",
             "block", "rename"}

ASSUME SyncAssumption ==
  /\ Host \in [Threads -> Hosts]
  /\ NoThread \notin Threads \cup Hosts /\ Threads \cap Hosts = {} /\ Workers \cap Syncers = {}
  /\ \A t, u \in Workers : Host[t] = Host[u] => t = u
  /\ PageSize \in Nat /\ MaxMessages \in Nat /\ MaxRevision \in Nat
  /\ Limits \subseteq [Kinds -> Nat]

VARIABLES
  newest,    \* Tumblr: the last message
  cut,       \* Tumblr: messages up to here were deleted
  blocked,   \* Tumblr: the peer is blocked
  renamed,   \* the blog has a name the bridge does not know
  evidence,  \* messages whose push, or whose place in a list, is not handled yet
  portal,    \* the portal's room
  rooms,     \* Matrix rooms that exist
  made,      \* rooms created so far
  bridged,   \* messages in the portal's room
  backfill,  \* messages left to bridgev2's backfill of the portal's room
  head,      \* the completed head
  job,       \* the conversation's row
  fence,     \* who holds the submission lock
  pc, mem,   \* what a thread does next, and its local state
  user,      \* process -> the chat deletion it handles
  observed,  \* process -> the head its probe saw last
  probe,     \* process -> the head of the list its probe has to queue
  walk,      \* process -> what its walk through the list has still to do
  listed,    \* processes that remember a walk that had the conversation
  left,      \* what is left of the bounds of a scenario
  owed,      \* history: newest message a sync was durably requested for
  ended,     \* history: rooms whose conversation Tumblr said it had deleted
  asked,     \* history: rooms of the conversation when the user asked to delete it
  released,  \* history: rooms that a row stopped to name while they were being removed
  unlisted,  \* history: processes whose last walk did not have the conversation, with no sign of life since
  outdated   \* history: rooms about which one of Tumblr's lists was believed that was not so

remoteVars  == <<newest, cut, blocked, renamed>>
matrixVars  == <<portal, rooms, made, bridged, backfill>>
tableVars   == <<head, job>>
threadVars  == <<fence, pc, mem>>
listVars    == <<walk, listed>>
probeVars   == <<observed, probe, listVars>>
historyVars == <<owed, ended, asked, released, unlisted, outdated>>
vars        == <<remoteVars, evidence, matrixVars, tableVars, threadVars, user, probeVars, left, historyVars>>

SyncLabels   == {"fetch", "prepare", "deliver", "failed", "commit", "ack", "retry"}
DeleteLabels == {"confirm", "judge", "blocks", "detach", "remove", "cleanup", "forget"}

(* check: the answer of the block list, asked about room.                   *)
Idle     == [rev |-> 0, todo |-> {}, head |-> 0, held |-> FALSE, room |-> NoRoom, check |-> "none"]
Memories == [rev : Nat, todo : SUBSET Messages, head : 0..MaxMessages, held : BOOLEAN,
             room : Rooms \cup {NoRoom}, check : {"none", "clear", "blocked", "failed"}]

NoRequest == [pc |-> "idle", room |-> NoRoom]

(* The types; with it, that rooms exist only once created, that deleted     *)
(* messages are old ones, and that who holds the fence is somebody.         *)
ConversationTypeOK ==
  /\ newest \in 0..MaxMessages /\ cut \in 0..newest
  /\ blocked \in BOOLEAN /\ renamed \in BOOLEAN
  /\ evidence \subseteq Messages /\ bridged \subseteq Messages /\ backfill \subseteq Messages
  /\ portal \in Rooms \cup {NoRoom}
  /\ made \subseteq Rooms /\ rooms \subseteq made
  /\ head \in 0..MaxMessages /\ job \in Jobs
  /\ fence \in Threads \cup Hosts \cup {NoThread}
  /\ pc \in [Threads -> {"idle", "selected"} \cup SyncLabels \cup DeleteLabels]
  /\ mem \in [Threads -> Memories]
  /\ user \in [Hosts -> [pc : {"idle", "asked", "request", "portal", "room"}, room : Rooms \cup {NoRoom}]]
  /\ observed \in [Hosts -> 0..MaxMessages] /\ probe \in [Hosts -> 0..MaxMessages]
  /\ walk \in [Hosts -> {"idle", "queue", "overtaken"}] /\ listed \subseteq Hosts
  /\ left \in [Kinds -> Nat]
  /\ owed \in 0..MaxMessages
  /\ ended \subseteq Rooms /\ asked \subseteq Rooms
  /\ released \subseteq Rooms /\ unlisted \subseteq Hosts /\ outdated \subseteq Rooms

Init ==
  /\ newest = 0 /\ cut = 0 /\ blocked = FALSE /\ renamed = FALSE
  /\ evidence = {}
  /\ portal = NoRoom /\ rooms = {} /\ made = {} /\ bridged = {} /\ backfill = {}
  /\ head = 0 /\ job = NoJob
  /\ fence = NoThread
  /\ pc = [t \in Threads |-> "idle"] /\ mem = [t \in Threads |-> Idle]
  /\ user = [h \in Hosts |-> NoRequest]
  /\ observed = [h \in Hosts |-> 0] /\ probe = [h \in Hosts |-> 0]
  /\ walk = [h \in Hosts |-> "idle"] /\ listed = {}
  /\ left \in Limits
  /\ owed = 0 /\ ended = {} /\ asked = {} /\ released = {} /\ unlisted = {} /\ outdated = {}

(* Mutant: the first of the deleted messages, or none, is still listed. *)
VisibleAndOne == cut..newest

Visible   == (cut + 1)..newest
Listed    == newest > cut /\ ~blocked
Reachable == Listed /\ ~renamed

-----------------------------------------------------------------------------
(* Steps of a thread. *)

(* The bookkeeping of a step; Cancelled: no send waits for a sync any more. *)
At(t, l)    == pc[t] = l
Goto(t, l)  == pc' = [pc EXCEPT ![t] = l]
Keep(t, r)  == mem' = [mem EXCEPT ![t] = r]
Spend(k)    == left[k] > 0 /\ left' = [left EXCEPT ![k] = @ - 1]
Cancelled   == [t \in Threads |-> IF t \in Syncers /\ At(t, "selected") THEN "idle" ELSE pc[t]]
World       == <<remoteVars, evidence, user, probeVars>>
Leave(t)    == fence' = NoThread /\ Goto(t, "idle") /\ Keep(t, Idle)

(* A call or a statement fails: the sync ends with an error. *)
Fail(t, l) ==
  /\ Spend("fault")
  /\ Goto(t, l)
  /\ UNCHANGED <<World, matrixVars, tableVars, fence, mem, historyVars>>

(* A room that is no longer the portal's, or is about to be none.           *)
Removing(r) == r # portal \/ \E h \in Hosts : user[h] = [pc |-> "portal", room |-> r]

(* The row will name another room, or none.                                 *)
Renames(room) == released' = released \cup {r \in (rooms \cap {job.room}) \ {room} : Removing(r)}

(* A sign of life: a sync is wanted, and a deletion that was planned is not; *)
(* no walk from before it counts.                                           *)
SignOfLife ==
  /\ job' = PutLiveConversation(job)
  /\ Renames(NoRoom) /\ unlisted' = {}

Select(t) ==
  /\ t \in Workers /\ At(t, "idle")
  /\ job.due
  /\ Goto(t, "selected") /\ Keep(t, [Idle EXCEPT !.rev = job.rev])
  /\ UNCHANGED <<World, matrixVars, tableVars, fence, left, historyVars>>

(* A send of the portal's room is pending, and its recovery is due. *)
SelectSend(t) ==
  /\ t \in Syncers /\ At(t, "idle")
  /\ portal # NoRoom /\ user[Host[t]].pc = "idle"
  /\ Spend("sync")
  /\ Goto(t, "selected")
  /\ UNCHANGED <<World, matrixVars, tableVars, fence, mem, historyVars>>

(* Only the selected revision may be handled, and only when it is due; a    *)
(* send's sync handles any, but a deletion that is not due.                 *)
MayHandle(t) == IF t \in Workers THEN job.due /\ Current(job, mem[t].rev)
                                 ELSE job.room = NoRoom \/ job.due

Take(t) ==
  /\ At(t, "selected") /\ fence = NoThread
  /\ \/ /\ MayHandle(t)
        /\ fence' = t
        /\ Goto(t, IF job.room = NoRoom THEN "fetch" ELSE "confirm")
        /\ Keep(t, [mem[t] EXCEPT !.rev = job.rev])
     \/ ~MayHandle(t) /\ Leave(t)
  /\ UNCHANGED <<World, matrixVars, tableVars, left, historyVars>>

(* fetchConversationForSync: the history down to the completed head when    *)
(* the portal has a room, and its newest page when it has none.             *)
Fetched == {m \in Visible : IF portal # NoRoom THEN m >= head ELSE newest - m < PageSize}

Fetch(t) ==
  /\ At(t, "fetch")
  /\ \/ /\ Reachable
        /\ Goto(t, "prepare") /\ Keep(t, [mem[t] EXCEPT !.todo = Fetched, !.head = newest])
        /\ UNCHANGED <<World, matrixVars, tableVars, fence, left, historyVars>>
     \/ /\ renamed                                        \* 403: look the name up
        /\ renamed' = FALSE
        /\ UNCHANGED <<newest, cut, blocked, evidence, user, probeVars, matrixVars, tableVars, threadVars, left, historyVars>>
     \/ /\ ~Reachable                                     \* 404
        /\ IF mem[t].rev # 0
             THEN UNCHANGED <<job, mem>>
             ELSE job' = Ensure(job) /\ Keep(t, [mem[t] EXCEPT !.rev = job'.rev])
        /\ Goto(t, "confirm")
        /\ UNCHANGED <<World, matrixVars, head, fence, left, historyVars>>
     \/ Fail(t, "retry")

NextRoom == CHOOSE r \in Rooms \ made : TRUE

(* prepareConversationDelivery: messages that may be echoes of pending sends *)
(* are held back, those Matrix has are left out, and the portal gets a room. *)
Prepare(t) ==
  /\ At(t, "prepare")
  /\ \/ \E held \in {{}, {mem[t].head}} :
          /\ IF held = {} THEN UNCHANGED left ELSE Spend("fault")
          /\ Goto(t, "deliver")
          /\ Keep(t, [mem[t] EXCEPT !.todo = @ \ (bridged \cup held), !.held = held # {}])
          /\ fence' = NoThread
          /\ IF portal # NoRoom
               THEN UNCHANGED <<matrixVars, ended>>
               ELSE /\ made # Rooms                         \* bound: Rooms
                    /\ portal' = NextRoom
                    /\ made' = made \cup {NextRoom} /\ rooms' = rooms \cup {NextRoom}
                    /\ backfill' = 1..mem[t].head \ mem[t].todo
                    /\ ended' = IF newest = cut THEN ended \cup {NextRoom} ELSE ended
                    /\ UNCHANGED bridged
          /\ UNCHANGED <<World, tableVars, owed, asked, released, unlisted, outdated>>
     \/ Fail(t, "retry")

(* The portal's event loop: behind a chat deletion that it handles, and     *)
(* without effect when the portal has no room.                              *)
Deliver(t) ==
  /\ At(t, "deliver") /\ mem[t].todo # {}
  /\ user[Host[t]].pc = "idle"
  /\ \/ \E m \in mem[t].todo :
        /\ \A n \in mem[t].todo : m <= n
        /\ bridged' = IF portal = NoRoom THEN bridged ELSE bridged \cup {m}
        /\ Keep(t, [mem[t] EXCEPT !.todo = @ \ {m}])
        /\ UNCHANGED <<World, portal, rooms, made, backfill, tableVars, fence, pc, left, historyVars>>
     \/ Fail(t, "failed")

(* Mutant: the messages that are held back do not hold up the head. *)
RelockThoughHeld(t) ==
  /\ fence = NoThread
  /\ \/ At(t, "deliver") /\ mem[t].todo = {} /\ Goto(t, "commit")
     \/ At(t, "failed") /\ Goto(t, "retry")
  /\ fence' = t
  /\ UNCHANGED <<World, matrixVars, tableVars, mem, left, historyVars>>

Relock(t) ==
  /\ fence = NoThread
  /\ \/ At(t, "deliver") /\ mem[t].todo = {} /\ Goto(t, IF mem[t].held THEN "retry" ELSE "commit")
     \/ At(t, "failed") /\ Goto(t, "retry")
  /\ fence' = t
  /\ UNCHANGED <<World, matrixVars, tableVars, mem, left, historyVars>>

Commit(t) ==
  /\ At(t, "commit")
  /\ \/ /\ job.room # NoRoom \/ portal = NoRoom           \* superseded
        /\ Leave(t)
        /\ UNCHANGED <<head, left>>
     \/ /\ job.room = NoRoom /\ portal # NoRoom
        /\ head' = mem[t].head
        /\ Goto(t, "ack")
        /\ UNCHANGED <<fence, mem, left>>
  /\ UNCHANGED <<World, matrixVars, job, historyVars>>

Acknowledge(t) ==
  /\ At(t, "ack")
  /\ job' = IF t \in Workers THEN Delete(job, mem[t].rev) ELSE job
  /\ Leave(t)
  /\ UNCHANGED <<World, matrixVars, head, left, historyVars>>

Retry(t) ==
  /\ At(t, "retry")
  /\ job' = IF t \in Workers THEN MarkRetry(job, mem[t].rev) ELSE job
  /\ Leave(t)
  /\ UNCHANGED <<World, matrixVars, head, left, historyVars>>

(* A lock, a statement or the process's context fails: the call ends, and   *)
(* the row stays as it is.                                                  *)
Abandon(t) ==
  /\ ~At(t, "idle")
  /\ Spend("fault")
  /\ fence' = IF fence = t THEN NoThread ELSE fence
  /\ Goto(t, "idle") /\ Keep(t, Idle)
  /\ UNCHANGED <<World, matrixVars, tableVars, historyVars>>

(* A thread's step in a sync. *)
SyncStep(t) == Select(t) \/ SelectSend(t) \/ Take(t) \/ Fetch(t) \/ Prepare(t) \/ Deliver(t)
               \/ Relock(t) \/ Commit(t) \/ Acknowledge(t) \/ Retry(t) \/ Abandon(t)
=============================================================================
