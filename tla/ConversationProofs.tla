-------------------------- MODULE ConversationProofs --------------------------
(***************************************************************************)
(* Invariants of one conversation, proved for every number of processes,   *)
(* threads, messages, rooms and faults: who holds the fence, what becomes  *)
(* of the conversation's rooms, and how far the completed head may be.     *)
(***************************************************************************)
EXTENDS Conversations, TLAPS

-----------------------------------------------------------------------------
(* The inductive invariant. *)

Labels       == {"idle", "selected"} \cup SyncLabels \cup DeleteLabels
FencedLabels == (SyncLabels \ {"deliver", "failed"}) \cup (DeleteLabels \ {"blocks"})
Delivering   == {"prepare", "deliver", "commit"}

(* The rooms that may go.                                                   *)
Gone == ended \cup asked \cup outdated \cup {NoRoom}

(* Nothing on its way to Matrix, or there, is above what Tumblr deleted.    *)
Past == head <= cut /\ \A t \in Threads : mem[t].head <= cut

(* What thread t holds and knows of the row: whoever has the fence is the   *)
(* only one to name a room on it.                                           *)
RowInv(t) ==
  /\ pc[t] \in FencedLabels => fence = t
  /\ pc[t] \in {"fetch", "prepare"} => job.room = NoRoom
  /\ pc[t] \in {"remove", "cleanup", "forget"} => job.room = mem[t].room
  /\ pc[t] = "remove" => portal \in {NoRoom, mem[t].room} /\ mem[t].room # NoRoom
  /\ pc[t] \in {"forget", "ack"} => job.room \notin rooms

(* What thread t knows of the conversation on Tumblr.                       *)
GoneInv(t) ==
  /\ pc[t] = "detach" => portal \in Gone
  /\ pc[t] \in {"idle", "selected", "fetch", "confirm", "judge"} /\ mem[t].check = "clear" /\ blocked
       => mem[t].room \in outdated \cup {NoRoom}

(* What thread t has fetched is in Matrix, or still to be delivered; what   *)
(* it left out is in Matrix, or left to the backfill.                       *)
FetchInv(t) ==
  /\ mem[t].head <= newest
  /\ Undisturbed =>
       /\ job.room # NoRoom => mem[t].head <= cut
       /\ pc[t] \in Delivering /\ (mem[t].held => pc[t] = "prepare") /\ (pc[t] = "prepare" => portal # NoRoom)
            => \A m \in Messages : m > cut /\ m <= mem[t].head => m \in bridged \cup backfill \cup mem[t].todo
       /\ pc[t] = "commit" => mem[t].todo = {} /\ ~mem[t].held
       /\ pc[t] = "deliver" /\ portal = NoRoom => mem[t].head <= cut

ThreadInv(t) == RowInv(t) /\ GoneInv(t) /\ FetchInv(t)

(* A chat deletion that got the fence has its room on the row, until the    *)
(* row names another one.                                                   *)
UserInv(h) ==
  /\ user[h].pc # "idle" => user[h].room \in made
  /\ user[h].pc = "request" => fence = h /\ job.room = user[h].room
  /\ user[h].pc \in {"request", "portal", "room"} => user[h].room \in asked
  /\ user[h].pc = "portal" => user[h].room \in {job.room} \cup released \/ user[h].room \notin rooms

RoomInv ==
  /\ RoomAccounted
  /\ made \ rooms \subseteq Gone
  /\ newest = cut => rooms \subseteq ended
  /\ portal \in made \cup {NoRoom}
  /\ job.room \in Gone
  /\ job.room # NoRoom => portal \in Gone
  /\ portal = NoRoom => backfill = {}

HeadInv ==
  /\ head <= newest
  /\ HeadConfirmed
  /\ Undisturbed =>
       /\ portal = NoRoom => head <= cut
       /\ job.room # NoRoom => head <= cut
       /\ (\E t \in Threads : pc[t] = "detach") /\ portal # NoRoom => Past

IInv ==
  /\ ConversationTypeOK
  /\ \A t \in Threads : ThreadInv(t)
  /\ \A h \in Hosts : UserInv(h)
  /\ RoomInv
  /\ HeadInv

(* The walks through the conversation list: their types, and that one which *)
(* counts against the row did not have the conversation, with no sign of    *)
(* life since.                                                              *)
ListsTyped ==
  /\ walk \in [Hosts -> {"idle", "queue", "overtaken"}] /\ listed \subseteq Hosts /\ unlisted \subseteq Hosts
AbsentInv == job.absent \subseteq unlisted

-----------------------------------------------------------------------------
(* What a statement makes of the row.                                       *)
LEMMA RaisedRow ==
  ASSUME NEW j \in Jobs, NEW room \in Rooms \cup {NoRoom}, NEW due \in BOOLEAN
  PROVE  /\ Raise(j, room, due) \in Jobs
         /\ Raise(j, room, due).rev = j.rev + 1 /\ Raise(j, room, due).room = room
BY JobAssumption DEF Jobs, Raise, Fresh

LEMMA ListedRow ==
  ASSUME NEW j \in Jobs, NEW h \in Hosts
  PROVE  /\ Against(j, h) \in Jobs /\ Against(j, h).rev = j.rev /\ Against(j, h).room = j.room
         /\ NotAgainst(j, h) \in Jobs /\ NotAgainst(j, h).rev = j.rev /\ NotAgainst(j, h).room = j.room
BY DEF Jobs, Against, NotAgainst

LEMMA JobRows ==
  ASSUME NEW j \in Jobs, NEW room \in Rooms \cup {NoRoom}
  PROVE  /\ Put(j) \in Jobs /\ Put(j).rev = j.rev + 1 /\ Put(j).room = j.room
         /\ PutLiveConversation(j) \in Jobs
         /\ PutLiveConversation(j).rev = j.rev + 1 /\ PutLiveConversation(j).room = NoRoom
         /\ ScheduleDeleteRoom(j, room) \in Jobs
         /\ ScheduleDeleteRoom(j, room).rev = j.rev + 1 /\ ScheduleDeleteRoom(j, room).room = room
         /\ FallDue(j) \in Jobs /\ FallDue(j).rev = j.rev /\ FallDue(j).room = j.room
<1>1. j.room \in Rooms \cup {NoRoom}
  BY DEF Jobs
<1>2. Put(j) \in Jobs /\ Put(j).rev = j.rev + 1 /\ Put(j).room = j.room
  BY <1>1, RaisedRow DEF Put
<1>3. /\ PutLiveConversation(j) \in Jobs
      /\ PutLiveConversation(j).rev = j.rev + 1 /\ PutLiveConversation(j).room = NoRoom
  BY RaisedRow DEF PutLiveConversation
<1>4. /\ ScheduleDeleteRoom(j, room) \in Jobs
      /\ ScheduleDeleteRoom(j, room).rev = j.rev + 1 /\ ScheduleDeleteRoom(j, room).room = room
  BY RaisedRow DEF ScheduleDeleteRoom
<1>5. FallDue(j) \in Jobs /\ FallDue(j).rev = j.rev /\ FallDue(j).room = j.room
  BY DEF Jobs, FallDue
<1>6. QED BY <1>2, <1>3, <1>4, <1>5

LEMMA EnsuredRow ==
  ASSUME NEW j \in Jobs
  PROVE  /\ Ensure(j) \in Jobs /\ Ensure(j).room = j.room
         /\ j # NoJob => Ensure(j) = j
         /\ j = NoJob => Ensure(j).rev = 1
BY JobAssumption DEF Jobs, Ensure, Fresh, NoJob

LEMMA RevisedRow ==
  ASSUME NEW j \in Jobs, NEW rev \in Nat, NEW room \in Rooms \cup {NoRoom}
  PROVE  /\ Delete(j, rev) \in Jobs
         /\ Delete(j, rev) = IF Current(j, rev) THEN NoJob ELSE j
         /\ SetDeleteRoom(j, rev, room) \in Jobs /\ SetDeleteRoom(j, rev, room).rev = j.rev
         /\ Current(j, rev) => SetDeleteRoom(j, rev, room).room = room
         /\ MarkRetry(j, rev) \in Jobs /\ MarkRetry(j, rev).room = j.room
         /\ MarkRetry(j, rev).rev \in {j.rev, j.rev + 1}
<1>1. NoJob \in Jobs
  BY JobAssumption DEF Jobs, NoJob
<1>2. Delete(j, rev) \in Jobs /\ Delete(j, rev) = IF Current(j, rev) THEN NoJob ELSE j
  BY <1>1 DEF Delete
<1>3. /\ SetDeleteRoom(j, rev, room) \in Jobs /\ SetDeleteRoom(j, rev, room).rev = j.rev
      /\ Current(j, rev) => SetDeleteRoom(j, rev, room).room = room
  BY DEF Jobs, SetDeleteRoom
<1>4. /\ MarkRetry(j, rev) \in Jobs /\ MarkRetry(j, rev).room = j.room
      /\ MarkRetry(j, rev).rev \in {j.rev, j.rev + 1}
  <2>1. CASE Current(j, rev) /\ j.attempts < MaxAttempts
    <3>1. j.rev + 1 \in Nat /\ j.attempts + 1 \in 0..MaxAttempts
      BY <2>1, JobAssumption DEF Jobs
    <3>2. MarkRetry(j, rev) = [j EXCEPT !.rev = j.rev + 1, !.due = FALSE, !.absent = {}, !.attempts = j.attempts + 1]
      BY <2>1 DEF MarkRetry
    <3>3. QED BY <3>1, <3>2 DEF Jobs
  <2>2. CASE Current(j, rev) /\ ~(j.attempts < MaxAttempts)
    <3>1. j.rev + 1 \in Nat
      BY DEF Jobs
    <3>2. MarkRetry(j, rev) = [j EXCEPT !.rev = j.rev + 1, !.due = FALSE, !.absent = {}, !.attempts = j.attempts]
      BY <2>2 DEF MarkRetry
    <3>3. QED BY <3>1, <3>2 DEF Jobs
  <2>3. CASE ~Current(j, rev)
    BY <2>3 DEF MarkRetry, Jobs
  <2>4. QED BY <2>1, <2>2, <2>3
<1>5. QED BY <1>2, <1>3, <1>4

LEMMA IdleMemory == Idle \in Memories
BY JobAssumption, SyncAssumption DEF Idle, Memories

(* A thread that keeps a record has it, and the others have theirs.         *)
LEMMA Kept ==
  ASSUME mem \in [Threads -> Memories], NEW t \in Threads, NEW r \in Memories, Keep(t, r)
  PROVE  /\ mem' \in [Threads -> Memories]
         /\ mem'[t] = r /\ \A u \in Threads : u # t => mem'[u] = mem[u]
BY DEF Keep

(* Where a thread is, and what it has, after its step.                      *)
LEMMA Acted ==
  ASSUME ConversationTypeOK, NEW t \in Threads, NEW l, NEW r, Goto(t, l), Keep(t, r)
  PROVE  pc'[t] = l /\ mem'[t] = r
BY DEF ConversationTypeOK, Goto, Keep

(* A bound that was there is spent.                                         *)
LEMMA Spent ==
  ASSUME left \in [Kinds -> Nat], NEW k \in Kinds, Spend(k)
  PROVE  left' \in [Kinds -> Nat]
BY DEF Spend

-----------------------------------------------------------------------------
(* Steps that change nothing but a thread, and the row without its room. *)

(* Thread t goes to l, and others at most give up a sync they selected.     *)
Steady(u) == /\ pc'[u] = pc[u] \/ (pc[u] = "selected" /\ pc'[u] = "idle")
             /\ mem'[u] = mem[u]
Placed(t, l) ==
  /\ pc' \in [Threads -> Labels] /\ pc'[t] = l
  /\ \A u \in Threads \ {t} : pc'[u] = pc[u] \/ (pc[u] = "selected" /\ pc'[u] = "idle")

LEMMA GotoPlaces ==
  ASSUME ConversationTypeOK, NEW t \in Threads, NEW l \in Labels,
         Goto(t, l) \/ pc' = [Cancelled EXCEPT ![t] = l]
  PROVE  Placed(t, l)
<1>1. pc \in [Threads -> Labels]
  BY DEF ConversationTypeOK, Labels
<1>2. CASE Goto(t, l)
  BY <1>1, <1>2 DEF Goto, Placed
<1>3. CASE pc' = [Cancelled EXCEPT ![t] = l]
  <2>1. Cancelled \in [Threads -> Labels]
    BY <1>1 DEF Cancelled, Labels
  <2>2. \A u \in Threads : Cancelled[u] = pc[u] \/ (pc[u] = "selected" /\ Cancelled[u] = "idle")
    BY DEF Cancelled, At
  <2>3. QED BY <1>3, <2>1, <2>2 DEF Placed
<1>4. QED BY <1>2, <1>3

(* Whoever does not hold the fence knows nothing of the row and the rooms.  *)
LEMMA UnfencedKept ==
  ASSUME IInv, NEW u \in Threads, Steady(u), pc[u] \notin FencedLabels, UNCHANGED <<blocked, outdated>>
  PROVE  RowInv(u)' /\ GoneInv(u)'
<1>1. GoneInv(u) /\ pc'[u] \notin FencedLabels
  BY DEF IInv, ThreadInv, Steady, FencedLabels, SyncLabels, DeleteLabels
<1>2. QED BY <1>1 DEF Steady, RowInv, GoneInv, FencedLabels, SyncLabels, DeleteLabels

(* What a step that changes only a thread leaves of the others.             *)
LEMMA OthersKept ==
  ASSUME IInv, NEW u \in Threads, Steady(u), fence = u => fence' = u, job'.room = job.room,
         outdated \subseteq outdated', UNCHANGED <<remoteVars, matrixVars, ended, asked, released>>
  PROVE  ThreadInv(u)'
<1>1. ThreadInv(u)
  BY DEF IInv
<1>2. RowInv(u)'
  BY <1>1 DEF Steady, ThreadInv, RowInv, matrixVars, FencedLabels, SyncLabels, DeleteLabels
<1>3. GoneInv(u)'
  BY <1>1 DEF Steady, ThreadInv, GoneInv, Gone, remoteVars, matrixVars
<1>4. FetchInv(u)'
  BY <1>1 DEF Steady, ThreadInv, FetchInv, Delivering, Undisturbed, remoteVars, matrixVars
<1>5. QED BY <1>2, <1>3, <1>4 DEF ThreadInv

LEMMA PlacedStep ==
  ASSUME IInv, NEW t \in Threads, NEW l \in Labels, Placed(t, l),
         NEW r \in Memories, Keep(t, r),
         fence' = fence \/ {fence, fence'} \subseteq {t, NoThread},
         fence # t => r.head <= mem[t].head,
         l = "detach" /\ portal # NoRoom /\ Undisturbed' => Past /\ r.head <= cut,
         job' \in Jobs, job'.room = job.room, left' \in [Kinds -> Nat], owed' \in 0..MaxMessages,
         ListsTyped', outdated \subseteq outdated', outdated' \subseteq Rooms,
         UNCHANGED <<remoteVars, evidence, user, observed, probe, matrixVars, head, ended, asked, released>>,
         ThreadInv(t)'
  PROVE  IInv'
<1>1. ConversationTypeOK
  BY DEF IInv
<1>2. /\ mem' \in [Threads -> Memories] /\ mem'[t] = r
      /\ \A u \in Threads : u # t => mem'[u] = mem[u]
  BY <1>1, Kept DEF ConversationTypeOK
<1>3. pc' \in [Threads -> Labels] /\ \A u \in Threads : u # t => Steady(u)
  BY <1>2 DEF Placed, Steady
<1>4. ConversationTypeOK'
  BY <1>1, <1>2, <1>3 DEF ConversationTypeOK, Labels, ListsTyped, remoteVars, matrixVars
<1>5. \A u \in Threads : ThreadInv(u)'
  <2>1. SUFFICES ASSUME NEW u \in Threads, u # t PROVE ThreadInv(u)'
    OBVIOUS
  <2>2. fence = u => fence' = u
    BY <2>1, SyncAssumption
  <2>3. QED BY <1>2, <1>3, <2>1, <2>2, OthersKept
<1>6. \A h \in Hosts : UserInv(h)'
  <2>1. SUFFICES ASSUME NEW h \in Hosts PROVE UserInv(h)'
    OBVIOUS
  <2>2. UserInv(h) /\ (fence = h => fence' = h)
    BY SyncAssumption DEF IInv
  <2>3. QED BY <2>2 DEF UserInv, matrixVars
<1>7. RoomInv'
  BY DEF IInv, RoomInv, RoomAccounted, Gone, remoteVars, matrixVars
<1>8. HeadInv'
  <2>1. ASSUME NEW u \in Threads, pc'[u] = "detach", portal # NoRoom, Undisturbed'
        PROVE  Past'
    <3>1. CASE u = t
      BY <1>2, <2>1, <3>1 DEF Placed, Past, Labels, remoteVars
    <3>2. CASE u # t
      <4>1. pc[u] = "detach" /\ fence = u
        BY <1>3, <2>1, <3>2 DEF Steady, IInv, ThreadInv, RowInv, FencedLabels, DeleteLabels
      <4>2. Past /\ r.head <= mem[t].head
        BY <2>1, <3>2, <4>1, SyncAssumption DEF IInv, HeadInv, Undisturbed
      <4>3. mem[t].head \in Nat /\ r.head \in Nat /\ cut \in Nat
        BY <1>1, SyncAssumption DEF ConversationTypeOK, Memories
      <4>4. \A v \in Threads : mem'[v].head <= cut
        BY <1>2, <4>2, <4>3 DEF Past
      <4>5. QED BY <4>2, <4>4 DEF Past, remoteVars
    <3>3. QED BY <3>1, <3>2
  <2>2. QED
    BY <2>1 DEF IInv, HeadInv, HeadConfirmed, Provided, Undisturbed, remoteVars, matrixVars
<1>9. QED BY <1>4, <1>5, <1>6, <1>7, <1>8 DEF IInv

LEMMA Move ==
  ASSUME IInv, NEW t \in Threads, NEW l \in Labels, Goto(t, l),
         NEW r \in Memories, Keep(t, r),
         fence' = fence \/ {fence, fence'} \subseteq {t, NoThread},
         fence # t => r.head <= mem[t].head,
         l = "detach" /\ portal # NoRoom /\ Undisturbed => Past /\ r.head <= cut,
         job' \in Jobs, job'.room = job.room, left' \in [Kinds -> Nat],
         UNCHANGED <<World, matrixVars, head, historyVars>>,
         ThreadInv(t)'
  PROVE  IInv'
<1>1. Placed(t, l) /\ owed' \in 0..MaxMessages /\ Undisturbed' = Undisturbed
  BY GotoPlaces DEF IInv, ConversationTypeOK, historyVars, Undisturbed
<1>2. ListsTyped' /\ outdated' \subseteq Rooms
  BY DEF IInv, ConversationTypeOK, ListsTyped, World, historyVars, probeVars, listVars
<1>3. QED BY <1>1, <1>2, PlacedStep DEF World, probeVars, historyVars

(* A call that fails, where the fence is held or the thread delivers.       *)
LEMMA FailStep ==
  ASSUME IInv, NEW t \in Threads, NEW l \in {"retry", "failed"}, Fail(t, l),
         l = "failed" \/ fence = t
  PROVE  IInv'
<1>1. ConversationTypeOK /\ ThreadInv(t)
  BY DEF IInv
<1>2. mem[t] \in Memories /\ Keep(t, mem[t])
  BY <1>1 DEF ConversationTypeOK, Fail, Keep
<1>3. left' \in [Kinds -> Nat]
  BY <1>1, Spent DEF ConversationTypeOK, Fail, Kinds
<1>4. pc'[t] = l /\ mem'[t] = mem[t]
  BY <1>1 DEF ConversationTypeOK, Fail, Goto
<1>5. UNCHANGED <<remoteVars, matrixVars, tableVars, historyVars, fence>>
  BY DEF Fail, World
<1>6. ThreadInv(t)'
  <2>1. RowInv(t)'
    BY <1>4, <1>5 DEF RowInv, FencedLabels, SyncLabels, DeleteLabels
  <2>2. GoneInv(t)'
    BY <1>4 DEF GoneInv
  <2>3. FetchInv(t)'
    BY <1>1, <1>4, <1>5 DEF ThreadInv, FetchInv, Delivering, Undisturbed, remoteVars, matrixVars,
                            tableVars, historyVars
  <2>4. QED BY <2>1, <2>2, <2>3 DEF ThreadInv
<1>7. QED
  <2>1. l \in Labels /\ l # "detach" /\ Goto(t, l)
    BY DEF Fail, Labels, SyncLabels
  <2>2. mem[t].head <= mem[t].head
    BY <1>2, SyncAssumption DEF Memories
  <2>3. job' \in Jobs /\ job'.room = job.room
    BY <1>1, <1>5 DEF ConversationTypeOK, tableVars
  <2>4. UNCHANGED <<World, matrixVars, head, historyVars>>
    BY DEF Fail, tableVars
  <2>5. QED BY <1>2, <1>3, <1>5, <1>6, <2>1, <2>2, <2>3, <2>4, Move

(* A thread that returns, whether it holds the fence or not.                *)
LEMMA ReturnedStep ==
  ASSUME IInv, NEW t \in Threads, Goto(t, "idle"), Keep(t, Idle),
         fence' = IF fence = t THEN NoThread ELSE fence,
         job' \in Jobs, job'.room = job.room, left' \in [Kinds -> Nat],
         ListsTyped',
         UNCHANGED <<remoteVars, evidence, user, observed, probe, matrixVars, head, owed, ended, asked, released,
                     outdated>>
  PROVE  IInv'
<1>1. ConversationTypeOK
  BY DEF IInv
<1>2. mem'[t] = Idle /\ mem' \in [Threads -> Memories] /\ \A u \in Threads \ {t} : mem'[u] = mem[u]
  BY <1>1, IdleMemory, Kept DEF ConversationTypeOK
<1>3. pc'[t] = "idle" /\ pc' \in [Threads -> Labels] /\ \A u \in Threads \ {t} : pc'[u] = pc[u]
  BY <1>1 DEF ConversationTypeOK, Goto, Labels
<1>4. ConversationTypeOK'
  BY <1>1, <1>2, <1>3 DEF ConversationTypeOK, Labels, ListsTyped, remoteVars, matrixVars
<1>5. \A u \in Threads : ThreadInv(u)'
  <2>1. ASSUME NEW u \in Threads, u # t PROVE ThreadInv(u)'
    <3>1. Steady(u) /\ (fence = u => fence' = u)
      BY <1>2, <1>3, <2>1 DEF Steady
    <3>2. QED BY <3>1, OthersKept
  <2>2. RowInv(t)' /\ GoneInv(t)'
    BY <1>2, <1>3 DEF RowInv, GoneInv, FencedLabels, SyncLabels, DeleteLabels, Idle
  <2>3. FetchInv(t)'
    BY <1>1, <1>2, <1>3, <1>4 DEF FetchInv, Delivering, Idle, ConversationTypeOK
  <2>4. QED BY <2>1, <2>2, <2>3 DEF ThreadInv
<1>6. \A h \in Hosts : UserInv(h)'
  <2> SUFFICES ASSUME NEW h \in Hosts PROVE UserInv(h)'
    OBVIOUS
  <2>1. UserInv(h) /\ h # t
    BY SyncAssumption DEF IInv
  <2>2. QED BY <2>1 DEF UserInv, matrixVars
<1>7. RoomInv'
  BY DEF IInv, RoomInv, RoomAccounted, Gone, remoteVars, matrixVars
<1>8. HeadInv'
  <2>1. \A u \in Threads : mem'[u].head <= cut \/ mem'[u].head = mem[u].head
    BY <1>1, <1>2 DEF ConversationTypeOK, Idle
  <2>2. (\E u \in Threads : pc'[u] = "detach") => \E u \in Threads : pc[u] = "detach"
    BY <1>3
  <2>3. Past => Past'
    BY <2>1 DEF Past, remoteVars
  <2>4. QED
    BY <2>2, <2>3 DEF IInv, HeadInv, HeadConfirmed, Provided, Undisturbed, remoteVars, matrixVars
<1>9. QED BY <1>4, <1>5, <1>6, <1>7, <1>8 DEF IInv

LEMMA ReturnStep ==
  ASSUME IInv, NEW t \in Threads, Goto(t, "idle"), Keep(t, Idle),
         fence' = IF fence = t THEN NoThread ELSE fence,
         job' \in Jobs, job'.room = job.room, left' \in [Kinds -> Nat],
         UNCHANGED <<World, matrixVars, head, historyVars>>
  PROVE  IInv'
<1>1. ListsTyped'
  BY DEF IInv, ConversationTypeOK, ListsTyped, World, historyVars, probeVars, listVars
<1>2. QED BY <1>1, ReturnedStep DEF World, historyVars, probeVars

LEMMA LeaveStep ==
  ASSUME IInv, NEW t \in Threads, Leave(t), fence \in {t, NoThread},
         job' \in Jobs, job'.room = job.room, left' \in [Kinds -> Nat],
         UNCHANGED <<World, matrixVars, head, historyVars>>
  PROVE  IInv'
BY ReturnStep DEF Leave

-----------------------------------------------------------------------------
(* The steps of a sync. *)

LEMMA SelectStep ==
  ASSUME IInv, NEW t \in Threads, Select(t)
  PROVE  IInv'
<1> DEFINE r == [Idle EXCEPT !.rev = job.rev]
<1>1. ConversationTypeOK
  BY DEF IInv
<1>2. r \in Memories /\ r.head = 0 /\ r.check = "none"
  BY <1>1, IdleMemory DEF ConversationTypeOK, Jobs, Idle, Memories
<1>3. Goto(t, "selected") /\ Keep(t, r) /\ UNCHANGED <<fence, job, left>>
  BY DEF Select, tableVars
<1> HIDE DEF r
<1>4. pc'[t] = "selected" /\ mem'[t] = r
  BY <1>1, <1>2, <1>3, Kept DEF ConversationTypeOK, Goto
<1>5. ThreadInv(t)'
  <2>1. RowInv(t)' /\ GoneInv(t)'
    BY <1>2, <1>4 DEF RowInv, GoneInv, FencedLabels, SyncLabels, DeleteLabels
  <2>2. FetchInv(t)'
    BY <1>1, <1>2, <1>4 DEF FetchInv, Delivering, ConversationTypeOK, Select, World, remoteVars
  <2>3. QED BY <2>1, <2>2 DEF ThreadInv
<1>6. QED
  <2>1. "selected" \in Labels /\ left' \in [Kinds -> Nat] /\ job' \in Jobs
    BY <1>1, <1>3 DEF Labels, ConversationTypeOK
  <2>2. r.head <= mem[t].head
    BY <1>1, <1>2 DEF ConversationTypeOK, Memories
  <2>3. QED BY <1>2, <1>3, <1>5, <2>1, <2>2, Move DEF Select, tableVars

LEMMA SelectSendStep ==
  ASSUME IInv, NEW t \in Threads, SelectSend(t)
  PROVE  IInv'
<1>1. ConversationTypeOK /\ ThreadInv(t)
  BY DEF IInv
<1>2. mem[t] \in Memories /\ mem' = mem /\ Keep(t, mem[t]) /\ Goto(t, "selected")
  BY <1>1 DEF ConversationTypeOK, SelectSend, Keep
<1>3. pc'[t] = "selected" /\ mem'[t] = mem[t]
  BY <1>1, <1>2, Acted
<1>4. UNCHANGED <<World, matrixVars, tableVars, historyVars, fence>>
  BY DEF SelectSend
<1>5. RowInv(t)' /\ GoneInv(t)'
  BY <1>1, <1>3, <1>4 DEF ThreadInv, RowInv, GoneInv, SelectSend, At, FencedLabels, SyncLabels,
                          DeleteLabels, World, remoteVars, historyVars
<1>6. FetchInv(t)'
  BY <1>1, <1>3, <1>4 DEF ThreadInv, FetchInv, Delivering, Undisturbed, World, remoteVars, tableVars,
                          historyVars
<1>7. ThreadInv(t)' /\ left' \in [Kinds -> Nat] /\ "selected" \in Labels
  BY <1>1, <1>5, <1>6, Spent DEF ThreadInv, SelectSend, Kinds, Labels, ConversationTypeOK
<1>8. mem[t].head <= mem[t].head /\ job' \in Jobs /\ job'.room = job.room
  BY <1>1, <1>2, <1>4 DEF ConversationTypeOK, Memories, tableVars
<1>9. QED BY <1>2, <1>4, <1>7, <1>8, Move DEF tableVars

(* Take: the fence is granted, and the row is as the thread wants it.       *)
LEMMA TakeStep ==
  ASSUME IInv, NEW t \in Threads, Take(t)
  PROVE  IInv'
<1> DEFINE l == IF job.room = NoRoom THEN "fetch" ELSE "confirm"
           r == [mem[t] EXCEPT !.rev = job.rev]
<1>1. ConversationTypeOK /\ ThreadInv(t) /\ pc[t] = "selected" /\ fence = NoThread
  BY DEF IInv, Take, At
<1>2. UNCHANGED <<World, matrixVars, head, historyVars, job, left>>
  BY DEF Take, tableVars
<1>3. left' \in [Kinds -> Nat] /\ job' \in Jobs /\ job'.room = job.room
  BY <1>1, <1>2 DEF ConversationTypeOK
<1>4. CASE fence' = t /\ Goto(t, l) /\ Keep(t, r)
  <2>1. mem[t] \in Memories /\ job.rev \in Nat
    BY <1>1 DEF ConversationTypeOK, Jobs
  <2>2. r \in Memories /\ r = [mem[t] EXCEPT !.rev = job.rev]
    BY <2>1 DEF Memories
  <2>3. r.head = mem[t].head /\ r.check = mem[t].check /\ r.room = mem[t].room /\ r.head <= mem[t].head
    BY <2>1, SyncAssumption DEF Memories
  <2> HIDE DEF r
  <2>4. l \in Labels /\ l \in {"fetch", "confirm"}
    BY DEF Labels, SyncLabels, DeleteLabels
  <2>5. pc'[t] = l /\ mem'[t] = r
    BY <1>1, <1>4, <2>2, <2>4, Acted
  <2>6. RowInv(t)'
    BY <1>2, <1>4, <2>5 DEF RowInv
  <2>7. GoneInv(t)'
    BY <1>1, <1>2, <2>3, <2>4, <2>5 DEF ThreadInv, GoneInv, World, remoteVars, historyVars
  <2>8. FetchInv(t)'
    BY <1>1, <1>2, <2>3, <2>4, <2>5 DEF ThreadInv, FetchInv, Delivering, Undisturbed, World,
                                        remoteVars, historyVars
  <2>9. ThreadInv(t)'
    BY <2>6, <2>7, <2>8 DEF ThreadInv
  <2>10. {fence, fence'} \subseteq {t, NoThread}
    BY <1>1, <1>4
  <2> HIDE DEF l
  <2>11. QED BY <1>1, <1>2, <1>3, <1>4, <2>2, <2>3, <2>4, <2>9, <2>10, Move
<1>5. CASE Leave(t)
  BY <1>1, <1>2, <1>3, <1>5, LeaveStep
<1>6. QED BY <1>4, <1>5 DEF Take

(* What no invariant speaks of.                                             *)
LEMMA Aside ==
  ASSUME IInv, ConversationTypeOK',
         UNCHANGED <<newest, cut, blocked, matrixVars, tableVars, threadVars, user, historyVars>>
  PROVE  IInv'
<1>1. \A t \in Threads : ThreadInv(t)'
  BY DEF IInv, ThreadInv, RowInv, GoneInv, FetchInv, Gone, Undisturbed,
         matrixVars, tableVars, threadVars, historyVars
<1>2. \A h \in Hosts : UserInv(h)'
  BY DEF IInv, UserInv, matrixVars, tableVars, threadVars, historyVars
<1>3. RoomInv'
  BY DEF IInv, RoomInv, RoomAccounted, Gone, matrixVars, tableVars, historyVars
<1>4. HeadInv'
  BY DEF IInv, HeadInv, HeadConfirmed, Provided, Past, Undisturbed, matrixVars, tableVars, threadVars, historyVars
<1>5. QED BY <1>1, <1>2, <1>3, <1>4 DEF IInv

(* A history that was read down to the head holds what is not in Matrix yet; *)
(* where the portal has no room nothing is claimed of its newest page.      *)
LEMMA FetchedStep ==
  ASSUME IInv, NEW t \in Threads, At(t, "fetch"), Reachable, Goto(t, "prepare"),
         Keep(t, [mem[t] EXCEPT !.todo = Fetched, !.head = newest]),
         UNCHANGED <<World, matrixVars, tableVars, fence, left, historyVars>>
  PROVE  IInv'
<1> DEFINE r == [mem[t] EXCEPT !.todo = Fetched, !.head = newest]
<1>1. ConversationTypeOK /\ ThreadInv(t) /\ pc[t] = "fetch"
  BY DEF IInv, At
<1>2. fence = t /\ job.room = NoRoom
  BY <1>1 DEF ThreadInv, RowInv, FencedLabels, SyncLabels
<1>3. Fetched \subseteq Messages /\ newest \in 0..MaxMessages /\ mem[t] \in Memories
  BY <1>1, SyncAssumption DEF ConversationTypeOK, Fetched, Visible, Messages
<1>4. r \in Memories /\ r.todo = Fetched /\ r.head = newest
  BY <1>3 DEF Memories
<1> HIDE DEF r
<1>5. pc'[t] = "prepare" /\ mem'[t] = r
  BY <1>1, <1>4, Acted DEF Labels, SyncLabels, r
<1>6. portal # NoRoom /\ Undisturbed
        => \A m \in Messages : m > cut /\ m <= newest => m \in bridged \cup backfill \cup Fetched
  BY <1>1, SyncAssumption DEF Fetched, Visible, IInv, HeadInv, HeadConfirmed, Provided, Messages, ConversationTypeOK
<1>7. RowInv(t)' /\ GoneInv(t)'
  BY <1>2, <1>5 DEF RowInv, GoneInv, tableVars
<1>8. FetchInv(t)'
  BY <1>2, <1>3, <1>4, <1>5, <1>6 DEF FetchInv, World, remoteVars, matrixVars, tableVars, historyVars, Undisturbed
<1>9. ThreadInv(t)' /\ left' \in [Kinds -> Nat] /\ job' \in Jobs /\ "prepare" \in Labels
  BY <1>1, <1>7, <1>8 DEF ThreadInv, ConversationTypeOK, tableVars, Labels, SyncLabels
<1>10. QED BY <1>2, <1>4, <1>9, Move DEF r, tableVars

LEMMA FetchStep ==
  ASSUME IInv, NEW t \in Threads, Fetch(t)
  PROVE  IInv'
<1>1. ConversationTypeOK /\ ThreadInv(t) /\ pc[t] = "fetch"
  BY DEF IInv, Fetch, At
<1>2. fence = t
  BY <1>1 DEF ThreadInv, RowInv, FencedLabels, SyncLabels
<1>3. CASE renamed' = FALSE /\ UNCHANGED <<newest, cut, blocked, evidence, user, probeVars, matrixVars, tableVars,
                                            threadVars, left, historyVars>>
  <2>1. ConversationTypeOK'
    BY <1>1, <1>3 DEF ConversationTypeOK, probeVars, listVars, matrixVars, tableVars, threadVars, historyVars
  <2>2. QED BY <1>3, <2>1, Aside
<1>4. CASE /\ IF mem[t].rev # 0
                THEN UNCHANGED <<job, mem>>
                ELSE job' = Ensure(job) /\ Keep(t, [mem[t] EXCEPT !.rev = job'.rev])
           /\ Goto(t, "confirm")
           /\ UNCHANGED <<World, matrixVars, head, fence, left, historyVars>>
  <2> DEFINE r == IF mem[t].rev # 0 THEN mem[t] ELSE [mem[t] EXCEPT !.rev = job'.rev]
  <2>1. mem[t] \in Memories /\ job \in Jobs
    BY <1>1 DEF ConversationTypeOK
  <2>2. job' \in Jobs /\ job'.room = job.room /\ job'.rev \in Nat
    BY <1>4, <2>1, EnsuredRow DEF Jobs
  <2>3. Keep(t, r)
    BY <1>1, <1>4 DEF Keep, ConversationTypeOK
  <2>4. r \in Memories /\ r.head = mem[t].head /\ r.check = mem[t].check /\ r.room = mem[t].room
    BY <2>1, <2>2 DEF Memories
  <2> HIDE DEF r
  <2>5. pc'[t] = "confirm" /\ mem'[t] = r /\ "confirm" \in Labels
    BY <1>1, <1>4, <2>3, <2>4, Acted DEF Labels, DeleteLabels
  <2>6. RowInv(t)'
    BY <1>2, <1>4, <2>5 DEF RowInv
  <2>7. GoneInv(t)'
    BY <1>1, <1>4, <2>4, <2>5 DEF ThreadInv, GoneInv, World, remoteVars, historyVars
  <2>8. FetchInv(t)'
    BY <1>1, <1>4, <2>2, <2>4, <2>5 DEF ThreadInv, FetchInv, Delivering, Undisturbed, World,
                                        remoteVars, historyVars
  <2>9. ThreadInv(t)' /\ left' \in [Kinds -> Nat]
    BY <1>1, <1>4, <2>6, <2>7, <2>8 DEF ThreadInv, ConversationTypeOK
  <2>10. QED BY <1>2, <1>4, <2>2, <2>3, <2>4, <2>5, <2>9, Move
<1>5. CASE Fail(t, "retry")
  BY <1>2, <1>5, FailStep
<1>6. QED BY <1>3, <1>4, <1>5, FetchedStep DEF Fetch

Prepared(t, held) == [mem[t] EXCEPT !.todo = @ \ (bridged \cup held), !.held = held # {}]

(* The messages to deliver are what was fetched and is not in Matrix yet.   *)
LEMMA PreparedMemory ==
  ASSUME IInv, NEW t \in Threads, At(t, "prepare"), NEW held
  PROVE  LET r == Prepared(t, held) IN
         /\ r \in Memories /\ r.head = mem[t].head /\ r.head <= newest
         /\ portal # NoRoom /\ Undisturbed /\ ~r.held
              => \A m \in Messages : m > cut /\ m <= r.head => m \in bridged \cup backfill \cup r.todo
<1> DEFINE r == Prepared(t, held)
<1>1. mem[t] \in Memories /\ pc[t] = "prepare" /\ FetchInv(t)
  BY DEF IInv, ConversationTypeOK, At, ThreadInv
<1>2. r \in Memories /\ r.head = mem[t].head /\ r.held = (held # {}) /\ r.todo = mem[t].todo \ (bridged \cup held)
  BY <1>1 DEF Memories, Prepared
<1> HIDE DEF r
<1>3. ASSUME NEW m \in Messages, m > cut, m <= mem[t].head, portal # NoRoom, Undisturbed, ~r.held
      PROVE  m \in bridged \cup backfill \cup r.todo
  <2>1. m \in bridged \cup backfill \cup mem[t].todo
    BY <1>1, <1>3 DEF FetchInv, Delivering
  <2>2. held = {}
    BY <1>2, <1>3
  <2>3. QED BY <1>2, <2>1, <2>2
<1>4. mem[t].head <= newest
  BY <1>1 DEF FetchInv
<1>5. QED BY <1>2, <1>3, <1>4 DEF r

(* The portal has its room already.                                         *)
LEMMA PreparedStep ==
  ASSUME IInv, NEW t \in Threads, At(t, "prepare"), portal # NoRoom, NEW held,
         Goto(t, "deliver"), fence' = NoThread, left' \in [Kinds -> Nat],
         Keep(t, Prepared(t, held)),
         UNCHANGED <<World, matrixVars, tableVars, historyVars>>
  PROVE  IInv'
<1> DEFINE r == Prepared(t, held)
<1>1. ConversationTypeOK /\ ThreadInv(t) /\ pc[t] = "prepare"
  BY DEF IInv, At
<1>2. fence = t /\ job.room = NoRoom
  BY <1>1 DEF ThreadInv, RowInv, FencedLabels, SyncLabels
<1>3. /\ r \in Memories /\ r.head = mem[t].head /\ r.head <= newest
      /\ portal # NoRoom /\ Undisturbed /\ ~r.held
           => \A m \in Messages : m > cut /\ m <= r.head => m \in bridged \cup backfill \cup r.todo
  BY PreparedMemory
<1>4. Keep(t, r)
  OBVIOUS
<1> HIDE DEF r
<1>5. pc'[t] = "deliver" /\ mem'[t] = r /\ "deliver" \in Labels
  BY <1>1, <1>3, <1>4, Acted DEF Labels, SyncLabels
<1>6. RowInv(t)' /\ GoneInv(t)'
  BY <1>5 DEF RowInv, GoneInv, FencedLabels, SyncLabels, DeleteLabels
<1>7. FetchInv(t)'
  BY <1>2, <1>3, <1>5 DEF FetchInv, World, remoteVars, matrixVars, tableVars, historyVars, Undisturbed
<1>8. ThreadInv(t)' /\ job' \in Jobs
  BY <1>1, <1>6, <1>7 DEF ThreadInv, ConversationTypeOK, tableVars
<1>9. QED BY <1>2, <1>3, <1>4, <1>5, <1>8, Move DEF tableVars

(* The portal gets a room that was never used; what is not delivered to it  *)
(* is left to the backfill.                                                 *)
LEMMA NewRoom ==
  ASSUME made \subseteq Rooms, made # Rooms
  PROVE  NextRoom \in Rooms \ made
BY DEF NextRoom

LEMMA PreparedNewStep ==
  ASSUME IInv, NEW t \in Threads, At(t, "prepare"), portal = NoRoom, NEW held,
         Goto(t, "deliver"), fence' = NoThread, left' \in [Kinds -> Nat],
         Keep(t, Prepared(t, held)),
         made # Rooms, portal' = NextRoom, made' = made \cup {NextRoom}, rooms' = rooms \cup {NextRoom},
         backfill' = 1..mem[t].head \ mem[t].todo,
         ended' = IF newest = cut THEN ended \cup {NextRoom} ELSE ended,
         UNCHANGED <<World, bridged, tableVars, owed, asked, released, unlisted, outdated>>
  PROVE  IInv'
<1> DEFINE r == Prepared(t, held)
<1>1. ConversationTypeOK /\ ThreadInv(t) /\ pc[t] = "prepare"
  BY DEF IInv, At
<1>2. fence = t /\ job.room = NoRoom
  BY <1>1 DEF ThreadInv, RowInv, FencedLabels, SyncLabels
<1>3. /\ r \in Memories /\ r.head = mem[t].head /\ r.head <= newest
      /\ ~r.held => mem[t].todo \subseteq bridged \cup r.todo
  <2>1. r \in Memories /\ r.head = mem[t].head /\ r.head <= newest
    BY PreparedMemory
  <2>2. mem[t] \in Memories
    BY <1>1 DEF ConversationTypeOK
  <2>3. r.held = (held # {}) /\ r.todo = mem[t].todo \ (bridged \cup held)
    BY <2>2 DEF Memories, Prepared
  <2>4. QED BY <2>1, <2>3
<1>4. NextRoom \in Rooms \ made /\ NextRoom # NoRoom
  BY <1>1, NewRoom, JobAssumption DEF ConversationTypeOK
<1>5. Keep(t, r)
  OBVIOUS
<1> HIDE DEF r
<1>6. /\ pc'[t] = "deliver" /\ mem'[t] = r
      /\ mem' \in [Threads -> Memories] /\ \A u \in Threads \ {t} : mem'[u] = mem[u]
  BY <1>1, <1>3, <1>5, Acted, Kept DEF ConversationTypeOK
<1>7. pc' \in [Threads -> Labels] /\ \A u \in Threads \ {t} : pc'[u] = pc[u]
  BY <1>1 DEF ConversationTypeOK, Goto, Labels, SyncLabels
<1>8. /\ backfill' \subseteq Messages
      /\ ~r.held => \A m \in Messages : m <= r.head => m \in bridged' \cup backfill' \cup r.todo
  <2>1. mem[t].head \in 0..MaxMessages
    BY <1>1 DEF ConversationTypeOK, Memories
  <2>2. backfill' \subseteq Messages
    BY <2>1, SyncAssumption DEF Messages
  <2>3. \A m \in Messages : m <= mem[t].head => m \in backfill' \cup mem[t].todo
    BY <2>1, SyncAssumption DEF Messages
  <2>4. QED BY <1>3, <2>2, <2>3
<1>9. ConversationTypeOK'
  BY <1>1, <1>4, <1>6, <1>7, <1>8 DEF ConversationTypeOK, Labels, World, remoteVars, tableVars, probeVars, listVars
<1>10. \A u \in Threads : ThreadInv(u)'
  <2>1. ASSUME NEW u \in Threads, u # t PROVE ThreadInv(u)'
    <3>1. ThreadInv(u) /\ pc'[u] = pc[u] /\ mem'[u] = mem[u] /\ pc[u] \notin FencedLabels
      BY <1>2, <1>6, <1>7, <2>1 DEF IInv, ThreadInv, RowInv
    <3>2. RowInv(u)' /\ GoneInv(u)'
      BY <3>1 DEF ThreadInv, RowInv, GoneInv, FencedLabels, SyncLabels, DeleteLabels, World, remoteVars
    <3>3. Undisturbed /\ pc[u] = "deliver" => \A m \in Messages : ~(m > cut /\ m <= mem[u].head)
      BY <1>1, <3>1, SyncAssumption DEF ThreadInv, FetchInv, ConversationTypeOK, Memories, Messages
    <3>4. FetchInv(u)'
      BY <1>4, <3>1, <3>3 DEF ThreadInv, FetchInv, Delivering, FencedLabels, SyncLabels, DeleteLabels,
                              Undisturbed, World, remoteVars, tableVars
    <3>5. QED BY <3>2, <3>4 DEF ThreadInv
  <2>2. RowInv(t)' /\ GoneInv(t)'
    BY <1>6 DEF RowInv, GoneInv, FencedLabels, SyncLabels, DeleteLabels
  <2>3. FetchInv(t)'
    BY <1>2, <1>3, <1>4, <1>6, <1>8 DEF FetchInv, World, remoteVars, tableVars, Undisturbed
  <2>4. QED BY <2>1, <2>2, <2>3 DEF ThreadInv
<1>11. \A h \in Hosts : UserInv(h)'
  <2> SUFFICES ASSUME NEW h \in Hosts PROVE UserInv(h)'
    OBVIOUS
  <2>1. UserInv(h) /\ fence # h
    BY <1>2, SyncAssumption DEF IInv
  <2>2. QED BY <1>4, <2>1 DEF UserInv, World, tableVars
<1>12. RoomInv'
  <2>1. RoomInv /\ rooms \subseteq made /\ rooms \subseteq Rooms
    BY <1>1 DEF IInv, ConversationTypeOK
  <2>2. RoomAccounted' /\ (made \ rooms \subseteq Gone)' /\ (newest = cut => rooms \subseteq ended)'
    BY <1>4, <2>1, JobAssumption DEF RoomInv, RoomAccounted, Gone, World, remoteVars, tableVars
  <2>3. QED BY <1>2, <1>4, <2>1, <2>2 DEF RoomInv, Gone, World, remoteVars, tableVars
<1>13. HeadInv'
  <2>1. \A u \in Threads : pc'[u] # "detach"
    BY <1>2, <1>6, <1>7 DEF IInv, ThreadInv, RowInv, FencedLabels, DeleteLabels
  <2>2. Undisturbed => \A m \in Messages : ~(m > cut /\ m <= head)
    BY <1>1, SyncAssumption DEF IInv, HeadInv, ConversationTypeOK, Messages
  <2>3. QED
    BY <1>2, <1>4, <2>1, <2>2 DEF IInv, HeadInv, HeadConfirmed, Provided, Undisturbed, World, remoteVars, tableVars
<1>14. QED BY <1>9, <1>10, <1>11, <1>12, <1>13 DEF IInv

LEMMA PrepareStep ==
  ASSUME IInv, NEW t \in Threads, Prepare(t)
  PROVE  IInv'
<1>1. ConversationTypeOK /\ ThreadInv(t) /\ At(t, "prepare")
  BY DEF IInv, Prepare
<1>2. CASE Fail(t, "retry")
  BY <1>1, <1>2, FailStep DEF At, ThreadInv, RowInv, FencedLabels, SyncLabels
<1>3. ASSUME ~Fail(t, "retry") PROVE IInv'
  <2>1. PICK held \in {{}, {mem[t].head}} :
          /\ IF held = {} THEN UNCHANGED left ELSE Spend("fault")
          /\ Goto(t, "deliver")
          /\ Keep(t, [mem[t] EXCEPT !.todo = @ \ (bridged \cup held), !.held = held # {}])
          /\ fence' = NoThread
          /\ IF portal # NoRoom
               THEN UNCHANGED <<matrixVars, ended>>
               ELSE /\ made # Rooms
                    /\ portal' = NextRoom
                    /\ made' = made \cup {NextRoom} /\ rooms' = rooms \cup {NextRoom}
                    /\ backfill' = 1..mem[t].head \ mem[t].todo
                    /\ ended' = IF newest = cut THEN ended \cup {NextRoom} ELSE ended
                    /\ UNCHANGED bridged
    BY <1>3 DEF Prepare
  <2>2. UNCHANGED <<World, tableVars, owed, asked, released, unlisted, outdated>>
    BY <1>3 DEF Prepare
  <2>3. left' \in [Kinds -> Nat]
    BY <1>1, <2>1, Spent DEF ConversationTypeOK, Kinds
  <2>4. CASE portal # NoRoom
    BY <1>1, <2>1, <2>2, <2>3, <2>4, PreparedStep DEF historyVars, Prepared
  <2>5. CASE portal = NoRoom
    BY <1>1, <2>1, <2>2, <2>3, <2>5, PreparedNewStep DEF Prepared
  <2>6. QED BY <2>4, <2>5
<1>4. QED BY <1>2, <1>3

LEMMA DeliveredStep ==
  ASSUME IInv, NEW t \in Threads, At(t, "deliver"), NEW m \in mem[t].todo,
         bridged' = IF portal = NoRoom THEN bridged ELSE bridged \cup {m},
         Keep(t, [mem[t] EXCEPT !.todo = @ \ {m}]),
         UNCHANGED <<World, portal, rooms, made, backfill, tableVars, fence, pc, left, historyVars>>
  PROVE  IInv'
<1> DEFINE r == [mem[t] EXCEPT !.todo = @ \ {m}]
<1>1. ConversationTypeOK /\ ThreadInv(t) /\ pc[t] = "deliver" /\ mem[t] \in Memories /\ m \in Messages
  BY DEF IInv, At, ConversationTypeOK, Memories
<1>2. r \in Memories /\ r.head = mem[t].head /\ r.held = mem[t].held /\ r.todo = mem[t].todo \ {m}
  BY <1>1 DEF Memories
<1>3. Keep(t, r)
  OBVIOUS
<1> HIDE DEF r
<1>4. mem' \in [Threads -> Memories] /\ mem'[t] = r /\ \A u \in Threads \ {t} : mem'[u] = mem[u]
  BY <1>1, <1>2, <1>3, Kept DEF ConversationTypeOK
<1>5. ConversationTypeOK' /\ bridged \subseteq bridged'
  BY <1>1, <1>4 DEF ConversationTypeOK, World, remoteVars, tableVars, historyVars, probeVars, listVars
<1>6. \A u \in Threads : mem'[u].head = mem[u].head
  BY <1>2, <1>4
<1>7. \A u \in Threads : ThreadInv(u)'
  <2> SUFFICES ASSUME NEW u \in Threads PROVE ThreadInv(u)'
    OBVIOUS
  <2>1. ThreadInv(u)
    BY DEF IInv
  <2>2. RowInv(u)' /\ GoneInv(u)'
    <3>1. CASE u = t
      BY <1>1, <3>1 DEF RowInv, GoneInv, FencedLabels, SyncLabels, DeleteLabels
    <3>2. CASE u # t
      BY <1>4, <2>1, <3>2 DEF ThreadInv, RowInv, GoneInv, Gone, World, remoteVars, tableVars, historyVars
    <3>3. QED BY <3>1, <3>2
  <2>3. FetchInv(u)'
    <3>1. CASE u = t
      <4>1. FetchInv(t)
        BY <1>1 DEF ThreadInv
      <4>2. Undisturbed /\ ~mem[t].held
              => \A n \in Messages : n > cut /\ n <= r.head => n \in bridged' \cup backfill' \cup r.todo
        BY <1>1, <1>2, <4>1, SyncAssumption DEF FetchInv, Delivering, ConversationTypeOK, Messages, Memories
      <4>3. QED BY <1>1, <1>2, <1>4, <3>1, <4>1, <4>2
                DEF FetchInv, World, remoteVars, tableVars, historyVars, Undisturbed
    <3>2. CASE u # t
      BY <1>4, <1>5, <2>1, <3>2 DEF ThreadInv, FetchInv, World, remoteVars, tableVars, historyVars, Undisturbed
    <3>3. QED BY <3>1, <3>2
  <2>4. QED BY <2>2, <2>3 DEF ThreadInv
<1>8. \A h \in Hosts : UserInv(h)'
  BY DEF IInv, UserInv, World, tableVars, historyVars
<1>9. RoomInv'
  BY DEF IInv, RoomInv, RoomAccounted, Gone, World, remoteVars, tableVars, historyVars
<1>10. HeadInv'
  BY <1>5, <1>6 DEF IInv, HeadInv, HeadConfirmed, Provided, Past, Undisturbed, World, remoteVars, tableVars, historyVars
<1>11. QED BY <1>5, <1>7, <1>8, <1>9, <1>10 DEF IInv

LEMMA DeliverStep ==
  ASSUME IInv, NEW t \in Threads, Deliver(t)
  PROVE  IInv'
<1>1. CASE Fail(t, "failed")
  BY <1>1, FailStep
<1>2. QED BY <1>1, DeliveredStep DEF Deliver

LEMMA RelockStep ==
  ASSUME IInv, NEW t \in Threads, Relock(t)
  PROVE  IInv'
<1>1. ConversationTypeOK /\ ThreadInv(t)
  BY DEF IInv
<1>2. PICK l \in {"retry", "commit"} :
        /\ Goto(t, l)
        /\ l = "commit" => pc[t] = "deliver" /\ mem[t].todo = {} /\ ~mem[t].held
  BY DEF Relock, At
<1>3. fence = NoThread /\ fence' = t /\ UNCHANGED <<World, matrixVars, tableVars, mem, left, historyVars>>
  BY DEF Relock
<1>4. mem[t] \in Memories /\ Keep(t, mem[t]) /\ mem[t].head <= mem[t].head
  BY <1>1, <1>3 DEF ConversationTypeOK, Keep, Memories
<1>5. pc'[t] = l /\ mem'[t] = mem[t] /\ l \in Labels
  BY <1>1, <1>2, <1>4, Acted DEF Labels, SyncLabels
<1>6. RowInv(t)' /\ GoneInv(t)'
  BY <1>3, <1>5 DEF RowInv, GoneInv
<1>7. FetchInv(t)'
  BY <1>1, <1>2, <1>3, <1>5 DEF ThreadInv, FetchInv, Delivering, Undisturbed, World, remoteVars,
                                matrixVars, tableVars, historyVars
<1>8. ThreadInv(t)' /\ left' \in [Kinds -> Nat] /\ job' \in Jobs /\ job'.room = job.room
  BY <1>1, <1>3, <1>6, <1>7 DEF ThreadInv, ConversationTypeOK, tableVars
<1>9. {fence, fence'} \subseteq {t, NoThread} /\ l # "detach"
  BY <1>2, <1>3
<1>10. QED BY <1>2, <1>3, <1>4, <1>5, <1>8, <1>9, Move DEF tableVars

(* The completed head becomes that of what was fetched.                     *)
LEMMA CommittedStep ==
  ASSUME IInv, NEW t \in Threads, At(t, "commit"), job.room = NoRoom, portal # NoRoom,
         head' = mem[t].head, Goto(t, "ack"), UNCHANGED <<fence, mem, left>>,
         UNCHANGED <<World, matrixVars, job, historyVars>>
  PROVE  IInv'
<1>1. ConversationTypeOK /\ ThreadInv(t) /\ pc[t] = "commit" /\ mem[t] \in Memories
  BY DEF IInv, At, ConversationTypeOK
<1>2. fence = t /\ NoRoom \notin rooms
  BY <1>1, JobAssumption DEF ThreadInv, RowInv, FencedLabels, SyncLabels, ConversationTypeOK
<1>3. pc'[t] = "ack" /\ pc' \in [Threads -> Labels] /\ \A u \in Threads \ {t} : pc'[u] = pc[u]
  BY <1>1 DEF ConversationTypeOK, Goto, Labels, SyncLabels
<1>4. ConversationTypeOK'
  BY <1>1, <1>3 DEF ConversationTypeOK, Memories, Labels, World, remoteVars, matrixVars, historyVars, probeVars, listVars
<1>5. \A u \in Threads : ThreadInv(u)'
  <2>1. ASSUME NEW u \in Threads, u # t PROVE ThreadInv(u)'
    <3>1. Steady(u) /\ (fence = u => fence' = u)
      BY <1>3, <2>1 DEF Steady
    <3>2. UNCHANGED <<remoteVars, matrixVars, ended, asked, released, outdated>>
      BY DEF World, historyVars
    <3>3. QED BY <3>1, <3>2, OthersKept
  <2>2. RowInv(t)' /\ GoneInv(t)'
    BY <1>2, <1>3 DEF RowInv, GoneInv, matrixVars
  <2>3. FetchInv(t)'
    BY <1>1, <1>3 DEF ThreadInv, FetchInv, Delivering, Undisturbed, World, remoteVars, matrixVars, historyVars
  <2>4. QED BY <2>1, <2>2, <2>3 DEF ThreadInv
<1>6. \A h \in Hosts : UserInv(h)'
  BY DEF IInv, UserInv, World, matrixVars, historyVars
<1>7. RoomInv'
  BY DEF IInv, RoomInv, RoomAccounted, Gone, World, remoteVars, matrixVars, historyVars
<1>8. HeadInv'
  <2>1. FetchInv(t)
    BY <1>1 DEF ThreadInv
  <2>2. \A u \in Threads : pc'[u] # "detach"
    BY <1>2, <1>3 DEF IInv, ThreadInv, RowInv, FencedLabels, DeleteLabels
  <2>3. head' <= newest'
    BY <2>1 DEF FetchInv, World, remoteVars
  <2>4. HeadConfirmed'
    BY <1>1, <2>1 DEF FetchInv, Delivering, HeadConfirmed, Provided, Undisturbed, World, remoteVars, matrixVars, historyVars
  <2>5. QED BY <2>2, <2>3, <2>4 DEF HeadInv, Undisturbed, World, matrixVars, historyVars
<1>9. QED BY <1>4, <1>5, <1>6, <1>7, <1>8 DEF IInv

LEMMA CommitStep ==
  ASSUME IInv, NEW t \in Threads, Commit(t)
  PROVE  IInv'
<1>1. ConversationTypeOK /\ ThreadInv(t) /\ At(t, "commit")
  BY DEF IInv, Commit
<1>2. UNCHANGED <<World, matrixVars, job, historyVars>>
  BY DEF Commit
<1>3. CASE Leave(t) /\ UNCHANGED <<head, left>>
  <2>1. fence \in {t, NoThread}
    BY <1>1 DEF At, ThreadInv, RowInv, FencedLabels, SyncLabels
  <2>2. job' \in Jobs /\ job'.room = job.room /\ left' \in [Kinds -> Nat]
    BY <1>1, <1>2, <1>3 DEF ConversationTypeOK
  <2>3. QED BY <1>2, <1>3, <2>1, <2>2, LeaveStep
<1>4. CASE job.room = NoRoom /\ portal # NoRoom /\ head' = mem[t].head /\ Goto(t, "ack")
           /\ UNCHANGED <<fence, mem, left>>
  BY <1>1, <1>2, <1>4, CommittedStep
<1>5. QED BY <1>3, <1>4 DEF Commit

LEMMA RetryStep ==
  ASSUME IInv, NEW t \in Threads, Retry(t)
  PROVE  IInv'
<1>1. ConversationTypeOK /\ ThreadInv(t) /\ pc[t] = "retry"
  BY DEF IInv, Retry, At
<1>2. fence = t
  BY <1>1 DEF ThreadInv, RowInv, FencedLabels, SyncLabels
<1>3. job' \in Jobs /\ job'.room = job.room
  BY <1>1, RevisedRow DEF Retry, ConversationTypeOK, Memories
<1>4. left' \in [Kinds -> Nat]
  BY <1>1 DEF Retry, ConversationTypeOK
<1>5. QED BY <1>2, <1>3, <1>4, LeaveStep DEF Retry

LEMMA AbandonStep ==
  ASSUME IInv, NEW t \in Threads, Abandon(t)
  PROVE  IInv'
<1>1. ConversationTypeOK
  BY DEF IInv
<1>2. left' \in [Kinds -> Nat]
  BY <1>1, Spent DEF Abandon, ConversationTypeOK, Kinds
<1>3. job' \in Jobs /\ job'.room = job.room
  BY <1>1 DEF Abandon, ConversationTypeOK, tableVars
<1>4. QED BY <1>2, <1>3, ReturnStep DEF Abandon, tableVars

-----------------------------------------------------------------------------
(* Steps after which the row names no room, of the thread that holds the    *)
(* fence, or of nobody while the fence is free.                             *)

LEMMA RenamesType ==
  ASSUME ConversationTypeOK, NEW room, Renames(room)
  PROVE  released' \subseteq Rooms /\ released \subseteq released'
BY DEF ConversationTypeOK, Renames

LEMMA DroppedStep ==
  ASSUME IInv, NEW t \in Threads \cup {NoThread}, fence \in {t, NoThread}, ConversationTypeOK',
         \A u \in Threads \ {t} : pc'[u] = pc[u] /\ mem'[u] = mem[u],
         t \in Threads => ThreadInv(t)' /\ pc'[t] # "detach",
         job'.room = NoRoom, Renames(NoRoom),
         UNCHANGED <<newest, cut, blocked, matrixVars, head, user, ended, asked, outdated>>
  PROVE  IInv'
<1>1. ConversationTypeOK /\ NoRoom \notin rooms
  BY JobAssumption DEF IInv, ConversationTypeOK
<1>2. \A u \in Threads \ {t} : pc[u] \notin FencedLabels
  BY SyncAssumption DEF IInv, ThreadInv, RowInv
<1>3. \A u \in Threads : ThreadInv(u)'
  <2>1. SUFFICES ASSUME NEW u \in Threads, u # t PROVE ThreadInv(u)'
    OBVIOUS
  <2>2. ThreadInv(u) /\ pc[u] \notin FencedLabels /\ pc'[u] = pc[u] /\ mem'[u] = mem[u]
    BY <1>2, <2>1 DEF IInv
  <2>3. RowInv(u)' /\ GoneInv(u)'
    BY <2>2 DEF ThreadInv, RowInv, GoneInv, FencedLabels, SyncLabels, DeleteLabels
  <2>4. FetchInv(u)'
    BY <2>2 DEF ThreadInv, FetchInv, Undisturbed, matrixVars
  <2>5. QED BY <2>3, <2>4 DEF ThreadInv
<1>4. \A h \in Hosts : UserInv(h)'
  <2> SUFFICES ASSUME NEW h \in Hosts PROVE UserInv(h)'
    OBVIOUS
  <2>1. UserInv(h) /\ user[h].pc # "request"
    BY SyncAssumption DEF IInv, UserInv
  <2>2. ASSUME user[h].pc = "portal", user[h].room \in rooms PROVE user[h].room \in released'
    <3>1. user[h] = [pc |-> "portal", room |-> user[h].room]
      BY <1>1, <2>2 DEF ConversationTypeOK
    <3>2. user[h].room = job.room => Removing(job.room)
      BY <3>1 DEF Removing
    <3>3. QED BY <1>1, <2>1, <2>2, <3>2 DEF UserInv, Renames
  <2>3. QED BY <2>1, <2>2 DEF UserInv, matrixVars
<1>5. RoomInv'
  <2>1. RoomAccounted'
    BY <1>1 DEF IInv, RoomInv, RoomAccounted, Renames, Removing, matrixVars
  <2>2. QED BY <2>1 DEF IInv, RoomInv, Gone, matrixVars
<1>6. HeadInv'
  <2>1. \A u \in Threads : pc'[u] # "detach"
    BY <1>2 DEF FencedLabels, DeleteLabels
  <2>2. QED BY <2>1 DEF IInv, HeadInv, HeadConfirmed, Provided, Undisturbed, matrixVars
<1>7. QED BY <1>3, <1>4, <1>5, <1>6 DEF IInv

LEMMA AcknowledgeStep ==
  ASSUME IInv, NEW t \in Threads, Acknowledge(t)
  PROVE  IInv'
<1>1. ConversationTypeOK /\ ThreadInv(t) /\ pc[t] = "ack"
  BY DEF IInv, Acknowledge, At
<1>2. fence = t /\ job.room \notin rooms
  BY <1>1 DEF ThreadInv, RowInv, FencedLabels, SyncLabels
<1>3. UNCHANGED <<World, matrixVars, head, left, historyVars>> /\ Leave(t)
  BY DEF Acknowledge
<1>4. NoJob \in Jobs /\ NoJob.room = NoRoom
  BY JobAssumption DEF Jobs, NoJob
<1>5. job' \in {job, NoJob}
  BY DEF Acknowledge, Delete
<1>6. job' \in Jobs /\ left' \in [Kinds -> Nat]
  BY <1>1, <1>3, <1>4, <1>5 DEF ConversationTypeOK
<1>7. CASE job'.room = job.room
  BY <1>2, <1>3, <1>6, <1>7, LeaveStep
<1>8. CASE job' = NoJob
  <2>1. Renames(NoRoom)
    BY <1>2, <1>3 DEF Renames, historyVars
  <2>2. /\ pc'[t] = "idle" /\ mem'[t] = Idle /\ mem' \in [Threads -> Memories]
        /\ \A u \in Threads \ {t} : mem'[u] = mem[u]
    BY <1>1, <1>3, IdleMemory, Acted, Kept DEF Leave, ConversationTypeOK
  <2>3. pc' \in [Threads -> Labels] /\ \A u \in Threads \ {t} : pc'[u] = pc[u]
    BY <1>1, <1>3 DEF Leave, Goto, Labels, ConversationTypeOK
  <2>4. ConversationTypeOK'
    BY <1>1, <1>3, <1>6, <2>2, <2>3 DEF ConversationTypeOK, Leave, Labels, World, remoteVars,
                                        matrixVars, historyVars, probeVars, listVars
  <2>5. RowInv(t)' /\ GoneInv(t)'
    BY <2>2 DEF RowInv, GoneInv, Idle, FencedLabels, SyncLabels, DeleteLabels
  <2>6. FetchInv(t)'
    BY <1>4, <1>8, <2>2, <2>4 DEF FetchInv, Delivering, Idle, ConversationTypeOK
  <2>7. ThreadInv(t)'
    BY <2>5, <2>6 DEF ThreadInv
  <2>8. QED
    BY <1>2, <1>3, <1>4, <1>8, <2>1, <2>2, <2>3, <2>4, <2>7, DroppedStep
       DEF World, remoteVars, historyVars
<1>9. QED BY <1>5, <1>7, <1>8

(* A thread that holds the fence takes a deletion off the row.              *)
LEMMA LiveStep ==
  ASSUME IInv, NEW t \in Threads, fence = t, pc[t] # "prepare", SignOfLife, Goto(t, "ack"),
         renamed' \in BOOLEAN,
         UNCHANGED <<newest, cut, blocked, evidence, user, probeVars, matrixVars, head, fence, mem, left,
                     owed, ended, asked, outdated>>
  PROVE  IInv'
<1>1. ConversationTypeOK /\ ThreadInv(t)
  BY DEF IInv
<1>2. job' \in Jobs /\ job'.room = NoRoom /\ Renames(NoRoom)
  BY <1>1, JobRows DEF SignOfLife, ConversationTypeOK
<1>3. pc'[t] = "ack" /\ pc' \in [Threads -> Labels] /\ \A u \in Threads \ {t} : pc'[u] = pc[u]
  BY <1>1 DEF Goto, Labels, SyncLabels, ConversationTypeOK
<1>4. released' \subseteq Rooms
  BY <1>1, <1>2, RenamesType
<1>5. ConversationTypeOK'
  BY <1>1, <1>2, <1>3, <1>4 DEF ConversationTypeOK, Labels, SignOfLife, matrixVars, probeVars, listVars
<1>6. RowInv(t)' /\ GoneInv(t)'
  BY <1>1, <1>2, <1>3, JobAssumption DEF RowInv, GoneInv, ConversationTypeOK, matrixVars
<1>7. FetchInv(t)'
  BY <1>1, <1>2, <1>3 DEF ThreadInv, FetchInv, Delivering, Undisturbed, matrixVars
<1>8. ThreadInv(t)'
  BY <1>6, <1>7 DEF ThreadInv
<1>9. QED BY <1>2, <1>3, <1>5, <1>8, DroppedStep

-----------------------------------------------------------------------------
(* The steps of a deletion. *)

LEMMA ConfirmStep ==
  ASSUME IInv, NEW t \in Threads, Confirm(t)
  PROVE  IInv'
<1>1. ConversationTypeOK /\ ThreadInv(t) /\ pc[t] = "confirm"
  BY DEF IInv, Confirm, At
<1>2. fence = t
  BY <1>1 DEF ThreadInv, RowInv, FencedLabels, DeleteLabels
<1>3. CASE /\ SignOfLife /\ Goto(t, "ack")
           /\ UNCHANGED <<World, matrixVars, head, fence, mem, left, owed, ended, asked, outdated>>
  BY <1>1, <1>2, <1>3, LiveStep DEF World, remoteVars, ConversationTypeOK
<1>4. CASE Goto(t, "judge") /\ UNCHANGED <<World, matrixVars, tableVars, fence, mem, left, historyVars>>
  <2>1. mem[t] \in Memories /\ Keep(t, mem[t]) /\ mem[t].head <= mem[t].head
    BY <1>1, <1>4 DEF ConversationTypeOK, Keep, Memories
  <2>2. pc'[t] = "judge" /\ mem'[t] = mem[t] /\ "judge" \in Labels
    BY <1>1, <1>4, <2>1, Acted DEF Labels, DeleteLabels
  <2>3. ThreadInv(t)'
    BY <1>1, <1>2, <1>4, <2>2 DEF ThreadInv, RowInv, GoneInv, FetchInv, Delivering, Undisturbed, World,
                                  remoteVars, matrixVars, tableVars, historyVars
  <2>4. left' \in [Kinds -> Nat] /\ job' \in Jobs /\ job'.room = job.room
    BY <1>1, <1>4 DEF ConversationTypeOK, tableVars
  <2>5. QED BY <1>2, <1>4, <2>1, <2>2, <2>3, <2>4, Move DEF tableVars
<1>5. CASE Fail(t, "retry")
  BY <1>2, <1>5, FailStep
<1>6. QED BY <1>3, <1>4, <1>5 DEF Confirm

(* A thread that goes on with the fence, after a look at the conversation.  *)
LEMMA JudgedStep ==
  ASSUME IInv, NEW t \in Threads, pc[t] = "judge", NEW l \in {"detach", "retry", "ack"}, Goto(t, l),
         l = "detach" => portal \in Gone',
         l = "detach" /\ portal # NoRoom /\ Undisturbed' => Past,
         l = "ack" => job.room = NoRoom,
         job' \in Jobs, job'.room = job.room, owed' \in 0..MaxMessages, left' \in [Kinds -> Nat],
         ListsTyped', outdated \subseteq outdated', outdated' \subseteq Rooms,
         UNCHANGED <<remoteVars, evidence, user, observed, probe, matrixVars, head, fence, mem, ended, asked,
                     released>>
  PROVE  IInv'
<1>1. ConversationTypeOK /\ ThreadInv(t) /\ NoRoom \notin rooms
  BY JobAssumption DEF IInv, ConversationTypeOK
<1>2. fence = t /\ l \in Labels /\ Placed(t, l)
  BY <1>1, GotoPlaces DEF ThreadInv, RowInv, FencedLabels, Labels, SyncLabels, DeleteLabels
<1>3. mem[t] \in Memories /\ Keep(t, mem[t]) /\ mem'[t] = mem[t] /\ pc'[t] = l
  BY <1>1, <1>2 DEF ConversationTypeOK, Keep, Placed
<1>4. RowInv(t)'
  BY <1>1, <1>2, <1>3 DEF RowInv, matrixVars
<1>5. GoneInv(t)'
  BY <1>3 DEF GoneInv, matrixVars
<1>6. FetchInv(t)'
  BY <1>1, <1>3 DEF ThreadInv, FetchInv, Delivering, Undisturbed, remoteVars, matrixVars
<1>7. ThreadInv(t)'
  BY <1>4, <1>5, <1>6 DEF ThreadInv
<1>8. l = "detach" /\ portal # NoRoom /\ Undisturbed' => Past /\ mem[t].head <= cut
  BY DEF Past
<1>9. QED BY <1>2, <1>3, <1>7, <1>8, PlacedStep

(* The block list is asked about the portal's room.                         *)
LEMMA AskBlocksStep ==
  ASSUME IInv, NEW t \in Threads, pc[t] = "judge", AskBlocks(t), mem[t].check = "none",
         job' \in Jobs, job'.room = job.room, left' \in [Kinds -> Nat], ListsTyped',
         UNCHANGED <<remoteVars, evidence, user, observed, probe, matrixVars, head, outdated>>
  PROVE  IInv'
<1> DEFINE r == [mem[t] EXCEPT !.room = portal]
<1>1. ConversationTypeOK /\ ThreadInv(t) /\ mem[t] \in Memories
  BY DEF IInv, ConversationTypeOK
<1>2. r \in Memories /\ r.head = mem[t].head
  BY <1>1 DEF ConversationTypeOK, Memories
<1>3. Goto(t, "blocks") /\ Keep(t, r) /\ fence' = NoThread /\ UNCHANGED <<owed, ended, asked, released>>
  BY DEF AskBlocks
<1> HIDE DEF r
<1>4. pc'[t] = "blocks" /\ mem'[t] = r /\ "blocks" \in Labels /\ fence = t
  BY <1>1, <1>2, <1>3, Acted DEF Labels, DeleteLabels, ThreadInv, RowInv, FencedLabels
<1>5. RowInv(t)' /\ GoneInv(t)'
  BY <1>4 DEF RowInv, GoneInv, FencedLabels, SyncLabels, DeleteLabels
<1>6. FetchInv(t)'
  BY <1>1, <1>2, <1>3, <1>4 DEF ThreadInv, FetchInv, Delivering, Undisturbed, remoteVars, matrixVars
<1>7. ThreadInv(t)' /\ Placed(t, "blocks") /\ owed' \in 0..MaxMessages /\ outdated' \subseteq Rooms
  BY <1>1, <1>3, <1>4, <1>5, <1>6, GotoPlaces DEF ThreadInv, ConversationTypeOK
<1>8. QED BY <1>2, <1>3, <1>4, <1>7, PlacedStep

(* What a judgement without the conversation in the list leaves of the rest. *)
LEMMA NotListedRest ==
  ASSUME IInv, AbsentInv, NEW t \in Threads, NotListed(t), job' = Against(Ensure(job), Host[t])
  PROVE  /\ job' \in Jobs /\ job'.room = job.room /\ left' \in [Kinds -> Nat] /\ ListsTyped'
         /\ Host[t] \in unlisted'
<1>1. ConversationTypeOK /\ Host[t] \in Hosts
  BY SyncAssumption DEF IInv
<1>2. job' \in Jobs /\ job'.room = job.room
  BY <1>1, EnsuredRow, ListedRow DEF ConversationTypeOK
<1>3. left' \in [Kinds -> Nat]
  BY <1>1, Spent DEF NotListed, Missing, ConversationTypeOK, Kinds
<1>4. ListsTyped'
  BY <1>1 DEF NotListed, Overtaken, ListsTyped, ConversationTypeOK
<1>5. Host[t] \in unlisted'
  BY DEF NotListed, AbsentInv
<1>6. QED BY <1>2, <1>3, <1>4, <1>5

(* What is decided when the conversation was not listed: before the block   *)
(* list was asked, and after.                                               *)
LEMMA UnlistedStep ==
  ASSUME IInv, AbsentInv, NEW t \in Threads, pc[t] = "judge", job.room = NoRoom, mem[t].check = "none",
         NotListed(t), job' = Against(Ensure(job), Host[t]), JudgeUnlisted(t),
         UNCHANGED <<remoteVars, evidence, user, observed, probe, matrixVars, head, outdated>>
  PROVE  IInv'
<1>1. ConversationTypeOK /\ ThreadInv(t)
  BY DEF IInv
<1>2. fence = t
  BY <1>1 DEF ThreadInv, RowInv, FencedLabels, DeleteLabels
<1>3. job' \in Jobs /\ job'.room = job.room /\ left' \in [Kinds -> Nat] /\ ListsTyped'
  BY NotListedRest
<1>4. CASE portal = NoRoom /\ Judged(t, "detach")
  <2>1. portal \in Gone' /\ outdated' \subseteq Rooms /\ owed' \in 0..MaxMessages
    BY <1>1, <1>4 DEF Gone, Judged, ConversationTypeOK
  <2>2. QED BY <1>3, <1>4, <2>1, JudgedStep DEF Judged
<1>5. CASE AskBlocks(t)
  BY <1>3, <1>5, AskBlocksStep
<1>6. CASE Leave(t) /\ UNCHANGED <<owed, ended, asked, released>>
  BY <1>2, <1>3, <1>6, ReturnedStep DEF Leave
<1>7. QED BY <1>4, <1>5, <1>6 DEF JudgeUnlisted

LEMMA CheckedStep ==
  ASSUME IInv, AbsentInv, NEW t \in Threads, pc[t] = "judge", job.room = NoRoom,
         NotListed(t), job' = Against(Ensure(job), Host[t]), JudgeChecked(t),
         UNCHANGED <<remoteVars, evidence, user, observed, probe, matrixVars, head>>
  PROVE  IInv'
<1>1. ConversationTypeOK /\ ThreadInv(t)
  BY DEF IInv
<1>2. /\ job' \in Jobs /\ job'.room = job.room /\ left' \in [Kinds -> Nat] /\ ListsTyped'
      /\ Host[t] \in unlisted'
  BY NotListedRest
<1>3. CASE Judged(t, "retry") /\ UNCHANGED outdated
  <2>1. outdated' \subseteq Rooms /\ owed' \in 0..MaxMessages
    BY <1>1, <1>3 DEF Judged, ConversationTypeOK
  <2>2. QED BY <1>2, <1>3, <2>1, JudgedStep DEF Judged
<1>4. CASE Spare(t) /\ UNCHANGED outdated
  <2>1. outdated' \subseteq Rooms /\ owed' \in 0..MaxMessages
    BY <1>1, <1>4, SyncAssumption DEF Spare, ConversationTypeOK
  <2>2. QED BY <1>2, <1>4, <2>1, JudgedStep DEF Spare
<1>5. CASE portal # NoRoom /\ portal = mem[t].room /\ mem[t].check = "clear" /\ Judged(t, "detach") /\ Believe(t)
  <2>1. /\ outdated \subseteq outdated' /\ outdated' \subseteq Rooms /\ owed' \in 0..MaxMessages
        /\ UNCHANGED <<fence, mem, ended, asked, released>> /\ Goto(t, "detach")
    BY <1>1, <1>5 DEF Judged, Believe, ConversationTypeOK
  <2>2. CASE Listed
    <3>1. portal \in outdated'
      BY <1>2, <2>2, <1>5 DEF Believe
    <3>2. portal \in Gone' /\ ~Undisturbed'
      BY <3>1 DEF Gone, Undisturbed
    <3>3. QED BY <1>2, <2>1, <3>2, JudgedStep
  <2>3. CASE ~Listed
    <3>1. newest = cut \/ (blocked /\ portal \in outdated)
      BY <1>1, <1>5, <2>3, SyncAssumption DEF Listed, ConversationTypeOK, ThreadInv, GoneInv
    <3>2. portal \in Gone /\ portal \in Gone'
      BY <1>5, <2>1, <3>1 DEF IInv, RoomInv, Gone
    <3>3. Undisturbed' => Past
      <4>1. newest = cut /\ head <= newest /\ (\A u \in Threads : mem[u].head <= newest) => Past
        BY DEF Past
      <4>2. Undisturbed' => outdated = {}
        BY <2>1 DEF Undisturbed
      <4>3. QED BY <3>1, <4>1, <4>2 DEF IInv, HeadInv, ThreadInv, FetchInv
    <3>4. QED BY <1>2, <2>1, <3>2, <3>3, JudgedStep
  <2>4. QED BY <2>2, <2>3
<1>6. QED BY <1>3, <1>4, <1>5 DEF JudgeChecked

LEMMA JudgeStep ==
  ASSUME IInv, AbsentInv, NEW t \in Threads, Judge(t)
  PROVE  IInv'
<1>1. ConversationTypeOK /\ ThreadInv(t) /\ pc[t] = "judge"
  BY DEF IInv, Judge, At
<1>2. fence = t
  BY <1>1 DEF ThreadInv, RowInv, FencedLabels, DeleteLabels
<1>3. Ensure(job) \in Jobs /\ Ensure(job).room = job.room
  BY <1>1, EnsuredRow DEF ConversationTypeOK
<1>4. CASE Fail(t, "retry")
  BY <1>2, <1>4, FailStep
<1>5. CASE job' = Ensure(job) /\ Leave(t) /\ UNCHANGED <<World, matrixVars, head, left, historyVars>>
  BY <1>1, <1>2, <1>3, <1>5, LeaveStep DEF ConversationTypeOK
<1>6. CASE UNCHANGED <<evidence, user, observed, probe, matrixVars, head>>
  <2>1. CASE job.room # NoRoom /\ Judged(t, "detach") /\ UNCHANGED <<job, remoteVars, listVars, left, unlisted, outdated>>
    <3>1. portal \in Gone /\ portal \in Gone'
      BY <2>1 DEF IInv, RoomInv, Gone, Judged
    <3>2. Undisturbed' => Past
      BY <2>1 DEF IInv, HeadInv, ThreadInv, FetchInv, Past, Undisturbed, Judged
    <3>3. ListsTyped' /\ outdated' \subseteq Rooms /\ owed' \in 0..MaxMessages
          /\ left' \in [Kinds -> Nat] /\ job' \in Jobs
      BY <1>1, <2>1 DEF Judged, ListsTyped, listVars, ConversationTypeOK
    <3>4. QED BY <1>1, <1>6, <2>1, <3>1, <3>2, <3>3, JudgedStep DEF Judged
  <2>2. CASE job.room = NoRoom /\ JudgeListed(t) /\ UNCHANGED <<listVars, left, outdated>>
    <3>1. CASE /\ renamed' = FALSE /\ SignOfLife /\ Goto(t, "ack")
               /\ UNCHANGED <<newest, cut, blocked, fence, mem, owed, ended, asked>>
      BY <1>1, <1>2, <1>6, <2>2, <3>1, LiveStep DEF probeVars
    <3>2. CASE Spare(t) /\ job' = Ensure(job) /\ UNCHANGED <<remoteVars, unlisted>>
      <4>1. ListsTyped' /\ outdated' \subseteq Rooms /\ owed' \in 0..MaxMessages /\ left' \in [Kinds -> Nat]
        BY <1>1, <2>2, <3>2, SyncAssumption DEF Spare, ListsTyped, listVars, ConversationTypeOK
      <4>2. QED BY <1>1, <1>3, <1>6, <2>2, <3>2, <4>1, JudgedStep DEF Spare
    <3>3. QED BY <2>2, <3>1, <3>2 DEF JudgeListed
  <2>3. CASE /\ job.room = NoRoom /\ NotListed(t) /\ job' = Against(Ensure(job), Host[t])
             /\ mem[t].check = "none" /\ JudgeUnlisted(t) /\ UNCHANGED <<outdated, remoteVars>>
    BY <1>1, <1>6, <2>3, UnlistedStep
  <2>4. CASE /\ job.room = NoRoom /\ NotListed(t) /\ job' = Against(Ensure(job), Host[t])
             /\ JudgeChecked(t) /\ UNCHANGED remoteVars
    BY <1>1, <1>6, <2>4, CheckedStep
  <2>5. QED BY <1>4, <1>5, <2>1, <2>2, <2>3, <2>4 DEF Judge
<1>7. QED BY <1>4, <1>5, <1>6 DEF Judge

LEMMA ListBlocksStep ==
  ASSUME IInv, NEW t \in Threads, ListBlocks(t)
  PROVE  IInv'
<1>1. ConversationTypeOK /\ ThreadInv(t) /\ mem[t] \in Memories
  BY DEF IInv, ConversationTypeOK
<1>2. PICK c \in {"clear", "blocked", "failed"} :
        Keep(t, [mem[t] EXCEPT !.check = c]) /\ (blocked => c # "clear")
  BY DEF ListBlocks
<1>3. Goto(t, "selected") /\ UNCHANGED <<World, matrixVars, tableVars, fence, historyVars>>
  BY DEF ListBlocks
<1> DEFINE r == [mem[t] EXCEPT !.check = c]
<1>4. r \in Memories /\ r.head = mem[t].head /\ r.check = c /\ r.head <= mem[t].head
  BY <1>1, SyncAssumption DEF Memories
<1>5. Keep(t, r)
  BY <1>2
<1> HIDE DEF r
<1>6. pc'[t] = "selected" /\ mem'[t] = r /\ "selected" \in Labels
  BY <1>1, <1>3, <1>4, <1>5, Acted DEF Labels
<1>7. RowInv(t)' /\ GoneInv(t)'
  BY <1>2, <1>3, <1>4, <1>6 DEF RowInv, GoneInv, FencedLabels, SyncLabels, DeleteLabels, World, remoteVars
<1>8. FetchInv(t)'
  BY <1>1, <1>3, <1>4, <1>6 DEF ThreadInv, FetchInv, Delivering, Undisturbed, World, remoteVars, matrixVars,
                                tableVars, historyVars
<1>9. left' \in [Kinds -> Nat]
  BY <1>1, Spent DEF ListBlocks, ConversationTypeOK, Kinds
<1>10. ThreadInv(t)' /\ job' \in Jobs /\ job'.room = job.room
  BY <1>1, <1>3, <1>7, <1>8 DEF ThreadInv, ConversationTypeOK, tableVars
<1>11. QED BY <1>3, <1>4, <1>5, <1>6, <1>9, <1>10, Move DEF tableVars

(* The row names the portal's room, which is about to lose its portal.      *)
LEMMA RoomNamedStep ==
  ASSUME IInv, NEW t \in Threads, pc[t] = "detach", Current(job, mem[t].rev), portal # NoRoom,
         job' = SetDeleteRoom(job, mem[t].rev, portal), Renames(portal),
         pc' = [Cancelled EXCEPT ![t] = "remove"], Keep(t, [mem[t] EXCEPT !.room = portal]),
         UNCHANGED <<World, matrixVars, head, fence, left, owed, ended, asked, unlisted, outdated>>
  PROVE  IInv'
<1> DEFINE r == [mem[t] EXCEPT !.room = portal]
<1>1. ConversationTypeOK /\ ThreadInv(t) /\ mem[t] \in Memories /\ portal \in Rooms
  BY DEF IInv, ConversationTypeOK
<1>2. fence = t /\ portal \in Gone
  BY <1>1 DEF ThreadInv, RowInv, GoneInv, FencedLabels, DeleteLabels
<1>3. job' \in Jobs /\ job'.room = portal
  BY <1>1, RevisedRow DEF ConversationTypeOK, Memories
<1>4. r \in Memories /\ r.room = portal /\ r.head = mem[t].head
  BY <1>1 DEF Memories
<1>5. Keep(t, r)
  OBVIOUS
<1> HIDE DEF r
<1>6. /\ Placed(t, "remove") /\ mem' \in [Threads -> Memories] /\ mem'[t] = r
      /\ \A u \in Threads \ {t} : mem'[u] = mem[u]
  BY <1>1, <1>4, <1>5, GotoPlaces, Kept DEF ConversationTypeOK, Labels, DeleteLabels
<1>7. released' \subseteq Rooms /\ released \subseteq released'
  BY <1>1, RenamesType
<1>8. ConversationTypeOK'
  BY <1>1, <1>3, <1>6, <1>7 DEF ConversationTypeOK, Placed, Labels, World, remoteVars, matrixVars, probeVars, listVars
<1>9. Undisturbed => Past
  BY DEF IInv, HeadInv
<1>10. \A u \in Threads \ {t} : Steady(u) /\ pc[u] \notin FencedLabels
  BY <1>2, <1>6 DEF Steady, Placed, IInv, ThreadInv, RowInv
<1>11. \A u \in Threads : ThreadInv(u)'
  <2>1. ASSUME NEW u \in Threads, u # t PROVE ThreadInv(u)'
    <3>1. RowInv(u)' /\ GoneInv(u)'
      BY <1>10, <2>1, UnfencedKept DEF World, remoteVars
    <3>2. FetchInv(u)'
      BY <1>9, <1>10, <2>1 DEF Steady, Past, IInv, ThreadInv, FetchInv, Delivering, Undisturbed, World,
                               remoteVars, matrixVars
    <3>3. QED BY <3>1, <3>2 DEF ThreadInv
  <2>2. RowInv(t)' /\ GoneInv(t)'
    BY <1>1, <1>2, <1>3, <1>4, <1>6, JobAssumption DEF RowInv, GoneInv, Placed, matrixVars
  <2>3. FetchInv(t)'
    BY <1>1, <1>4, <1>6, <1>9 DEF ThreadInv, Placed, Past, FetchInv, Delivering, Undisturbed, World,
                                  remoteVars, matrixVars
  <2>4. QED BY <2>1, <2>2, <2>3 DEF ThreadInv
<1>12. \A h \in Hosts : UserInv(h)'
  <2> SUFFICES ASSUME NEW h \in Hosts PROVE UserInv(h)'
    OBVIOUS
  <2>1. UserInv(h) /\ user[h].pc # "request"
    BY <1>2, SyncAssumption DEF IInv, UserInv
  <2>2. ASSUME user[h].pc = "portal", user[h].room \in rooms, user[h].room # portal
        PROVE  user[h].room \in released'
    BY <1>7, <2>1, <2>2 DEF UserInv, Renames, Removing
  <2>3. QED BY <1>3, <2>1, <2>2 DEF UserInv, World, matrixVars
<1>13. RoomInv'
  <2>1. RoomAccounted'
    BY <1>3, <1>7 DEF IInv, RoomInv, RoomAccounted, Renames, Removing, matrixVars
  <2>2. QED BY <1>2, <1>3, <2>1 DEF IInv, RoomInv, Gone, World, remoteVars, matrixVars
<1>14. HeadInv'
  <2>1. \A u \in Threads : pc'[u] # "detach"
    BY <1>6, <1>10 DEF Placed, Steady, FencedLabels, DeleteLabels
  <2>2. QED
    BY <1>9, <2>1 DEF Past, IInv, HeadInv, HeadConfirmed, Provided, Undisturbed, World, remoteVars, matrixVars
<1>15. QED BY <1>8, <1>11, <1>12, <1>13, <1>14 DEF IInv

LEMMA DetachStep ==
  ASSUME IInv, NEW t \in Threads, Detach(t)
  PROVE  IInv'
<1>1. ConversationTypeOK /\ ThreadInv(t) /\ pc[t] = "detach" /\ mem[t] \in Memories
  BY DEF IInv, Detach, At, ConversationTypeOK
<1>2. fence = t
  BY <1>1 DEF ThreadInv, RowInv, FencedLabels, DeleteLabels
<1>3. CASE Leave(t) /\ UNCHANGED <<World, matrixVars, tableVars, left, historyVars>>
  BY <1>1, <1>2, <1>3, LeaveStep DEF ConversationTypeOK, tableVars
<1>4. CASE Fail(t, "retry")
  BY <1>2, <1>4, FailStep
<1>5. CASE /\ Current(job, mem[t].rev) /\ portal # NoRoom
           /\ job' = SetDeleteRoom(job, mem[t].rev, portal) /\ Renames(portal)
           /\ pc' = [Cancelled EXCEPT ![t] = "remove"] /\ Keep(t, [mem[t] EXCEPT !.room = portal])
           /\ UNCHANGED <<World, matrixVars, head, fence, left, owed, ended, asked, unlisted, outdated>>
  BY <1>1, <1>5, RoomNamedStep
<1>6. CASE /\ portal = NoRoom
           /\ pc' = [Cancelled EXCEPT ![t] = "cleanup"] /\ Keep(t, [mem[t] EXCEPT !.room = job.room])
           /\ UNCHANGED <<job, released>>
           /\ UNCHANGED <<World, matrixVars, head, fence, left, owed, ended, asked, unlisted, outdated>>
  <2> DEFINE r == [mem[t] EXCEPT !.room = job.room]
  <2>1. r \in Memories /\ r.room = job.room /\ r.head = mem[t].head
    <3>1. job.room \in Rooms \cup {NoRoom}
      BY <1>1 DEF ConversationTypeOK, Jobs
    <3>2. QED BY <1>1, <3>1 DEF Memories
  <2>2. Keep(t, r) /\ mem[t].head <= mem[t].head
    BY <1>1, <1>6, SyncAssumption DEF Memories
  <2> HIDE DEF r
  <2>3. Placed(t, "cleanup") /\ mem'[t] = r /\ "cleanup" \in Labels
    BY <1>1, <1>6, <2>1, <2>2, GotoPlaces, Kept DEF ConversationTypeOK, Labels, DeleteLabels
  <2>4. RowInv(t)' /\ GoneInv(t)'
    BY <1>2, <1>6, <2>1, <2>3 DEF Placed, RowInv, GoneInv
  <2>5. FetchInv(t)'
    BY <1>1, <1>6, <2>1, <2>3 DEF Placed, ThreadInv, FetchInv, Delivering, Undisturbed, World, remoteVars,
                                  matrixVars
  <2>6. /\ ThreadInv(t)' /\ left' \in [Kinds -> Nat] /\ job' \in Jobs /\ job'.room = job.room
        /\ owed' \in 0..MaxMessages /\ ListsTyped' /\ outdated' \subseteq Rooms
    BY <1>1, <1>6, <2>4, <2>5 DEF ThreadInv, ConversationTypeOK, ListsTyped, World, probeVars, listVars
  <2>7. QED BY <1>2, <1>6, <2>1, <2>2, <2>3, <2>6, PlacedStep DEF World, probeVars
<1>7. QED BY <1>3, <1>4, <1>5, <1>6 DEF Detach

(* What the removal of a portal, a room or a head by the thread that holds  *)
(* the fence leaves of the others.                                          *)
LEMMA RemovalOthers ==
  ASSUME IInv, NEW t \in Threads, fence = t, NEW u \in Threads, u # t, Steady(u),
         UNCHANGED <<bridged, backfill>> \/ (Undisturbed => mem[u].head <= cut),
         portal' = portal \/ (Undisturbed => mem[u].head <= cut),
         UNCHANGED <<newest, cut, blocked, job, asked, outdated>>
  PROVE  ThreadInv(u)' /\ pc'[u] # "detach"
<1>1. ThreadInv(u) /\ pc[u] \notin FencedLabels
  BY DEF IInv, ThreadInv, RowInv
<1>2. RowInv(u)' /\ GoneInv(u)'
  BY <1>1, UnfencedKept
<1>3. FetchInv(u)'
  <2>1. mem[u].head \in Nat /\ cut \in Nat /\ \A m \in Messages : m \in Nat
    BY SyncAssumption DEF IInv, ConversationTypeOK, Memories, Messages
  <2>2. QED BY <1>1, <2>1 DEF Steady, ThreadInv, FetchInv, Delivering, Undisturbed
<1>4. QED BY <1>1, <1>2, <1>3 DEF ThreadInv, Steady, FencedLabels, DeleteLabels

LEMMA RemovedStep ==
  ASSUME IInv, NEW t \in Threads, pc[t] = "remove", DeletePortal, Goto(t, "cleanup"),
         UNCHANGED <<World, tableVars, fence, mem, left, historyVars>>
  PROVE  IInv'
<1>1. ConversationTypeOK /\ ThreadInv(t)
  BY DEF IInv
<1>2. fence = t /\ portal \in {NoRoom, mem[t].room} /\ job.room = mem[t].room /\ job.room # NoRoom
  BY <1>1 DEF ThreadInv, RowInv, FencedLabels, DeleteLabels
<1>3. Placed(t, "cleanup")
  BY <1>1, GotoPlaces DEF Labels, DeleteLabels
<1>4. ConversationTypeOK'
  BY <1>1, <1>3 DEF ConversationTypeOK, DeletePortal, Placed, Labels, World, remoteVars, tableVars,
                    historyVars, probeVars, listVars
<1>5. Undisturbed => Past
  BY <1>2 DEF IInv, HeadInv, ThreadInv, FetchInv, Past
<1>6. \A u \in Threads \ {t} : ThreadInv(u)' /\ pc'[u] # "detach"
  <2> SUFFICES ASSUME NEW u \in Threads, u # t PROVE ThreadInv(u)' /\ pc'[u] # "detach"
    OBVIOUS
  <2>1. Steady(u) /\ (Undisturbed => mem[u].head <= cut)
    BY <1>3, <1>5 DEF Steady, Placed, Past
  <2>2. QED BY <1>2, <2>1, RemovalOthers DEF World, remoteVars, tableVars, historyVars
<1>7. ThreadInv(t)' /\ pc'[t] # "detach"
  <2>1. RowInv(t)' /\ GoneInv(t)'
    BY <1>2, <1>3 DEF Placed, RowInv, GoneInv, tableVars
  <2>2. FetchInv(t)'
    BY <1>1, <1>3 DEF Placed, ThreadInv, FetchInv, Delivering, Undisturbed, World, remoteVars, tableVars,
                      historyVars
  <2>3. QED BY <1>3, <2>1, <2>2 DEF ThreadInv, Placed
<1>8. \A h \in Hosts : UserInv(h)'
  BY DEF IInv, UserInv, DeletePortal, World, tableVars, historyVars
<1>9. RoomInv'
  BY <1>1, <1>2, JobAssumption DEF IInv, RoomInv, RoomAccounted, Gone, DeletePortal, ConversationTypeOK,
                                   World, remoteVars, tableVars, historyVars
<1>10. HeadInv'
  <2>1. Undisturbed => \A m \in Messages : ~(m > cut /\ m <= head)
    BY <1>1, <1>5, SyncAssumption DEF Past, ConversationTypeOK, Messages
  <2>2. QED
    BY <1>5, <1>6, <1>7, <2>1 DEF Past, IInv, HeadInv, HeadConfirmed, Provided, Undisturbed, World, remoteVars,
                                  tableVars, historyVars
<1>11. QED BY <1>4, <1>6, <1>7, <1>8, <1>9, <1>10 DEF IInv

LEMMA RemoveStep ==
  ASSUME IInv, NEW t \in Threads, Remove(t)
  PROVE  IInv'
<1>1. fence = t
  BY DEF Remove, At, IInv, ThreadInv, RowInv, FencedLabels, DeleteLabels
<1>2. QED BY <1>1, FailStep, RemovedStep DEF Remove, At

LEMMA CleanedStep ==
  ASSUME IInv, NEW t \in Threads, pc[t] = "cleanup", DeleteRoom(mem[t].room), Goto(t, "forget"),
         UNCHANGED <<World, tableVars, fence, mem, left, historyVars>>
  PROVE  IInv'
<1>1. ConversationTypeOK /\ ThreadInv(t)
  BY DEF IInv
<1>2. fence = t /\ job.room = mem[t].room /\ job.room \in Gone
  BY <1>1 DEF ThreadInv, RowInv, FencedLabels, DeleteLabels, IInv, RoomInv
<1>3. Placed(t, "forget") /\ rooms' = rooms \ {job.room} /\ UNCHANGED <<portal, made, bridged, backfill>>
  BY <1>1, <1>2, GotoPlaces DEF Labels, DeleteLabels, DeleteRoom
<1>4. ConversationTypeOK'
  BY <1>1, <1>3 DEF ConversationTypeOK, Placed, Labels, World, remoteVars, tableVars, historyVars, probeVars, listVars
<1>5. \A u \in Threads \ {t} : ThreadInv(u)' /\ pc'[u] # "detach"
  <2> SUFFICES ASSUME NEW u \in Threads, u # t PROVE ThreadInv(u)' /\ pc'[u] # "detach"
    OBVIOUS
  <2>1. Steady(u)
    BY <1>3 DEF Steady, Placed
  <2>2. QED BY <1>2, <1>3, <2>1, RemovalOthers DEF World, remoteVars, tableVars, historyVars
<1>6. ThreadInv(t)' /\ pc'[t] # "detach"
  <2>1. RowInv(t)' /\ GoneInv(t)'
    BY <1>2, <1>3 DEF Placed, RowInv, GoneInv, tableVars
  <2>2. FetchInv(t)'
    BY <1>1, <1>3 DEF Placed, ThreadInv, FetchInv, Delivering, Undisturbed, World, remoteVars, tableVars,
                      historyVars
  <2>3. QED BY <1>3, <2>1, <2>2 DEF ThreadInv, Placed
<1>7. \A h \in Hosts : UserInv(h)'
  BY <1>3 DEF IInv, UserInv, World, tableVars, historyVars
<1>8. RoomInv'
  BY <1>1, <1>2, <1>3 DEF IInv, RoomInv, RoomAccounted, Gone, World, remoteVars, tableVars, historyVars
<1>9. HeadInv'
  BY <1>3, <1>5, <1>6 DEF IInv, HeadInv, HeadConfirmed, Provided, Undisturbed, World, remoteVars, tableVars, historyVars
<1>10. QED BY <1>4, <1>5, <1>6, <1>7, <1>8, <1>9 DEF IInv

LEMMA CleanupStep ==
  ASSUME IInv, NEW t \in Threads, Cleanup(t)
  PROVE  IInv'
<1>1. fence = t
  BY DEF Cleanup, At, IInv, ThreadInv, RowInv, FencedLabels, DeleteLabels
<1>2. QED BY <1>1, FailStep, CleanedStep DEF Cleanup, At

LEMMA ForgottenStep ==
  ASSUME IInv, NEW t \in Threads, pc[t] = "forget", head' = 0, owed' = 0,
         pc' = [Cancelled EXCEPT ![t] = "ack"],
         UNCHANGED <<World, matrixVars, job, fence, mem, left, ended, asked, released, unlisted, outdated>>
  PROVE  IInv'
<1>1. ConversationTypeOK /\ ThreadInv(t)
  BY DEF IInv
<1>2. fence = t /\ job.room \notin rooms
  BY <1>1 DEF ThreadInv, RowInv, FencedLabels, DeleteLabels
<1>3. Placed(t, "ack")
  BY <1>1, GotoPlaces DEF Labels, SyncLabels
<1>4. ConversationTypeOK'
  BY <1>1, <1>3, SyncAssumption DEF ConversationTypeOK, Placed, Labels, World, remoteVars, matrixVars, probeVars, listVars
<1>5. \A u \in Threads \ {t} : ThreadInv(u)' /\ pc'[u] # "detach"
  <2> SUFFICES ASSUME NEW u \in Threads, u # t PROVE ThreadInv(u)' /\ pc'[u] # "detach"
    OBVIOUS
  <2>1. Steady(u)
    BY <1>3 DEF Steady, Placed
  <2>2. QED BY <1>2, <2>1, RemovalOthers DEF World, remoteVars, matrixVars
<1>6. ThreadInv(t)' /\ pc'[t] # "detach"
  <2>1. RowInv(t)' /\ GoneInv(t)'
    BY <1>2, <1>3 DEF Placed, RowInv, GoneInv, matrixVars
  <2>2. FetchInv(t)'
    BY <1>1, <1>3 DEF Placed, ThreadInv, FetchInv, Delivering, Undisturbed, World, remoteVars, matrixVars
  <2>3. QED BY <1>3, <2>1, <2>2 DEF ThreadInv, Placed
<1>7. \A h \in Hosts : UserInv(h)'
  BY DEF IInv, UserInv, World, matrixVars
<1>8. RoomInv'
  BY DEF IInv, RoomInv, RoomAccounted, Gone, World, remoteVars, matrixVars
<1>9. HeadInv'
  <2>1. 0 <= newest /\ 0 <= cut /\ \A m \in Messages : ~(m <= 0)
    BY <1>1, SyncAssumption DEF ConversationTypeOK, Messages
  <2>2. QED BY <1>5, <1>6, <2>1 DEF HeadInv, HeadConfirmed, Provided, Undisturbed, World, remoteVars, matrixVars
<1>10. QED BY <1>4, <1>5, <1>6, <1>7, <1>8, <1>9 DEF IInv

LEMMA ForgetStep ==
  ASSUME IInv, NEW t \in Threads, Forget(t)
  PROVE  IInv'
<1>1. fence = t
  BY DEF Forget, At, IInv, ThreadInv, RowInv, FencedLabels, DeleteLabels
<1>2. QED BY <1>1, FailStep, ForgottenStep DEF Forget, At

-----------------------------------------------------------------------------
(* A chat deletion. *)

(* What a request makes of the processes' chat deletions.                   *)
LEMMA Requested ==
  ASSUME ConversationTypeOK, NEW h \in Hosts, NEW r \in Rooms \cup {NoRoom},
         NEW l \in {"idle", "asked", "request", "portal", "room"}, Request(h, l, r)
  PROVE  /\ user' \in [Hosts -> [pc : {"idle", "asked", "request", "portal", "room"}, room : Rooms \cup {NoRoom}]]
         /\ user'[h].pc = l /\ user'[h].room = r
         /\ \A g \in Hosts \ {h} : user'[g] = user[g]
BY DEF ConversationTypeOK, Request

(* Nothing but the chat deletions, and the bounds, has changed.             *)
LEMMA UsersAside ==
  ASSUME IInv, ConversationTypeOK', \A h \in Hosts : UserInv(h)',
         UNCHANGED <<remoteVars, matrixVars, tableVars, threadVars, historyVars>>
  PROVE  IInv'
<1>1. \A t \in Threads : ThreadInv(t)'
  BY DEF IInv, ThreadInv, RowInv, GoneInv, FetchInv, Gone, Undisturbed,
         remoteVars, matrixVars, tableVars, threadVars, historyVars
<1>2. RoomInv'
  BY DEF IInv, RoomInv, RoomAccounted, Gone, remoteVars, matrixVars, tableVars, historyVars
<1>3. HeadInv'
  BY DEF IInv, HeadInv, HeadConfirmed, Provided, Past, Undisturbed, remoteVars, matrixVars, tableVars, threadVars, historyVars
<1>4. QED BY <1>1, <1>2, <1>3 DEF IInv

LEMMA DeleteChatStep ==
  ASSUME IInv, NEW h \in Hosts, DeleteChat(h)
  PROVE  IInv'
<1>1. ConversationTypeOK /\ portal \in Rooms /\ portal \in made
  BY DEF IInv, RoomInv, DeleteChat, ConversationTypeOK
<1>2. UNCHANGED <<remoteVars, evidence, matrixVars, tableVars, threadVars, probeVars, historyVars>>
  BY DEF DeleteChat
<1>3. /\ user' \in [Hosts -> [pc : {"idle", "asked", "request", "portal", "room"}, room : Rooms \cup {NoRoom}]]
      /\ user'[h].pc = "asked" /\ user'[h].room = portal /\ \A g \in Hosts \ {h} : user'[g] = user[g]
  BY <1>1, Requested DEF DeleteChat
<1>4. left' \in [Kinds -> Nat]
  BY <1>1, Spent DEF DeleteChat, ConversationTypeOK, Kinds
<1>5. ConversationTypeOK'
  BY <1>1, <1>2, <1>3, <1>4 DEF ConversationTypeOK, remoteVars, matrixVars, tableVars, threadVars, probeVars, listVars,
                                historyVars
<1>6. \A g \in Hosts : UserInv(g)'
  BY <1>1, <1>2, <1>3 DEF IInv, UserInv, matrixVars, tableVars, threadVars, historyVars
<1>7. QED BY <1>2, <1>5, <1>6, UsersAside

(* What the threads keep, and what is left to say of the head, once a user  *)
(* has asked to delete the chat.                                            *)
LEMMA DisturbedThreads ==
  ASSUME IInv, asked' # {}, NEW t \in Threads, Steady(t), newest' = newest, RowInv(t)', GoneInv(t)'
  PROVE  ThreadInv(t)'
BY DEF IInv, ThreadInv, FetchInv, Undisturbed, Steady

LEMMA DisturbedHead ==
  ASSUME IInv, asked' # {}, newest' = newest, head' = head
  PROVE  HeadInv'
BY DEF IInv, HeadInv, HeadConfirmed, Provided, Undisturbed

LEMMA ScheduleDeleteStep ==
  ASSUME IInv, NEW h \in Hosts, ScheduleDelete(h)
  PROVE  IInv'
<1> DEFINE r == user[h].room
<1>1. ConversationTypeOK /\ fence = NoThread /\ r \in made /\ r \in Rooms /\ r # NoRoom
  BY JobAssumption DEF IInv, UserInv, ScheduleDelete, ConversationTypeOK
<1>2. /\ fence' = h /\ Renames(r) /\ asked' = asked \cup ({r, portal} \ {NoRoom}) /\ Request(h, "request", r)
      /\ job' = ScheduleDeleteRoom(job, r)
      /\ UNCHANGED <<Rest, pc, cut, matrixVars, head, left, owed, ended, unlisted, outdated>>
  BY DEF ScheduleDelete
<1> HIDE DEF r
<1>3. job' \in Jobs /\ job'.room = r
  <2>1. job \in Jobs /\ r \in Rooms \cup {NoRoom}
    BY <1>1 DEF ConversationTypeOK
  <2>2. QED BY <1>2, <2>1, JobRows
<1>4. /\ user' \in [Hosts -> [pc : {"idle", "asked", "request", "portal", "room"}, room : Rooms \cup {NoRoom}]]
      /\ user'[h].pc = "request" /\ user'[h].room = r /\ \A g \in Hosts \ {h} : user'[g] = user[g]
  BY <1>1, <1>2, Requested
<1>5. released' \subseteq Rooms /\ released \subseteq released'
  BY <1>1, <1>2, RenamesType
<1>6. ConversationTypeOK'
  BY <1>1, <1>2, <1>3, <1>4, <1>5 DEF ConversationTypeOK, Rest, matrixVars, probeVars, listVars
<1>7. asked' # {} /\ newest' = newest /\ head' = head
  BY <1>1, <1>2 DEF Rest
<1>8. \A t \in Threads : ThreadInv(t)'
  <2> SUFFICES ASSUME NEW t \in Threads PROVE ThreadInv(t)'
    OBVIOUS
  <2>1. Steady(t) /\ pc[t] \notin FencedLabels
    BY <1>1, <1>2, SyncAssumption DEF Steady, Rest, IInv, ThreadInv, RowInv
  <2>2. QED BY <1>2, <1>7, <2>1, UnfencedKept, DisturbedThreads DEF Rest
<1>9. \A g \in Hosts : UserInv(g)'
  <2>1. UserInv(h)'
    BY <1>1, <1>2, <1>3, <1>4 DEF UserInv, matrixVars
  <2>2. ASSUME NEW g \in Hosts, g # h PROVE UserInv(g)'
    <3>1. UserInv(g) /\ user'[g] = user[g] /\ user[g].pc # "request"
      BY <1>1, <1>4, <2>2, SyncAssumption DEF IInv, UserInv
    <3>2. ASSUME user[g].pc = "portal", user[g].room \in rooms, user[g].room # r
          PROVE  user[g].room \in released'
      <4>1. user[g] = [pc |-> "portal", room |-> user[g].room]
        BY <1>1, <3>2 DEF ConversationTypeOK
      <4>2. Removing(user[g].room)
        BY <4>1 DEF Removing
      <4>3. QED BY <1>2, <1>5, <3>1, <3>2, <4>2 DEF UserInv, Renames
    <3>3. QED BY <1>2, <1>3, <3>1, <3>2 DEF UserInv, matrixVars
  <2>3. QED BY <2>1, <2>2
<1>10. RoomInv'
  <2>1. RoomAccounted'
    BY <1>2, <1>3, <1>5 DEF IInv, RoomInv, RoomAccounted, Renames, Removing, matrixVars
  <2>2. QED BY <1>1, <1>2, <1>3, <2>1 DEF IInv, RoomInv, Gone, Rest, matrixVars
<1>11. QED BY <1>6, <1>7, <1>8, <1>9, <1>10, DisturbedHead DEF IInv

LEMMA RequestDeleteStep ==
  ASSUME IInv, NEW h \in Hosts, RequestDelete(h)
  PROVE  IInv'
<1> DEFINE r == user[h].room
<1>1. /\ ConversationTypeOK /\ fence = h /\ job.room = r /\ r \in asked /\ r \in made
      /\ r \in Rooms /\ newest \in Nat /\ cut \in Nat
  BY SyncAssumption DEF IInv, UserInv, RequestDelete, ConversationTypeOK
<1>2. fence' = NoThread /\ UNCHANGED <<Rest, matrixVars, tableVars, owed, asked, released, unlisted, outdated>>
  BY DEF RequestDelete
<1>3. /\ cut' = cut \/ (cut' = newest /\ rooms \subseteq ended')
      /\ ended \subseteq ended' /\ ended' \subseteq Rooms
  BY <1>1 DEF RequestDelete, ConversationTypeOK
<1>4. pc' = pc \/ pc' = Cancelled
  BY DEF RequestDelete
<1>5. left' \in [Kinds -> Nat]
  BY <1>1, Spent DEF RequestDelete, ConversationTypeOK, Kinds
<1>6. Request(h, "portal", r) \/ Request(h, "idle", NoRoom)
  BY DEF RequestDelete
<1> HIDE DEF r
<1>7. /\ user' \in [Hosts -> [pc : {"idle", "asked", "request", "portal", "room"}, room : Rooms \cup {NoRoom}]]
      /\ (user'[h].pc = "portal" /\ user'[h].room = r) \/ user'[h].pc = "idle"
      /\ \A g \in Hosts \ {h} : user'[g] = user[g]
  BY <1>1, <1>6, Requested
<1>8. pc' \in [Threads -> Labels] /\ \A t \in Threads : Steady(t)
  BY <1>1, <1>2, <1>4 DEF Steady, Cancelled, At, Rest, Labels, ConversationTypeOK
<1>9. cut' \in 0..newest
  BY <1>1, <1>3 DEF ConversationTypeOK
<1>10. ConversationTypeOK'
  BY <1>1, <1>2, <1>3, <1>5, <1>7, <1>8, <1>9
     DEF ConversationTypeOK, Labels, Rest, matrixVars, tableVars, probeVars, listVars
<1>11. asked' # {} /\ newest' = newest /\ head' = head
  BY <1>1, <1>2 DEF Rest, tableVars
<1>12. \A t \in Threads : ThreadInv(t)'
  <2> SUFFICES ASSUME NEW t \in Threads PROVE ThreadInv(t)'
    OBVIOUS
  <2>1. pc[t] \notin FencedLabels
    BY <1>1, SyncAssumption DEF IInv, ThreadInv, RowInv
  <2>2. QED BY <1>2, <1>8, <1>11, <2>1, UnfencedKept, DisturbedThreads DEF Rest
<1>13. \A g \in Hosts : UserInv(g)'
  <2>1. UserInv(h)'
    BY <1>1, <1>2, <1>7 DEF UserInv, matrixVars, tableVars
  <2>2. ASSUME NEW g \in Hosts, g # h PROVE UserInv(g)'
    BY <1>1, <1>2, <1>7, <2>2 DEF IInv, UserInv, matrixVars, tableVars
  <2>3. QED BY <2>1, <2>2
<1>14. RoomInv'
  BY <1>2, <1>3 DEF IInv, RoomInv, RoomAccounted, Gone, Rest, matrixVars, tableVars
<1>15. QED BY <1>10, <1>11, <1>12, <1>13, <1>14, DisturbedHead DEF IInv

LEMMA FrameworkPortalStep ==
  ASSUME IInv, NEW h \in Hosts, FrameworkPortal(h)
  PROVE  IInv'
<1> DEFINE r == user[h].room
<1>1. /\ ConversationTypeOK /\ r \in asked /\ r \in made /\ r \in Rooms
      /\ r \in {job.room} \cup released \/ r \notin rooms
  BY DEF IInv, UserInv, FrameworkPortal, ConversationTypeOK
<1>2. UNCHANGED <<Rest, pc, cut, tableVars, fence, historyVars>>
  BY DEF FrameworkPortal
<1>3. rooms' = rooms /\ made' = made /\ portal' \in {portal, NoRoom}
      /\ (portal' # portal => portal = r) /\ bridged' \subseteq bridged /\ backfill' \subseteq backfill
      /\ (portal' # portal => backfill' = {})
  BY DEF FrameworkPortal, DeletePortal, matrixVars
<1>4. left' \in [Kinds -> Nat]
  BY <1>1, Spent DEF FrameworkPortal, ConversationTypeOK, Kinds
<1>5. Request(h, "room", r) \/ Request(h, "idle", NoRoom)
  BY DEF FrameworkPortal
<1> HIDE DEF r
<1>6. /\ user' \in [Hosts -> [pc : {"idle", "asked", "request", "portal", "room"}, room : Rooms \cup {NoRoom}]]
      /\ (user'[h].pc = "room" /\ user'[h].room = r) \/ user'[h].pc = "idle"
      /\ \A g \in Hosts \ {h} : user'[g] = user[g]
  BY <1>1, <1>5, Requested
<1>7. ConversationTypeOK'
  BY <1>1, <1>2, <1>3, <1>4, <1>6 DEF ConversationTypeOK, Rest, tableVars, probeVars, listVars, historyVars
<1>8. asked' # {} /\ newest' = newest /\ head' = head
  BY <1>1, <1>2 DEF Rest, tableVars, historyVars
<1>9. \A t \in Threads : ThreadInv(t)'
  <2> SUFFICES ASSUME NEW t \in Threads PROVE ThreadInv(t)'
    OBVIOUS
  <2>1. Steady(t)
    BY <1>2 DEF Steady, Rest
  <2>2. RowInv(t)' /\ GoneInv(t)'
    BY <1>2, <1>3 DEF IInv, ThreadInv, RowInv, GoneInv, Gone, Rest, tableVars, historyVars
  <2>3. QED BY <1>8, <2>1, <2>2, DisturbedThreads
<1>10. \A g \in Hosts : UserInv(g)'
  BY <1>1, <1>2, <1>3, <1>6 DEF IInv, UserInv, tableVars, historyVars
<1>11. RoomInv'
  BY <1>1, <1>2, <1>3 DEF IInv, RoomInv, RoomAccounted, Gone, Rest, tableVars, historyVars
<1>12. QED BY <1>7, <1>8, <1>9, <1>10, <1>11, DisturbedHead DEF IInv

LEMMA FrameworkRoomStep ==
  ASSUME IInv, NEW h \in Hosts, FrameworkRoom(h)
  PROVE  IInv'
<1>1. ConversationTypeOK /\ user[h].room \in asked
  BY DEF IInv, UserInv, FrameworkRoom
<1>2. UNCHANGED <<Rest, pc, cut, tableVars, fence, historyVars>>
  BY DEF FrameworkRoom
<1>3. /\ UNCHANGED <<portal, made, bridged, backfill>> /\ rooms' \subseteq rooms
      /\ rooms \ {user[h].room} \subseteq rooms'
  BY DEF FrameworkRoom, DeleteRoom, matrixVars
<1>4. left' \in [Kinds -> Nat]
  BY <1>1, Spent DEF FrameworkRoom, ConversationTypeOK, Kinds
<1>5. /\ user' \in [Hosts -> [pc : {"idle", "asked", "request", "portal", "room"}, room : Rooms \cup {NoRoom}]]
      /\ user'[h].pc = "idle" /\ \A g \in Hosts \ {h} : user'[g] = user[g]
  BY <1>1, Requested DEF FrameworkRoom
<1>6. ConversationTypeOK'
  BY <1>1, <1>2, <1>3, <1>4, <1>5 DEF ConversationTypeOK, Rest, tableVars, probeVars, listVars, historyVars
<1>7. asked' # {} /\ newest' = newest /\ head' = head
  BY <1>1, <1>2 DEF Rest, tableVars, historyVars
<1>8. \A t \in Threads : ThreadInv(t)'
  <2> SUFFICES ASSUME NEW t \in Threads PROVE ThreadInv(t)'
    OBVIOUS
  <2>1. Steady(t)
    BY <1>2 DEF Steady, Rest
  <2>2. RowInv(t)' /\ GoneInv(t)'
    BY <1>2, <1>3 DEF IInv, ThreadInv, RowInv, GoneInv, Gone, Rest, tableVars, historyVars
  <2>3. QED BY <1>7, <2>1, <2>2, DisturbedThreads
<1>9. \A g \in Hosts : UserInv(g)'
  BY <1>2, <1>3, <1>5 DEF IInv, UserInv, tableVars, historyVars
<1>10. RoomInv'
  BY <1>1, <1>2, <1>3 DEF IInv, RoomInv, RoomAccounted, Gone, Rest, tableVars, historyVars
<1>11. QED BY <1>6, <1>7, <1>8, <1>9, <1>10, DisturbedHead DEF IInv

-----------------------------------------------------------------------------
(* The loops of the processes. *)

LEMMA HandleEvidenceStep ==
  ASSUME IInv, NEW m \in Messages, HandleEvidence(m)
  PROVE  IInv'
<1>1. ConversationTypeOK /\ fence = NoThread
  BY DEF IInv, HandleEvidence
<1>2. job' \in Jobs /\ job'.room = NoRoom /\ Renames(NoRoom)
  BY <1>1, JobRows DEF HandleEvidence, SignOfLife, ConversationTypeOK
<1>3. released' \subseteq Rooms
  BY <1>1, <1>2, RenamesType
<1>4. owed' \in 0..MaxMessages
  BY <1>1, SyncAssumption DEF HandleEvidence, Later, ConversationTypeOK, Messages
<1>5. ConversationTypeOK'
  BY <1>1, <1>2, <1>3, <1>4 DEF HandleEvidence, SignOfLife, ConversationTypeOK, remoteVars, matrixVars, threadVars, probeVars, listVars
<1>6. UNCHANGED <<newest, cut, blocked, matrixVars, head, user, ended, asked, outdated, pc, mem>>
  BY DEF HandleEvidence, remoteVars, threadVars
<1>7. QED BY <1>1, <1>2, <1>5, <1>6, DroppedStep, SyncAssumption

LEMMA LoseEvidenceStep ==
  ASSUME IInv, NEW m \in Messages, LoseEvidence(m)
  PROVE  IInv'
<1>1. ConversationTypeOK'
  BY DEF IInv, LoseEvidence, ConversationTypeOK, remoteVars, matrixVars, tableVars, threadVars, probeVars, listVars,
         historyVars
<1>2. QED BY <1>1, Aside DEF LoseEvidence, remoteVars

LEMMA ScanStep ==
  ASSUME IInv, Scan
  PROVE  IInv'
<1>1. ConversationTypeOK
  BY DEF IInv
<1>2. newest \in Messages
  BY <1>1, SyncAssumption DEF Scan, Listed, ConversationTypeOK, Messages
<1>3. left' \in [Kinds -> Nat]
  BY <1>1, Spent DEF Scan, ConversationTypeOK, Kinds
<1>4. ConversationTypeOK'
  BY <1>1, <1>2, <1>3 DEF Scan, ConversationTypeOK, remoteVars, matrixVars, tableVars, threadVars, probeVars, listVars,
                          historyVars
<1>5. QED BY <1>4, Aside DEF Scan, remoteVars

LEMMA ListHeadsStep ==
  ASSUME IInv, NEW h \in Hosts, ListHeads(h)
  PROVE  IInv'
<1>1. ConversationTypeOK
  BY DEF IInv
<1>2. observed' \in [Hosts -> 0..MaxMessages] /\ probe' \in [Hosts -> 0..MaxMessages]
  <2>1. 0 \in 0..MaxMessages /\ newest \in 0..MaxMessages
    BY <1>1, SyncAssumption DEF ConversationTypeOK
  <2>2. QED BY <1>1, <2>1 DEF ListHeads, ConversationTypeOK
<1>3. ConversationTypeOK'
  BY <1>1, <1>2 DEF ListHeads, ConversationTypeOK, remoteVars, matrixVars, tableVars, threadVars, listVars, historyVars
<1>4. QED BY <1>3, Aside DEF ListHeads, remoteVars

LEMMA QueueChangedHeadStep ==
  ASSUME IInv, NEW h \in Hosts, QueueChangedHead(h)
  PROVE  IInv'
<1>1. ConversationTypeOK /\ fence = NoThread
  BY DEF IInv, QueueChangedHead
<1>2. observed' \in [Hosts -> 0..MaxMessages] /\ probe' \in [Hosts -> 0..MaxMessages]
  BY <1>1, SyncAssumption DEF QueueChangedHead, ConversationTypeOK
<1>3. UNCHANGED <<remoteVars, evidence, matrixVars, head, threadVars, user, listVars, left, ended, asked, outdated>>
  BY DEF QueueChangedHead
<1>4. CASE UNCHANGED <<job, released, unlisted, owed>>
  <2>1. ConversationTypeOK'
    BY <1>1, <1>2, <1>3, <1>4 DEF ConversationTypeOK, SignOfLife, listVars, remoteVars, matrixVars, threadVars
  <2>2. QED BY <1>3, <1>4, <2>1, Aside DEF remoteVars, tableVars, historyVars
<1>5. CASE SignOfLife /\ owed' = Later(owed, probe[h])
  <2>1. job' \in Jobs /\ job'.room = NoRoom /\ Renames(NoRoom)
    BY <1>1, <1>5, JobRows DEF SignOfLife, ConversationTypeOK
  <2>2. released' \subseteq Rooms
    BY <1>1, <2>1, RenamesType
  <2>3. owed' \in 0..MaxMessages
    BY <1>1, <1>5 DEF Later, ConversationTypeOK
  <2>4. ConversationTypeOK'
    BY <1>1, <1>2, <1>3, <1>5, <2>1, <2>2, <2>3 DEF ConversationTypeOK, SignOfLife, listVars, remoteVars, matrixVars, threadVars
  <2>5. UNCHANGED <<newest, cut, blocked, matrixVars, head, user, ended, asked, outdated, pc, mem>>
    BY <1>3 DEF remoteVars, threadVars
  <2>6. QED BY <1>1, <2>1, <2>4, <2>5, DroppedStep, SyncAssumption
<1>6. QED BY <1>4, <1>5 DEF QueueChangedHead

(* The row is another one, with the same room, or the walks are.            *)
LEMMA RowAside ==
  ASSUME IInv, ConversationTypeOK', job'.room = job.room,
         UNCHANGED <<remoteVars, matrixVars, head, threadVars, user, ended, asked, released, outdated>>
  PROVE  IInv'
<1>1. \A t \in Threads : ThreadInv(t)'
  BY DEF IInv, ThreadInv, RowInv, GoneInv, FetchInv, Gone, Undisturbed,
         remoteVars, matrixVars, threadVars
<1>2. \A h \in Hosts : UserInv(h)'
  BY DEF IInv, UserInv, matrixVars, threadVars
<1>3. RoomInv'
  BY DEF IInv, RoomInv, RoomAccounted, Gone, remoteVars, matrixVars
<1>4. HeadInv'
  BY DEF IInv, HeadInv, HeadConfirmed, Provided, Past, Undisturbed, remoteVars, matrixVars, threadVars
<1>5. QED BY <1>1, <1>2, <1>3, <1>4 DEF IInv

(* A walk of process h is remembered, and what comes with it.               *)
LEMMA RememberStep ==
  ASSUME IInv, NEW h \in Hosts, NEW found \in BOOLEAN, Remember(h, found), left' \in [Kinds -> Nat],
         observed' \in [Hosts -> 0..MaxMessages], walk' \in [Hosts -> {"idle", "queue", "overtaken"}]
  PROVE  IInv'
<1>1. ConversationTypeOK
  BY DEF IInv
<1>2. job' \in Jobs /\ job'.room = job.room
  BY <1>1, ListedRow DEF Remember, ConversationTypeOK
<1>3. listed' \subseteq Hosts /\ unlisted' \subseteq Hosts
  BY <1>1 DEF Remember, ConversationTypeOK
<1>4. ConversationTypeOK'
  BY <1>1, <1>2, <1>3 DEF Remember, ConversationTypeOK, remoteVars, matrixVars, threadVars
<1>5. QED BY <1>2, <1>4, RowAside DEF Remember

LEMMA ForgottenHeads ==
  ASSUME ConversationTypeOK, NEW h \in Hosts, HeadsForgotten(h)
  PROVE  observed' \in [Hosts -> 0..MaxMessages]
BY SyncAssumption DEF HeadsForgotten, ConversationTypeOK

LEMMA ListAllStep ==
  ASSUME IInv, NEW h \in Hosts, ListAll(h)
  PROVE  IInv'
<1>1. ConversationTypeOK
  BY DEF IInv
<1>2. CASE Remember(h, TRUE) /\ HeadsForgotten(h) /\ UNCHANGED <<walk, left>>
  <2>1. observed' \in [Hosts -> 0..MaxMessages] /\ left' \in [Kinds -> Nat]
        /\ walk' \in [Hosts -> {"idle", "queue", "overtaken"}]
    BY <1>1, <1>2, ForgottenHeads DEF ConversationTypeOK
  <2>2. QED BY <1>2, <2>1, RememberStep
<1>3. CASE Missing /\ Remember(h, FALSE) /\ walk' = [walk EXCEPT ![h] = "queue"] /\ UNCHANGED observed
  <2>1. left' \in [Kinds -> Nat]
    BY <1>1, <1>3, Spent DEF Missing, ConversationTypeOK, Kinds
  <2>2. walk' \in [Hosts -> {"idle", "queue", "overtaken"}] /\ observed' \in [Hosts -> 0..MaxMessages]
    BY <1>1, <1>3 DEF ConversationTypeOK
  <2>3. QED BY <1>3, <2>1, <2>2, RememberStep
<1>4. QED BY <1>2, <1>3 DEF ListAll

LEMMA QueueMissingStep ==
  ASSUME IInv, NEW h \in Hosts, QueueMissing(h)
  PROVE  IInv'
<1>1. ConversationTypeOK
  BY DEF IInv
<1>2. job' \in Jobs /\ job'.room = job.room
  <2>1. Put(job) \in Jobs /\ Put(job).room = job.room /\ job \in Jobs
    BY <1>1, JobRows, JobAssumption DEF ConversationTypeOK
  <2>2. Against(Put(job), h) \in Jobs /\ Against(Put(job), h).room = job.room
    BY <2>1, ListedRow
  <2>3. QED BY <2>1, <2>2 DEF QueueMissing
<1>3. left' \in [Kinds -> Nat]
  BY <1>1, Spent DEF QueueMissing, ConversationTypeOK, Kinds
<1>4. observed' \in [Hosts -> 0..MaxMessages] /\ unlisted' \subseteq Hosts
      /\ walk' \in [Hosts -> {"idle", "queue", "overtaken"}]
  BY <1>1, ForgottenHeads DEF QueueMissing, ConversationTypeOK
<1>5. ConversationTypeOK'
  BY <1>1, <1>2, <1>3, <1>4 DEF QueueMissing, ConversationTypeOK, remoteVars, matrixVars, threadVars
<1>6. QED BY <1>2, <1>5, RowAside DEF QueueMissing

LEMMA ListNothingStep ==
  ASSUME IInv, NEW h \in Hosts, ListNothing(h)
  PROVE  IInv'
<1>1. ConversationTypeOK
  BY DEF IInv
<1>2. observed' \in [Hosts -> 0..MaxMessages]
  BY <1>1, ForgottenHeads DEF ListNothing
<1>3. ConversationTypeOK'
  BY <1>1, <1>2 DEF ListNothing, ConversationTypeOK, remoteVars, matrixVars, tableVars, threadVars, listVars,
                    historyVars
<1>4. QED BY <1>3, Aside DEF ListNothing, remoteVars

LEMMA ListForAnotherStep ==
  ASSUME IInv, NEW h \in Hosts, ListForAnother(h)
  PROVE  IInv'
<1>1. ConversationTypeOK
  BY DEF IInv
<1>2. left' \in [Kinds -> Nat]
  BY <1>1, Spent DEF ListForAnother, ConversationTypeOK, Kinds
<1>3. /\ walk' \in [Hosts -> {"idle", "queue", "overtaken"}]
      /\ observed' \in [Hosts -> 0..MaxMessages]
  BY <1>1 DEF ListForAnother, Overtaken, ConversationTypeOK
<1>4. PICK found \in BOOLEAN : Remember(h, found)
  BY DEF ListForAnother, Listed
<1>5. QED BY <1>2, <1>3, <1>4, RememberStep

LEMMA ExpireStep ==
  ASSUME IInv, NEW h \in Hosts, Expire(h)
  PROVE  IInv'
<1>1. ConversationTypeOK
  BY DEF IInv
<1>2. job' \in Jobs /\ job'.room = job.room
  BY <1>1, ListedRow DEF Expire, ConversationTypeOK
<1>3. left' \in [Kinds -> Nat] /\ listed' \subseteq Hosts
  BY <1>1, Spent DEF Expire, ConversationTypeOK, Kinds
<1>4. ConversationTypeOK'
  BY <1>1, <1>2, <1>3 DEF Expire, ConversationTypeOK, remoteVars, matrixVars, threadVars, historyVars
<1>5. QED BY <1>2, <1>4, RowAside DEF Expire, historyVars

LEMMA BackoffStep ==
  ASSUME IInv, Backoff
  PROVE  IInv'
<1>1. ConversationTypeOK
  BY DEF IInv
<1>2. job' \in Jobs /\ job'.room = job.room
  BY <1>1, JobRows, JobAssumption DEF Backoff, ConversationTypeOK
<1>3. ConversationTypeOK'
  BY <1>1, <1>2 DEF Backoff, ConversationTypeOK, remoteVars, matrixVars, threadVars, probeVars, listVars, historyVars
<1>4. QED BY <1>2, <1>3, RowAside DEF Backoff, historyVars

-----------------------------------------------------------------------------
(* Tumblr, and a crash. *)

LEMMA ArriveStep ==
  ASSUME IInv, Arrive
  PROVE  IInv'
<1>1. ConversationTypeOK /\ newest \in Nat /\ cut \in 0..newest
  BY SyncAssumption DEF IInv, ConversationTypeOK
<1>2. newest' = newest + 1 /\ newest' \in Messages
  BY <1>1, SyncAssumption DEF Arrive, Messages
<1>3. left' \in [Kinds -> Nat]
  BY <1>1, Spent DEF Arrive, ConversationTypeOK, Kinds
<1>4. UNCHANGED <<cut, blocked, renamed, Outside, historyVars>>
  BY DEF Arrive
<1>5. cut' \in 0..newest' /\ newest' \in 0..MaxMessages /\ newest' # cut'
  BY <1>1, <1>2, <1>4, SyncAssumption DEF Messages
<1>6. ConversationTypeOK'
  BY <1>1, <1>2, <1>3, <1>4, <1>5 DEF Arrive, ConversationTypeOK, Outside, matrixVars, tableVars, threadVars,
                                      probeVars, listVars, historyVars
<1>7. \A t \in Threads : ThreadInv(t)'
  <2> SUFFICES ASSUME NEW t \in Threads PROVE ThreadInv(t)'
    OBVIOUS
  <2>1. ThreadInv(t) /\ mem[t].head \in Nat
    BY <1>1, SyncAssumption DEF IInv, ConversationTypeOK, Memories
  <2>2. RowInv(t)' /\ GoneInv(t)'
    BY <1>4, <2>1 DEF ThreadInv, RowInv, GoneInv, Gone, Outside, matrixVars, tableVars, threadVars, historyVars
  <2>3. mem[t].head <= newest'
    BY <1>1, <1>2, <2>1 DEF ThreadInv, FetchInv
  <2>4. FetchInv(t)'
    BY <1>4, <2>1, <2>3 DEF ThreadInv, FetchInv, Undisturbed, Outside, matrixVars, tableVars, threadVars, historyVars
  <2>5. QED BY <2>2, <2>4 DEF ThreadInv
<1>8. \A h \in Hosts : UserInv(h)'
  BY <1>4 DEF IInv, UserInv, Outside, matrixVars, tableVars, threadVars, historyVars
<1>9. RoomInv'
  BY <1>4, <1>5 DEF IInv, RoomInv, RoomAccounted, Gone, Outside, matrixVars, tableVars, historyVars
<1>10. HeadInv'
  <2>1. head <= newest'
    BY <1>1, <1>2, SyncAssumption DEF IInv, HeadInv, ConversationTypeOK
  <2>2. QED
    BY <1>4, <2>1 DEF IInv, HeadInv, HeadConfirmed, Provided, Past, Undisturbed, Outside, matrixVars, tableVars, threadVars,
                      historyVars
<1>11. QED BY <1>6, <1>7, <1>8, <1>9, <1>10 DEF IInv

LEMMA EndConversationStep ==
  ASSUME IInv, EndConversation
  PROVE  IInv'
<1>1. ConversationTypeOK /\ newest \in Nat /\ cut \in Nat /\ head \in Nat /\ cut <= newest
  BY SyncAssumption DEF IInv, ConversationTypeOK
<1>2. cut' = newest /\ ended' = ended \cup rooms
      /\ UNCHANGED <<newest, blocked, renamed, evidence, Outside, owed, asked, released, unlisted, outdated>>
  BY DEF EndConversation
<1>3. left' \in [Kinds -> Nat]
  BY <1>1, Spent DEF EndConversation, ConversationTypeOK, Kinds
<1>4. ConversationTypeOK'
  BY <1>1, <1>2, <1>3 DEF ConversationTypeOK, Outside, matrixVars, tableVars, threadVars, probeVars, listVars
<1>5. \A t \in Threads : ThreadInv(t)' /\ mem[t].head <= cut'
  <2> SUFFICES ASSUME NEW t \in Threads PROVE ThreadInv(t)' /\ mem[t].head <= cut'
    OBVIOUS
  <2>1. ThreadInv(t) /\ mem[t].head \in Nat
    BY <1>1, SyncAssumption DEF IInv, ConversationTypeOK, Memories
  <2>2. RowInv(t)' /\ GoneInv(t)'
    BY <1>2, <2>1 DEF ThreadInv, RowInv, GoneInv, Gone, Outside, matrixVars, tableVars, threadVars
  <2>3. mem[t].head <= cut'
    BY <1>2, <2>1 DEF ThreadInv, FetchInv
  <2>4. \A m \in Messages : m > cut' => m > cut
    BY <1>1, <1>2, SyncAssumption DEF Messages
  <2>5. FetchInv(t)'
    BY <1>2, <2>1, <2>3, <2>4 DEF ThreadInv, FetchInv, Undisturbed, Outside, matrixVars, tableVars, threadVars
  <2>6. QED BY <2>2, <2>3, <2>5 DEF ThreadInv
<1>6. \A h \in Hosts : UserInv(h)'
  BY <1>2 DEF IInv, UserInv, Outside, matrixVars, tableVars, threadVars
<1>7. RoomInv'
  BY <1>2 DEF IInv, RoomInv, RoomAccounted, Gone, Outside, matrixVars, tableVars
<1>8. HeadInv'
  <2>1. head' <= cut'
    BY <1>2 DEF IInv, HeadInv, Outside, tableVars
  <2>2. \A m \in Messages : ~(m > cut' /\ m <= head')
    BY <1>1, <1>2, <2>1, SyncAssumption DEF Messages, Outside, tableVars
  <2>3. QED
    BY <1>2, <1>5, <2>1, <2>2 DEF HeadInv, HeadConfirmed, Provided, Past, Outside, threadVars
<1>9. QED BY <1>4, <1>5, <1>6, <1>7, <1>8 DEF IInv

LEMMA BlockStep ==
  ASSUME IInv, Block
  PROVE  IInv'
<1>1. ConversationTypeOK
  BY DEF IInv
<1>2. /\ blocked' = ~blocked
      /\ outdated' = outdated \cup {r \in Rooms : ~blocked /\ \E t \in Threads : mem[t].room = r /\ mem[t].check = "clear"}
      /\ UNCHANGED <<newest, cut, renamed, evidence, Outside, owed, ended, asked, released, unlisted>>
  BY DEF Block
<1>3. left' \in [Kinds -> Nat]
  BY <1>1, Spent DEF Block, ConversationTypeOK, Kinds
<1>4. ConversationTypeOK'
  BY <1>1, <1>2, <1>3 DEF ConversationTypeOK, Outside, matrixVars, tableVars, threadVars, probeVars, listVars
<1>5. outdated \subseteq outdated' /\ (Undisturbed' => Undisturbed)
  BY <1>2 DEF Undisturbed
<1>6. \A t \in Threads : ThreadInv(t)'
  <2> SUFFICES ASSUME NEW t \in Threads PROVE ThreadInv(t)'
    OBVIOUS
  <2>1. ThreadInv(t) /\ mem[t].room \in Rooms \cup {NoRoom}
    BY <1>1 DEF IInv, ConversationTypeOK, Memories
  <2>2. RowInv(t)'
    BY <1>2, <2>1 DEF ThreadInv, RowInv, Outside, matrixVars, tableVars, threadVars
  <2>3. mem[t].check = "clear" /\ blocked' => mem[t].room \in outdated' \cup {NoRoom}
    BY <1>2, <2>1
  <2>4. GoneInv(t)'
    BY <1>2, <1>5, <2>1, <2>3 DEF ThreadInv, GoneInv, Gone, Outside, matrixVars, threadVars
  <2>5. FetchInv(t)'
    BY <1>2, <1>5, <2>1 DEF ThreadInv, FetchInv, Outside, matrixVars, tableVars, threadVars
  <2>6. QED BY <2>2, <2>4, <2>5 DEF ThreadInv
<1>7. \A h \in Hosts : UserInv(h)'
  BY <1>2 DEF IInv, UserInv, Outside, matrixVars, tableVars, threadVars
<1>8. RoomInv'
  BY <1>2, <1>5 DEF IInv, RoomInv, RoomAccounted, Gone, Outside, matrixVars, tableVars
<1>9. HeadInv'
  BY <1>2, <1>5 DEF IInv, HeadInv, HeadConfirmed, Provided, Past, Outside, matrixVars, tableVars, threadVars
<1>10. QED BY <1>4, <1>6, <1>7, <1>8, <1>9 DEF IInv

LEMMA RenameStep ==
  ASSUME IInv, Rename
  PROVE  IInv'
<1>1. ConversationTypeOK
  BY DEF IInv
<1>2. left' \in [Kinds -> Nat]
  BY <1>1, Spent DEF Rename, ConversationTypeOK, Kinds
<1>3. ConversationTypeOK'
  BY <1>1, <1>2 DEF Rename, ConversationTypeOK, Outside, matrixVars, tableVars, threadVars, probeVars, listVars, historyVars
<1>4. QED BY <1>3, Aside DEF Rename, Outside

LEMMA CrashStep ==
  ASSUME IInv, NEW h \in Hosts, Crash(h)
  PROVE  IInv'
<1> DEFINE own == {t \in Threads : Host[t] = h}
<1>1. ConversationTypeOK /\ Idle \in Memories /\ Idle.head = 0 /\ Idle.check = "none"
  BY IdleMemory DEF IInv, Idle
<1>2. /\ pc' = [t \in Threads |-> IF t \in own THEN "idle" ELSE pc[t]]
      /\ mem' = [t \in Threads |-> IF t \in own THEN Idle ELSE mem[t]]
      /\ fence' = (IF fence \in own \cup {h} THEN NoThread ELSE fence)
      /\ Request(h, "idle", NoRoom)
      /\ observed' = [observed EXCEPT ![h] = 0] /\ probe' = [probe EXCEPT ![h] = 0]
      /\ walk' = [walk EXCEPT ![h] = "idle"] /\ listed' = listed \ {h}
      /\ job' = NotAgainst(job, h) /\ unlisted' = unlisted \ {h}
      /\ UNCHANGED <<remoteVars, evidence, matrixVars, head, owed, ended, asked, released, outdated>>
  BY DEF Crash
<1>3. left' \in [Kinds -> Nat]
  BY <1>1, Spent DEF Crash, ConversationTypeOK, Kinds
<1>4. pc' \in [Threads -> Labels] /\ mem' \in [Threads -> Memories]
  BY <1>1, <1>2 DEF ConversationTypeOK, Labels
<1>5. /\ user' \in [Hosts -> [pc : {"idle", "asked", "request", "portal", "room"}, room : Rooms \cup {NoRoom}]]
      /\ user'[h].pc = "idle" /\ \A g \in Hosts \ {h} : user'[g] = user[g]
  BY <1>1, <1>2, Requested
<1>6. observed' \in [Hosts -> 0..MaxMessages] /\ probe' \in [Hosts -> 0..MaxMessages]
  BY <1>1, <1>2, SyncAssumption DEF ConversationTypeOK
<1>7. job' \in Jobs /\ job'.room = job.room /\ ListsTyped'
  BY <1>1, <1>2, ListedRow DEF ConversationTypeOK, ListsTyped
<1>8. ConversationTypeOK'
  BY <1>1, <1>2, <1>3, <1>4, <1>5, <1>6, <1>7 DEF ConversationTypeOK, ListsTyped, Labels, remoteVars, matrixVars
<1>9. \A t \in Threads : ThreadInv(t)'
  <2>1. ASSUME NEW t \in Threads, t \notin own PROVE ThreadInv(t)'
    <3>1. Steady(t) /\ (fence = t => fence' = t)
      BY <1>2, <2>1, SyncAssumption DEF Steady
    <3>2. QED BY <1>2, <1>7, <3>1, OthersKept
  <2>2. ASSUME NEW t \in Threads, t \in own PROVE ThreadInv(t)'
    <3>1. pc'[t] = "idle" /\ mem'[t] = Idle
      BY <1>2, <2>2
    <3>2. RowInv(t)' /\ GoneInv(t)'
      BY <1>1, <3>1 DEF RowInv, GoneInv, FencedLabels, SyncLabels, DeleteLabels
    <3>3. FetchInv(t)'
      BY <1>1, <1>8, <3>1 DEF FetchInv, Delivering, ConversationTypeOK
    <3>4. QED BY <3>2, <3>3 DEF ThreadInv
  <2>3. QED BY <2>1, <2>2
<1>10. \A g \in Hosts : UserInv(g)'
  <2>1. UserInv(h)'
    BY <1>5 DEF UserInv
  <2>2. ASSUME NEW g \in Hosts, g # h PROVE UserInv(g)'
    <3>1. UserInv(g) /\ (fence = g => fence' = g)
      BY <1>2, <2>2, SyncAssumption DEF IInv
    <3>2. QED BY <1>2, <1>5, <1>7, <2>2, <3>1 DEF UserInv, matrixVars
  <2>3. QED BY <2>1, <2>2
<1>11. RoomInv'
  BY <1>2, <1>7 DEF IInv, RoomInv, RoomAccounted, Gone, remoteVars, matrixVars
<1>12. HeadInv'
  <2>1. \A t \in Threads : mem'[t].head <= cut \/ mem'[t] = mem[t]
    BY <1>1, <1>2 DEF ConversationTypeOK
  <2>2. (\E t \in Threads : pc'[t] = "detach") => \E t \in Threads : pc[t] = "detach"
    BY <1>2
  <2>3. Past => Past'
    BY <1>2, <2>1 DEF Past, remoteVars
  <2>4. QED
    BY <1>2, <1>7, <2>2, <2>3 DEF IInv, HeadInv, HeadConfirmed, Provided, Undisturbed, remoteVars, matrixVars
<1>13. QED BY <1>8, <1>9, <1>10, <1>11, <1>12 DEF IInv

-----------------------------------------------------------------------------
(* What counts against the row. *)

(* What a statement leaves of the walks that count against the row.         *)
LEMMA AbsentRow ==
  ASSUME NEW j \in Jobs, NEW room \in Rooms \cup {NoRoom}, NEW rev
  PROVE  /\ Put(j).absent = {} /\ PutLiveConversation(j).absent = {} /\ ScheduleDeleteRoom(j, room).absent = {}
         /\ Ensure(j).absent = j.absent /\ SetDeleteRoom(j, rev, room).absent = j.absent
         /\ Delete(j, rev).absent \subseteq j.absent /\ MarkRetry(j, rev).absent \subseteq j.absent
         /\ FallDue(j).absent = j.absent
<1>1. /\ Put(j).absent = {} /\ PutLiveConversation(j).absent = {} /\ ScheduleDeleteRoom(j, room).absent = {}
  BY DEF Put, PutLiveConversation, ScheduleDeleteRoom, Raise, Fresh
<1>2. Ensure(j).absent = j.absent /\ SetDeleteRoom(j, rev, room).absent = j.absent /\ FallDue(j).absent = j.absent
  BY DEF Ensure, SetDeleteRoom, FallDue, Fresh, NoJob, Jobs
<1>3. Delete(j, rev).absent \subseteq j.absent
  BY DEF Delete, NoJob
<1>4. MarkRetry(j, rev).absent \subseteq j.absent
  BY DEF MarkRetry, Jobs
<1>5. QED BY <1>1, <1>2, <1>3, <1>4

LEMMA AbsentListed ==
  ASSUME NEW j \in Jobs, NEW h
  PROVE  /\ Against(j, h).absent \subseteq j.absent \cup {h}
         /\ NotAgainst(j, h).absent = j.absent \ {h}
BY DEF Against, NotAgainst, Jobs

LEMMA SyncStepAbsent ==
  ASSUME ConversationTypeOK, AbsentInv, NEW t \in Threads, SyncStep(t)
  PROVE  AbsentInv'
<1>1. job \in Jobs /\ NoRoom \in Rooms \cup {NoRoom}
  BY DEF ConversationTypeOK
<1>2. job'.absent \subseteq job.absent
  <2>1. CASE Select(t) \/ SelectSend(t) \/ Take(t) \/ Prepare(t) \/ Deliver(t) \/ Relock(t) \/ Commit(t)
             \/ Abandon(t)
    BY <2>1 DEF Select, SelectSend, Take, Prepare, Deliver, Relock, Commit, Abandon, Fail, tableVars
  <2>2. CASE Fetch(t)
    BY <1>1, <2>2, AbsentRow DEF Fetch, Fail, tableVars
  <2>3. CASE Acknowledge(t)
    BY <1>1, <2>3, AbsentRow DEF Acknowledge
  <2>4. CASE Retry(t)
    BY <1>1, <2>4, AbsentRow DEF Retry
  <2>5. QED BY <2>1, <2>2, <2>3, <2>4 DEF SyncStep
<1>3. unlisted' = unlisted
  BY DEF SyncStep, Select, SelectSend, Take, Fetch, Prepare, Deliver, Relock, Commit, Acknowledge, Retry, Abandon,
         Fail, historyVars
<1>4. QED BY <1>2, <1>3 DEF AbsentInv

LEMMA SignOfLifeAbsent ==
  ASSUME ConversationTypeOK, SignOfLife
  PROVE  AbsentInv'
BY AbsentRow DEF SignOfLife, ConversationTypeOK, AbsentInv

LEMMA JudgeAbsent ==
  ASSUME ConversationTypeOK, AbsentInv, NEW t \in Threads, Judge(t)
  PROVE  AbsentInv'
<1>1. job \in Jobs /\ Ensure(job) \in Jobs /\ NoRoom \in Rooms \cup {NoRoom}
  BY EnsuredRow DEF ConversationTypeOK
<1>2. CASE job'.absent = job.absent /\ unlisted' = unlisted
  BY <1>2 DEF AbsentInv
<1>3. CASE SignOfLife
  BY <1>3, SignOfLifeAbsent
<1>4. CASE NotListed(t) /\ job' = Against(Ensure(job), Host[t])
  <2>1. job'.absent \subseteq job.absent \cup {Host[t]}
    <3>1. Against(Ensure(job), Host[t]).absent \subseteq Ensure(job).absent \cup {Host[t]}
      BY <1>1, AbsentListed
    <3>2. Ensure(job).absent = job.absent
      BY <1>1, AbsentRow
    <3>3. QED BY <1>4, <3>1, <3>2
  <2>2. QED BY <1>4, <2>1 DEF NotListed, AbsentInv
<1>5. CASE job' \in {job, Ensure(job)} /\ unlisted' = unlisted
  BY <1>1, <1>2, <1>5, AbsentRow
<1>6. QED BY <1>3, <1>4, <1>5 DEF Judge, JudgeListed, Fail, tableVars, historyVars

LEMMA DeleteStepAbsent ==
  ASSUME ConversationTypeOK, AbsentInv, NEW t \in Threads, DeleteStep(t)
  PROVE  AbsentInv'
<1>1. job \in Jobs /\ portal \in Rooms \cup {NoRoom}
  BY DEF ConversationTypeOK
<1>2. CASE job'.absent = job.absent /\ unlisted' = unlisted
  BY <1>2 DEF AbsentInv
<1>3. CASE Confirm(t)
  BY <1>2, <1>3, SignOfLifeAbsent DEF Confirm, Fail, tableVars, historyVars
<1>4. CASE Detach(t)
  BY <1>1, <1>2, <1>4, AbsentRow DEF Detach, Fail, tableVars, historyVars
<1>5. CASE ListBlocks(t) \/ Remove(t) \/ Cleanup(t) \/ Forget(t)
  BY <1>2, <1>5 DEF ListBlocks, Remove, Cleanup, Forget, Fail, tableVars, historyVars
<1>6. QED BY <1>3, <1>4, <1>5, JudgeAbsent DEF DeleteStep

LEMMA LoopAbsent ==
  ASSUME ConversationTypeOK, AbsentInv, NEW h \in Hosts, Loop(h) \/ ListForAnother(h) \/ Expire(h) \/ Crash(h)
  PROVE  AbsentInv'
<1>1. job \in Jobs /\ Put(job) \in Jobs /\ NoRoom \in Rooms \cup {NoRoom}
  BY JobRows DEF ConversationTypeOK
<1>2. CASE job'.absent = job.absent /\ unlisted' = unlisted
  BY <1>2 DEF AbsentInv
<1>3. CASE ListHeads(h) \/ ListNothing(h)
  BY <1>2, <1>3 DEF ListHeads, ListNothing, tableVars, historyVars
<1>4. CASE QueueChangedHead(h)
  BY <1>2, <1>4, SignOfLifeAbsent DEF QueueChangedHead
<1>5. ASSUME NEW found \in BOOLEAN, Remember(h, found) PROVE AbsentInv'
  <2>1. NotAgainst(job, h).absent = job.absent \ {h} /\ Against(job, h).absent \subseteq job.absent \cup {h}
    BY <1>1, AbsentListed
  <2>2. QED BY <1>5, <2>1 DEF Remember, AbsentInv
<1>6. CASE ListAll(h)
  BY <1>5, <1>6 DEF ListAll
<1>7. CASE ListForAnother(h)
  BY <1>5, <1>7 DEF ListForAnother, Listed
<1>8. CASE QueueMissing(h)
  <2>1. CASE job' = Against(Put(job), h) /\ unlisted' = unlisted \cup {h}
    <3>1. Put(job).absent = {} /\ Against(Put(job), h).absent \subseteq Put(job).absent \cup {h}
      BY <1>1, AbsentRow, AbsentListed
    <3>2. QED BY <2>1, <3>1 DEF AbsentInv
  <2>2. CASE job' = Put(job)
    BY <1>1, <2>2, AbsentRow DEF AbsentInv
  <2>3. QED BY <1>2, <1>8, <2>1, <2>2 DEF QueueMissing
<1>9. CASE Expire(h) \/ Crash(h)
  <2>1. job'.absent = job.absent \ {h}
    <3>1. NotAgainst(job, h).absent = job.absent \ {h}
      BY <1>1, AbsentListed
    <3>2. QED BY <1>9, <3>1 DEF Expire, Crash
  <2>2. unlisted' \in {unlisted, unlisted \ {h}}
    BY <1>9 DEF Expire, Crash, historyVars
  <2>3. QED BY <2>1, <2>2 DEF AbsentInv
<1>10. QED BY <1>3, <1>4, <1>6, <1>7, <1>8, <1>9 DEF Loop

LEMMA OutsideAbsent ==
  ASSUME ConversationTypeOK, AbsentInv, Environment \/ Backoff
  PROVE  AbsentInv'
<1>1. job \in Jobs
  BY DEF ConversationTypeOK
<1>2. CASE job'.absent = job.absent /\ unlisted' = unlisted
  BY <1>2 DEF AbsentInv
<1>3. CASE Arrive \/ EndConversation \/ Block \/ Rename \/ Scan
  BY <1>2, <1>3 DEF Arrive, EndConversation, Block, Rename, Scan, Outside, tableVars, historyVars
<1>4. ASSUME NEW m \in Messages, HandleEvidence(m) \/ LoseEvidence(m) PROVE AbsentInv'
  BY <1>2, <1>4, SignOfLifeAbsent DEF HandleEvidence, LoseEvidence, tableVars, historyVars
<1>5. CASE Backoff
  BY <1>1, <1>2, <1>5, AbsentRow, JobAssumption DEF Backoff, historyVars
<1>6. QED BY <1>3, <1>4, <1>5 DEF Environment

LEMMA ChatStepAbsent ==
  ASSUME ConversationTypeOK, AbsentInv, NEW h \in Hosts, ChatStep(h)
  PROVE  AbsentInv'
<1>1. job \in Jobs /\ user[h].room \in Rooms \cup {NoRoom}
  BY DEF ConversationTypeOK
<1>2. unlisted' = unlisted
  BY DEF ChatStep, DeleteChat, ScheduleDelete, RequestDelete, FrameworkPortal, FrameworkRoom, historyVars
<1>3. job'.absent \subseteq job.absent
  BY <1>1, AbsentRow
     DEF ChatStep, DeleteChat, ScheduleDelete, RequestDelete, FrameworkPortal, FrameworkRoom, tableVars
<1>4. QED BY <1>2, <1>3 DEF AbsentInv

LEMMA NextAbsent == ConversationTypeOK /\ AbsentInv /\ [Next]_vars => AbsentInv'
<1>1. CASE UNCHANGED vars
  BY <1>1 DEF AbsentInv, vars, tableVars, historyVars
<1>2. QED
  BY <1>1, SyncStepAbsent, DeleteStepAbsent, LoopAbsent, OutsideAbsent, ChatStepAbsent DEF Next

-----------------------------------------------------------------------------

LEMMA InitIInv == Init => IInv
<1> SUFFICES ASSUME Init PROVE IInv
  OBVIOUS
<1>1. Idle \in Memories /\ Idle.head = 0 /\ NoJob \in Jobs /\ NoJob.room = NoRoom
  BY IdleMemory, JobAssumption DEF Idle, NoJob, Jobs
<1>2. ConversationTypeOK
  <2>1. /\ newest \in 0..MaxMessages /\ cut \in 0..newest /\ head \in 0..MaxMessages /\ owed \in 0..MaxMessages
        /\ observed \in [Hosts -> 0..MaxMessages] /\ probe \in [Hosts -> 0..MaxMessages]
    BY SyncAssumption DEF Init
  <2>2. user \in [Hosts -> [pc : {"idle", "asked", "request", "portal", "room"}, room : Rooms \cup {NoRoom}]]
    BY DEF Init, NoRequest
  <2>3. /\ pc \in [Threads -> {"idle", "selected"} \cup SyncLabels \cup DeleteLabels]
        /\ mem \in [Threads -> Memories] /\ job \in Jobs
    BY <1>1 DEF Init
  <2>4. left \in [Kinds -> Nat]
    BY SyncAssumption DEF Init
  <2>5. walk \in [Hosts -> {"idle", "queue", "overtaken"}]
    BY DEF Init
  <2>6. QED BY <2>1, <2>2, <2>3, <2>4, <2>5 DEF Init, ConversationTypeOK
<1>3. \A t \in Threads : ThreadInv(t)
  BY <1>1, SyncAssumption DEF Init, ThreadInv, RowInv, GoneInv, FetchInv, FencedLabels, SyncLabels, DeleteLabels,
                              Delivering, Idle
<1>4. \A h \in Hosts : UserInv(h)
  BY DEF Init, UserInv, NoRequest
<1>5. RoomInv
  BY <1>1 DEF Init, RoomInv, RoomAccounted, Gone
<1>6. HeadInv
  BY <1>1, SyncAssumption DEF Init, HeadInv, HeadConfirmed, Provided, Past, Messages
<1>7. QED BY <1>2, <1>3, <1>4, <1>5, <1>6 DEF IInv

LEMMA NextIInv == IInv /\ AbsentInv /\ [Next]_vars => IInv'
<1> SUFFICES ASSUME IInv, AbsentInv, [Next]_vars PROVE IInv'
  OBVIOUS
<1>1. ASSUME Environment PROVE IInv'
  BY <1>1, ArriveStep, EndConversationStep, BlockStep, RenameStep, ScanStep, HandleEvidenceStep, LoseEvidenceStep
     DEF Environment
<1>2. ASSUME NEW h \in Hosts, Loop(h) PROVE IInv'
  BY <1>2, ListHeadsStep, QueueChangedHeadStep, ListAllStep, QueueMissingStep, ListNothingStep DEF Loop
<1>3. ASSUME NEW h \in Hosts, ChatStep(h) PROVE IInv'
  BY <1>3, DeleteChatStep, ScheduleDeleteStep, RequestDeleteStep, FrameworkPortalStep, FrameworkRoomStep
     DEF ChatStep
<1>4. ASSUME NEW t \in Threads, SyncStep(t) PROVE IInv'
  BY <1>4, SelectStep, SelectSendStep, TakeStep, FetchStep, PrepareStep, DeliverStep, RelockStep, CommitStep,
     AcknowledgeStep, RetryStep, AbandonStep DEF SyncStep
<1>5. ASSUME NEW t \in Threads, DeleteStep(t) PROVE IInv'
  BY <1>5, ConfirmStep, JudgeStep, ListBlocksStep, DetachStep, RemoveStep, CleanupStep, ForgetStep DEF DeleteStep
<1>6. CASE UNCHANGED vars
  <2>1. ConversationTypeOK'
    BY <1>6 DEF IInv, ConversationTypeOK, vars, remoteVars, matrixVars, tableVars, threadVars, probeVars, listVars, historyVars
  <2>2. QED BY <1>6, <2>1, Aside DEF vars, remoteVars
<1>7. QED
  BY <1>1, <1>2, <1>3, <1>4, <1>5, <1>6, BackoffStep, CrashStep, ListForAnotherStep, ExpireStep DEF Next

(* The parts of the inductive invariant hold in every reachable state.      *)
THEOREM Invariance == Spec => []IInv
<1>1. Init => AbsentInv
  BY DEF Init, NoJob, AbsentInv
<1>2. IInv => ConversationTypeOK
  BY DEF IInv
<1>3. QED BY <1>1, <1>2, InitIInv, NextIInv, NextAbsent, PTL DEF Spec

(* Every variable keeps its type.                                           *)
THEOREM TypeCorrect == Spec => []ConversationTypeOK
<1>1. IInv => ConversationTypeOK
  BY DEF IInv
<1>2. QED BY <1>1, Invariance, PTL

(* No room goes but for a conversation that is gone, a user who asked for   *)
(* it, a peer who was blocked after the block list was read, or a walk      *)
(* through the conversation list that missed the conversation or is out of  *)
(* date, with no sign of life since its answer was recorded                 *)
(* (handleRemoteConversationDelete, conversationStillListed).               *)
THEOREM LiveRoomsKept == Spec => []LiveRoomKept
<1>1. IInv => LiveRoomKept
  BY JobAssumption DEF IInv, ConversationTypeOK, RoomInv, Gone, LiveRoomKept
<1>2. QED BY <1>1, Invariance, PTL

(* Every room is the portal's or on the row that will remove it, or the     *)
(* row was made to name another one (deletedConversationRoomID).            *)
THEOREM RoomsAccounted == Spec => []RoomAccounted
<1>1. IInv => RoomAccounted
  BY DEF IInv, RoomInv
<1>2. QED BY <1>1, Invariance, PTL

(* The completed head never passes a message that is neither in Matrix, nor *)
(* left to the backfill of a room that the sync created, nor deleted        *)
(* (SetCompletedHead, fetchConversationForSync).                            *)
THEOREM HeadIsConfirmed == Spec => []HeadConfirmed
<1>1. IInv => HeadConfirmed
  BY DEF IInv, HeadInv
<1>2. QED BY <1>1, Invariance, PTL
=============================================================================
