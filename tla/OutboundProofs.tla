--------------------------- MODULE OutboundProofs ---------------------------
(***************************************************************************)
(* What Outbound promises for every number of processes, threads, sends    *)
(* and messages, and every bound on deliveries and faults.                 *)
(*                                                                         *)
(* The argument has five layers.  Typed: the tables keep the outbox's      *)
(* invariant (OutboundStoreProofs) and every thread has at hand what its   *)
(* next step needs.  Licensed and OnTumblr: a POST follows a               *)
(* compare-and-swap that only one thread ever wins, and Tumblr has only    *)
(* what was posted.  Judged: a status that is decided but not yet shown is *)
(* already true of the send and stays true, so a thread may show it after  *)
(* any pause.  Every step is then sorted into a few Kinds, and each kind   *)
(* keeps the three.  ReportInv: what a row and a status say agrees with    *)
(* what the room shows, and every step is Careful to keep it.              *)
(* QuarantineInv, at the end: what is mapped or at hand to be delivered is *)
(* no echo still waited for, and every step leaves its thread Guarded.     *)
(***************************************************************************)
EXTENDS Outbound, OutboundStoreProofs

(* What a thread must have at hand for its next step. *)
SendLabels    == HandlerLabels \cup BindLabels \cup NoticeLabels \cup FinishLabels
                 \cup {"purge", "cancel", "recover", "persist"}
MessageLabels == {"map", "unmap", "succeed", "complete", "persist"}
Returns       == {"leave", "baseline", "ack", "fetch", "unbound", "resolved", "claim"}

(* A thread at label l has the send, message, job or status that l works on. *)
Equipped(l, s, r) ==
  /\ l \in SendLabels => s \in Sends
  /\ l \in MessageLabels => r.rid \in Remotes
  /\ l \in {"settle", "relock"} => r.job \in Sends
  /\ l = "tell" => r.kind \in FailedStates
  /\ r.next \in Returns

(* The types of the threads' state. *)
ThreadsOK ==
  /\ pc \in [Threads -> Labels]
  /\ cur \in [Threads -> Sends \cup {NoSend}]
  /\ mem \in [Threads -> Memories]
  /\ \A t \in Threads : Equipped(pc[t], cur[t], mem[t])

(* A thread may go to l with the send s and the memory r. *)
Able(l, s, r) ==
  /\ l \in Labels /\ s \in Sends \cup {NoSend} /\ r \in Memories
  /\ Equipped(l, s, r)

(* A thread that goes on with what the label needs leaves every thread      *)
(* equipped, and touches no other thread.                                   *)
LEMMA WorkKeepsThreads ==
  ASSUME ThreadsOK, NEW t \in Threads, NEW l, NEW s, NEW r, Able(l, s, r), Work(t, l, s, r)
  PROVE  /\ ThreadsOK'
         /\ pc'[t] = l /\ cur'[t] = s /\ mem'[t] = r
         /\ \A u \in Threads \ {t} : pc'[u] = pc[u] /\ cur'[u] = cur[u] /\ mem'[u] = mem[u]
<1> USE DEF ThreadsOK, Able, Work
<1>1. /\ pc'[t] = l /\ cur'[t] = s /\ mem'[t] = r
      /\ \A u \in Threads \ {t} : pc'[u] = pc[u] /\ cur'[u] = cur[u] /\ mem'[u] = mem[u]
  OBVIOUS
<1>2. /\ pc' \in [Threads -> Labels]
      /\ cur' \in [Threads -> Sends \cup {NoSend}]
      /\ mem' \in [Threads -> Memories]
  OBVIOUS
<1>3. \A u \in Threads : Equipped(pc'[u], cur'[u], mem'[u])
  <2> TAKE u \in Threads
  <2>1. CASE u = t
    BY <1>1, <2>1
  <2>2. CASE u # t
    BY <1>1, <2>2
  <2> QED BY <2>1, <2>2
<1> QED BY <1>1, <1>2, <1>3 

(* Going on without new local state is going on with the old one. *)
LEMMA GotoIsWork ==
  ASSUME ThreadsOK, NEW t \in Threads, NEW l, Goto(t, l)
  PROVE  Work(t, l, cur[t], mem[t])
BY DEF Goto, Work, ThreadsOK

(* What the steps write into a thread's local state keeps its type: the     *)
(* view, the claims and the place to return to.                             *)
LEMMA MemoriesStay ==
  ASSUME NEW r \in Memories
  PROVE  /\ \A l \in Labels : [r EXCEPT !.next = l] \in Memories
         /\ \A V \in SUBSET Remotes, l \in Labels : [r EXCEPT !.view = V, !.next = l] \in Memories
         /\ \A V \in SUBSET Remotes : [r EXCEPT !.view = V] \in Memories
         /\ \A V \in SUBSET Remotes : [r EXCEPT !.view = V, !.tx = {}, !.plan = {}, !.held = {}] \in Memories
BY DEF Memories

(* ... and where a thread returns to is what was written last.              *)
LEMMA MemoriesReturn ==
  ASSUME NEW r \in Memories, NEW V, NEW l
  PROVE  /\ [r EXCEPT !.view = V].next = r.next
         /\ [r EXCEPT !.next = l].next = l
         /\ [r EXCEPT !.view = V, !.next = l].next = l
BY DEF Memories

(* The types of what the threads share. *)
WorldOK ==
  /\ fence \in [Procs -> Threads \cup {NoThread}]
  /\ session \in Threads \cup {NoThread}
  /\ pending \in [Procs -> SUBSET Sends]
  /\ inflight \subseteq Sends /\ refused \subseteq Sends
  /\ landed \subseteq Remotes
  /\ posts \in [Sends -> Nat]
  /\ told \subseteq Sends \X Verdicts
  /\ calls \in [Sends -> 0..MaxCalls]
  /\ faults \in 0..MaxFaults

Typed == IInv /\ ThreadsOK /\ WorldOK

(* Where a worker is about to report a success. *)
Settling == {"map", "succeed"}

(* A submitted send is recorded as not submitted only when Tumblr refused it. *)
NoNewRefusal ==
  \A s \in Sends : state'[s] = "not_submitted" => state[s] \in {"not_submitted", "prepared"} \/ s \in refused

(* A step of the tables that licenses no POST. *)
StoreQuiet == [StoreNext]_storeVars /\ submits' = submits /\ NoNewRefusal

(* What t says is what it decided to say, of the send it holds. *)
Reports(t) ==
  /\ told \subseteq told'
  /\ \A e \in told' \ told :
       \/ pc[t] = "tell" /\ e = <<cur[t], mem[t].kind>>
       \/ pc[t] = "succeed" /\ e = <<cur[t], "success">>

(* t decides on a status only when the send bears it out. *)
Enters(t) ==
  /\ pc'[t] = "reject" => cur'[t] \in refused
  /\ pc'[t] = "tell" => state[cur'[t]] = mem'[t].kind
  /\ pc'[t] \in Settling => \/ state'[cur'[t]] = "resolved"
                            \/ pc[t] \in Settling /\ cur'[t] = cur[t]

(* No other thread's state changes. *)
Alone(t) == \A u \in Threads \ {t} : pc'[u] = pc[u] /\ cur'[u] = cur[u] /\ mem'[u] = mem[u]

(* A step of t that neither licenses nor makes a POST. *)
Sound(t) ==
  /\ StoreQuiet /\ ThreadsOK' /\ WorldOK'
  /\ UNCHANGED netVars
  /\ Reports(t) /\ Enters(t) /\ Alone(t)
  /\ pc'[t] # "post"

(* The label l decides on no status that the send s does not bear out. *)
Welcome(t, l, s, r) ==
  /\ l \notin {"post", "tell"}
  /\ l = "reject" => s \in refused
  /\ l \in Settling => state'[s] = "resolved" \/ (pc[t] \in Settling /\ s = cur[t])

(* A step of a thread is sound when its label is one it may reach, its      *)
(* statement neither submits nor refuses, and it says nothing to the user.  *)
LEMMA StepIsSound ==
  ASSUME Typed, NEW t \in Threads, NEW l, NEW s, NEW r,
         Able(l, s, r), Welcome(t, l, s, r), Work(t, l, s, r),
         StoreQuiet, WorldOK', UNCHANGED netVars, told' = told
  PROVE  Sound(t)
<1>1. /\ ThreadsOK'
      /\ pc'[t] = l /\ cur'[t] = s /\ mem'[t] = r
      /\ Alone(t)
  BY WorkKeepsThreads DEF Typed, Alone
<1> QED BY <1>1 DEF Sound, Enters, Reports, Welcome

(* A step that leaves the tables alone neither submits nor refuses. *)
LEMMA StoreStays ==
  ASSUME UNCHANGED storeVars
  PROVE  StoreQuiet
BY DEF storeVars, rowVars, StoreQuiet, NoNewRefusal

(* The statements that neither submit nor refuse. *)
LEMMA StatementsAreQuiet ==
  ASSUME Typed, NEW s \in Sends
  PROVE  /\ \A c \in {Conv, NoConv} : Insert(s, c) => StoreQuiet
         /\ PrepareConversationBinding(s, Conv) => StoreQuiet
         /\ BindConversation(s, Conv) => StoreQuiet
         /\ MarkAwaitingEcho(s) => StoreQuiet
         /\ MarkUncertain(s) => StoreQuiet
         /\ \A m \in Remotes : ClaimRemoteMessage(s, m) => StoreQuiet
         /\ MarkUnconfirmed(s) => StoreQuiet
         /\ \A m \in Remotes : MarkResolvedUnconfirmed(s, m) => StoreQuiet
         /\ \A m \in Remotes : MarkCompleted(s, m) => StoreQuiet
         /\ ClaimPreparedNotSubmitted(s) => StoreQuiet
         /\ s \in refused /\ MarkSubmittingNotSubmitted(s) => StoreQuiet
         /\ \A k \in Threads : ClaimStatusDelivery(s, k) => StoreQuiet
         /\ \A k \in Threads : FinishStatusDelivery(s, k) => StoreQuiet
         /\ \A k \in Threads : ReleaseStatusDelivery(s, k) => StoreQuiet
         /\ ScheduleRetry(s) => StoreQuiet
         /\ DeletePrepared(s) => StoreQuiet
         /\ DeleteFailed(s) => StoreQuiet
<1> USE DEF Typed, IInv, StoreTypeOK, StoreQuiet, StoreNext, NoNewRefusal, Terminate, EraseRow, SetState
<1>1. Conv \in Convs /\ Threads = Tokens
  BY OutboundAssumption
<1>2. \A c \in {Conv, NoConv} : Insert(s, c) => StoreQuiet
  BY <1>1 DEF RowNext, Insert
<1>3. PrepareConversationBinding(s, Conv) => StoreQuiet
  BY <1>1 DEF RowNext, PrepareConversationBinding
<1>4. BindConversation(s, Conv) => StoreQuiet
  BY <1>1 DEF RowNext, BindConversation
<1>5. MarkAwaitingEcho(s) => StoreQuiet
  BY DEF RowNext, MarkAwaitingEcho
<1>6. MarkUncertain(s) => StoreQuiet
  BY DEF RowNext, MarkUncertain
<1>7. \A m \in Remotes : ClaimRemoteMessage(s, m) => StoreQuiet
  BY DEF RowNext, ClaimRemoteMessage
<1>8. MarkUnconfirmed(s) => StoreQuiet
  BY DEF RowNext, MarkUnconfirmed
<1>9. \A m \in Remotes : MarkResolvedUnconfirmed(s, m) => StoreQuiet
  BY DEF RowNext, MarkResolvedUnconfirmed
<1>10. \A m \in Remotes : MarkCompleted(s, m) => StoreQuiet
  BY DEF RowNext, MarkCompleted
<1>11. ClaimPreparedNotSubmitted(s) => StoreQuiet
  BY DEF RowNext, ClaimPreparedNotSubmitted, Submittable
<1>12. s \in refused /\ MarkSubmittingNotSubmitted(s) => StoreQuiet
  BY DEF RowNext, MarkSubmittingNotSubmitted
<1>13. \A k \in Threads : ClaimStatusDelivery(s, k) => StoreQuiet
  BY <1>1 DEF RowNext, ClaimStatusDelivery
<1>14. \A k \in Threads : FinishStatusDelivery(s, k) => StoreQuiet
  BY <1>1 DEF RowNext, FinishStatusDelivery
<1>15. \A k \in Threads : ReleaseStatusDelivery(s, k) => StoreQuiet
  BY <1>1 DEF RowNext, ReleaseStatusDelivery
<1>16. ScheduleRetry(s) => StoreQuiet
  BY DEF RowNext, ScheduleRetry
<1>17. DeletePrepared(s) => StoreQuiet
  BY DEF RowNext, DeletePrepared
<1>18. DeleteFailed(s) => StoreQuiet
  BY DEF RowNext, DeleteFailed
<1> HIDE DEF StoreQuiet
<1> QED BY <1>2, <1>3, <1>4, <1>5, <1>6, <1>7, <1>8, <1>9, <1>10, <1>11, <1>12, <1>13, <1>14, <1>15,
           <1>16, <1>17, <1>18

(* Where a thread may go on without new local state. *)
FreeLabels    == {"idle", "leave", "fetch", "unbound", "resolved", "match", "claim", "broken", "handover", "deliver"}
CarriedLabels == {"load", "baseline", "submit", "drop", "answer", "ack", "unsure", "claim_response",
                  "stage", "move", "bind", "notify", "finish_notice", "release_notice", "postpone",
                  "park", "defer", "purge", "cancel", "recover"}
Follows(t, l) == \/ l \in FreeLabels
                 \/ pc[t] \in SendLabels /\ l \in CarriedLabels
                 \/ pc[t] \in MessageLabels /\ l \in {"unmap", "complete"}
                 \/ pc[t] = "map" /\ l = "succeed"

(* The labels that need nothing new can be reached from wherever the code   *)
(* reaches them.                                                            *)
LEMMA FollowsIsAble ==
  ASSUME Typed, NEW t \in Threads, NEW l, Follows(t, l)
  PROVE  Able(l, cur[t], mem[t]) /\ Welcome(t, l, cur[t], mem[t])
<1> USE DEF Typed, ThreadsOK, Able, Equipped, Welcome, Follows, Settling, FreeLabels, CarriedLabels, Labels, SendLabels,
            MessageLabels, HandlerLabels, BindLabels, NoticeLabels, FinishLabels, SyncLabels, WorkerLabels
<1>1. CASE l \in FreeLabels
  BY <1>1
<1>2. CASE pc[t] \in SendLabels /\ l \in CarriedLabels
  BY <1>2
<1>3. CASE pc[t] \in MessageLabels /\ l \in {"unmap", "complete"}
  BY <1>3
<1>4. CASE pc[t] = "map" /\ l = "succeed"
  BY <1>4
<1> QED BY <1>1, <1>2, <1>3, <1>4

(* A step that only decides where to go on. *)
LEMMA GoOn ==
  ASSUME Typed, NEW t \in Threads, NEW l, Follows(t, l), Goto(t, l), StoreQuiet, UNCHANGED World,
         UNCHANGED pending \/ \E s \in Sends : DropPending(t, s)
  PROVE  Sound(t)
<1>1. WorldOK' /\ UNCHANGED netVars /\ told' = told
  BY DEF Typed, WorldOK, World, lockVars, netVars, boundVars, DropPending
<1> QED BY <1>1, FollowsIsAble, GotoIsWork, StepIsSound DEF Typed

(* A call that fails. *)
LEMMA FailingIsSound ==
  ASSUME Typed, NEW t \in Threads, NEW l, Follows(t, l), Fail(t, l)
  PROVE  Sound(t)
<1>1. WorldOK' /\ UNCHANGED netVars /\ told' = told /\ UNCHANGED storeVars /\ Goto(t, l)
  BY OutboundAssumption DEF Typed, WorldOK, Fail, Spend, lockVars, netVars
<1> QED BY <1>1, FollowsIsAble, GotoIsWork, StepIsSound, StoreStays DEF Typed

(* A local decision of a thread is sound. *)
LEMMA DecidingIsSound ==
  ASSUME Typed, NEW t \in Threads, NEW l, Follows(t, l), Decide(t, l)
  PROVE  Sound(t)
BY GoOn, StoreStays DEF Decide, Statement

(* A step made of one statement and a jump is sound. *)
LEMMA StatingIsSound ==
  ASSUME Typed, NEW t \in Threads, NEW l, Follows(t, l), StoreQuiet, Statement(t, l)
  PROVE  Sound(t)
BY GoOn DEF Statement

(* A step that changes the thread's local state, but nothing outside the    *)
(* tables, is sound.                                                        *)
LEMMA WorkingIsSound ==
  ASSUME Typed, NEW t \in Threads, NEW l \in Labels, NEW s \in Sends \cup {NoSend}, NEW r \in Memories,
         Equipped(l, s, r), Welcome(t, l, s, r), Work(t, l, s, r), StoreQuiet, UNCHANGED <<World, pending>>
  PROVE  Sound(t)
<1>1. WorldOK' /\ UNCHANGED netVars /\ told' = told
  BY DEF Typed, WorldOK, World, lockVars, netVars, boundVars
<1> QED BY <1>1, StepIsSound DEF Able

(* Where a thread works on a send, a message or a job, it has one: no       *)
(* statement of the code runs with an empty row or message ID.              *)
LEMMA SendAtHand ==
  ASSUME Typed, NEW t \in Threads
  PROVE  /\ pc[t] \in SendLabels => cur[t] \in Sends
         /\ pc[t] \in MessageLabels => mem[t].rid \in Remotes
         /\ pc[t] \in {"settle", "relock"} => mem[t].job \in Sends
         /\ pc[t] = "tell" => mem[t].kind \in FailedStates
         /\ mem[t].next \in Returns /\ mem[t] \in Memories
BY DEF Typed, ThreadsOK, Equipped

(* Yielding to the process that took the row is sound                       *)
(* (pendingAfterPreparedOwnershipLoss).                                     *)
LEMMA YieldIsSound ==
  ASSUME Typed, NEW t \in Threads, cur[t] \in Sends, Yield(t)
  PROVE  Sound(t)
BY GoOn, StoreStays DEF Yield, Follows, FreeLabels

(* Loading or inserting the row of an event is sound                        *)
(* (sendMatrixMessageToTumblr).                                             *)
LEMMA LoadIsSound ==
  ASSUME Typed, NEW t \in Threads, Load(t)
  PROVE  Sound(t)
<1> DEFINE s == cur[t]
<1>1. s \in Sends /\ pc[t] = "load" /\ mem[t] \in Memories
  BY SendAtHand DEF Load, At, SendLabels, HandlerLabels
<1>2. UNCHANGED pending \/ DropPending(t, s)
  BY DEF Load, DropPending
<1>3. WorldOK' /\ UNCHANGED netVars /\ told' = told
  BY <1>1, <1>2 DEF Load, Typed, WorldOK, World, lockVars, netVars, boundVars, DropPending
<1>4. "baseline" \in Labels /\ "stage" \in Labels
  BY DEF Labels, HandlerLabels, BindLabels
<1>5. ASSUME NEW l \in {"stage", "baseline"}, Work(t, l, s, [mem[t] EXCEPT !.next = "baseline"]), StoreQuiet
      PROVE  Sound(t)
  <2>1. [mem[t] EXCEPT !.next = "baseline"] \in Memories
    BY <1>1, <1>4, MemoriesStay
  <2>2. [mem[t] EXCEPT !.next = "baseline"].next = "baseline"
    BY <1>1, MemoriesReturn
  <2>3. Able(l, s, [mem[t] EXCEPT !.next = "baseline"])
    BY <1>1, <1>4, <2>1, <2>2 DEF Able, Equipped, MessageLabels, Returns
  <2>4. Welcome(t, l, s, [mem[t] EXCEPT !.next = "baseline"])
    BY DEF Welcome, Settling
  <2> QED BY <1>3, <1>5, <2>3, <2>4, StepIsSound
<1>6. CASE \E c \in {Conv, NoConv} : /\ Insert(s, c)
                                     /\ \E l \in {"stage", "baseline"} :
                                          Work(t, l, s, [mem[t] EXCEPT !.next = "baseline"])
  <2>1. StoreQuiet
    BY <1>1, <1>6, StatementsAreQuiet DEF Typed
  <2> QED BY <1>5, <1>6, <2>1
<1>7. CASE UNCHANGED storeVars /\ \E l \in {"stage", "baseline"} : Work(t, l, s, [mem[t] EXCEPT !.next = "baseline"])
  BY <1>5, <1>7, StoreStays
<1>8. CASE UNCHANGED storeVars /\ Goto(t, "leave")
  BY <1>1, <1>2, <1>8, GoOn, StoreStays DEF Load, Follows, FreeLabels
<1> QED BY <1>6, <1>7, <1>8 DEF Load

(* Reading the baseline of a send is sound (sendMatrixMessageToTumblr). *)
LEMMA BaselineIsSound ==
  ASSUME Typed, NEW t \in Threads, Baseline(t)
  PROVE  Sound(t)
<1> DEFINE s == cur[t]
<1>1. s \in Sends /\ pc[t] = "baseline" /\ mem[t] \in Memories /\ mem[t].next \in Returns
  BY SendAtHand DEF Baseline, At, SendLabels, HandlerLabels
<1>2. ASSUME NEW V \in {landed, {}}, Work(t, "submit", s, [mem[t] EXCEPT !.view = V]),
             UNCHANGED <<storeVars, World, pending>>
      PROVE  Sound(t)
  <2>1. V \in SUBSET Remotes
    BY DEF Typed, WorldOK
  <2>2. [mem[t] EXCEPT !.view = V] \in Memories /\ [mem[t] EXCEPT !.view = V].next = mem[t].next
    BY <1>1, <2>1, MemoriesStay, MemoriesReturn
  <2>3. Equipped("submit", s, [mem[t] EXCEPT !.view = V]) /\ "submit" \in Labels
    BY <1>1, <2>2 DEF Equipped, MessageLabels, Labels, HandlerLabels
  <2>4. Welcome(t, "submit", s, [mem[t] EXCEPT !.view = V]) /\ StoreQuiet /\ UNCHANGED <<World, pending>>
    BY <1>2, StoreStays DEF Welcome, Settling
  <2> QED BY <1>1, <1>2, <2>2, <2>3, <2>4, WorkingIsSound
<1>3. CASE Yield(t)
  BY <1>1, <1>3, YieldIsSound
<1>4. CASE Fail(t, "drop")
  BY <1>1, <1>4, FailingIsSound DEF Follows, SendLabels, HandlerLabels, CarriedLabels
<1>5. (IF conversation[s] = Conv THEN landed ELSE {}) \in {landed, {}}
  OBVIOUS
<1> QED BY <1>2, <1>3, <1>4, <1>5 DEF Baseline

(* Deleting a prepared row after an error is sound                          *)
(* (deletePreparedOutbound).                                                *)
LEMMA DropIsSound ==
  ASSUME Typed, NEW t \in Threads, Drop(t)
  PROVE  Sound(t)
<1> DEFINE s == cur[t]
<1>1. s \in Sends /\ pc[t] = "drop"
  BY SendAtHand DEF Drop, At, SendLabels, HandlerLabels
<1>2. Follows(t, "leave")
  BY DEF Follows, FreeLabels
<1>3. CASE DeletePrepared(s) /\ DropPending(t, s) /\ Goto(t, "leave") /\ UNCHANGED World
  BY <1>1, <1>2, <1>3, GoOn, StatementsAreQuiet
<1>4. CASE Yield(t)
  BY <1>1, <1>4, YieldIsSound
<1>5. CASE Fail(t, "leave")
  BY <1>2, <1>5, FailingIsSound
<1> QED BY <1>3, <1>4, <1>5 DEF Drop

(* Receiving the answer of a POST is sound: only a refusal leads to the     *)
(* label that records one (sendMatrixMessageToTumblr).                      *)
LEMMA AnswerIsSound ==
  ASSUME Typed, NEW t \in Threads, Answer(t)
  PROVE  Sound(t)
<1> DEFINE s == cur[t]
<1>1. s \in Sends /\ pc[t] = "answer" /\ mem[t] \in Memories
  BY SendAtHand DEF Answer, At, SendLabels, HandlerLabels
<1>2. ASSUME Own[s] \in landed, NEW V \in {{}, {Own[s]}, landed}, NEW l \in {"stage", "ack"},
             Work(t, l, s, [mem[t] EXCEPT !.view = V, !.next = "ack"]),
             UNCHANGED <<storeVars, World, pending>>
      PROVE  Sound(t)
  <2>1. V \in SUBSET Remotes /\ "ack" \in Labels
    BY <1>2 DEF Typed, WorldOK, Labels, HandlerLabels
  <2>2. /\ [mem[t] EXCEPT !.view = V, !.next = "ack"] \in Memories
        /\ [mem[t] EXCEPT !.view = V, !.next = "ack"].next = "ack"
    BY <1>1, <2>1, MemoriesStay, MemoriesReturn
  <2> QED BY <1>1, <1>2, <2>2, WorkingIsSound, StoreStays
          DEF Equipped, Welcome, Settling, MessageLabels, Labels, HandlerLabels, BindLabels, Returns
<1>3. CASE Goto(t, "unsure") /\ UNCHANGED <<storeVars, World, pending>>
  BY <1>1, <1>3, GoOn, StoreStays DEF Follows, SendLabels, HandlerLabels, CarriedLabels
<1>4. CASE Definite(s) /\ Goto(t, "reject") /\ UNCHANGED <<storeVars, World, pending>>
  <2>1. Work(t, "reject", s, mem[t])
    BY <1>4, GotoIsWork DEF Typed
  <2> QED BY <1>1, <1>4, <2>1, SendAtHand, WorkingIsSound, StoreStays
          DEF Definite, Equipped, Welcome, Settling, MessageLabels, Labels, HandlerLabels
<1> QED BY <1>2, <1>3, <1>4 DEF Answer

(* Recording that Tumblr accepted a send is sound (MarkAwaitingEcho). *)
LEMMA AckIsSound ==
  ASSUME Typed, NEW t \in Threads, Ack(t)
  PROVE  Sound(t)
<1>1. cur[t] \in Sends /\ pc[t] = "ack"
  BY SendAtHand DEF Ack, At, SendLabels, HandlerLabels
<1>2. Follows(t, "claim_response") /\ Follows(t, "unsure")
  BY <1>1 DEF Follows, SendLabels, HandlerLabels, CarriedLabels
<1>3. MarkAwaitingEcho(cur[t]) => StoreQuiet
  BY <1>1, StatementsAreQuiet
<1> QED BY <1>2, <1>3, StatingIsSound, DecidingIsSound, FailingIsSound DEF Ack

(* Keeping a send whose outcome is unknown is sound                         *)
(* (keepOutboundPendingAfterSubmit).                                        *)
LEMMA UnsureIsSound ==
  ASSUME Typed, NEW t \in Threads, Unsure(t)
  PROVE  Sound(t)
<1>1. cur[t] \in Sends /\ pc[t] = "unsure"
  BY SendAtHand DEF Unsure, At, SendLabels, HandlerLabels
<1>2. Follows(t, "leave")
  BY DEF Follows, FreeLabels
<1>3. MarkUncertain(cur[t]) => StoreQuiet
  BY <1>1, StatementsAreQuiet
<1> QED BY <1>2, <1>3, StatingIsSound, DecidingIsSound, FailingIsSound DEF Unsure

(* Recording a refusal is sound, because Tumblr did refuse                  *)
(* (MarkSubmittingNotSubmitted).                                            *)
LEMMA RejectIsSound ==
  ASSUME Typed, NEW t \in Threads, cur[t] \in refused, Reject(t)
  PROVE  Sound(t)
<1>1. cur[t] \in Sends /\ pc[t] = "reject"
  BY SendAtHand DEF Reject, At, SendLabels, HandlerLabels
<1>2. Follows(t, "leave") /\ Follows(t, "notify")
  BY <1>1 DEF Follows, FreeLabels, SendLabels, HandlerLabels, CarriedLabels
<1>3. MarkSubmittingNotSubmitted(cur[t]) => StoreQuiet
  BY <1>1, StatementsAreQuiet
<1> QED BY <1>1, <1>2, <1>3, StatingIsSound, YieldIsSound, FailingIsSound DEF Reject

(* Claiming the message that the response shows is sound                    *)
(* (claimOutboundSendResponseLocked).                                                 *)
LEMMA ClaimResponseIsSound ==
  ASSUME Typed, NEW t \in Threads, ClaimResponse(t)
  PROVE  Sound(t)
<1>1. cur[t] \in Sends /\ pc[t] = "claim_response" /\ mem[t].view \subseteq Remotes
  BY SendAtHand DEF ClaimResponse, At, SendLabels, HandlerLabels, Memories
<1>2. Follows(t, "leave")
  BY DEF Follows, FreeLabels
<1>3. \A m \in Remotes : ClaimRemoteMessage(cur[t], m) => StoreQuiet
  BY <1>1, StatementsAreQuiet
<1> QED BY <1>1, <1>2, <1>3, StatingIsSound, DecidingIsSound, FailingIsSound DEF ClaimResponse

-----------------------------------------------------------------------------
(* Steps of the recovery worker, and of what it shares with the others. *)

(* A binding that fails goes on where it may: to its caller, or to the      *)
(* retry of the row.                                                        *)
LEMMA BindFailedFollows ==
  ASSUME Typed, NEW t \in Threads, pc[t] \in SendLabels
  PROVE  Follows(t, BindFailed(t)) /\ Follows(t, mem[t].next) /\ Follows(t, "park")
BY SendAtHand DEF BindFailed, Follows, FreeLabels, CarriedLabels, Returns

(* Tying a row to the conversation before the room moves is sound           *)
(* (PrepareConversationBinding).                                            *)
LEMMA StageIsSound ==
  ASSUME Typed, NEW t \in Threads, Stage(t)
  PROVE  Sound(t)
<1>1. cur[t] \in Sends /\ pc[t] = "stage" /\ pc[t] \in SendLabels
  BY SendAtHand DEF Stage, At, SendLabels, BindLabels
<1>2. Follows(t, "move") /\ Follows(t, BindFailed(t))
  BY <1>1, BindFailedFollows DEF Follows, CarriedLabels
<1>3. PrepareConversationBinding(cur[t], Conv) => StoreQuiet
  BY <1>1, StatementsAreQuiet
<1> QED BY <1>2, <1>3, StatingIsSound, DecidingIsSound, FailingIsSound DEF Stage

(* Moving or losing a room neither submits nor refuses a send. *)
LEMMA RoomsAreQuiet ==
  ASSUME Typed, NEW r \in Rooms
  PROVE  /\ MoveRoom(r, Conv) => StoreQuiet
         /\ LoseRoom(r) => StoreQuiet
<1>1. Conv \in Convs
  BY OutboundAssumption
<1> QED BY <1>1 DEF StoreQuiet, NoNewRefusal, StoreNext, TableNext, MoveRoom, LoseRoom, rowVars

(* Moving a draft's room to the conversation is sound                       *)
(* (saveOutboundConversationPortal).                                              *)
LEMMA MoveIsSound ==
  ASSUME Typed, NEW t \in Threads, Move(t)
  PROVE  Sound(t)
<1> DEFINE s == cur[t]
           r == RoomOf[s]
           l == IF mem[t].next = "baseline" THEN "drop" ELSE "park"
<1>1. s \in Sends /\ pc[t] = "move" /\ pc[t] \in SendLabels /\ r \in Rooms
  BY SendAtHand, StoreAssumption DEF Move, At, SendLabels, BindLabels
<1>2. Follows(t, "bind") /\ Follows(t, BindFailed(t)) /\ Follows(t, l)
  BY <1>1, BindFailedFollows DEF Follows, CarriedLabels
<1>3. CASE Decide(t, BindFailed(t)) \/ Decide(t, "bind") \/ Fail(t, BindFailed(t))
  BY <1>2, <1>3, DecidingIsSound, FailingIsSound
<1>4. CASE MoveRoom(r, Conv) /\ Statement(t, "bind")
  BY <1>1, <1>2, <1>4, RoomsAreQuiet, StatingIsSound
<1>5. CASE /\ LoseRoom(r) /\ Goto(t, l) /\ (DropPending(t, s) \/ UNCHANGED pending)
           /\ Spend \/ UNCHANGED faults
           /\ UNCHANGED <<lockVars, netVars, told, calls>>
  <2>1. StoreQuiet
    BY <1>1, <1>5, RoomsAreQuiet
  <2>2. WorldOK' /\ UNCHANGED netVars /\ told' = told
    BY <1>1, <1>5, OutboundAssumption DEF Typed, WorldOK, Spend, lockVars, netVars, DropPending
  <2> QED BY <1>2, <1>5, <2>1, <2>2, FollowsIsAble, GotoIsWork, StepIsSound DEF Typed
<1>6. CASE /\ Goto(t, l) /\ (DropPending(t, s) \/ UNCHANGED pending)
           /\ UNCHANGED <<storeVars, World>>
  BY <1>1, <1>2, <1>6, GoOn, StoreStays
<1> QED BY <1>3, <1>4, <1>5, <1>6 DEF Move

(* Tying a row to the conversation is sound (BindConversation). *)
LEMMA BindIsSound ==
  ASSUME Typed, NEW t \in Threads, Bind(t)
  PROVE  Sound(t)
<1>1. cur[t] \in Sends /\ pc[t] = "bind" /\ pc[t] \in SendLabels
  BY SendAtHand DEF Bind, At, SendLabels, BindLabels
<1>2. Follows(t, mem[t].next) /\ Follows(t, BindFailed(t))
  BY <1>1, BindFailedFollows
<1>3. BindConversation(cur[t], Conv) => StoreQuiet
  BY <1>1, StatementsAreQuiet
<1> QED BY <1>2, <1>3, StatingIsSound, DecidingIsSound, FailingIsSound DEF Bind

(* A notice goes on where it may: to the fence's release or to the next     *)
(* send.                                                                    *)
LEMMA AfterNoticeFollows ==
  ASSUME Typed, NEW t \in Threads
  PROVE  Follows(t, AfterNotice(t)) /\ Follows(t, GiveUp(t)) /\ Follows(t, "leave")
BY DEF AfterNotice, GiveUp, Follows, FreeLabels

(* Claiming the notice of a failed send is sound: the status the thread     *)
(* will report is the row's state (ClaimStatusDelivery).                    *)
LEMMA NotifyClaimIsSound ==
  ASSUME Typed, NEW t \in Threads, NotifyClaim(t)
  PROVE  Sound(t)
<1> DEFINE s == cur[t]
           r == [mem[t] EXCEPT !.kind = state[s]]
<1>1. s \in Sends /\ pc[t] = "notify" /\ mem[t] \in Memories /\ mem[t].next \in Returns
  BY SendAtHand DEF NotifyClaim, At, SendLabels, NoticeLabels
<1>2. Follows(t, "postpone")
  BY <1>1 DEF Follows, CarriedLabels, SendLabels, NoticeLabels
<1>3. CASE ClaimStatusDelivery(s, t) /\ Work(t, "tell", s, r) /\ UNCHANGED <<World, pending>>
  <2>1. state[s] \in FailedStates /\ state[s] \in States
    BY <1>1, <1>3 DEF ClaimStatusDelivery, Claimable, Typed, IInv, StoreTypeOK
  <2>2. r \in Memories /\ r.kind = state[s] /\ r.next = mem[t].next
    BY <1>1, <2>1 DEF Memories
  <2>3. Able("tell", s, r)
    BY <1>1, <2>1, <2>2 DEF Able, Equipped, MessageLabels, Labels, NoticeLabels
  <2>4. /\ ThreadsOK'
        /\ pc'[t] = "tell" /\ cur'[t] = s /\ mem'[t] = r
        /\ Alone(t)
    BY <1>3, <2>3, WorkKeepsThreads DEF Typed, Alone
  <2>5. WorldOK' /\ UNCHANGED netVars /\ told' = told
    BY <1>3 DEF Typed, WorldOK, World, lockVars, netVars, boundVars
  <2>6. StoreQuiet
    BY <1>1, <1>3, StatementsAreQuiet
  <2>7. Reports(t) /\ Enters(t)
    BY <2>2, <2>4, <2>5 DEF Reports, Enters, Settling
  <2> QED BY <2>4, <2>5, <2>6, <2>7 DEF Sound
<1>4. CASE DropPending(t, s) /\ Goto(t, AfterNotice(t)) /\ UNCHANGED <<storeVars, World>>
  BY <1>1, <1>4, AfterNoticeFollows, GoOn, StoreStays
<1>5. CASE Fail(t, "postpone")
  BY <1>2, <1>5, FailingIsSound
<1> QED BY <1>3, <1>4, <1>5 DEF NotifyClaim

(* The two steps that report to the user. *)
LEMMA ReportIsSound ==
  ASSUME Typed, NEW t \in Threads, NEW l, Follows(t, l), NEW k \in Verdicts, cur[t] \in Sends,
         (pc[t] = "tell" /\ k = mem[t].kind) \/ (pc[t] = "succeed" /\ k = "success"),
         told' \in {told, told \cup {<<cur[t], k>>}}, Goto(t, l),
         Spend \/ UNCHANGED faults,
         UNCHANGED <<storeVars, lockVars, pending, netVars, calls>>
  PROVE  Sound(t)
<1>1. /\ ThreadsOK'
      /\ pc'[t] = l /\ cur'[t] = cur[t] /\ mem'[t] = mem[t]
      /\ Alone(t)
  BY FollowsIsAble, GotoIsWork, WorkKeepsThreads DEF Typed, Alone
<1>2. WorldOK' /\ UNCHANGED netVars
  BY OutboundAssumption DEF Typed, WorldOK, Spend, lockVars, netVars
<1>3. Enters(t) /\ pc'[t] # "post"
  BY <1>1, FollowsIsAble DEF Enters, Welcome
<1>4. Reports(t)
  <2>1. \A e \in told' \ told : e = <<cur[t], k>>
    OBVIOUS
  <2>2. CASE pc[t] = "tell" /\ k = mem[t].kind
    BY <2>1, <2>2 DEF Reports
  <2>3. CASE pc[t] = "succeed" /\ k = "success"
    BY <2>1, <2>3 DEF Reports
  <2> QED BY <2>2, <2>3
<1> QED BY <1>1, <1>2, <1>3, <1>4, StoreStays DEF Sound

(* Reporting a failure is sound (notifyOutboundStatusAtLeastOnce). *)
LEMMA TellIsSound ==
  ASSUME Typed, NEW t \in Threads, Tell(t)
  PROVE  Sound(t)
<1>1. cur[t] \in Sends /\ pc[t] = "tell" /\ mem[t].kind \in Verdicts
  BY SendAtHand DEF Tell, At, SendLabels, NoticeLabels, Verdicts
<1>2. Follows(t, "finish_notice") /\ Follows(t, "release_notice")
  BY <1>1 DEF Follows, CarriedLabels, SendLabels, NoticeLabels
<1>3. PICK l \in {"finish_notice", "release_notice"} :
        /\ told' \in {told, told \cup {<<cur[t], mem[t].kind>>}}
        /\ Goto(t, l) /\ (Spend \/ UNCHANGED faults)
        /\ UNCHANGED <<storeVars, lockVars, pending, netVars, calls>>
  BY DEF Tell
<1>4. Follows(t, l)
  BY <1>2, <1>3
<1> QED BY <1>1, <1>3, <1>4, ReportIsSound

(* Recording that the notice was delivered is sound (FinishStatusDelivery). *)
LEMMA FinishNoticeIsSound ==
  ASSUME Typed, NEW t \in Threads, FinishNotice(t)
  PROVE  Sound(t)
<1>1. cur[t] \in Sends /\ pc[t] = "finish_notice"
  BY SendAtHand DEF FinishNotice, At, SendLabels, NoticeLabels
<1>2. Follows(t, "postpone")
  BY <1>1 DEF Follows, CarriedLabels, SendLabels, NoticeLabels
<1>3. FinishStatusDelivery(cur[t], t) => StoreQuiet
  BY <1>1, StatementsAreQuiet
<1> QED BY <1>1, <1>2, <1>3, AfterNoticeFollows, GoOn, DecidingIsSound, FailingIsSound, StoreStays DEF FinishNotice

(* Giving a claimed notice back is sound (ReleaseStatusDelivery). *)
LEMMA ReleaseNoticeIsSound ==
  ASSUME Typed, NEW t \in Threads, ReleaseNotice(t)
  PROVE  Sound(t)
<1>1. cur[t] \in Sends /\ pc[t] = "release_notice"
  BY SendAtHand DEF ReleaseNotice, At, SendLabels, NoticeLabels
<1>2. Follows(t, "postpone")
  BY <1>1 DEF Follows, CarriedLabels, SendLabels, NoticeLabels
<1>3. ReleaseStatusDelivery(cur[t], t) => StoreQuiet
  BY <1>1, StatementsAreQuiet
<1> QED BY <1>2, <1>3, StatingIsSound, DecidingIsSound, FailingIsSound DEF ReleaseNotice

(* Postponing a notice is sound (ScheduleRetry). *)
LEMMA PostponeIsSound ==
  ASSUME Typed, NEW t \in Threads, Postpone(t)
  PROVE  Sound(t)
<1>1. cur[t] \in Sends
  BY SendAtHand DEF Postpone, At, SendLabels, NoticeLabels
<1>2. ScheduleRetry(cur[t]) => StoreQuiet
  BY <1>1, StatementsAreQuiet
<1> QED BY <1>2, AfterNoticeFollows, StatingIsSound, DecidingIsSound, FailingIsSound DEF Postpone

(* Postponing a row that could not be finished is sound (ScheduleRetry). *)
LEMMA ParkIsSound ==
  ASSUME Typed, NEW t \in Threads, Park(t)
  PROVE  Sound(t)
<1>1. cur[t] \in Sends /\ pc[t] = "park"
  BY SendAtHand DEF Park, At, SendLabels, FinishLabels
<1>2. Follows(t, "notify") /\ Follows(t, ParkFailed(t))
  BY <1>1, AfterNoticeFollows DEF ParkFailed, Follows, CarriedLabels, SendLabels, FinishLabels
<1>3. MarkUnconfirmed(cur[t]) => StoreQuiet
  BY <1>1, StatementsAreQuiet
<1> QED BY <1>1, <1>2, <1>3, GoOn, DecidingIsSound, FailingIsSound DEF Park

(* Postponing or giving up a row that was not recovered is sound            *)
(* (deferOutboundRecovery).                                                 *)
LEMMA DeferIsSound ==
  ASSUME Typed, NEW t \in Threads, Defer(t)
  PROVE  Sound(t)
<1> DEFINE s == cur[t]
<1>1. s \in Sends /\ pc[t] = "defer" /\ mem[t] \in Memories
  BY SendAtHand DEF Defer, At, SendLabels, FinishLabels
<1>2. Follows(t, "leave")
  BY DEF Follows, FreeLabels
<1>3. CASE Work(t, "park", s, [mem[t] EXCEPT !.next = "leave"]) /\ UNCHANGED <<storeVars, World, pending>>
  <2>1. [mem[t] EXCEPT !.next = "leave"] \in Memories /\ [mem[t] EXCEPT !.next = "leave"].next = "leave"
    BY <1>1 DEF Memories, Labels
  <2>2. Equipped("park", s, [mem[t] EXCEPT !.next = "leave"]) /\ "park" \in Labels
    BY <1>1, <2>1 DEF Equipped, MessageLabels, Labels, FinishLabels, Returns
  <2>3. Welcome(t, "park", s, [mem[t] EXCEPT !.next = "leave"]) /\ StoreQuiet /\ UNCHANGED <<World, pending>>
    BY <1>3, StoreStays DEF Welcome, Settling
  <2> QED BY <1>1, <1>3, <2>1, <2>2, <2>3, WorkingIsSound
<1>4. MarkUncertain(s) => StoreQuiet
  BY <1>1, StatementsAreQuiet
<1> QED BY <1>2, <1>3, <1>4, StatingIsSound, DecidingIsSound, FailingIsSound DEF Defer

(* A finish that fails goes on where it may. *)
LEMMA FinishFailedFollows ==
  ASSUME Typed, NEW t \in Threads, pc[t] \in SendLabels
  PROVE  Follows(t, FinishFailed(t))
BY DEF FinishFailed, Follows, FreeLabels, CarriedLabels

(* Saving a message mapping neither submits nor refuses a send. *)
LEMMA MapMessageIsQuiet ==
  ASSUME Typed, NEW m \in Remotes, NEW e \in Events \cup {Ordinary}, MapMessage(m, e)
  PROVE  StoreQuiet
BY DEF StoreQuiet, NoNewRefusal, StoreNext, TableNext, MapMessage, rowVars

(* Saving the mapping of a resolved send is sound                           *)
(* (finalizeOutboundWithoutEcho).                                           *)
LEMMA MapEventIsSound ==
  ASSUME Typed, NEW t \in Threads, MapEvent(t)
  PROVE  Sound(t)
<1>1. /\ cur[t] \in Sends /\ pc[t] = "map" /\ pc[t] \in SendLabels /\ mem[t].rid \in Remotes
      /\ EventOf[cur[t]] \in Events
  BY SendAtHand, StoreAssumption DEF MapEvent, At, SendLabels, MessageLabels, FinishLabels
<1>2. Follows(t, "succeed") /\ Follows(t, "unmap") /\ Follows(t, FinishFailed(t))
  BY <1>1, FinishFailedFollows DEF Follows, MessageLabels
<1>3. MapMessage(mem[t].rid, EventOf[cur[t]]) => StoreQuiet
  BY <1>1, MapMessageIsQuiet
<1> QED BY <1>1, <1>2, <1>3, GoOn, DecidingIsSound, FailingIsSound, StoreStays DEF MapEvent

(* Ending a resolved send whose room is gone is sound                       *)
(* (MarkResolvedUnconfirmed).                                               *)
LEMMA UnmapIsSound ==
  ASSUME Typed, NEW t \in Threads, Unmap(t)
  PROVE  Sound(t)
<1>1. cur[t] \in Sends /\ pc[t] = "unmap" /\ pc[t] \in SendLabels /\ mem[t].rid \in Remotes
  BY SendAtHand DEF Unmap, At, SendLabels, MessageLabels, FinishLabels
<1>2. Follows(t, "notify") /\ Follows(t, FinishFailed(t))
  BY <1>1, FinishFailedFollows DEF Follows, CarriedLabels
<1>3. MarkResolvedUnconfirmed(cur[t], mem[t].rid) => StoreQuiet
  BY <1>1, StatementsAreQuiet
<1> QED BY <1>1, <1>2, <1>3, GoOn, DecidingIsSound, FailingIsSound DEF Unmap

(* Reporting a success is sound (finalizeOutboundWithoutEcho). *)
LEMMA SucceedIsSound ==
  ASSUME Typed, NEW t \in Threads, Succeed(t)
  PROVE  Sound(t)
<1>1. cur[t] \in Sends /\ pc[t] = "succeed" /\ pc[t] \in SendLabels /\ "success" \in Verdicts
  BY SendAtHand DEF Succeed, At, SendLabels, FinishLabels, Verdicts
<1>2. Follows(t, "complete") /\ Follows(t, FinishFailed(t))
  BY <1>1, FinishFailedFollows DEF Follows, MessageLabels
<1> QED BY <1>1, <1>2, ReportIsSound DEF Succeed

(* Completing a resolved send is sound (MarkCompleted). *)
LEMMA CompleteIsSound ==
  ASSUME Typed, NEW t \in Threads, Complete(t)
  PROVE  Sound(t)
<1>1. cur[t] \in Sends /\ pc[t] = "complete" /\ pc[t] \in SendLabels /\ mem[t].rid \in Remotes
  BY SendAtHand DEF Complete, At, SendLabels, MessageLabels, FinishLabels
<1>2. Follows(t, mem[t].next) /\ Follows(t, FinishFailed(t))
  BY <1>1, FinishFailedFollows, BindFailedFollows
<1>3. MarkCompleted(cur[t], mem[t].rid) => StoreQuiet
  BY <1>1, StatementsAreQuiet
<1> QED BY <1>2, <1>3, StatingIsSound, DecidingIsSound, FailingIsSound DEF Complete

(* Taking or giving back the fence keeps the types of the mutexes and of    *)
(* the session's lock.                                                      *)
LEMMA AcquireIsTyped ==
  ASSUME Typed, NEW t \in Threads, Acquire(t) \/ Release(t) \/ UNCHANGED lockVars
  PROVE  fence' \in [Procs -> Threads \cup {NoThread}] /\ session' \in Threads \cup {NoThread}
BY DEF Typed, WorldOK, Acquire, Release, lockVars

(* Taking a due row is sound, whichever branch its state leads to           *)
(* (processNextDueOutboundSend).                                            *)
LEMMA DueIsSound ==
  ASSUME Typed, NEW t \in Threads, Due(t)
  PROVE  Sound(t)
<1> PICK s \in NextDue : Work(t, DueStep(s), s, [Idle EXCEPT !.job = s, !.rid = remoteID[s]])
  BY DEF Due
<1> DEFINE r == [Idle EXCEPT !.job = s, !.rid = remoteID[s]]
<1>1. s \in Sends /\ state[s] \in States \ {"absent", "completed"} /\ remoteID[s] \in Remotes \cup {NoRemote}
  BY DEF NextDue, Present, Typed, IInv, StoreTypeOK
<1>2. r \in Memories /\ r.rid = remoteID[s] /\ r.next = "leave"
  BY <1>1 DEF Memories, Idle, Labels, States
<1>3. DueStep(s) \in {"purge", "notify", "cancel", "map", "recover", "fetch"}
  BY <1>1 DEF DueStep, States, PendingStates, InFlightStates, FailedStates, IdentityStates
<1>4. DueStep(s) = "map" => state[s] = "resolved" /\ remoteID[s] \in Remotes
  BY <1>1 DEF DueStep, States, PendingStates, InFlightStates, FailedStates, IdentityStates, Typed, IInv, SchemaHolds
<1>5. Able(DueStep(s), s, r)
  <2>1. DueStep(s) \in Labels
    BY <1>3 DEF Labels, WorkerLabels, NoticeLabels, FinishLabels, SyncLabels
  <2>2. Equipped(DueStep(s), s, r)
    BY <1>1, <1>2, <1>3, <1>4 DEF Equipped, MessageLabels, Returns
  <2> QED BY <1>1, <1>2, <2>1, <2>2 DEF Able
<1>6. storeVars' = storeVars /\ state' = state
  BY DEF Due, storeVars, rowVars
<1>7. Welcome(t, DueStep(s), s, r)
  BY <1>3, <1>4, <1>6 DEF Welcome, Settling
<1>8. WorldOK' /\ UNCHANGED netVars /\ told' = told
  <2>1. Acquire(t)
    BY DEF Due
  <2> QED BY <2>1, AcquireIsTyped DEF Due, Typed, WorldOK, netVars, boundVars
<1> QED BY <1>5, <1>6, <1>7, <1>8, StepIsSound, StoreStays

(* Deleting a failed row whose notice was delivered is sound                *)
(* (DeleteNotSubmitted, DeleteUnconfirmed).                                 *)
LEMMA PurgeIsSound ==
  ASSUME Typed, NEW t \in Threads, Purge(t)
  PROVE  Sound(t)
<1>1. cur[t] \in Sends
  BY SendAtHand DEF Purge, At, SendLabels
<1>2. DeleteFailed(cur[t]) => StoreQuiet
  BY <1>1, StatementsAreQuiet
<1> QED BY <1>1, <1>2, AfterNoticeFollows, GoOn, DecidingIsSound, FailingIsSound DEF Purge

(* Ending a prepared row without its POST is sound                          *)
(* (ClaimPreparedNotSubmitted).                                             *)
LEMMA CancelIsSound ==
  ASSUME Typed, NEW t \in Threads, Cancel(t)
  PROVE  Sound(t)
<1>1. cur[t] \in Sends /\ pc[t] = "cancel"
  BY SendAtHand DEF Cancel, At, SendLabels
<1>2. Follows(t, "notify")
  BY <1>1 DEF Follows, CarriedLabels, SendLabels
<1>3. ClaimPreparedNotSubmitted(cur[t]) => StoreQuiet
  BY <1>1, StatementsAreQuiet
<1> QED BY <1>2, <1>3, AfterNoticeFollows, StatingIsSound, DecidingIsSound, FailingIsSound DEF Cancel

(* Tying a due send to its conversation is sound (recoverOutboundConversationBinding). *)
LEMMA RecoverIsSound ==
  ASSUME Typed, NEW t \in Threads, Recover(t)
  PROVE  Sound(t)
<1> DEFINE s == cur[t]
           r == [mem[t] EXCEPT !.next = "fetch"]
<1>1. s \in Sends /\ pc[t] = "recover" /\ mem[t] \in Memories
  BY SendAtHand DEF Recover, At, SendLabels
<1>2. Follows(t, "park") /\ Follows(t, "defer")
  BY <1>1 DEF Follows, CarriedLabels, SendLabels
<1>3. CASE Work(t, "stage", s, r) /\ UNCHANGED <<storeVars, World, pending>>
  <2>1. r \in Memories /\ r.next = "fetch"
    BY <1>1 DEF Memories, Labels, SyncLabels
  <2>2. Equipped("stage", s, r) /\ "stage" \in Labels
    BY <1>1, <2>1 DEF Equipped, MessageLabels, Labels, BindLabels, Returns
  <2>3. Welcome(t, "stage", s, r) /\ StoreQuiet /\ UNCHANGED <<World, pending>>
    BY <1>3, StoreStays DEF Welcome, Settling
  <2> QED BY <1>1, <1>3, <2>1, <2>2, <2>3, WorkingIsSound
<1> QED BY <1>2, <1>3, DecidingIsSound, FailingIsSound DEF Recover

(* Settling a send after its sync is sound: the row's state decides what is *)
(* reported (finishDueOutboundSend).                                        *)
LEMMA SettleIsSound ==
  ASSUME Typed, NEW t \in Threads, Settle(t)
  PROVE  Sound(t)
<1> DEFINE s == mem[t].job
           r == [mem[t] EXCEPT !.next = "leave", !.rid = remoteID[s]]
<1>1. s \in Sends /\ pc[t] = "settle" /\ mem[t] \in Memories
  BY SendAtHand DEF Settle, At
<1>2. r \in Memories /\ r.next = "leave" /\ r.rid = remoteID[s]
  BY <1>1 DEF Memories, Labels, Typed, IInv, StoreTypeOK
<1>3. ASSUME NEW l \in {"map", "defer", "park"}, l = "map" => state[s] = "resolved",
             Work(t, l, s, r), UNCHANGED <<storeVars, World, pending>>
      PROVE  Sound(t)
  <2>1. l = "map" => remoteID[s] \in Remotes
    BY <1>1, <1>3 DEF Typed, IInv, StoreTypeOK, SchemaHolds, IdentityStates
  <2>2. Equipped(l, s, r) /\ l \in Labels
    BY <1>1, <1>2, <1>3, <2>1 DEF Equipped, MessageLabels, Labels, FinishLabels, Returns
  <2>3. StoreQuiet /\ UNCHANGED <<World, pending>> /\ state' = state
    BY <1>3, StoreStays DEF storeVars, rowVars
  <2>4. Welcome(t, l, s, r)
    BY <1>3, <2>3 DEF Welcome, Settling
  <2> QED BY <1>1, <1>2, <1>3, <2>2, <2>3, <2>4, WorkingIsSound
<1>4. CASE DropPending(t, s) /\ Goto(t, "leave") /\ UNCHANGED <<storeVars, World>>
  BY <1>1, <1>4, AfterNoticeFollows, GoOn, StoreStays
<1> QED BY <1>3, <1>4, AfterNoticeFollows, DecidingIsSound, FailingIsSound DEF Settle

-----------------------------------------------------------------------------
(* Steps of a sync. *)

(* A step that leaves the outbox alone and changes the thread's memory. *)
LEMMA RecallingIsSound ==
  ASSUME Typed, NEW t \in Threads, NEW l \in FreeLabels, NEW r \in Memories, r.next \in Returns,
         Work(t, l, cur[t], r), StoreQuiet, UNCHANGED World,
         UNCHANGED pending \/ \E s \in Sends : DropPending(t, s)
  PROVE  Sound(t)
<1>1. l \in Labels
  BY DEF FreeLabels, Labels, SyncLabels
<1>2. Equipped(l, cur[t], r)
  BY DEF Equipped, FreeLabels, SendLabels, MessageLabels, HandlerLabels, BindLabels, NoticeLabels, FinishLabels
<1>3. Able(l, cur[t], r)
  BY <1>1, <1>2 DEF Able, Typed, ThreadsOK
<1>4. Welcome(t, l, cur[t], r)
  BY DEF Welcome, FreeLabels, Settling
<1>5. WorldOK' /\ UNCHANGED netVars /\ told' = told
  BY DEF Typed, WorldOK, World, lockVars, netVars, boundVars, DropPending
<1> QED BY <1>3, <1>4, <1>5, StepIsSound

(* Fetching the conversation is sound                                       *)
(* (syncConversationByIDWithSubmissionLock).                                *)
LEMMA FetchIsSound ==
  ASSUME Typed, NEW t \in Threads, Fetch(t)
  PROVE  Sound(t)
<1> DEFINE r == [mem[t] EXCEPT !.view = landed, !.tx = {}, !.plan = {}, !.held = {}]
<1>1. mem[t] \in Memories /\ mem[t].next \in Returns /\ landed \subseteq Remotes
  BY SendAtHand DEF Typed, WorldOK
<1>2. r \in Memories /\ r.next = mem[t].next
  BY <1>1 DEF Memories
<1>3. Follows(t, SyncFailed(t)) /\ "unbound" \in FreeLabels
  BY DEF SyncFailed, Follows, FreeLabels
<1>4. CASE Work(t, "unbound", cur[t], r) /\ UNCHANGED <<storeVars, World, pending>>
  BY <1>1, <1>2, <1>3, <1>4, RecallingIsSound, StoreStays
<1> QED BY <1>3, <1>4, FailingIsSound DEF Fetch

(* Picking a send that is not tied to the conversation is sound             *)
(* (reconcileOutboundConversation).                                         *)
LEMMA BindUnboundIsSound ==
  ASSUME Typed, NEW t \in Threads, BindUnbound(t)
  PROVE  Sound(t)
<1>1. mem[t] \in Memories
  BY SendAtHand
<1>2. Follows(t, "resolved")
  BY DEF Follows, FreeLabels
<1>3. ASSUME NEW s \in Unbound, Work(t, "stage", s, [mem[t] EXCEPT !.next = "unbound"])
      PROVE  Sound(t)
  <2> DEFINE r == [mem[t] EXCEPT !.next = "unbound"]
  <2>1. s \in Sends
    BY DEF Unbound
  <2>2. r \in Memories /\ r.next = "unbound"
    BY <1>1 DEF Memories, Labels, SyncLabels
  <2>3. Equipped("stage", s, r) /\ "stage" \in Labels
    BY <2>1, <2>2 DEF Equipped, MessageLabels, Labels, BindLabels, Returns
  <2>4. Welcome(t, "stage", s, r) /\ StoreQuiet /\ UNCHANGED <<World, pending>>
    BY StoreStays DEF Welcome, Settling, BindUnbound
  <2> QED BY <1>3, <2>1, <2>2, <2>3, <2>4, WorkingIsSound
<1>4. CASE Goto(t, "resolved")
  BY <1>2, <1>4, GoOn, StoreStays DEF BindUnbound
<1> QED BY <1>3, <1>4 DEF BindUnbound

(* Handing on a claimed message, or finishing its send in place, is sound:  *)
(* only a resolved row is settled.                                          *)
LEMMA FinishResolvedIsSound ==
  ASSUME Typed, NEW t \in Threads, FinishResolved(t)
  PROVE  Sound(t)
<1> DEFINE claims == {e \in (mem[t].view \ Echoes(t)) \X Sends :
                        state[e[2]] = "resolved" /\ remoteID[e[2]] = e[1]}
<1>1. mem[t] \in Memories /\ mem[t].next \in Returns /\ mem[t].view \subseteq Remotes
  BY SendAtHand DEF Memories
<1>2. \A e \in claims : e \in Remotes \X Sends /\ e[1] \in Remotes /\ e[2] \in Sends /\ state[e[2]] = "resolved"
  BY <1>1
<1>3. UNCHANGED <<storeVars, World, pending>> /\ StoreQuiet /\ state' = state
  BY StoreStays DEF FinishResolved, storeVars, rowVars
<1>4. Follows(t, "match")
  BY DEF Follows, FreeLabels
<1>5. ASSUME NEW e \in claims, Work(t, "resolved", cur[t], [mem[t] EXCEPT !.tx = @ \cup {e}])
      PROVE  Sound(t)
  <2> DEFINE r == [mem[t] EXCEPT !.tx = @ \cup {e}]
  <2>1. r \in Memories /\ r.next = mem[t].next
    BY <1>1, <1>2 DEF Memories
  <2> QED BY <1>1, <1>3, <1>5, <2>1, RecallingIsSound DEF FreeLabels
<1>6. ASSUME NEW e \in claims,
             Work(t, "map", e[2], [mem[t] EXCEPT !.view = @ \ {e[1]}, !.rid = e[1], !.next = "resolved"])
      PROVE  Sound(t)
  <2> DEFINE r == [mem[t] EXCEPT !.view = @ \ {e[1]}, !.rid = e[1], !.next = "resolved"]
  <2>1. r \in Memories /\ r.next = "resolved" /\ r.rid = e[1]
    BY <1>1, <1>2 DEF Memories, Labels, SyncLabels
  <2>2. Equipped("map", e[2], r) /\ "map" \in Labels
    BY <1>2, <2>1 DEF Equipped, Labels, FinishLabels, Returns
  <2>3. Welcome(t, "map", e[2], r)
    BY <1>2, <1>3 DEF Welcome
  <2> QED BY <1>2, <1>3, <1>6, <2>1, <2>2, <2>3, WorkingIsSound
<1>7. CASE Goto(t, "match")
  BY <1>3, <1>4, <1>7, GoOn
<1> QED BY <1>5, <1>6, <1>7 DEF FinishResolved

(* Matching messages to sends is sound (forcedOutboundCandidateMatches). *)
LEMMA MatchIsSound ==
  ASSUME Typed, NEW t \in Threads, Match(t)
  PROVE  Sound(t)
<1> DEFINE edges  == {e \in Matchable(Conv) \X (mem[t].view \ Echoes(t)) : Candidate(e[1], e[2])}
           likely == {e[2] : e \in edges}
           plan   == Forced(edges)
           r      == [mem[t] EXCEPT !.plan = plan, !.held = likely, !.view = @ \ likely]
<1>1. mem[t] \in Memories /\ mem[t].next \in Returns /\ mem[t].view \subseteq Remotes
  BY SendAtHand DEF Memories
<1>2. edges \subseteq Sends \X Remotes
  BY <1>1 DEF Matchable
<1>3. plan \subseteq edges
  BY DEF Forced
<1>4. likely \subseteq Remotes
  BY <1>2
<1>5. Work(t, "claim", cur[t], r) /\ UNCHANGED <<storeVars, World, pending>>
  BY DEF Match
<1> HIDE DEF edges, likely, plan
<1>6. r \in Memories /\ r.next = mem[t].next
  BY <1>1, <1>2, <1>3, <1>4 DEF Memories
<1> QED BY <1>1, <1>5, <1>6, RecallingIsSound, StoreStays DEF FreeLabels

(* Claiming a forced match is sound: the send that is settled next has just *)
(* become resolved (ClaimRemoteMessage).                                    *)
LEMMA ClaimIsSound ==
  ASSUME Typed, NEW t \in Threads, Claim(t)
  PROVE  Sound(t)
<1>1. /\ mem[t] \in Memories /\ mem[t].next \in Returns
      /\ mem[t].plan \subseteq Sends \X Remotes /\ mem[t].view \subseteq Remotes
  BY SendAtHand DEF Memories
<1>2. Follows(t, SyncFailed(t)) /\ Follows(t, "handover")
  BY DEF SyncFailed, Follows, FreeLabels
<1>3. ASSUME NEW e \in mem[t].plan, ClaimRemoteMessage(e[1], e[2]), UNCHANGED <<World, pending>>
      PROVE  /\ e[1] \in Sends /\ e[2] \in Remotes
             /\ StoreQuiet /\ state'[e[1]] = "resolved"
  <2>1. e[1] \in Sends /\ e[2] \in Remotes
    BY <1>1
  <2>2. state'[e[1]] = "resolved"
    BY <1>3, <2>1 DEF ClaimRemoteMessage, SetState, Typed, IInv, StoreTypeOK
  <2> QED BY <1>3, <2>1, <2>2, StatementsAreQuiet
<1>4. ASSUME NEW e \in mem[t].plan, ClaimRemoteMessage(e[1], e[2]), UNCHANGED <<World, pending>>,
             Work(t, "claim", cur[t], [mem[t] EXCEPT !.plan = @ \ {e}, !.held = @ \ {e[2]},
                                                     !.tx = @ \cup {<<e[2], e[1]>>}, !.view = @ \cup {e[2]}])
      PROVE  Sound(t)
  <2> DEFINE r == [mem[t] EXCEPT !.plan = @ \ {e}, !.held = @ \ {e[2]},
                                 !.tx = @ \cup {<<e[2], e[1]>>}, !.view = @ \cup {e[2]}]
  <2>1. e[1] \in Sends /\ e[2] \in Remotes /\ StoreQuiet
    BY <1>3, <1>4
  <2> DEFINE tx == mem[t].tx \cup {<<e[2], e[1]>>}
             V  == mem[t].view \cup {e[2]}
             P  == mem[t].plan \ {e}
             H  == mem[t].held \ {e[2]}
  <2>2. tx \subseteq Remotes \X Sends /\ V \subseteq Remotes /\ P \subseteq Sends \X Remotes /\ H \subseteq Remotes
    BY <1>1, <2>1 DEF Memories
  <2>3. r = [mem[t] EXCEPT !.plan = P, !.held = H, !.tx = tx, !.view = V]
    OBVIOUS
  <2>4. r \in Memories /\ r.next = mem[t].next
    <3> HIDE DEF tx, V, P, H, r
    <3> QED BY <1>1, <2>2, <2>3 DEF Memories
  <2> QED BY <1>1, <1>4, <2>1, <2>4, RecallingIsSound DEF FreeLabels
<1>5. ASSUME NEW e \in mem[t].plan, ClaimRemoteMessage(e[1], e[2]), UNCHANGED <<World, pending>>,
             Work(t, "map", e[1], [mem[t] EXCEPT !.plan = @ \ {e}, !.held = @ \ {e[2]},
                                                 !.rid = e[2], !.next = "claim"])
      PROVE  Sound(t)
  <2> DEFINE r == [mem[t] EXCEPT !.plan = @ \ {e}, !.held = @ \ {e[2]}, !.rid = e[2], !.next = "claim"]
  <2>1. e[1] \in Sends /\ e[2] \in Remotes /\ StoreQuiet /\ state'[e[1]] = "resolved"
    BY <1>3, <1>5
  <2>2. r \in Memories /\ r.next = "claim" /\ r.rid = e[2]
    BY <1>1, <2>1 DEF Memories, Labels, SyncLabels
  <2>3. Equipped("map", e[1], r) /\ "map" \in Labels
    BY <2>1, <2>2 DEF Equipped, Labels, FinishLabels, Returns
  <2>4. Welcome(t, "map", e[1], r)
    BY <2>1 DEF Welcome
  <2> QED BY <1>5, <2>1, <2>2, <2>3, <2>4, WorkingIsSound
<1>6. CASE \E e \in mem[t].plan : LET rest == [mem[t] EXCEPT !.plan = @ \ {e}, !.held = @ \ {e[2]}] IN
             /\ ClaimRemoteMessage(e[1], e[2])
             /\ IF Awaits(t, e[1])
                THEN Work(t, "claim", cur[t], [rest EXCEPT !.tx = @ \cup {<<e[2], e[1]>>}, !.view = @ \cup {e[2]}])
                ELSE Work(t, "map", e[1], [rest EXCEPT !.rid = e[2], !.next = "claim"])
             /\ UNCHANGED <<World, pending>>
  <2> PICK e \in mem[t].plan : LET rest == [mem[t] EXCEPT !.plan = @ \ {e}, !.held = @ \ {e[2]}] IN
             /\ ClaimRemoteMessage(e[1], e[2])
             /\ IF Awaits(t, e[1])
                THEN Work(t, "claim", cur[t], [rest EXCEPT !.tx = @ \cup {<<e[2], e[1]>>}, !.view = @ \cup {e[2]}])
                ELSE Work(t, "map", e[1], [rest EXCEPT !.rid = e[2], !.next = "claim"])
             /\ UNCHANGED <<World, pending>>
    BY <1>6
  <2> DEFINE rest == [mem[t] EXCEPT !.plan = @ \ {e}, !.held = @ \ {e[2]}]
  <2>1. /\ [rest EXCEPT !.tx = @ \cup {<<e[2], e[1]>>}, !.view = @ \cup {e[2]}]
             = [mem[t] EXCEPT !.plan = @ \ {e}, !.held = @ \ {e[2]},
                              !.tx = @ \cup {<<e[2], e[1]>>}, !.view = @ \cup {e[2]}]
        /\ [rest EXCEPT !.rid = e[2], !.next = "claim"]
             = [mem[t] EXCEPT !.plan = @ \ {e}, !.held = @ \ {e[2]}, !.rid = e[2], !.next = "claim"]
    BY <1>1 DEF Memories
  <2> QED BY <1>4, <1>5, <2>1
<1> QED BY <1>2, <1>6, DecidingIsSound, FailingIsSound DEF Claim

(* A sync that failed goes on to settle its send, which is sound. *)
LEMMA BrokenIsSound ==
  ASSUME Typed, NEW t \in Threads, Broken(t)
  PROVE  Sound(t)
<1> DEFINE r == [mem[t] EXCEPT !.outcome = "failed"]
<1>1. mem[t] \in Memories /\ mem[t].next \in Returns /\ UNCHANGED <<storeVars, World, pending>>
  BY SendAtHand DEF Broken
<1>2. CASE mem[t].job = NoSend /\ Goto(t, "leave")
  BY <1>1, <1>2, AfterNoticeFollows, GoOn, StoreStays
<1>3. CASE mem[t].job # NoSend /\ Work(t, "settle", cur[t], r)
  <2>1. r \in Memories /\ r.next = mem[t].next /\ r.job \in Sends
    BY <1>1, <1>3 DEF Memories
  <2>2. Equipped("settle", cur[t], r) /\ "settle" \in Labels /\ cur[t] \in Sends \cup {NoSend}
    BY <1>1, <2>1 DEF Equipped, SendLabels, MessageLabels, HandlerLabels, BindLabels, NoticeLabels, FinishLabels,
                      Labels, WorkerLabels, Typed, ThreadsOK
  <2>3. Welcome(t, "settle", cur[t], r)
    BY DEF Welcome, Settling
  <2> QED BY <1>1, <1>3, <2>1, <2>2, <2>3, WorkingIsSound, StoreStays
<1> QED BY <1>2, <1>3 DEF Broken

(* Giving the fence back before the delivery is sound                       *)
(* (deliverConversation).                                                   *)
LEMMA HandoverIsSound ==
  ASSUME Typed, NEW t \in Threads, Handover(t)
  PROVE  Sound(t)
<1> DEFINE V == {m \in mem[t].view : mapped[m] = Unmapped}
           r == [mem[t] EXCEPT !.view = {m \in @ : mapped[m] = Unmapped}]
<1>1. mem[t] \in Memories /\ mem[t].next \in Returns /\ mem[t].view \subseteq Remotes
  BY SendAtHand DEF Memories
<1>2. Follows(t, SyncFailed(t))
  BY DEF SyncFailed, Follows, FreeLabels
<1>3. CASE Release(t) /\ Work(t, "deliver", cur[t], r) /\ UNCHANGED <<storeVars, pending, netVars, told, boundVars>>
  <2>1. r \in Memories /\ r.next = mem[t].next
    BY <1>1 DEF Memories
  <2>2. Able("deliver", cur[t], r)
    BY <1>1, <2>1 DEF Able, Equipped, SendLabels, MessageLabels, HandlerLabels, BindLabels, NoticeLabels, FinishLabels,
                      Labels, SyncLabels, Typed, ThreadsOK
  <2>3. Welcome(t, "deliver", cur[t], r)
    BY DEF Welcome, Settling
  <2>4. WorldOK' /\ UNCHANGED netVars /\ told' = told
    BY <1>3, AcquireIsTyped DEF Typed, WorldOK, netVars, boundVars
  <2> QED BY <1>3, <2>2, <2>3, <2>4, StepIsSound, StoreStays
<1> QED BY <1>2, <1>3, FailingIsSound DEF Handover

(* Delivering a message, as an echo or as a message of its own, is sound    *)
(* (outboundEchoHandler).                                                   *)
LEMMA DeliverIsSound ==
  ASSUME Typed, NEW t \in Threads, Deliver(t)
  PROVE  Sound(t)
<1>1. /\ mem[t] \in Memories /\ mem[t].next \in Returns
      /\ mem[t].view \subseteq Remotes /\ cur[t] \in Sends \cup {NoSend} /\ pc[t] = "deliver"
  BY SendAtHand DEF Memories, Typed, ThreadsOK, Deliver, At
<1>2. ASSUME NEW m \in mem[t].view
      PROVE  [mem[t] EXCEPT !.view = @ \ {m}] \in Memories /\ [mem[t] EXCEPT !.view = @ \ {m}].next \in Returns
  BY <1>1 DEF Memories
<1>3. ASSUME NEW m \in mem[t].view, StoreQuiet, Work(t, "deliver", cur[t], [mem[t] EXCEPT !.view = @ \ {m}]),
             UNCHANGED World, UNCHANGED pending \/ \E s \in Sends : DropPending(t, s)
      PROVE  Sound(t)
  BY <1>2, <1>3, RecallingIsSound DEF FreeLabels
<1>4. ASSUME NEW m \in mem[t].view, NEW s \in Sends, DropPending(t, s), UNCHANGED <<storeVars, World>>,
             Work(t, "persist", s, [mem[t] EXCEPT !.view = @ \ {m}, !.rid = m])
      PROVE  Sound(t)
  <2> DEFINE r == [mem[t] EXCEPT !.view = @ \ {m}, !.rid = m]
  <2>1. r \in Memories /\ r.next = mem[t].next /\ r.rid = m /\ m \in Remotes
    BY <1>1 DEF Memories
  <2>2. Able("persist", s, r)
    BY <1>1, <2>1 DEF Able, Equipped, Labels, SyncLabels
  <2>3. Welcome(t, "persist", s, r)
    BY DEF Welcome, Settling
  <2>4. WorldOK' /\ UNCHANGED netVars /\ told' = told
    BY <1>4 DEF Typed, WorldOK, World, lockVars, netVars, boundVars, DropPending
  <2> QED BY <1>4, <2>2, <2>3, <2>4, StepIsSound, StoreStays
<1>5. ASSUME NEW m \in mem[t].view, MapMessage(m, Ordinary)
      PROVE  StoreQuiet
  BY <1>1, <1>5, MapMessageIsQuiet
<1>6. CASE /\ Spend
           /\ Work(t, "deliver", cur[t], [mem[t] EXCEPT !.view = {}, !.outcome = "failed"])
           /\ UNCHANGED <<storeVars, lockVars, pending, netVars, told, calls>>
  <2> DEFINE r == [mem[t] EXCEPT !.view = {}, !.outcome = "failed"]
  <2>1. r \in Memories /\ r.next = mem[t].next
    BY <1>1 DEF Memories
  <2>2. Able("deliver", cur[t], r)
    BY <1>1, <2>1 DEF Able, Equipped, SendLabels, MessageLabels, HandlerLabels, BindLabels, NoticeLabels, FinishLabels,
                      Labels, SyncLabels
  <2>3. Welcome(t, "deliver", cur[t], r)
    BY DEF Welcome, Settling
  <2>4. WorldOK' /\ UNCHANGED netVars /\ told' = told
    BY <1>6, OutboundAssumption DEF Typed, WorldOK, Spend, lockVars, netVars
  <2> QED BY <1>6, <2>2, <2>3, <2>4, StepIsSound, StoreStays
<1>7. CASE Work(t, "idle", NoSend, Idle) /\ UNCHANGED <<storeVars, World, pending>>
  <2>1. Idle \in Memories /\ Idle.next = "leave"
    BY DEF Idle, Memories, Labels
  <2>2. Equipped("idle", NoSend, Idle) /\ "idle" \in Labels
    BY <2>1 DEF Equipped, SendLabels, MessageLabels, HandlerLabels, BindLabels, NoticeLabels, FinishLabels,
                Labels, Returns
  <2>3. Welcome(t, "idle", NoSend, Idle)
    BY DEF Welcome, Settling
  <2> QED BY <1>7, <2>1, <2>2, <2>3, WorkingIsSound, StoreStays
<1>8. CASE mem[t].job # NoSend /\ Goto(t, "relock") /\ UNCHANGED <<storeVars, World, pending>>
  <2>1. Work(t, "relock", cur[t], mem[t])
    BY <1>8, GotoIsWork DEF Typed
  <2>2. Equipped("relock", cur[t], mem[t]) /\ "relock" \in Labels
    BY <1>1, <1>8 DEF Equipped, SendLabels, MessageLabels, HandlerLabels, BindLabels, NoticeLabels, FinishLabels,
                      Labels, SyncLabels, Memories
  <2>3. Welcome(t, "relock", cur[t], mem[t])
    BY DEF Welcome, Settling
  <2> QED BY <1>1, <1>8, <2>1, <2>2, <2>3, WorkingIsSound, StoreStays
<1> QED BY <1>3, <1>4, <1>5, <1>6, <1>7, <1>8, StoreStays DEF Deliver

(* Saving the mapping of an echo is sound (persistOutboundMapping). *)
LEMMA PersistIsSound ==
  ASSUME Typed, NEW t \in Threads, Persist(t)
  PROVE  Sound(t)
<1>1. cur[t] \in Sends /\ mem[t].rid \in Remotes /\ EventOf[cur[t]] \in Events
  BY SendAtHand, StoreAssumption DEF Persist, At, SendLabels, MessageLabels
<1>2. Follows(t, "deliver")
  BY DEF Follows, FreeLabels
<1>3. MapMessage(mem[t].rid, EventOf[cur[t]]) => StoreQuiet
  BY <1>1, MapMessageIsQuiet
<1> QED BY <1>2, <1>3, StatingIsSound, DecidingIsSound, FailingIsSound DEF Persist

(* Threads that start, and threads that end. *)
LEMMA IdlingIsAble ==
  ASSUME Typed, NEW t \in Threads
  PROVE  /\ Able("idle", NoSend, Idle) /\ Welcome(t, "idle", NoSend, Idle)
         /\ Able("fetch", NoSend, Idle) /\ Welcome(t, "fetch", NoSend, Idle)
         /\ \A s \in Sends : Able("load", s, Idle) /\ Welcome(t, "load", s, Idle)
<1>1. Idle \in Memories /\ Idle.next = "leave"
  BY DEF Idle, Memories, Labels
<1> QED BY <1>1 DEF Able, Equipped, SendLabels, MessageLabels, HandlerLabels, BindLabels, NoticeLabels, FinishLabels,
                    SyncLabels, Labels, Returns, Welcome, Settling

(* Taking the fence again after the delivery is sound. *)
LEMMA RelockIsSound ==
  ASSUME Typed, NEW t \in Threads, Relock(t)
  PROVE  Sound(t)
<1>1. mem[t] \in Memories /\ mem[t].next \in Returns /\ mem[t].job \in Sends
  BY SendAtHand DEF Relock, At
<1>2. ASSUME NEW o \in {mem[t].outcome, "failed"}, Acquire(t), Work(t, "settle", cur[t], [mem[t] EXCEPT !.outcome = o]),
             UNCHANGED <<storeVars, pending, netVars, told, boundVars>>
      PROVE  Sound(t)
  <2> DEFINE r == [mem[t] EXCEPT !.outcome = o]
  <2>1. r \in Memories /\ r.next = mem[t].next /\ r.job = mem[t].job
    BY <1>1 DEF Memories
  <2>2. Able("settle", cur[t], r)
    BY <1>1, <2>1 DEF Able, Equipped, SendLabels, MessageLabels, HandlerLabels, BindLabels, NoticeLabels, FinishLabels,
                      Labels, WorkerLabels, Typed, ThreadsOK
  <2>3. Welcome(t, "settle", cur[t], r)
    BY DEF Welcome, Settling
  <2>4. WorldOK' /\ UNCHANGED netVars /\ told' = told
    BY <1>2, AcquireIsTyped DEF Typed, WorldOK, netVars, boundVars
  <2> QED BY <1>2, <2>2, <2>3, <2>4, StepIsSound, StoreStays
<1>3. CASE Spend /\ Work(t, "idle", NoSend, Idle) /\ UNCHANGED <<storeVars, lockVars, pending, netVars, told, calls>>
  <2>1. WorldOK' /\ UNCHANGED netVars /\ told' = told
    BY <1>3, OutboundAssumption DEF Typed, WorldOK, Spend, lockVars, netVars
  <2> QED BY <1>3, <2>1, IdlingIsAble, StepIsSound, StoreStays
<1> QED BY <1>2, <1>3 DEF Relock

(* Ending a call is sound. *)
LEMMA LeaveIsSound ==
  ASSUME Typed, NEW t \in Threads, Leave(t)
  PROVE  Sound(t)
<1>1. WorldOK' /\ UNCHANGED netVars /\ told' = told
  BY AcquireIsTyped DEF Leave, Typed, WorldOK, netVars, boundVars
<1> QED BY <1>1, IdlingIsAble, StepIsSound, StoreStays DEF Leave

(* Starting a sync is sound. *)
LEMMA SyncIsSound ==
  ASSUME Typed, NEW t \in Threads, Sync(t)
  PROVE  Sound(t)
<1>1. WorldOK' /\ UNCHANGED netVars /\ told' = told
  BY AcquireIsTyped DEF Sync, Typed, WorldOK, netVars, boundVars
<1> QED BY <1>1, IdlingIsAble, StepIsSound, StoreStays DEF Sync

(* Starting to handle an event is sound. *)
LEMMA BeginIsSound ==
  ASSUME Typed, NEW t \in Threads, NEW s \in Sends, Begin(t, s)
  PROVE  Sound(t)
<1>1. WorldOK' /\ UNCHANGED netVars /\ told' = told
  BY AcquireIsTyped, OutboundAssumption DEF Begin, Typed, WorldOK, netVars, boundVars
<1> QED BY <1>1, IdlingIsAble, StepIsSound, StoreStays DEF Begin

-----------------------------------------------------------------------------
(* The two steps between the row and Tumblr. *)

(* The row is licensed for its POST, and the thread goes to l. *)
Licenses(t, l) ==
  /\ state[cur[t]] = "prepared" /\ state' = [state EXCEPT ![cur[t]] = "submitting"]
  /\ submits' = [submits EXCEPT ![cur[t]] = @ + 1] /\ baseline'[cur[t]] = mem[t].view
  /\ [StoreNext]_storeVars /\ ThreadsOK' /\ WorldOK'
  /\ UNCHANGED netVars /\ told' = told
  /\ pc'[t] = l /\ cur'[t] = cur[t] /\ cur[t] \in Sends
  /\ Alone(t)

(* The compare-and-swap of MarkSubmitting licenses the POST, is lost to an  *)
(* error after it was applied, or changes nothing.                          *)
LEMMA SubmitIsSound ==
  ASSUME Typed, NEW t \in Threads, Submit(t)
  PROVE  Sound(t) \/ Licenses(t, "post") \/ Licenses(t, "drop")
<1> DEFINE s == cur[t]
<1>1. s \in Sends /\ pc[t] = "submit" /\ mem[t] \in Memories /\ mem[t].next \in Returns
  BY SendAtHand DEF Submit, At, SendLabels, HandlerLabels
<1>2. ASSUME MarkSubmitting(s, mem[t].view), NEW l \in {"post", "drop"}, Goto(t, l),
             UNCHANGED World \/ (Spend /\ UNCHANGED <<lockVars, netVars, told, calls>>),
             UNCHANGED pending \/ pending' = [pending EXCEPT ![Host[t]] = @ \cup {s}]
      PROVE  Licenses(t, l)
  <2>1. mem[t].view \in Baselines
    BY <1>1, OutboundAssumption DEF Memories
  <2>2. StoreNext /\ state[s] = "prepared" /\ state' = [state EXCEPT ![s] = "submitting"]
        /\ submits' = [submits EXCEPT ![s] = @ + 1] /\ baseline'[s] = mem[t].view
    BY <1>1, <1>2, <2>1 DEF StoreNext, RowNext, MarkSubmitting, Submittable, SetState, Typed, IInv, StoreTypeOK
  <2>3. Able(l, s, mem[t])
    BY <1>1, <1>2 DEF Able, Equipped, MessageLabels, Labels, HandlerLabels
  <2>4. /\ ThreadsOK'
        /\ pc'[t] = l /\ cur'[t] = s
        /\ Alone(t)
    BY <1>2, <2>3, GotoIsWork, WorkKeepsThreads DEF Typed, Alone
  <2>5. WorldOK' /\ UNCHANGED netVars /\ told' = told
    BY <1>1, <1>2, OutboundAssumption DEF Typed, WorldOK, World, Spend, lockVars, netVars, boundVars
  <2> QED BY <1>1, <2>2, <2>4, <2>5 DEF Licenses
<1>3. CASE Yield(t)
  BY <1>1, <1>3, YieldIsSound
<1>4. CASE Fail(t, "drop")
  BY <1>1, <1>4, FailingIsSound DEF Follows, SendLabels, HandlerLabels, CarriedLabels
<1> QED BY <1>2, <1>3, <1>4 DEF Submit

(* A thread makes its POST for the send it holds, and waits for the answer. *)
LEMMA PostFacts ==
  ASSUME Typed, NEW t \in Threads, Post(t)
  PROVE  /\ ThreadsOK' /\ WorldOK' /\ Alone(t)
         /\ pc[t] = "post" /\ pc'[t] = "answer" /\ cur'[t] = cur[t] /\ cur[t] \in Sends
<1>1. cur[t] \in Sends /\ pc[t] = "post" /\ mem[t] \in Memories /\ mem[t].next \in Returns
  BY SendAtHand DEF Post, At, SendLabels, HandlerLabels
<1>2. Able("answer", cur[t], mem[t])
  BY <1>1 DEF Able, Equipped, MessageLabels, Labels, HandlerLabels
<1>3. ThreadsOK' /\ Alone(t) /\ pc'[t] = "answer" /\ cur'[t] = cur[t]
  BY <1>2, GotoIsWork, WorkKeepsThreads DEF Post, Typed, Alone
<1>4. WorldOK'
  BY <1>1 DEF Post, Typed, WorldOK, lockVars, boundVars
<1> QED BY <1>1, <1>3, <1>4

-----------------------------------------------------------------------------
(* The steps of the system, by what they may do. *)

(* A resolved row goes on to completed or unconfirmed only (FreeRemote, the  *)
(* statements over rows in flight).                                          *)
RowsGoOn ==
  \A s \in Sends : /\ state[s] = "resolved" => state'[s] \in {"resolved", "completed", "unconfirmed"}
                   /\ state[s] = "absent" => state'[s] \in {"absent", "prepared"}

(* No statement takes a resolved row back, and an erased row only comes     *)
(* back prepared (Insert).                                                  *)
LEMMA RowsDoGoOn ==
  ASSUME StoreTypeOK, [StoreNext]_storeVars
  PROVE  RowsGoOn
<1> USE DEF RowsGoOn, StoreTypeOK, SetState
<1>1. ASSUME NEW s \in Sends, RowNext(s) PROVE RowsGoOn
  <2>1. CASE \E c \in Convs \cup {NoConv} : Insert(s, c)
    BY <2>1 DEF Insert, Insertable, Present
  <2>2. CASE \E c \in Convs : PrepareConversationBinding(s, c) \/ BindConversation(s, c)
    BY <2>2 DEF PrepareConversationBinding, BindConversation
  <2>3. CASE \E base \in Baselines : MarkSubmitting(s, base)
    BY <2>3 DEF MarkSubmitting, Submittable
  <2>4. CASE MarkAwaitingEcho(s) \/ MarkUncertain(s)
    BY <2>4 DEF MarkAwaitingEcho, MarkUncertain, Awaitable, InFlight, InFlightStates
  <2>5. CASE \E m \in Remotes : \/ ClaimRemoteMessage(s, m)
                                \/ MarkResolvedUnconfirmed(s, m)
                                \/ MarkCompleted(s, m)
    BY <2>5 DEF ClaimRemoteMessage, FreeRemote, InFlight, InFlightStates, MarkResolvedUnconfirmed, MarkCompleted,
                Completable, Terminate
  <2>6. CASE ClaimPreparedNotSubmitted(s) \/ MarkSubmittingNotSubmitted(s) \/ MarkUnconfirmed(s)
    BY <2>6 DEF ClaimPreparedNotSubmitted, MarkSubmittingNotSubmitted, MarkUnconfirmed, Submittable, Rejectable,
                InFlight, InFlightStates, Terminate
  <2>7. CASE \E k \in Tokens : \/ ClaimStatusDelivery(s, k)
                               \/ FinishStatusDelivery(s, k)
                               \/ ReleaseStatusDelivery(s, k)
    BY <2>7 DEF ClaimStatusDelivery, FinishStatusDelivery, ReleaseStatusDelivery
  <2>8. CASE ScheduleRetry(s) \/ DeletePrepared(s) \/ DeleteFailed(s)
    BY <2>8 DEF ScheduleRetry, DeletePrepared, DeleteFailed, EraseRow, FailedStates
  <2>9. CASE FallDue(s) \/ LapseClaim(s) \/ GrowOld(s)
    BY <2>9 DEF FallDue, LapseClaim, GrowOld
  <2> QED BY <1>1, <2>1, <2>2, <2>3, <2>4, <2>5, <2>6, <2>7, <2>8, <2>9 DEF RowNext
<1>2. CASE TableNext
  BY <1>2 DEF TableNext, TerminalizeConversation, Cancellable, PendingStates, MapMessage, LoseRoom, MoveRoom, rowVars
<1>3. CASE UNCHANGED storeVars
  BY <1>3 DEF storeVars, rowVars
<1> QED BY <1>1, <1>2, <1>3 DEF StoreNext

(* A step of the tables keeps what OutboundStoreProofs proves of them. *)
LEMMA StoreSteps ==
  ASSUME IInv, [StoreNext]_storeVars
  PROVE  IInv' /\ FinalityStep /\ OutcomeStep /\ RowsGoOn
<1>1. IInv' /\ FinalityStep /\ OutcomeStep
  <2>1. CASE StoreNext
    BY <2>1, RowSteps, TableSteps DEF StoreNext, SafeStep
  <2>2. CASE UNCHANGED storeVars
    <3>1. IInv'
      BY <2>2, InvariantIsInductive
    <3>2. UNCHANGED <<state, receipt, submits>>
      BY <2>2 DEF storeVars, rowVars
    <3>3. \A s \in Sends : submits[s] > 0 /\ state[s] \in {"prepared", "absent"} => receipt[EventOf[s]] # NoSend
      BY StoreAssumption DEF IInv, SubmissionsTraced, InFlightStates
    <3>4. FinalityStep /\ OutcomeStep
      BY <3>2, <3>3 DEF FinalityStep, OutcomeStep
    <3> QED BY <3>1, <3>4
  <2> QED BY <2>1, <2>2
<1>2. RowsGoOn
  BY RowsDoGoOn DEF IInv
<1> QED BY <1>1, <1>2

(* A thread that records a refusal has received one. *)
RefusalsKnown == \A t \in Threads : pc[t] = "reject" => cur[t] \in refused

(* Every step of a thread is sound, licenses a POST, or makes it. *)
LEMMA ThreadSteps ==
  ASSUME Typed, RefusalsKnown, NEW t \in Threads, Start(t) \/ Continue(t)
  PROVE  Sound(t) \/ Licenses(t, "post") \/ Licenses(t, "drop") \/ Post(t)
<1>1. CASE Start(t)
  BY <1>1, BeginIsSound, DueIsSound, SyncIsSound DEF Start
<1>2. CASE HandlerStep(t)
  <2>1. Reject(t) => cur[t] \in refused
    BY DEF Reject, At, RefusalsKnown
  <2> QED BY <1>2, <2>1, LoadIsSound, BaselineIsSound, SubmitIsSound, DropIsSound, AnswerIsSound, AckIsSound,
             UnsureIsSound, RejectIsSound, ClaimResponseIsSound DEF HandlerStep
<1>3. CASE BindStep(t)
  BY <1>3, StageIsSound, MoveIsSound, BindIsSound DEF BindStep
<1>4. CASE NoticeStep(t)
  BY <1>4, NotifyClaimIsSound, TellIsSound, FinishNoticeIsSound, ReleaseNoticeIsSound, PostponeIsSound DEF NoticeStep
<1>5. CASE FinishStep(t)
  BY <1>5, MapEventIsSound, UnmapIsSound, SucceedIsSound, CompleteIsSound, ParkIsSound, DeferIsSound DEF FinishStep
<1>6. CASE WorkerStep(t)
  BY <1>6, PurgeIsSound, CancelIsSound, RecoverIsSound, SettleIsSound DEF WorkerStep
<1>7. CASE SyncStep(t)
  BY <1>7, FetchIsSound, BindUnboundIsSound, FinishResolvedIsSound, MatchIsSound, ClaimIsSound, BrokenIsSound,
     HandoverIsSound, DeliverIsSound, PersistIsSound, RelockIsSound DEF SyncStep
<1>8. CASE Leave(t)
  BY <1>8, LeaveIsSound
<1> QED BY <1>1, <1>2, <1>3, <1>4, <1>5, <1>6, <1>7, <1>8 DEF Continue

(* Faults and time: threads stop or stay, and nothing is sent or said. *)
Outside ==
  /\ StoreQuiet /\ ThreadsOK' /\ WorldOK'
  /\ UNCHANGED netVars /\ told' = told
  /\ \A t \in Threads : pc'[t] = "idle" \/ (pc'[t] = pc[t] /\ cur'[t] = cur[t] /\ mem'[t] = mem[t])

(* Crashes, lost locks, deleted rooms and deleted conversations send        *)
(* nothing and say nothing.                                                 *)
LEMMA FaultsAreOutside ==
  ASSUME Typed, Faulty
  PROVE  Outside
<1>1. ASSUME NEW t \in Threads, ConversationGone(t)
      PROVE  Outside
  <2>1. TerminalizeConversation(Conv) /\ Conv \in Convs
    BY <1>1, OutboundAssumption DEF ConversationGone
  <2>2. StoreQuiet
    BY <2>1 DEF TerminalizeConversation, StoreQuiet, StoreNext, TableNext, NoNewRefusal, Typed, IInv, StoreTypeOK
  <2>3. WorldOK' /\ UNCHANGED netVars /\ told' = told
    BY <1>1, OutboundAssumption DEF ConversationGone, Typed, WorldOK, Spend, lockVars, netVars
  <2>4. ThreadsOK' /\ UNCHANGED threadVars
    BY <1>1 DEF ConversationGone, Typed, ThreadsOK, threadVars
  <2> QED BY <2>2, <2>3, <2>4 DEF Outside, threadVars
<1>2. ASSUME NEW r \in Rooms, RoomGone(r)
      PROVE  Outside
  <2>1. StoreQuiet
    BY <1>2, RoomsAreQuiet DEF RoomGone
  <2>2. WorldOK' /\ UNCHANGED netVars /\ told' = told
    BY <1>2, OutboundAssumption DEF RoomGone, Typed, WorldOK, Spend, lockVars, netVars
  <2>3. ThreadsOK' /\ UNCHANGED threadVars
    BY <1>2 DEF RoomGone, Typed, ThreadsOK, threadVars
  <2> QED BY <2>1, <2>2, <2>3 DEF Outside, threadVars
<1>3. CASE LoseSession
  <2>1. WorldOK' /\ UNCHANGED netVars /\ told' = told
    BY <1>3, OutboundAssumption DEF LoseSession, Typed, WorldOK, Spend, netVars
  <2>2. ThreadsOK' /\ UNCHANGED threadVars
    BY <1>3 DEF LoseSession, Typed, ThreadsOK, threadVars
  <2> QED BY <1>3, <2>1, <2>2, StoreStays DEF Outside, threadVars, LoseSession
<1>4. ASSUME NEW p \in Procs, Crash(p)
      PROVE  Outside
  <2> DEFINE dead == {t \in Threads : Host[t] = p}
  <2>1. Able("idle", NoSend, Idle)
    BY <1>4, IdlingIsAble DEF Crash
  <2>2. \A t \in Threads : \/ pc'[t] = "idle" /\ cur'[t] = NoSend /\ mem'[t] = Idle
                           \/ pc'[t] = pc[t] /\ cur'[t] = cur[t] /\ mem'[t] = mem[t]
    BY <1>4 DEF Crash
  <2>3. /\ pc' \in [Threads -> Labels]
        /\ cur' \in [Threads -> Sends \cup {NoSend}]
        /\ mem' \in [Threads -> Memories]
    BY <1>4, <2>1 DEF Crash, Typed, ThreadsOK, Able
  <2>4. ThreadsOK'
    BY <2>1, <2>2, <2>3 DEF Typed, ThreadsOK, Able
  <2>5. WorldOK' /\ UNCHANGED netVars /\ told' = told
    BY <1>4, OutboundAssumption DEF Crash, Typed, WorldOK, Spend, netVars
  <2> QED BY <1>4, <2>2, <2>4, <2>5, StoreStays DEF Outside, Crash
<1> QED BY <1>1, <1>2, <1>3, <1>4 DEF Faulty

(* The passing of time sends nothing and says nothing. *)
LEMMA TimeIsOutside ==
  ASSUME Typed, Time
  PROVE  Outside
<1>1. PICK s \in Sends : Clock(FallDue(s)) \/ Clock(LapseClaim(s)) \/ Clock(GrowOld(s))
  BY DEF Time
<1>2. StoreQuiet
  BY <1>1 DEF Clock, StoreQuiet, StoreNext, RowNext, NoNewRefusal, FallDue, LapseClaim, GrowOld
<1>3. UNCHANGED <<threadVars, lockVars, pending, netVars, told, boundVars>>
  BY <1>1 DEF Clock
<1>4. WorldOK' /\ ThreadsOK'
  BY <1>3 DEF Typed, ThreadsOK, WorldOK, threadVars, lockVars, netVars, boundVars
<1> QED BY <1>2, <1>3, <1>4 DEF Outside, threadVars

-----------------------------------------------------------------------------
(* The invariant. *)

(* A POST takes a licence, and a licence is one thread's. *)
Licensed ==
  /\ \A s \in Sends : posts[s] \in {0, 1} /\ (posts[s] = 1 => submits[s] = 1)
  /\ \A t \in Threads : pc[t] = "post" => submits[cur[t]] = 1 /\ posts[cur[t]] = 0
  /\ \A t, u \in Threads : pc[t] = "post" /\ pc[u] = "post" /\ cur[t] = cur[u] => t = u

(* Tumblr has, expects or has refused only what was posted, one of the three. *)
OnTumblr ==
  \A s \in Sends :
    /\ s \in inflight \cup refused \/ Own[s] \in landed => posts[s] = 1
    /\ ~(s \in inflight /\ s \in refused)
    /\ Own[s] \in landed => s \notin inflight \cup refused

(* The user has been told k of s, or a thread is about to say it. *)
Said(s, k) == \/ <<s, k>> \in told
              \/ \E t \in Threads : pc[t] = "tell" /\ cur[t] = s /\ mem[t].kind = k

(* s has ended, for good, without being on Tumblr. *)
Unsent(s) == /\ receipt[EventOf[s]] = s
             /\ state[s] \in {"not_submitted", "absent"}
             /\ submits[s] = 0 \/ s \in refused

(* s was submitted and will not be called not submitted. *)
Kept(s) == /\ submits[s] = 1
           /\ state[s] \in {"resolved", "completed", "unconfirmed", "absent"}
           /\ ~Said(s, "not_submitted")

(* What rows and statuses say of the sends is true of them. *)
Judged ==
  /\ RefusalsKnown
  /\ \A s \in Sends : state[s] = "not_submitted" \/ Said(s, "not_submitted") => Unsent(s)
  /\ \A s \in Sends : Said(s, "unconfirmed") \/ <<s, "success">> \in told => Kept(s)
  /\ \A t \in Threads : pc[t] \in Settling => Kept(cur[t])

OutboundInv == Typed /\ Licensed /\ OnTumblr /\ Judged

(* What a step of any kind does to what is said and refused. *)
Orderly ==
  /\ [StoreNext]_storeVars /\ NoNewRefusal
  /\ ThreadsOK'
  /\ refused \subseteq refused'
  /\ \A s \in Sends : submits'[s] = submits[s] \/ (state[s] = "prepared" /\ state'[s] = "submitting")
  /\ \A e \in told' \ told : \E t \in Threads : \/ pc[t] = "tell" /\ e = <<cur[t], mem[t].kind>>
                                                \/ pc[t] = "succeed" /\ e = <<cur[t], "success">>
  /\ \A t \in Threads : \/ pc'[t] = pc[t] /\ cur'[t] = cur[t] /\ mem'[t] = mem[t]
                        \/ Enters(t)

(* A send that ended without being on Tumblr stays so: its receipt is never *)
(* replaced and its event not prepared again (withTerminalReceipt).         *)
LEMMA UnsentStays ==
  ASSUME Typed, Orderly, NEW s \in Sends, Unsent(s)
  PROVE  Unsent(s)'
<1>1. IInv' /\ FinalityStep /\ RowsGoOn /\ IInv
  BY StoreSteps DEF Typed, Orderly
<1>2. EventOf[s] \in Events /\ s # NoSend
  BY StoreAssumption
<1>3. receipt'[EventOf[s]] = s
  BY <1>1, <1>2 DEF FinalityStep, Unsent
<1>4. state'[s] \in {"not_submitted", "absent"}
  <2>1. CASE state[s] = "not_submitted"
    BY <1>1, <2>1 DEF FinalityStep, IInv, ReceiptsMatch, EndStates, FailedStates
  <2>2. CASE state[s] = "absent"
    <3>1. state'[s] \in {"absent", "prepared"}
      BY <1>1, <2>2 DEF RowsGoOn
    <3>2. state'[s] # "prepared"
      BY <1>1, <1>2, <1>3 DEF IInv, ReceiptsMatch, EndStates, FailedStates, Present
    <3> QED BY <3>1, <3>2
  <2> QED BY <2>1, <2>2 DEF Unsent
<1>5. submits'[s] = 0 \/ s \in refused'
  BY DEF Orderly, Unsent
<1> QED BY <1>3, <1>4, <1>5 DEF Unsent

(* A failure that is said now was said before, or is the row's state        *)
(* (NotifyClaim reads the row before Tell).                                 *)
LEMMA SaidBefore ==
  ASSUME Typed, Orderly, NEW s \in Sends, NEW k \in FailedStates, Said(s, k)'
  PROVE  Said(s, k) \/ state[s] = k
<1>1. CASE <<s, k>> \in told'
  <2>1. ASSUME NEW t \in Threads, pc[t] = "tell", <<s, k>> = <<cur[t], mem[t].kind>>
        PROVE  Said(s, k)
    BY <2>1 DEF Said
  <2>2. k # "success"
    BY DEF FailedStates
  <2> QED BY <1>1, <2>1, <2>2 DEF Orderly, Said
<1>2. ASSUME NEW t \in Threads, pc'[t] = "tell", cur'[t] = s, mem'[t].kind = k
      PROVE  Said(s, k) \/ state[s] = k
  BY <1>2 DEF Orderly, Said, Enters
<1> QED BY <1>1, <1>2 DEF Said

(* An orderly step keeps the statuses true to the sends. *)
LEMMA OrderlyKeepsJudged ==
  ASSUME Typed, Judged, Orderly
  PROVE  Judged'
<1>1. IInv /\ IInv' /\ FinalityStep /\ OutcomeStep /\ RowsGoOn
  BY StoreSteps DEF Typed, Orderly
<1>2. RefusalsKnown'
  BY DEF Orderly, Enters, Judged, RefusalsKnown
<1>3. ASSUME NEW s \in Sends, (state[s] = "not_submitted" \/ Said(s, "not_submitted"))'
      PROVE  Unsent(s)'
  <2>1. CASE state[s] = "not_submitted" \/ Said(s, "not_submitted")
    BY <2>1, UnsentStays DEF Judged
  <2>2. CASE state'[s] = "not_submitted" /\ state[s] # "not_submitted"
    <3>1. receipt'[EventOf[s]] = s
      BY <1>1, <2>2 DEF IInv, ReceiptsMatch, EndStates, FailedStates
    <3>2. state[s] = "prepared" => submits'[s] = 0
      BY <1>1, <2>2, StoreAssumption DEF Orderly, IInv, SubmissionsTraced, ReceiptsMatch, InFlightStates, Present,
                                          EndStates, FailedStates
    <3>3. submits'[s] = 0 \/ s \in refused'
      BY <2>2, <3>2 DEF Orderly, NoNewRefusal
    <3> QED BY <2>2, <3>1, <3>3 DEF Unsent
  <2>3. CASE Said(s, "not_submitted")'
    BY <2>1, <2>3, SaidBefore DEF FailedStates
  <2> QED BY <1>3, <2>1, <2>2, <2>3
<1>4. ASSUME NEW s \in Sends, Kept(s)
      PROVE  Kept(s)'
  <2>1. submits'[s] = 1
    BY <1>4 DEF Orderly, Kept
  <2>2. state'[s] \in {"resolved", "completed", "unconfirmed", "absent"}
    BY <1>1, <1>4 DEF Kept, RowsGoOn, FinalityStep, OutcomeStep, IInv, ReceiptsMatch, EndStates, FailedStates
  <2>3. ~Said(s, "not_submitted")'
    BY <1>4, SaidBefore DEF Kept, FailedStates
  <2> QED BY <2>1, <2>2, <2>3 DEF Kept
<1>5. ASSUME NEW s \in Sends, state[s] = "unconfirmed"
      PROVE  Kept(s)
  <2>1. submits[s] = 1
    BY <1>1, <1>5 DEF IInv, SubmissionsTraced
  <2>2. ~Said(s, "not_submitted")
    BY <1>5 DEF Judged, Unsent
  <2> QED BY <1>5, <2>1, <2>2 DEF Kept
<1>6. ASSUME NEW s \in Sends, Said(s, "unconfirmed")'
      PROVE  Kept(s)'
  BY <1>4, <1>5, <1>6, SaidBefore DEF Judged, FailedStates
<1>7. ASSUME NEW s \in Sends, <<s, "success">> \in told'
      PROVE  Kept(s)'
  <2>1. CASE <<s, "success">> \in told
    BY <1>4, <2>1 DEF Judged
  <2>2. ASSUME NEW t \in Threads, pc[t] = "succeed", cur[t] = s
        PROVE  Kept(s)'
    BY <1>4, <2>2 DEF Judged, Settling
  <2>3. ASSUME NEW t \in Threads, pc[t] = "tell", mem[t].kind = "success"
        PROVE  FALSE
    BY <2>3, SendAtHand DEF FailedStates
  <2> QED BY <1>7, <2>1, <2>2, <2>3 DEF Orderly
<1>8. ASSUME NEW t \in Threads, pc'[t] \in Settling
      PROVE  Kept(cur[t])'
  <2>1. cur'[t] \in Sends
    BY <1>8 DEF Orderly, ThreadsOK, Equipped, Settling, SendLabels, FinishLabels
  <2>2. CASE pc[t] \in Settling /\ cur'[t] = cur[t]
    BY <1>4, <2>1, <2>2 DEF Judged
  <2>3. CASE state'[cur'[t]] = "resolved"
    <3>1. submits'[cur'[t]] = 1
      BY <1>1, <2>1, <2>3 DEF IInv, SubmissionsTraced, IdentityStates
    <3>2. ASSUME NEW s \in Sends, s = cur'[t] PROVE ~Said(s, "not_submitted")'
      BY <1>3, <2>3, <3>2 DEF Unsent
    <3>3. ASSUME NEW s \in Sends, s = cur'[t] PROVE Kept(s)'
      BY <2>3, <3>1, <3>2, <3>3 DEF Kept
    <3> QED BY <2>1, <3>3
  <2> QED BY <1>8, <2>2, <2>3 DEF Orderly, Enters
<1> QED BY <1>2, <1>3, <1>6, <1>7, <1>8 DEF Judged
-----------------------------------------------------------------------------
(* The steps that keep the invariant. *)

(* Steps of Tumblr, and steps of none: no thread and no row takes part. *)
Away ==
  /\ UNCHANGED <<storeVars, threadVars, told, posts>>
  /\ WorldOK' /\ refused \subseteq refused'

(* The kinds of steps of the system. *)
Kinds == \/ \E t \in Threads : Sound(t) \/ Licenses(t, "post") \/ Licenses(t, "drop") \/ Post(t)
         \/ Outside
         \/ Away /\ (Remote \/ UNCHANGED vars)

(* A step of any kind is orderly. *)
LEMMA EveryStepIsOrderly ==
  ASSUME Typed, Kinds
  PROVE  Orderly /\ WorldOK'
<1> USE DEF Orderly, NoNewRefusal, Enters, Settling
<1>1. ASSUME NEW t \in Threads, Sound(t)
      PROVE  Orderly /\ WorldOK'
  BY <1>1 DEF Sound, StoreQuiet, Reports, Alone, netVars
<1>2. ASSUME NEW t \in Threads, NEW l \in {"post", "drop"}, Licenses(t, l)
      PROVE  Orderly /\ WorldOK'
  <2>1. NoNewRefusal
    BY <1>2 DEF Licenses, Typed, IInv, StoreTypeOK
  <2>2. \A s \in Sends : submits'[s] = submits[s] \/ (state[s] = "prepared" /\ state'[s] = "submitting")
    BY <1>2 DEF Licenses, Typed, IInv, StoreTypeOK
  <2> QED BY <1>2, <2>1, <2>2 DEF Licenses, Alone, netVars
<1>3. ASSUME NEW t \in Threads, Post(t)
      PROVE  Orderly /\ WorldOK'
  BY <1>3, PostFacts DEF Post, Alone, storeVars, rowVars
<1>4. CASE Outside
  BY <1>4 DEF Outside, StoreQuiet, netVars
<1>5. CASE Away
  <2>1. ThreadsOK'
    BY <1>5 DEF Away, Typed, ThreadsOK, threadVars
  <2> QED BY <1>5, <2>1 DEF Away, threadVars, storeVars, rowVars
<1> QED BY <1>1, <1>2, <1>3, <1>4, <1>5 DEF Kinds

(* A step that neither licenses nor makes a POST keeps every POST licensed. *)
LEMMA StayingKeepsLicensed ==
  ASSUME Licensed, UNCHANGED <<posts, submits>>, 
         \A t \in Threads : pc'[t] = "post" => pc[t] = "post" /\ cur'[t] = cur[t]
  PROVE  Licensed'
BY DEF Licensed

(* A licence is given once: MarkSubmitting finds its row prepared, and no   *)
(* row of an event that was submitted is.                                   *)
LEMMA LicensingKeepsLicensed ==
  ASSUME Typed, Licensed, NEW t \in Threads, NEW l, Licenses(t, l)
  PROVE  Licensed'
<1> DEFINE s == cur[t]
<1>1. s \in Sends /\ EventOf[s] \in Events /\ s # NoSend
  BY StoreAssumption DEF Licenses
<1>2. submits[s] = 0
  BY <1>1 DEF Licenses, Typed, IInv, SubmissionsTraced, ReceiptsMatch, InFlightStates, Present, EndStates, FailedStates
<1>3. submits' \in [Sends -> Nat] /\ submits'[s] = 1 /\ \A r \in Sends \ {s} : submits'[r] = submits[r]
  BY <1>1, <1>2 DEF Licenses, Typed, IInv, StoreTypeOK
<1>4. \A u \in Threads : pc[u] = "post" => cur[u] \in Sends /\ cur[u] # s
  BY <1>2, SendAtHand DEF Licensed, SendLabels, HandlerLabels
<1>5. posts' = posts /\ posts[s] = 0
  BY <1>1, <1>2 DEF Licenses, Licensed, netVars
<1>6. \A r \in Sends : posts'[r] \in {0, 1} /\ (posts'[r] = 1 => submits'[r] = 1)
  BY <1>3, <1>5 DEF Licensed
<1>7. \A u \in Threads : pc'[u] = "post" => \/ u = t /\ cur'[u] = s
                                            \/ u # t /\ pc[u] = "post" /\ cur'[u] = cur[u]
  BY DEF Licenses, Alone
<1>8. \A u \in Threads : pc'[u] = "post" => submits'[cur'[u]] = 1 /\ posts'[cur'[u]] = 0
  BY <1>3, <1>4, <1>5, <1>7 DEF Licensed
<1>9. \A u, v \in Threads : pc'[u] = "post" /\ pc'[v] = "post" /\ cur'[u] = cur'[v] => u = v
  BY <1>4, <1>7 DEF Licensed
<1> QED BY <1>6, <1>8, <1>9 DEF Licensed

(* A POST uses up its licence. *)
LEMMA PostingKeepsLicensed ==
  ASSUME Typed, Licensed, NEW t \in Threads, Post(t)
  PROVE  Licensed'
<1> DEFINE s == cur[t]
<1>1. s \in Sends /\ pc[t] = "post" /\ Alone(t) /\ pc'[t] = "answer"
  BY PostFacts
<1>2. submits' = submits /\ submits[s] = 1 /\ posts[s] = 0
  BY <1>1 DEF Post, Licensed, storeVars
<1>3. posts'[s] = 1 /\ \A r \in Sends \ {s} : posts'[r] = posts[r]
  BY <1>1, <1>2 DEF Post, Typed, WorldOK
<1>4. \A u \in Threads : pc'[u] = "post" => /\ u # t /\ pc[u] = "post" /\ cur'[u] = cur[u]
                                            /\ cur[u] # s /\ cur[u] \in Sends
  BY <1>1, SendAtHand DEF Alone, Licensed, SendLabels, HandlerLabels
<1>5. \A r \in Sends : posts'[r] \in {0, 1} /\ (posts'[r] = 1 => submits'[r] = 1)
  BY <1>2, <1>3 DEF Licensed
<1>6. \A u \in Threads : pc'[u] = "post" => submits'[cur'[u]] = 1 /\ posts'[cur'[u]] = 0
  BY <1>2, <1>3, <1>4 DEF Licensed
<1>7. \A u, v \in Threads : pc'[u] = "post" /\ pc'[v] = "post" /\ cur'[u] = cur'[v] => u = v
  BY <1>4 DEF Licensed
<1> QED BY <1>5, <1>6, <1>7 DEF Licensed

(* A POST puts its send on its way, where it was not and had not been. *)
LEMMA PostingKeepsOnTumblr ==
  ASSUME Typed, Licensed, OnTumblr, NEW t \in Threads, Post(t)
  PROVE  OnTumblr'
<1> DEFINE s == cur[t]
<1>1. s \in Sends /\ posts[s] = 0
  BY PostFacts DEF Licensed
<1>2. posts'[s] = 1 /\ \A r \in Sends \ {s} : posts'[r] = posts[r]
  BY <1>1 DEF Post, Typed, WorldOK
<1>3. UNCHANGED <<landed, refused>> /\ inflight' = inflight \cup {s}
  BY DEF Post
<1>4. s \notin refused /\ Own[s] \notin landed
  BY <1>1 DEF OnTumblr
<1> QED BY <1>1, <1>2, <1>3, <1>4 DEF OnTumblr

(* Tumblr accepts or refuses only what is on its way. *)
LEMMA RemoteKeepsOnTumblr ==
  ASSUME Typed, OnTumblr, Remote
  PROVE  OnTumblr' /\ Away
<1>1. ASSUME NEW s \in Sends, Land(s)
      PROVE  OnTumblr' /\ Away
  <2>1. Away
    BY <1>1, OutboundAssumption DEF Land, Away, Typed, WorldOK, lockVars, boundVars
  <2>2. \A r \in Sends : Own[r] \in landed' => Own[r] \in landed \/ r = s
    BY <1>1, OutboundAssumption DEF Land
  <2> QED BY <1>1, <2>1, <2>2 DEF Land, OnTumblr
<1>2. ASSUME NEW s \in Sends, Refuse(s)
      PROVE  OnTumblr' /\ Away
  <2>1. Away
    BY <1>2 DEF Refuse, Away, Typed, WorldOK, lockVars, boundVars
  <2> QED BY <1>2, <2>1 DEF Refuse, OnTumblr
<1>3. ASSUME NEW m \in Remotes, Write(m)
      PROVE  OnTumblr' /\ Away
  <2>1. faults' \in 0..MaxFaults /\ calls' = calls /\ landed' \subseteq Remotes
    <3>1. faults \in 0..MaxFaults /\ landed \subseteq Remotes
      BY DEF Typed, WorldOK
    <3>2. faults < MaxFaults /\ faults' = faults + 1 /\ calls' = calls /\ landed' = landed \cup {m}
      BY <1>3 DEF Write, Spend
    <3> QED BY <3>1, <3>2, OutboundAssumption
  <2>2. UNCHANGED <<storeVars, threadVars, told, posts, lockVars, pending, inflight, refused>>
    BY <1>3 DEF Write
  <2>3. WorldOK'
    BY <2>1, <2>2 DEF Typed, WorldOK, lockVars
  <2>4. Away
    BY <2>2, <2>3 DEF Away
  <2>5. \A r \in Sends : Own[r] \in landed' => Own[r] \in landed
    BY <1>3 DEF Write, Foreign
  <2> QED BY <1>3, <2>5, <2>4 DEF Write, OnTumblr
<1> QED BY <1>1, <1>2, <1>3 DEF Remote

(* Every step of the system is of one of the kinds. *)
LEMMA StepsAreOfAKind ==
  ASSUME OutboundInv, [Next]_vars
  PROVE  Kinds
<1>1. Typed /\ RefusalsKnown /\ OnTumblr
  BY DEF OutboundInv, Judged
<1>2. CASE \E t \in Threads : Start(t) \/ Continue(t)
  BY <1>1, <1>2, ThreadSteps DEF Kinds
<1>3. CASE Faulty
  BY <1>1, <1>3, FaultsAreOutside DEF Kinds
<1>4. CASE Remote
  BY <1>1, <1>4, RemoteKeepsOnTumblr DEF Kinds
<1>5. CASE Time
  BY <1>1, <1>5, TimeIsOutside DEF Kinds
<1>6. CASE UNCHANGED vars
  <2>1. Away
    BY <1>1, <1>6 DEF Away, vars, Typed, WorldOK, lockVars, netVars, boundVars
  <2> QED BY <1>6, <2>1 DEF Kinds
<1> QED BY <1>2, <1>3, <1>4, <1>5, <1>6 DEF Next

(* Every step of the system keeps the invariant. *)
LEMMA OutboundInvIsInductive ==
  ASSUME OutboundInv, [Next]_vars
  PROVE  OutboundInv' /\ Orderly
<1>1. Typed /\ Licensed /\ OnTumblr /\ Judged
  BY DEF OutboundInv
<1>2. Kinds
  BY StepsAreOfAKind
<1>3. Orderly /\ WorldOK'
  BY <1>1, <1>2, EveryStepIsOrderly
<1>4. Typed'
  BY <1>1, <1>3, StoreSteps DEF Typed, Orderly
<1>5. Judged'
  BY <1>1, <1>3, OrderlyKeepsJudged
<1>6. Licensed' /\ OnTumblr'
  <2>1. ASSUME NEW t \in Threads, Sound(t)
        PROVE  Licensed' /\ OnTumblr'
    <3>1. \A u \in Threads : pc'[u] = "post" => pc[u] = "post" /\ cur'[u] = cur[u]
      BY <2>1 DEF Sound, Alone
    <3>2. UNCHANGED <<posts, submits>> /\ UNCHANGED netVars
      BY <2>1 DEF Sound, StoreQuiet, netVars
    <3> QED BY <1>1, <3>1, <3>2, StayingKeepsLicensed DEF OnTumblr, netVars
  <2>2. ASSUME NEW t \in Threads, NEW l, Licenses(t, l)
        PROVE  Licensed' /\ OnTumblr'
    BY <1>1, <2>2, LicensingKeepsLicensed DEF Licenses, OnTumblr, netVars
  <2>3. ASSUME NEW t \in Threads, Post(t)
        PROVE  Licensed' /\ OnTumblr'
    BY <1>1, <2>3, PostingKeepsLicensed, PostingKeepsOnTumblr
  <2>4. CASE Outside
    <3>1. \A u \in Threads : pc'[u] = "post" => pc[u] = "post" /\ cur'[u] = cur[u]
      BY <2>4 DEF Outside
    <3>2. UNCHANGED <<posts, submits>> /\ UNCHANGED netVars
      BY <2>4 DEF Outside, StoreQuiet, netVars
    <3> QED BY <1>1, <3>1, <3>2, StayingKeepsLicensed DEF OnTumblr, netVars
  <2>5. CASE Away /\ (Remote \/ UNCHANGED vars)
    <3>1. UNCHANGED <<posts, submits, pc, cur>>
      BY <2>5 DEF Away, storeVars, threadVars
    <3>2. OnTumblr'
      BY <1>1, <2>5, RemoteKeepsOnTumblr DEF OnTumblr, vars, netVars
    <3> QED BY <1>1, <3>1, <3>2, StayingKeepsLicensed
  <2> QED BY <1>2, <2>1, <2>2, <2>3, <2>4, <2>5 DEF Kinds
<1> QED BY <1>3, <1>4, <1>5, <1>6 DEF OutboundInv

(* A bridge with empty tables, and any conversation on Tumblr, satisfies    *)
(* the invariant.                                                           *)
LEMMA OutboundInvHoldsInitially ==
  ASSUME Init
  PROVE  OutboundInv
<1>1. IInv
  BY InvariantHoldsInitially DEF Init
<1>2. ThreadsOK
  <2>1. \A t \in Threads : pc[t] = "idle" /\ cur[t] = NoSend /\ mem[t] = Idle
    BY DEF Init
  <2>2. "idle" \in Labels /\ "leave" \in Labels /\ Idle \in Memories
    BY DEF Idle, Memories, Labels
  <2>3. Equipped("idle", NoSend, Idle)
    BY DEF Equipped, Idle, Returns, SendLabels, MessageLabels, HandlerLabels, BindLabels, NoticeLabels, FinishLabels
  <2> QED BY <2>1, <2>2, <2>3 DEF Init, ThreadsOK
<1>3. WorldOK
  BY OutboundAssumption DEF Init, WorldOK, Foreign
<1>4. Licensed
  BY DEF Init, Licensed
<1>5. OnTumblr
  BY OutboundAssumption DEF Init, OnTumblr, Foreign
<1>6. Judged
  BY DEF Init, StoreInit, Judged, RefusalsKnown, Said, Settling
<1> QED BY <1>1, <1>2, <1>3, <1>4, <1>5, <1>6 DEF OutboundInv, Typed

-----------------------------------------------------------------------------
(* The theorems. *)

(* Whatever the threads, the failures, Tumblr and the user do, the outbox   *)
(* keeps its invariant, a POST is made only under the licence of its row,   *)
(* Tumblr has or refuses only what was posted, and what a row or a status   *)
(* says of a send agrees with what was done to it.                          *)
THEOREM OutboundInvariantHolds == Spec => []OutboundInv
<1>1. Init => OutboundInv
  BY OutboundInvHoldsInitially
<1>2. OutboundInv /\ [Next]_vars => OutboundInv'
  BY OutboundInvIsInductive
<1> QED BY <1>1, <1>2, PTL DEF Spec

(* Every variable keeps its type: no step leaves a thread at a label or with *)
(* local state that the code does not have.                                  *)
THEOREM OutboundTypesHold == Spec => []OutboundTypeOK
<1>1. OutboundInv => OutboundTypeOK
  BY DEF OutboundInv, Typed, IInv, ThreadsOK, WorldOK, OutboundTypeOK
<1> QED BY <1>1, OutboundInvariantHolds, PTL

(* The handlers, the workers and the syncs change the tables by the outbox's *)
(* statements only, so what OutboundStore promises holds of the system       *)
(* (outbound_store.go is the one place that writes tumblr_outbound).         *)
THEOREM ImplementsStore == Spec => UsesStore
<1>1. Init => StoreInit
  BY DEF Init
<1>2. OutboundInv /\ [Next]_vars => [StoreNext]_storeVars
  BY OutboundInvIsInductive DEF Orderly
<1> QED BY <1>1, <1>2, OutboundInvariantHolds, PTL DEF Spec, UsesStore, StoreSpec

(* A send leaves for Tumblr at most once, whatever is delivered again,       *)
(* crashes or loses its lock between the row and the POST (MarkSubmitting    *)
(* licenses the POST of sendMatrixMessageToTumblr).                          *)
THEOREM PostedOnce == Spec => []AtMostOnePost
<1>1. OutboundInv => AtMostOnePost
  BY DEF OutboundInv, Licensed, AtMostOnePost
<1> QED BY <1>1, OutboundInvariantHolds, PTL

(* A send that is recorded or reported as not submitted is not on Tumblr, is *)
(* not on its way and was not reported as delivered, so that writing the     *)
(* message again cannot double it (finishOutboundNotSubmitted).              *)
THEOREM FailuresAreCertain == Spec => []CertainFailure
<1>1. OutboundInv => CertainFailure
  <2> SUFFICES ASSUME OutboundInv, NEW s \in Sends,
                      state[s] = "not_submitted" \/ <<s, "not_submitted">> \in told
               PROVE  Own[s] \notin landed /\ s \notin inflight /\ <<s, "success">> \notin told
    BY DEF CertainFailure
  <2>1. Unsent(s)
    BY DEF OutboundInv, Judged, Said
  <2>2. <<s, "success">> \notin told
    BY <2>1 DEF OutboundInv, Judged, Unsent, Kept, Said
  <2>3. CASE submits[s] = 0
    BY <2>2, <2>3 DEF OutboundInv, Licensed, OnTumblr
  <2>4. CASE s \in refused
    BY <2>2, <2>4 DEF OutboundInv, OnTumblr
  <2> QED BY <2>1, <2>3, <2>4 DEF Unsent
<1> QED BY <1>1, OutboundInvariantHolds, PTL
-----------------------------------------------------------------------------
(* The system keeps the outbox's promise. *)

(* The user's view of the sends. *)
Heard == [s \in Sends |-> {k \in Verdicts : <<s, k>> \in told}]

(* A status that the promise allows is a step of the promise. *)
LEMMA TellingKeepsPromise ==
  ASSUME NEW s \in Sends, NEW k \in Verdicts,
         Journey' = Journey, Heard' = [Heard EXCEPT ![s] = @ \cup {k}],
         k = "not_submitted" => Journey[s] \in {"unsent", "refused"} /\ Heard[s] \subseteq {k},
         k # "not_submitted" => "not_submitted" \notin Heard[s]
  PROVE  Promise!PromiseNext
BY DEF Promise!PromiseNext, Promise!Rule, Verdicts, FailedStates, Heard

(* A sound step of a thread says at most one status, and one that the       *)
(* promise allows.                                                          *)
LEMMA ReportingKeepsPromise ==
  ASSUME OutboundInv, NEW t \in Threads, Sound(t)
  PROVE  Promise!PromiseNext \/ (Journey' = Journey /\ Heard' = Heard)
<1> DEFINE s == cur[t]
<1>1. Journey' = Journey
  BY DEF Sound, netVars, Journey
<1>2. ASSUME NEW k \in Verdicts, s \in Sends, told' = told \cup {<<s, k>>}
      PROVE  Heard' = [Heard EXCEPT ![s] = @ \cup {k}]
  <2>1. ASSUME NEW r \in Sends
        PROVE  Heard'[r] = [Heard EXCEPT ![s] = @ \cup {k}][r]
    <3>1. CASE r = s
      BY <1>2, <3>1 DEF Heard
    <3>2. CASE r # s
      BY <1>2, <3>2 DEF Heard
    <3> QED BY <3>1, <3>2
  <2> QED BY <2>1 DEF Heard
<1>3. CASE pc[t] = "tell" /\ <<s, mem[t].kind>> \in told'
  <2> DEFINE k == mem[t].kind
  <2>1. s \in Sends /\ k \in FailedStates /\ k \in Verdicts
    BY <1>3, SendAtHand DEF OutboundInv, SendLabels, NoticeLabels, Verdicts
  <2>2. told' = told \cup {<<s, k>>}
    BY <1>3 DEF Sound, Reports
  <2>3. Said(s, k)
    BY <1>3 DEF Said
  <2>4. CASE k = "not_submitted"
    <3>1. Unsent(s)
      BY <2>1, <2>3, <2>4 DEF OutboundInv, Judged
    <3>2. s \notin inflight /\ (posts[s] = 0 \/ s \in refused)
      BY <2>1, <3>1 DEF Unsent, OutboundInv, Licensed, OnTumblr
    <3>3. Journey[s] \in {"unsent", "refused"}
      BY <2>1, <3>2 DEF Journey
    <3>4. Heard[s] \subseteq {k}
      BY <2>1, <2>3, <2>4 DEF Heard, Verdicts, FailedStates, OutboundInv, Judged, Kept, Said
    <3> QED BY <1>1, <1>2, <2>1, <2>2, <2>4, <3>3, <3>4, TellingKeepsPromise
  <2>5. CASE k = "unconfirmed"
    <3>1. Kept(s)
      BY <2>1, <2>3, <2>5 DEF OutboundInv, Judged
    <3>2. "not_submitted" \notin Heard[s]
      BY <2>1, <3>1 DEF Heard, Kept, Said
    <3> QED BY <1>1, <1>2, <2>1, <2>2, <2>5, <3>2, TellingKeepsPromise
  <2> QED BY <2>1, <2>4, <2>5 DEF FailedStates
<1>4. CASE pc[t] = "succeed" /\ <<s, "success">> \in told'
  <2>1. s \in Sends /\ "success" \in Verdicts
    BY <1>4, SendAtHand DEF OutboundInv, SendLabels, FinishLabels, Verdicts
  <2>2. told' = told \cup {<<s, "success">>}
    BY <1>4 DEF Sound, Reports
  <2>3. Kept(s)
    BY <1>4 DEF OutboundInv, Judged, Settling
  <2>4. "not_submitted" \notin Heard[s]
    BY <2>1, <2>3 DEF Heard, Kept, Said
  <2> QED BY <1>1, <1>2, <2>1, <2>2, <2>4, TellingKeepsPromise
<1>5. CASE told' = told
  BY <1>1, <1>5 DEF Heard
<1> QED BY <1>3, <1>4, <1>5 DEF Sound, Reports

(* A POST is the departure of the promise. *)
LEMMA PostingKeepsPromise ==
  ASSUME OutboundInv, NEW t \in Threads, Post(t)
  PROVE  Promise!PromiseNext
<1> DEFINE s == cur[t]
<1>1. s \in Sends /\ posts[s] = 0 /\ submits[s] = 1 /\ Typed
  BY PostFacts DEF OutboundInv, Licensed
<1>2. s \notin inflight \cup refused
  BY <1>1 DEF OutboundInv, OnTumblr
<1>3. "not_submitted" \notin Heard[s] /\ Heard' = Heard
  BY <1>1, <1>2 DEF Heard, OutboundInv, Judged, Said, Unsent, Post
<1>4. posts' = [posts EXCEPT ![s] = 1] /\ inflight' = inflight \cup {s} /\ refused' = refused
  BY <1>1 DEF Post, Typed, WorldOK
<1>5. Journey[s] = "unsent"
  BY <1>1, <1>2 DEF Journey
<1>6. Journey' = [Journey EXCEPT ![s] = "travelling"]
  <2>1. ASSUME NEW r \in Sends
        PROVE  Journey'[r] = [Journey EXCEPT ![s] = "travelling"][r]
    <3>1. CASE r = s
      BY <1>1, <1>2, <1>4, <3>1 DEF Journey, Typed, WorldOK
    <3>2. CASE r # s
      BY <1>1, <1>2, <1>4, <3>2 DEF Journey, Typed, WorldOK
    <3> QED BY <3>1, <3>2
  <2> QED BY <2>1 DEF Journey
<1> QED BY <1>1, <1>3, <1>5, <1>6 DEF Promise!PromiseNext, Promise!Depart, Heard

(* What Tumblr does to a send on its way is the end of its travel; what     *)
(* others write is nothing to the promise.                                  *)
LEMMA TumblrKeepsPromise ==
  ASSUME OutboundInv, Remote
  PROVE  Promise!PromiseNext \/ (Journey' = Journey /\ Heard' = Heard)
<1>1. ASSUME NEW s \in Sends, Land(s) \/ Refuse(s)
      PROVE  Promise!PromiseNext
  <2>1. s \in inflight /\ inflight' = inflight \ {s} /\ posts' = posts /\ told' = told
        /\ refused' \in {refused, refused \cup {s}}
    BY <1>1 DEF Land, Refuse
  <2>2. posts[s] = 1 /\ s \notin refused
    BY <2>1 DEF OutboundInv, OnTumblr
  <2>3. Journey[s] = "travelling" /\ Heard' = Heard
    BY <2>1, <2>2 DEF Journey, Heard
  <2> DEFINE end == IF s \in refused' THEN "refused" ELSE "arrived"
  <2>4. Journey' = [Journey EXCEPT ![s] = end]
    <3>1. ASSUME NEW r \in Sends
          PROVE  Journey'[r] = [Journey EXCEPT ![s] = end][r]
      <4>1. CASE r = s
        BY <2>1, <2>2, <4>1 DEF Journey
      <4>2. CASE r # s
        BY <2>1, <4>2 DEF Journey
      <4> QED BY <4>1, <4>2
    <3> QED BY <3>1 DEF Journey
  <2> QED BY <2>3, <2>4 DEF Promise!PromiseNext, Promise!Finish, Heard
<1>2. ASSUME NEW m \in Remotes, Write(m)
      PROVE  Journey' = Journey /\ Heard' = Heard
  BY <1>2 DEF Write, Journey, Heard
<1> QED BY <1>1, <1>2 DEF Remote

(* Seen by its user, a send keeps the outbox's promise: it leaves once, and  *)
(* "not submitted" is said only of one that did not leave or was refused,    *)
(* and never before or after another verdict (outboundNotSubmittedMessage).  *)
THEOREM PromiseKept == Spec => KeepsPromise
<1>1. Init => Promise!PromiseInit
  BY DEF Init, Promise!PromiseInit, Journey
<1>2. OutboundInv /\ [Next]_vars => [Promise!PromiseNext]_(Promise!promiseVars)
  <2> SUFFICES ASSUME OutboundInv, [Next]_vars
               PROVE  Promise!PromiseNext \/ (Journey' = Journey /\ Heard' = Heard)
    BY DEF Promise!promiseVars, Heard
  <2>1. ASSUME NEW t \in Threads, NEW l, Licenses(t, l)
        PROVE  Journey' = Journey /\ Heard' = Heard
    BY <2>1 DEF Licenses, netVars, Journey, Heard
  <2>2. CASE Outside
    BY <2>2 DEF Outside, netVars, Journey, Heard
  <2>3. CASE UNCHANGED vars
    BY <2>3 DEF vars, netVars, Journey, Heard
  <2> QED BY <2>1, <2>2, <2>3, StepsAreOfAKind, ReportingKeepsPromise, PostingKeepsPromise, TumblrKeepsPromise DEF Kinds
<1> QED BY <1>1, <1>2, OutboundInvariantHolds, PTL DEF Spec, KeepsPromise, Promise!PromiseSpec

-----------------------------------------------------------------------------
(* What a row and a status say is so. *)

(* m is in the conversation and has the content of s. *)
Real(s, m) == m \in landed /\ Content[m] = Content[s]

(* s stands for m in its room, unless the room is gone. *)
Shown(s, m) == \/ owner[RoomOf[s]] = NoConv
               \/ owner[RoomOf[s]] = Conv /\ mapped[m] = EventOf[s] /\ Real(s, m)

(* s has ended with the verdict k, or ended with it and was deleted. *)
Ended(s, k) == receipt[EventOf[s]] = s /\ state[s] \in {k, "absent"}

(* What the rows and the statuses say of one another. *)
RowsTrue ==
  /\ OneRoomPerConv
  /\ \A s \in Sends :
       /\ remoteID[s] # NoRemote => Real(s, remoteID[s])
       /\ <<s, "success">> \in told => \E m \in Remotes : Shown(s, m)
       /\ state[s] = "completed" => <<s, "success">> \in told
       /\ s \in notified => <<s, state[s]>> \in told
       /\ Present(s) \/ submits[s] = 0 \/ \E k \in FailedStates : <<s, k>> \in told

(* What a thread has read, decided or done is true of the send it holds. *)
ThreadTrue(t) ==
  /\ mem[t].view \subseteq landed
  /\ \A e \in mem[t].plan : Real(e[1], e[2])
  /\ pc[t] = "map" => Real(cur[t], mem[t].rid)
  /\ pc[t] = "succeed" => Shown(cur[t], mem[t].rid)
  /\ pc[t] = "complete" => <<cur[t], "success">> \in told
  /\ pc[t] \in {"tell", "finish_notice"} => Ended(cur[t], mem[t].kind)
  /\ pc[t] = "finish_notice" => <<cur[t], mem[t].kind>> \in told

ReportInv == RowsTrue /\ \A t \in Threads : ThreadTrue(t)

-----------------------------------------------------------------------------
(* What the statements do to what a status stands for. *)

(* The statements over one row leave the framework's tables alone. *)
LEMMA RowsLeaveRooms ==
  ASSUME NEW s \in Sends, RowNext(s)
  PROVE  UNCHANGED <<mapped, owner>>
BY DEF RowNext, Insert, PrepareConversationBinding, BindConversation, MarkSubmitting, MarkAwaitingEcho, MarkUncertain,
       ClaimRemoteMessage, MarkResolvedUnconfirmed, MarkCompleted, ClaimPreparedNotSubmitted,
       MarkSubmittingNotSubmitted, MarkUnconfirmed, Terminate, ClaimStatusDelivery, FinishStatusDelivery,
       ReleaseStatusDelivery, ScheduleRetry, DeletePrepared, DeleteFailed, EraseRow, FallDue, LapseClaim, GrowOld

(* A conversation keeps one room, and a message keeps its event as long as  *)
(* the room of that event is there (ReIDPortal, portal.Delete).             *)
LEMMA RoomsKeepShowing ==
  ASSUME IInv, OneRoomPerConv, [StoreNext]_storeVars
  PROVE  /\ OneRoomPerConv'
         /\ \A r \in Rooms : owner[r] = NoConv => owner'[r] = NoConv
         /\ \A r \in Rooms, m \in Remotes, e \in Events :
              owner[r] = Conv /\ mapped[m] = e => owner'[r] = NoConv \/ (owner'[r] = Conv /\ mapped'[m] = e)
<1> DEFINE Stays(r, m, e) == owner[r] = Conv /\ mapped[m] = e =>
                               owner'[r] = NoConv \/ (owner'[r] = Conv /\ mapped'[m] = e)
<1>1. Convs = {Conv} /\ NoConv # Conv /\ Draft # Conv /\ NoConv # Draft /\ Unmapped \notin Events
  BY OutboundAssumption, StoreAssumption
<1>2. owner \in [Rooms -> {Conv, NoConv, Draft}] /\ mapped \in [Remotes -> Events \cup {Unmapped, Ordinary}]
  BY <1>1 DEF IInv, StoreTypeOK
<1>3. CASE UNCHANGED <<mapped, owner>>
  BY <1>3 DEF OneRoomPerConv
<1>4. ASSUME NEW m \in Remotes, NEW e \in Events \cup {Ordinary}, MapMessage(m, e)
      PROVE  /\ OneRoomPerConv'
             /\ \A r \in Rooms : owner[r] = NoConv => owner'[r] = NoConv
             /\ \A r \in Rooms, n \in Remotes, f \in Events : Stays(r, n, f)
  BY <1>1, <1>2, <1>4 DEF MapMessage, OneRoomPerConv
<1>5. ASSUME NEW q \in Rooms, MoveRoom(q, Conv)
      PROVE  /\ OneRoomPerConv'
             /\ \A r \in Rooms : owner[r] = NoConv => owner'[r] = NoConv
             /\ \A r \in Rooms, m \in Remotes, e \in Events : Stays(r, m, e)
  BY <1>1, <1>2, <1>5 DEF MoveRoom, OneRoomPerConv
<1>6. ASSUME NEW q \in Rooms, LoseRoom(q)
      PROVE  /\ OneRoomPerConv'
             /\ \A r \in Rooms : owner[r] = NoConv => owner'[r] = NoConv
             /\ \A r \in Rooms, m \in Remotes, e \in Events : Stays(r, m, e)
  <2>1. owner' = [owner EXCEPT ![q] = NoConv]
    BY <1>6 DEF LoseRoom
  <2>2. OneRoomPerConv' /\ \A r \in Rooms : owner[r] = NoConv => owner'[r] = NoConv
    BY <1>1, <1>2, <2>1 DEF OneRoomPerConv
  <2>3. ASSUME NEW r \in Rooms, NEW m \in Remotes, NEW e \in Events, owner[r] = Conv, mapped[m] = e
        PROVE  owner'[r] = NoConv \/ (owner'[r] = Conv /\ mapped'[m] = e)
    <3>1. CASE r = q
      BY <1>2, <2>1, <3>1
    <3>2. CASE r # q
      <4>1. owner[q] \notin Convs
        BY <1>1, <2>3, <3>2 DEF OneRoomPerConv
      <4> QED BY <1>2, <1>6, <2>1, <2>3, <3>2, <4>1 DEF LoseRoom
    <3> QED BY <3>1, <3>2
  <2> QED BY <2>2, <2>3
<1>7. CASE TableNext
  <2>1. (\E c \in Convs : TerminalizeConversation(c)) => UNCHANGED <<mapped, owner>>
    BY DEF TerminalizeConversation
  <2> QED BY <1>1, <1>3, <1>4, <1>5, <1>6, <1>7, <2>1 DEF TableNext
<1>8. UNCHANGED storeVars => UNCHANGED <<mapped, owner>>
  BY DEF storeVars
<1> QED BY <1>3, <1>7, <1>8, RowsLeaveRooms DEF StoreNext

(* A row is deleted before its POST, or once its user was told              *)
(* (deletePreparedOutboundSendQuery, deleteUnconfirmedOutboundSendQuery).   *)
ErasedRight ==
  \A s \in Sends : Present(s) /\ state'[s] = "absent" =>
                     state[s] = "prepared" \/ (s \in notified /\ state[s] \in FailedStates)

(* No other statement deletes a row. *)
LEMMA RowsAreErasedRight ==
  ASSUME StoreTypeOK, [StoreNext]_storeVars
  PROVE  ErasedRight
<1> USE DEF ErasedRight, Present, StoreTypeOK, SetState
<1>1. ASSUME NEW s \in Sends, RowNext(s) PROVE ErasedRight
  <2>1. CASE \E c \in Convs \cup {NoConv} : Insert(s, c)
    BY <2>1 DEF Insert
  <2>2. CASE \E c \in Convs : PrepareConversationBinding(s, c) \/ BindConversation(s, c)
    BY <2>2 DEF PrepareConversationBinding, BindConversation
  <2>3. CASE (\E base \in Baselines : MarkSubmitting(s, base)) \/ MarkAwaitingEcho(s) \/ MarkUncertain(s)
    BY <2>3 DEF MarkSubmitting, MarkAwaitingEcho, MarkUncertain
  <2>4. CASE \E m \in Remotes : \/ ClaimRemoteMessage(s, m)
                                \/ MarkResolvedUnconfirmed(s, m)
                                \/ MarkCompleted(s, m)
    BY <2>4 DEF ClaimRemoteMessage, MarkResolvedUnconfirmed, MarkCompleted, Terminate
  <2>5. CASE ClaimPreparedNotSubmitted(s) \/ MarkSubmittingNotSubmitted(s) \/ MarkUnconfirmed(s)
    BY <2>5 DEF ClaimPreparedNotSubmitted, MarkSubmittingNotSubmitted, MarkUnconfirmed, Terminate
  <2>6. CASE \E k \in Tokens : \/ ClaimStatusDelivery(s, k)
                               \/ FinishStatusDelivery(s, k)
                               \/ ReleaseStatusDelivery(s, k)
    BY <2>6 DEF ClaimStatusDelivery, FinishStatusDelivery, ReleaseStatusDelivery
  <2>7. CASE DeletePrepared(s) \/ DeleteFailed(s)
    BY <2>7 DEF DeletePrepared, DeleteFailed, EraseRow
  <2>8. CASE ScheduleRetry(s) \/ FallDue(s) \/ LapseClaim(s) \/ GrowOld(s)
    BY <2>8 DEF ScheduleRetry, FallDue, LapseClaim, GrowOld
  <2> QED BY <1>1, <2>1, <2>2, <2>3, <2>4, <2>5, <2>6, <2>7, <2>8 DEF RowNext
<1>2. CASE TableNext
  BY <1>2 DEF TableNext, TerminalizeConversation, MapMessage, LoseRoom, MoveRoom, rowVars
<1>3. CASE UNCHANGED storeVars
  BY <1>3 DEF storeVars, rowVars
<1> QED BY <1>1, <1>2, <1>3 DEF StoreNext

(* A statement that completes no row, records no notice and claims no       *)
(* message.                                                                 *)
StoreCalm ==
  \A s \in Sends : /\ state'[s] = "completed" => state[s] = "completed"
                   /\ s \in notified' => s \in notified
                   /\ remoteID'[s] \in {remoteID[s], NoRemote}

(* Most statements do none of that. *)
LEMMA CalmStatements ==
  ASSUME Typed, NEW s \in Sends
  PROVE  /\ \A c : Insert(s, c) => StoreCalm
         /\ \A c : PrepareConversationBinding(s, c) \/ BindConversation(s, c) => StoreCalm
         /\ \A V : MarkSubmitting(s, V) => StoreCalm
         /\ MarkAwaitingEcho(s) \/ MarkUncertain(s) => StoreCalm
         /\ ClaimPreparedNotSubmitted(s) \/ MarkSubmittingNotSubmitted(s) \/ MarkUnconfirmed(s) => StoreCalm
         /\ \A m : MarkResolvedUnconfirmed(s, m) => StoreCalm
         /\ \A k : ClaimStatusDelivery(s, k) \/ ReleaseStatusDelivery(s, k) => StoreCalm
         /\ ScheduleRetry(s) \/ DeletePrepared(s) \/ DeleteFailed(s) => StoreCalm
         /\ FallDue(s) \/ LapseClaim(s) \/ GrowOld(s) => StoreCalm
<1> USE DEF Typed, IInv, StoreTypeOK, StoreCalm, SetState, Terminate, EraseRow, claimVars
<1>1. \A c : Insert(s, c) => StoreCalm
  BY DEF Insert
<1>2. \A c : PrepareConversationBinding(s, c) \/ BindConversation(s, c) => StoreCalm
  BY DEF PrepareConversationBinding, BindConversation
<1>3. \A V : MarkSubmitting(s, V) => StoreCalm
  BY DEF MarkSubmitting
<1>4. MarkAwaitingEcho(s) \/ MarkUncertain(s) => StoreCalm
  BY DEF MarkAwaitingEcho, MarkUncertain
<1>5. ClaimPreparedNotSubmitted(s) \/ MarkSubmittingNotSubmitted(s) \/ MarkUnconfirmed(s) => StoreCalm
  BY DEF ClaimPreparedNotSubmitted, MarkSubmittingNotSubmitted, MarkUnconfirmed
<1>6. \A m : MarkResolvedUnconfirmed(s, m) => StoreCalm
  BY DEF MarkResolvedUnconfirmed
<1>7. \A k : ClaimStatusDelivery(s, k) \/ ReleaseStatusDelivery(s, k) => StoreCalm
  BY DEF ClaimStatusDelivery, ReleaseStatusDelivery
<1>8. ScheduleRetry(s) \/ DeletePrepared(s) \/ DeleteFailed(s) => StoreCalm
  BY DEF ScheduleRetry, DeletePrepared, DeleteFailed
<1>9. FallDue(s) \/ LapseClaim(s) \/ GrowOld(s) => StoreCalm
  BY DEF FallDue, LapseClaim, GrowOld
<1> HIDE DEF StoreCalm
<1> QED BY <1>1, <1>2, <1>3, <1>4, <1>5, <1>6, <1>7, <1>8, <1>9

(* Nor do the statements over several rows or over the framework's tables,  *)
(* nor a step without a statement.                                          *)
LEMMA CalmTables ==
  ASSUME Typed
  PROVE  /\ TerminalizeConversation(Conv) => StoreCalm
         /\ \A m, e : MapMessage(m, e) => StoreCalm
         /\ \A r, c : MoveRoom(r, c) => StoreCalm
         /\ \A r : LoseRoom(r) => StoreCalm
         /\ UNCHANGED storeVars => StoreCalm
<1> USE DEF Typed, IInv, StoreTypeOK, StoreCalm, rowVars, claimVars
<1>1. TerminalizeConversation(Conv) => StoreCalm
  BY DEF TerminalizeConversation
<1>2. \A m, e : MapMessage(m, e) => StoreCalm
  BY DEF MapMessage
<1>3. (\A r, c : MoveRoom(r, c) => StoreCalm) /\ (\A r : LoseRoom(r) => StoreCalm)
  BY DEF MoveRoom, LoseRoom
<1>4. UNCHANGED storeVars => StoreCalm
  BY DEF storeVars
<1> HIDE DEF StoreCalm
<1> QED BY <1>1, <1>2, <1>3, <1>4

-----------------------------------------------------------------------------
(* What stays true over a step. *)

(* Nothing disappears from the conversation, and no status is taken back. *)
Grows == landed \subseteq landed' /\ told \subseteq told'

(* What a step may do to the rows and the statuses. *)
RowsCareful ==
  \A s \in Sends :
    /\ state'[s] = "completed" => state[s] = "completed" \/ <<s, "success">> \in told
    /\ s \in notified' => s \in notified \/ (state'[s] = state[s] /\ <<s, state[s]>> \in told)
    /\ remoteID'[s] \in {remoteID[s], NoRemote} \/ Real(s, remoteID'[s])
    /\ <<s, "success">> \in told' => <<s, "success">> \in told \/ \E m \in Remotes : Shown(s, m)

(* A send goes on to stand for its message (ReIDPortal, portal.Delete). *)
LEMMA ShownStays ==
  ASSUME Typed, OneRoomPerConv, [StoreNext]_storeVars, landed \subseteq landed',
         NEW s \in Sends, NEW m \in Remotes, Shown(s, m)
  PROVE  Shown(s, m)'
<1>1. RoomOf[s] \in Rooms /\ EventOf[s] \in Events
  BY StoreAssumption
<1> QED BY <1>1, RoomsKeepShowing DEF Typed, Shown, Real

(* A send stays ended: its receipt is never replaced, and no row of its     *)
(* event is prepared again (withTerminalReceipt).                           *)
LEMMA EndedStays ==
  ASSUME Typed, Orderly, NEW s \in Sends, NEW k, Ended(s, k)
  PROVE  Ended(s, k)'
<1>1. IInv /\ IInv' /\ FinalityStep /\ RowsGoOn
  BY StoreSteps DEF Typed, Orderly
<1>2. EventOf[s] \in Events /\ s # NoSend
  BY StoreAssumption
<1>3. receipt'[EventOf[s]] = s
  BY <1>1, <1>2 DEF FinalityStep, Ended
<1>4. CASE state[s] = "absent"
  <2>1. state'[s] \in {"absent", "prepared"}
    BY <1>1, <1>4 DEF RowsGoOn
  <2>2. state'[s] # "prepared"
    BY <1>1, <1>2, <1>3 DEF IInv, ReceiptsMatch, EndStates, FailedStates, Present
  <2> QED BY <1>3, <2>1, <2>2 DEF Ended
<1>5. CASE state[s] = k /\ state[s] # "absent"
  <2>1. s \in terminal
    BY <1>1, <1>2, <1>5 DEF IInv, ReceiptsMatch, Present, Ended
  <2> QED BY <1>1, <1>3, <1>5, <2>1 DEF FinalityStep, Ended
<1> QED BY <1>4, <1>5 DEF Ended

(* A careful step keeps the rows and the statuses true to each other. *)
LEMMA RowsStayTrue ==
  ASSUME Typed, Orderly, Grows, RowsTrue, RowsCareful
  PROVE  RowsTrue'
<1>1. IInv /\ IInv' /\ FinalityStep /\ RowsGoOn
  BY StoreSteps DEF Typed, Orderly
<1>2. OneRoomPerConv'
  BY <1>1, RoomsKeepShowing DEF Orderly, RowsTrue
<1>3. ASSUME NEW s \in Sends
      PROVE  /\ remoteID'[s] # NoRemote => Real(s, remoteID[s])'
             /\ <<s, "success">> \in told' => \E m \in Remotes : Shown(s, m)'
             /\ state'[s] = "completed" => <<s, "success">> \in told'
             /\ s \in notified' => <<s, state'[s]>> \in told'
             /\ state'[s] # "absent" \/ submits'[s] = 0 \/ \E k \in FailedStates : <<s, k>> \in told'
  <2>1. remoteID'[s] # NoRemote => Real(s, remoteID[s])'
    BY DEF RowsTrue, RowsCareful, Real, Grows
  <2>2. <<s, "success">> \in told' => \E m \in Remotes : Shown(s, m)'
    <3>1. <<s, "success">> \in told' => \E m \in Remotes : Shown(s, m)
      BY DEF RowsTrue, RowsCareful
    <3> QED BY <3>1, ShownStays DEF RowsTrue, Orderly, Grows
  <2>3. state'[s] = "completed" => <<s, "success">> \in told'
    BY DEF RowsTrue, RowsCareful, Grows
  <2>4. s \in notified' => <<s, state'[s]>> \in told'
    <3>1. CASE s \in notified /\ s \in notified'
      <4>1. s \in terminal /\ state'[s] # "absent"
        BY <1>1, <3>1 DEF IInv, SchemaHolds, FailedStates
      <4>2. state'[s] = state[s]
        BY <1>1, <4>1 DEF FinalityStep
      <4> QED BY <3>1, <4>2 DEF RowsTrue, Grows
    <3>2. CASE s \notin notified /\ s \in notified'
      BY <3>2 DEF RowsCareful, Grows
    <3> QED BY <3>1, <3>2
  <2>5. ASSUME state'[s] = "absent", submits'[s] # 0
        PROVE  \E k \in FailedStates : <<s, k>> \in told'
    <3>1. submits'[s] = submits[s]
      BY <2>5 DEF Orderly
    <3>2. CASE state[s] = "absent"
      BY <2>5, <3>1, <3>2 DEF RowsTrue, Present, Grows
    <3>3. state[s] # "prepared"
      BY <1>1, <2>5, <3>1, StoreAssumption DEF IInv, SubmissionsTraced, ReceiptsMatch, Present, InFlightStates,
                                               EndStates, FailedStates
    <3>4. CASE s \in notified /\ state[s] \in FailedStates
      BY <3>4 DEF RowsTrue, Grows
    <3> QED BY <1>1, <2>5, <3>2, <3>3, <3>4, RowsAreErasedRight DEF Orderly, ErasedRight, Present, IInv
  <2> QED BY <2>1, <2>2, <2>3, <2>4, <2>5
<1> QED BY <1>2, <1>3 DEF RowsTrue, Present

(* What a thread has decided stays true while others go on. *)
LEMMA ThreadStaysTrue ==
  ASSUME Typed, Orderly, Grows, OneRoomPerConv, NEW t \in Threads, ThreadTrue(t),
         pc'[t] = pc[t], cur'[t] = cur[t], mem'[t] = mem[t]
  PROVE  ThreadTrue(t)'
<1> DEFINE s == cur[t]
           m == mem[t].rid
<1>1. pc[t] \in {"map", "succeed", "tell", "finish_notice"} => s \in Sends
  BY SendAtHand DEF SendLabels, FinishLabels, NoticeLabels
<1>2. pc[t] = "succeed" => m \in Remotes
  BY SendAtHand DEF MessageLabels
<1>3. mem'[t].view \subseteq landed' /\ \A e \in mem'[t].plan : Real(e[1], e[2])'
  BY DEF ThreadTrue, Real, Grows
<1>4. pc'[t] = "map" => Real(cur[t], mem[t].rid)'
  BY DEF ThreadTrue, Real, Grows
<1>5. pc[t] = "succeed" => Shown(s, m)'
  BY <1>1, <1>2, ShownStays DEF ThreadTrue, Orderly, Grows
<1>6. pc'[t] = "succeed" => Shown(cur[t], mem[t].rid)'
  BY <1>5 DEF Shown, Real
<1>7. pc[t] \in {"tell", "finish_notice"} => Ended(s, mem[t].kind)'
  BY <1>1, EndedStays DEF ThreadTrue
<1>8. pc'[t] \in {"tell", "finish_notice"} => Ended(cur[t], mem[t].kind)'
  BY <1>7 DEF Ended
<1>9. /\ pc'[t] = "complete" => <<cur'[t], "success">> \in told'
      /\ pc'[t] = "finish_notice" => <<cur'[t], mem'[t].kind>> \in told'
  BY DEF ThreadTrue, Grows
<1> QED BY <1>3, <1>4, <1>6, <1>8, <1>9 DEF ThreadTrue

-----------------------------------------------------------------------------
(* Steps of the threads are careful. *)

(* A step of t that is true to the sends. *)
Careful(t) == RowsCareful /\ ThreadTrue(t)'

(* Where a thread relies on what it found out about its send. *)
Relying == {"map", "succeed", "complete", "tell", "finish_notice"}

(* t goes on to where it relies on nothing, with no more messages than it   *)
(* had or Tumblr has.                                                       *)
Modest(t) == /\ landed' = landed
             /\ pc'[t] \notin Relying
             /\ mem'[t].view \subseteq mem[t].view \cup landed
             /\ mem'[t].plan \subseteq mem[t].plan

(* A calm statement, or none, that says nothing to the user is careful. *)
LEMMA CalmIsCareful ==
  ASSUME StoreCalm, told' = told
  PROVE  RowsCareful
BY DEF StoreCalm, RowsCareful

(* A thread that goes on modestly has nothing to be wrong about. *)
LEMMA ModestIsTrue ==
  ASSUME NEW t \in Threads, ThreadTrue(t), Modest(t)
  PROVE  ThreadTrue(t)'
BY DEF Modest, ThreadTrue, Relying, Real

(* Going on with the same local state is modest. *)
LEMMA GoingIsModest ==
  ASSUME Typed, NEW t \in Threads, NEW l, l \notin Relying, Goto(t, l), landed' = landed
  PROVE  Modest(t)
BY DEF Goto, Modest, Typed, ThreadsOK

(* A decision, or a call that fails, is careful. *)
LEMMA DecidingIsCareful ==
  ASSUME Typed, NEW t \in Threads, ThreadTrue(t), NEW l, l \notin Relying, Decide(t, l) \/ Fail(t, l)
  PROVE  Careful(t)
<1>1. UNCHANGED storeVars /\ told' = told /\ landed' = landed /\ Goto(t, l)
  BY DEF Decide, Statement, Fail, World, netVars
<1> QED BY <1>1, GoingIsModest, ModestIsTrue, CalmTables, CalmIsCareful DEF Careful

(* So is a calm statement. *)
LEMMA StatingIsCareful ==
  ASSUME Typed, NEW t \in Threads, ThreadTrue(t), NEW l, l \notin Relying, StoreCalm,
         Goto(t, l), UNCHANGED World
  PROVE  Careful(t)
<1>1. told' = told /\ landed' = landed
  BY DEF World, netVars
<1> QED BY <1>1, GoingIsModest, ModestIsTrue, CalmIsCareful DEF Careful

(* So is a step that reads no more than Tumblr has. *)
LEMMA RecallingIsCareful ==
  ASSUME Typed, NEW t \in Threads, ThreadTrue(t), NEW l, l \notin Relying, NEW s, NEW r,
         r.view \subseteq mem[t].view \cup landed, r.plan \subseteq mem[t].plan,
         Work(t, l, s, r), StoreCalm, told' = told, UNCHANGED netVars
  PROVE  Careful(t)
<1>1. Modest(t)
  BY DEF Work, Modest, Typed, ThreadsOK, netVars
<1> QED BY <1>1, ModestIsTrue, CalmIsCareful DEF Careful

(* What the steps write into a thread's local state beside messages. *)
LEMMA MemoriesKeepMessages ==
  ASSUME NEW r \in Memories, NEW a, NEW b
  PROVE  /\ [r EXCEPT !.next = a].view = r.view /\ [r EXCEPT !.next = a].plan = r.plan
         /\ [r EXCEPT !.kind = a].view = r.view /\ [r EXCEPT !.kind = a].plan = r.plan
         /\ [r EXCEPT !.outcome = a].view = r.view /\ [r EXCEPT !.outcome = a].plan = r.plan
         /\ [r EXCEPT !.next = a, !.rid = b].view = r.view /\ [r EXCEPT !.next = a, !.rid = b].plan = r.plan
         /\ [r EXCEPT !.view = a].view = a /\ [r EXCEPT !.view = a].plan = r.plan
         /\ [r EXCEPT !.view = a, !.next = b].view = a /\ [r EXCEPT !.view = a, !.next = b].plan = r.plan
         /\ [r EXCEPT !.view = a, !.rid = b].view = a /\ [r EXCEPT !.view = a, !.rid = b].plan = r.plan
         /\ [r EXCEPT !.view = a, !.outcome = b].view = a /\ [r EXCEPT !.view = a, !.outcome = b].plan = r.plan
         /\ [r EXCEPT !.tx = a].view = r.view /\ [r EXCEPT !.tx = a].plan = r.plan
         /\ Idle.view = {} /\ Idle.plan = {}
BY DEF Memories, Idle

(* Where a thread returns to, it relies on nothing. *)
LEMMA ReturnsRelyOnNothing ==
  ASSUME Typed, NEW t \in Threads
  PROVE  /\ mem[t].next \notin Relying
         /\ BindFailed(t) \notin Relying /\ AfterNotice(t) \notin Relying /\ GiveUp(t) \notin Relying
         /\ ParkFailed(t) \notin Relying /\ FinishFailed(t) \notin Relying /\ SyncFailed(t) \notin Relying
<1>1. mem[t].next \in Returns
  BY SendAtHand
<1> QED BY <1>1 DEF Returns, Relying, BindFailed, AfterNotice, GiveUp, ParkFailed, FinishFailed, SyncFailed

(* A claim is careful when the message is in the conversation with the      *)
(* content of the send (claimOutboundRemoteMessageQuery).                   *)
LEMMA ClaimingIsCareful ==
  ASSUME Typed, NEW s \in Sends, NEW m \in Remotes, Real(s, m), ClaimRemoteMessage(s, m), told' = told
  PROVE  RowsCareful
<1>1. /\ \A r \in Sends : state'[r] = IF r = s THEN "resolved" ELSE state[r]
      /\ \A r \in Sends : remoteID'[r] = IF r = s THEN m ELSE remoteID[r]
      /\ notified' = notified
  BY DEF ClaimRemoteMessage, SetState, Typed, IInv, StoreTypeOK, claimVars
<1> QED BY <1>1 DEF RowsCareful

(* Yielding to the process that took the row is careful. *)
LEMMA YieldIsCareful ==
  ASSUME Typed, NEW t \in Threads, ThreadTrue(t), Yield(t)
  PROVE  Careful(t)
<1>1. StoreCalm
  BY CalmTables DEF Yield
<1> QED BY <1>1, StatingIsCareful DEF Yield, Relying

(* The steps of the message handler, from the event to the answer of its    *)
(* POST, say nothing, and claim what the response shows                     *)
(* (sendMatrixMessageToTumblr, claimOutboundSendResponseLocked).            *)
LEMMA HandlerIsCareful ==
  ASSUME Typed, ReportInv, NEW t \in Threads, HandlerStep(t)
  PROVE  Careful(t)
<1> DEFINE s == cur[t]
<1>1. /\ ThreadTrue(t) /\ mem[t] \in Memories /\ mem[t].view \subseteq Remotes
      /\ mem[t].view \subseteq landed
  BY SendAtHand DEF ReportInv, ThreadTrue, Memories
<1>2. UNCHANGED World => told' = told /\ UNCHANGED netVars
  BY DEF World, netVars
<1>3. UNCHANGED storeVars => StoreCalm
  BY CalmTables
<1>4. pc[t] \in HandlerLabels => s \in Sends
  BY SendAtHand DEF SendLabels
<1>5. CASE Load(t)
  <2>1. s \in Sends
    BY <1>4, <1>5 DEF Load, At, HandlerLabels
  <2>2. StoreCalm
    BY <1>3, <1>5, <2>1, CalmStatements DEF Load
  <2>3. \/ Goto(t, "leave")
        \/ \E l \in {"stage", "baseline"} : Work(t, l, s, [mem[t] EXCEPT !.next = "baseline"])
    BY <1>5 DEF Load
  <2>4. CASE Goto(t, "leave")
    BY <1>1, <1>5, <2>2, <2>4, StatingIsCareful DEF Load, Relying
  <2>5. ASSUME NEW l \in {"stage", "baseline"}, Work(t, l, s, [mem[t] EXCEPT !.next = "baseline"])
        PROVE  Careful(t)
    BY <1>1, <1>2, <1>5, <2>2, <2>5, MemoriesKeepMessages, RecallingIsCareful DEF Load, Relying
  <2> QED BY <2>3, <2>4, <2>5
<1>6. CASE Baseline(t)
  <2>1. ASSUME NEW V \in {landed, {}}, Work(t, "submit", s, [mem[t] EXCEPT !.view = V]),
               UNCHANGED <<storeVars, World, pending>>
        PROVE  Careful(t)
    <3> DEFINE r == [mem[t] EXCEPT !.view = V]
    <3>1. r.view \subseteq landed /\ r.plan = mem[t].plan
      BY <1>1, <2>1, MemoriesKeepMessages
    <3>2. Work(t, "submit", s, r)
      BY <2>1
    <3> HIDE DEF r
    <3> QED BY <1>1, <1>2, <1>3, <2>1, <3>1, <3>2, RecallingIsCareful DEF Relying
  <2>2. (IF conversation[s] = Conv THEN landed ELSE {}) \in {landed, {}}
    OBVIOUS
  <2>3. CASE Yield(t) \/ Fail(t, "drop")
    BY <1>1, <2>3, YieldIsCareful, DecidingIsCareful DEF Relying
  <2> QED BY <1>6, <2>1, <2>2, <2>3 DEF Baseline
<1>7. CASE Submit(t)
  <2>1. s \in Sends
    BY <1>4, <1>7 DEF Submit, At, HandlerLabels
  <2>2. CASE MarkSubmitting(s, mem[t].view) /\ (Goto(t, "post") \/ Goto(t, "drop")) /\ UNCHANGED netVars /\ told' = told
    <3>1. StoreCalm /\ Modest(t)
      BY <2>1, <2>2, CalmStatements, GoingIsModest DEF Relying, netVars
    <3> QED BY <1>1, <2>2, <3>1, ModestIsTrue, CalmIsCareful DEF Careful
  <2>3. CASE Yield(t) \/ Fail(t, "drop")
    BY <1>1, <2>3, YieldIsCareful, DecidingIsCareful DEF Relying
  <2> QED BY <1>2, <1>7, <2>2, <2>3 DEF Submit
<1>8. CASE Drop(t)
  <2>1. s \in Sends
    BY <1>4, <1>8 DEF Drop, At, HandlerLabels
  <2>2. DeletePrepared(s) => StoreCalm
    BY <2>1, CalmStatements
  <2> QED BY <1>1, <1>8, <2>2, StatingIsCareful, YieldIsCareful, DecidingIsCareful DEF Drop, Relying
<1>9. CASE Post(t)
  <2>1. StoreCalm /\ Modest(t) /\ told' = told
    BY <1>3, <1>9, GoingIsModest DEF Post, Relying
  <2> QED BY <1>1, <2>1, ModestIsTrue, CalmIsCareful DEF Careful
<1>10. CASE Answer(t)
  <2>1. StoreCalm /\ told' = told /\ UNCHANGED netVars
    BY <1>2, <1>3, <1>10 DEF Answer
  <2>2. ASSUME Own[s] \in landed, NEW V \in {{}, {Own[s]}, landed}, NEW l \in {"stage", "ack"},
               Work(t, l, s, [mem[t] EXCEPT !.view = V, !.next = "ack"])
        PROVE  Careful(t)
    <3> DEFINE r == [mem[t] EXCEPT !.view = V, !.next = "ack"]
    <3>1. r.view = V /\ r.plan = mem[t].plan
      BY <1>1, MemoriesKeepMessages
    <3>2. V \subseteq landed
      BY <2>2
    <3>3. Work(t, l, s, r)
      BY <2>2
    <3> HIDE DEF r
    <3> QED BY <1>1, <2>1, <3>1, <3>2, <3>3, RecallingIsCareful DEF Relying
  <2>3. CASE Goto(t, "unsure") \/ Goto(t, "reject")
    BY <1>1, <1>10, <2>1, <2>3, StatingIsCareful DEF Answer, Relying
  <2> QED BY <1>10, <2>2, <2>3 DEF Answer
<1>11. CASE Ack(t) \/ Unsure(t)
  <2>1. s \in Sends
    BY <1>4, <1>11 DEF Ack, Unsure, At, HandlerLabels
  <2>2. MarkAwaitingEcho(s) \/ MarkUncertain(s) => StoreCalm
    BY <2>1, CalmStatements
  <2> QED BY <1>1, <1>11, <2>2, StatingIsCareful, DecidingIsCareful DEF Ack, Unsure, Statement, Relying
<1>12. CASE Reject(t)
  <2>1. s \in Sends
    BY <1>4, <1>12 DEF Reject, At, HandlerLabels
  <2>2. MarkSubmittingNotSubmitted(s) => StoreCalm
    BY <2>1, CalmStatements
  <2> QED BY <1>1, <1>12, <2>2, StatingIsCareful, YieldIsCareful, DecidingIsCareful DEF Reject, Statement, Relying
<1>13. CASE ClaimResponse(t)
  <2>1. s \in Sends
    BY <1>4, <1>13 DEF ClaimResponse, At, HandlerLabels
  <2>2. ASSUME NEW m \in mem[t].view, SoleClaim(s, m, mem[t].view), ClaimRemoteMessage(s, m), Statement(t, "leave")
        PROVE  Careful(t)
    <3>1. Real(s, m) /\ m \in Remotes
      BY <1>1, <2>2 DEF SoleClaim, Candidate, Real
    <3>2. told' = told /\ landed' = landed /\ Goto(t, "leave")
      BY <1>2, <2>2 DEF Statement, netVars
    <3> QED BY <1>1, <2>1, <2>2, <3>1, <3>2, ClaimingIsCareful, GoingIsModest, ModestIsTrue DEF Careful, Relying
  <2> QED BY <1>1, <1>13, <2>2, DecidingIsCareful DEF ClaimResponse, Relying
<1> QED BY <1>5, <1>6, <1>7, <1>8, <1>9, <1>10, <1>11, <1>12, <1>13 DEF HandlerStep

(* Tying a row to the conversation says nothing and completes nothing       *)
(* (bindOutboundSendToConversation).                                        *)
LEMMA BindingIsCareful ==
  ASSUME Typed, ReportInv, NEW t \in Threads, BindStep(t)
  PROVE  Careful(t)
<1> DEFINE s == cur[t]
<1>1. ThreadTrue(t) /\ s \in Sends
  BY SendAtHand DEF ReportInv, BindStep, Stage, Move, Bind, At, SendLabels, BindLabels
<1>2. BindFailed(t) \notin Relying /\ mem[t].next \notin Relying
  BY ReturnsRelyOnNothing
<1>3. CASE Stage(t) \/ Bind(t)
  <2>1. PrepareConversationBinding(s, Conv) \/ BindConversation(s, Conv) => StoreCalm
    BY <1>1, CalmStatements
  <2> QED BY <1>1, <1>2, <1>3, <2>1, StatingIsCareful, DecidingIsCareful DEF Stage, Bind, Statement, Relying
<1>4. CASE Move(t)
  <2>1. \/ MoveRoom(RoomOf[s], Conv) \/ LoseRoom(RoomOf[s]) \/ UNCHANGED storeVars => StoreCalm
    BY CalmTables
  <2>2. ASSUME NEW l \in {"drop", "park"}, Goto(t, l), StoreCalm, told' = told, landed' = landed
        PROVE  Careful(t)
    BY <1>1, <2>2, GoingIsModest, ModestIsTrue, CalmIsCareful DEF Careful, Relying
  <2>3. CASE /\ LoseRoom(RoomOf[s])
             /\ Goto(t, IF mem[t].next = "baseline" THEN "drop" ELSE "park")
             /\ UNCHANGED <<lockVars, netVars, told, calls>>
    BY <2>1, <2>2, <2>3 DEF netVars
  <2>4. CASE /\ Goto(t, IF mem[t].next = "baseline" THEN "drop" ELSE "park")
             /\ UNCHANGED <<storeVars, World>>
    BY <2>1, <2>2, <2>4 DEF World, netVars
  <2>5. CASE MoveRoom(RoomOf[s], Conv) /\ Statement(t, "bind")
    BY <1>1, <2>1, <2>5, StatingIsCareful DEF Statement, Relying
  <2>6. CASE Decide(t, BindFailed(t)) \/ Decide(t, "bind") \/ Fail(t, BindFailed(t))
    BY <1>1, <1>2, <2>6, DecidingIsCareful DEF Relying
  <2> QED BY <1>4, <2>3, <2>4, <2>5, <2>6 DEF Move
<1> QED BY <1>3, <1>4 DEF BindStep

(* Claiming a notice takes the row's state for the status, and the row has  *)
(* ended with it (claimOutboundStatusDeliveryQuery).                        *)
LEMMA NotifyClaimIsCareful ==
  ASSUME Typed, ReportInv, NEW t \in Threads, NotifyClaim(t)
  PROVE  Careful(t)
<1> DEFINE s == cur[t]
           r == [mem[t] EXCEPT !.kind = state[s]]
<1>1. s \in Sends /\ ThreadTrue(t) /\ mem[t] \in Memories
  BY SendAtHand DEF NotifyClaim, At, SendLabels, NoticeLabels, ReportInv
<1>2. CASE ClaimStatusDelivery(s, t) /\ Work(t, "tell", s, r) /\ UNCHANGED <<World, pending>>
  <2>1. RowsCareful
    BY <1>1, <1>2, CalmStatements, CalmIsCareful DEF World
  <2>2. receipt[EventOf[s]] = s
    BY <1>1, <1>2 DEF ClaimStatusDelivery, Claimable, Typed, IInv, ReceiptsMatch
  <2>3. UNCHANGED <<state, receipt, landed>>
    BY <1>2 DEF ClaimStatusDelivery, World, netVars
  <2>4. r.view = mem[t].view /\ r.plan = mem[t].plan /\ r.kind = state[s]
    BY <1>1, MemoriesKeepMessages DEF Memories
  <2>5. pc'[t] = "tell" /\ cur'[t] = s /\ mem'[t] = r
    BY <1>2 DEF Work, Typed, ThreadsOK
  <2> HIDE DEF r
  <2> QED BY <1>1, <2>1, <2>2, <2>3, <2>4, <2>5 DEF Careful, ThreadTrue, Ended, Real
<1>3. CASE Goto(t, AfterNotice(t)) /\ UNCHANGED <<storeVars, World>>
  BY <1>1, <1>3, CalmTables, ReturnsRelyOnNothing, StatingIsCareful
<1>4. CASE Fail(t, "postpone")
  BY <1>1, <1>4, DecidingIsCareful DEF Relying
<1> QED BY <1>2, <1>3, <1>4 DEF NotifyClaim

(* Reporting a failure leaves a thread that records it with the status said *)
(* (notifyOutboundStatusAtLeastOnce).                                       *)
LEMMA TellIsCareful ==
  ASSUME Typed, ReportInv, NEW t \in Threads, Tell(t)
  PROVE  Careful(t)
<1> DEFINE s == cur[t]
           k == mem[t].kind
<1>1. s \in Sends /\ ThreadTrue(t) /\ pc[t] = "tell" /\ k # "success"
  BY SendAtHand DEF Tell, At, SendLabels, NoticeLabels, ReportInv, FailedStates
<1>2. UNCHANGED storeVars /\ landed' = landed
  BY DEF Tell, netVars
<1>3. told' \in {told, told \cup {<<s, k>>}}
  BY DEF Tell
<1>4. RowsCareful
  <2>1. StoreCalm
    BY <1>2, CalmTables
  <2> QED BY <1>1, <1>3, <2>1 DEF StoreCalm, RowsCareful
<1>5. CASE Goto(t, "release_notice")
  BY <1>1, <1>2, <1>4, <1>5, GoingIsModest, ModestIsTrue DEF Careful, Relying
<1>6. CASE Goto(t, "finish_notice") /\ told' = told \cup {<<s, k>>}
  <2>1. pc'[t] = "finish_notice" /\ cur'[t] = s /\ mem'[t] = mem[t]
    BY <1>6 DEF Goto, Typed, ThreadsOK
  <2>2. UNCHANGED <<state, receipt>>
    BY <1>2 DEF storeVars, rowVars
  <2> QED BY <1>1, <1>2, <1>4, <1>6, <2>1, <2>2 DEF Careful, ThreadTrue, Ended, Real
<1> QED BY <1>5, <1>6 DEF Tell

(* Recording a notice is careful: it was given                              *)
(* (finishOutboundStatusDeliveryQuery).                                     *)
LEMMA FinishNoticeIsCareful ==
  ASSUME Typed, ReportInv, NEW t \in Threads, FinishNotice(t)
  PROVE  Careful(t)
<1> DEFINE s == cur[t]
<1>1. s \in Sends /\ ThreadTrue(t) /\ pc[t] = "finish_notice" /\ AfterNotice(t) \notin Relying
  BY SendAtHand, ReturnsRelyOnNothing DEF FinishNotice, At, SendLabels, NoticeLabels, ReportInv
<1>2. CASE FinishStatusDelivery(s, t) /\ Goto(t, AfterNotice(t)) /\ UNCHANGED World
  <2>1. <<s, state[s]>> \in told
    BY <1>1, <1>2 DEF FinishStatusDelivery, Finishable, FailedStates, ThreadTrue, Ended
  <2>2. notified' = notified \cup {s} /\ UNCHANGED <<state, remoteID>> /\ told' = told /\ landed' = landed
    BY <1>2 DEF FinishStatusDelivery, World, netVars
  <2>3. RowsCareful
    BY <2>1, <2>2 DEF RowsCareful
  <2> QED BY <1>1, <1>2, <2>2, <2>3, GoingIsModest, ModestIsTrue DEF Careful
<1>3. CASE Goto(t, AfterNotice(t)) /\ UNCHANGED <<storeVars, World>>
  BY <1>1, <1>3, CalmTables, StatingIsCareful
<1>4. CASE Decide(t, "postpone") \/ Fail(t, "postpone")
  BY <1>1, <1>4, DecidingIsCareful DEF Relying
<1> QED BY <1>2, <1>3, <1>4 DEF FinishNotice

(* The steps that report a failure are careful                              *)
(* (finishOutboundNotSubmitted, finishOutboundUnconfirmed).                 *)
LEMMA NoticeIsCareful ==
  ASSUME Typed, ReportInv, NEW t \in Threads, NoticeStep(t)
  PROVE  Careful(t)
<1> DEFINE s == cur[t]
<1>1. ThreadTrue(t) /\ AfterNotice(t) \notin Relying /\ GiveUp(t) \notin Relying
  BY ReturnsRelyOnNothing DEF ReportInv
<1>2. CASE ReleaseNotice(t) \/ Postpone(t)
  <2>1. s \in Sends
    BY <1>2, SendAtHand DEF ReleaseNotice, Postpone, At, SendLabels, NoticeLabels
  <2>2. ReleaseStatusDelivery(s, t) \/ ScheduleRetry(s) => StoreCalm
    BY <2>1, CalmStatements
  <2> QED BY <1>1, <1>2, <2>2, StatingIsCareful, DecidingIsCareful DEF ReleaseNotice, Postpone, Statement, Relying
<1> QED BY <1>2, NotifyClaimIsCareful, TellIsCareful, FinishNoticeIsCareful DEF NoticeStep

(* Saving the mapping is what makes a send stand for its message            *)
(* (finalizeOutboundWithoutEcho).                                           *)
LEMMA MapEventIsCareful ==
  ASSUME Typed, ReportInv, NEW t \in Threads, MapEvent(t)
  PROVE  Careful(t)
<1> DEFINE s == cur[t]
           m == mem[t].rid
<1>1. s \in Sends /\ m \in Remotes /\ EventOf[s] \in Events /\ ThreadTrue(t) /\ pc[t] = "map" /\ Real(s, m)
  BY SendAtHand, StoreAssumption DEF MapEvent, At, SendLabels, FinishLabels, MessageLabels, ReportInv, ThreadTrue
<1>2. CASE /\ ~MappingConflict(s, m) /\ Goto(t, "succeed") /\ UNCHANGED World
           /\ (mapped[m] = EventOf[s] /\ UNCHANGED storeVars) \/ MapMessage(m, EventOf[s])
  <2>1. StoreCalm /\ told' = told /\ landed' = landed
    BY <1>2, CalmTables DEF World, netVars
  <2>2. owner[RoomOf[s]] = Conv /\ owner' = owner /\ mapped'[m] = EventOf[s]
    BY <1>1, <1>2 DEF MappingConflict, MapMessage, storeVars, Typed, IInv, StoreTypeOK
  <2>3. pc'[t] = "succeed" /\ cur'[t] = s /\ mem'[t] = mem[t]
    BY <1>2 DEF Goto, Typed, ThreadsOK
  <2> QED BY <1>1, <2>1, <2>2, <2>3, CalmIsCareful DEF Careful, ThreadTrue, Shown, Real
<1>3. CASE Decide(t, "unmap") \/ Fail(t, FinishFailed(t))
  BY <1>1, <1>3, ReturnsRelyOnNothing, DecidingIsCareful DEF Relying
<1> QED BY <1>2, <1>3 DEF MapEvent

(* A success is said of a send that stands for its message.                 *)
LEMMA SucceedIsCareful ==
  ASSUME Typed, ReportInv, NEW t \in Threads, Succeed(t)
  PROVE  Careful(t)
<1> DEFINE s == cur[t]
           m == mem[t].rid
<1>1. s \in Sends /\ m \in Remotes /\ ThreadTrue(t) /\ pc[t] = "succeed" /\ Shown(s, m)
  BY SendAtHand DEF Succeed, At, SendLabels, FinishLabels, MessageLabels, ReportInv, ThreadTrue
<1>2. StoreCalm /\ landed' = landed /\ told' \in {told, told \cup {<<s, "success">>}}
  BY CalmTables DEF Succeed, netVars
<1>3. RowsCareful
  BY <1>1, <1>2 DEF StoreCalm, RowsCareful
<1>4. CASE Goto(t, FinishFailed(t))
  BY <1>1, <1>2, <1>3, <1>4, ReturnsRelyOnNothing, GoingIsModest, ModestIsTrue DEF Careful
<1>5. CASE Goto(t, "complete") /\ told' = told \cup {<<s, "success">>}
  <2>1. pc'[t] = "complete" /\ cur'[t] = s /\ mem'[t] = mem[t]
    BY <1>5 DEF Goto, Typed, ThreadsOK
  <2> QED BY <1>1, <1>2, <1>3, <1>5, <2>1 DEF Careful, ThreadTrue, Real
<1> QED BY <1>4, <1>5 DEF Succeed

(* A row is completed after its success was said                            *)
(* (retainCompletedOutbound).                                               *)
LEMMA CompleteIsCareful ==
  ASSUME Typed, ReportInv, NEW t \in Threads, Complete(t)
  PROVE  Careful(t)
<1> DEFINE s == cur[t]
           m == mem[t].rid
<1>1. s \in Sends /\ ThreadTrue(t) /\ <<s, "success">> \in told
  BY SendAtHand DEF Complete, At, SendLabels, FinishLabels, ReportInv, ThreadTrue
<1>2. mem[t].next \notin Relying /\ FinishFailed(t) \notin Relying
  BY ReturnsRelyOnNothing
<1>3. CASE MarkCompleted(s, m) /\ Statement(t, mem[t].next)
  <2>1. /\ \A r \in Sends : state'[r] = IF r = s THEN "completed" ELSE state[r]
        /\ UNCHANGED <<remoteID, notified, told, landed>> /\ Goto(t, mem[t].next)
    BY <1>3 DEF MarkCompleted, Terminate, SetState, claimVars, Typed, IInv, StoreTypeOK, Statement, World, netVars
  <2>2. RowsCareful
    BY <1>1, <2>1 DEF RowsCareful
  <2> QED BY <1>1, <1>2, <2>1, <2>2, GoingIsModest, ModestIsTrue DEF Careful
<1>4. CASE Decide(t, mem[t].next) \/ Decide(t, FinishFailed(t)) \/ Fail(t, FinishFailed(t))
  BY <1>1, <1>2, <1>4, DecidingIsCareful
<1> QED BY <1>3, <1>4 DEF Complete

(* The steps that finish a row are careful (finalizeOutboundWithoutEcho,    *)
(* parkOutboundUnconfirmed, deferOutboundRecovery).                         *)
LEMMA FinishIsCareful ==
  ASSUME Typed, ReportInv, NEW t \in Threads, FinishStep(t)
  PROVE  Careful(t)
<1> DEFINE s == cur[t]
<1>1. ThreadTrue(t) /\ FinishFailed(t) \notin Relying /\ ParkFailed(t) \notin Relying /\ mem[t] \in Memories
  BY ReturnsRelyOnNothing, SendAtHand DEF ReportInv
<1>2. CASE Unmap(t)
  <2>1. s \in Sends
    BY <1>2, SendAtHand DEF Unmap, At, SendLabels, FinishLabels
  <2>2. MarkResolvedUnconfirmed(s, mem[t].rid) => StoreCalm
    BY <2>1, CalmStatements
  <2> QED BY <1>1, <1>2, <2>2, StatingIsCareful, DecidingIsCareful DEF Unmap, Relying
<1>3. CASE Park(t)
  <2>1. s \in Sends
    BY <1>3, SendAtHand DEF Park, At, SendLabels, FinishLabels
  <2>2. MarkUnconfirmed(s) => StoreCalm
    BY <2>1, CalmStatements
  <2> QED BY <1>1, <1>3, <2>2, StatingIsCareful, DecidingIsCareful DEF Park, Relying
<1>4. CASE Defer(t)
  <2>1. s \in Sends
    BY <1>4, SendAtHand DEF Defer, At, SendLabels, FinishLabels
  <2>2. MarkUncertain(s) => StoreCalm
    BY <2>1, CalmStatements
  <2>3. CASE Work(t, "park", s, [mem[t] EXCEPT !.next = "leave"]) /\ UNCHANGED <<storeVars, World, pending>>
    <3>1. /\ [mem[t] EXCEPT !.next = "leave"].view = mem[t].view
          /\ [mem[t] EXCEPT !.next = "leave"].plan = mem[t].plan
      BY <1>1, MemoriesKeepMessages
    <3> QED BY <1>1, <2>3, <3>1, CalmTables, RecallingIsCareful DEF World, Relying
  <2>4. CASE Statement(t, "leave") /\ MarkUncertain(s)
    BY <1>1, <2>2, <2>4, StatingIsCareful DEF Statement, Relying
  <2>5. CASE Decide(t, "leave") \/ Fail(t, "leave")
    BY <1>1, <2>5, DecidingIsCareful DEF Relying
  <2> QED BY <1>4, <2>3, <2>4, <2>5 DEF Defer
<1> QED BY <1>2, <1>3, <1>4, MapEventIsCareful, SucceedIsCareful, CompleteIsCareful DEF FinishStep

(* The steps of the recovery worker are careful: what it finishes has       *)
(* claimed its message (finishDueOutboundSend).                             *)
LEMMA WorkerIsCareful ==
  ASSUME Typed, ReportInv, NEW t \in Threads, WorkerStep(t)
  PROVE  Careful(t)
<1> DEFINE s == cur[t]
<1>1. ThreadTrue(t) /\ mem[t] \in Memories
  BY SendAtHand DEF ReportInv
<1>2. CASE Purge(t) \/ Cancel(t)
  <2>1. s \in Sends
    BY <1>2, SendAtHand DEF Purge, Cancel, At, SendLabels
  <2>2. DeleteFailed(s) \/ ClaimPreparedNotSubmitted(s) => StoreCalm
    BY <2>1, CalmStatements
  <2> QED BY <1>1, <1>2, <2>2, StatingIsCareful, DecidingIsCareful DEF Purge, Cancel, Statement, Relying
<1>3. CASE Recover(t)
  <2> DEFINE r == [mem[t] EXCEPT !.next = "fetch"]
  <2>1. CASE Work(t, "stage", s, r) /\ UNCHANGED <<storeVars, World, pending>>
    <3>1. r.view = mem[t].view /\ r.plan = mem[t].plan
      BY <1>1, MemoriesKeepMessages
    <3> HIDE DEF r
    <3> QED BY <1>1, <2>1, <3>1, CalmTables, RecallingIsCareful DEF World, Relying
  <2>2. CASE Decide(t, "park") \/ Fail(t, "defer")
    BY <1>1, <2>2, DecidingIsCareful DEF Relying
  <2> QED BY <1>3, <2>1, <2>2 DEF Recover
<1>4. CASE Settle(t)
  <2> DEFINE j == mem[t].job
             r == [mem[t] EXCEPT !.next = "leave", !.rid = remoteID[j]]
  <2>1. j \in Sends
    BY <1>4, SendAtHand DEF Settle, At
  <2>2. r.view = mem[t].view /\ r.plan = mem[t].plan /\ r.rid = remoteID[j]
    BY <1>1, MemoriesKeepMessages DEF Memories
  <2>3. UNCHANGED storeVars => StoreCalm
    BY CalmTables
  <2>4. CASE state[j] = "resolved" /\ Work(t, "map", j, r) /\ UNCHANGED <<storeVars, World, pending>>
    <3>1. Real(j, remoteID[j])
      BY <2>1, <2>4 DEF Typed, IInv, SchemaHolds, IdentityStates, ReportInv, RowsTrue
    <3>2. pc'[t] = "map" /\ cur'[t] = j /\ mem'[t] = r /\ told' = told /\ landed' = landed
      BY <2>4 DEF Work, Typed, ThreadsOK, World, netVars
    <3> HIDE DEF r
    <3> QED BY <1>1, <2>2, <2>3, <2>4, <3>1, <3>2, CalmIsCareful DEF Careful, ThreadTrue, Real
  <2>5. ASSUME NEW l \in {"defer", "park"}, Work(t, l, j, r), UNCHANGED <<storeVars, World, pending>>
        PROVE  Careful(t)
    <3> HIDE DEF r
    <3> QED BY <1>1, <2>2, <2>3, <2>5, RecallingIsCareful DEF World, Relying
  <2>6. CASE Goto(t, "leave") /\ UNCHANGED <<storeVars, World>>
    BY <1>1, <2>3, <2>6, StatingIsCareful DEF Relying
  <2>7. CASE Decide(t, "leave") \/ Fail(t, "leave")
    BY <1>1, <2>7, DecidingIsCareful DEF Relying
  <2> QED BY <1>4, <2>4, <2>5, <2>6, <2>7 DEF Settle
<1> QED BY <1>2, <1>3, <1>4 DEF WorkerStep

(* A match is of a send and a message with its content                      *)
(* (outboundMessageCandidate).                                              *)
LEMMA MatchIsCareful ==
  ASSUME Typed, ReportInv, NEW t \in Threads, Match(t)
  PROVE  Careful(t)
<1> DEFINE edges  == {e \in Matchable(Conv) \X (mem[t].view \ Echoes(t)) : Candidate(e[1], e[2])}
           likely == {e[2] : e \in edges}
           plan   == Forced(edges)
           V      == mem[t].view \ likely
           r      == [mem[t] EXCEPT !.plan = plan, !.held = likely, !.view = V]
<1>1. mem[t] \in Memories /\ mem[t].view \subseteq landed /\ ThreadTrue(t)
  BY SendAtHand DEF ReportInv, ThreadTrue
<1>2. \A e \in edges : Real(e[1], e[2])
  BY <1>1 DEF Candidate, Real
<1>3. plan \subseteq edges
  BY DEF Forced
<1>4. Work(t, "claim", cur[t], r) /\ UNCHANGED <<storeVars, World, pending>>
  BY DEF Match
<1> HIDE DEF edges, likely, plan
<1>5. r.view = V /\ r.plan = plan
  BY <1>1 DEF Memories
<1>6. pc'[t] = "claim" /\ mem'[t] = r /\ told' = told /\ landed' = landed
  BY <1>4 DEF Work, Typed, ThreadsOK, World, netVars
<1>7. RowsCareful
  BY <1>4, <1>6, CalmTables, CalmIsCareful
<1> QED BY <1>1, <1>2, <1>3, <1>5, <1>6, <1>7 DEF Careful, ThreadTrue, Real

(* Claiming a forced match is careful (reconcileOutboundConversation). *)
LEMMA ClaimIsCareful ==
  ASSUME Typed, ReportInv, NEW t \in Threads, Claim(t)
  PROVE  Careful(t)
<1>1. /\ mem[t] \in Memories /\ ThreadTrue(t) /\ mem[t].plan \subseteq Sends \X Remotes
      /\ mem[t].view \subseteq landed /\ \A e \in mem[t].plan : Real(e[1], e[2])
  BY SendAtHand DEF ReportInv, ThreadTrue, Memories
<1>2. SyncFailed(t) \notin Relying
  BY ReturnsRelyOnNothing
<1>3. ASSUME NEW e \in mem[t].plan, ClaimRemoteMessage(e[1], e[2]), UNCHANGED <<World, pending>>
      PROVE  e[1] \in Sends /\ e[2] \in Remotes /\ RowsCareful /\ landed' = landed
  <2>1. e[1] \in Sends /\ e[2] \in Remotes
    BY <1>1
  <2>2. told' = told /\ landed' = landed
    BY <1>3 DEF World, netVars
  <2> QED BY <1>1, <1>3, <2>1, <2>2, ClaimingIsCareful
<1>4. ASSUME NEW e \in mem[t].plan, ClaimRemoteMessage(e[1], e[2]), UNCHANGED <<World, pending>>, NEW r,
             r.plan = mem[t].plan \ {e}, r.view \in {mem[t].view, mem[t].view \cup {e[2]}},
             \/ Work(t, "claim", cur[t], r)
             \/ r.rid = e[2] /\ Work(t, "map", e[1], r)
      PROVE  Careful(t)
  <2>1. RowsCareful /\ landed' = landed /\ Real(e[1], e[2])
    BY <1>1, <1>3, <1>4
  <2>2. r.view \subseteq landed
    BY <1>1, <1>4, <2>1 DEF Real
  <2>3. mem'[t] = r /\ (pc'[t] = "claim" \/ (pc'[t] = "map" /\ cur'[t] = e[1] /\ r.rid = e[2]))
    BY <1>4 DEF Work, Typed, ThreadsOK
  <2> QED BY <1>1, <1>4, <2>1, <2>2, <2>3 DEF Careful, ThreadTrue, Real
<1>5. CASE \E e \in mem[t].plan : LET rest == [mem[t] EXCEPT !.plan = @ \ {e}, !.held = @ \ {e[2]}] IN
             /\ ClaimRemoteMessage(e[1], e[2])
             /\ IF Awaits(t, e[1])
                THEN Work(t, "claim", cur[t], [rest EXCEPT !.tx = @ \cup {<<e[2], e[1]>>}, !.view = @ \cup {e[2]}])
                ELSE Work(t, "map", e[1], [rest EXCEPT !.rid = e[2], !.next = "claim"])
             /\ UNCHANGED <<World, pending>>
  <2> PICK e \in mem[t].plan : LET rest == [mem[t] EXCEPT !.plan = @ \ {e}, !.held = @ \ {e[2]}] IN
             /\ ClaimRemoteMessage(e[1], e[2])
             /\ IF Awaits(t, e[1])
                THEN Work(t, "claim", cur[t], [rest EXCEPT !.tx = @ \cup {<<e[2], e[1]>>}, !.view = @ \cup {e[2]}])
                ELSE Work(t, "map", e[1], [rest EXCEPT !.rid = e[2], !.next = "claim"])
             /\ UNCHANGED <<World, pending>>
    BY <1>5
  <2> DEFINE rest == [mem[t] EXCEPT !.plan = @ \ {e}, !.held = @ \ {e[2]}]
             q == [rest EXCEPT !.tx = @ \cup {<<e[2], e[1]>>}, !.view = @ \cup {e[2]}]
             r == [rest EXCEPT !.rid = e[2], !.next = "claim"]
  <2>1. /\ q.plan = mem[t].plan \ {e} /\ q.view = mem[t].view \cup {e[2]}
        /\ r.plan = mem[t].plan \ {e} /\ r.view = mem[t].view /\ r.rid = e[2]
    BY <1>1 DEF Memories
  <2>2. /\ ClaimRemoteMessage(e[1], e[2]) /\ UNCHANGED <<World, pending>>
        /\ Work(t, "claim", cur[t], q) \/ Work(t, "map", e[1], r)
    OBVIOUS
  <2> HIDE DEF q, r, rest
  <2>3. CASE Work(t, "claim", cur[t], q)
    BY <1>4, <2>1, <2>2, <2>3
  <2>4. CASE Work(t, "map", e[1], r)
    BY <1>4, <2>1, <2>2, <2>4
  <2> QED BY <2>2, <2>3, <2>4
<1> QED BY <1>1, <1>2, <1>5, DecidingIsCareful DEF Claim, Relying

(* Handing on a claimed message, or finishing its send in place, is careful *)
(* (reconcileOutboundConversation).                                         *)
LEMMA FinishResolvedIsCareful ==
  ASSUME Typed, ReportInv, NEW t \in Threads, FinishResolved(t)
  PROVE  Careful(t)
<1> DEFINE claims == {e \in (mem[t].view \ Echoes(t)) \X Sends :
                        state[e[2]] = "resolved" /\ remoteID[e[2]] = e[1]}
<1>1. /\ mem[t] \in Memories /\ mem[t].view \subseteq Remotes /\ mem[t].view \subseteq landed /\ ThreadTrue(t)
  BY SendAtHand DEF ReportInv, ThreadTrue, Memories
<1>2. StoreCalm /\ told' = told /\ landed' = landed /\ UNCHANGED <<storeVars, World>>
  BY CalmTables DEF FinishResolved, World, netVars
<1>3. RowsCareful
  BY <1>2, CalmIsCareful
<1>4. ASSUME NEW e \in claims, Work(t, "resolved", cur[t], [mem[t] EXCEPT !.tx = @ \cup {e}])
      PROVE  Careful(t)
  <2> DEFINE r == [mem[t] EXCEPT !.tx = @ \cup {e}]
  <2>1. r.view = mem[t].view /\ r.plan = mem[t].plan
    BY <1>1 DEF Memories
  <2>2. Work(t, "resolved", cur[t], r)
    BY <1>4
  <2> HIDE DEF r
  <2> QED BY <1>1, <1>2, <2>1, <2>2, RecallingIsCareful DEF World, Relying
<1>5. ASSUME NEW e \in claims,
             Work(t, "map", e[2], [mem[t] EXCEPT !.view = @ \ {e[1]}, !.rid = e[1], !.next = "resolved"])
      PROVE  Careful(t)
  <2> DEFINE r == [mem[t] EXCEPT !.view = @ \ {e[1]}, !.rid = e[1], !.next = "resolved"]
  <2>1. r.view = mem[t].view \ {e[1]} /\ r.plan = mem[t].plan /\ r.rid = e[1]
    BY <1>1 DEF Memories
  <2>2. pc'[t] = "map" /\ cur'[t] = e[2] /\ mem'[t] = r
    BY <1>5 DEF Work, Typed, ThreadsOK
  <2>3. Real(e[2], e[1])
    <3>1. e[1] \in Remotes /\ e[2] \in Sends /\ remoteID[e[2]] = e[1]
      BY <1>1
    <3>2. e[1] # NoRemote
      BY <3>1, StoreAssumption
    <3> QED BY <3>1, <3>2 DEF ReportInv, RowsTrue
  <2> HIDE DEF r
  <2> QED BY <1>1, <1>2, <1>3, <2>1, <2>2, <2>3 DEF Careful, ThreadTrue, Real
<1>6. CASE Goto(t, "match")
  BY <1>1, <1>2, <1>6, StatingIsCareful DEF Relying
<1> QED BY <1>4, <1>5, <1>6 DEF FinishResolved

(* The steps of a sync are careful (syncConversationByIDWithSubmissionLock, *)
(* deliverConversation).                                                    *)
LEMMA SyncIsCareful ==
  ASSUME Typed, ReportInv, NEW t \in Threads, SyncStep(t)
  PROVE  Careful(t)
<1>1. ThreadTrue(t) /\ mem[t] \in Memories /\ mem[t].view \subseteq Remotes /\ SyncFailed(t) \notin Relying
  BY SendAtHand, ReturnsRelyOnNothing DEF ReportInv, Memories
<1>2. /\ UNCHANGED storeVars => StoreCalm
      /\ \A m, e : MapMessage(m, e) => StoreCalm
  BY CalmTables
<1>3. CASE Fetch(t)
  <2> DEFINE r == [mem[t] EXCEPT !.view = landed, !.tx = {}, !.plan = {}, !.held = {}]
  <2>1. CASE Work(t, "unbound", cur[t], r) /\ UNCHANGED <<storeVars, World, pending>>
    <3>1. r.view = landed /\ r.plan = {}
      BY <1>1 DEF Memories
    <3> HIDE DEF r
    <3> QED BY <1>1, <1>2, <2>1, <3>1, RecallingIsCareful DEF World, Relying
  <2> QED BY <1>1, <1>3, <2>1, DecidingIsCareful DEF Fetch
<1>4. CASE BindUnbound(t)
  <2>1. ASSUME NEW s \in Unbound, Work(t, "stage", s, [mem[t] EXCEPT !.next = "unbound"])
        PROVE  Careful(t)
    <3> DEFINE r == [mem[t] EXCEPT !.next = "unbound"]
    <3>1. r.view = mem[t].view /\ r.plan = mem[t].plan /\ Work(t, "stage", s, r)
      BY <1>1, <2>1, MemoriesKeepMessages
    <3> HIDE DEF r
    <3> QED BY <1>1, <1>2, <1>4, <3>1, RecallingIsCareful DEF BindUnbound, World, Relying
  <2>2. CASE Goto(t, "resolved")
    BY <1>1, <1>2, <1>4, <2>2, StatingIsCareful DEF BindUnbound, Relying
  <2> QED BY <1>4, <2>1, <2>2 DEF BindUnbound
<1>5. CASE Broken(t)
  <2> DEFINE r == [mem[t] EXCEPT !.outcome = "failed"]
  <2>1. CASE Work(t, "settle", cur[t], r)
    <3>1. r.view = mem[t].view /\ r.plan = mem[t].plan
      BY <1>1, MemoriesKeepMessages
    <3> HIDE DEF r
    <3> QED BY <1>1, <1>2, <1>5, <2>1, <3>1, RecallingIsCareful DEF Broken, World, Relying
  <2>2. CASE Goto(t, "leave")
    BY <1>1, <1>2, <1>5, <2>2, StatingIsCareful DEF Broken, Relying
  <2> QED BY <1>5, <2>1, <2>2 DEF Broken
<1>6. CASE Handover(t)
  <2> DEFINE V == {m \in mem[t].view : mapped[m] = Unmapped}
             r == [mem[t] EXCEPT !.view = V]
  <2>1. CASE Work(t, "deliver", cur[t], r) /\ UNCHANGED <<storeVars, pending, netVars, told, boundVars>>
    <3>1. r.view = V /\ r.plan = mem[t].plan
      BY <1>1, MemoriesKeepMessages
    <3> HIDE DEF r
    <3> QED BY <1>1, <1>2, <2>1, <3>1, RecallingIsCareful DEF Relying
  <2> QED BY <1>1, <1>6, <2>1, DecidingIsCareful DEF Handover
<1>7. CASE Deliver(t)
  <2>1. StoreCalm /\ told' = told /\ UNCHANGED netVars
    BY <1>2, <1>7 DEF Deliver, World, netVars
  <2>2. ASSUME NEW m \in mem[t].view,
               \/ Work(t, "deliver", cur[t], [mem[t] EXCEPT !.view = @ \ {m}])
               \/ \E s \in Sends : Work(t, "persist", s, [mem[t] EXCEPT !.view = @ \ {m}, !.rid = m])
        PROVE  Careful(t)
    <3> DEFINE V == mem[t].view \ {m}
               q == [mem[t] EXCEPT !.view = V]
               r == [mem[t] EXCEPT !.view = V, !.rid = m]
    <3>1. q.view = V /\ q.plan = mem[t].plan /\ r.view = V /\ r.plan = mem[t].plan
      BY <1>1, MemoriesKeepMessages
    <3>2. PICK s : Work(t, "deliver", s, q) \/ Work(t, "persist", s, r)
      BY <2>2
    <3> HIDE DEF q, r
    <3> QED BY <1>1, <2>1, <3>1, <3>2, RecallingIsCareful DEF Relying
  <2>3. CASE Work(t, "deliver", cur[t], [mem[t] EXCEPT !.view = {}, !.outcome = "failed"])
    <3> DEFINE r == [mem[t] EXCEPT !.view = {}, !.outcome = "failed"]
    <3>1. r.view = {} /\ r.plan = mem[t].plan
      BY <1>1, MemoriesKeepMessages
    <3>2. Work(t, "deliver", cur[t], r)
      BY <2>3
    <3> HIDE DEF r
    <3> QED BY <1>1, <2>1, <3>1, <3>2, RecallingIsCareful DEF Relying
  <2>4. CASE Work(t, "idle", NoSend, Idle)
    BY <1>1, <2>1, <2>4, MemoriesKeepMessages, RecallingIsCareful DEF Relying
  <2>5. CASE Goto(t, "relock")
    <3>1. Modest(t)
      BY <2>1, <2>5, GoingIsModest DEF netVars, Relying
    <3> QED BY <1>1, <2>1, <3>1, ModestIsTrue, CalmIsCareful DEF Careful
  <2> QED BY <1>7, <2>2, <2>3, <2>4, <2>5 DEF Deliver
<1>8. CASE Persist(t)
  BY <1>1, <1>2, <1>8, StatingIsCareful, DecidingIsCareful DEF Persist, Statement, Relying
<1>9. CASE Relock(t)
  <2>1. StoreCalm /\ told' = told /\ UNCHANGED netVars
    BY <1>2, <1>9 DEF Relock
  <2>2. ASSUME NEW o, Work(t, "settle", cur[t], [mem[t] EXCEPT !.outcome = o])
        PROVE  Careful(t)
    <3> DEFINE r == [mem[t] EXCEPT !.outcome = o]
    <3>1. r.view = mem[t].view /\ r.plan = mem[t].plan /\ Work(t, "settle", cur[t], r)
      BY <1>1, <2>2, MemoriesKeepMessages
    <3> HIDE DEF r
    <3> QED BY <1>1, <2>1, <3>1, RecallingIsCareful DEF Relying
  <2>3. CASE Work(t, "idle", NoSend, Idle)
    BY <1>1, <2>1, <2>3, MemoriesKeepMessages, RecallingIsCareful DEF Relying
  <2> QED BY <1>9, <2>2, <2>3 DEF Relock
<1> QED BY <1>3, <1>4, <1>5, <1>6, <1>7, <1>8, <1>9, FinishResolvedIsCareful, MatchIsCareful, ClaimIsCareful DEF SyncStep

(* A call that begins or ends is careful: a due row that has claimed its    *)
(* message stands for it (processNextDueOutboundSend).                      *)
LEMMA TurnsAreCareful ==
  ASSUME Typed, ReportInv, NEW t \in Threads, Start(t) \/ Leave(t)
  PROVE  Careful(t)
<1>1. ThreadTrue(t)
  BY DEF ReportInv
<1>2. ASSUME NEW l, l \notin Relying, NEW s, Work(t, l, s, Idle), UNCHANGED <<storeVars, netVars, told>>
      PROVE  Careful(t)
  BY <1>1, <1>2, SendAtHand, MemoriesKeepMessages, CalmTables, RecallingIsCareful
<1>3. CASE Sync(t) \/ Leave(t) \/ \E s \in Sends : Begin(t, s)
  BY <1>2, <1>3 DEF Sync, Leave, Begin, Relying
<1>4. CASE Due(t)
  <2> PICK s \in NextDue : Work(t, DueStep(s), s, [Idle EXCEPT !.job = s, !.rid = remoteID[s]])
    BY <1>4 DEF Due
  <2> DEFINE r == [Idle EXCEPT !.job = s, !.rid = remoteID[s]]
  <2>1. s \in Sends /\ state[s] \in States \ {"absent", "completed"}
    BY DEF NextDue, Present, Typed, IInv, StoreTypeOK
  <2>2. r.view = {} /\ r.plan = {} /\ r.rid = remoteID[s]
    BY DEF Idle
  <2>3. /\ DueStep(s) \in {"purge", "notify", "cancel", "map", "recover", "fetch"}
        /\ DueStep(s) = "map" => state[s] = "resolved"
    BY <2>1 DEF DueStep, States, PendingStates, InFlightStates, FailedStates, IdentityStates
  <2>4. DueStep(s) = "map" => Real(s, remoteID[s])
    BY <2>1, <2>3 DEF Typed, IInv, SchemaHolds, IdentityStates, ReportInv, RowsTrue
  <2>5. pc'[t] = DueStep(s) /\ cur'[t] = s /\ mem'[t] = r
    BY DEF Work, Typed, ThreadsOK
  <2>6. StoreCalm /\ told' = told /\ landed' = landed
    BY <1>4, CalmTables DEF Due, netVars
  <2> HIDE DEF r
  <2> QED BY <2>2, <2>3, <2>4, <2>5, <2>6, CalmIsCareful DEF Careful, ThreadTrue, Real
<1> QED BY <1>3, <1>4 DEF Start

-----------------------------------------------------------------------------
(* Every step is careful. *)

(* Faults and time say nothing and complete nothing, and a thread that a    *)
(* crash stops has forgotten what it relied on.                             *)
LEMMA OthersAreCareful ==
  ASSUME Typed, Faulty \/ Time
  PROVE  /\ RowsCareful
         /\ \A t \in Threads : \/ pc'[t] = pc[t] /\ cur'[t] = cur[t] /\ mem'[t] = mem[t]
                               \/ ThreadTrue(t)'
<1>1. told' = told
  BY DEF Faulty, ConversationGone, RoomGone, LoseSession, Crash, Time, Clock
<1>2. StoreCalm
  <2>1. UNCHANGED storeVars => StoreCalm
    BY CalmTables
  <2>2. (\E t \in Threads : ConversationGone(t)) \/ (\E r \in Rooms : RoomGone(r)) => StoreCalm
    BY CalmTables DEF ConversationGone, RoomGone
  <2>3. LoseSession \/ (\E p \in Procs : Crash(p)) => StoreCalm
    BY <2>1 DEF LoseSession, Crash
  <2>4. Time => StoreCalm
    BY CalmStatements DEF Time, Clock
  <2> QED BY <2>2, <2>3, <2>4 DEF Faulty
<1>3. ASSUME NEW t \in Threads
      PROVE  (pc'[t] = pc[t] /\ cur'[t] = cur[t] /\ mem'[t] = mem[t]) \/ ThreadTrue(t)'
  <2>1. CASE UNCHANGED threadVars
    BY <2>1 DEF threadVars
  <2>2. ASSUME NEW p \in Procs, Crash(p)
        PROVE  (pc'[t] = pc[t] /\ cur'[t] = cur[t] /\ mem'[t] = mem[t]) \/ ThreadTrue(t)'
    <3>1. \/ pc'[t] = "idle" /\ mem'[t] = Idle
          \/ pc'[t] = pc[t] /\ cur'[t] = cur[t] /\ mem'[t] = mem[t]
      BY <2>2 DEF Crash
    <3>2. Idle.view = {} /\ Idle.plan = {}
      BY DEF Idle
    <3> QED BY <3>1, <3>2 DEF ThreadTrue
  <2>3. Time => UNCHANGED threadVars
    BY DEF Time, Clock
  <2>4. (\E u \in Threads : ConversationGone(u)) \/ (\E r \in Rooms : RoomGone(r)) \/ LoseSession
          => UNCHANGED threadVars
    BY DEF ConversationGone, RoomGone, LoseSession
  <2> QED BY <2>1, <2>2, <2>3, <2>4 DEF Faulty
<1> QED BY <1>1, <1>2, <1>3, CalmIsCareful

(* No step takes a message or a status back. *)
LEMMA EveryStepGrows ==
  ASSUME OutboundInv, [Next]_vars
  PROVE  Grows
<1>1. Kinds
  BY StepsAreOfAKind
<1>2. Remote => landed \subseteq landed'
  BY DEF Remote, Land, Refuse, Write
<1>3. ASSUME NEW t \in Threads, Sound(t) \/ Licenses(t, "post") \/ Licenses(t, "drop") \/ Post(t)
      PROVE  Grows
  BY <1>3 DEF Sound, Reports, Licenses, Post, Grows, netVars
<1>4. CASE Outside
  BY <1>4 DEF Outside, Grows, netVars
<1>5. CASE Away /\ (Remote \/ UNCHANGED vars)
  BY <1>2, <1>5 DEF Away, Grows, vars, netVars
<1> QED BY <1>1, <1>3, <1>4, <1>5 DEF Kinds

(* Every step keeps the statuses true. *)
LEMMA ReportInvIsInductive ==
  ASSUME OutboundInv, ReportInv, [Next]_vars
  PROVE  ReportInv'
<1>1. Typed /\ Orderly /\ Grows /\ RowsTrue
  BY OutboundInvIsInductive, EveryStepGrows DEF OutboundInv, ReportInv
<1>2. /\ RowsCareful
      /\ \A t \in Threads : (pc'[t] = pc[t] /\ cur'[t] = cur[t] /\ mem'[t] = mem[t]) \/ ThreadTrue(t)'
  <2>1. ASSUME NEW t \in Threads, Start(t) \/ Continue(t)
        PROVE  /\ RowsCareful
               /\ \A u \in Threads : (pc'[u] = pc[u] /\ cur'[u] = cur[u] /\ mem'[u] = mem[u]) \/ ThreadTrue(u)'
    <3>1. Careful(t)
      BY <1>1, <2>1, HandlerIsCareful, BindingIsCareful, NoticeIsCareful, FinishIsCareful, WorkerIsCareful,
         SyncIsCareful, TurnsAreCareful DEF Continue
    <3>2. Alone(t)
      BY <1>1, <2>1, ThreadSteps, PostFacts DEF OutboundInv, Judged, Sound, Licenses
    <3> QED BY <3>1, <3>2 DEF Careful, Alone
  <2>2. CASE Faulty \/ Time
    BY <1>1, <2>2, OthersAreCareful
  <2>3. CASE Remote \/ UNCHANGED vars
    <3>1. UNCHANGED <<storeVars, threadVars, told>>
      BY <2>3 DEF Remote, Land, Refuse, Write, vars
    <3> QED BY <1>1, <3>1, CalmTables, CalmIsCareful DEF threadVars
  <2> QED BY <2>1, <2>2, <2>3 DEF Next
<1>3. RowsTrue'
  BY <1>1, <1>2, RowsStayTrue
<1>4. ASSUME NEW t \in Threads
      PROVE  ThreadTrue(t)'
  BY <1>1, <1>2, ThreadStaysTrue DEF ReportInv, RowsTrue
<1> QED BY <1>3, <1>4 DEF ReportInv

(* At first no row and no thread says anything. *)
LEMMA ReportInvHoldsInitially ==
  ASSUME Init
  PROVE  ReportInv
<1>1. RowsTrue
  BY DEF Init, StoreInit, RowsTrue, Present
<1>2. ASSUME NEW t \in Threads
      PROVE  ThreadTrue(t)
  <2>1. pc[t] = "idle" /\ mem[t] = Idle
    BY DEF Init
  <2> QED BY <2>1 DEF ThreadTrue, Idle
<1> QED BY <1>1, <1>2 DEF ReportInv

(* A status that has been said, and a row that has ended, are true of one    *)
(* another and of the conversation.                                          *)
THEOREM ReportsHold == Spec => []ReportInv
<1>1. Init => ReportInv
  BY ReportInvHoldsInitially
<1>2. OutboundInv /\ ReportInv /\ [Next]_vars => ReportInv'
  BY ReportInvIsInductive
<1> QED BY <1>1, <1>2, OutboundInvariantHolds, PTL DEF Spec

(* A send that was reported as delivered stands for a message that is in the *)
(* conversation, with its content, until its room is deleted                 *)
(* (finalizeOutboundWithoutEcho saves the mapping before it reports).        *)
THEOREM SuccessIsHonest == Spec => []HonestSuccess
<1>1. ReportInv => HonestSuccess
  BY DEF ReportInv, RowsTrue, Shown, Real, HonestSuccess
<1> QED BY <1>1, ReportsHold, PTL

(* No send ends in silence: a row is completed, marked notified or deleted   *)
(* after its POST only when the user has been told (retainCompletedOutbound, *)
(* notifyOutboundStatusAtLeastOnce, deleteUnconfirmedOutboundSendQuery).     *)
THEOREM NothingIsSilent == Spec => []NeverSilent
<1>1. ReportInv => NeverSilent
  BY DEF ReportInv, RowsTrue, NeverSilent
<1> QED BY <1>1, ReportsHold, PTL

-----------------------------------------------------------------------------
(* What keeps an echo from being bridged as a message of its own. *)

(* s waits for an echo that has its content. *)
Awaited(s) == InFlight(s) /\ Content[Own[s]] = Content[s]

(* Another send was taken for the echo of s, or given up. *)
Taken(s) == \E r \in Sends \ {s} : Took(r, Own[s])

(* What holds of the sends whose echo is among the messages V, while a sync *)
(* looks for matches and when it has set the candidates aside.              *)
AllBound(V) == \A s \in Sends : InFlight(s) /\ Own[s] \in V => conversation[s] = Conv
AllTaken(V) == \A s \in Sends : Awaited(s) /\ Own[s] \in V => Taken(s)

(* What the tables say of the echoes. *)
EchoesTrue ==
  /\ \A s \in Sends : InFlight(s) => Own[s] \notin baseline[s]
  /\ \A s \in Sends : Awaited(s) /\ mapped[Own[s]] = Ordinary => Taken(s)
  /\ \A m \in Remotes : mapped[m] = Ordinary => m \in landed
  /\ \A m \in Remotes : mapped[m] \notin {Unmapped, Ordinary} => \E r \in Sends : Took(r, m)

(* Where a thread is: at a call that no sync makes, at one that returns to  *)
(* where next says, between the binding of the unbound sends and the        *)
(* matching, or after the matching.                                         *)
Before        == HandlerLabels \cup BindLabels \cup {"cancel", "recover"}
Aside         == NoticeLabels \cup {"map", "unmap", "succeed", "complete", "park"}
Seeking(l, n) == l \in {"resolved", "match"} \/ (l \in Aside /\ n = "resolved")
Holding(l, n) == l \in {"claim", "handover", "deliver", "persist"} \/ (l \in Aside /\ n = "claim")

(* What the messages that a thread holds are known to be. *)
Guards(l, s, r) ==
  /\ l \in Before => r.next \notin {"resolved", "claim"}
  /\ Seeking(l, r.next) => AllBound(r.view)
  /\ Holding(l, r.next) => AllTaken(r.view)
  /\ \A e \in r.tx : Took(e[2], e[1])
  /\ l \in {"map", "persist"} => Took(s, r.rid)

Guarded(t) == Guards(pc[t], cur[t], mem[t])

QuarantineInv == EchoesTrue /\ \A t \in Threads : Guarded(t)

-----------------------------------------------------------------------------
(* What the outbox has taken stays taken. *)

(* A send in flight was so before, and as it was, or is submitted now; a    *)
(* claim goes only with the row, or when it is given up.                    *)
EchoStep ==
  \A s \in Sends :
    /\ InFlight(s)' => \/ submits'[s] # submits[s]
                       \/ /\ InFlight(s) /\ baseline'[s] = baseline[s]
                          /\ conversation[s] = Conv => conversation'[s] = Conv
    /\ remoteID[s] # NoRemote => remoteID'[s] = remoteID[s] \/ state'[s] \in {"unconfirmed", "absent"}

(* Of the outbox's statements only MarkSubmitting makes a send wait for its *)
(* echo, and none unties or reopens one that waits.                         *)
LEMMA StoreKeepsEchoes ==
  ASSUME StoreTypeOK, [StoreNext]_storeVars
  PROVE  EchoStep
<1> USE DEF EchoStep, StoreTypeOK, SetState, InFlight, InFlightStates
<1>1. ASSUME NEW s \in Sends, RowNext(s) PROVE EchoStep
  <2>1. CASE \E c \in Convs \cup {NoConv} : Insert(s, c)
    BY <2>1 DEF Insert
  <2>2. CASE \E c \in Convs : PrepareConversationBinding(s, c) \/ BindConversation(s, c)
    BY <2>2, OutboundAssumption DEF PrepareConversationBinding, BindConversation
  <2>3. CASE \E base \in Baselines : MarkSubmitting(s, base)
    BY <2>3 DEF MarkSubmitting
  <2>4. CASE MarkAwaitingEcho(s) \/ MarkUncertain(s)
    BY <2>4 DEF MarkAwaitingEcho, MarkUncertain, Awaitable
  <2>5. CASE \E m \in Remotes : \/ ClaimRemoteMessage(s, m)
                                \/ MarkResolvedUnconfirmed(s, m)
                                \/ MarkCompleted(s, m)
    BY <2>5 DEF ClaimRemoteMessage, FreeRemote, MarkResolvedUnconfirmed, MarkCompleted, Completable, Terminate
  <2>6. CASE ClaimPreparedNotSubmitted(s) \/ MarkSubmittingNotSubmitted(s) \/ MarkUnconfirmed(s)
    BY <2>6 DEF ClaimPreparedNotSubmitted, MarkSubmittingNotSubmitted, MarkUnconfirmed, Terminate
  <2>7. CASE \E k \in Tokens : \/ ClaimStatusDelivery(s, k)
                               \/ FinishStatusDelivery(s, k)
                               \/ ReleaseStatusDelivery(s, k)
    BY <2>7 DEF ClaimStatusDelivery, FinishStatusDelivery, ReleaseStatusDelivery
  <2>8. CASE DeletePrepared(s) \/ DeleteFailed(s)
    BY <2>8 DEF DeletePrepared, DeleteFailed, EraseRow
  <2>9. CASE ScheduleRetry(s) \/ FallDue(s) \/ LapseClaim(s) \/ GrowOld(s)
    BY <2>9 DEF ScheduleRetry, FallDue, LapseClaim, GrowOld
  <2> QED BY <1>1, <2>1, <2>2, <2>3, <2>4, <2>5, <2>6, <2>7, <2>8, <2>9 DEF RowNext
<1>2. CASE TableNext
  BY <1>2 DEF TableNext, TerminalizeConversation, Cancellable, MapMessage, LoseRoom, MoveRoom, rowVars
<1>3. CASE UNCHANGED storeVars
  BY <1>3 DEF storeVars, rowVars
<1> QED BY <1>1, <1>2, <1>3 DEF StoreNext

(* Took after the step, of a send and a message of now. *)
TookNext(r, m) == /\ Content[r] = Content[m]
                  /\ remoteID'[r] = m \/ state'[r] = "unconfirmed" \/ <<r, "unconfirmed">> \in told'

(* A row that was taken for a message stays so: it keeps its claim until it *)
(* is given up, and is erased after that only when the user was told.       *)
LEMMA TookStays ==
  ASSUME Typed, RowsTrue, Orderly, Grows, NEW r \in Sends, NEW m \in Remotes, Took(r, m)
  PROVE  TookNext(r, m)
<1>1. IInv /\ FinalityStep /\ RowsGoOn /\ ErasedRight /\ EchoStep
  BY StoreSteps, RowsAreErasedRight, StoreKeepsEchoes DEF Typed, Orderly, IInv
<1>2. CASE remoteID[r] = m
  <2>1. remoteID[r] # NoRemote /\ state[r] \in {"resolved", "completed"}
    BY <1>1, <1>2, StoreAssumption DEF IInv, SchemaHolds, IdentityStates
  <2>2. state'[r] # "absent"
    BY <1>1, <2>1 DEF ErasedRight, Present, FailedStates
  <2> QED BY <1>1, <1>2, <2>1, <2>2 DEF EchoStep, Took, TookNext
<1>3. CASE state[r] = "unconfirmed"
  <2>1. r \in terminal
    BY <1>1, <1>3 DEF IInv, ReceiptsMatch, EndStates, FailedStates
  <2>2. CASE state'[r] = "absent"
    BY <1>1, <1>3, <2>2 DEF ErasedRight, Present, RowsTrue, Grows, Took, TookNext
  <2> QED BY <1>1, <1>3, <2>1, <2>2 DEF FinalityStep, Took, TookNext
<1>4. CASE <<r, "unconfirmed">> \in told
  BY <1>4 DEF Grows, Took, TookNext
<1> QED BY <1>2, <1>3, <1>4 DEF Took

(* A message that is on Tumblr is the echo of no send that is still to be   *)
(* submitted (OnTumblr).                                                    *)
LEMMA EchoesFollowTheirPost ==
  ASSUME OutboundInv, Orderly, NEW s \in Sends, Own[s] \in landed
  PROVE  submits'[s] = submits[s]
<1>1. submits[s] = 1
  BY DEF OutboundInv, OnTumblr, Licensed
<1>2. state[s] # "prepared"
  BY <1>1, StoreAssumption DEF OutboundInv, Typed, IInv, SubmissionsTraced, ReceiptsMatch, Present, InFlightStates,
                               EndStates, FailedStates
<1> QED BY <1>2 DEF Orderly

(* A send that is in flight was not taken for anything. *)
LEMMA WaitingIsNotTaken ==
  ASSUME OutboundInv, NEW s \in Sends, InFlight(s), NEW m \in Remotes
  PROVE  ~Took(s, m)
<1>1. state[s] \in InFlightStates /\ remoteID[s] # m
  BY StoreAssumption DEF OutboundInv, Typed, IInv, SchemaHolds, IdentityStates, InFlight, InFlightStates
<1>2. <<s, "unconfirmed">> \notin told
  BY <1>1 DEF OutboundInv, Judged, Said, Kept, InFlightStates
<1> QED BY <1>1, <1>2 DEF Took, InFlightStates

(* AllBound and AllTaken after the step, of the messages of now.            *)
BoundNext(V) == \A s \in Sends : InFlight(s)' /\ Own[s] \in V => conversation'[s] = Conv
TakenNext(V) == \A s \in Sends : InFlight(s)' /\ Content[Own[s]] = Content[s] /\ Own[s] \in V =>
                                   \E r \in Sends \ {s} : TookNext(r, Own[s])

(* What is known of messages stays true of them. *)
Steady ==
  /\ \A r \in Sends, m \in Remotes : Took(r, m) => TookNext(r, m)
  /\ \A V : V \subseteq landed /\ AllBound(V) => BoundNext(V)
  /\ \A V : V \subseteq landed /\ AllTaken(V) => TakenNext(V)

(* What is known of messages that are on Tumblr stays true of them: their   *)
(* sends were submitted before, so no send begins to wait for one of them.  *)
LEMMA StepsAreSteady ==
  ASSUME OutboundInv, RowsTrue, Orderly, Grows
  PROVE  Steady
<1>1. \A r \in Sends, m \in Remotes : Took(r, m) => TookNext(r, m)
  BY TookStays DEF OutboundInv
<1>2. ASSUME NEW s \in Sends, InFlight(s)', Own[s] \in landed
      PROVE  InFlight(s) /\ (conversation[s] = Conv => conversation'[s] = Conv)
  BY <1>2, EchoesFollowTheirPost, StoreKeepsEchoes DEF EchoStep, OutboundInv, Typed, IInv, Orderly
<1>3. ASSUME NEW V, V \subseteq landed, AllBound(V) PROVE BoundNext(V)
  BY <1>2, <1>3 DEF AllBound, BoundNext
<1>4. ASSUME NEW V, V \subseteq landed, AllTaken(V) PROVE TakenNext(V)
  BY <1>1, <1>2, <1>4, OutboundAssumption DEF AllTaken, TakenNext, Awaited, Taken
<1> QED BY <1>1, <1>3, <1>4 DEF Steady

-----------------------------------------------------------------------------
(* What a step must do to keep the quarantine. *)

(* Guards after the step, of what the thread holds then. *)
GuardsNext(l, s, r) ==
  /\ l \in Before => r.next \notin {"resolved", "claim"}
  /\ Seeking(l, r.next) => BoundNext(r.view)
  /\ Holding(l, r.next) => TakenNext(r.view)
  /\ \A e \in r.tx : TookNext(e[2], e[1])
  /\ l \in {"map", "persist"} => TookNext(s, r.rid)

(* A thread is guarded after a step when what it then holds is.             *)
LEMMA GuardsHold ==
  ASSUME Typed, NEW t \in Threads, NEW l, NEW s, NEW r, Work(t, l, s, r), GuardsNext(l, s, r)
  PROVE  Guarded(t)'
<1>1. pc'[t] = l /\ cur'[t] = s /\ mem'[t] = r
  BY DEF Work, Typed, ThreadsOK
<1> QED BY <1>1 DEF Guarded, Guards, GuardsNext, AllBound, AllTaken, Awaited, Taken, BoundNext, TakenNext, Took, TookNext

(* A message gets an event of its own only from the conversation, and when  *)
(* it is no echo still waited for; it gets another event when it was taken. *)
MapsRight ==
  \A m \in Remotes : \/ mapped'[m] \in {mapped[m], Unmapped}
                     \/ mapped'[m] = Ordinary /\ m \in landed /\ AllTaken({m})
                     \/ mapped'[m] # Ordinary /\ \E r \in Sends : Took(r, m)

(* The baseline of a submission was read before it. *)
BaselinesSeen == \A s \in Sends : submits'[s] # submits[s] => baseline'[s] \subseteq landed

(* The tables stay true of the echoes in a step that maps only what it may, *)
(* and submits a send only with messages that were on Tumblr before it.     *)
LEMMA EchoesStayTrue ==
  ASSUME OutboundInv, RowsTrue, Orderly, Grows, EchoesTrue, MapsRight, BaselinesSeen
  PROVE  EchoesTrue'
<1>1. Steady
  BY StepsAreSteady
<1>2. ASSUME NEW s \in Sends, InFlight(s)'
      PROVE  \/ Own[s] \notin landed /\ baseline'[s] \subseteq landed
             \/ InFlight(s) /\ baseline'[s] = baseline[s]
  BY <1>2, EchoesFollowTheirPost, StoreKeepsEchoes DEF EchoStep, OutboundInv, Typed, IInv, Orderly, BaselinesSeen
<1>3. ASSUME NEW s \in Sends, InFlight(s)'
      PROVE  Own[s] \notin baseline'[s]
  BY <1>2, <1>3 DEF EchoesTrue
<1>4. ASSUME NEW m \in Remotes, mapped'[m] = Ordinary
      PROVE  m \in landed /\ AllTaken({m})
  <2>1. CASE mapped[m] = Ordinary
    BY <2>1 DEF EchoesTrue, AllTaken
  <2> QED BY <1>4, <2>1, StoreAssumption DEF MapsRight
<1>5. ASSUME NEW s \in Sends, InFlight(s)', Content[Own[s]] = Content[s], mapped'[Own[s]] = Ordinary
      PROVE  \E r \in Sends \ {s} : TookNext(r, Own[s])
  <2>1. Own[s] \in Remotes
    BY OutboundAssumption
  <2>2. TakenNext({Own[s]})
    BY <1>1, <1>4, <1>5, <2>1 DEF Steady
  <2> QED BY <1>5, <2>2 DEF TakenNext
<1>6. ASSUME NEW m \in Remotes, mapped'[m] \notin {Unmapped, Ordinary}
      PROVE  \E r \in Sends : TookNext(r, m)
  BY <1>1, <1>6 DEF MapsRight, EchoesTrue, Steady
<1>7. landed \subseteq landed'
  BY DEF Grows
<1> QED BY <1>3, <1>4, <1>5, <1>6, <1>7 DEF EchoesTrue, Awaited, Taken, Took, TookNext

(* What a thread knows of its messages stays true while others go on. *)
LEMMA GuardsStay ==
  ASSUME Typed, Steady, NEW t \in Threads, mem[t].view \subseteq landed, Guarded(t)
  PROVE  GuardsNext(pc[t], cur[t], mem[t])
<1>1. /\ mem[t].tx \subseteq Remotes \X Sends
      /\ pc[t] \in {"map", "persist"} => cur[t] \in Sends /\ mem[t].rid \in Remotes
  BY SendAtHand DEF Memories, SendLabels, FinishLabels, MessageLabels
<1> QED BY <1>1 DEF Guarded, Guards, GuardsNext, Steady

(* A thread that takes no step stays guarded.                               *)
LEMMA IdleThreadsStayGuarded ==
  ASSUME Typed, Steady, NEW t \in Threads, mem[t].view \subseteq landed, Guarded(t),
         pc'[t] = pc[t] /\ cur'[t] = cur[t] /\ mem'[t] = mem[t]
  PROVE  Guarded(t)'
<1>1. GuardsNext(pc[t], cur[t], mem[t])
  BY GuardsStay
<1> QED BY <1>1 DEF Guarded, Guards, GuardsNext, AllBound, AllTaken, Awaited, Taken, BoundNext, TakenNext, Took, TookNext

(* t may go to l to return to n: it does not claim to have looked further   *)
(* than it has.                                                             *)
Turns(t, l, n) ==
  /\ l \in Before => n \notin {"resolved", "claim"}
  /\ Seeking(l, n) => Seeking(pc[t], mem[t].next)
  /\ Holding(l, n) => Holding(pc[t], mem[t].next)
  /\ l \notin {"map", "persist"}

(* Going on with no more messages than before keeps a thread guarded. *)
LEMMA CarryingOn ==
  ASSUME Typed, Steady, NEW t \in Threads, mem[t].view \subseteq landed, Guarded(t), NEW l, NEW s, NEW r,
         Work(t, l, s, r), Turns(t, l, r.next), r.tx \subseteq mem[t].tx,
         Seeking(l, r.next) \/ Holding(l, r.next) => r.view \subseteq mem[t].view
  PROVE  Guarded(t)'
<1>1. GuardsNext(pc[t], cur[t], mem[t])
  BY GuardsStay
<1>2. GuardsNext(l, s, r)
  BY <1>1 DEF GuardsNext, Turns, BoundNext, TakenNext
<1> QED BY <1>2, GuardsHold

(* The same with the memory as it is.                                       *)
LEMMA GoingOn ==
  ASSUME Typed, Steady, NEW t \in Threads, mem[t].view \subseteq landed, Guarded(t), NEW l,
         Goto(t, l), Turns(t, l, mem[t].next)
  PROVE  Guarded(t)'
<1>1. Work(t, l, cur[t], mem[t])
  BY GotoIsWork DEF Typed
<1> QED BY <1>1, CarryingOn

(* What the steps write into a thread's local state beside claims. *)
LEMMA MemoriesKeepClaims ==
  ASSUME NEW r \in Memories, NEW a, NEW b
  PROVE  /\ [r EXCEPT !.next = a].next = a /\ [r EXCEPT !.next = a].tx = r.tx /\ [r EXCEPT !.next = a].view = r.view
         /\ [r EXCEPT !.next = a, !.rid = b].next = a /\ [r EXCEPT !.next = a, !.rid = b].tx = r.tx
         /\ [r EXCEPT !.next = a, !.rid = b].rid = b
         /\ [r EXCEPT !.kind = a].next = r.next /\ [r EXCEPT !.kind = a].tx = r.tx /\ [r EXCEPT !.kind = a].view = r.view
         /\ [r EXCEPT !.outcome = a].next = r.next /\ [r EXCEPT !.outcome = a].tx = r.tx
         /\ [r EXCEPT !.view = a].next = r.next /\ [r EXCEPT !.view = a].tx = r.tx /\ [r EXCEPT !.view = a].view = a
         /\ [r EXCEPT !.view = a, !.next = b].next = b /\ [r EXCEPT !.view = a, !.next = b].tx = r.tx
         /\ [r EXCEPT !.view = a, !.rid = b].tx = r.tx /\ [r EXCEPT !.view = a, !.rid = b].rid = b
         /\ [r EXCEPT !.view = a, !.rid = b].next = r.next /\ [r EXCEPT !.view = a, !.rid = b].view = a
         /\ [r EXCEPT !.view = a, !.outcome = b].next = r.next /\ [r EXCEPT !.view = a, !.outcome = b].tx = r.tx
         /\ [r EXCEPT !.view = a, !.outcome = b].view = a
         /\ Idle.next = "leave" /\ Idle.tx = {} /\ Idle.view = {}
BY DEF Memories, Idle

-----------------------------------------------------------------------------
(* What the steps map. *)

(* The statements of the threads over one row leave the message table alone. *)
LEMMA StatementsMapNothing ==
  ASSUME NEW s
  PROVE  /\ \A c : Insert(s, c) => mapped' = mapped
         /\ \A c : PrepareConversationBinding(s, c) \/ BindConversation(s, c) => mapped' = mapped
         /\ \A V : MarkSubmitting(s, V) => mapped' = mapped
         /\ MarkAwaitingEcho(s) \/ MarkUncertain(s) => mapped' = mapped
         /\ ClaimPreparedNotSubmitted(s) \/ MarkSubmittingNotSubmitted(s) \/ MarkUnconfirmed(s) => mapped' = mapped
         /\ \A m : ClaimRemoteMessage(s, m) \/ MarkResolvedUnconfirmed(s, m) \/ MarkCompleted(s, m) => mapped' = mapped
         /\ \A k : ClaimStatusDelivery(s, k) \/ FinishStatusDelivery(s, k) \/ ReleaseStatusDelivery(s, k)
                     => mapped' = mapped
         /\ ScheduleRetry(s) \/ DeletePrepared(s) \/ DeleteFailed(s) => mapped' = mapped
         /\ FallDue(s) \/ LapseClaim(s) \/ GrowOld(s) => mapped' = mapped
BY DEF Insert, PrepareConversationBinding, BindConversation, MarkSubmitting, MarkAwaitingEcho, MarkUncertain,
       ClaimRemoteMessage, MarkResolvedUnconfirmed, MarkCompleted, ClaimPreparedNotSubmitted,
       MarkSubmittingNotSubmitted, MarkUnconfirmed, Terminate, ClaimStatusDelivery, FinishStatusDelivery,
       ReleaseStatusDelivery, ScheduleRetry, DeletePrepared, DeleteFailed, EraseRow, FallDue, LapseClaim, GrowOld

(* Most steps of a thread map nothing; a room that goes may take what was   *)
(* mapped with it.                                                          *)
LEMMA MostStepsMapNothing ==
  ASSUME Typed, NEW t \in Threads,
         \/ Start(t) \/ HandlerStep(t) \/ BindStep(t) \/ NoticeStep(t) \/ WorkerStep(t) \/ Leave(t)
         \/ Unmap(t) \/ Succeed(t) \/ Complete(t) \/ Park(t) \/ Defer(t)
         \/ Fetch(t) \/ BindUnbound(t) \/ FinishResolved(t) \/ Match(t) \/ Claim(t) \/ Broken(t)
         \/ Handover(t) \/ Relock(t)
  PROVE  MapsRight
<1>1. UNCHANGED storeVars => mapped' = mapped
  BY DEF storeVars
<1>2. \A l : Decide(t, l) \/ Fail(t, l) => mapped' = mapped
  BY <1>1 DEF Decide, Fail
<1>3. CASE HandlerStep(t)
  <2>1. Yield(t) => mapped' = mapped
    BY <1>1 DEF Yield
  <2>2. Load(t) \/ Baseline(t) \/ Submit(t) \/ Drop(t) => mapped' = mapped
    BY <1>1, <1>2, <2>1, StatementsMapNothing DEF Load, Baseline, Submit, Drop
  <2>3. Post(t) \/ Answer(t) \/ Ack(t) \/ Unsure(t) \/ Reject(t) \/ ClaimResponse(t) => mapped' = mapped
    BY <1>1, <1>2, <2>1, StatementsMapNothing DEF Post, Answer, Ack, Unsure, Reject, ClaimResponse
  <2> QED BY <1>3, <2>2, <2>3 DEF HandlerStep, MapsRight
<1>4. CASE BindStep(t)
  <2>1. Stage(t) \/ Bind(t) => mapped' = mapped
    BY <1>1, <1>2, StatementsMapNothing DEF Stage, Bind
  <2>2. \A r : LoseRoom(r) \/ MoveRoom(r, Conv) => \A m \in Remotes : mapped'[m] \in {mapped[m], Unmapped}
    BY DEF LoseRoom, MoveRoom
  <2>3. Move(t) => \A m \in Remotes : mapped'[m] \in {mapped[m], Unmapped}
    BY <1>1, <1>2, <2>2 DEF Move
  <2> QED BY <1>4, <2>1, <2>3 DEF BindStep, MapsRight
<1>5. CASE NoticeStep(t)
  <2>1. mapped' = mapped
    BY <1>1, <1>2, <1>5, StatementsMapNothing DEF NoticeStep, NotifyClaim, Tell, FinishNotice, ReleaseNotice, Postpone
  <2> QED BY <2>1 DEF MapsRight
<1>6. CASE WorkerStep(t)
  <2>1. mapped' = mapped
    BY <1>1, <1>2, <1>6, StatementsMapNothing DEF WorkerStep, Purge, Cancel, Recover, Settle
  <2> QED BY <2>1 DEF MapsRight
<1>7. CASE Unmap(t) \/ Succeed(t) \/ Complete(t) \/ Park(t) \/ Defer(t)
  <2>1. mapped' = mapped
    BY <1>1, <1>2, <1>7, StatementsMapNothing DEF Unmap, Succeed, Complete, Park, Defer
  <2> QED BY <2>1 DEF MapsRight
<1>8. CASE Fetch(t) \/ BindUnbound(t) \/ FinishResolved(t) \/ Match(t)
  <2>1. mapped' = mapped
    BY <1>1, <1>2, <1>8 DEF Fetch, BindUnbound, FinishResolved, Match
  <2> QED BY <2>1 DEF MapsRight
<1>9. CASE Claim(t) \/ Broken(t) \/ Handover(t) \/ Relock(t)
  <2>1. mapped' = mapped
    BY <1>1, <1>2, <1>9, StatementsMapNothing DEF Claim, Broken, Handover, Relock
  <2> QED BY <2>1 DEF MapsRight
<1>10. CASE Start(t) \/ Leave(t)
  <2>1. mapped' = mapped
    BY <1>1, <1>10 DEF Start, Begin, Due, Sync, Leave
  <2> QED BY <2>1 DEF MapsRight
<1> QED BY <1>3, <1>4, <1>5, <1>6, <1>7, <1>8, <1>9, <1>10

-----------------------------------------------------------------------------
(* Steps of the threads keep the quarantine. *)

(* What a thread can rely on when it takes a step. *)
Ready(t) == /\ Typed /\ Steady /\ RowsTrue
            /\ mem[t].view \subseteq landed /\ Guarded(t)

(* Where a call returns to. *)
LEMMA ReturnsTurn ==
  ASSUME Typed, NEW t \in Threads, Guarded(t)
  PROVE  /\ \A l \in {"leave", "fetch", "unbound", "broken", "settle", "relock", "idle", "defer", "purge"} :
              \A n : Turns(t, l, n)
         /\ pc[t] \in Before => /\ \A l \in Before : Turns(t, l, mem[t].next)
                                /\ \A l \in Aside \ {"map"} : Turns(t, l, mem[t].next)
                                /\ Turns(t, mem[t].next, mem[t].next)
         /\ \A l \in Before : \A n \in {"leave", "baseline", "ack", "fetch", "unbound"} : Turns(t, l, n)
         /\ \A l \in Aside \ {"map"} : \A n \in {"leave", "baseline", "ack", "fetch", "unbound"} : Turns(t, l, n)
         /\ pc[t] \in Aside => /\ \A l \in Aside \ {"map"} : Turns(t, l, mem[t].next)
                               /\ mem[t].next \in {"unbound", "resolved", "claim"} => Turns(t, mem[t].next, mem[t].next)
<1> USE DEF Turns, Seeking, Holding, Before, Aside, HandlerLabels, BindLabels, NoticeLabels
<1>1. \A l \in {"leave", "fetch", "unbound", "broken", "settle", "relock", "idle", "defer", "purge"} :
        \A n : Turns(t, l, n)
  OBVIOUS
<1>2. ASSUME pc[t] \in Before
      PROVE  /\ \A l \in Before : Turns(t, l, mem[t].next)
             /\ \A l \in Aside \ {"map"} : Turns(t, l, mem[t].next)
             /\ Turns(t, mem[t].next, mem[t].next)
  <2>1. mem[t].next \notin {"resolved", "claim"} /\ mem[t].next \in Returns
    BY <1>2, SendAtHand DEF Guarded, Guards
  <2> QED BY <2>1 DEF Returns
<1>3. \A l \in Before : \A n \in {"leave", "baseline", "ack", "fetch", "unbound"} : Turns(t, l, n)
  OBVIOUS
<1>4. \A l \in Aside \ {"map"} : \A n \in {"leave", "baseline", "ack", "fetch", "unbound"} : Turns(t, l, n)
  OBVIOUS
<1>5. ASSUME pc[t] \in Aside
      PROVE  /\ \A l \in Aside \ {"map"} : Turns(t, l, mem[t].next)
             /\ mem[t].next \in {"unbound", "resolved", "claim"} => Turns(t, mem[t].next, mem[t].next)
  BY <1>5
<1> QED BY <1>1, <1>2, <1>3, <1>4, <1>5

(* Going on, and going on with another place to return to. *)
LEMMA ReadyGoes ==
  ASSUME NEW t \in Threads, Ready(t)
  PROVE  /\ \A l : Turns(t, l, mem[t].next) /\ Goto(t, l) => Guarded(t)'
         /\ \A l, s, r : Turns(t, l, r.next) /\ r.tx = mem[t].tx /\ r.view = mem[t].view /\ Work(t, l, s, r) => Guarded(t)'
         /\ \A l, s, n : Turns(t, l, n) /\ Work(t, l, s, [mem[t] EXCEPT !.next = n]) => Guarded(t)'
<1>1. \A l : Turns(t, l, mem[t].next) /\ Goto(t, l) => Guarded(t)'
  BY GoingOn DEF Ready
<1>2. \A l, s, r : Turns(t, l, r.next) /\ r.tx = mem[t].tx /\ r.view = mem[t].view /\ Work(t, l, s, r) => Guarded(t)'
  BY CarryingOn DEF Ready
<1>3. ASSUME NEW l, NEW s, NEW n, Turns(t, l, n), Work(t, l, s, [mem[t] EXCEPT !.next = n])
      PROVE  Guarded(t)'
  <2> DEFINE r == [mem[t] EXCEPT !.next = n]
  <2>1. r.next = n /\ r.tx = mem[t].tx /\ r.view = mem[t].view /\ Work(t, l, s, r)
    BY <1>3, SendAtHand, MemoriesKeepClaims DEF Ready
  <2> HIDE DEF r
  <2> QED BY <1>2, <1>3, <2>1
<1> QED BY <1>1, <1>2, <1>3

(* A handler is no part of a sync (sendMatrixMessageToTumblr). *)
LEMMA HandlerStaysGuarded ==
  ASSUME NEW t \in Threads, Ready(t), HandlerStep(t)
  PROVE  Guarded(t)'
<1> DEFINE s == cur[t]
<1>1. pc[t] \in Before /\ mem[t] \in Memories
  BY SendAtHand DEF Ready, HandlerStep, Load, Baseline, Submit, Drop, Post, Answer, Ack, Unsure, Reject, ClaimResponse, At,
                    Before, HandlerLabels
<1>2. \A l \in Before \cup {"leave", "notify"} : Turns(t, l, mem[t].next)
  BY <1>1, ReturnsTurn DEF Ready, Aside, NoticeLabels
<1>3. ASSUME NEW l \in Before \cup {"leave", "notify"}, Goto(t, l)
      PROVE  Guarded(t)'
  BY <1>2, <1>3, ReadyGoes
<1>4. CASE Load(t)
  <2>1. \/ Goto(t, "leave")
        \/ \E l \in {"stage", "baseline"} : Work(t, l, s, [mem[t] EXCEPT !.next = "baseline"])
    BY <1>4 DEF Load
  <2>2. \A l \in {"stage", "baseline"} : Turns(t, l, "baseline")
    BY ReturnsTurn DEF Ready, Before, BindLabels, HandlerLabels
  <2> QED BY <1>3, <2>1, <2>2, ReadyGoes
<1>5. CASE Baseline(t)
  <2>1. ASSUME NEW V, Work(t, "submit", s, [mem[t] EXCEPT !.view = V])
        PROVE  Guarded(t)'
    <3> DEFINE r == [mem[t] EXCEPT !.view = V]
    <3>1. r.next = mem[t].next /\ r.tx = mem[t].tx /\ Work(t, "submit", s, r)
      BY <1>1, <2>1, MemoriesKeepClaims
    <3>2. Turns(t, "submit", mem[t].next) /\ ~Seeking("submit", mem[t].next) /\ ~Holding("submit", mem[t].next)
      BY <1>2 DEF Before, HandlerLabels, Seeking, Holding, Aside, NoticeLabels
    <3> HIDE DEF r
    <3> QED BY <3>1, <3>2, CarryingOn DEF Ready
  <2> QED BY <1>3, <1>5, <2>1 DEF Baseline, Yield, Fail, Before, HandlerLabels
<1>6. CASE Answer(t)
  <2>1. ASSUME NEW V, NEW l \in {"stage", "ack"}, Work(t, l, s, [mem[t] EXCEPT !.view = V, !.next = "ack"])
        PROVE  Guarded(t)'
    <3> DEFINE r == [mem[t] EXCEPT !.view = V, !.next = "ack"]
    <3>1. r.next = "ack" /\ r.tx = mem[t].tx /\ Work(t, l, s, r)
      BY <1>1, <2>1, MemoriesKeepClaims
    <3>2. Turns(t, l, "ack") /\ ~Seeking(l, "ack") /\ ~Holding(l, "ack")
      BY ReturnsTurn DEF Ready, Before, HandlerLabels, BindLabels, Seeking, Holding
    <3> HIDE DEF r
    <3> QED BY <3>1, <3>2, CarryingOn DEF Ready
  <2> QED BY <1>3, <1>6, <2>1 DEF Answer, Before, HandlerLabels
<1>7. CASE Submit(t) \/ Drop(t) \/ Post(t) \/ Ack(t) \/ Unsure(t) \/ Reject(t) \/ ClaimResponse(t)
  <2>1. \E l \in Before \cup {"leave", "notify"} : Goto(t, l)
    BY <1>7 DEF Submit, Drop, Post, Ack, Unsure, Reject, ClaimResponse, Yield, Fail, Decide, Statement, Before, HandlerLabels
  <2> QED BY <1>3, <2>1
<1> QED BY <1>4, <1>5, <1>6, <1>7 DEF HandlerStep

(* Tying a row to the conversation is no part of the matching               *)
(* (bindOutboundSendToConversation).                                        *)
LEMMA BindingStaysGuarded ==
  ASSUME NEW t \in Threads, Ready(t), BindStep(t)
  PROVE  Guarded(t)'
<1>1. pc[t] \in Before
  BY DEF BindStep, Stage, Move, Bind, At, Before, BindLabels
<1>2. \E l \in Before \cup {"park", "defer", "broken", mem[t].next} : Goto(t, l)
  BY DEF BindStep, Stage, Move, Bind, BindFailed, Fail, Decide, Statement, Before, HandlerLabels, BindLabels
<1>3. \A l \in Before \cup {"park", "defer", "broken", mem[t].next} : Turns(t, l, mem[t].next)
  BY <1>1, ReturnsTurn DEF Ready, Aside
<1> QED BY <1>2, <1>3, ReadyGoes

(* Reporting a failure leaves a sync where it was                           *)
(* (notifyOutboundStatusAtLeastOnce).                                       *)
LEMMA NoticeStaysGuarded ==
  ASSUME NEW t \in Threads, Ready(t), NoticeStep(t)
  PROVE  Guarded(t)'
<1> DEFINE s == cur[t]
           r == [mem[t] EXCEPT !.kind = state[s]]
<1>1. pc[t] \in Aside /\ mem[t] \in Memories
  BY SendAtHand DEF Ready, NoticeStep, NotifyClaim, Tell, FinishNotice, ReleaseNotice, Postpone, At, Aside, NoticeLabels
<1>2. /\ \A l \in Aside \ {"map"} : Turns(t, l, mem[t].next)
      /\ Turns(t, AfterNotice(t), mem[t].next) /\ Turns(t, GiveUp(t), mem[t].next)
  BY <1>1, ReturnsTurn DEF Ready, AfterNotice, GiveUp
<1>3. \/ \E l \in NoticeLabels \cup {AfterNotice(t), GiveUp(t)} : Goto(t, l)
      \/ Work(t, "tell", s, r)
  BY DEF NoticeStep, NotifyClaim, Tell, FinishNotice, ReleaseNotice, Postpone, Fail, Decide, Statement, NoticeLabels
<1>4. NoticeLabels \subseteq Aside \ {"map"} /\ "tell" \in Aside \ {"map"}
  BY DEF Aside, NoticeLabels
<1>5. r.next = mem[t].next /\ r.tx = mem[t].tx /\ r.view = mem[t].view
  BY <1>1, MemoriesKeepClaims
<1> HIDE DEF r
<1> QED BY <1>2, <1>3, <1>4, <1>5, ReadyGoes

(* A row that has claimed a message was taken for it. *)
LEMMA ClaimsAreTaken ==
  ASSUME Typed, RowsTrue, NEW s \in Sends, remoteID[s] # NoRemote
  PROVE  remoteID[s] \in Remotes /\ Took(s, remoteID[s])
BY DEF Typed, IInv, StoreTypeOK, RowsTrue, Real, Took

(* The steps that finish a row leave a sync where it was                    *)
(* (finalizeOutboundWithoutEcho, parkOutboundUnconfirmed).                  *)
LEMMA FinishStaysGuarded ==
  ASSUME NEW t \in Threads, Ready(t), FinishStep(t)
  PROVE  Guarded(t)'
<1>1. mem[t].next \in Returns /\ mem[t] \in Memories
  BY SendAtHand DEF Ready
<1>2. CASE MapEvent(t) \/ Unmap(t) \/ Succeed(t) \/ Complete(t) \/ Park(t)
  <2>1. pc[t] \in Aside
    BY <1>2 DEF MapEvent, Unmap, Succeed, Complete, Park, At, Aside
  <2>2. /\ \A l \in Aside \ {"map"} : Turns(t, l, mem[t].next)
        /\ Turns(t, FinishFailed(t), mem[t].next) /\ Turns(t, ParkFailed(t), mem[t].next)
    BY <2>1, ReturnsTurn DEF Ready, FinishFailed, ParkFailed, GiveUp, AfterNotice, Aside, NoticeLabels
  <2>3. Turns(t, mem[t].next, mem[t].next)
    BY <1>1, <2>1, ReturnsTurn DEF Ready, Returns, Before, HandlerLabels
  <2>4. \E l \in {"unmap", "succeed", "complete", "notify", mem[t].next, FinishFailed(t), ParkFailed(t)} : Goto(t, l)
    BY <1>2 DEF MapEvent, Unmap, Succeed, Complete, Park, Fail, Decide, Statement
  <2>5. {"unmap", "succeed", "complete", "notify"} \subseteq Aside \ {"map"}
    BY DEF Aside, NoticeLabels
  <2> QED BY <2>2, <2>3, <2>4, <2>5, ReadyGoes
<1>3. CASE Defer(t)
  <2>1. Goto(t, "leave") \/ Work(t, "park", cur[t], [mem[t] EXCEPT !.next = "leave"])
    BY <1>3 DEF Defer, Fail, Decide, Statement
  <2>2. Turns(t, "leave", mem[t].next) /\ Turns(t, "park", "leave")
    BY ReturnsTurn DEF Ready, Aside
  <2> QED BY <2>1, <2>2, ReadyGoes
<1> QED BY <1>2, <1>3 DEF FinishStep

(* A worker that goes on to finish its row finishes a row that was taken    *)
(* for its message (finishDueOutboundSend).                                 *)
LEMMA WorkerStaysGuarded ==
  ASSUME NEW t \in Threads, Ready(t), WorkerStep(t)
  PROVE  Guarded(t)'
<1> DEFINE s == cur[t]
<1>1. mem[t] \in Memories
  BY SendAtHand DEF Ready
<1>2. CASE Purge(t) \/ Cancel(t) \/ Recover(t)
  <2>1. \/ \E l \in {"leave", "notify", "park", "defer"} : Goto(t, l) /\ (l \in {"notify", "park"} => pc[t] \in Before)
        \/ Work(t, "stage", s, [mem[t] EXCEPT !.next = "fetch"])
    BY <1>2 DEF Purge, Cancel, Recover, Fail, Decide, Statement, At, Before
  <2>2. /\ Turns(t, "leave", mem[t].next) /\ Turns(t, "defer", mem[t].next) /\ Turns(t, "stage", "fetch")
        /\ pc[t] \in Before => Turns(t, "notify", mem[t].next) /\ Turns(t, "park", mem[t].next)
    BY ReturnsTurn DEF Ready, Before, BindLabels, Aside, NoticeLabels
  <2> QED BY <2>1, <2>2, ReadyGoes
<1>3. CASE Settle(t)
  <2> DEFINE j == mem[t].job
             r == [mem[t] EXCEPT !.next = "leave", !.rid = remoteID[j]]
  <2>1. j \in Sends
    BY <1>3, SendAtHand DEF Ready, Settle, At
  <2>2. r.next = "leave" /\ r.tx = mem[t].tx /\ r.rid = remoteID[j]
    BY <1>1, MemoriesKeepClaims
  <2>3. CASE state[j] = "resolved" /\ Work(t, "map", j, r)
    <3>1. remoteID[j] \in Remotes /\ Took(j, remoteID[j])
      BY <2>1, <2>3, ClaimsAreTaken DEF Ready, Typed, IInv, SchemaHolds, IdentityStates
    <3>2. TookNext(j, r.rid) /\ \A e \in r.tx : TookNext(e[2], e[1])
      BY <2>1, <2>2, <3>1, GuardsStay DEF Ready, Steady, GuardsNext
    <3>3. GuardsNext("map", j, r)
      BY <2>2, <3>2 DEF GuardsNext, Seeking, Holding, Before, HandlerLabels, BindLabels
    <3> HIDE DEF r
    <3> QED BY <2>3, <3>3, GuardsHold DEF Ready
  <2>4. ASSUME NEW l \in {"defer", "park"}, Work(t, l, j, r)
        PROVE  Guarded(t)'
    <3>1. Turns(t, l, "leave") /\ ~Seeking(l, "leave") /\ ~Holding(l, "leave")
      BY ReturnsTurn DEF Ready, Aside, Seeking, Holding
    <3> HIDE DEF r
    <3> QED BY <2>2, <2>4, <3>1, CarryingOn DEF Ready
  <2>5. Turns(t, "leave", mem[t].next)
    BY ReturnsTurn DEF Ready
  <2>6. CASE Goto(t, "leave")
    BY <2>5, <2>6, ReadyGoes
  <2> QED BY <1>3, <2>3, <2>4, <2>6 DEF Settle, Fail, Decide, Statement
<1> QED BY <1>2, <1>3 DEF WorkerStep

(* A call that begins or ends has no messages; a due row that has claimed   *)
(* its message was taken for it (processNextDueOutboundSend).               *)
LEMMA TurnsStayGuarded ==
  ASSUME NEW t \in Threads, Ready(t), Start(t) \/ Leave(t)
  PROVE  Guarded(t)'
<1>1. \A l \in Labels \ {"map", "persist", "resolved", "match", "claim", "handover", "deliver"} : \A s, r :
        r.next = "leave" /\ r.tx = {} /\ Work(t, l, s, r) => Guarded(t)'
  <2> TAKE l \in Labels \ {"map", "persist", "resolved", "match", "claim", "handover", "deliver"}
  <2> TAKE s, r
  <2> HAVE r.next = "leave" /\ r.tx = {} /\ Work(t, l, s, r)
  <2>1. GuardsNext(l, s, r)
    BY DEF GuardsNext, Seeking, Holding
  <2> QED BY <2>1, GuardsHold DEF Ready
<1>2. Idle.next = "leave" /\ Idle.tx = {}
  BY DEF Idle
<1>3. CASE Sync(t) \/ Leave(t) \/ \E s \in Sends : Begin(t, s)
  BY <1>1, <1>2, <1>3 DEF Sync, Leave, Begin, Labels, HandlerLabels, SyncLabels
<1>4. CASE Due(t)
  <2> PICK s \in NextDue : Work(t, DueStep(s), s, [Idle EXCEPT !.job = s, !.rid = remoteID[s]])
    BY <1>4 DEF Due
  <2> DEFINE r == [Idle EXCEPT !.job = s, !.rid = remoteID[s]]
  <2>1. s \in Sends /\ state[s] \in States \ {"absent", "completed"}
    BY DEF NextDue, Present, Ready, Typed, IInv, StoreTypeOK
  <2>2. r.next = "leave" /\ r.tx = {} /\ r.rid = remoteID[s]
    BY DEF Idle
  <2>3. /\ DueStep(s) \in {"purge", "notify", "cancel", "map", "recover", "fetch"}
        /\ DueStep(s) = "map" => state[s] = "resolved"
    BY <2>1 DEF DueStep, States, PendingStates, InFlightStates, FailedStates, IdentityStates
  <2>4. DueStep(s) = "map" => TookNext(s, r.rid)
    <3>1. DueStep(s) = "map" => remoteID[s] \in Remotes /\ Took(s, remoteID[s])
      BY <2>1, <2>3, ClaimsAreTaken DEF Ready, Typed, IInv, SchemaHolds, IdentityStates
    <3> QED BY <2>1, <2>2, <3>1 DEF Ready, Steady
  <2>5. Work(t, DueStep(s), s, r)
    OBVIOUS
  <2> HIDE DEF r
  <2>6. ASSUME NEW l \in {"purge", "notify", "cancel", "map", "recover", "fetch"}, Work(t, l, s, r),
               l = "map" => TookNext(s, r.rid)
        PROVE  Guarded(t)'
    <3>1. GuardsNext(l, s, r)
      BY <2>2, <2>6 DEF GuardsNext, Seeking, Holding
    <3> QED BY <2>6, <3>1, GuardsHold DEF Ready
  <2> QED BY <2>3, <2>4, <2>5, <2>6
<1> QED BY <1>3, <1>4 DEF Start

(* Once no send is unbound, every send whose echo may be at hand is tied to *)
(* the conversation (the loop over the unbound sends that comes first).     *)
LEMMA BindUnboundStaysGuarded ==
  ASSUME NEW t \in Threads, Ready(t), BindUnbound(t)
  PROVE  Guarded(t)'
<1>1. CASE Unbound = {} /\ Goto(t, "resolved")
  <2>1. AllBound(mem[t].view)
    <3>1. ASSUME NEW s \in Sends, InFlight(s), conversation[s] # Conv
          PROVE  s \in Unbound
      BY <3>1, OutboundAssumption DEF Ready, Typed, IInv, StoreTypeOK, SchemaHolds, InFlight, InFlightStates,
                                      IdentityStates, Unbound
    <3> QED BY <1>1, <3>1 DEF AllBound
  <2>2. BoundNext(mem[t].view) /\ \A e \in mem[t].tx : TookNext(e[2], e[1])
    BY <2>1, GuardsStay DEF Ready, Steady, GuardsNext
  <2>3. GuardsNext("resolved", cur[t], mem[t])
    BY <2>2 DEF GuardsNext, Seeking, Holding, Before, HandlerLabels, BindLabels, Aside, NoticeLabels
  <2> QED BY <1>1, <2>3, GotoIsWork, GuardsHold DEF Ready, Typed
<1>2. ASSUME NEW s, Work(t, "stage", s, [mem[t] EXCEPT !.next = "unbound"])
      PROVE  Guarded(t)'
  <2>1. Turns(t, "stage", "unbound")
    BY ReturnsTurn DEF Ready, Before, BindLabels
  <2> QED BY <1>2, <2>1, ReadyGoes
<1> QED BY <1>1, <1>2 DEF BindUnbound

(* A message goes to a send that has claimed it, as its echo or to be       *)
(* finished in place (reconcileOutboundConversation).                       *)
LEMMA FinishResolvedStaysGuarded ==
  ASSUME NEW t \in Threads, Ready(t), FinishResolved(t)
  PROVE  Guarded(t)'
<1> DEFINE claims == {e \in (mem[t].view \ Echoes(t)) \X Sends :
                        state[e[2]] = "resolved" /\ remoteID[e[2]] = e[1]}
<1>1. mem[t] \in Memories /\ mem[t].view \subseteq Remotes /\ mem[t].view \subseteq landed /\ pc[t] = "resolved"
  BY SendAtHand DEF Ready, FinishResolved, At, Memories
<1>2. ASSUME NEW e \in claims
      PROVE  e[1] \in Remotes /\ e[2] \in Sends /\ TookNext(e[2], e[1])
  <2>1. e[1] \in Remotes /\ e[2] \in Sends /\ remoteID[e[2]] = e[1] /\ remoteID[e[2]] # NoRemote
    BY <1>1, <1>2, StoreAssumption
  <2> QED BY <2>1, ClaimsAreTaken DEF Ready, Steady
<1>3. BoundNext(mem[t].view) /\ \A e \in mem[t].tx : TookNext(e[2], e[1])
  BY <1>1, GuardsStay DEF Ready, GuardsNext, Seeking
<1>4. ASSUME NEW e \in claims, Work(t, "resolved", cur[t], [mem[t] EXCEPT !.tx = @ \cup {e}])
      PROVE  Guarded(t)'
  <2> DEFINE r == [mem[t] EXCEPT !.tx = @ \cup {e}]
  <2>1. r.view = mem[t].view /\ r.tx = mem[t].tx \cup {e}
    BY <1>1 DEF Memories
  <2>2. Work(t, "resolved", cur[t], r)
    BY <1>4
  <2> HIDE DEF r, claims
  <2>3. GuardsNext("resolved", cur[t], r)
    BY <1>2, <1>3, <1>4, <2>1 DEF GuardsNext, Seeking, Holding, Before, HandlerLabels, BindLabels, Aside, NoticeLabels
  <2> QED BY <2>2, <2>3, GuardsHold DEF Ready
<1>5. ASSUME NEW e \in claims,
             Work(t, "map", e[2], [mem[t] EXCEPT !.view = @ \ {e[1]}, !.rid = e[1], !.next = "resolved"])
      PROVE  Guarded(t)'
  <2> DEFINE r == [mem[t] EXCEPT !.view = @ \ {e[1]}, !.rid = e[1], !.next = "resolved"]
  <2>1. r.view = mem[t].view \ {e[1]} /\ r.tx = mem[t].tx /\ r.rid = e[1] /\ r.next = "resolved"
    BY <1>1 DEF Memories
  <2>2. Work(t, "map", e[2], r)
    BY <1>5
  <2> HIDE DEF r, claims
  <2>3. BoundNext(r.view)
    BY <1>3, <2>1 DEF BoundNext
  <2>4. GuardsNext("map", e[2], r)
    BY <1>2, <1>3, <1>5, <2>1, <2>3 DEF GuardsNext, Holding, Before, HandlerLabels, BindLabels
  <2> QED BY <2>2, <2>4, GuardsHold DEF Ready
<1>6. CASE Goto(t, "match")
  <2>1. Turns(t, "match", mem[t].next)
    BY <1>1 DEF Turns, Seeking, Holding, Before, HandlerLabels, BindLabels, Aside, NoticeLabels
  <2> QED BY <1>6, <2>1, ReadyGoes
<1> QED BY <1>4, <1>5, <1>6 DEF FinishResolved

(* What the matching does not set aside is the echo of no send that waits,  *)
(* unless another send was taken for it (outboundMessageCandidate).         *)
LEMMA MatchingHoldsBack ==
  ASSUME OutboundInv, EchoesTrue, NEW t \in Threads, Ready(t), AllBound(mem[t].view),
         NEW s \in Sends, Awaited(s), Own[s] \in mem[t].view,
         ~(Own[s] \notin Echoes(t) /\ Candidate(s, Own[s]))
  PROVE  Taken(s)
<1>1. Own[s] \in Remotes /\ InFlight(s) /\ Content[Own[s]] = Content[s] /\ ~Took(s, Own[s])
  BY OutboundAssumption, WaitingIsNotTaken DEF Awaited
<1>2. CASE Own[s] \in Echoes(t)
  <2> PICK e \in mem[t].tx : e[1] = Own[s]
    BY <1>2 DEF Echoes
  <2>1. Took(e[2], Own[s]) /\ e[2] \in Sends
    BY SendAtHand DEF Ready, Guarded, Guards, Memories
  <2> QED BY <1>1, <2>1 DEF Taken
<1>3. CASE mapped[Own[s]] = Ordinary
  BY <1>3 DEF EchoesTrue
<1>4. CASE mapped[Own[s]] \notin {Unmapped, Ordinary}
  <2> PICK r \in Sends : Took(r, Own[s])
    BY <1>1, <1>4 DEF EchoesTrue
  <2> QED BY <1>1 DEF Taken
<1>5. ASSUME NEW r \in Sends \ {s}, remoteID[r] = Own[s]
      PROVE  Taken(s)
  <2>1. remoteID[r] # NoRemote
    BY <1>1, <1>5, StoreAssumption
  <2> QED BY <1>5, <2>1, ClaimsAreTaken DEF Ready, Taken
<1> QED BY <1>1, <1>2, <1>3, <1>4, <1>5 DEF Candidate, EchoesTrue

(* The matching sets every candidate aside (reconcileOutboundConversation). *)
LEMMA MatchStaysGuarded ==
  ASSUME OutboundInv, EchoesTrue, NEW t \in Threads, Ready(t), Match(t)
  PROVE  Guarded(t)'
<1> DEFINE edges  == {e \in Matchable(Conv) \X (mem[t].view \ Echoes(t)) : Candidate(e[1], e[2])}
           likely == {e[2] : e \in edges}
           plan   == Forced(edges)
           V      == mem[t].view \ likely
           r      == [mem[t] EXCEPT !.plan = plan, !.held = likely, !.view = V]
<1>1. mem[t] \in Memories /\ mem[t].view \subseteq landed /\ pc[t] = "match"
  BY SendAtHand DEF Ready, Match, At
<1>2. AllBound(mem[t].view)
  BY <1>1 DEF Ready, Guarded, Guards, Seeking
<1>3. ASSUME NEW s \in Sends, Awaited(s), Own[s] \in V
      PROVE  ~(Own[s] \notin Echoes(t) /\ Candidate(s, Own[s]))
  <2> SUFFICES ASSUME Own[s] \notin Echoes(t), Candidate(s, Own[s])
               PROVE  FALSE
    OBVIOUS
  <2>1. s \in Matchable(Conv)
    BY <1>2, <1>3 DEF AllBound, Matchable, Awaited
  <2>2. <<s, Own[s]>> \in edges
    BY <1>3, <2>1
  <2>3. Own[s] \in likely
    BY <2>2
  <2> QED BY <1>3, <2>3
<1>4. AllTaken(V)
  BY <1>2, <1>3, MatchingHoldsBack DEF AllTaken
<1>5. Work(t, "claim", cur[t], r)
  BY DEF Match
<1> HIDE DEF edges, likely, plan
<1>6. r.view = V /\ r.tx = mem[t].tx
  BY <1>1 DEF Memories
<1>7. TakenNext(r.view) /\ \A e \in r.tx : TookNext(e[2], e[1])
  BY <1>1, <1>4, <1>6, GuardsStay DEF Ready, Steady, GuardsNext
<1> HIDE DEF r
<1>8. GuardsNext("claim", cur[t], r)
  BY <1>7 DEF GuardsNext, Seeking, Before, HandlerLabels, BindLabels, Aside, NoticeLabels
<1> QED BY <1>5, <1>8, GuardsHold DEF Ready

(* A claimed message joins the rest as the echo of the send it was claimed  *)
(* for (reconcileOutboundConversation).                                     *)
LEMMA ClaimStaysGuarded ==
  ASSUME NEW t \in Threads, Ready(t), ThreadTrue(t), Claim(t)
  PROVE  Guarded(t)'
<1>1. /\ mem[t] \in Memories /\ mem[t].plan \subseteq Sends \X Remotes /\ pc[t] = "claim"
      /\ \A e \in mem[t].plan : Content[e[2]] = Content[e[1]]
  BY SendAtHand DEF Ready, ThreadTrue, Real, Memories, Claim, At
<1>2. TakenNext(mem[t].view) /\ \A e \in mem[t].tx : TookNext(e[2], e[1])
  BY <1>1, GuardsStay DEF Ready, GuardsNext, Holding
<1>3. ASSUME NEW e \in mem[t].plan, ClaimRemoteMessage(e[1], e[2])
      PROVE  e[1] \in Sends /\ TookNext(e[1], e[2]) /\ ~InFlight(e[1])'
  BY <1>1, <1>3 DEF ClaimRemoteMessage, SetState, InFlight, InFlightStates, TookNext, Ready, Typed, IInv, StoreTypeOK
<1>4. ASSUME NEW e \in mem[t].plan, ClaimRemoteMessage(e[1], e[2]), NEW r, r.view = mem[t].view \cup {e[2]},
             r.tx = mem[t].tx \cup {<<e[2], e[1]>>}, Work(t, "claim", cur[t], r)
      PROVE  Guarded(t)'
  <2>1. TakenNext(r.view)
    BY <1>2, <1>3, <1>4 DEF TakenNext
  <2>2. GuardsNext("claim", cur[t], r)
    BY <1>2, <1>3, <1>4, <2>1 DEF GuardsNext, Seeking, Before, HandlerLabels, BindLabels, Aside, NoticeLabels
  <2> QED BY <1>4, <2>2, GuardsHold DEF Ready
<1>5. ASSUME NEW e \in mem[t].plan, ClaimRemoteMessage(e[1], e[2]), NEW r, r.view = mem[t].view,
             r.tx = mem[t].tx, r.rid = e[2], r.next = "claim", Work(t, "map", e[1], r)
      PROVE  Guarded(t)'
  <2>1. GuardsNext("map", e[1], r)
    BY <1>2, <1>3, <1>5 DEF GuardsNext, Seeking, Before, HandlerLabels, BindLabels
  <2> QED BY <1>5, <2>1, GuardsHold DEF Ready
<1>6. CASE \E e \in mem[t].plan : LET rest == [mem[t] EXCEPT !.plan = @ \ {e}, !.held = @ \ {e[2]}] IN
             /\ ClaimRemoteMessage(e[1], e[2])
             /\ IF Awaits(t, e[1])
                THEN Work(t, "claim", cur[t], [rest EXCEPT !.tx = @ \cup {<<e[2], e[1]>>}, !.view = @ \cup {e[2]}])
                ELSE Work(t, "map", e[1], [rest EXCEPT !.rid = e[2], !.next = "claim"])
  <2> PICK e \in mem[t].plan : LET rest == [mem[t] EXCEPT !.plan = @ \ {e}, !.held = @ \ {e[2]}] IN
             /\ ClaimRemoteMessage(e[1], e[2])
             /\ IF Awaits(t, e[1])
                THEN Work(t, "claim", cur[t], [rest EXCEPT !.tx = @ \cup {<<e[2], e[1]>>}, !.view = @ \cup {e[2]}])
                ELSE Work(t, "map", e[1], [rest EXCEPT !.rid = e[2], !.next = "claim"])
    BY <1>6
  <2> DEFINE rest == [mem[t] EXCEPT !.plan = @ \ {e}, !.held = @ \ {e[2]}]
             q == [rest EXCEPT !.tx = @ \cup {<<e[2], e[1]>>}, !.view = @ \cup {e[2]}]
             r == [rest EXCEPT !.rid = e[2], !.next = "claim"]
  <2>1. /\ q.tx = mem[t].tx \cup {<<e[2], e[1]>>} /\ q.view = mem[t].view \cup {e[2]}
        /\ r.tx = mem[t].tx /\ r.view = mem[t].view /\ r.rid = e[2] /\ r.next = "claim"
    BY <1>1 DEF Memories
  <2>2. /\ ClaimRemoteMessage(e[1], e[2])
        /\ Work(t, "claim", cur[t], q) \/ Work(t, "map", e[1], r)
    OBVIOUS
  <2> HIDE DEF q, r, rest
  <2> QED BY <1>4, <1>5, <2>1, <2>2
<1>7. \A l \in {"leave", "broken", "handover"} : Turns(t, l, mem[t].next)
  BY <1>1 DEF Turns, Seeking, Holding, Before, HandlerLabels, BindLabels, Aside, NoticeLabels
<1>8. \A l \in {"leave", "broken", "handover"} : Decide(t, l) \/ Fail(t, l) => Guarded(t)'
  BY <1>7, ReadyGoes DEF Decide, Statement, Fail
<1> QED BY <1>6, <1>8 DEF Claim, SyncFailed

(* The other steps of a sync: what is handed over, delivered or given up    *)
(* was at hand before (deliverConversation).                                *)
LEMMA SyncStaysGuarded ==
  ASSUME OutboundInv, EchoesTrue, NEW t \in Threads, Ready(t), ThreadTrue(t), SyncStep(t)
  PROVE  Guarded(t)'
<1>1. mem[t] \in Memories /\ mem[t].view \subseteq Remotes /\ mem[t].tx \subseteq Remotes \X Sends
  BY SendAtHand DEF Ready, Memories
<1>2. \A l \in {"leave", "broken", "settle", "relock", "idle", "unbound"} : \A n : Turns(t, l, n)
  BY ReturnsTurn DEF Ready
<1>3. \A l \in {"leave", "broken", "settle", "relock", "idle", "unbound"} : Goto(t, l) => Guarded(t)'
  BY <1>2, ReadyGoes
<1>4. \A l \in {"settle", "idle", "unbound"} : \A s, r : r.tx \subseteq mem[t].tx /\ Work(t, l, s, r) => Guarded(t)'
  <2> TAKE l \in {"settle", "idle", "unbound"}
  <2> TAKE s, r
  <2> HAVE r.tx \subseteq mem[t].tx /\ Work(t, l, s, r)
  <2>1. ~Seeking(l, r.next) /\ ~Holding(l, r.next)
    BY DEF Seeking, Holding, Aside, NoticeLabels
  <2> QED BY <1>2, <2>1, CarryingOn DEF Ready
<1>5. CASE Fetch(t)
  <2> DEFINE r == [mem[t] EXCEPT !.view = landed, !.tx = {}, !.plan = {}, !.held = {}]
  <2>1. r.tx = {}
    BY <1>1 DEF Memories
  <2>2. Work(t, "unbound", cur[t], r) \/ Goto(t, "leave") \/ Goto(t, "broken")
    BY <1>5 DEF Fetch, Fail, SyncFailed
  <2> HIDE DEF r
  <2> QED BY <1>3, <1>4, <2>1, <2>2
<1>6. CASE Broken(t)
  <2> DEFINE r == [mem[t] EXCEPT !.outcome = "failed"]
  <2>1. r.tx = mem[t].tx
    BY <1>1, MemoriesKeepClaims
  <2>2. Work(t, "settle", cur[t], r) \/ Goto(t, "leave")
    BY <1>6 DEF Broken
  <2> HIDE DEF r
  <2> QED BY <1>3, <1>4, <2>1, <2>2
<1>7. CASE Relock(t)
  <2> DEFINE r == [mem[t] EXCEPT !.outcome = IF mem[t].held = {} THEN @ ELSE "failed"]
  <2>1. r.tx = mem[t].tx /\ Idle.tx = {}
    BY <1>1 DEF Memories, Idle
  <2>2. Work(t, "settle", cur[t], r) \/ Work(t, "idle", NoSend, Idle)
    BY <1>7 DEF Relock
  <2> HIDE DEF r
  <2> QED BY <1>4, <2>1, <2>2
<1>8. ASSUME pc[t] \in {"handover", "deliver"}, NEW V, V \subseteq mem[t].view, NEW s, NEW r,
             Work(t, "deliver", s, r), r.view = V, r.tx = mem[t].tx
      PROVE  Guarded(t)'
  <2>1. Turns(t, "deliver", r.next)
    BY <1>8 DEF Turns, Seeking, Holding, Before, HandlerLabels, BindLabels, Aside, NoticeLabels
  <2> QED BY <1>8, <2>1, CarryingOn DEF Ready
<1>9. CASE Handover(t)
  <2> DEFINE V == {m \in mem[t].view : mapped[m] = Unmapped}
             r == [mem[t] EXCEPT !.view = V]
  <2>1. Work(t, "deliver", cur[t], r) \/ Goto(t, "leave") \/ Goto(t, "broken")
    BY <1>9 DEF Handover, Fail, SyncFailed
  <2>2. r.view = V /\ r.tx = mem[t].tx /\ V \subseteq mem[t].view
    BY <1>1, MemoriesKeepClaims
  <2> HIDE DEF r
  <2> QED BY <1>3, <1>8, <1>9, <2>1, <2>2 DEF Handover, At
<1>10. CASE Deliver(t)
  <2>1. pc[t] = "deliver"
    BY <1>10 DEF Deliver, At
  <2>2. ASSUME NEW m \in mem[t].view, Work(t, "deliver", cur[t], [mem[t] EXCEPT !.view = @ \ {m}])
        PROVE  Guarded(t)'
    <3> DEFINE V == mem[t].view \ {m}
               r == [mem[t] EXCEPT !.view = V]
    <3>1. r.view = V /\ r.tx = mem[t].tx /\ Work(t, "deliver", cur[t], r)
      BY <1>1, <2>2, MemoriesKeepClaims
    <3> HIDE DEF r
    <3> QED BY <1>8, <2>1, <3>1
  <2>3. ASSUME NEW m \in mem[t].view, NEW s \in Sends, <<m, s>> \in mem[t].tx,
               Work(t, "persist", s, [[mem[t] EXCEPT !.view = @ \ {m}] EXCEPT !.rid = m])
        PROVE  Guarded(t)'
    <3> DEFINE r == [[mem[t] EXCEPT !.view = @ \ {m}] EXCEPT !.rid = m]
    <3>1. r.view = mem[t].view \ {m} /\ r.tx = mem[t].tx /\ r.rid = m /\ Work(t, "persist", s, r)
      BY <1>1, <2>3 DEF Memories
    <3> HIDE DEF r
    <3>2. TakenNext(mem[t].view) /\ \A e \in mem[t].tx : TookNext(e[2], e[1])
      BY <2>1, GuardsStay DEF Ready, GuardsNext, Holding
    <3>3. TakenNext(r.view) /\ TookNext(s, r.rid)
      BY <2>3, <3>1, <3>2 DEF TakenNext
    <3>4. GuardsNext("persist", s, r)
      BY <3>1, <3>2, <3>3 DEF GuardsNext, Seeking, Before, HandlerLabels, BindLabels, Aside, NoticeLabels
    <3> QED BY <3>1, <3>4, GuardsHold DEF Ready
  <2>4. CASE Work(t, "deliver", cur[t], [mem[t] EXCEPT !.view = {}, !.outcome = "failed"])
    <3> DEFINE r == [mem[t] EXCEPT !.view = {}, !.outcome = "failed"]
    <3>1. r.view = {} /\ r.tx = mem[t].tx /\ Work(t, "deliver", cur[t], r)
      BY <1>1, <2>4, MemoriesKeepClaims
    <3> HIDE DEF r
    <3> QED BY <1>8, <2>1, <3>1
  <2>5. CASE Work(t, "idle", NoSend, Idle) \/ Goto(t, "relock")
    <3>1. Idle.tx = {}
      BY DEF Idle
    <3> QED BY <1>3, <1>4, <2>5, <3>1
  <2> QED BY <1>10, <2>2, <2>3, <2>4, <2>5 DEF Deliver
<1>11. CASE Persist(t)
  <2>1. Goto(t, "deliver") /\ pc[t] = "persist"
    BY <1>11 DEF Persist, Decide, Statement, Fail, At
  <2>2. Turns(t, "deliver", mem[t].next)
    BY <2>1 DEF Turns, Seeking, Holding, Before, HandlerLabels, BindLabels, Aside, NoticeLabels
  <2> QED BY <2>1, <2>2, ReadyGoes
<1> QED BY <1>5, <1>6, <1>7, <1>9, <1>10, <1>11, BindUnboundStaysGuarded, FinishResolvedStaysGuarded, MatchStaysGuarded,
           ClaimStaysGuarded DEF SyncStep

-----------------------------------------------------------------------------
(* The invariant. *)

(* The steps that map a message: a sync maps one that is the echo of no     *)
(* send (deliverConversation), and a send that was taken for its message is *)
(* mapped to it (saveOutboundMessageMapping, handleOutboundRemoteEcho).     *)
LEMMA ThreadsMapRight ==
  ASSUME NEW t \in Threads, Ready(t), Start(t) \/ Continue(t)
  PROVE  MapsRight
<1>1. ASSUME NEW m \in Remotes, NEW s \in Sends, MapMessage(m, EventOf[s]), Took(s, m)
      PROVE  MapsRight
  <2>1. EventOf[s] # Ordinary
    BY StoreAssumption
  <2>2. mapped'[m] = EventOf[s] /\ \A n \in Remotes \ {m} : mapped'[n] = mapped[n]
    BY <1>1 DEF MapMessage, Ready, Typed, IInv, StoreTypeOK
  <2> QED BY <1>1, <2>1, <2>2 DEF MapsRight
<1>2. mapped' = mapped => MapsRight
  BY DEF MapsRight
<1>3. UNCHANGED storeVars => mapped' = mapped
  BY DEF storeVars
<1>4. CASE MapEvent(t) \/ Persist(t)
  <2>1. cur[t] \in Sends /\ mem[t].rid \in Remotes /\ Took(cur[t], mem[t].rid)
    BY <1>4, SendAtHand DEF Ready, Guarded, Guards, MapEvent, Persist, At, SendLabels, FinishLabels, MessageLabels
  <2>2. mapped' = mapped \/ MapMessage(mem[t].rid, EventOf[cur[t]])
    BY <1>3, <1>4 DEF MapEvent, Persist, Decide, Fail
  <2> QED BY <1>1, <1>2, <2>1, <2>2
<1>5. CASE Deliver(t)
  <2>1. mapped' = mapped \/ \E m \in mem[t].view : MapMessage(m, Ordinary)
    BY <1>3, <1>5 DEF Deliver
  <2>2. ASSUME NEW m \in mem[t].view, MapMessage(m, Ordinary)
        PROVE  MapsRight
    <3>1. m \in Remotes /\ m \in landed
      BY SendAtHand DEF Ready, Memories
    <3>2. AllTaken({m})
      BY <1>5 DEF Deliver, At, Ready, Guarded, Guards, Holding, AllTaken
    <3>3. mapped'[m] = Ordinary /\ \A n \in Remotes \ {m} : mapped'[n] = mapped[n]
      BY <2>2, <3>1 DEF MapMessage, Ready, Typed, IInv, StoreTypeOK
    <3> QED BY <3>1, <3>2, <3>3 DEF MapsRight
  <2> QED BY <1>2, <2>1, <2>2
<1> QED BY <1>4, <1>5, MostStepsMapNothing DEF Ready, Continue, FinishStep, SyncStep

(* Nothing but a thread maps a message, and a thread that stops has none.   *)
LEMMA OthersMapNothing ==
  ASSUME Typed, Faulty \/ Time \/ Remote \/ UNCHANGED vars
  PROVE  /\ MapsRight
         /\ \A t \in Threads : \/ pc'[t] = pc[t] /\ cur'[t] = cur[t] /\ mem'[t] = mem[t]
                               \/ Guarded(t)'
<1>1. UNCHANGED storeVars => MapsRight
  BY DEF storeVars, MapsRight
<1>2. ASSUME NEW t \in Threads, ConversationGone(t)
      PROVE  MapsRight /\ UNCHANGED threadVars
  BY <1>2 DEF ConversationGone, TerminalizeConversation, MapsRight
<1>3. ASSUME NEW r \in Rooms, RoomGone(r)
      PROVE  MapsRight /\ UNCHANGED threadVars
  BY <1>3 DEF RoomGone, LoseRoom, MapsRight
<1>4. CASE LoseSession \/ Remote \/ UNCHANGED vars
  <2>1. UNCHANGED storeVars /\ UNCHANGED threadVars
    BY <1>4 DEF LoseSession, Remote, Land, Refuse, Write, vars
  <2> QED BY <1>1, <2>1 DEF threadVars
<1>5. CASE Time
  <2>1. mapped' = mapped /\ UNCHANGED threadVars
    BY <1>5, StatementsMapNothing DEF Time, Clock
  <2> QED BY <2>1 DEF MapsRight, threadVars
<1>6. ASSUME NEW p \in Procs, Crash(p), NEW t \in Threads
      PROVE  (pc'[t] = pc[t] /\ cur'[t] = cur[t] /\ mem'[t] = mem[t]) \/ Guarded(t)'
  <2>1. \/ pc'[t] = "idle" /\ mem'[t] = Idle
        \/ pc'[t] = pc[t] /\ cur'[t] = cur[t] /\ mem'[t] = mem[t]
    BY <1>6 DEF Crash
  <2>2. Idle.tx = {}
    BY DEF Idle
  <2> QED BY <2>1, <2>2 DEF Guarded, Guards, Seeking, Holding, Before, HandlerLabels, BindLabels, Aside, NoticeLabels
<1>7. ASSUME NEW p \in Procs, Crash(p)
      PROVE  MapsRight
  BY <1>1, <1>7 DEF Crash
<1> QED BY <1>2, <1>3, <1>4, <1>5, <1>6, <1>7 DEF Faulty, threadVars

(* A submission stores the baseline that its handler read (MarkSubmitting). *)
LEMMA EveryBaselineIsSeen ==
  ASSUME OutboundInv, ReportInv, [Next]_vars
  PROVE  BaselinesSeen
<1>1. Kinds
  BY StepsAreOfAKind
<1>2. ASSUME NEW t \in Threads, NEW l, Licenses(t, l)
      PROVE  BaselinesSeen
  <2>1. \A s \in Sends : submits'[s] # submits[s] => s = cur[t]
    BY <1>2 DEF Licenses, OutboundInv, Typed, IInv, StoreTypeOK
  <2>2. mem[t].view \subseteq landed
    BY DEF ReportInv, ThreadTrue
  <2> QED BY <1>2, <2>1, <2>2 DEF Licenses, BaselinesSeen
<1>3. ASSUME NEW t \in Threads, Sound(t) \/ Post(t)
      PROVE  BaselinesSeen
  BY <1>3 DEF Sound, StoreQuiet, Post, storeVars, rowVars, BaselinesSeen
<1>4. CASE Outside \/ Away
  BY <1>4 DEF Outside, StoreQuiet, Away, storeVars, rowVars, BaselinesSeen
<1> QED BY <1>1, <1>2, <1>3, <1>4 DEF Kinds

(* Every step keeps the quarantine. *)
LEMMA QuarantineInvIsInductive ==
  ASSUME OutboundInv, ReportInv, QuarantineInv, [Next]_vars
  PROVE  QuarantineInv'
<1>1. Typed /\ Orderly /\ Grows /\ RowsTrue /\ EchoesTrue
  BY OutboundInvIsInductive, EveryStepGrows DEF OutboundInv, ReportInv, QuarantineInv
<1>2. Steady /\ BaselinesSeen
  BY <1>1, StepsAreSteady, EveryBaselineIsSeen
<1>3. ASSUME NEW t \in Threads
      PROVE  Ready(t) /\ ThreadTrue(t)
  BY <1>1, <1>2 DEF Ready, ReportInv, ThreadTrue, QuarantineInv
<1>4. /\ MapsRight
      /\ \A t \in Threads : (pc'[t] = pc[t] /\ cur'[t] = cur[t] /\ mem'[t] = mem[t]) \/ Guarded(t)'
  <2>1. ASSUME NEW t \in Threads, Start(t) \/ Continue(t)
        PROVE  /\ MapsRight
               /\ \A u \in Threads : (pc'[u] = pc[u] /\ cur'[u] = cur[u] /\ mem'[u] = mem[u]) \/ Guarded(u)'
    <3>1. MapsRight
      BY <1>3, <2>1, ThreadsMapRight
    <3>2. Guarded(t)'
      BY <1>1, <1>3, <2>1, HandlerStaysGuarded, BindingStaysGuarded, NoticeStaysGuarded, FinishStaysGuarded,
         WorkerStaysGuarded, SyncStaysGuarded, TurnsStayGuarded DEF Continue
    <3>3. Alone(t)
      BY <1>1, <2>1, ThreadSteps, PostFacts DEF OutboundInv, Judged, Sound, Licenses
    <3> QED BY <3>1, <3>2, <3>3 DEF Alone
  <2> QED BY <1>1, <2>1, OthersMapNothing DEF Next
<1>5. EchoesTrue'
  BY <1>1, <1>2, <1>4, EchoesStayTrue
<1>6. ASSUME NEW t \in Threads
      PROVE  Guarded(t)'
  BY <1>1, <1>2, <1>3, <1>4, IdleThreadsStayGuarded DEF Ready
<1> QED BY <1>5, <1>6 DEF QuarantineInv

(* At first nothing is mapped, and no send waits. *)
LEMMA QuarantineInvHoldsInitially ==
  ASSUME Init
  PROVE  QuarantineInv
<1>1. EchoesTrue
  BY StoreAssumption DEF Init, StoreInit, EchoesTrue, Awaited, InFlight, InFlightStates
<1>2. ASSUME NEW t \in Threads
      PROVE  Guarded(t)
  <2>1. pc[t] = "idle" /\ mem[t] = Idle /\ Idle.tx = {}
    BY DEF Init, Idle
  <2> QED BY <2>1 DEF Guarded, Guards, Seeking, Holding, Before, HandlerLabels, BindLabels, Aside, NoticeLabels
<1> QED BY <1>1, <1>2 DEF QuarantineInv

(* What is mapped, and what a sync has at hand once it has looked for       *)
(* matches, is the echo of no send that waits for it, unless another send   *)
(* was taken for it or given up.                                            *)
THEOREM QuarantineHolds == Spec => []QuarantineInv
<1>1. Init => QuarantineInv
  BY QuarantineInvHoldsInitially
<1>2. OutboundInv /\ ReportInv /\ QuarantineInv /\ [Next]_vars => QuarantineInv'
  BY QuarantineInvIsInductive
<1> QED BY <1>1, <1>2, OutboundInvariantHolds, ReportsHold, PTL DEF Spec

(* While a send waits for its echo, no sync bridges that echo as a message  *)
(* of its own, unless another send of its content was taken for it or given *)
(* up (the quarantine of reconcileOutboundConversation, which spans the     *)
(* fetch under the fence and the delivery after it).                        *)
THEOREM EchoesHeldBack == Spec => []HeldBack
<1>1. QuarantineInv => HeldBack
  BY DEF QuarantineInv, EchoesTrue, Awaited, Taken, HeldBack
<1> QED BY <1>1, QuarantineHolds, PTL
=============================================================================
