---------------------- MODULE ConversationRequestProofs ----------------------
(***************************************************************************)
(* A sync that was asked for is not forgotten, as long as one thread alone *)
(* works on due jobs: the revision that it selected then tells it whether  *)
(* the row still is the one that it handled.  A second one may delete the  *)
(* row, and the row that is put afterwards has the first one's revision    *)
(* again.                                                                  *)
(***************************************************************************)
EXTENDS ConversationProofs

OneWorker == \A t, u \in Workers : t = u

(* What was asked for is covered by what the worker has fetched, once it    *)
(* has fetched, and is in Matrix or gone when it acknowledges, or else the  *)
(* row has a later revision.                                                *)
WorkerInv(w) ==
  /\ mem[w].rev <= job.rev
  /\ pc[w] # "idle" => mem[w].rev > 0
  /\ Undisturbed /\ Current(job, mem[w].rev) =>
       /\ pc[w] \in Delivering => owed <= mem[w].head
       /\ pc[w] = "ack" => owed <= cut \/ owed \in Provided

RequestInv ==
  /\ owed <= newest
  /\ \A m \in evidence : m <= newest
  /\ \A h \in Hosts : probe[h] <= newest
  /\ job.rev = 0 => job = NoJob
  /\ \A w \in Workers : WorkerInv(w)
  /\ NoLostRequest

-----------------------------------------------------------------------------
(* What a step must not do. *)

(* The list and the messages only grow, and what was heard of is there.     *)
Onward ==
  /\ newest <= newest' /\ cut <= cut'
  /\ \A m \in evidence' : m <= newest'
  /\ \A h \in Hosts : probe'[h] <= newest'
  /\ asked \subseteq asked' /\ outdated \subseteq outdated'

(* Whatever is asked for anew raises the row.                               *)
Raised ==
  /\ job.rev <= job'.rev /\ (job'.rev = 0 => job' = NoJob)
  /\ owed' \in {owed, 0} \/ (job.rev < job'.rev /\ owed' <= newest')

(* Messages leave Matrix only for a user, or while there is a row.          *)
Bridging ==
  \/ bridged \subseteq bridged' /\ backfill \subseteq backfill'
  \/ asked # {}
  \/ job' # NoJob /\ \A w \in Workers : pc[w] # "ack"

(* The worker stays, or starts anew.                                        *)
Placid(w) == \/ pc'[w] = pc[w] /\ mem'[w] = mem[w]
             \/ pc'[w] = "idle" /\ mem'[w] = Idle

LEMMA WorkerThreads == Workers \subseteq Threads /\ \A w \in Workers : w \notin Syncers
BY SyncAssumption DEF Threads

LEMMA RequestsKept ==
  ASSUME IInv, IInv', RequestInv, Onward, Raised, Bridging,
         \A w \in Workers : Placid(w) \/ WorkerInv(w)'
  PROVE  RequestInv'
<1>1. ConversationTypeOK /\ ConversationTypeOK'
  BY DEF IInv
<1>2. /\ newest \in Nat /\ newest' \in Nat /\ cut \in Nat /\ cut' \in Nat /\ owed \in Nat /\ owed' \in Nat
      /\ job.rev \in Nat /\ job'.rev \in Nat
  BY <1>1, SyncAssumption DEF ConversationTypeOK, Jobs
<1>3. NoJob.rev = 0
  BY DEF NoJob
<1>4. owed' <= newest'
  BY <1>2 DEF RequestInv, Onward, Raised
<1>5. Undisturbed' => Undisturbed
  BY DEF Undisturbed, Onward
<1>6. NoLostRequest'
  <2> SUFFICES ASSUME Undisturbed', owed' > cut', owed' \notin Provided' PROVE job' # NoJob
    BY DEF NoLostRequest
  <2>1. CASE job.rev < job'.rev
    BY <1>2, <1>3, <2>1
  <2>2. CASE owed' = owed /\ bridged \subseteq bridged' /\ backfill \subseteq backfill'
    <3>1. owed \notin Provided
      BY <2>2 DEF Provided
    <3>2. job # NoJob
      BY <1>2, <1>5, <2>2, <3>1 DEF RequestInv, NoLostRequest, Onward
    <3>3. QED BY <1>2, <1>3, <3>2 DEF RequestInv, Raised
  <2>3. CASE asked # {}
    BY <1>5, <2>3 DEF Undisturbed
  <2>4. CASE owed' = 0
    BY <1>2, <2>4
  <2>5. QED BY <2>1, <2>2, <2>3, <2>4 DEF Raised, Bridging
<1>7. \A w \in Workers : WorkerInv(w)'
  <2> SUFFICES ASSUME NEW w \in Workers, Placid(w) PROVE WorkerInv(w)'
    OBVIOUS
  <2>1. mem[w] \in Memories /\ mem'[w] \in Memories
    BY <1>1, WorkerThreads DEF ConversationTypeOK
  <2>2. CASE pc'[w] = "idle" /\ mem'[w] = Idle
    <3>1. mem'[w].rev = 0
      BY <2>2 DEF Idle
    <3>2. QED BY <1>2, <2>2, <3>1 DEF WorkerInv, Delivering
  <2>3. CASE pc'[w] = pc[w] /\ mem'[w] = mem[w]
    <3>1. mem[w].rev \in Nat /\ mem[w].head \in Nat
      BY <2>1, SyncAssumption DEF Memories
    <3>2. WorkerInv(w)
      BY DEF RequestInv
    <3>3. mem'[w].rev <= job'.rev /\ (pc'[w] # "idle" => mem'[w].rev > 0)
      BY <1>2, <2>3, <3>1, <3>2 DEF WorkerInv, Raised
    <3>4. ASSUME Undisturbed', Current(job', mem'[w].rev), pc[w] # "idle"
          PROVE  /\ pc'[w] \in Delivering => owed' <= mem'[w].head
                 /\ pc'[w] = "ack" => owed' <= cut' \/ owed' \in Provided'
      <4>1. mem[w].rev > 0 /\ mem[w].rev <= job.rev
        BY <3>2, <3>4 DEF WorkerInv
      <4>2. job.rev = job'.rev /\ job.rev = mem[w].rev
        BY <1>2, <2>3, <3>1, <3>4, <4>1 DEF Raised, Current
      <4>3. Current(job, mem[w].rev)
        BY <1>3, <3>1, <4>1, <4>2 DEF Current
      <4>4. owed' \in {owed, 0}
        BY <1>2, <4>2 DEF Raised
      <4>5. pc[w] = "ack" => Provided \subseteq Provided'
        BY <1>5, <3>4 DEF Bridging, Undisturbed, Provided
      <4>6. QED BY <1>2, <1>5, <2>3, <3>1, <3>2, <3>4, <4>3, <4>4, <4>5 DEF WorkerInv, Onward
    <3>5. QED BY <2>3, <3>3, <3>4 DEF WorkerInv, Delivering
  <2>4. QED BY <2>2, <2>3 DEF Placid
<1>8. QED BY <1>4, <1>6, <1>7 DEF RequestInv, Onward, Raised

(* A step of a thread, that neither hears of a message nor of a list.       *)
LEMMA ThreadRequests ==
  ASSUME IInv, IInv', RequestInv, NEW t \in Threads, NEW l,
         Goto(t, l) \/ pc' = [Cancelled EXCEPT ![t] = l],
         mem' = mem \/ \E r : Keep(t, r),
         UNCHANGED <<newest, cut, evidence, probe, asked>>, outdated \subseteq outdated', Raised, Bridging,
         t \in Workers => WorkerInv(t)' \/ Placid(t)
  PROVE  RequestInv'
<1>1. ConversationTypeOK
  BY DEF IInv
<1>2. Onward
  BY <1>1, SyncAssumption DEF RequestInv, Onward, ConversationTypeOK
<1>3. ASSUME NEW w \in Workers, w # t PROVE Placid(w)
  <2>1. w \in Threads /\ w \notin Syncers
    BY WorkerThreads
  <2>2. pc'[w] = pc[w]
    BY <1>1, <1>3, <2>1 DEF ConversationTypeOK, Goto, Cancelled
  <2>3. mem'[w] = mem[w]
    BY <1>1, <1>3, <2>1 DEF ConversationTypeOK, Keep
  <2>4. QED BY <2>2, <2>3 DEF Placid
<1>4. QED BY <1>2, <1>3, RequestsKept

(* A step that leaves the row and what is asked for.                        *)
LEMMA RowLeft ==
  ASSUME RequestInv, IInv, UNCHANGED <<job, owed>>
  PROVE  Raised
BY DEF RequestInv, Raised, IInv, ConversationTypeOK, Jobs

(* A thread that returns.                                                   *)
LEMMA ReturnRequests ==
  ASSUME IInv, IInv', RequestInv, NEW t \in Threads, Goto(t, "idle"), Keep(t, Idle),
         UNCHANGED <<newest, cut, evidence, probe, asked, outdated, bridged, backfill>>, Raised
  PROVE  RequestInv'
<1>1. Placid(t)
  BY IdleMemory, Acted DEF IInv, Placid
<1>2. QED BY <1>1, ThreadRequests DEF Bridging

(* A call that fails.                                                       *)
LEMMA FailRequests ==
  ASSUME IInv, IInv', RequestInv, NEW t \in Threads, NEW l \in {"retry", "failed"}, Fail(t, l), pc[t] # "idle"
  PROVE  RequestInv'
<1>1. UNCHANGED <<newest, cut, evidence, probe, asked, outdated, bridged, backfill, job, owed, mem>> /\ Goto(t, l)
  BY DEF Fail, World, remoteVars, probeVars, historyVars, matrixVars, tableVars
<1>2. pc'[t] = l /\ mem'[t] = mem[t]
  BY <1>1 DEF IInv, ConversationTypeOK, Goto
<1>3. t \in Workers => WorkerInv(t)'
  BY <1>1, <1>2 DEF RequestInv, WorkerInv, Delivering
<1>4. QED BY <1>1, <1>3, RowLeft, ThreadRequests DEF Bridging

-----------------------------------------------------------------------------
(* The steps of a sync. *)

(* A worker that neither has fetched nor acknowledges.                      *)
LEMMA ElsewhereKept ==
  ASSUME IInv, IInv', RequestInv, Raised, NEW t \in Threads, pc[t] # "idle", mem'[t].rev = mem[t].rev,
         pc'[t] \notin Delivering \cup {"ack"}
  PROVE  t \in Workers => WorkerInv(t)'
<1> SUFFICES ASSUME t \in Workers PROVE WorkerInv(t)'
  OBVIOUS
<1>1. mem[t].rev <= job.rev /\ mem[t].rev > 0
  BY DEF RequestInv, WorkerInv
<1>2. mem[t].rev \in Nat /\ job.rev \in Nat /\ job'.rev \in Nat
  BY DEF IInv, ConversationTypeOK, Memories, Jobs
<1>3. mem'[t].rev <= job'.rev /\ mem'[t].rev > 0
  BY <1>1, <1>2 DEF Raised
<1>4. QED BY <1>3 DEF WorkerInv

LEMMA SelectRequests ==
  ASSUME IInv, IInv', RequestInv, NEW t \in Threads, Select(t)
  PROVE  RequestInv'
<1> DEFINE r == [Idle EXCEPT !.rev = job.rev]
<1>1. /\ Goto(t, "selected") /\ Keep(t, r) /\ job.due
      /\ UNCHANGED <<newest, cut, evidence, probe, asked, outdated, bridged, backfill, job, owed>>
  BY DEF Select, World, remoteVars, probeVars, historyVars, matrixVars, tableVars
<1>2. r.rev = job.rev
  BY DEF Idle
<1> HIDE DEF r
<1>3. pc'[t] = "selected" /\ mem'[t] = r
  BY <1>1, Acted DEF IInv
<1>4. job.rev > 0 /\ job.rev \in Nat
  BY <1>1 DEF IInv, ConversationTypeOK, Jobs, RequestInv, NoJob
<1>5. WorkerInv(t)'
  BY <1>1, <1>2, <1>3, <1>4 DEF WorkerInv, Delivering
<1>6. QED BY <1>1, <1>5, RowLeft, ThreadRequests DEF Bridging

LEMMA SelectSendRequests ==
  ASSUME IInv, IInv', RequestInv, NEW t \in Threads, SelectSend(t)
  PROVE  RequestInv'
<1>1. /\ Goto(t, "selected") /\ t \notin Workers
      /\ UNCHANGED <<newest, cut, evidence, probe, asked, outdated, bridged, backfill, job, owed, mem>>
  BY SyncAssumption DEF SelectSend, World, remoteVars, probeVars, historyVars, matrixVars, tableVars
<1>2. QED BY <1>1, RowLeft, ThreadRequests DEF Bridging

LEMMA TakeRequests ==
  ASSUME IInv, IInv', RequestInv, NEW t \in Threads, Take(t)
  PROVE  RequestInv'
<1> DEFINE l == IF job.room = NoRoom THEN "fetch" ELSE "confirm"
           r == [mem[t] EXCEPT !.rev = job.rev]
<1>1. UNCHANGED <<newest, cut, evidence, probe, asked, outdated, bridged, backfill, job, owed>> /\ pc[t] = "selected"
  BY DEF Take, At, World, remoteVars, probeVars, historyVars, matrixVars, tableVars
<1>2. CASE MayHandle(t) /\ Goto(t, l) /\ Keep(t, r)
  <2>1. mem[t] \in Memories /\ job.rev \in Nat
    BY DEF IInv, ConversationTypeOK, Jobs
  <2>2. r.rev = job.rev
    BY <2>1 DEF Memories
  <2> HIDE DEF r
  <2>3. pc'[t] = l /\ mem'[t] = r
    BY <1>2, Acted DEF IInv
  <2>4. ASSUME t \in Workers PROVE WorkerInv(t)'
    <3>1. job.rev = mem[t].rev /\ mem[t].rev > 0
      BY <1>1, <1>2, <2>4 DEF MayHandle, Current, RequestInv, WorkerInv
    <3>2. QED BY <1>1, <2>1, <2>2, <2>3, <3>1 DEF WorkerInv, Delivering
  <2> HIDE DEF l
  <2>5. QED BY <1>1, <1>2, <2>4, RowLeft, ThreadRequests DEF Bridging
<1>3. CASE Leave(t)
  BY <1>1, <1>3, RowLeft, ReturnRequests DEF Leave
<1>4. QED BY <1>2, <1>3 DEF Take

(* What a thread wants of the row may put one, and tells it the revision.   *)
LEMMA EnsuredRaise ==
  ASSUME IInv, RequestInv, job' = Ensure(job), owed' = owed
  PROVE  Raised
<1>1. job \in Jobs
  BY DEF IInv, ConversationTypeOK
<1>2. CASE job = NoJob
  BY <1>1, <1>2, EnsuredRow DEF NoJob, Raised
<1>3. CASE job # NoJob
  BY <1>1, <1>3, EnsuredRow DEF Raised, RequestInv, Jobs
<1>4. QED BY <1>2, <1>3

(* Whether a walk counts against the row says nothing of its revision.      *)
LEMMA RelistedRaise ==
  ASSUME IInv, RequestInv, NEW h \in Hosts, owed' = owed,
         job' \in {Against(job, h), NotAgainst(job, h)}
  PROVE  Raised
<1>1. job \in Jobs /\ job.rev \in Nat
  BY DEF IInv, ConversationTypeOK, Jobs
<1>2. job'.rev = job.rev
  BY <1>1, ListedRow
<1>3. job = NoJob => job' = NoJob
  BY DEF Against, NotAgainst, NoJob
<1>4. QED BY <1>1, <1>2, <1>3 DEF RequestInv, Raised

LEMMA JudgedRaise ==
  ASSUME IInv, RequestInv, NEW h \in Hosts, job' = Against(Ensure(job), h)
  PROVE  job.rev <= job'.rev /\ job'.rev # 0
<1>1. job \in Jobs /\ job.rev \in Nat
  BY DEF IInv, ConversationTypeOK, Jobs
<1>2. Ensure(job) \in Jobs /\ (job # NoJob => Ensure(job) = job) /\ (job = NoJob => Ensure(job).rev = 1)
  BY <1>1, EnsuredRow
<1>3. job'.rev = Ensure(job).rev
  BY <1>2, ListedRow
<1>4. CASE job = NoJob
  BY <1>2, <1>3, <1>4 DEF NoJob
<1>5. CASE job # NoJob
  BY <1>1, <1>2, <1>3, <1>5 DEF RequestInv
<1>6. QED BY <1>4, <1>5

LEMMA FetchRequests ==
  ASSUME IInv, IInv', RequestInv, NEW t \in Threads, Fetch(t)
  PROVE  RequestInv'
<1>1. ConversationTypeOK /\ pc[t] = "fetch" /\ mem[t] \in Memories
  BY DEF IInv, ConversationTypeOK, Fetch, At
<1>2. CASE /\ Goto(t, "prepare") /\ Keep(t, [mem[t] EXCEPT !.todo = Fetched, !.head = newest])
           /\ UNCHANGED <<World, matrixVars, tableVars, fence, left, historyVars>>
  <2> DEFINE r == [mem[t] EXCEPT !.todo = Fetched, !.head = newest]
  <2>1. r.head = newest /\ r.rev = mem[t].rev
    BY <1>1 DEF Memories
  <2>2. Keep(t, r)
    BY <1>2
  <2> HIDE DEF r
  <2>3. pc'[t] = "prepare" /\ mem'[t] = r
    BY <1>1, <1>2, <2>2, Acted
  <2>4. UNCHANGED <<newest, cut, evidence, probe, asked, outdated, bridged, backfill, job, owed>>
    BY <1>2 DEF World, remoteVars, probeVars, historyVars, matrixVars, tableVars
  <2>5. t \in Workers => WorkerInv(t)'
    BY <1>1, <2>1, <2>3, <2>4 DEF RequestInv, WorkerInv, Delivering
  <2>6. QED BY <1>2, <2>2, <2>4, <2>5, RowLeft, ThreadRequests DEF Bridging
<1>3. CASE UNCHANGED <<newest, cut, blocked, evidence, user, probeVars, matrixVars, tableVars, threadVars, left, historyVars>>
  <2>1. UNCHANGED <<newest, cut, evidence, probe, asked, outdated, bridged, backfill, job, owed, pc, mem>>
    BY <1>3 DEF probeVars, historyVars, matrixVars, tableVars, threadVars
  <2>2. Onward
    BY <1>1, <2>1, SyncAssumption DEF RequestInv, Onward, ConversationTypeOK
  <2>3. QED BY <2>1, <2>2, RowLeft, RequestsKept DEF Placid, Bridging
<1>4. CASE /\ IF mem[t].rev # 0
                THEN UNCHANGED <<job, mem>>
                ELSE job' = Ensure(job) /\ Keep(t, [mem[t] EXCEPT !.rev = job'.rev])
           /\ Goto(t, "confirm")
           /\ UNCHANGED <<World, matrixVars, head, fence, left, historyVars>>
  <2>1. /\ UNCHANGED <<newest, cut, evidence, probe, asked, outdated, bridged, backfill, owed>>
        /\ mem' = mem \/ \E r : Keep(t, r)
    BY <1>4 DEF World, remoteVars, probeVars, historyVars, matrixVars
  <2>2. Raised
    BY <1>4, <2>1, RowLeft, EnsuredRaise
  <2>3. pc'[t] = "confirm"
    BY <1>1, <1>4 DEF ConversationTypeOK, Goto
  <2>4. t \in Workers => mem' = mem
    BY <1>1, <1>4 DEF RequestInv, WorkerInv
  <2>5. t \in Workers => WorkerInv(t)'
    BY <1>1, <2>2, <2>3, <2>4, ElsewhereKept DEF Delivering
  <2>6. QED BY <1>4, <2>1, <2>2, <2>5, ThreadRequests DEF Bridging
<1>5. CASE Fail(t, "retry")
  BY <1>1, <1>5, FailRequests
<1>6. QED BY <1>2, <1>3, <1>4, <1>5 DEF Fetch

(* A worker that has fetched has what it fetched.                           *)
LEMMA DeliveringKept ==
  ASSUME IInv, IInv', RequestInv, Raised, UNCHANGED <<asked, outdated>>,
         NEW t \in Threads, pc[t] \in Delivering, pc'[t] \in Delivering,
         mem'[t].rev = mem[t].rev, mem'[t].head = mem[t].head
  PROVE  t \in Workers => WorkerInv(t)'
<1> SUFFICES ASSUME t \in Workers PROVE WorkerInv(t)'
  OBVIOUS
<1>1. mem[t].rev <= job.rev /\ mem[t].rev > 0
  BY DEF RequestInv, WorkerInv, Delivering
<1>2. /\ mem[t].rev \in Nat /\ job.rev \in Nat /\ job'.rev \in Nat
      /\ mem[t].head \in Nat /\ owed \in Nat /\ owed' \in Nat
  BY SyncAssumption DEF IInv, ConversationTypeOK, Memories, Jobs
<1>3. mem'[t].rev <= job'.rev /\ mem'[t].rev > 0
  BY <1>1, <1>2 DEF Raised
<1>4. ASSUME Undisturbed', Current(job', mem'[t].rev) PROVE owed' <= mem'[t].head
  <2>1. job'.rev = job.rev /\ job.rev = mem[t].rev
    BY <1>1, <1>2, <1>4 DEF Raised, Current
  <2>2. Undisturbed
    BY <1>4 DEF Undisturbed
  <2>3. job # NoJob
    BY <1>1, <1>2, <2>1 DEF NoJob
  <2>4. owed <= mem[t].head
    BY <2>1, <2>2, <2>3 DEF RequestInv, WorkerInv, Current
  <2>5. QED BY <1>2, <2>1, <2>4 DEF Raised
<1>5. QED BY <1>3, <1>4 DEF WorkerInv, Delivering

LEMMA PrepareRequests ==
  ASSUME IInv, IInv', RequestInv, NEW t \in Threads, Prepare(t)
  PROVE  RequestInv'
<1>1. ConversationTypeOK /\ pc[t] = "prepare" /\ mem[t] \in Memories
  BY DEF IInv, ConversationTypeOK, Prepare, At
<1>2. CASE Fail(t, "retry")
  BY <1>1, <1>2, FailRequests
<1>3. ASSUME NEW held \in {{}, {mem[t].head}},
             /\ Goto(t, "deliver")
             /\ Keep(t, [mem[t] EXCEPT !.todo = @ \ (bridged \cup held), !.held = held # {}]),
             UNCHANGED <<World, tableVars, owed, asked, outdated, bridged>>,
             backfill' = backfill \/ portal = NoRoom
      PROVE  RequestInv'
  <2> DEFINE r == [mem[t] EXCEPT !.todo = @ \ (bridged \cup held), !.held = held # {}]
  <2>1. r.head = mem[t].head /\ r.rev = mem[t].rev
    BY <1>1 DEF Memories
  <2>2. Keep(t, r)
    BY <1>3
  <2> HIDE DEF r
  <2>3. pc'[t] = "deliver" /\ mem'[t] = r
    BY <1>1, <1>3, <2>2, Acted
  <2>4. UNCHANGED <<newest, cut, evidence, probe, asked, outdated, bridged, job, owed>>
    BY <1>3 DEF World, remoteVars, probeVars, tableVars
  <2>5. t \in Workers => WorkerInv(t)'
    BY <1>1, <2>1, <2>3, <2>4, RowLeft, DeliveringKept DEF Delivering
  <2>6. backfill \subseteq backfill'
    BY <1>3 DEF IInv, RoomInv
  <2>7. QED BY <1>3, <2>2, <2>4, <2>5, <2>6, RowLeft, ThreadRequests DEF Bridging
<1>4. QED BY <1>2, <1>3 DEF Prepare, matrixVars

LEMMA DeliverRequests ==
  ASSUME IInv, IInv', RequestInv, NEW t \in Threads, Deliver(t)
  PROVE  RequestInv'
<1>1. ConversationTypeOK /\ pc[t] = "deliver" /\ mem[t] \in Memories
  BY DEF IInv, ConversationTypeOK, Deliver, At
<1>2. CASE Fail(t, "failed")
  BY <1>1, <1>2, FailRequests
<1>3. ASSUME NEW m \in mem[t].todo, bridged \subseteq bridged', backfill' = backfill,
             Keep(t, [mem[t] EXCEPT !.todo = @ \ {m}]),
             UNCHANGED <<World, tableVars, pc, historyVars>>
      PROVE  RequestInv'
  <2> DEFINE r == [mem[t] EXCEPT !.todo = @ \ {m}]
  <2>1. r.head = mem[t].head /\ r.rev = mem[t].rev
    BY <1>1 DEF Memories
  <2>2. Keep(t, r) /\ Goto(t, "deliver")
    BY <1>1, <1>3 DEF Goto, ConversationTypeOK
  <2> HIDE DEF r
  <2>3. pc'[t] = "deliver" /\ mem'[t] = r
    BY <1>1, <2>2, Acted
  <2>4. UNCHANGED <<newest, cut, evidence, probe, asked, outdated, job, owed>>
    BY <1>3 DEF World, remoteVars, probeVars, tableVars, historyVars
  <2>5. t \in Workers => WorkerInv(t)'
    BY <1>1, <2>1, <2>3, <2>4, RowLeft, DeliveringKept DEF Delivering
  <2>6. QED BY <1>3, <2>2, <2>4, <2>5, RowLeft, ThreadRequests DEF Bridging
<1>4. QED BY <1>2, <1>3 DEF Deliver

LEMMA RelockRequests ==
  ASSUME IInv, IInv', RequestInv, NEW t \in Threads, Relock(t)
  PROVE  RequestInv'
<1>1. ConversationTypeOK /\ pc[t] \in {"deliver", "failed"}
  BY DEF IInv, Relock, At
<1>2. UNCHANGED <<newest, cut, evidence, probe, asked, outdated, bridged, backfill, job, owed, mem>>
  BY DEF Relock, World, remoteVars, probeVars, historyVars, matrixVars, tableVars
<1>3. PICK l \in {"commit", "retry"} : Goto(t, l) /\ (l = "commit" => pc[t] = "deliver")
  BY DEF Relock, At
<1>4. pc'[t] = l
  BY <1>1, <1>3 DEF ConversationTypeOK, Goto
<1>5. t \in Workers => WorkerInv(t)'
  <2>1. CASE l = "commit"
    BY <1>2, <1>3, <1>4, <2>1, RowLeft, DeliveringKept DEF Delivering
  <2>2. CASE l = "retry"
    BY <1>1, <1>2, <1>4, <2>2, RowLeft, ElsewhereKept DEF Delivering
  <2>3. QED BY <2>1, <2>2
<1>6. QED BY <1>2, <1>3, <1>5, RowLeft, ThreadRequests DEF Bridging

(* What was fetched is in Matrix, or gone.                                  *)
LEMMA CommitRequests ==
  ASSUME IInv, IInv', RequestInv, NEW t \in Threads, Commit(t)
  PROVE  RequestInv'
<1>1. ConversationTypeOK /\ pc[t] = "commit" /\ FetchInv(t) /\ mem[t] \in Memories
  BY DEF IInv, ThreadInv, Commit, At, ConversationTypeOK
<1>2. UNCHANGED <<newest, cut, evidence, probe, asked, outdated, bridged, backfill, job, owed>>
  BY DEF Commit, World, remoteVars, probeVars, historyVars, matrixVars
<1>3. CASE Leave(t)
  BY <1>2, <1>3, RowLeft, ReturnRequests DEF Leave
<1>4. CASE Goto(t, "ack") /\ UNCHANGED mem
  <2>1. pc'[t] = "ack"
    BY <1>1, <1>4 DEF ConversationTypeOK, Goto
  <2>2. ASSUME t \in Workers PROVE WorkerInv(t)'
    <3>1. WorkerInv(t)
      BY <2>2 DEF RequestInv
    <3>2. ASSUME Undisturbed, Current(job, mem[t].rev) PROVE owed <= cut \/ owed \in Provided
      <4>1. owed <= mem[t].head
        BY <1>1, <3>1, <3>2 DEF WorkerInv, Delivering
      <4>2. \A m \in Messages : m > cut /\ m <= mem[t].head => m \in Provided
        BY <1>1, <3>2 DEF FetchInv, Delivering, Provided
      <4>3. owed \in Nat /\ cut \in Nat /\ mem[t].head \in 0..MaxMessages /\ MaxMessages \in Nat
        BY <1>1, SyncAssumption DEF ConversationTypeOK, Memories
      <4>4. owed > cut => owed \in Messages
        BY <4>1, <4>3 DEF Messages
      <4>5. QED BY <4>1, <4>2, <4>3, <4>4
    <3>3. QED BY <1>1, <1>2, <1>4, <2>1, <3>1, <3>2 DEF WorkerInv, Delivering, Undisturbed, Provided
  <2>3. QED BY <1>2, <1>4, <2>2, RowLeft, ThreadRequests DEF Bridging
<1>5. QED BY <1>3, <1>4 DEF Commit

(* The row goes, and the only worker with it.                               *)
LEMMA DeletedRequests ==
  ASSUME OneWorker, IInv, IInv', RequestInv, NEW t \in Workers, pc[t] = "ack", Current(job, mem[t].rev),
         job' = NoJob, Goto(t, "idle"), Keep(t, Idle),
         UNCHANGED <<newest, cut, evidence, probe, asked, outdated, bridged, backfill, owed>>
  PROVE  RequestInv'
<1>1. t \in Threads /\ \A w \in Workers : w = t
  BY WorkerThreads DEF OneWorker
<1>2. pc'[t] = "idle" /\ mem'[t] = Idle
  BY <1>1, Acted DEF IInv
<1>3. NoJob.rev = 0 /\ Idle.rev = 0
  BY DEF NoJob, Idle
<1>4. \A w \in Workers : WorkerInv(w)'
  BY <1>1, <1>2, <1>3 DEF WorkerInv, Delivering
<1>5. Undisturbed => owed <= cut \/ owed \in Provided
  BY DEF RequestInv, WorkerInv
<1>6. owed \in Nat /\ cut \in Nat
  BY SyncAssumption DEF IInv, ConversationTypeOK
<1>7. NoLostRequest'
  BY <1>5, <1>6 DEF NoLostRequest, Undisturbed, Provided
<1>8. QED BY <1>3, <1>4, <1>7 DEF RequestInv

LEMMA AcknowledgeRequests ==
  ASSUME OneWorker, IInv, IInv', RequestInv, NEW t \in Threads, Acknowledge(t)
  PROVE  RequestInv'
<1>1. /\ pc[t] = "ack" /\ Goto(t, "idle") /\ Keep(t, Idle)
      /\ UNCHANGED <<newest, cut, evidence, probe, asked, outdated, bridged, backfill, owed>>
  BY DEF Acknowledge, At, Leave, World, remoteVars, probeVars, historyVars, matrixVars
<1>2. CASE t \in Workers /\ Current(job, mem[t].rev)
  <2>1. job' = NoJob
    BY <1>2 DEF Acknowledge, Delete
  <2>2. QED BY <1>1, <1>2, <2>1, DeletedRequests
<1>3. CASE ~(t \in Workers /\ Current(job, mem[t].rev))
  <2>1. job' = job
    BY <1>3 DEF Acknowledge, Delete
  <2>2. QED BY <1>1, <2>1, RowLeft, ReturnRequests
<1>4. QED BY <1>2, <1>3

LEMMA RetryRequests ==
  ASSUME IInv, IInv', RequestInv, NEW t \in Threads, Retry(t)
  PROVE  RequestInv'
<1>1. /\ Goto(t, "idle") /\ Keep(t, Idle)
      /\ UNCHANGED <<newest, cut, evidence, probe, asked, outdated, bridged, backfill, owed>>
  BY DEF Retry, Leave, World, remoteVars, probeVars, historyVars, matrixVars
<1>2. job \in Jobs /\ job.rev \in Nat /\ mem[t].rev \in Nat
  BY DEF IInv, ConversationTypeOK, Jobs, Memories
<1>3. job' = job \/ job'.rev = job.rev + 1
  <2>1. CASE job' = MarkRetry(job, mem[t].rev) /\ Current(job, mem[t].rev)
    BY <1>2, <2>1 DEF MarkRetry, Jobs
  <2>2. CASE job' = MarkRetry(job, mem[t].rev) /\ ~Current(job, mem[t].rev)
    BY <2>2 DEF MarkRetry
  <2>3. QED BY <2>1, <2>2 DEF Retry
<1>4. Raised
  BY <1>1, <1>2, <1>3 DEF Raised, RequestInv
<1>5. QED BY <1>1, <1>4, ReturnRequests

LEMMA AbandonRequests ==
  ASSUME IInv, IInv', RequestInv, NEW t \in Threads, Abandon(t)
  PROVE  RequestInv'
<1>1. /\ Goto(t, "idle") /\ Keep(t, Idle)
      /\ UNCHANGED <<newest, cut, evidence, probe, asked, outdated, bridged, backfill, job, owed>>
  BY DEF Abandon, World, remoteVars, probeVars, historyVars, matrixVars, tableVars
<1>2. QED BY <1>1, RowLeft, ReturnRequests

-----------------------------------------------------------------------------
(* The steps of a deletion. *)

(* A sign of life leaves the worker with a revision of the past.            *)
LEMMA LiveRequests ==
  ASSUME IInv, IInv', RequestInv, NEW t \in Threads, SignOfLife, Goto(t, "ack"), pc[t] # "idle",
         UNCHANGED <<newest, cut, evidence, probe, asked, outdated, bridged, backfill, mem, owed>>
  PROVE  RequestInv'
<1>1. job \in Jobs /\ job.rev \in Nat /\ mem[t].rev \in Nat /\ pc'[t] = "ack"
  BY DEF IInv, ConversationTypeOK, Jobs, Memories, Goto
<1>2. job'.rev = job.rev + 1
  BY <1>1, JobRows, JobAssumption DEF SignOfLife
<1>3. Raised
  BY <1>1, <1>2 DEF Raised
<1>4. t \in Workers => WorkerInv(t)'
  BY <1>1, <1>2 DEF RequestInv, WorkerInv, Current, Delivering
<1>5. QED BY <1>3, <1>4, ThreadRequests DEF Bridging

LEMMA ConfirmRequests ==
  ASSUME IInv, IInv', RequestInv, NEW t \in Threads, Confirm(t)
  PROVE  RequestInv'
<1>1. ConversationTypeOK /\ pc[t] = "confirm"
  BY DEF IInv, Confirm, At
<1>2. CASE SignOfLife /\ Goto(t, "ack")
           /\ UNCHANGED <<World, matrixVars, head, fence, mem, left, owed, ended, asked, outdated>>
  BY <1>1, <1>2, LiveRequests DEF World, remoteVars, probeVars, matrixVars
<1>3. CASE Goto(t, "judge") /\ UNCHANGED <<World, matrixVars, tableVars, fence, mem, left, historyVars>>
  <2>1. pc'[t] = "judge" /\ UNCHANGED <<newest, cut, evidence, probe, asked, outdated, bridged, backfill, job, mem, owed>>
    BY <1>1, <1>3 DEF ConversationTypeOK, Goto, World, remoteVars, probeVars, historyVars, matrixVars, tableVars
  <2>2. t \in Workers => WorkerInv(t)'
    BY <1>1, <2>1, RowLeft, ElsewhereKept DEF Delivering
  <2>3. QED BY <1>3, <2>1, <2>2, RowLeft, ThreadRequests DEF Bridging
<1>4. CASE Fail(t, "retry")
  BY <1>1, <1>4, FailRequests
<1>5. QED BY <1>2, <1>3, <1>4 DEF Confirm

(* Nothing is asked for any longer.                                         *)
LEMMA SparedRequests ==
  ASSUME IInv, IInv', RequestInv, NEW t \in Threads, pc[t] # "idle",
         pc' = [Cancelled EXCEPT ![t] = "ack"] \/ Goto(t, "ack"), owed' = 0,
         job' \in {job, Ensure(job), Against(Ensure(job), Host[t])},
         UNCHANGED <<newest, cut, evidence, probe, asked, outdated, bridged, backfill, mem>>
  PROVE  RequestInv'
<1>1. job \in Jobs /\ job.rev \in Nat /\ mem[t].rev \in Nat /\ cut' \in Nat /\ Host[t] \in Hosts
  BY SyncAssumption DEF IInv, ConversationTypeOK, Jobs, Memories
<1>2. job.rev <= job'.rev /\ (job'.rev = 0 => job' = NoJob)
  <2>1. CASE job' = job
    BY <1>1, <2>1 DEF RequestInv
  <2>2. CASE job' = Ensure(job) /\ job = NoJob
    BY <1>1, <2>2, EnsuredRow DEF NoJob
  <2>3. CASE job' = Ensure(job) /\ job # NoJob
    BY <1>1, <2>1, <2>3, EnsuredRow
  <2>4. CASE job' = Against(Ensure(job), Host[t])
    BY <1>1, <2>4, JudgedRaise
  <2>5. QED BY <2>1, <2>2, <2>3, <2>4
<1>3. Raised
  BY <1>2 DEF Raised
<1>4. pc'[t] = "ack"
  BY DEF IInv, ConversationTypeOK, Goto, Cancelled
<1>5. job'.rev \in Nat
  BY DEF IInv, ConversationTypeOK, Jobs
<1>6. t \in Workers => WorkerInv(t)'
  BY <1>1, <1>2, <1>4, <1>5 DEF RequestInv, WorkerInv, Delivering
<1>7. QED BY <1>3, <1>6, ThreadRequests DEF Bridging

(* A thread that goes on with what it knows of the row.                     *)
LEMMA GoneOn ==
  ASSUME IInv, IInv', RequestInv, NEW t \in Threads, pc[t] # "idle",
         NEW l \in Labels \ (Delivering \cup {"ack"}), Goto(t, l) \/ pc' = [Cancelled EXCEPT ![t] = l],
         NEW r, Keep(t, r), r.rev = mem[t].rev, Raised, Bridging,
         UNCHANGED <<newest, cut, evidence, probe, asked>>, outdated \subseteq outdated'
  PROVE  RequestInv'
<1>1. pc'[t] = l /\ mem'[t] = r
  BY DEF IInv, ConversationTypeOK, Goto, Keep, Cancelled
<1>2. t \in Workers => WorkerInv(t)'
  BY <1>1, ElsewhereKept
<1>3. QED BY <1>2, ThreadRequests

(* What is decided when the conversation was not listed.                    *)
LEMMA NotListedRequests ==
  ASSUME IInv, IInv', RequestInv, NEW t \in Threads, pc[t] = "judge",
         job' = Against(Ensure(job), Host[t]), (JudgeUnlisted(t) /\ UNCHANGED outdated) \/ JudgeChecked(t),
         UNCHANGED <<newest, cut, evidence, probe, bridged, backfill>>
  PROVE  RequestInv'
<1>1. mem[t] \in Memories /\ Host[t] \in Hosts /\ mem \in [Threads -> Memories]
  BY SyncAssumption DEF IInv, ConversationTypeOK
<1>2. owed' = owed => Raised
  BY <1>1, JudgedRaise DEF Raised
<1>3. ASSUME NEW l \in {"detach", "retry"}, Judged(t, l), outdated \subseteq outdated' PROVE RequestInv'
  <2>1. UNCHANGED <<asked, owed>> /\ Goto(t, l) /\ Keep(t, mem[t])
    BY <1>1, <1>3 DEF Judged, Keep
  <2>2. l \in Labels \ (Delivering \cup {"ack"})
    BY DEF Labels, SyncLabels, DeleteLabels, Delivering
  <2>3. QED BY <1>2, <1>3, <2>1, <2>2, GoneOn DEF Bridging
<1>4. CASE AskBlocks(t) /\ UNCHANGED outdated
  <2> DEFINE r == [mem[t] EXCEPT !.room = portal]
  <2>1. UNCHANGED <<asked, outdated, owed>> /\ Goto(t, "blocks") /\ Keep(t, r)
    BY <1>4 DEF AskBlocks
  <2>2. r.rev = mem[t].rev
    BY <1>1 DEF Memories
  <2> HIDE DEF r
  <2>3. "blocks" \in Labels \ (Delivering \cup {"ack"})
    BY DEF Labels, SyncLabels, DeleteLabels, Delivering
  <2>4. QED BY <1>2, <2>1, <2>2, <2>3, GoneOn DEF Bridging
<1>5. CASE Leave(t) /\ UNCHANGED <<owed, ended, asked, released, outdated>>
  <2>1. Goto(t, "idle") /\ Keep(t, Idle)
    BY <1>5 DEF Leave
  <2>2. QED BY <1>2, <1>5, <2>1, ReturnRequests
<1>6. CASE Spare(t) /\ UNCHANGED outdated
  BY <1>6, SparedRequests DEF Spare
<1>7. Judged(t, "detach") /\ Believe(t) => outdated \subseteq outdated'
  BY DEF Believe
<1>8. QED BY <1>3, <1>4, <1>5, <1>6, <1>7 DEF JudgeUnlisted, JudgeChecked

LEMMA JudgeRequests ==
  ASSUME IInv, IInv', RequestInv, NEW t \in Threads, Judge(t)
  PROVE  RequestInv'
<1>1. ConversationTypeOK /\ pc[t] = "judge"
  BY DEF IInv, Judge, At
<1>2. CASE job' = Ensure(job) /\ Leave(t) /\ UNCHANGED <<World, matrixVars, head, left, historyVars>>
  <2>1. /\ UNCHANGED <<newest, cut, evidence, probe, bridged, backfill, asked, outdated, owed>>
        /\ Goto(t, "idle") /\ Keep(t, Idle)
    BY <1>2 DEF Leave, historyVars, World, remoteVars, probeVars, matrixVars
  <2>2. QED BY <1>2, <2>1, EnsuredRaise, ReturnRequests
<1>3. CASE UNCHANGED <<evidence, user, observed, probe, matrixVars, head>>
  <2>1. UNCHANGED <<evidence, probe, bridged, backfill>>
    BY <1>3 DEF matrixVars
  <2>2. CASE Judged(t, "detach") /\ UNCHANGED <<job, remoteVars, listVars, left, unlisted, outdated>>
    <3>1. UNCHANGED <<newest, cut, asked, outdated, owed, job>> /\ Goto(t, "detach") /\ Keep(t, mem[t])
      BY <1>1, <2>2 DEF Judged, remoteVars, ConversationTypeOK, Keep
    <3>2. "detach" \in Labels \ (Delivering \cup {"ack"})
      BY DEF Labels, SyncLabels, DeleteLabels, Delivering
    <3>3. QED BY <1>1, <2>1, <3>1, <3>2, RowLeft, GoneOn DEF Bridging
  <2>3. CASE JudgeListed(t) /\ UNCHANGED outdated
    <3>1. CASE SignOfLife /\ Goto(t, "ack")
               /\ UNCHANGED <<newest, cut, blocked, fence, mem, owed, ended, asked>>
      BY <1>1, <2>1, <2>3, <3>1, LiveRequests
    <3>2. CASE Spare(t) /\ job' = Ensure(job) /\ UNCHANGED <<remoteVars, unlisted>>
      BY <1>1, <2>1, <2>3, <3>2, SparedRequests DEF Spare, remoteVars
    <3>3. QED BY <2>3, <3>1, <3>2 DEF JudgeListed
  <2>4. CASE /\ job' = Against(Ensure(job), Host[t]) /\ UNCHANGED remoteVars
             /\ (JudgeUnlisted(t) /\ UNCHANGED outdated) \/ JudgeChecked(t)
    BY <1>1, <2>1, <2>4, NotListedRequests DEF remoteVars
  <2>5. CASE Fail(t, "retry")
    BY <1>1, <2>5, FailRequests
  <2>6. QED BY <1>2, <2>2, <2>3, <2>4, <2>5 DEF Judge
<1>4. CASE Fail(t, "retry")
  BY <1>1, <1>4, FailRequests
<1>5. QED BY <1>2, <1>3, <1>4 DEF Judge

LEMMA ListBlocksRequests ==
  ASSUME IInv, IInv', RequestInv, NEW t \in Threads, ListBlocks(t)
  PROVE  RequestInv'
<1>1. /\ mem[t] \in Memories /\ pc[t] = "blocks" /\ Goto(t, "selected")
      /\ UNCHANGED <<newest, cut, evidence, probe, asked, outdated, bridged, backfill, job, owed>>
  BY DEF IInv, ConversationTypeOK, ListBlocks, At, World, remoteVars, probeVars, historyVars, matrixVars, tableVars
<1>2. PICK c : Keep(t, [mem[t] EXCEPT !.check = c])
  BY DEF ListBlocks
<1>3. "selected" \in Labels \ (Delivering \cup {"ack"})
  BY DEF Labels, Delivering
<1> DEFINE r == [mem[t] EXCEPT !.check = c]
<1>4. Keep(t, r) /\ r.rev = mem[t].rev
  BY <1>1, <1>2 DEF Memories
<1> HIDE DEF r
<1>5. QED BY <1>1, <1>3, <1>4, RowLeft, GoneOn DEF Bridging

LEMMA DetachRequests ==
  ASSUME IInv, IInv', RequestInv, NEW t \in Threads, Detach(t)
  PROVE  RequestInv'
<1>1. /\ mem[t] \in Memories /\ mem[t].rev \in Nat /\ job \in Jobs /\ job.rev \in Nat /\ pc[t] = "detach"
      /\ portal \in Rooms \cup {NoRoom}
  BY DEF IInv, ConversationTypeOK, Memories, Jobs, Detach, At
<1>2. CASE Leave(t) /\ UNCHANGED <<World, matrixVars, tableVars, left, historyVars>>
  <2>1. /\ UNCHANGED <<newest, cut, evidence, probe, bridged, backfill, asked, outdated, owed, job>>
        /\ Goto(t, "idle") /\ Keep(t, Idle)
    BY <1>2 DEF Leave, historyVars, World, remoteVars, probeVars, matrixVars, tableVars
  <2>2. QED BY <2>1, RowLeft, ReturnRequests
<1>3. ASSUME NEW l \in {"remove", "cleanup"}, pc' = [Cancelled EXCEPT ![t] = l],
             NEW room, Keep(t, [mem[t] EXCEPT !.room = room]), Current(job, mem[t].rev),
             job' = job \/ job' = SetDeleteRoom(job, mem[t].rev, portal),
             UNCHANGED <<World, matrixVars, head, fence, left, owed, ended, asked, unlisted, outdated>>
      PROVE  RequestInv'
  <2> DEFINE r == [mem[t] EXCEPT !.room = room]
  <2>1. Keep(t, r) /\ r.rev = mem[t].rev
    BY <1>1, <1>3 DEF Memories
  <2> HIDE DEF r
  <2>2. job'.rev = job.rev
    BY <1>1, <1>3, RevisedRow
  <2>3. job.rev # 0
    BY <1>3 DEF RequestInv, Current
  <2>4. Raised
    BY <1>1, <1>3, <2>2, <2>3 DEF Raised
  <2>5. UNCHANGED <<newest, cut, evidence, probe, bridged, backfill, asked, outdated>>
    BY <1>3 DEF World, remoteVars, probeVars, matrixVars
  <2>6. l \in Labels \ (Delivering \cup {"ack"})
    BY DEF Labels, SyncLabels, DeleteLabels, Delivering
  <2>7. QED BY <1>1, <1>3, <2>1, <2>4, <2>5, <2>6, GoneOn DEF Bridging
<1>4. CASE Fail(t, "retry")
  BY <1>1, <1>4, FailRequests
<1>5. QED BY <1>2, <1>3, <1>4 DEF Detach

(* The messages go while the row names the room, and nobody acknowledges.   *)
LEMMA RemoveRequests ==
  ASSUME IInv, IInv', RequestInv, NEW t \in Threads, Remove(t)
  PROVE  RequestInv'
<1>1. pc[t] = "remove" /\ mem[t] \in Memories
  BY DEF IInv, ConversationTypeOK, Remove, At
<1>2. CASE Fail(t, "retry")
  BY <1>1, <1>2, FailRequests
<1>3. CASE Goto(t, "cleanup") /\ UNCHANGED <<World, tableVars, fence, mem, left, historyVars>>
  <2>1. fence = t /\ job.room # NoRoom
    BY <1>1 DEF IInv, ThreadInv, RowInv, FencedLabels, DeleteLabels
  <2>2. UNCHANGED <<newest, cut, evidence, probe, asked, outdated, owed, job>> /\ Keep(t, mem[t])
    BY <1>3 DEF World, remoteVars, probeVars, historyVars, tableVars, IInv, ConversationTypeOK, Keep
  <2>3. \A w \in Workers : pc[w] # "ack"
    <3>1. ASSUME NEW w \in Workers, pc[w] = "ack" PROVE FALSE
      <4>1. fence = w
        BY <3>1, WorkerThreads DEF IInv, ThreadInv, RowInv, FencedLabels, SyncLabels
      <4>2. QED BY <1>1, <2>1, <3>1, <4>1
    <3>2. QED BY <3>1
  <2>4. Bridging
    BY <2>1, <2>2, <2>3 DEF Bridging, NoJob
  <2>5. "cleanup" \in Labels \ (Delivering \cup {"ack"})
    BY DEF Labels, DeleteLabels, Delivering
  <2>6. QED BY <1>1, <1>3, <2>2, <2>4, <2>5, RowLeft, GoneOn
<1>4. QED BY <1>2, <1>3 DEF Remove

LEMMA CleanupRequests ==
  ASSUME IInv, IInv', RequestInv, NEW t \in Threads, Cleanup(t)
  PROVE  RequestInv'
<1>1. pc[t] = "cleanup" /\ mem[t] \in Memories
  BY DEF IInv, ConversationTypeOK, Cleanup, At
<1>2. CASE Fail(t, "retry")
  BY <1>1, <1>2, FailRequests
<1>3. CASE DeleteRoom(mem[t].room) /\ Goto(t, "forget")
           /\ UNCHANGED <<World, tableVars, fence, mem, left, historyVars>>
  <2>1. UNCHANGED <<newest, cut, evidence, probe, asked, outdated, bridged, backfill, owed, job>> /\ Keep(t, mem[t])
    BY <1>3 DEF World, remoteVars, probeVars, historyVars, tableVars, DeleteRoom, IInv, ConversationTypeOK, Keep
  <2>2. "forget" \in Labels \ (Delivering \cup {"ack"})
    BY DEF Labels, DeleteLabels, Delivering
  <2>3. QED BY <1>1, <1>3, <2>1, <2>2, RowLeft, GoneOn DEF Bridging
<1>4. QED BY <1>2, <1>3 DEF Cleanup

LEMMA ForgetRequests ==
  ASSUME IInv, IInv', RequestInv, NEW t \in Threads, Forget(t)
  PROVE  RequestInv'
<1>1. pc[t] = "forget"
  BY DEF Forget, At
<1>2. CASE Fail(t, "retry")
  BY <1>1, <1>2, FailRequests
<1>3. CASE owed' = 0 /\ pc' = [Cancelled EXCEPT ![t] = "ack"]
           /\ UNCHANGED <<World, matrixVars, job, fence, mem, left, ended, asked, released, unlisted, outdated>>
  BY <1>1, <1>3, SparedRequests DEF World, remoteVars, probeVars, matrixVars
<1>4. QED BY <1>2, <1>3 DEF Forget

-----------------------------------------------------------------------------
(* The chat deletions, the environment and the loops. *)

(* A step of no thread.                                                     *)
LEMMA OutsideRequests ==
  ASSUME IInv, IInv', RequestInv, mem' = mem, pc' \in {pc, Cancelled}, Onward, Raised, Bridging
  PROVE  RequestInv'
<1>1. \A w \in Workers : pc'[w] = pc[w]
  BY WorkerThreads DEF Cancelled
<1>2. QED BY <1>1, RequestsKept DEF Placid

(* A step in which nothing is heard of.                                     *)
LEMMA NothingHeard ==
  ASSUME IInv, IInv', RequestInv, newest' = newest, cut <= cut', UNCHANGED <<evidence, probe>>,
         asked \subseteq asked', outdated \subseteq outdated'
  PROVE  Onward
BY SyncAssumption DEF IInv, ConversationTypeOK, RequestInv, Onward

(* A statement that raises the row.                                         *)
LEMMA RowRaised ==
  ASSUME IInv, RequestInv, job'.rev = job.rev + 1, owed' = owed \/ owed' <= newest'
  PROVE  Raised
BY DEF IInv, ConversationTypeOK, Jobs, Raised

LEMMA ChatRequests ==
  ASSUME IInv, IInv', RequestInv, NEW h \in Hosts, ChatStep(h)
  PROVE  RequestInv'
<1>1. /\ job \in Jobs /\ cut \in Nat /\ newest \in Nat /\ cut <= newest
      /\ user[h].room \in Rooms \cup {NoRoom}
  BY SyncAssumption DEF IInv, ConversationTypeOK
<1>2. CASE DeleteChat(h)
  <2>1. UNCHANGED <<newest, cut, evidence, probe, asked, outdated, bridged, backfill, owed, job, pc, mem>>
    BY <1>2 DEF DeleteChat, remoteVars, probeVars, historyVars, matrixVars, tableVars, threadVars
  <2>2. QED BY <1>1, <2>1, RowLeft, NothingHeard, OutsideRequests DEF Bridging
<1>3. CASE ScheduleDelete(h)
  <2>1. /\ UNCHANGED <<newest, cut, evidence, probe, outdated, bridged, backfill, owed, pc, mem>>
        /\ asked \subseteq asked' /\ job' = ScheduleDeleteRoom(job, user[h].room)
    BY <1>3 DEF ScheduleDelete, Rest, probeVars, matrixVars
  <2>2. job'.rev = job.rev + 1
    BY <1>1, <2>1, JobRows
  <2>3. QED BY <1>1, <2>1, <2>2, RowRaised, NothingHeard, OutsideRequests DEF Bridging
<1>4. CASE RequestDelete(h)
  <2>1. /\ UNCHANGED <<newest, evidence, probe, asked, outdated, bridged, backfill, owed, job, mem>>
        /\ cut <= cut' /\ pc' \in {pc, Cancelled}
    BY <1>1, <1>4 DEF RequestDelete, Rest, probeVars, matrixVars, tableVars
  <2>2. QED BY <2>1, RowLeft, NothingHeard, OutsideRequests DEF Bridging
<1>5. CASE FrameworkPortal(h)
  <2>1. UNCHANGED <<newest, cut, evidence, probe, asked, outdated, owed, job, pc, mem>>
    BY <1>5 DEF FrameworkPortal, Rest, probeVars, historyVars, tableVars
  <2>2. asked # {}
    BY <1>5 DEF IInv, UserInv, FrameworkPortal
  <2>3. QED BY <1>1, <2>1, <2>2, RowLeft, NothingHeard, OutsideRequests DEF Bridging
<1>6. CASE FrameworkRoom(h)
  <2>1. UNCHANGED <<newest, cut, evidence, probe, asked, outdated, bridged, backfill, owed, job, pc, mem>>
    BY <1>6 DEF FrameworkRoom, Rest, probeVars, historyVars, tableVars, matrixVars, DeleteRoom
  <2>2. QED BY <1>1, <2>1, RowLeft, NothingHeard, OutsideRequests DEF Bridging
<1>7. QED BY <1>2, <1>3, <1>4, <1>5, <1>6 DEF ChatStep

LEMMA LoopRequests ==
  ASSUME IInv, IInv', RequestInv, NEW h \in Hosts, Loop(h)
  PROVE  RequestInv'
<1>1. job \in Jobs /\ cut \in Nat /\ newest \in Nat /\ probe \in [Hosts -> Nat] /\ owed \in Nat
  BY SyncAssumption DEF IInv, ConversationTypeOK
<1>2. CASE ListHeads(h)
  <2>1. /\ UNCHANGED <<newest, cut, evidence, asked, outdated, bridged, backfill, owed, job, pc, mem>>
        /\ probe' = probe \/ probe' = [probe EXCEPT ![h] = newest]
    BY <1>2 DEF ListHeads, remoteVars, historyVars, matrixVars, tableVars, threadVars
  <2>2. Onward
    BY <1>1, <2>1 DEF RequestInv, Onward
  <2>3. QED BY <2>1, <2>2, RowLeft, OutsideRequests DEF Bridging
<1>3. CASE QueueChangedHead(h)
  <2>1. /\ UNCHANGED <<newest, cut, evidence, asked, outdated, bridged, backfill, pc, mem>>
        /\ probe' = [probe EXCEPT ![h] = 0]
        /\ \/ SignOfLife /\ owed' = Later(owed, probe[h])
           \/ UNCHANGED <<job, owed>>
    BY <1>3 DEF QueueChangedHead, remoteVars, matrixVars, threadVars
  <2>2. Onward
    BY <1>1, <2>1 DEF RequestInv, Onward
  <2>3. Raised
    <3>1. CASE SignOfLife /\ owed' = Later(owed, probe[h])
      <4>1. job'.rev = job.rev + 1
        BY <1>1, <3>1, JobRows, JobAssumption DEF SignOfLife
      <4>2. owed' <= newest'
        BY <1>1, <2>1, <3>1 DEF RequestInv, Later
      <4>3. QED BY <4>1, <4>2, RowRaised
    <3>2. QED BY <2>1, <3>1, RowLeft
  <2>4. QED BY <2>1, <2>2, <2>3, OutsideRequests DEF Bridging
<1>4. CASE ListAll(h)
  <2>1. UNCHANGED <<newest, cut, evidence, probe, asked, outdated, bridged, backfill, owed, pc, mem>>
        /\ job' \in {Against(job, h), NotAgainst(job, h)}
    BY <1>4 DEF ListAll, Remember, remoteVars, matrixVars, threadVars
  <2>2. QED BY <1>1, <2>1, RelistedRaise, NothingHeard, OutsideRequests DEF Bridging
<1>5. CASE QueueMissing(h)
  <2>1. UNCHANGED <<newest, cut, evidence, probe, asked, outdated, bridged, backfill, owed, pc, mem>>
        /\ job' \in {job, Put(job), Against(Put(job), h)}
    BY <1>5 DEF QueueMissing, remoteVars, matrixVars, threadVars
  <2>2. Put(job) \in Jobs /\ Put(job).rev = job.rev + 1
    BY <1>1, JobRows, JobAssumption
  <2>3. Against(Put(job), h).rev = job.rev + 1
    BY <2>2, ListedRow
  <2>4. Raised
    BY <2>1, <2>2, <2>3, RowLeft, RowRaised
  <2>5. QED BY <1>1, <2>1, <2>4, NothingHeard, OutsideRequests DEF Bridging
<1>6. CASE ListNothing(h)
  <2>1. UNCHANGED <<newest, cut, evidence, probe, asked, outdated, bridged, backfill, owed, job, pc, mem>>
    BY <1>6 DEF ListNothing, remoteVars, historyVars, matrixVars, tableVars, threadVars
  <2>2. QED BY <1>1, <2>1, RowLeft, NothingHeard, OutsideRequests DEF Bridging
<1>7. QED BY <1>2, <1>3, <1>4, <1>5, <1>6 DEF Loop

(* What a walk that is asked for something else tells, and one that is too  *)
(* old.                                                                     *)
LEMMA WalkRequests ==
  ASSUME IInv, IInv', RequestInv, NEW h \in Hosts, ListForAnother(h) \/ Expire(h)
  PROVE  RequestInv'
<1>1. UNCHANGED <<newest, cut, evidence, probe, asked, outdated, bridged, backfill, owed, pc, mem>>
      /\ job' \in {Against(job, h), NotAgainst(job, h)}
  BY DEF ListForAnother, Expire, Remember, remoteVars, matrixVars, threadVars, historyVars
<1>2. cut \in Nat
  BY SyncAssumption DEF IInv, ConversationTypeOK
<1>3. QED BY <1>1, <1>2, RelistedRaise, NothingHeard, OutsideRequests DEF Bridging

(* Whatever is heard of is put on the row, or is still to be handled.       *)
LEMMA EnvironmentRequests ==
  ASSUME IInv, IInv', RequestInv, Environment
  PROVE  RequestInv'
<1>1. /\ job \in Jobs /\ cut \in Nat /\ newest \in Nat /\ cut <= newest /\ owed \in Nat
      /\ evidence \subseteq Nat /\ probe \in [Hosts -> Nat]
  BY SyncAssumption DEF IInv, ConversationTypeOK, Messages
<1>2. CASE Arrive
  <2>1. /\ newest' = newest + 1 /\ evidence' = evidence \cup {newest'}
        /\ UNCHANGED <<cut, probe, asked, outdated, bridged, backfill, owed, job, pc, mem>>
    BY <1>2 DEF Arrive, Outside, historyVars, matrixVars, tableVars, threadVars, probeVars
  <2>2. Onward
    BY <1>1, <2>1 DEF RequestInv, Onward
  <2>3. QED BY <2>1, <2>2, RowLeft, OutsideRequests DEF Bridging
<1>3. CASE EndConversation
  <2>1. cut' = newest /\ UNCHANGED <<newest, evidence, probe, asked, outdated, bridged, backfill, owed, job, pc, mem>>
    BY <1>3 DEF EndConversation, Outside, matrixVars, tableVars, threadVars, probeVars
  <2>2. QED BY <1>1, <2>1, RowLeft, NothingHeard, OutsideRequests DEF Bridging
<1>4. CASE Block
  <2>1. /\ outdated \subseteq outdated'
        /\ UNCHANGED <<newest, cut, evidence, probe, asked, bridged, backfill, owed, job, pc, mem>>
    BY <1>4 DEF Block, Outside, matrixVars, tableVars, threadVars, probeVars
  <2>2. QED BY <1>1, <2>1, RowLeft, NothingHeard, OutsideRequests DEF Bridging
<1>5. CASE Rename
  <2>1. UNCHANGED <<newest, cut, evidence, probe, asked, outdated, bridged, backfill, owed, job, pc, mem>>
    BY <1>5 DEF Rename, Outside, historyVars, matrixVars, tableVars, threadVars, probeVars
  <2>2. QED BY <1>1, <2>1, RowLeft, NothingHeard, OutsideRequests DEF Bridging
<1>6. CASE Scan
  <2>1. /\ evidence' = evidence \cup {newest}
        /\ UNCHANGED <<newest, cut, probe, asked, outdated, bridged, backfill, owed, job, pc, mem>>
    BY <1>6 DEF Scan, remoteVars, historyVars, matrixVars, tableVars, threadVars, probeVars
  <2>2. Onward
    BY <1>1, <2>1 DEF RequestInv, Onward
  <2>3. QED BY <2>1, <2>2, RowLeft, OutsideRequests DEF Bridging
<1>7. ASSUME NEW m \in Messages, HandleEvidence(m) PROVE RequestInv'
  <2>1. /\ m \in evidence /\ evidence' = evidence \ {m} /\ SignOfLife /\ owed' = Later(owed, m)
        /\ UNCHANGED <<newest, cut, probe, asked, outdated, bridged, backfill, pc, mem>>
    BY <1>7 DEF HandleEvidence, remoteVars, matrixVars, threadVars, probeVars
  <2>2. Onward
    BY <1>1, <2>1 DEF RequestInv, Onward
  <2>3. job'.rev = job.rev + 1
    BY <1>1, <2>1, JobRows, JobAssumption DEF SignOfLife
  <2>4. owed' <= newest'
    BY <1>1, <2>1 DEF RequestInv, Later
  <2>5. QED BY <2>1, <2>2, <2>3, <2>4, RowRaised, OutsideRequests DEF Bridging
<1>8. ASSUME NEW m \in Messages, LoseEvidence(m) PROVE RequestInv'
  <2>1. /\ evidence' = evidence \ {m}
        /\ UNCHANGED <<newest, cut, probe, asked, outdated, bridged, backfill, owed, job, pc, mem>>
    BY <1>8 DEF LoseEvidence, remoteVars, historyVars, matrixVars, tableVars, threadVars, probeVars
  <2>2. Onward
    BY <1>1, <2>1 DEF RequestInv, Onward
  <2>3. QED BY <2>1, <2>2, RowLeft, OutsideRequests DEF Bridging
<1>9. QED BY <1>2, <1>3, <1>4, <1>5, <1>6, <1>7, <1>8 DEF Environment

LEMMA BackoffRequests ==
  ASSUME IInv, IInv', RequestInv, Backoff
  PROVE  RequestInv'
<1>1. job \in Jobs /\ cut \in Nat /\ job # NoJob /\ job' = FallDue(job)
  BY SyncAssumption DEF IInv, ConversationTypeOK, Backoff
<1>2. UNCHANGED <<newest, cut, evidence, probe, asked, outdated, bridged, backfill, owed, pc, mem>>
  BY DEF Backoff, remoteVars, historyVars, matrixVars, threadVars, probeVars
<1>3. job'.rev = job.rev /\ job.rev # 0 /\ job.rev \in Nat
  BY <1>1, JobRows, JobAssumption DEF RequestInv, Jobs
<1>4. Raised
  BY <1>2, <1>3 DEF Raised
<1>5. QED BY <1>1, <1>2, <1>4, NothingHeard, OutsideRequests DEF Bridging

(* The worker of a process that crashes starts anew.                        *)
LEMMA CrashRequests ==
  ASSUME IInv, IInv', RequestInv, NEW h \in Hosts, Crash(h)
  PROVE  RequestInv'
<1>1. cut \in Nat /\ newest \in Nat /\ probe \in [Hosts -> Nat]
  BY SyncAssumption DEF IInv, ConversationTypeOK
<1>2. /\ UNCHANGED <<newest, cut, evidence, asked, outdated, bridged, backfill, owed>>
      /\ probe' = [probe EXCEPT ![h] = 0] /\ job' = NotAgainst(job, h)
  BY DEF Crash, remoteVars, matrixVars
<1>3. Onward
  BY <1>1, <1>2 DEF RequestInv, Onward
<1>4. \A w \in Workers : Placid(w)
  BY WorkerThreads DEF Crash, Placid
<1>5. QED BY <1>2, <1>3, <1>4, RelistedRaise, RequestsKept DEF Bridging

-----------------------------------------------------------------------------

LEMMA InitRequests == Init => RequestInv
<1> SUFFICES ASSUME Init PROVE RequestInv
  OBVIOUS
<1>1. \A w \in Workers : pc[w] = "idle" /\ mem[w].rev = 0
  BY WorkerThreads DEF Init, Idle
<1>2. \A w \in Workers : WorkerInv(w)
  BY <1>1 DEF Init, WorkerInv, Delivering, NoJob
<1>3. NoLostRequest
  BY DEF Init, NoLostRequest
<1>4. QED BY <1>2, <1>3 DEF Init, RequestInv

LEMMA NextRequests ==
  ASSUME OneWorker, IInv, IInv', RequestInv, [Next]_vars
  PROVE  RequestInv'
<1>1. ASSUME NEW t \in Threads, SyncStep(t) PROVE RequestInv'
  BY <1>1, SelectRequests, SelectSendRequests, TakeRequests, FetchRequests, PrepareRequests, DeliverRequests,
     RelockRequests, CommitRequests, AcknowledgeRequests, RetryRequests, AbandonRequests DEF SyncStep
<1>2. ASSUME NEW t \in Threads, DeleteStep(t) PROVE RequestInv'
  BY <1>2, ConfirmRequests, JudgeRequests, ListBlocksRequests, DetachRequests, RemoveRequests, CleanupRequests,
     ForgetRequests DEF DeleteStep
<1>3. CASE UNCHANGED vars
  <2>1. UNCHANGED <<newest, cut, evidence, probe, asked, outdated, bridged, backfill, owed, job, pc, mem>> /\ cut \in Nat
    BY <1>3, SyncAssumption DEF vars, remoteVars, historyVars, matrixVars, tableVars, threadVars, probeVars,
                                IInv, ConversationTypeOK
  <2>2. QED BY <2>1, RowLeft, NothingHeard, OutsideRequests DEF Bridging
<1>4. QED
  BY <1>1, <1>2, <1>3, EnvironmentRequests, BackoffRequests, LoopRequests, WalkRequests, ChatRequests, CrashRequests
     DEF Next

(* With one worker, a sync that was durably requested is not forgotten      *)
(* before the message is in Matrix, deleted on Tumblr, or found to be out   *)
(* of reach (processSelectedConversationJob).  With two, which two          *)
(* processes have, it may be.                                               *)
THEOREM RequestsKeptByOneWorker ==
  ASSUME OneWorker
  PROVE  Spec => []NoLostRequest
<1>1. IInv /\ IInv' /\ RequestInv /\ [Next]_vars => RequestInv'
  BY NextRequests
<1>2. RequestInv => NoLostRequest
  BY DEF RequestInv
<1>3. QED BY <1>1, <1>2, InitRequests, Invariance, PTL DEF Spec
=============================================================================
