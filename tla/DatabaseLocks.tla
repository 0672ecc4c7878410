---------------------------- MODULE DatabaseLocks ----------------------------
(***************************************************************************)
(* The locks that the bridge processes of one database share: a submission *)
(* lock for each login and the portal lock, which a thread only takes      *)
(* while it has a submission lock.  Either is a mutex of the process, and  *)
(* then a lock of the database: with PostgreSQL an advisory lock of a      *)
(* session, with SQLite a lock of an open file.                            *)
(*                                                                         *)
(* An advisory lock keeps a connection of the pool.  A process gives out   *)
(* one coordination slot less than the pool has connections, so that its   *)
(* queries can go on, and the portal lock is taken on the session of the   *)
(* submission lock, so that nobody needs a second slot.  A thread that     *)
(* waits for a lock of the database polls it.                              *)
(*                                                                         *)
(* A query that fails leaves a connection that the driver throws away: the *)
(* server has then released the locks of its session.                      *)
(***************************************************************************)
EXTENDS Integers, FiniteSets

CONSTANTS
  Hosts,      \* bridge processes
  Threads,    \* threads that take the locks
  Host,       \* the process of a thread
  Logins,
  Login,      \* the login a thread works for
  Portal,     \* the portal lock
  NoThread,
  Dialects,   \* the databases the bridge can be configured with
  MaxConn,    \* MaxOpenConnections of a process's pool; 0 is no limit
  MaxFaults   \* bound: failed calls, lost sessions and crashes

Locks == Logins \cup {Portal}

ASSUME LocksAssumption ==
  /\ Host \in [Threads -> Hosts] /\ Login \in [Threads -> Logins]
  /\ Portal \notin Logins /\ NoThread \notin Threads
  /\ IsFiniteSet(Threads)
  /\ Dialects \subseteq {"postgres", "sqlite"}
  /\ MaxConn \in Nat \ {1}      \* a pool of one connection is refused
  /\ MaxFaults \in Nat

VARIABLES
  dialect,
  pc,       \* what a thread does next
  mutex,    \* process -> lock -> the thread that has the local mutex
  owner,    \* lock -> the thread whose session or file has it
  slots,    \* threads that have a coordination slot of their process
  conns,    \* threads that have a connection of the pool for themselves
  broken,   \* those whose connection is no longer any good
  lost,     \* history: holders whose session has ended
  faults

vars == <<dialect, pc, mutex, owner, slots, conns, broken, lost, faults>>

Waiting == {"want", "slot", "conn", "poll"}
Holding == {"held", "gate", "probe", "both", "undo", "closing"}
Places  == {"idle", "leaving"} \cup Waiting \cup Holding

LocksTypeOK ==
  /\ dialect \in Dialects
  /\ pc \in [Threads -> Places]
  /\ mutex \in [Hosts -> [Locks -> Threads \cup {NoThread}]]
  /\ owner \in [Locks -> Threads \cup {NoThread}]
  /\ slots \subseteq Threads /\ conns \subseteq Threads
  /\ broken \subseteq conns /\ lost \subseteq Threads
  /\ faults \in 0..MaxFaults

Init ==
  /\ dialect \in Dialects
  /\ pc = [t \in Threads |-> "idle"]
  /\ mutex = [h \in Hosts |-> [k \in Locks |-> NoThread]]
  /\ owner = [k \in Locks |-> NoThread]
  /\ slots = {} /\ conns = {} /\ broken = {} /\ lost = {}
  /\ faults = 0

Of(S, h)    == {t \in S : Host[t] = h}
Goto(t, p)  == pc' = [pc EXCEPT ![t] = p]
Fault       == faults < MaxFaults /\ faults' = faults + 1
Intact(t)   == dialect = "sqlite" \/ t \in conns \ broken

(* The database takes the locks of a session back. *)
Freed(S)    == [k \in Locks |-> IF owner[k] \in S THEN NoThread ELSE owner[k]]

Lock(t, k)   == /\ mutex[Host[t]][k] = NoThread
                /\ mutex' = [mutex EXCEPT ![Host[t]][k] = t]
Unlock(t, k) == mutex' = [mutex EXCEPT ![Host[t]][k] = NoThread]

(* Mutant: a slot for every connection. *)
SlotForEveryConn(h) == MaxConn = 0 \/ Cardinality(Of(slots, h)) < MaxConn

SlotAvailable(h) == MaxConn = 0 \/ Cardinality(Of(slots, h)) < MaxConn - 1
ConnAvailable(h) == MaxConn = 0 \/ Cardinality(Of(conns, h)) < MaxConn

-----------------------------------------------------------------------------
(* The submission lock. *)

Ask(t) ==
  /\ pc[t] = "idle" /\ Goto(t, "want")
  /\ UNCHANGED <<dialect, mutex, owner, slots, conns, broken, lost, faults>>

TakeMutex(t) ==
  /\ pc[t] = "want" /\ Lock(t, Login[t])
  /\ Goto(t, IF dialect = "postgres" THEN "slot" ELSE "poll")
  /\ UNCHANGED <<dialect, owner, slots, conns, broken, lost, faults>>

TakeSlot(t) ==
  /\ pc[t] = "slot" /\ SlotAvailable(Host[t]) /\ Goto(t, "conn")
  /\ slots' = slots \cup {t}
  /\ UNCHANGED <<dialect, mutex, owner, conns, broken, lost, faults>>

Reserve(t) ==
  /\ pc[t] = "conn" /\ ConnAvailable(Host[t]) /\ Goto(t, "poll")
  /\ conns' = conns \cup {t}
  /\ UNCHANGED <<dialect, mutex, owner, slots, broken, lost, faults>>

(* One successful poll; the thread sleeps after any other. *)
TryLock(t) ==
  /\ pc[t] = "poll" /\ Intact(t) /\ Goto(t, "held")
  /\ owner[Login[t]] = NoThread
  /\ owner' = [owner EXCEPT ![Login[t]] = t]
  /\ UNCHANGED <<dialect, mutex, slots, conns, broken, lost, faults>>

(* Mutant: what is known of the connection stays. *)
ReturnBroken(t) ==
  /\ Goto(t, "idle") /\ Unlock(t, Login[t])
  /\ slots' = slots \ {t} /\ conns' = conns \ {t} /\ lost' = lost \ {t}
  /\ UNCHANGED broken

(* The connection, the slot and the mutex are given back. *)
Return(t) ==
  /\ Goto(t, "idle") /\ Unlock(t, Login[t])
  /\ slots' = slots \ {t} /\ conns' = conns \ {t} /\ broken' = broken \ {t}
  /\ lost' = lost \ {t}

(* The context ends, or a call fails, while the thread waits.  Nothing ends *)
(* the wait for a mutex.                                                    *)
GiveUp(t) ==
  /\ pc[t] \in {"slot", "conn", "poll"} /\ Fault
  /\ Return(t)
  /\ UNCHANGED <<dialect, owner>>

(* The poll of a session that has ended fails. *)
PollFails(t) ==
  /\ pc[t] = "poll" /\ ~Intact(t)
  /\ Return(t)
  /\ UNCHANGED <<dialect, owner, faults>>

(* The holder's queries need a connection of the pool. *)
Work(t) ==
  /\ pc[t] \in {"held", "both"} /\ ConnAvailable(Host[t])
  /\ IF pc[t] = "both" THEN Goto(t, "undo")
                       ELSE Goto(t, "gate") \/ Goto(t, "closing")
  /\ UNCHANGED <<dialect, mutex, owner, slots, conns, broken, lost, faults>>

(* An unlock that fails or takes too long ends the session, and with it     *)
(* every lock of the thread.                                                *)
EndSession(t) ==
  /\ owner' = Freed({t})
  /\ broken' = broken \cup {t}
  /\ lost' = lost \cup {t}

(* Mutant: every lock of the session is released. *)
ReleaseAll(t, k) ==
  \/ Intact(t) /\ owner' = Freed({t}) /\ UNCHANGED <<broken, lost, faults>>
  \/ ~Intact(t) /\ EndSession(t) /\ UNCHANGED faults

(* Mutant: a session that could not be unlocked goes back to the pool. *)
ReleaseOrWarn(t, k) ==
  \/ /\ Intact(t)
     /\ owner' = [owner EXCEPT ![k] = NoThread]
     /\ UNCHANGED <<broken, lost, faults>>
  \/ Intact(t) /\ t \in conns /\ Fault /\ UNCHANGED <<owner, broken, lost>>
  \/ ~Intact(t) /\ EndSession(t) /\ UNCHANGED faults

Release(t, k) ==
  \/ /\ Intact(t)
     /\ owner' = [owner EXCEPT ![k] = NoThread]
     /\ UNCHANGED <<broken, lost, faults>>
  \/ Intact(t) /\ t \in conns /\ Fault /\ EndSession(t)
  \/ ~Intact(t) /\ EndSession(t) /\ UNCHANGED faults

ReleaseSubmission(t) ==
  /\ pc[t] = "closing" /\ Release(t, Login[t]) /\ Goto(t, "leaving")
  /\ UNCHANGED <<dialect, mutex, slots, conns>>

Leave(t) ==
  /\ pc[t] = "leaving" /\ Return(t)
  /\ UNCHANGED <<dialect, owner, faults>>

-----------------------------------------------------------------------------
(* The portal lock, on the same session. *)

EnterGate(t) ==
  /\ pc[t] = "gate" /\ Lock(t, Portal) /\ Goto(t, "probe")
  /\ UNCHANGED <<dialect, owner, slots, conns, broken, lost, faults>>

(* Mutant: on a session of its own. *)
TryPortalAfresh(t) ==
  /\ pc[t] = "probe" /\ Goto(t, "both")
  /\ dialect = "sqlite" \/ SlotAvailable(Host[t])
  /\ owner[Portal] = NoThread
  /\ owner' = [owner EXCEPT ![Portal] = t]
  /\ UNCHANGED <<dialect, mutex, slots, conns, broken, lost, faults>>

TryPortal(t) ==
  /\ pc[t] = "probe" /\ Intact(t) /\ Goto(t, "both")
  /\ owner[Portal] = NoThread
  /\ owner' = [owner EXCEPT ![Portal] = t]
  /\ UNCHANGED <<dialect, mutex, slots, conns, broken, lost, faults>>

GiveUpPortal(t) ==
  /\ pc[t] = "probe" /\ Goto(t, "closing") /\ Unlock(t, Portal)
  /\ Fault
  /\ UNCHANGED <<dialect, owner, slots, conns, broken, lost>>

PortalPollFails(t) ==
  /\ pc[t] = "probe" /\ Goto(t, "closing") /\ Unlock(t, Portal)
  /\ ~Intact(t)
  /\ UNCHANGED <<dialect, owner, slots, conns, broken, lost, faults>>

ReleasePortal(t) ==
  /\ pc[t] = "undo" /\ Release(t, Portal) /\ Goto(t, "closing")
  /\ Unlock(t, Portal)
  /\ UNCHANGED <<dialect, slots, conns>>

-----------------------------------------------------------------------------
(* The database server and the processes. *)

LoseSession(t) ==
  /\ t \in conns \ broken /\ Fault
  /\ EndSession(t)
  /\ UNCHANGED <<dialect, pc, mutex, slots, conns>>

(* The end of a process ends its sessions and closes its files. *)
Crash(h) == LET own == Of(Threads, h) IN
  /\ Fault
  /\ pc' = [t \in Threads |-> IF t \in own THEN "idle" ELSE pc[t]]
  /\ mutex' = [mutex EXCEPT ![h] = [k \in Locks |-> NoThread]]
  /\ owner' = Freed(own)
  /\ slots' = slots \ own /\ conns' = conns \ own
  /\ broken' = broken \ own /\ lost' = lost \ own
  /\ UNCHANGED dialect

Wait(t)   == TakeMutex(t) \/ TakeSlot(t) \/ Reserve(t) \/ TryLock(t)
             \/ EnterGate(t) \/ TryPortal(t)
Finish(t) == Work(t) \/ ReleaseSubmission(t) \/ ReleasePortal(t) \/ Leave(t)
Fail(t)   == PollFails(t) \/ PortalPollFails(t)
Step(t)   == Ask(t) \/ Wait(t) \/ Finish(t) \/ Fail(t)
             \/ GiveUp(t) \/ GiveUpPortal(t) \/ LoseSession(t)

Next == (\E t \in Threads : Step(t)) \/ (\E h \in Hosts : Crash(h))

Spec == Init /\ [][Next]_vars

(* A thread with the lock goes on, and one whose session has ended notices. *)
(* A waiter gets what becomes free again and again: a mutex and a slot are  *)
(* handed over in order, but a lock of the database is polled, and that the *)
(* polls do not miss it for ever is an assumption.                          *)
Fairness == \A t \in Threads :
  WF_vars(Finish(t)) /\ WF_vars(Fail(t)) /\ SF_vars(Wait(t))

FairSpec == Spec /\ Fairness

-----------------------------------------------------------------------------
(* What the locks promise. *)

Inside(t, k) == \/ k = Login[t] /\ pc[t] \in Holding
                \/ k = Portal /\ pc[t] \in {"both", "undo"}

(* A lock has one holder at a time among all processes, as long as the      *)
(* holder's session lives: the end of one lock never drops the other        *)
(* (AcquireOutboundSubmissionLock, acquirePortalMutationLock).              *)
Exclusive == \A k \in Locks : \A t, u \in Threads \ lost :
               Inside(t, k) /\ Inside(u, k) => t = u

(* The lock holders of a process never have all its connections, so that    *)
(* their queries, and those of others, get one                              *)
(* (acquirePostgresCoordinationSlot).                                       *)
SpareConnection == \A h \in Hosts : ConnAvailable(h)

(* Whoever has a lock in the database is inside it, or about to release it: *)
(* no session goes back to the pool with a lock (releasePostgresAdvisoryLock,*)
(* "Never return a session with an uncertain advisory-lock state").         *)
NoLeakedLock == \A k \in Locks : \A t \in Threads : owner[k] = t => Inside(t, k)

(* Every thread that wants a lock gets through, or gives up: holders of one *)
(* lock that wait for the other, for a slot or for a connection never wait  *)
(* for each other.                                                          *)
EveryCallFinishes == \A t \in Threads : (pc[t] # "idle") ~> (pc[t] = "idle")
=============================================================================
