------------------------- MODULE DatabaseLocksProofs -------------------------
(***************************************************************************)
(* Proofs of the safety properties of the database locks, for any number   *)
(* of processes, threads, logins, connections and failures.                *)
(*                                                                         *)
(* The argument: a thread has a connection and a slot exactly at certain   *)
(* places of its program (Shape), a session that has ended is on a broken  *)
(* connection, and with any other the owner of a lock in the database is   *)
(* the thread inside it (Owned).  A process gives out fewer slots than it  *)
(* has connections (Bounded).                                              *)
(***************************************************************************)
EXTENDS DatabaseLocks, FiniteSetTheorems, TLAPS

Connected == {"poll", "leaving"} \cup Holding

Shape == \A t \in Threads :
  /\ t \in conns <=> dialect = "postgres" /\ pc[t] \in Connected
  /\ t \in slots <=> dialect = "postgres" /\ pc[t] \in Connected \cup {"conn"}
  /\ dialect = "sqlite" => pc[t] \notin {"slot", "conn"}
  /\ t \in lost => t \in broken

Owned == \A t \in Threads, k \in Locks :
  /\ owner[k] = t => Inside(t, k)
  /\ Inside(t, k) /\ t \notin lost => owner[k] = t

Bounded == MaxConn # 0 => \A h \in Hosts : Cardinality(Of(slots, h)) < MaxConn

LocksInv == LocksTypeOK /\ Shape /\ Owned /\ Bounded

-----------------------------------------------------------------------------
(* A step keeps the types. *)
LEMMA TypesKept ==
  ASSUME LocksInv, Next
  PROVE  LocksTypeOK'
PROOF
  <1> USE LocksAssumption DEF LocksInv, Locks
  <1>1. ASSUME NEW t \in Threads, Step(t)
        PROVE  LocksTypeOK'
    <2>1. CASE Ask(t)
      BY <2>1, LocksAssumption DEF Ask, LocksTypeOK, Shape, Goto, Fault, Lock, Unlock, Return, Release, EndSession, Freed, Intact, Of, Waiting, Holding, Places, Connected
    <2>2. CASE TakeMutex(t)
      BY <2>2, LocksAssumption DEF TakeMutex, LocksTypeOK, Shape, Goto, Fault, Lock, Unlock, Return, Release, EndSession, Freed, Intact, Of, Waiting, Holding, Places, Connected
    <2>3. CASE TakeSlot(t)
      BY <2>3, LocksAssumption DEF TakeSlot, LocksTypeOK, Shape, Goto, Fault, Lock, Unlock, Return, Release, EndSession, Freed, Intact, Of, Waiting, Holding, Places, Connected
    <2>4. CASE Reserve(t)
      BY <2>4, LocksAssumption DEF Reserve, LocksTypeOK, Shape, Goto, Fault, Lock, Unlock, Return, Release, EndSession, Freed, Intact, Of, Waiting, Holding, Places, Connected
    <2>5. CASE TryLock(t)
      BY <2>5, LocksAssumption DEF TryLock, LocksTypeOK, Shape, Goto, Fault, Lock, Unlock, Return, Release, EndSession, Freed, Intact, Of, Waiting, Holding, Places, Connected
    <2>6. CASE GiveUp(t)
      BY <2>6, LocksAssumption DEF GiveUp, LocksTypeOK, Shape, Goto, Fault, Lock, Unlock, Return, Release, EndSession, Freed, Intact, Of, Waiting, Holding, Places, Connected
    <2>7. CASE PollFails(t)
      BY <2>7, LocksAssumption DEF PollFails, LocksTypeOK, Shape, Goto, Fault, Lock, Unlock, Return, Release, EndSession, Freed, Intact, Of, Waiting, Holding, Places, Connected
    <2>8. CASE Work(t)
      BY <2>8, LocksAssumption DEF Work, LocksTypeOK, Shape, Goto, Fault, Lock, Unlock, Return, Release, EndSession, Freed, Intact, Of, Waiting, Holding, Places, Connected
    <2>9. CASE ReleaseSubmission(t)
      BY <2>9, LocksAssumption DEF ReleaseSubmission, LocksTypeOK, Shape, Goto, Fault, Lock, Unlock, Return, Release, EndSession, Freed, Intact, Of, Waiting, Holding, Places, Connected
    <2>10. CASE Leave(t)
      BY <2>10, LocksAssumption DEF Leave, LocksTypeOK, Shape, Goto, Fault, Lock, Unlock, Return, Release, EndSession, Freed, Intact, Of, Waiting, Holding, Places, Connected
    <2>11. CASE EnterGate(t)
      BY <2>11, LocksAssumption DEF EnterGate, LocksTypeOK, Shape, Goto, Fault, Lock, Unlock, Return, Release, EndSession, Freed, Intact, Of, Waiting, Holding, Places, Connected
    <2>12. CASE TryPortal(t)
      BY <2>12, LocksAssumption DEF TryPortal, LocksTypeOK, Shape, Goto, Fault, Lock, Unlock, Return, Release, EndSession, Freed, Intact, Of, Waiting, Holding, Places, Connected
    <2>13. CASE GiveUpPortal(t)
      BY <2>13, LocksAssumption DEF GiveUpPortal, LocksTypeOK, Shape, Goto, Fault, Lock, Unlock, Return, Release, EndSession, Freed, Intact, Of, Waiting, Holding, Places, Connected
    <2>14. CASE PortalPollFails(t)
      BY <2>14, LocksAssumption DEF PortalPollFails, LocksTypeOK, Shape, Goto, Fault, Lock, Unlock, Return, Release, EndSession, Freed, Intact, Of, Waiting, Holding, Places, Connected
    <2>15. CASE ReleasePortal(t)
      BY <2>15, LocksAssumption DEF ReleasePortal, LocksTypeOK, Shape, Goto, Fault, Lock, Unlock, Return, Release, EndSession, Freed, Intact, Of, Waiting, Holding, Places, Connected
    <2>16. CASE LoseSession(t)
      BY <2>16, LocksAssumption DEF LoseSession, LocksTypeOK, Shape, Goto, Fault, Lock, Unlock, Return, Release, EndSession, Freed, Intact, Of, Waiting, Holding, Places, Connected
    <2>17. QED
      BY <1>1, <2>1, <2>2, <2>3, <2>4, <2>5, <2>6, <2>7, <2>8, <2>9, <2>10, <2>11, <2>12, <2>13, <2>14, <2>15, <2>16 DEF Step, Wait, Finish, Fail
  <1>2. ASSUME NEW h \in Hosts, Crash(h)
        PROVE  LocksTypeOK'
    BY <1>2 DEF Crash, LocksTypeOK, Goto, Fault, Lock, Unlock, Return, Release, EndSession, Freed, Intact, Of, Waiting, Holding, Places, Connected
  <1>3. QED  BY <1>1, <1>2 DEF Next

(* A step keeps connections, slots and sessions where they belong. *)
LEMMA ShapeKept ==
  ASSUME LocksInv, Next
  PROVE  Shape'
PROOF
  <1> USE LocksAssumption DEF LocksInv, Locks
  <1>1. ASSUME NEW t \in Threads, Step(t)
        PROVE  Shape'
    <2>1. CASE Ask(t)
      BY <2>1, LocksAssumption DEF Ask, LocksTypeOK, Shape, Goto, Fault, Lock, Unlock, Return, Release, EndSession, Freed, Intact, Of, Waiting, Holding, Places, Connected
    <2>2. CASE TakeMutex(t)
      BY <2>2, LocksAssumption DEF TakeMutex, LocksTypeOK, Shape, Goto, Fault, Lock, Unlock, Return, Release, EndSession, Freed, Intact, Of, Waiting, Holding, Places, Connected
    <2>3. CASE TakeSlot(t)
      BY <2>3, LocksAssumption DEF TakeSlot, LocksTypeOK, Shape, Goto, Fault, Lock, Unlock, Return, Release, EndSession, Freed, Intact, Of, Waiting, Holding, Places, Connected
    <2>4. CASE Reserve(t)
      BY <2>4, LocksAssumption DEF Reserve, LocksTypeOK, Shape, Goto, Fault, Lock, Unlock, Return, Release, EndSession, Freed, Intact, Of, Waiting, Holding, Places, Connected
    <2>5. CASE TryLock(t)
      BY <2>5, LocksAssumption DEF TryLock, LocksTypeOK, Shape, Goto, Fault, Lock, Unlock, Return, Release, EndSession, Freed, Intact, Of, Waiting, Holding, Places, Connected
    <2>6. CASE GiveUp(t)
      BY <2>6, LocksAssumption DEF GiveUp, LocksTypeOK, Shape, Goto, Fault, Lock, Unlock, Return, Release, EndSession, Freed, Intact, Of, Waiting, Holding, Places, Connected
    <2>7. CASE PollFails(t)
      BY <2>7, LocksAssumption DEF PollFails, LocksTypeOK, Shape, Goto, Fault, Lock, Unlock, Return, Release, EndSession, Freed, Intact, Of, Waiting, Holding, Places, Connected
    <2>8. CASE Work(t)
      BY <2>8, LocksAssumption DEF Work, LocksTypeOK, Shape, Goto, Fault, Lock, Unlock, Return, Release, EndSession, Freed, Intact, Of, Waiting, Holding, Places, Connected
    <2>9. CASE ReleaseSubmission(t)
      BY <2>9, LocksAssumption DEF ReleaseSubmission, LocksTypeOK, Shape, Goto, Fault, Lock, Unlock, Return, Release, EndSession, Freed, Intact, Of, Waiting, Holding, Places, Connected
    <2>10. CASE Leave(t)
      BY <2>10, LocksAssumption DEF Leave, LocksTypeOK, Shape, Goto, Fault, Lock, Unlock, Return, Release, EndSession, Freed, Intact, Of, Waiting, Holding, Places, Connected
    <2>11. CASE EnterGate(t)
      BY <2>11, LocksAssumption DEF EnterGate, LocksTypeOK, Shape, Goto, Fault, Lock, Unlock, Return, Release, EndSession, Freed, Intact, Of, Waiting, Holding, Places, Connected
    <2>12. CASE TryPortal(t)
      BY <2>12, LocksAssumption DEF TryPortal, LocksTypeOK, Shape, Goto, Fault, Lock, Unlock, Return, Release, EndSession, Freed, Intact, Of, Waiting, Holding, Places, Connected
    <2>13. CASE GiveUpPortal(t)
      BY <2>13, LocksAssumption DEF GiveUpPortal, LocksTypeOK, Shape, Goto, Fault, Lock, Unlock, Return, Release, EndSession, Freed, Intact, Of, Waiting, Holding, Places, Connected
    <2>14. CASE PortalPollFails(t)
      BY <2>14, LocksAssumption DEF PortalPollFails, LocksTypeOK, Shape, Goto, Fault, Lock, Unlock, Return, Release, EndSession, Freed, Intact, Of, Waiting, Holding, Places, Connected
    <2>15. CASE ReleasePortal(t)
      BY <2>15, LocksAssumption DEF ReleasePortal, LocksTypeOK, Shape, Goto, Fault, Lock, Unlock, Return, Release, EndSession, Freed, Intact, Of, Waiting, Holding, Places, Connected
    <2>16. CASE LoseSession(t)
      BY <2>16, LocksAssumption DEF LoseSession, LocksTypeOK, Shape, Goto, Fault, Lock, Unlock, Return, Release, EndSession, Freed, Intact, Of, Waiting, Holding, Places, Connected
    <2>17. QED
      BY <1>1, <2>1, <2>2, <2>3, <2>4, <2>5, <2>6, <2>7, <2>8, <2>9, <2>10, <2>11, <2>12, <2>13, <2>14, <2>15, <2>16 DEF Step, Wait, Finish, Fail
  <1>2. ASSUME NEW h \in Hosts, Crash(h)
        PROVE  Shape'
    BY <1>2 DEF Crash, LocksTypeOK, Shape, Goto, Fault, Lock, Unlock, Return, Release, EndSession, Freed, Intact, Of, Waiting, Holding, Places, Connected
  <1>3. QED  BY <1>1, <1>2 DEF Next

(* A step keeps the owners of the locks inside them. *)
LEMMA OwnedKept ==
  ASSUME LocksInv, Next
  PROVE  Owned'
PROOF
  <1> USE LocksAssumption DEF LocksInv, Locks
  <1>1. ASSUME NEW t \in Threads, Step(t)
        PROVE  Owned'
    <2>1. CASE Ask(t)
      BY <2>1, LocksAssumption DEF Ask, LocksTypeOK, Shape, Owned, Inside, Goto, Fault, Lock, Unlock, Return, Release, EndSession, Freed, Intact, Of, Waiting, Holding, Places, Connected
    <2>2. CASE TakeMutex(t)
      BY <2>2, LocksAssumption DEF TakeMutex, LocksTypeOK, Shape, Owned, Inside, Goto, Fault, Lock, Unlock, Return, Release, EndSession, Freed, Intact, Of, Waiting, Holding, Places, Connected
    <2>3. CASE TakeSlot(t)
      BY <2>3, LocksAssumption DEF TakeSlot, LocksTypeOK, Shape, Owned, Inside, Goto, Fault, Lock, Unlock, Return, Release, EndSession, Freed, Intact, Of, Waiting, Holding, Places, Connected
    <2>4. CASE Reserve(t)
      BY <2>4, LocksAssumption DEF Reserve, LocksTypeOK, Shape, Owned, Inside, Goto, Fault, Lock, Unlock, Return, Release, EndSession, Freed, Intact, Of, Waiting, Holding, Places, Connected
    <2>5. CASE TryLock(t)
      BY <2>5, LocksAssumption DEF TryLock, LocksTypeOK, Shape, Owned, Inside, Goto, Fault, Lock, Unlock, Return, Release, EndSession, Freed, Intact, Of, Waiting, Holding, Places, Connected
    <2>6. CASE GiveUp(t)
      BY <2>6, LocksAssumption DEF GiveUp, LocksTypeOK, Shape, Owned, Inside, Goto, Fault, Lock, Unlock, Return, Release, EndSession, Freed, Intact, Of, Waiting, Holding, Places, Connected
    <2>7. CASE PollFails(t)
      BY <2>7, LocksAssumption DEF PollFails, LocksTypeOK, Shape, Owned, Inside, Goto, Fault, Lock, Unlock, Return, Release, EndSession, Freed, Intact, Of, Waiting, Holding, Places, Connected
    <2>8. CASE Work(t)
      BY <2>8, LocksAssumption DEF Work, LocksTypeOK, Shape, Owned, Inside, Goto, Fault, Lock, Unlock, Return, Release, EndSession, Freed, Intact, Of, Waiting, Holding, Places, Connected
    <2>9. CASE ReleaseSubmission(t)
      BY <2>9, LocksAssumption DEF ReleaseSubmission, LocksTypeOK, Shape, Owned, Inside, Goto, Fault, Lock, Unlock, Return, Release, EndSession, Freed, Intact, Of, Waiting, Holding, Places, Connected
    <2>10. CASE Leave(t)
      BY <2>10, LocksAssumption DEF Leave, LocksTypeOK, Shape, Owned, Inside, Goto, Fault, Lock, Unlock, Return, Release, EndSession, Freed, Intact, Of, Waiting, Holding, Places, Connected
    <2>11. CASE EnterGate(t)
      BY <2>11, LocksAssumption DEF EnterGate, LocksTypeOK, Shape, Owned, Inside, Goto, Fault, Lock, Unlock, Return, Release, EndSession, Freed, Intact, Of, Waiting, Holding, Places, Connected
    <2>12. CASE TryPortal(t)
      BY <2>12, LocksAssumption DEF TryPortal, LocksTypeOK, Shape, Owned, Inside, Goto, Fault, Lock, Unlock, Return, Release, EndSession, Freed, Intact, Of, Waiting, Holding, Places, Connected
    <2>13. CASE GiveUpPortal(t)
      BY <2>13, LocksAssumption DEF GiveUpPortal, LocksTypeOK, Shape, Owned, Inside, Goto, Fault, Lock, Unlock, Return, Release, EndSession, Freed, Intact, Of, Waiting, Holding, Places, Connected
    <2>14. CASE PortalPollFails(t)
      BY <2>14, LocksAssumption DEF PortalPollFails, LocksTypeOK, Shape, Owned, Inside, Goto, Fault, Lock, Unlock, Return, Release, EndSession, Freed, Intact, Of, Waiting, Holding, Places, Connected
    <2>15. CASE ReleasePortal(t)
      BY <2>15, LocksAssumption DEF ReleasePortal, LocksTypeOK, Shape, Owned, Inside, Goto, Fault, Lock, Unlock, Return, Release, EndSession, Freed, Intact, Of, Waiting, Holding, Places, Connected
    <2>16. CASE LoseSession(t)
      BY <2>16, LocksAssumption DEF LoseSession, LocksTypeOK, Shape, Owned, Inside, Goto, Fault, Lock, Unlock, Return, Release, EndSession, Freed, Intact, Of, Waiting, Holding, Places, Connected
    <2>17. QED
      BY <1>1, <2>1, <2>2, <2>3, <2>4, <2>5, <2>6, <2>7, <2>8, <2>9, <2>10, <2>11, <2>12, <2>13, <2>14, <2>15, <2>16 DEF Step, Wait, Finish, Fail
  <1>2. ASSUME NEW h \in Hosts, Crash(h)
        PROVE  Owned'
    BY <1>2 DEF Crash, LocksTypeOK, Shape, Owned, Inside, Goto, Fault, Lock, Unlock, Return, Release, EndSession, Freed, Intact, Of, Waiting, Holding, Places, Connected
  <1>3. QED  BY <1>1, <1>2 DEF Next

(* A process gives out no slot beyond the bound, and takes none back from   *)
(* the others.                                                              *)
LEMMA BoundedKept ==
  ASSUME LocksInv, Next
  PROVE  Bounded'
PROOF
  <1> SUFFICES ASSUME MaxConn # 0, NEW h \in Hosts
               PROVE  Cardinality(Of(slots, h))' < MaxConn
    BY DEF Bounded
  <1>1. IsFiniteSet(Of(slots, h)) /\ Cardinality(Of(slots, h)) \in Nat
    <2>1. Of(slots, h) \subseteq Threads
      BY DEF LocksInv, LocksTypeOK, Of
    <2>2. QED  BY <2>1, FS_Subset, FS_CardinalityType, LocksAssumption
  <1>2. Cardinality(Of(slots, h)) < MaxConn
    BY DEF LocksInv, Bounded
  <1>3. ASSUME Of(slots, h)' \subseteq Of(slots, h)
        PROVE  Cardinality(Of(slots, h))' < MaxConn
    <2>1. /\ IsFiniteSet(Of(slots, h)')
          /\ Cardinality(Of(slots, h)') <= Cardinality(Of(slots, h))
      BY <1>1, <1>3, FS_Subset
    <2>2. Cardinality(Of(slots, h)') \in Nat
      BY <2>1, FS_CardinalityType
    <2>3. QED  BY <1>1, <1>2, <2>1, <2>2, LocksAssumption
  <1>4. ASSUME NEW t \in Threads, TakeSlot(t)
        PROVE  Cardinality(Of(slots, h))' < MaxConn
    <2>1. CASE Host[t] # h
      <3>1. Of(slots, h)' = Of(slots, h)
        BY <1>4, <2>1 DEF TakeSlot, Of
      <3>2. QED  BY <1>3, <3>1
    <2>2. CASE Host[t] = h
      <3>1. Of(slots, h)' = Of(slots, h) \cup {t}
        BY <1>4, <2>2 DEF TakeSlot, Of
      <3>2. Cardinality(Of(slots, h)') \in {Cardinality(Of(slots, h)), Cardinality(Of(slots, h)) + 1}
        BY <1>1, <3>1, FS_AddElement
      <3>3. Cardinality(Of(slots, h)) < MaxConn - 1
        BY <1>4, <2>2 DEF TakeSlot, SlotAvailable
      <3>4. QED  BY <1>1, <3>2, <3>3, LocksAssumption
    <2>3. QED  BY <2>1, <2>2
  <1>5. ASSUME NEW t \in Threads, Step(t), ~TakeSlot(t)
        PROVE  Cardinality(Of(slots, h))' < MaxConn
    <2>1. slots' \subseteq slots
      BY <1>5 DEF Step, Wait, Finish, Fail, Ask, TakeMutex, Reserve, TryLock, GiveUp, PollFails,
                  Work, ReleaseSubmission, Leave, EnterGate, TryPortal, GiveUpPortal,
                  PortalPollFails, ReleasePortal, LoseSession, Return
    <2>2. QED  BY <1>3, <2>1 DEF Of
  <1>6. ASSUME NEW g \in Hosts, Crash(g)
        PROVE  Cardinality(Of(slots, h))' < MaxConn
    <2>1. slots' \subseteq slots
      BY <1>6 DEF Crash
    <2>2. QED  BY <1>3, <2>1 DEF Of
  <1>7. QED  BY <1>4, <1>5, <1>6 DEF Next

(* The invariant holds at the start, and every step keeps it. *)
THEOREM LocksInvariance == Spec => []LocksInv
PROOF
  <1>1. ASSUME Init PROVE LocksInv
    <2> USE <1>1, LocksAssumption DEF Init
    <2>1. LocksTypeOK  BY DEF LocksTypeOK, Places
    <2>2. Shape        BY DEF Shape, Connected, Holding
    <2>3. Owned        BY DEF Owned, Inside, Holding
    <2>4. Bounded
      <3>1. \A h \in Hosts : Of(slots, h) = {}
        BY DEF Of
      <3>2. QED  BY <3>1, FS_EmptySet DEF Bounded
    <2>5. QED  BY <2>1, <2>2, <2>3, <2>4 DEF LocksInv
  <1>2. ASSUME LocksInv, [Next]_vars PROVE LocksInv'
    <2>1. CASE Next
      BY <1>2, <2>1, TypesKept, ShapeKept, OwnedKept, BoundedKept DEF LocksInv
    <2>2. CASE UNCHANGED vars
      <3> USE <1>2, <2>2 DEF LocksInv, vars
      <3>1. LocksTypeOK'  BY DEF LocksTypeOK
      <3>2. Shape'        BY DEF Shape
      <3>3. Owned'        BY DEF Owned, Inside
      <3>4. Bounded'      BY DEF Bounded, Of
      <3>5. QED  BY <3>1, <3>2, <3>3, <3>4
    <2>3. QED  BY <1>2, <2>1, <2>2
  <1>3. QED  BY <1>1, <1>2, PTL DEF Spec

(* The variables of the locks have their types. *)
THEOREM LocksTypes == Spec => []LocksTypeOK
PROOF
  <1>1. LocksInv => LocksTypeOK  BY DEF LocksInv
  <1>2. QED  BY <1>1, LocksInvariance, PTL

(* A lock has one holder among all processes while its session lives        *)
(* (acquirePostgresAdvisoryLock, acquirePortalMutationLock).                *)
THEOREM MutualExclusion == Spec => []Exclusive
PROOF
  <1>1. LocksInv => Exclusive  BY DEF LocksInv, Owned, Exclusive
  <1>2. QED  BY <1>1, LocksInvariance, PTL

(* No session keeps a lock that its thread is not inside                    *)
(* (releasePostgresAdvisoryLock).                                           *)
THEOREM NothingLeaks == Spec => []NoLeakedLock
PROOF
  <1>1. LocksInv => NoLeakedLock  BY DEF LocksInv, Owned, NoLeakedLock
  <1>2. QED  BY <1>1, LocksInvariance, PTL

(* The holders of the locks leave a connection of the pool to the queries   *)
(* of their process (acquirePostgresCoordinationSlot).                      *)
THEOREM ConnectionsSpared == Spec => []SpareConnection
PROOF
  <1>1. ASSUME LocksInv, NEW h \in Hosts
        PROVE  ConnAvailable(h)
    <2> SUFFICES ASSUME MaxConn # 0
                 PROVE  Cardinality(Of(conns, h)) < MaxConn
      BY DEF ConnAvailable
    <2>1. Of(conns, h) \subseteq Of(slots, h) /\ Of(slots, h) \subseteq Threads
      BY <1>1 DEF LocksInv, LocksTypeOK, Shape, Of
    <2>2. IsFiniteSet(Of(slots, h))
      BY <2>1, FS_Subset, LocksAssumption
    <2>3. /\ IsFiniteSet(Of(conns, h))
          /\ Cardinality(Of(conns, h)) <= Cardinality(Of(slots, h))
      BY <2>1, <2>2, FS_Subset
    <2>4. Cardinality(Of(conns, h)) \in Nat /\ Cardinality(Of(slots, h)) \in Nat
      BY <2>2, <2>3, FS_CardinalityType
    <2>5. Cardinality(Of(slots, h)) < MaxConn
      BY <1>1 DEF LocksInv, Bounded
    <2>6. QED  BY <2>3, <2>4, <2>5, LocksAssumption
  <1>2. LocksInv => SpareConnection  BY <1>1 DEF SpareConnection
  <1>3. QED  BY <1>2, LocksInvariance, PTL
=============================================================================
