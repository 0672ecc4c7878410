------------------------------ MODULE LoginSaves ------------------------------
(***************************************************************************)
(* The metadata of a login is changed in memory and saved in full.  Saves  *)
(* take places in a chain: each waits until the place before its own is    *)
(* closed, writes what the metadata is by then, and closes its own.  A     *)
(* caller whose context ends while it waits leaves its place to a          *)
(* goroutine that closes it in its turn.                                   *)
(*                                                                         *)
(* Metadata is a version number: a later change has a higher one.          *)
(***************************************************************************)
EXTENDS Integers

CONSTANT Savers   \* threads that save

VARIABLES
  meta,       \* the metadata in memory
  stored,     \* the metadata in the database
  tail,       \* the last place of the chain
  closed,     \* places whose channel is closed
  abandoned,  \* places left to a goroutine
  place,      \* the place of a thread, or 0
  snap        \* what a thread writes once it is its turn, or 0

saveVars == <<meta, stored, tail, closed, abandoned, place, snap>>

SavesInit ==
  /\ meta = 1 /\ stored = 1
  /\ tail = 0 /\ closed = {0} /\ abandoned = {}
  /\ place = [t \in Savers |-> 0] /\ snap = [t \in Savers |-> 0]

SavesTypeOK ==
  /\ meta \in Nat /\ stored \in Nat /\ tail \in Nat
  /\ closed \subseteq 0..tail /\ abandoned \subseteq 1..tail
  /\ place \in [Savers -> 0..tail] /\ snap \in [Savers -> 0..meta]

(* Mutant: the end of the chain stays where it is. *)
QueueUnlinked(t) ==
  /\ meta' = meta + 1
  /\ place' = [place EXCEPT ![t] = tail + 1]
  /\ UNCHANGED <<stored, tail, closed, abandoned, snap>>

(* A thread changes the metadata and asks for a save. *)
Queue(t) ==
  /\ meta' = meta + 1
  /\ tail' = tail + 1
  /\ place' = [place EXCEPT ![t] = tail + 1]
  /\ UNCHANGED <<stored, closed, abandoned, snap>>

Turn(t) ==
  /\ place[t] # 0 /\ snap[t] = 0 /\ place[t] - 1 \in closed
  /\ snap' = [snap EXCEPT ![t] = meta]
  /\ UNCHANGED <<meta, stored, tail, closed, abandoned, place>>

(* The UPDATE returns; one that fails may have been done all the same. *)
Write(t) ==
  /\ snap[t] # 0
  /\ stored' \in {stored, snap[t]}
  /\ closed' = closed \cup {place[t]}
  /\ place' = [place EXCEPT ![t] = 0] /\ snap' = [snap EXCEPT ![t] = 0]
  /\ UNCHANGED <<meta, tail, abandoned>>

(* Mutant: the place is closed at once. *)
GiveUpAtOnce(t) ==
  /\ place[t] # 0 /\ snap[t] = 0
  /\ closed' = closed \cup {place[t]}
  /\ place' = [place EXCEPT ![t] = 0]
  /\ UNCHANGED <<meta, stored, tail, abandoned, snap>>

(* Mutant: the place is not left to anybody. *)
GiveUpForGood(t) ==
  /\ place[t] # 0 /\ snap[t] = 0
  /\ place' = [place EXCEPT ![t] = 0]
  /\ UNCHANGED <<meta, stored, tail, closed, abandoned, snap>>

GiveUp(t) ==
  /\ place[t] # 0 /\ snap[t] = 0
  /\ abandoned' = abandoned \cup {place[t]}
  /\ place' = [place EXCEPT ![t] = 0]
  /\ UNCHANGED <<meta, stored, tail, closed, snap>>

Pass(n) ==
  /\ n \in abandoned /\ n - 1 \in closed
  /\ closed' = closed \cup {n}
  /\ abandoned' = abandoned \ {n}
  /\ UNCHANGED <<meta, stored, tail, place, snap>>
=============================================================================
