--------------------------- MODULE ConversationJob ---------------------------
(***************************************************************************)
(* The sync job of one conversation, the row of                            *)
(* tumblr_conversation_sync_job: that the conversation wants a sync, or,   *)
(* when it names a room, that its deletion is to be finished.              *)
(*                                                                         *)
(* An operator is what one SQL statement makes of the row; those that      *)
(* name a revision leave any other revision as it is.  A revision counts   *)
(* from 1 again after the row was deleted.                                 *)
(*                                                                         *)
(* absent is not a column: it has the processes that remember a walk       *)
(* through the conversation list which counts against the row as it stands, *)
(* because it did not have the conversation and began after the row was    *)
(* last written, or is what the row was written for.                       *)
(***************************************************************************)
EXTENDS Naturals

CONSTANTS
  Hosts,       \* bridge processes
  Rooms,       \* Matrix rooms
  NoRoom,
  MaxAttempts  \* attempts are told apart up to maxBlockCheckAttempts

ASSUME JobAssumption == NoRoom \notin Rooms /\ MaxAttempts \in Nat

NoJob == [rev |-> 0, due |-> FALSE, room |-> NoRoom, attempts |-> 0, absent |-> {}]
Jobs  == [rev : Nat, due : BOOLEAN, room : Rooms \cup {NoRoom}, attempts : 0..MaxAttempts,
          absent : SUBSET Hosts]

Fresh(room, due) == [rev |-> 1, due |-> due, room |-> room, attempts |-> 0, absent |-> {}]

(* INSERT ... ON CONFLICT DO UPDATE SET revision=revision+1, ...            *)
Raise(job, room, due) == [Fresh(room, due) EXCEPT !.rev = job.rev + 1]

(* Mutant: a walk from before the write counts against the row.             *)
RaiseUndated(job, room) == [Raise(job, room, TRUE) EXCEPT !.absent = job.absent]
PutLiveUndated(job)     == RaiseUndated(job, NoRoom)

Ensure(job)                   == IF job = NoJob THEN Fresh(NoRoom, TRUE) ELSE job
Put(job)                      == Raise(job, job.room, TRUE)
PutLiveConversation(job)      == Raise(job, NoRoom, TRUE)
ScheduleDeleteRoom(job, room) == Raise(job, room, FALSE)

Current(job, rev) == job # NoJob /\ job.rev = rev

(* Mutants: the room is not put on the row; a delete of any revision. *)
SetNoDeleteRoom(job, rev, room) == job
DeleteAny(job, rev)             == NoJob

SetDeleteRoom(job, rev, room) == IF Current(job, rev) THEN [job EXCEPT !.room = room] ELSE job
Delete(job, rev)              == IF Current(job, rev) THEN NoJob ELSE job
MarkRetry(job, rev) ==
  IF Current(job, rev)
    THEN [job EXCEPT !.rev = @ + 1, !.due = FALSE, !.absent = {},
                     !.attempts = IF @ < MaxAttempts THEN @ + 1 ELSE @]
    ELSE job

(* recentListedConversation: h remembers a walk which is newer than the row, *)
(* or the row's own, without the conversation; or not.                      *)
Against(job, h) == IF job = NoJob THEN job ELSE [job EXCEPT !.absent = @ \cup {h}]
NotAgainst(job, h) == [job EXCEPT !.absent = @ \ {h}]

(* GetNextDue: time has come for the row.                                   *)
FallDue(job) == [job EXCEPT !.due = TRUE]
=============================================================================
