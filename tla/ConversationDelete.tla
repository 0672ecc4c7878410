-------------------------- MODULE ConversationDelete --------------------------
(***************************************************************************)
(* The deletion of a conversation's room: because Tumblr says that the     *)
(* conversation is gone (conversation_delete.go), and because the user     *)
(* deletes the chat in Matrix (delete.go), after which bridgev2 itself     *)
(* removes the portal and the room, without the fence.                     *)
(*                                                                         *)
(* The sends that are cancelled with the conversation are Outbound's       *)
(* subject; here their syncs are not started any more.                     *)
(***************************************************************************)
EXTENDS ConversationSync

(* The direct probe of the conversation. *)
Confirm(t) ==
  /\ At(t, "confirm")
  /\ \/ /\ Reachable
        /\ SignOfLife
        /\ Goto(t, "ack")
        /\ UNCHANGED <<World, matrixVars, head, fence, mem, left, owed, ended, asked, outdated>>
     \/ /\ ~Reachable
        /\ Goto(t, "judge")
        /\ UNCHANGED <<World, matrixVars, tableVars, fence, mem, left, historyVars>>
     \/ Fail(t, "retry")

(* The job is done, but the room stays: what was owed is not asked for any  *)
(* longer.                                                                  *)
Spare(t) ==
  /\ Goto(t, "ack") /\ owed' = 0
  /\ UNCHANGED <<fence, mem, ended, asked, released>>

Judged(t, l) == Goto(t, l) /\ UNCHANGED <<fence, mem, owed, ended, asked, released>>

(* The block list is asked for without the fence. *)
AskBlocks(t) ==
  /\ Goto(t, "blocks") /\ Keep(t, [mem[t] EXCEPT !.room = portal])
  /\ fence' = NoThread
  /\ UNCHANGED <<owed, ended, asked, released>>

(* A walk through the whole list does not have the conversation: there is    *)
(* none, or it moved from one page to another meanwhile.                    *)
Missing      == IF Listed THEN Spend("walk") ELSE UNCHANGED left

Overtaken(w) == IF w = "queue" THEN "overtaken" ELSE w

(* conversationStillListed: what the last complete walk says, if it is not  *)
(* too old for the row, and else a new one; only a new one that does not    *)
(* have the conversation is remembered.                                     *)
StillListed(t) == Host[t] \in listed \/ (Host[t] \notin job.absent /\ Listed)

NotListed(t) == LET h == Host[t] IN
  /\ h \notin listed /\ UNCHANGED listed
  /\ \/ h \in job.absent /\ UNCHANGED <<walk, left, unlisted>>
     \/ /\ h \notin job.absent /\ Missing
        /\ walk' = [walk EXCEPT ![h] = Overtaken(@)]
        /\ unlisted' = unlisted \cup {h}

(* The list is believed, and no sign of life has said since that it is not  *)
(* so: a list that missed the conversation, or is out of date.              *)
Believe(t) ==
  outdated' = IF Listed /\ Host[t] \in unlisted' THEN outdated \cup {portal} ELSE outdated

JudgeListed(t) ==
  \/ /\ renamed
     /\ renamed' = FALSE
     /\ SignOfLife
     /\ Goto(t, "ack")
     /\ UNCHANGED <<newest, cut, blocked, fence, mem, owed, ended, asked>>
  \/ ~renamed /\ Spare(t) /\ job' = Ensure(job) /\ UNCHANGED <<remoteVars, unlisted>>

JudgeUnlisted(t) ==
  \/ portal = NoRoom /\ Judged(t, "detach")
  \/ portal # NoRoom /\ t \in Workers /\ AskBlocks(t)
  \/ portal # NoRoom /\ t \in Syncers /\ Leave(t) /\ UNCHANGED <<owed, ended, asked, released>>

JudgeChecked(t) == LET check == mem[t].check IN
  \/ /\ portal = NoRoom \/ portal # mem[t].room
     /\ Judged(t, "retry") /\ UNCHANGED outdated
  \/ /\ portal # NoRoom /\ portal = mem[t].room
     /\ \/ /\ check = "failed" /\ job.attempts < MaxAttempts
           /\ Judged(t, "retry") /\ UNCHANGED outdated
        \/ /\ check = "blocked" \/ (check = "failed" /\ job.attempts >= MaxAttempts)
           /\ Spare(t) /\ UNCHANGED outdated
        \/ check = "clear" /\ Judged(t, "detach") /\ Believe(t)

Judge(t) ==
  /\ At(t, "judge")
  /\ \/ /\ ~Current(Ensure(job), mem[t].rev)
        /\ job' = Ensure(job)
        /\ Leave(t)
        /\ UNCHANGED <<World, matrixVars, head, left, historyVars>>
     \/ /\ Current(Ensure(job), mem[t].rev)
        /\ \/ /\ job.room # NoRoom /\ Judged(t, "detach")
              /\ UNCHANGED <<job, remoteVars, listVars, left, unlisted, outdated>>
           \/ /\ job.room = NoRoom /\ StillListed(t) /\ JudgeListed(t)
              /\ UNCHANGED <<listVars, left, outdated>>
           \/ /\ job.room = NoRoom /\ NotListed(t)
              /\ job' = Against(Ensure(job), Host[t])
              /\ \/ mem[t].check = "none" /\ JudgeUnlisted(t) /\ UNCHANGED outdated
                 \/ mem[t].check # "none" /\ JudgeChecked(t)
              /\ UNCHANGED remoteVars
        /\ UNCHANGED <<evidence, user, observed, probe, matrixVars, head>>
     \/ Fail(t, "retry")

ListBlocks(t) ==
  /\ At(t, "blocks")
  /\ \/ Keep(t, [mem[t] EXCEPT !.check = IF blocked THEN "blocked" ELSE "clear"]) /\ UNCHANGED left
     \/ Keep(t, [mem[t] EXCEPT !.check = "failed"]) /\ Spend("fault")
  /\ Goto(t, "selected")
  /\ UNCHANGED <<World, matrixVars, tableVars, fence, historyVars>>

(* Mutant: the room on the row of an earlier attempt is not read. *)
DetachForgetting(t) ==
  /\ At(t, "detach")
  /\ \/ /\ ~Current(job, mem[t].rev)
        /\ Leave(t)
        /\ UNCHANGED <<World, matrixVars, tableVars, left, historyVars>>
     \/ /\ Current(job, mem[t].rev)
        /\ \/ /\ portal # NoRoom
              /\ job' = SetDeleteRoom(job, mem[t].rev, portal) /\ Renames(portal)
              /\ pc' = [Cancelled EXCEPT ![t] = "remove"] /\ Keep(t, [mem[t] EXCEPT !.room = portal])
           \/ /\ portal = NoRoom
              /\ pc' = [Cancelled EXCEPT ![t] = "cleanup"] /\ Keep(t, [mem[t] EXCEPT !.room = NoRoom])
              /\ UNCHANGED <<job, released>>
        /\ UNCHANGED <<World, matrixVars, head, fence, left, owed, ended, asked, unlisted, outdated>>
     \/ Fail(t, "retry")

(* deletedConversationRoomID: the room is put on the row before the portal  *)
(* that has it is removed.                                                  *)
Detach(t) ==
  /\ At(t, "detach")
  /\ \/ /\ ~Current(job, mem[t].rev)
        /\ Leave(t)
        /\ UNCHANGED <<World, matrixVars, tableVars, left, historyVars>>
     \/ /\ Current(job, mem[t].rev)
        /\ \/ /\ portal # NoRoom
              /\ job' = SetDeleteRoom(job, mem[t].rev, portal) /\ Renames(portal)
              /\ pc' = [Cancelled EXCEPT ![t] = "remove"] /\ Keep(t, [mem[t] EXCEPT !.room = portal])
           \/ /\ portal = NoRoom
              /\ pc' = [Cancelled EXCEPT ![t] = "cleanup"] /\ Keep(t, [mem[t] EXCEPT !.room = job.room])
              /\ UNCHANGED <<job, released>>
        /\ UNCHANGED <<World, matrixVars, head, fence, left, owed, ended, asked, unlisted, outdated>>
     \/ Fail(t, "retry")

(* portal.Delete: the portal's row, and the messages it owns. *)
DeletePortal == portal' = NoRoom /\ bridged' = {} /\ backfill' = {} /\ UNCHANGED <<rooms, made>>
DeleteRoom(r) == rooms' = rooms \ {r} /\ UNCHANGED <<portal, made, bridged, backfill>>

Remove(t) ==
  /\ At(t, "remove")
  /\ \/ /\ DeletePortal
        /\ Goto(t, "cleanup")
        /\ UNCHANGED <<World, tableVars, fence, mem, left, historyVars>>
     \/ Fail(t, "retry")

Cleanup(t) ==
  /\ At(t, "cleanup")
  /\ \/ /\ DeleteRoom(mem[t].room)
        /\ Goto(t, "forget")
        /\ UNCHANGED <<World, tableVars, fence, mem, left, historyVars>>
     \/ Fail(t, "retry")

Forget(t) ==
  /\ At(t, "forget")
  /\ \/ /\ head' = 0 /\ owed' = 0
        /\ pc' = [Cancelled EXCEPT ![t] = "ack"]
        /\ UNCHANGED <<World, matrixVars, job, fence, mem, left, ended, asked, released, unlisted, outdated>>
     \/ Fail(t, "retry")

-----------------------------------------------------------------------------
(* HandleMatrixDeleteChat, and what bridgev2 does once it has returned. *)

Request(h, l, r) == user' = [user EXCEPT ![h] = [pc |-> l, room |-> r]]
Rest             == <<blocked, renamed, newest, evidence, probeVars, mem>>

DeleteChat(h) ==
  /\ user[h].pc = "idle" /\ portal # NoRoom
  /\ Spend("delete")
  /\ Request(h, "asked", portal)
  /\ UNCHANGED <<remoteVars, evidence, matrixVars, tableVars, threadVars, probeVars, historyVars>>

ScheduleDelete(h) ==
  /\ user[h].pc = "asked" /\ fence = NoThread
  /\ fence' = h
  /\ job' = ScheduleDeleteRoom(job, user[h].room) /\ Renames(user[h].room)
  /\ asked' = asked \cup ({user[h].room, portal} \ {NoRoom})
  /\ Request(h, "request", user[h].room)
  /\ UNCHANGED <<Rest, pc, cut, matrixVars, head, left, owed, ended, unlisted, outdated>>

(* A name the blog no longer has makes the request a 404, which counts as   *)
(* deleted.  With a fault, Tumblr refuses, or deletes and the handler fails. *)
RequestDelete(h) ==
  /\ user[h].pc = "request"
  /\ fence' = NoThread
  /\ \/ /\ cut' = IF Reachable THEN newest ELSE cut
        /\ ended' = ended \cup {user[h].room} \cup IF Reachable THEN rooms ELSE {}
        /\ \/ Request(h, "portal", user[h].room) /\ pc' = Cancelled /\ UNCHANGED left
           \/ Spend("fault") /\ Request(h, "idle", NoRoom) /\ UNCHANGED pc
     \/ /\ Spend("fault") /\ Request(h, "idle", NoRoom)
        /\ UNCHANGED <<cut, ended, pc>>
  /\ UNCHANGED <<Rest, matrixVars, tableVars, owed, asked, released, unlisted, outdated>>

FrameworkPortal(h) ==
  /\ user[h].pc = "portal"
  /\ \/ /\ IF portal = user[h].room THEN DeletePortal ELSE UNCHANGED matrixVars
        /\ Request(h, "room", user[h].room) /\ UNCHANGED left
     \/ Spend("fault") /\ Request(h, "idle", NoRoom) /\ UNCHANGED matrixVars
  /\ UNCHANGED <<Rest, pc, cut, tableVars, fence, historyVars>>

FrameworkRoom(h) ==
  /\ user[h].pc = "room"
  /\ \/ DeleteRoom(user[h].room) /\ UNCHANGED left
     \/ Spend("fault") /\ UNCHANGED matrixVars
  /\ Request(h, "idle", NoRoom)
  /\ UNCHANGED <<Rest, pc, cut, tableVars, fence, historyVars>>

DeleteStep(t) == Confirm(t) \/ Judge(t) \/ ListBlocks(t) \/ Detach(t) \/ Remove(t) \/ Cleanup(t) \/ Forget(t)
ChatStep(h)   == DeleteChat(h) \/ ScheduleDelete(h) \/ RequestDelete(h) \/ FrameworkPortal(h) \/ FrameworkRoom(h)
=============================================================================
