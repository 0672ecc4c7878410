--------------------------- MODULE PushRegistration ---------------------------
(***************************************************************************)
(* The push endpoints of a login: what its metadata says of them, which of *)
(* them Tumblr sends to, and the supervisor, the cleanup and the logout    *)
(* that register and unregister them.                                      *)
(*                                                                         *)
(* A new endpoint is first saved as pending, then registered, then saved   *)
(* as registered; the receiver that connects with it makes it the active   *)
(* one, and the one before retires until the cleanup has unregistered it.  *)
(* A change of the metadata is made in memory, then saved, and taken back  *)
(* when the save fails.  A failed save may have reached the database.      *)
(***************************************************************************)
EXTENDS Integers, FiniteSets

CONSTANTS
  Tokens,    \* endpoints
  NoToken,
  Messages,
  MaxFaults, \* bound: failed calls and saves
  MaxTurns   \* bound: renewals, stops and crashes

ASSUME PushAssumption ==
  NoToken \notin Tokens /\ MaxFaults \in Nat /\ MaxTurns \in Nat

VARIABLES
  keys,        \* PushKeys in memory
  disk,        \* PushKeys in the database
  registered,  \* endpoints Tumblr sends to
  sup,         \* what the supervisor does next
  reg,         \* the registration it uses, or is making
  fromPending, \* that is the pending one
  force,       \* a new registration is wanted, whatever there is
  old,         \* the keys before the change that is being saved, if one is
  cleanup,     \* what the cleanup does next
  todo,        \* endpoints the cleanup, or a logout, has yet to unregister
  early,       \* history: endpoints the cleanup took, or a logout unregistered, ahead of the database
  unsure,      \* history: registered endpoints not yet saved as such
  faults, turns

useVars   == <<reg, fromPending, force>>
supVars   == <<useVars, old>>
cleanVars == <<cleanup, todo, early>>
regVars   == <<keys, disk, registered, sup, supVars, cleanVars, unsure, faults, turns>>

Keys == [active : Tokens \cup {NoToken}, pending : Tokens \cup {NoToken}, done : BOOLEAN,
         retiring : SUBSET Tokens, ids : [Tokens -> SUBSET Messages]]

NoKeys == [active |-> NoToken, pending |-> NoToken, done |-> FALSE,
           retiring |-> {}, ids |-> [t \in Tokens |-> {}]]

Named(k) == ({k.active, k.pending} \cup k.retiring) \ {NoToken}

Places == {"off", "prepare", "staging", "register", "marking", "dial", "login", "promoting",
           "clearing", "cleared", "listen", "storing", "leaving", "loggedout"}

RegistrationTypeOK ==
  /\ keys \in Keys /\ disk \in Keys /\ old \in Keys
  /\ registered \subseteq Tokens /\ unsure \subseteq Tokens
  /\ todo \subseteq Tokens /\ early \subseteq Tokens
  /\ sup \in Places /\ reg \in Tokens \cup {NoToken}
  /\ fromPending \in BOOLEAN /\ force \in BOOLEAN
  /\ cleanup \in {"off", "start", "unregister", "saving", "logout", "dropping"}
  /\ faults \in 0..MaxFaults /\ turns \in 0..MaxTurns

RegistrationInit ==
  /\ keys = NoKeys /\ disk = NoKeys /\ old = NoKeys
  /\ registered = {} /\ unsure = {}
  /\ sup = "off" /\ reg = NoToken /\ fromPending = FALSE /\ force = FALSE
  /\ cleanup = "off" /\ todo = {} /\ early = {}
  /\ faults = 0 /\ turns = 0

InUse(k, t) == t \in {k.active, k.pending}

Fault     == faults < MaxFaults /\ faults' = faults + 1
TurnTaken == turns < MaxTurns /\ turns' = turns + 1
Saved     == disk' = keys /\ UNCHANGED faults
NotSaved  == disk' \in {disk, keys} /\ Fault

(* A change of the supervisor is saved: what retired with it is no longer   *)
(* taken early.                                                             *)
Settled == Saved /\ early' = {t \in early : InUse(keys, t)}

Use(t, pending) ==
  /\ sup' = "dial" /\ reg' = t /\ fromPending' = pending /\ force' = FALSE

(* preparePushRegistration after an error: the active registration will do, *)
(* unless it is the one that has to be replaced.                            *)
FallBack(asked) ==
  IF ~asked /\ keys.active # NoToken
  THEN Use(keys.active, FALSE)
  ELSE sup' = "prepare" /\ UNCHANGED useVars

-----------------------------------------------------------------------------
(* preparePushRegistration *)

(* Mutant: a pending registration is used, registered or not. *)
UsePendingAnyway ==
  /\ sup = "prepare" /\ ~force /\ keys.pending # NoToken
  /\ Use(keys.pending, TRUE)
  /\ UNCHANGED <<keys, disk, registered, old, cleanVars, unsure, faults, turns>>

UsePending ==
  /\ sup = "prepare" /\ ~force /\ keys.pending # NoToken
  /\ IF keys.done THEN Use(keys.pending, TRUE)
     ELSE /\ sup' = "register" /\ reg' = keys.pending
          /\ UNCHANGED <<fromPending, force>>
  /\ UNCHANGED <<keys, disk, registered, old, cleanVars, unsure, faults, turns>>

UseActive ==
  /\ sup = "prepare" /\ ~force /\ keys.pending = NoToken /\ keys.active # NoToken
  /\ Use(keys.active, FALSE)
  /\ UNCHANGED <<keys, disk, registered, old, cleanVars, unsure, faults, turns>>

(* A new endpoint: the model may use one again that nothing remembers.      *)
Fresh(t) == t \notin registered \cup Named(keys) \cup Named(disk) \cup unsure \cup todo \cup early

(* A renewal keeps the credentials and the app ID of the active             *)
(* registration, and may be given the same endpoint.                        *)
Renewal == ~force /\ keys.pending = NoToken /\ keys.active # NoToken

Given(t) == \/ Renewal /\ t = keys.active
            \/ Fresh(t) /\ t = CHOOSE u \in Tokens : Fresh(u)

(* Mutant: a pending registration is replaced and forgotten. *)
StagedOver(t) == [keys EXCEPT !.pending = t, !.done = FALSE]

Staged(t) ==
  [keys EXCEPT !.pending = t, !.done = FALSE,
     !.retiring = IF keys.pending # NoToken /\ keys.done THEN @ \cup {keys.pending} ELSE @]

(* Google may refuse the new registration; the active one may be due when a *)
(* generation starts.                                                       *)
Stage ==
  /\ sup = "prepare"
  /\ \/ force /\ UNCHANGED turns
     \/ keys.pending = NoToken /\ keys.active = NoToken /\ UNCHANGED turns
     \/ Renewal /\ TurnTaken
  /\ \/ /\ \E t \in Tokens : Given(t) /\ keys' = Staged(t) /\ sup' = "staging" /\ reg' = t
        /\ old' = keys
        /\ UNCHANGED <<fromPending, force, faults>>
     \/ FallBack(force) /\ Fault /\ UNCHANGED <<keys, old>>
  /\ UNCHANGED <<disk, registered, cleanVars, unsure>>

(* persistPendingPushRegistration *)
SaveStaged ==
  /\ sup = "staging"
  /\ \/ Settled /\ sup' = "register" /\ UNCHANGED <<keys, useVars>>
     \/ /\ NotSaved /\ UNCHANGED early
        /\ keys' = IF keys.pending = reg
                   THEN [keys EXCEPT !.pending = old.pending, !.done = old.done, !.retiring = old.retiring]
                   ELSE keys
        /\ FallBack(force)
  /\ old' = NoKeys
  /\ UNCHANGED <<registered, cleanup, todo, unsure, turns>>

(* finishPendingPushRegistration: an answer that is lost may have been a    *)
(* success.                                                                 *)
Register ==
  /\ sup = "register"
  /\ \/ /\ registered' = registered \cup {reg} /\ unsure' = unsure \cup {reg}
        /\ keys' = [keys EXCEPT !.done = TRUE]
        /\ sup' = "marking" /\ UNCHANGED <<reg, fromPending, force, faults>>
     \/ /\ Fault /\ UNCHANGED keys
        /\ \/ UNCHANGED <<registered, unsure>>
           \/ registered' = registered \cup {reg} /\ unsure' = unsure \cup {reg}
        /\ FallBack(force)
  /\ UNCHANGED <<disk, old, cleanVars, turns>>

SaveMarked ==
  /\ sup = "marking"
  /\ \/ Saved /\ unsure' = unsure \ {reg} /\ Use(reg, TRUE) /\ UNCHANGED keys
     \/ /\ NotSaved /\ UNCHANGED unsure
        /\ keys' = [keys EXCEPT !.done = FALSE]
        /\ FallBack(force)
  /\ UNCHANGED <<registered, old, cleanVars, turns>>

-----------------------------------------------------------------------------
(* promotePendingPushRegistration *)

(* The new registration has no persistent IDs yet, and the one before does  *)
(* not retire if it is the same.                                            *)
Promoted ==
  [keys EXCEPT !.active = reg, !.pending = NoToken, !.done = FALSE, !.ids[reg] = {},
     !.retiring = @ \cup ({keys.active} \ {NoToken, reg})]

Promote ==
  /\ sup = "login" /\ fromPending
  /\ keys' = Promoted /\ old' = keys
  /\ sup' = "promoting"
  /\ UNCHANGED <<disk, registered, reg, fromPending, force, cleanVars, unsure, faults, turns>>

NotPromoted ==
  IF keys.active = reg /\ keys.pending = NoToken
  THEN [keys EXCEPT !.active = old.active, !.pending = reg, !.done = TRUE,
                     !.retiring = old.retiring, !.ids[reg] = old.ids[reg]]
  ELSE keys

SavePromoted ==
  /\ sup = "promoting"
  /\ \/ Settled /\ sup' = "login" /\ fromPending' = FALSE /\ UNCHANGED keys
     \/ /\ NotSaved /\ UNCHANGED early
        /\ sup' = "prepare" /\ keys' = NotPromoted /\ UNCHANGED fromPending
  /\ old' = NoKeys
  /\ UNCHANGED <<registered, reg, force, cleanup, todo, unsure, turns>>

-----------------------------------------------------------------------------
(* cleanupRetiringPushRegistrations: a snapshot of what retires, and then   *)
(* one endpoint after the other.  The snapshot is of the memory, and may    *)
(* hold what the supervisor retires with a save that is still under way.    *)

(* The database, or the copy a failed save goes back to, still uses t.      *)
Unsaved(t)  == InUse(disk, t) \/ (sup \in {"staging", "promoting"} /\ InUse(old, t))

StartCleanup == cleanup' = IF cleanup = "off" THEN "start" ELSE cleanup

Snapshot ==
  /\ cleanup = "start"
  /\ todo' = keys.retiring \ {keys.active}
  /\ cleanup' = IF todo' = {} THEN "off" ELSE "unregister"
  /\ early' = early \cup {t \in todo' : Unsaved(t)}
  /\ UNCHANGED <<keys, disk, registered, sup, supVars, unsure, faults, turns>>

Unregister(t) ==
  /\ cleanup = "unregister" /\ t \in todo
  /\ \/ /\ registered' = registered \ {t}
        /\ keys' = [keys EXCEPT !.retiring = @ \ {t}]
        /\ todo' = todo \ {t} /\ cleanup' = "saving" /\ UNCHANGED faults
     \/ /\ registered' \in {registered, registered \ {t}}
        /\ cleanup' = "off" /\ todo' = {} /\ Fault /\ UNCHANGED keys
  /\ UNCHANGED <<disk, sup, supVars, early, unsure, turns>>

(* Mutant: one endpoint only. *)
SaveCleanedOnce ==
  /\ cleanup = "saving" /\ Saved /\ cleanup' = "off" /\ todo' = {}
  /\ UNCHANGED <<keys, registered, sup, supVars, early, unsure, turns>>

SaveCleaned ==
  /\ cleanup = "saving"
  /\ \/ Saved /\ cleanup' = (IF todo = {} THEN "off" ELSE "unregister") /\ UNCHANGED todo
     \/ NotSaved /\ cleanup' = "off" /\ todo' = {}
  /\ UNCHANGED <<keys, registered, sup, supVars, early, unsure, turns>>

-----------------------------------------------------------------------------
(* unregisterTumblrWebPush, once the generation has stopped; then the       *)
(* framework deletes the login with its metadata.                           *)

Logout ==
  /\ sup = "off" /\ cleanup = "off"
  /\ todo' = ({keys.active} \cup keys.retiring \cup {t \in {keys.pending} : keys.done}) \ {NoToken}
  /\ cleanup' = "logout" /\ sup' = "leaving"
  /\ UNCHANGED <<keys, disk, registered, supVars, early, unsure, faults, turns>>

Dropped(t) ==
  [keys EXCEPT !.active = IF @ = t THEN NoToken ELSE @,
               !.pending = IF @ = t THEN NoToken ELSE @,
               !.done = @ /\ keys.pending # t,
               !.retiring = @ \ {t}]

(* An endpoint that cannot be unregistered is left in the metadata; the     *)
(* call may have reached Tumblr all the same.                               *)
LogoutEndpoint(t) ==
  /\ cleanup = "logout" /\ t \in todo /\ todo' = todo \ {t}
  /\ \/ registered' = registered \ {t} /\ keys' = Dropped(t) /\ cleanup' = "dropping" /\ UNCHANGED faults
     \/ registered' \in {registered, registered \ {t}} /\ Fault /\ UNCHANGED <<keys, cleanup>>
  /\ early' = early \cup (registered \ registered')
  /\ UNCHANGED <<disk, sup, supVars, unsure, turns>>

(* A failed save is only logged. *)
SaveDropped ==
  /\ cleanup = "dropping" /\ cleanup' = "logout"
  /\ Saved \/ NotSaved
  /\ UNCHANGED <<keys, registered, sup, supVars, todo, early, unsure, turns>>

DeleteLogin ==
  /\ cleanup = "logout" /\ todo = {}
  /\ sup' = "loggedout" /\ cleanup' = "off" /\ keys' = NoKeys /\ disk' = NoKeys
  /\ UNCHANGED <<registered, supVars, todo, early, unsure, faults, turns>>
=============================================================================
