------------------------------ MODULE PushProofs ------------------------------
(***************************************************************************)
(* Invariants of the push connection, proved for every value of the        *)
(* constants: what the metadata says of the endpoints, in memory, in the   *)
(* database and in the copy that a failed save is taken back to, and what  *)
(* Google's server may forget.                                             *)
(***************************************************************************)
EXTENDS Push, TLAPS

-----------------------------------------------------------------------------
(* The inductive invariant. *)

(* The save under way is of a change that its failure takes back. *)
Changing == sup \in {"staging", "promoting"}

(* A pending endpoint retires only where it is the active one as well,      *)
(* which the cleanup leaves alone.                                          *)
Apart(k) == k.pending \in k.retiring => k.pending = k.active

(* What the keys k would use is registered, and what the cleanup still has  *)
(* to unregister is not used by them, unless it was taken early.            *)
Usable(k) ==
  /\ k.active \in registered \cup early \cup {NoToken}
  /\ k.done => k.pending \in registered \cup early \cup {NoToken}
  /\ ~k.done /\ k.pending \in registered => k.pending \in unsure \cup {k.active}
  /\ sup # "leaving" => /\ k.active \in todo => k.active \in early
                        /\ k.pending \in todo => k.pending \in early

Remembered(k) == registered \subseteq Named(k) \cup unsure

AllRemembered ==
  sup # "loggedout" => Remembered(keys) /\ Remembered(disk) /\ (Changing => Remembered(old))
AllApart      == Apart(keys) /\ Apart(disk) /\ (Changing => Apart(old))
AllUsable     == Usable(keys) /\ Usable(disk) /\ (Changing => Usable(old))

(* What the supervisor's registration is at each place of its loop.         *)
PlaceInv ==
  /\ sup \notin {"off", "prepare", "leaving", "loggedout"} => reg \in Tokens
  /\ sup = "staging" => keys.active = old.active /\ keys.pending = reg /\ ~keys.done
  /\ sup = "register" => keys.pending = reg
  /\ sup = "marking" => keys.pending = reg /\ keys.done /\ reg \in unsure
  /\ sup \in {"dial", "login"} => IF fromPending THEN keys.pending = reg /\ keys.done
                                                  ELSE keys.active = reg
  /\ sup = "promoting" => /\ keys.active = reg /\ keys.pending = NoToken
                          /\ old.pending = reg /\ old.done
  /\ sup \in {"clearing", "cleared", "listen", "storing"} => keys.active = reg

RegInv ==
  /\ RegistrationTypeOK
  /\ PlaceInv
  /\ AllRemembered /\ AllApart /\ AllUsable

(* A persistent ID is stored once its message is settled, by a job or for   *)
(* it says nothing; the receive loop is ahead by the message it waits for.  *)
DurableInv ==
  /\ \A t \in Tokens : keys.ids[t] \cup disk.ids[t] \cup old.ids[t] \subseteq jobs \cup ignored
  /\ link => position \subseteq jobs \cup ignored \cup {cur} /\ cur \in position \cup {NoMessage}
  /\ sup = "storing" => cur \in jobs \cup ignored
  /\ \A t \in Tokens : queue[t] \subseteq sent
  /\ position \subseteq sent /\ cur \in sent \cup {NoMessage}
  /\ AckedIsDurable

IInv ==
  /\ RegInv /\ PushTypeOK /\ DurableInv
  /\ cleanup \in {"logout", "dropping"} <=> sup = "leaving"
  /\ link => reg \in Tokens

-----------------------------------------------------------------------------
(* The steps of the supervisor that leave the receiver alone. *)

(* No version of the keys gets an ID that none of them had.                 *)
AllIds(t)  == keys.ids[t] \cup disk.ids[t] \cup old.ids[t]
NoNewIds   == \A t \in Tokens : AllIds(t)' \subseteq AllIds(t)

(* There is nothing in the keys of a login that has none.                   *)
LEMMA NoKeysFacts ==
  /\ NoKeys \in Keys /\ Named(NoKeys) = {} /\ NoKeys.active = NoToken /\ NoKeys.pending = NoToken
  /\ NoKeys.retiring = {} /\ ~NoKeys.done /\ \A t \in Tokens : NoKeys.ids[t] = {}
BY DEF NoKeys, Keys, Named

(* A step that only moves the supervisor keeps what is said of the keys,    *)
(* when the change under way is not begun or ended by it.                   *)
LEMMA KeysKept ==
  ASSUME RegInv, UNCHANGED <<keys, disk, registered, old, cleanVars, unsure>>,
         ~Changing', sup \notin {"leaving", "loggedout"}
  PROVE  AllRemembered' /\ AllApart' /\ AllUsable' /\ NoNewIds
BY DEF RegInv, AllRemembered, AllApart, AllUsable, Remembered, Apart, Usable, Named, Changing,
       cleanVars, NoNewIds, AllIds

(* A pending registration is used, or registered first; without one, the    *)
(* active one is used.                                                      *)
LEMMA UseSteps ==
  ASSUME RegInv, UsePending \/ UseActive
  PROVE  RegInv' /\ NoNewIds
<1>1. /\ sup = "prepare" /\ sup' \in {"dial", "register"} /\ ~Changing'
      /\ UNCHANGED <<keys, disk, registered, old, cleanVars, unsure, faults, turns>>
  BY DEF UsePending, UseActive, Use, Changing
<1>2. AllRemembered' /\ AllApart' /\ AllUsable' /\ NoNewIds
  BY <1>1, KeysKept
<1>3. PlaceInv'
  BY PushAssumption DEF UsePending, UseActive, Use, PlaceInv, RegInv, RegistrationTypeOK, Keys
<1>4. reg' \in Tokens \cup {NoToken}
  BY DEF UsePending, UseActive, Use, RegInv, RegistrationTypeOK, Keys
<1>5. fromPending' \in BOOLEAN /\ force' \in BOOLEAN
  BY DEF UsePending, UseActive, Use, RegInv, RegistrationTypeOK
<1>6. RegistrationTypeOK'
  BY <1>1, <1>4, <1>5 DEF RegInv, RegistrationTypeOK, cleanVars, Places
<1>7. QED BY <1>2, <1>3, <1>6 DEF RegInv

(* What a newly staged endpoint makes of the keys.                          *)
LEMMA StagedKeys ==
  ASSUME keys \in Keys, NEW t \in Tokens
  PROVE  /\ Staged(t) \in Keys
         /\ Staged(t).active = keys.active /\ Staged(t).pending = t /\ ~Staged(t).done
         /\ Staged(t).retiring = IF keys.pending # NoToken /\ keys.done
                                 THEN keys.retiring \cup {keys.pending} ELSE keys.retiring
         /\ Staged(t).ids = keys.ids
BY DEF Staged, Keys

(* The supervisor asks Google for an endpoint, and stages it in memory, or  *)
(* falls back on the active one.                                            *)
LEMMA StageStep ==
  ASSUME RegInv, Stage
  PROVE  RegInv' /\ NoNewIds
<1>1. CASE FallBack(force) /\ Fault /\ UNCHANGED <<keys, old>>
  <2>1. /\ sup = "prepare" /\ sup' \in {"prepare", "dial"} /\ ~Changing'
        /\ UNCHANGED <<keys, disk, registered, old, cleanVars, unsure>>
    BY <1>1 DEF Stage, FallBack, Use, Changing
  <2>2. AllRemembered' /\ AllApart' /\ AllUsable' /\ NoNewIds
    BY <2>1, KeysKept
  <2>3. PlaceInv'
    BY <1>1, PushAssumption DEF Stage, FallBack, Use, useVars, PlaceInv, RegInv, RegistrationTypeOK, Keys
  <2>4. turns' \in 0..MaxTurns /\ faults' \in 0..MaxFaults
    BY <1>1, PushAssumption DEF Stage, Fault, TurnTaken, RegInv, RegistrationTypeOK
  <2>5. RegistrationTypeOK'
    BY <1>1, <2>1, <2>4 DEF FallBack, Use, useVars, RegInv, RegistrationTypeOK, cleanVars, Keys, Places
  <2>6. QED BY <2>2, <2>3, <2>5 DEF RegInv
<1>2. ASSUME NEW t \in Tokens, Given(t),
             keys' = Staged(t), sup' = "staging", reg' = t, old' = keys,
             UNCHANGED <<fromPending, force, faults>>
      PROVE  RegInv' /\ NoNewIds
  <2>1. /\ sup = "prepare" /\ ~Changing /\ Changing'
        /\ UNCHANGED <<disk, registered, cleanVars, unsure>>
    BY <1>2 DEF Stage, Changing
  <2>2. keys \in Keys /\ disk \in Keys
    BY DEF RegInv, RegistrationTypeOK
  <2>3. /\ keys' \in Keys
        /\ keys'.active = keys.active /\ keys'.pending = t /\ ~keys'.done
        /\ keys'.retiring = IF keys.pending # NoToken /\ keys.done
                            THEN keys.retiring \cup {keys.pending} ELSE keys.retiring
        /\ keys'.ids = keys.ids
    BY <1>2, <2>2, StagedKeys
  <2>0. \/ t = keys.active /\ keys.pending = NoToken
        \/ /\ t \notin registered \cup unsure \cup todo \cup early
           /\ t # keys.active /\ t # keys.pending /\ t \notin keys.retiring
    BY <1>2, <2>2, PushAssumption DEF Given, Renewal, Fresh, Named
  <2>4. AllRemembered'
    BY <1>2, <2>0, <2>1, <2>3 DEF RegInv, AllRemembered, AllUsable, Usable, Remembered, Named, Changing
  <2>5. AllApart'
    BY <1>2, <2>0, <2>1, <2>2, <2>3, PushAssumption DEF RegInv, AllApart, Apart, Keys
  <2>6. AllUsable'
    BY <1>2, <2>0, <2>1, <2>3 DEF RegInv, AllUsable, Usable, cleanVars, Changing
  <2>7. PlaceInv'
    BY <1>2, <2>3 DEF PlaceInv
  <2>8. turns' \in 0..MaxTurns
    BY PushAssumption DEF Stage, TurnTaken, RegInv, RegistrationTypeOK
  <2>9. RegistrationTypeOK'
    BY <1>2, <2>1, <2>3, <2>8 DEF RegInv, RegistrationTypeOK, cleanVars, Places
  <2>10. NoNewIds
    BY <1>2, <2>1, <2>3 DEF NoNewIds, AllIds
  <2>11. QED BY <2>4, <2>5, <2>6, <2>7, <2>9, <2>10 DEF RegInv
<1>3. QED BY <1>1, <1>2 DEF Stage

(* The save of a change of the supervisor that leaves the memory as it is:  *)
(* what it no longer uses need not be early any more.                       *)
LEMMA SettledKept ==
  ASSUME RegInv, sup \notin {"leaving", "loggedout"}, sup' \notin {"leaving", "loggedout"},
         ~Changing', UNCHANGED <<keys, registered, todo, unsure>>, old' = NoKeys,
         \/ disk' \in {disk, keys} /\ UNCHANGED early
         \/ disk' = keys /\ early' = {t \in early : InUse(keys, t)}
  PROVE  AllRemembered' /\ AllApart' /\ AllUsable' /\ NoNewIds
<1>1. AllRemembered' /\ AllApart'
  BY DEF RegInv, AllRemembered, AllApart, Remembered, Apart, Named
<1>2. AllUsable'
  BY DEF RegInv, AllUsable, Usable, InUse
<1>3. NoNewIds
  BY NoKeysFacts DEF NoNewIds, AllIds
<1>4. QED BY <1>1, <1>2, <1>3

(* The save of a staged endpoint, and what takes it back.                   *)
LEMMA SaveStagedStep ==
  ASSUME RegInv, SaveStaged
  PROVE  RegInv' /\ NoNewIds
<1> DEFINE Back == [keys EXCEPT !.pending = old.pending, !.done = old.done, !.retiring = old.retiring]
<1>1. /\ sup = "staging" /\ Changing /\ ~Changing' /\ sup' # "loggedout"
      /\ UNCHANGED <<registered, cleanup, todo, unsure, turns>> /\ old' = NoKeys
      /\ sup' \in {"register", "prepare", "dial"}
      /\ \/ disk' \in {disk, keys} /\ UNCHANGED early
         \/ disk' = keys /\ early' = {t \in early : InUse(keys, t)}
  BY DEF SaveStaged, Settled, Saved, NotSaved, FallBack, Use, Changing
<1>2. keys \in Keys /\ disk \in Keys /\ old \in Keys
  BY DEF RegInv, RegistrationTypeOK
<1>3. disk' \in {disk, keys} /\ early' \subseteq early /\ NoKeys \in Keys
  BY <1>1, NoKeysFacts
<1>4. CASE keys' = keys
  <2>1. AllRemembered' /\ AllApart' /\ AllUsable' /\ NoNewIds
    BY <1>1, <1>3, <1>4, SettledKept
  <2>2. PlaceInv'
    BY <1>1, <1>2, <1>4, PushAssumption DEF SaveStaged, FallBack, Use, useVars, RegInv, PlaceInv, Keys
  <2>3. reg' \in Tokens \cup {NoToken} /\ fromPending' \in BOOLEAN /\ force' \in BOOLEAN
    BY <1>2 DEF SaveStaged, FallBack, Use, useVars, RegInv, RegistrationTypeOK, Keys
  <2>4. faults' \in 0..MaxFaults
    BY PushAssumption DEF SaveStaged, Settled, Saved, NotSaved, Fault, RegInv, RegistrationTypeOK
  <2>5. RegistrationTypeOK'
    BY <1>1, <1>3, <1>4, <2>3, <2>4 DEF RegInv, RegistrationTypeOK, cleanVars, Places
  <2>6. QED BY <2>1, <2>2, <2>5 DEF RegInv
<1>5. CASE keys' = Back /\ NotSaved /\ UNCHANGED early /\ FallBack(force)
  <2>1. /\ keys' \in Keys
        /\ keys'.active = keys.active /\ keys'.pending = old.pending /\ keys'.done = old.done
        /\ keys'.retiring = old.retiring /\ keys'.ids = keys.ids
    BY <1>2, <1>5 DEF Keys
  <2>2. keys.active = old.active
    BY <1>1 DEF RegInv, PlaceInv
  <2>3. AllRemembered' /\ AllApart' /\ AllUsable'
    BY <1>1, <1>3, <1>5, <2>1, <2>2 DEF RegInv, AllRemembered, AllApart, AllUsable, Remembered, Apart,
                                        Usable, Named
  <2>4. NoNewIds
    BY <1>1, <1>3, <2>1, NoKeysFacts DEF NoNewIds, AllIds
  <2>5. PlaceInv'
    BY <1>1, <1>2, <1>5, <2>1, PushAssumption DEF FallBack, Use, useVars, RegInv, PlaceInv, Keys
  <2>6. reg' \in Tokens \cup {NoToken} /\ fromPending' \in BOOLEAN /\ force' \in BOOLEAN
    BY <1>2, <1>5 DEF FallBack, Use, useVars, RegInv, RegistrationTypeOK, Keys
  <2>7. faults' \in 0..MaxFaults
    BY <1>5, PushAssumption DEF NotSaved, Fault, RegInv, RegistrationTypeOK
  <2>8. RegistrationTypeOK'
    BY <1>1, <1>3, <2>1, <2>6, <2>7 DEF RegInv, RegistrationTypeOK, cleanVars, Places
  <2>9. QED BY <1>1, <2>3, <2>4, <2>5, <2>8 DEF RegInv
<1>6. QED BY <1>4, <1>5 DEF SaveStaged

(* The registration of a staged endpoint with Tumblr.                       *)
LEMMA RegisterStep ==
  ASSUME RegInv, Register
  PROVE  RegInv' /\ NoNewIds
<1>1. /\ sup = "register" /\ sup' \in {"marking", "prepare", "dial"} /\ ~Changing'
      /\ UNCHANGED <<disk, old, cleanVars, turns>>
  BY DEF Register, FallBack, Use, Changing
<1>2. /\ keys \in Keys /\ keys.pending = reg /\ reg \in Tokens
  BY <1>1 DEF RegInv, RegistrationTypeOK, PlaceInv
<1>3. /\ keys' \in Keys
      /\ keys'.active = keys.active /\ keys'.pending = keys.pending
      /\ keys'.retiring = keys.retiring /\ keys'.ids = keys.ids
      /\ keys'.done = keys.done \/ (keys'.done /\ reg \in registered')
  <2>1. CASE UNCHANGED keys
    BY <1>2, <2>1
  <2>2. CASE registered' = registered \cup {reg} /\ keys' = [keys EXCEPT !.done = TRUE]
    BY <1>2, <2>2 DEF Keys
  <2>3. QED BY <2>1, <2>2 DEF Register
<1>4. \/ UNCHANGED <<registered, unsure>>
      \/ registered' = registered \cup {reg} /\ unsure' = unsure \cup {reg}
  BY DEF Register
<1>5. AllRemembered' /\ AllApart' /\ NoNewIds
  BY <1>1, <1>3, <1>4 DEF RegInv, AllRemembered, AllApart, Remembered, Apart, Named, NoNewIds, AllIds
<1>6. AllUsable'
  BY <1>1, <1>2, <1>3, <1>4 DEF RegInv, AllUsable, Usable, cleanVars
<1>7. PlaceInv'
  BY <1>2, PushAssumption DEF Register, FallBack, Use, useVars, PlaceInv, RegInv, Keys
<1>8. reg' \in Tokens \cup {NoToken} /\ fromPending' \in BOOLEAN /\ force' \in BOOLEAN
  BY <1>2 DEF Register, FallBack, Use, useVars, RegInv, RegistrationTypeOK, Keys
<1>9. faults' \in 0..MaxFaults
  BY PushAssumption DEF Register, Fault, RegInv, RegistrationTypeOK
<1>10. RegistrationTypeOK'
  BY <1>1, <1>2, <1>3, <1>4, <1>8, <1>9 DEF RegInv, RegistrationTypeOK, cleanVars, Places
<1>11. QED BY <1>5, <1>6, <1>7, <1>10 DEF RegInv

(* The save that marks it registered: from then on it is not unsure.        *)
LEMMA SaveMarkedStep ==
  ASSUME RegInv, SaveMarked
  PROVE  RegInv' /\ NoNewIds
<1>1. /\ sup = "marking" /\ sup' \in {"prepare", "dial"} /\ ~Changing'
      /\ UNCHANGED <<registered, old, cleanVars, turns>>
  BY DEF SaveMarked, FallBack, Use, Changing
<1>2. /\ keys \in Keys /\ disk \in Keys
      /\ keys.pending = reg /\ keys.done /\ reg \in Tokens /\ reg \in unsure
  BY <1>1 DEF RegInv, RegistrationTypeOK, PlaceInv
<1>3. CASE Saved /\ unsure' = unsure \ {reg} /\ Use(reg, TRUE) /\ UNCHANGED keys
  <2>1. AllRemembered' /\ AllApart' /\ AllUsable' /\ NoNewIds
    BY <1>1, <1>2, <1>3, PushAssumption
       DEF Saved, RegInv, AllRemembered, AllApart, AllUsable, Remembered, Apart, Usable, Named,
           cleanVars, NoNewIds, AllIds
  <2>2. PlaceInv'
    BY <1>2, <1>3 DEF Use, PlaceInv
  <2>3. RegistrationTypeOK'
    BY <1>1, <1>2, <1>3 DEF Saved, Use, RegInv, RegistrationTypeOK, cleanVars, Places
  <2>4. QED BY <2>1, <2>2, <2>3 DEF RegInv
<1>4. CASE NotSaved /\ UNCHANGED unsure /\ keys' = [keys EXCEPT !.done = FALSE] /\ FallBack(force)
  <2>1. /\ keys' \in Keys
        /\ keys'.active = keys.active /\ keys'.pending = keys.pending /\ ~keys'.done
        /\ keys'.retiring = keys.retiring /\ keys'.ids = keys.ids
    BY <1>2, <1>4 DEF Keys
  <2>2. disk' \in {disk, keys} /\ faults' \in 0..MaxFaults
    BY <1>4, PushAssumption DEF NotSaved, Fault, RegInv, RegistrationTypeOK
  <2>3. AllRemembered' /\ AllApart' /\ AllUsable' /\ NoNewIds
    BY <1>1, <1>2, <1>4, <2>1, <2>2
       DEF RegInv, AllRemembered, AllApart, AllUsable, Remembered, Apart, Usable, Named,
           cleanVars, NoNewIds, AllIds
  <2>4. PlaceInv'
    BY <1>2, <1>4, <2>1, PushAssumption DEF FallBack, Use, useVars, PlaceInv, RegInv, Keys
  <2>5. reg' \in Tokens \cup {NoToken} /\ fromPending' \in BOOLEAN /\ force' \in BOOLEAN
    BY <1>2, <1>4 DEF FallBack, Use, useVars, RegInv, RegistrationTypeOK, Keys
  <2>6. RegistrationTypeOK'
    BY <1>1, <1>2, <1>4, <2>1, <2>2, <2>5 DEF RegInv, RegistrationTypeOK, cleanVars, Places
  <2>7. QED BY <2>3, <2>4, <2>6 DEF RegInv
<1>5. QED BY <1>3, <1>4 DEF SaveMarked

(* The receiver that connected with a pending registration makes it the     *)
(* active one, in memory.                                                   *)
LEMMA PromoteStep ==
  ASSUME RegInv, Promote
  PROVE  RegInv' /\ NoNewIds
<1>1. /\ sup = "login" /\ fromPending /\ sup' = "promoting" /\ Changing' /\ old' = keys
      /\ UNCHANGED <<disk, registered, reg, fromPending, force, cleanVars, unsure, faults, turns>>
  BY DEF Promote, Changing
<1>2. keys \in Keys /\ keys.pending = reg /\ keys.done /\ reg \in Tokens
  BY <1>1 DEF RegInv, RegistrationTypeOK, PlaceInv
<1>3. /\ keys' \in Keys
      /\ keys'.active = reg /\ keys'.pending = NoToken /\ ~keys'.done
      /\ keys'.retiring = keys.retiring \cup ({keys.active} \ {NoToken, reg})
      /\ \A t \in Tokens : keys'.ids[t] \subseteq keys.ids[t]
  BY <1>2 DEF Promote, Promoted, Keys
<1>4. AllRemembered' /\ AllApart' /\ AllUsable' /\ NoNewIds
  <2>1. AllRemembered'
    BY <1>1, <1>2, <1>3 DEF RegInv, AllRemembered, Remembered, Named
  <2>2. AllApart'
    BY <1>1, <1>2, <1>3, PushAssumption DEF RegInv, AllApart, Apart, Keys
  <2>3. AllUsable'
    BY <1>1, <1>2, <1>3, PushAssumption DEF RegInv, AllUsable, Usable, cleanVars, RegistrationTypeOK
  <2>4. NoNewIds
    BY <1>1, <1>3 DEF NoNewIds, AllIds
  <2>5. QED BY <2>1, <2>2, <2>3, <2>4
<1>5. PlaceInv'
  BY <1>1, <1>2, <1>3 DEF PlaceInv
<1>6. RegistrationTypeOK'
  BY <1>1, <1>2, <1>3 DEF RegInv, RegistrationTypeOK, cleanVars, Places
<1>7. QED BY <1>4, <1>5, <1>6 DEF RegInv

(* The save of the promotion, and what takes it back.                       *)
LEMMA SavePromotedStep ==
  ASSUME RegInv, SavePromoted
  PROVE  RegInv' /\ NoNewIds
<1>1. /\ sup = "promoting" /\ Changing /\ ~Changing' /\ sup' \in {"login", "prepare"}
      /\ UNCHANGED <<registered, reg, force, cleanup, todo, unsure, turns>> /\ old' = NoKeys
      /\ fromPending' \in {fromPending, FALSE}
      /\ \/ disk' \in {disk, keys} /\ UNCHANGED early
         \/ disk' = keys /\ early' = {t \in early : InUse(keys, t)}
  BY DEF SavePromoted, Settled, Saved, NotSaved, Changing
<1>2. /\ keys \in Keys /\ disk \in Keys /\ old \in Keys /\ reg \in Tokens
      /\ keys.active = reg /\ keys.pending = NoToken /\ old.pending = reg /\ old.done
  BY <1>1 DEF RegInv, RegistrationTypeOK, PlaceInv
<1>3. CASE Settled /\ sup' = "login" /\ fromPending' = FALSE /\ UNCHANGED keys
  <2>1. AllRemembered' /\ AllApart' /\ AllUsable' /\ NoNewIds
    BY <1>1, <1>3, SettledKept
  <2>2. PlaceInv'
    BY <1>1, <1>2, <1>3 DEF PlaceInv
  <2>3. disk' \in Keys /\ early' \subseteq early /\ faults' = faults
    BY <1>2, <1>3 DEF Settled, Saved
  <2>4. RegistrationTypeOK'
    BY <1>1, <1>2, <1>3, <2>3, NoKeysFacts DEF RegInv, RegistrationTypeOK, Places
  <2>5. QED BY <2>1, <2>2, <2>4 DEF RegInv
<1>4. CASE NotSaved /\ UNCHANGED early /\ sup' = "prepare" /\ keys' = NotPromoted /\ UNCHANGED fromPending
  <2>1. keys' = [keys EXCEPT !.active = old.active, !.pending = reg, !.done = TRUE,
                             !.retiring = old.retiring, !.ids[reg] = old.ids[reg]]
    BY <1>2, <1>4 DEF NotPromoted
  <2>2. /\ keys' \in Keys
        /\ keys'.active = old.active /\ keys'.pending = old.pending
        /\ keys'.done = old.done /\ keys'.retiring = old.retiring
        /\ \A t \in Tokens : keys'.ids[t] \subseteq keys.ids[t] \cup old.ids[t]
    BY <1>2, <2>1 DEF Keys
  <2>3. disk' \in {disk, keys} /\ faults' \in 0..MaxFaults
    BY <1>4, PushAssumption DEF NotSaved, Fault, RegInv, RegistrationTypeOK
  <2>4. AllRemembered' /\ AllApart' /\ AllUsable'
    BY <1>1, <1>4, <2>2, <2>3 DEF RegInv, AllRemembered, AllApart, AllUsable, Remembered, Apart, Usable, Named
  <2>5. NoNewIds
    BY <1>1, <2>2, <2>3, NoKeysFacts DEF NoNewIds, AllIds
  <2>6. PlaceInv'
    BY <1>4 DEF PlaceInv
  <2>7. RegistrationTypeOK'
    BY <1>1, <1>2, <1>4, <2>2, <2>3, NoKeysFacts DEF RegInv, RegistrationTypeOK, Places
  <2>8. QED BY <2>4, <2>5, <2>6, <2>7 DEF RegInv
<1>5. QED BY <1>3, <1>4 DEF SavePromoted

-----------------------------------------------------------------------------
(* The cleanup and the logout. *)

(* The cleanup takes its list from the memory: what is neither in use nor   *)
(* early there is safe to unregister.                                       *)
LEMMA SnapshotStep ==
  ASSUME RegInv, Snapshot
  PROVE  RegInv' /\ NoNewIds
<1>1. UNCHANGED <<keys, disk, registered, sup, reg, fromPending, force, old, unsure, faults, turns>>
  BY DEF Snapshot, supVars, useVars
<1>2. /\ todo' = keys.retiring \ {keys.active}
      /\ early' = early \cup {t \in todo' : Unsaved(t)}
      /\ cleanup' \in {"off", "unregister"}
  BY DEF Snapshot
<1>3. AllRemembered' /\ AllApart' /\ NoNewIds
  BY <1>1 DEF RegInv, AllRemembered, AllApart, Remembered, Apart, Named, Changing, NoNewIds, AllIds
<1>4. AllUsable'
  <2>1. keys.active \notin todo' /\ keys.pending \notin todo'
    BY <1>2 DEF RegInv, AllApart, Apart
  <2>2. \A t \in todo' : InUse(disk, t) \/ (Changing /\ InUse(old, t)) => t \in early'
    BY <1>2 DEF Unsaved, Changing
  <2>3. QED BY <1>1, <1>2, <2>1, <2>2 DEF RegInv, AllUsable, Usable, InUse, Changing
<1>5. PlaceInv'
  BY <1>1 DEF RegInv, PlaceInv
<1>6. todo' \subseteq Tokens
  BY <1>2 DEF RegInv, RegistrationTypeOK, Keys
<1>7. RegistrationTypeOK'
  BY <1>1, <1>2, <1>6 DEF RegInv, RegistrationTypeOK
<1>8. QED BY <1>1, <1>3, <1>4, <1>5, <1>7 DEF RegInv

(* What it unregisters is not in use in any version of the keys, unless it  *)
(* was taken early.                                                         *)
LEMMA UnregisterStep ==
  ASSUME RegInv, sup # "leaving", NEW t \in Tokens, Unregister(t)
  PROVE  RegInv' /\ NoNewIds
<1>1. /\ UNCHANGED <<disk, sup, reg, fromPending, force, old, early, unsure, turns>>
      /\ t \in todo /\ todo' \subseteq todo /\ cleanup' \in {"off", "saving"}
      /\ registered' \in {registered, registered \ {t}}
  BY DEF Unregister, supVars, useVars
<1>2. keys \in Keys
  BY DEF RegInv, RegistrationTypeOK
<1>3. /\ keys' \in Keys
      /\ keys'.active = keys.active /\ keys'.pending = keys.pending /\ keys'.done = keys.done
      /\ keys'.ids = keys.ids
      /\ \/ keys'.retiring = keys.retiring
         \/ keys'.retiring = keys.retiring \ {t} /\ registered' = registered \ {t}
  BY <1>2 DEF Unregister, Keys
<1>4. AllRemembered' /\ AllApart' /\ NoNewIds
  BY <1>1, <1>3 DEF RegInv, AllRemembered, AllApart, Remembered, Apart, Named, Changing, NoNewIds, AllIds
<1>5. AllUsable'
  BY <1>1, <1>3 DEF RegInv, AllUsable, Usable, Changing
<1>6. PlaceInv'
  BY <1>1, <1>3 DEF RegInv, PlaceInv
<1>7. faults' \in 0..MaxFaults
  BY PushAssumption DEF Unregister, Fault, RegInv, RegistrationTypeOK
<1>8. RegistrationTypeOK'
  BY <1>1, <1>3, <1>7 DEF RegInv, RegistrationTypeOK
<1>9. QED BY <1>1, <1>4, <1>5, <1>6, <1>8 DEF RegInv

(* Its save writes the memory, a change of the supervisor included.         *)
LEMMA SaveCleanedStep ==
  ASSUME RegInv, SaveCleaned
  PROVE  RegInv' /\ NoNewIds
<1>1. /\ UNCHANGED <<keys, registered, sup, reg, fromPending, force, old, early, unsure, turns>>
      /\ todo' \subseteq todo /\ cleanup' \in {"off", "unregister"} /\ disk' \in {disk, keys}
  BY DEF SaveCleaned, Saved, NotSaved, supVars, useVars
<1>2. AllRemembered' /\ AllApart' /\ AllUsable' /\ NoNewIds
  BY <1>1 DEF RegInv, AllRemembered, AllApart, AllUsable, Remembered, Apart, Usable, Named, Changing,
              NoNewIds, AllIds
<1>3. PlaceInv'
  BY <1>1 DEF RegInv, PlaceInv
<1>4. faults' \in 0..MaxFaults
  BY PushAssumption DEF SaveCleaned, Saved, NotSaved, Fault, RegInv, RegistrationTypeOK
<1>5. RegistrationTypeOK'
  BY <1>1, <1>4 DEF RegInv, RegistrationTypeOK
<1>6. QED BY <1>1, <1>2, <1>3, <1>5 DEF RegInv

(* A logout lists the endpoints of the metadata that may be registered.     *)
LEMMA LogoutStep ==
  ASSUME RegInv, Logout
  PROVE  RegInv' /\ NoNewIds
<1>1. /\ sup = "off" /\ sup' = "leaving" /\ cleanup' = "logout" /\ ~Changing'
      /\ UNCHANGED <<keys, disk, registered, reg, fromPending, force, old, early, unsure, faults, turns>>
  BY DEF Logout, supVars, useVars, Changing
<1>2. AllRemembered' /\ AllApart' /\ AllUsable' /\ NoNewIds /\ PlaceInv'
  BY <1>1 DEF RegInv, AllRemembered, AllApart, AllUsable, Remembered, Apart, Usable, Named, NoNewIds,
              AllIds, PlaceInv
<1>3. todo' \subseteq Tokens
  BY DEF Logout, RegInv, RegistrationTypeOK, Keys
<1>4. RegistrationTypeOK'
  BY <1>1, <1>3 DEF RegInv, RegistrationTypeOK, Places
<1>5. QED BY <1>2, <1>4 DEF RegInv

(* It drops an endpoint from the metadata only when it was unregistered.    *)
LEMMA LogoutEndpointStep ==
  ASSUME RegInv, sup = "leaving", NEW t \in Tokens, LogoutEndpoint(t)
  PROVE  RegInv' /\ NoNewIds
<1>1. /\ UNCHANGED <<disk, sup, reg, fromPending, force, old, unsure, turns>>
      /\ todo' \subseteq todo /\ cleanup' \in {"logout", "dropping"} /\ ~Changing'
      /\ early' = early \cup (registered \ registered')
  BY DEF LogoutEndpoint, supVars, useVars, Changing
<1>2. keys \in Keys /\ disk \in Keys
  BY DEF RegInv, RegistrationTypeOK
<1>3. \/ registered' = registered \ {t} /\ keys' = Dropped(t)
      \/ registered' \in {registered, registered \ {t}} /\ UNCHANGED keys
  BY DEF LogoutEndpoint
<1>4. LET d == Dropped(t) IN
      /\ d \in Keys /\ d.ids = keys.ids
      /\ d.active = IF keys.active = t THEN NoToken ELSE keys.active
      /\ d.pending = IF keys.pending = t THEN NoToken ELSE keys.pending
      /\ d.done = (keys.done /\ keys.pending # t)
      /\ d.retiring = keys.retiring \ {t}
  BY <1>2 DEF Dropped, Keys
<1>5. AllRemembered' /\ NoNewIds /\ PlaceInv'
  BY <1>1, <1>3, <1>4 DEF RegInv, AllRemembered, Remembered, Named, NoNewIds, AllIds, PlaceInv
<1>6. AllApart'
  BY <1>1, <1>2, <1>3, <1>4, PushAssumption DEF RegInv, AllApart, Apart, Keys
<1>7. AllUsable'
  BY <1>1, <1>2, <1>3, <1>4, PushAssumption DEF RegInv, RegistrationTypeOK, AllUsable, Usable, Keys
<1>8. faults' \in 0..MaxFaults
  BY PushAssumption DEF LogoutEndpoint, Fault, RegInv, RegistrationTypeOK
<1>9. RegistrationTypeOK'
  BY <1>1, <1>2, <1>3, <1>4, <1>8 DEF RegInv, RegistrationTypeOK
<1>10. QED BY <1>5, <1>6, <1>7, <1>9 DEF RegInv

(* Its save writes the memory, or fails.                                    *)
LEMMA SaveDroppedStep ==
  ASSUME RegInv, sup = "leaving", SaveDropped
  PROVE  RegInv' /\ NoNewIds
<1>1. /\ UNCHANGED <<keys, registered, sup, reg, fromPending, force, old, todo, early, unsure, turns>>
      /\ disk' \in {disk, keys} /\ cleanup' = "logout" /\ ~Changing'
  BY DEF SaveDropped, Saved, NotSaved, supVars, useVars, Changing
<1>2. AllRemembered' /\ AllApart' /\ AllUsable' /\ NoNewIds /\ PlaceInv'
  BY <1>1 DEF RegInv, AllRemembered, AllApart, AllUsable, Remembered, Apart, Usable, Named, NoNewIds,
              AllIds, PlaceInv
<1>3. faults' \in 0..MaxFaults
  BY PushAssumption DEF SaveDropped, Saved, NotSaved, Fault, RegInv, RegistrationTypeOK
<1>4. RegistrationTypeOK'
  BY <1>1, <1>3 DEF RegInv, RegistrationTypeOK
<1>5. QED BY <1>2, <1>4 DEF RegInv

(* The login is deleted, with all that its metadata names.                  *)
LEMMA DeleteLoginStep ==
  ASSUME RegInv, DeleteLogin
  PROVE  RegInv' /\ NoNewIds
<1>1. /\ sup' = "loggedout" /\ cleanup' = "off" /\ keys' = NoKeys /\ disk' = NoKeys /\ ~Changing'
      /\ UNCHANGED <<registered, reg, fromPending, force, old, todo, early, unsure, faults, turns>>
      /\ todo = {}
  BY DEF DeleteLogin, supVars, useVars, Changing
<1>2. NoToken \notin registered
  BY PushAssumption DEF RegInv, RegistrationTypeOK
<1>3. AllRemembered' /\ AllApart' /\ AllUsable' /\ NoNewIds /\ PlaceInv'
  BY <1>1, <1>2, NoKeysFacts
     DEF AllRemembered, AllApart, AllUsable, Apart, Usable, NoNewIds, AllIds, PlaceInv
<1>4. RegistrationTypeOK'
  BY <1>1, NoKeysFacts DEF RegInv, RegistrationTypeOK, Places
<1>5. QED BY <1>3, <1>4 DEF RegInv

-----------------------------------------------------------------------------
(* The whole invariant, step by step. *)

(* The initial states satisfy it.                                           *)
LEMMA InitInv == Init => IInv
<1> SUFFICES ASSUME Init
             PROVE  IInv
  OBVIOUS
<1>1. /\ keys = NoKeys /\ disk = NoKeys /\ old = NoKeys
      /\ registered = {} /\ unsure = {} /\ todo = {} /\ early = {}
      /\ sup = "off" /\ reg = NoToken /\ fromPending = FALSE /\ force = FALSE
      /\ cleanup = "off" /\ faults = 0 /\ turns = 0
  BY DEF Init, RegistrationInit
<1>2. RegistrationTypeOK
  <2>1. 0 \in 0..MaxFaults /\ 0 \in 0..MaxTurns
    BY PushAssumption
  <2>2. QED BY <1>1, <2>1, NoKeysFacts DEF RegistrationTypeOK, Places
<1>3. RegInv
  BY <1>1, <1>2, NoKeysFacts, PushAssumption
     DEF RegInv, PlaceInv, AllRemembered, AllApart, AllUsable, Remembered, Apart, Usable, Changing
<1>4. PushTypeOK
  BY <1>2 DEF Init, PushTypeOK
<1>5. DurableInv
  BY <1>1, NoKeysFacts DEF Init, DurableInv, AckedIsDurable
<1>6. QED BY <1>1, <1>3, <1>4, <1>5 DEF IInv, Init

(* A step that leaves jobs, queues and the server alone, adds no ID and     *)
(* keeps the connection or ends it keeps what is durable.                   *)
LEMMA DurableKept ==
  ASSUME IInv, RegistrationTypeOK', NoNewIds, UNCHANGED msgVars,
         \/ NoLink /\ sup' # "storing"
         \/ UNCHANGED linkVars /\ (sup' # "storing" \/ sup = "storing")
  PROVE  PushTypeOK' /\ DurableInv'
<1>1. CASE NoLink /\ sup' # "storing"
  BY <1>1, ReceiverAssumption
     DEF IInv, NoLink, NoNewIds, AllIds, PushTypeOK, DurableInv, AckedIsDurable, msgVars
<1>2. CASE UNCHANGED linkVars /\ (sup' # "storing" \/ sup = "storing")
  BY <1>2 DEF IInv, NoNewIds, AllIds, PushTypeOK, DurableInv, AckedIsDurable, msgVars, linkVars
<1>3. QED BY <1>1, <1>2

(* The supervisor without the receiver. *)
LEMMA PrepareStep ==
  ASSUME IInv, Prepare
  PROVE  IInv'
<1>1. RegInv' /\ NoNewIds
  BY UseSteps, StageStep, SaveStagedStep, RegisterStep, SaveMarkedStep, PromoteStep, SavePromotedStep
     DEF Prepare, IInv
<1>2. /\ sup \notin {"leaving", "loggedout"} /\ sup' \notin {"off", "leaving", "loggedout", "storing"}
      /\ UNCHANGED cleanup /\ (sup' = "prepare" => reg' = reg)
  BY DEF Prepare, UsePending, UseActive, Stage, SaveStaged, Register, SaveMarked, Promote, SavePromoted,
         FallBack, Use, useVars, cleanVars
<1>3. UNCHANGED msgVars /\ (NoLink \/ UNCHANGED linkVars)
  BY DEF Prepare
<1>4. PushTypeOK' /\ DurableInv'
  BY <1>1, <1>2, <1>3, DurableKept DEF RegInv
<1>5. link' => reg' \in Tokens
  BY <1>1, <1>2, <1>3 DEF IInv, RegInv, PlaceInv, NoLink, linkVars
<1>6. QED BY <1>1, <1>2, <1>4, <1>5 DEF IInv

(* The cleanup. *)
LEMMA CleanStep ==
  ASSUME IInv, Clean
  PROVE  IInv'
<1>1. /\ UNCHANGED <<sup, reg, linkVars, msgVars>> /\ sup # "leaving"
      /\ cleanup' \notin {"logout", "dropping"}
  BY DEF Clean, Snapshot, SaveCleaned, Unregister, supVars, useVars, IInv
<1>2. RegInv' /\ NoNewIds
  BY <1>1, SnapshotStep, SaveCleanedStep, UnregisterStep DEF Clean, IInv
<1>3. PushTypeOK' /\ DurableInv'
  BY <1>1, <1>2, DurableKept DEF RegInv
<1>4. QED BY <1>1, <1>2, <1>3 DEF IInv, linkVars

(* The logout. *)
LEMMA DepartStep ==
  ASSUME IInv, Depart \/ Leave
  PROVE  IInv'
<1>1. CASE Depart
  <2>1. RegInv' /\ NoNewIds
    BY <1>1, LogoutStep DEF IInv, Depart
  <2>2. QED BY <1>1, <2>1, DurableKept DEF IInv, RegInv, Depart, Logout, linkVars, supVars, useVars
<1>2. CASE Leave
  <2>1. /\ sup = "leaving" /\ UNCHANGED <<reg, linkVars, msgVars>>
        /\ \/ sup' = "leaving" /\ cleanup' \in {"logout", "dropping"}
           \/ sup' = "loggedout" /\ cleanup' = "off"
    BY <1>2 DEF Leave, LogoutEndpoint, SaveDropped, DeleteLogin, IInv, supVars, useVars
  <2>2. RegInv' /\ NoNewIds
    BY <1>2, <2>1, LogoutEndpointStep, SaveDroppedStep, DeleteLoginStep DEF Leave, IInv
  <2>3. PushTypeOK' /\ DurableInv'
    BY <2>1, <2>2, DurableKept DEF RegInv
  <2>4. QED BY <2>1, <2>2, <2>3 DEF IInv, linkVars
<1>3. QED BY <1>1, <1>2

(* What the receiver does with the keys leaves the roles of the endpoints   *)
(* as they are, in memory or in the database; a crash falls back on the     *)
(* database.                                                                *)
SameRoles(k, l) ==
  k.active = l.active /\ k.pending = l.pending /\ k.done = l.done /\ k.retiring = l.retiring

LEMMA RolesKept ==
  ASSUME RegInv, sup # "loggedout", sup' \notin {"leaving", "loggedout"}, ~Changing',
         sup # "leaving" \/ todo' = {},
         SameRoles(keys', keys) \/ SameRoles(keys', disk),
         SameRoles(disk', keys) \/ SameRoles(disk', disk),
         UNCHANGED <<registered, unsure, early>>, todo' \subseteq todo
  PROVE  AllRemembered' /\ AllApart' /\ AllUsable'
BY DEF RegInv, AllRemembered, AllApart, AllUsable, Remembered, Apart, Usable, Named, SameRoles

(* Setting the stored IDs of one endpoint. *)
LEMMA IdsSet ==
  ASSUME NEW k \in Keys, NEW t \in Tokens, NEW S \in SUBSET Messages
  PROVE  LET l == [k EXCEPT !.ids[t] = S] IN
         /\ l \in Keys /\ SameRoles(l, k)
         /\ l.ids[t] = S /\ \A u \in Tokens \ {t} : l.ids[u] = k.ids[u]
BY DEF Keys, SameRoles

(* The receiver connects: the server forgets the IDs of the endpoint.       *)
LEMMA DialStep ==
  ASSUME IInv, Dial
  PROVE  IInv'
<1>1. /\ sup = "dial" /\ sup' \in {"login", "prepare"} /\ ~Changing'
      /\ UNCHANGED <<keys, disk, registered, reg, fromPending, force, old, cleanup, todo, early,
                     unsure, turns, sent, jobs, ignored, pinged>>
  BY DEF Dial, Changing, supVars, useVars, cleanVars
<1>2. AllRemembered' /\ AllApart' /\ AllUsable'
  BY <1>1, RolesKept DEF IInv, SameRoles
<1>3. PlaceInv'
  BY <1>1 DEF IInv, RegInv, PlaceInv
<1>4. faults' \in 0..MaxFaults
  BY PushAssumption DEF Dial, Fault, IInv, RegInv, RegistrationTypeOK
<1>5. RegistrationTypeOK'
  BY <1>1, <1>4 DEF IInv, RegInv, RegistrationTypeOK, Places
<1>6. reg \in Tokens /\ Stored \subseteq jobs \cup ignored /\ jobs \cup ignored \subseteq sent
  BY <1>1 DEF IInv, RegInv, PlaceInv, DurableInv, PushTypeOK, Stored
<1>7. PushTypeOK' /\ DurableInv'
  <2>1. CASE UNCHANGED <<linkVars, queue, acked>>
    BY <1>1, <1>5, <2>1 DEF IInv, PushTypeOK, DurableInv, AckedIsDurable, linkVars
  <2>2. CASE /\ link' = TRUE /\ position' = {} /\ unacked' = {} /\ cur' = NoMessage
             /\ ackEvent' = FALSE /\ Ack(Stored)
    <3>1. /\ acked' = acked \cup Stored
          /\ queue' = [queue EXCEPT ![reg] = @ \ Stored]
      BY <2>2 DEF Ack
    <3>2. queue' \in [Tokens -> SUBSET Messages] /\ \A t \in Tokens : queue'[t] \subseteq queue[t]
      BY <1>6, <3>1 DEF IInv, PushTypeOK
    <3>3. PushTypeOK'
      BY <1>1, <1>5, <1>6, <2>2, <3>1, <3>2 DEF IInv, PushTypeOK
    <3>4. DurableInv'
      BY <1>1, <1>6, <2>2, <3>1, <3>2 DEF IInv, DurableInv, AckedIsDurable
    <3>5. QED BY <3>3, <3>4
  <2>3. QED BY <2>1, <2>2 DEF Dial
<1>8. QED BY <1>1, <1>2, <1>3, <1>5, <1>6, <1>7 DEF IInv, RegInv

(* The receive loop hands over a message: its ID counts as received.        *)
LEMMA ReadStep ==
  ASSUME IInv, Read
  PROVE  IInv'
<1>1. UNCHANGED regVars /\ UNCHANGED <<link, sent, jobs, ignored, pinged>> /\ link /\ cur = NoMessage
  BY DEF Read, StreamAck, Receive, msgVars
<1>2. RegInv' /\ (cleanup' \in {"logout", "dropping"} <=> sup' = "leaving")
  BY <1>1 DEF IInv, RegInv, RegistrationTypeOK, PlaceInv, AllRemembered, AllApart, AllUsable,
              Remembered, Apart, Usable, Named, Changing, regVars, supVars, useVars, cleanVars
<1>3. CASE StreamAck
  <2>1. /\ acked' = acked \cup position /\ queue' = [queue EXCEPT ![reg] = @ \ position]
        /\ unacked' = {} /\ ackEvent' = TRUE /\ UNCHANGED <<position, cur>>
    BY <1>3 DEF StreamAck, Ack
  <2>2. queue' \in [Tokens -> SUBSET Messages] /\ \A t \in Tokens : queue'[t] \subseteq queue[t]
    BY <2>1 DEF IInv, PushTypeOK
  <2>3. position \subseteq jobs \cup ignored
    BY <1>1, ReceiverAssumption DEF IInv, DurableInv, PushTypeOK
  <2>4. PushTypeOK'
    BY <1>1, <1>2, <2>1, <2>2 DEF IInv, PushTypeOK, DurableInv, RegInv
  <2>5. DurableInv'
    BY <1>1, <2>1, <2>2, <2>3 DEF IInv, DurableInv, AckedIsDurable, regVars, supVars, useVars
  <2>6. QED BY <1>1, <1>2, <2>4, <2>5 DEF IInv, regVars, supVars, useVars
<1>4. ASSUME NEW m \in Messages, Receive(m)
      PROVE  IInv'
  <2>1. /\ cur' = m /\ position' = position \cup {m} /\ unacked' = unacked \cup {m}
        /\ m \in queue[reg] /\ UNCHANGED <<queue, acked, ackEvent>>
    BY <1>4 DEF Receive, msgVars
  <2>2. sup # "storing" /\ position \subseteq jobs \cup ignored
    BY <1>1, ReceiverAssumption DEF IInv, DurableInv, PushTypeOK
  <2>3. m \in sent
    BY <1>1, <2>1 DEF IInv, DurableInv
  <2>4. PushTypeOK'
    BY <1>1, <1>2, <2>1 DEF IInv, PushTypeOK, RegInv
  <2>5. DurableInv'
    BY <1>1, <2>1, <2>2, <2>3 DEF IInv, DurableInv, AckedIsDurable, regVars, supVars, useVars
  <2>6. QED BY <1>1, <1>2, <2>4, <2>5 DEF IInv, regVars, supVars, useVars
<1>5. QED BY <1>3, <1>4 DEF Read

(* Supervisor steps that set the IDs of its endpoint in memory, and keep a  *)
(* copy to go back to: the registration side of them.                       *)
LEMMA IdsSetStep ==
  ASSUME IInv, NEW S \in SUBSET Messages,
         keys' = [keys EXCEPT !.ids[reg] = S], old' = keys,
         sup \in {"login", "listen"}, ~fromPending \/ sup = "listen",
         sup' \in {"clearing", "cleared", "storing"},
         UNCHANGED <<disk, registered, reg, fromPending, force, cleanVars, unsure, turns>>,
         faults' \in 0..MaxFaults
  PROVE  /\ RegInv' /\ keys'.ids[reg] = S /\ reg \in Tokens
         /\ \A t \in Tokens \ {reg} : keys'.ids[t] = keys.ids[t]
<1>1. keys \in Keys /\ reg \in Tokens /\ sup # "loggedout" /\ ~Changing' /\ keys.active = reg
  BY DEF IInv, RegInv, RegistrationTypeOK, PlaceInv, Changing
<1>2. /\ keys' \in Keys /\ SameRoles(keys', keys) /\ keys'.ids[reg] = S
      /\ \A t \in Tokens \ {reg} : keys'.ids[t] = keys.ids[t]
  BY <1>1, IdsSet
<1>3. AllRemembered' /\ AllApart' /\ AllUsable'
  BY <1>1, <1>2, RolesKept DEF IInv, SameRoles, cleanVars
<1>4. PlaceInv'
  BY <1>1, <1>2 DEF PlaceInv, SameRoles
<1>5. RegistrationTypeOK'
  BY <1>1, <1>2 DEF IInv, RegInv, RegistrationTypeOK, cleanVars, Places
<1>6. QED BY <1>1, <1>2, <1>3, <1>4, <1>5 DEF RegInv

(* The saves that end such a change, or take it back.                       *)
LEMMA IdsSavedStep ==
  ASSUME IInv, sup \in {"clearing", "cleared", "storing"}, sup' = "listen",
         \/ Saved /\ UNCHANGED keys
         \/ NotSaved /\ keys' = [keys EXCEPT !.ids[reg] = old.ids[reg]],
         old' = NoKeys, UNCHANGED <<registered, useVars, todo, early, unsure, turns>>,
         cleanup' \in {cleanup, "start"}
  PROVE  RegInv' /\ NoNewIds
<1>1. keys \in Keys /\ old \in Keys /\ disk \in Keys /\ reg \in Tokens /\ ~Changing' /\ keys.active = reg
  BY DEF IInv, RegInv, RegistrationTypeOK, PlaceInv, Changing
<1>2. disk' \in {disk, keys}
  BY DEF Saved, NotSaved
<1>3. faults' \in 0..MaxFaults
  BY PushAssumption DEF Saved, NotSaved, Fault, IInv, RegInv, RegistrationTypeOK
<1>4. /\ keys' \in Keys /\ SameRoles(keys', keys)
      /\ \A t \in Tokens : keys'.ids[t] \subseteq keys.ids[t] \cup old.ids[t]
  <2>1. CASE UNCHANGED keys
    BY <1>1, <2>1 DEF SameRoles
  <2>2. CASE keys' = [keys EXCEPT !.ids[reg] = old.ids[reg]]
    <3>1. old.ids[reg] \in SUBSET Messages
      BY <1>1 DEF Keys
    <3>2. QED BY <1>1, <2>2, <3>1, IdsSet
  <2>3. QED BY <2>1, <2>2
<1>5. AllRemembered' /\ AllApart' /\ AllUsable'
  BY <1>1, <1>2, <1>4, RolesKept DEF IInv, SameRoles
<1>6. PlaceInv'
  BY <1>1, <1>4 DEF PlaceInv, SameRoles, supVars, useVars
<1>7. RegistrationTypeOK'
  BY <1>1, <1>2, <1>3, <1>4, NoKeysFacts DEF IInv, RegInv, RegistrationTypeOK, useVars, Places
<1>8. NoNewIds
  BY <1>2, <1>4, NoKeysFacts DEF NoNewIds, AllIds
<1>9. QED BY <1>5, <1>6, <1>7, <1>8 DEF RegInv

(* The IDs are cleared once the server has been told of them.               *)
LEMMA ClearStep ==
  ASSUME IInv, Connected \/ ClearOnAck
  PROVE  IInv'
<1>1. /\ keys' = [keys EXCEPT !.ids[reg] = {}] /\ old' = keys
      /\ sup \in {"login", "listen"} /\ (~fromPending \/ sup = "listen") /\ sup' \in {"clearing", "cleared"}
      /\ UNCHANGED <<disk, registered, reg, fromPending, force, cleanVars, unsure, faults, turns>>
      /\ UNCHANGED <<link, position, unacked, cur, msgVars>> /\ ackEvent' \in {ackEvent, FALSE}
  BY DEF Connected, ClearOnAck, linkVars
<1>2. faults' \in 0..MaxFaults /\ {} \in SUBSET Messages
  BY <1>1 DEF IInv, RegInv, RegistrationTypeOK
<1>3. /\ RegInv' /\ keys'.ids[reg] = {} /\ reg \in Tokens
      /\ \A t \in Tokens \ {reg} : keys'.ids[t] = keys.ids[t]
  BY <1>1, <1>2, IdsSetStep
<1>4. PushTypeOK'
  BY <1>1, <1>3 DEF IInv, PushTypeOK, RegInv, msgVars
<1>5. DurableInv'
  BY <1>1, <1>3 DEF IInv, DurableInv, AckedIsDurable, msgVars
<1>6. QED BY <1>1, <1>3, <1>4, <1>5 DEF IInv, cleanVars

(* A message gets its conversation job, and then its ID; a failure ends the *)
(* connection.                                                              *)
LEMMA HandleStep ==
  ASSUME IInv, Handle
  PROVE  IInv'
<1>1. /\ sup = "listen" /\ cur # NoMessage /\ cur \in Messages /\ cur \in sent
      /\ UNCHANGED <<disk, registered, reg, fromPending, force, cleanVars, unsure, turns,
                     queue, sent, acked, pinged>>
  BY DEF Handle, IInv, PushTypeOK, DurableInv
<1>2. keys \in Keys /\ reg \in Tokens
  BY <1>1 DEF IInv, RegInv, RegistrationTypeOK, PlaceInv
<1>3. CASE /\ HandlePayload
           /\ keys' = [keys EXCEPT !.ids[reg] = @ \cup {cur}] /\ old' = keys
           /\ sup' = "storing" /\ UNCHANGED <<linkVars, faults>>
  <2> DEFINE S == keys.ids[reg] \cup {cur}
  <2>1. S \in SUBSET Messages /\ faults' \in 0..MaxFaults
    BY <1>1, <1>2, <1>3 DEF IInv, RegInv, RegistrationTypeOK, Keys
  <2>2. keys' = [keys EXCEPT !.ids[reg] = S]
    BY <1>3
  <2>3. /\ RegInv' /\ keys'.ids[reg] = S
        /\ \A t \in Tokens \ {reg} : keys'.ids[t] = keys.ids[t]
    BY <1>1, <1>3, <2>1, <2>2, IdsSetStep
  <2>4. /\ jobs \cup ignored \cup {cur} = jobs' \cup ignored'
        /\ jobs' \subseteq sent /\ ignored' \subseteq sent
    BY <1>1, <1>3 DEF HandlePayload, IInv, PushTypeOK
  <2>5. PushTypeOK'
    BY <1>1, <1>3, <2>3, <2>4 DEF IInv, PushTypeOK, RegInv, linkVars
  <2>6. DurableInv'
    BY <1>1, <1>2, <1>3, <2>3, <2>4 DEF IInv, DurableInv, AckedIsDurable, linkVars
  <2>7. QED BY <1>1, <1>2, <1>3, <2>3, <2>5, <2>6 DEF IInv, cleanVars
<1>4. CASE Hangup /\ cur' = NoMessage /\ Fault /\ UNCHANGED <<keys, old, sup, jobs, ignored>>
  <2>1. ~Changing' /\ sup # "loggedout" /\ SameRoles(keys', keys) /\ SameRoles(disk', disk)
    BY <1>1, <1>4 DEF Changing, SameRoles
  <2>2. AllRemembered' /\ AllApart' /\ AllUsable'
    BY <1>1, <1>4, <2>1, RolesKept DEF IInv, cleanVars
  <2>3. faults' \in 0..MaxFaults
    BY <1>4, PushAssumption DEF Fault, IInv, RegInv, RegistrationTypeOK
  <2>4. RegInv'
    BY <1>1, <1>4, <2>2, <2>3 DEF IInv, RegInv, RegistrationTypeOK, PlaceInv, cleanVars
  <2>5. PushTypeOK' /\ DurableInv'
    BY <1>1, <1>4, <2>4 DEF IInv, PushTypeOK, RegInv, DurableInv, AckedIsDurable, Hangup
  <2>6. QED BY <1>1, <1>4, <2>4, <2>5 DEF IInv, cleanVars, Hangup
<1>5. QED BY <1>3, <1>4 DEF Handle

(* The saves of the receiver. *)
LEMMA ReceiverSaveStep ==
  ASSUME IInv, SaveConnected \/ SaveCleared \/ SaveHandled
  PROVE  IInv'
<1>1. /\ sup \in {"clearing", "cleared", "storing"} /\ sup' = "listen"
      /\ \/ Saved /\ UNCHANGED keys
         \/ NotSaved /\ keys' = [keys EXCEPT !.ids[reg] = old.ids[reg]]
      /\ old' = NoKeys /\ UNCHANGED <<registered, useVars, todo, early, unsure, turns, msgVars>>
      /\ cleanup' \in {cleanup, "start"}
  BY DEF SaveConnected, SaveCleared, SaveHandled, Cleared, StartCleanup, cleanVars
<1>2. RegInv' /\ NoNewIds
  BY <1>1, IdsSavedStep
<1>3. CASE SaveConnected \/ SaveCleared
  <2>1. UNCHANGED linkVars
    BY <1>3 DEF SaveConnected, SaveCleared
  <2>2. PushTypeOK' /\ DurableInv'
    BY <1>1, <1>2, <2>1, DurableKept DEF RegInv
  <2>3. QED BY <1>1, <1>2, <2>1, <2>2 DEF IInv, linkVars, supVars, useVars
<1>4. CASE SaveHandled
  <2>1. /\ sup = "storing" /\ cur' = NoMessage /\ link' \in {link, FALSE}
        /\ UNCHANGED <<position, unacked, ackEvent>>
    BY <1>4 DEF SaveHandled, Hangup
  <2>2. cur \in jobs \cup ignored /\ (link => position \subseteq jobs \cup ignored)
    BY <2>1 DEF IInv, DurableInv
  <2>3. PushTypeOK'
    BY <1>1, <1>2, <2>1 DEF IInv, PushTypeOK, RegInv, msgVars
  <2>4. DurableInv'
    <3>1. \A t \in Tokens : AllIds(t)' \subseteq jobs' \cup ignored'
      BY <1>1, <1>2 DEF IInv, DurableInv, NoNewIds, AllIds, msgVars
    <3>2. link' => position' \subseteq jobs' \cup ignored' \cup {cur'}
      BY <1>1, <2>1, <2>2 DEF msgVars
    <3>3. QED BY <1>1, <2>1, <3>1, <3>2 DEF IInv, DurableInv, AckedIsDurable, AllIds, msgVars
  <2>5. QED BY <1>1, <1>2, <2>1, <2>3, <2>4 DEF IInv, supVars, useVars, PushTypeOK
<1>5. QED BY <1>3, <1>4

(* The steps that move the supervisor only, or start and end a generation.  *)
LEMMA MoveStep ==
  ASSUME IInv, Retry \/ Rotate \/ Start \/ Stop \/ Crash
  PROVE  IInv'
<1>1. /\ sup # "loggedout" /\ sup' \in {"prepare", "off"} /\ ~Changing'
      /\ UNCHANGED <<disk, registered, reg, fromPending, early, unsure, faults, msgVars>>
      /\ force' \in BOOLEAN /\ keys' \in {keys, disk} /\ old' \in {old, NoKeys}
      /\ todo' \in {todo, {}} /\ cleanup' \in {cleanup, "off"} /\ (NoLink \/ UNCHANGED linkVars)
      /\ sup = "leaving" => todo' = {} /\ cleanup' = "off"
  BY DEF Retry, Rotate, Start, Stop, Crash, Changing, supVars, useVars, cleanVars, IInv, RegInv,
         RegistrationTypeOK
<1>2. AllRemembered' /\ AllApart' /\ AllUsable'
  BY <1>1, RolesKept DEF IInv, SameRoles
<1>3. turns' \in 0..MaxTurns
  BY PushAssumption DEF Retry, Rotate, Start, Stop, Crash, TurnTaken, IInv, RegInv, RegistrationTypeOK
<1>4. RegistrationTypeOK'
  BY <1>1, <1>3, NoKeysFacts DEF IInv, RegInv, RegistrationTypeOK, Places
<1>5. PlaceInv' /\ NoNewIds
  BY <1>1, NoKeysFacts DEF PlaceInv, NoNewIds, AllIds
<1>6. PushTypeOK' /\ DurableInv'
  BY <1>1, <1>4, <1>5, DurableKept
<1>7. cleanup' \notin {"logout", "dropping"} /\ sup' # "leaving"
  BY <1>1 DEF IInv
<1>8. QED BY <1>1, <1>2, <1>4, <1>5, <1>6, <1>7 DEF IInv, RegInv, NoLink, linkVars

(* The steps that change no registration: a heartbeat, which may be ahead   *)
(* of the message that is handled, and what Tumblr sends.                   *)
LEMMA StreamStep ==
  ASSUME IInv, Heartbeat \/ \E m \in Messages : Send(m)
  PROVE  IInv'
<1>1. UNCHANGED <<regVars, linkVars, jobs, ignored>>
  BY DEF Heartbeat, Send
<1>2. RegInv' /\ (cleanup' \in {"logout", "dropping"} <=> sup' = "leaving") /\ (link' => reg' \in Tokens)
  BY <1>1 DEF IInv, RegInv, RegistrationTypeOK, PlaceInv, AllRemembered, AllApart, AllUsable,
              Remembered, Apart, Usable, Named, Changing, regVars, supVars, useVars, cleanVars, linkVars
<1>3. CASE Heartbeat
  <2>1. /\ link /\ acked' = acked \cup position /\ queue' = [queue EXCEPT ![reg] = @ \ position]
        /\ pinged' = pinged \cup ({cur} \ (jobs \cup ignored \cup {NoMessage})) /\ UNCHANGED sent
    BY <1>3 DEF Heartbeat, Ack
  <2>2. queue' \in [Tokens -> SUBSET Messages] /\ \A t \in Tokens : queue'[t] \subseteq queue[t]
    BY <2>1 DEF IInv, PushTypeOK
  <2>3. /\ position \subseteq jobs \cup ignored \cup {cur}
        /\ cur \in position \cup {NoMessage} /\ NoMessage \notin position
    BY <2>1, ReceiverAssumption DEF IInv, DurableInv, PushTypeOK
  <2>4. PushTypeOK'
    BY <1>1, <1>2, <2>1, <2>2, <2>3 DEF IInv, PushTypeOK, DurableInv, RegInv, linkVars
  <2>5. DurableInv'
    BY <1>1, <2>1, <2>2, <2>3 DEF IInv, DurableInv, AckedIsDurable, regVars, supVars, useVars, linkVars
  <2>6. QED BY <1>2, <2>4, <2>5 DEF IInv
<1>4. ASSUME NEW m \in Messages, Send(m)
      PROVE  IInv'
  <2>1. /\ sent' = sent \cup {m} /\ UNCHANGED <<acked, pinged>>
        /\ queue' = [t \in Tokens |-> queue[t] \cup (IF t \in registered THEN {m} ELSE {})]
    BY <1>4 DEF Send
  <2>2. PushTypeOK'
    BY <1>1, <1>2, <2>1 DEF IInv, PushTypeOK, RegInv, linkVars
  <2>3. DurableInv'
    BY <1>1, <2>1 DEF IInv, DurableInv, AckedIsDurable, regVars, supVars, useVars, linkVars
  <2>4. QED BY <1>2, <2>2, <2>3 DEF IInv
<1>5. QED BY <1>3, <1>4

(* The connection is lost under the receive loop.                           *)
LEMMA LoseStep ==
  ASSUME IInv, Lose
  PROVE  IInv'
<1>1. /\ UNCHANGED <<keys, disk, registered, sup, supVars, cleanVars, unsure, turns, cur, msgVars>>
      /\ link' = FALSE /\ UNCHANGED <<position, unacked, ackEvent>>
  BY DEF Lose, Hangup
<1>2. faults' \in 0..MaxFaults
  BY PushAssumption DEF Lose, Fault, IInv, RegInv, RegistrationTypeOK
<1>3. RegInv'
  BY <1>1, <1>2 DEF IInv, RegInv, RegistrationTypeOK, PlaceInv, AllRemembered, AllApart, AllUsable,
                    Remembered, Apart, Usable, Named, Changing, supVars, useVars, cleanVars
<1>4. PushTypeOK' /\ DurableInv'
  BY <1>1, <1>3 DEF IInv, RegInv, PushTypeOK, DurableInv, AckedIsDurable, supVars, useVars, msgVars
<1>5. QED BY <1>1, <1>3, <1>4 DEF IInv, cleanVars

-----------------------------------------------------------------------------
(* The theorems. *)

(* The invariant is inductive. *)
THEOREM Invariance == Spec => []IInv
<1>1. IInv /\ [Next]_vars => IInv'
  <2> SUFFICES ASSUME IInv, [Next]_vars
                 PROVE  IInv'
    OBVIOUS
  <2>2. CASE Next
    <3>1. CASE Listen
      BY <3>1, DialStep, ClearStep, HandleStep, ReceiverSaveStep, MoveStep DEF Listen
    <3>2. QED
      BY <2>2, <3>1, PrepareStep, CleanStep, DepartStep, ReadStep, StreamStep, LoseStep, MoveStep DEF Next
  <2>3. CASE UNCHANGED vars
    BY <2>3 DEF IInv, RegInv, RegistrationTypeOK, PlaceInv, AllRemembered, AllApart, AllUsable,
                Remembered, Apart, Usable, Named, Changing, PushTypeOK, DurableInv, AckedIsDurable,
                vars, regVars, supVars, useVars, cleanVars, linkVars, msgVars
  <2>4. QED BY <2>2, <2>3
<1>2. QED BY <1>1, InitInv, PTL DEF Spec

(* Every variable has its type. *)
THEOREM TypeCorrect == Spec => []PushTypeOK
<1>1. IInv => PushTypeOK
  BY DEF IInv
<1>2. QED BY <1>1, Invariance, PTL

(* No rollback, crash, cleanup or unfinished logout makes the metadata      *)
(* forget an endpoint that Tumblr sends to, as long as the login is there,  *)
(* but for one whose registration was never saved.                          *)
THEOREM EndpointsRemembered == Spec => []NoForgottenEndpoint
<1>1. IInv => NoForgottenEndpoint
  BY DEF IInv, RegInv, AllRemembered, Remembered, NoForgottenEndpoint
<1>2. QED BY <1>1, Invariance, PTL

(* The receiver's endpoint is registered, unless the cleanup took it before *)
(* its retirement was saved, or a logout that did not come to its end had   *)
(* it unregistered.                                                         *)
THEOREM ListenerRegistered == Spec => []ListenedIsRegistered
<1>1. IInv => ListenedIsRegistered
  BY PushAssumption DEF IInv, RegInv, PlaceInv, AllUsable, Usable, ListenedIsRegistered
<1>2. QED BY <1>1, Invariance, PTL

(* What the server was told of is durable, or was found to say nothing to   *)
(* this login, but for what a heartbeat told it while it was handled.       *)
THEOREM AcknowledgedDurable == Spec => []AckedIsDurable
<1>1. IInv => AckedIsDurable
  BY DEF IInv, DurableInv
<1>2. QED BY <1>1, Invariance, PTL
=============================================================================
