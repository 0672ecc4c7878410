--------------------------------- MODULE Push ---------------------------------
(***************************************************************************)
(* The push receiver on top of the registrations: Google's server keeps    *)
(* what Tumblr sends to an endpoint until the receiver has acknowledged    *)
(* it, by the persistent IDs of a login, or by its position in the stream. *)
(*                                                                         *)
(* The receive loop hands one message at a time to the supervisor and      *)
(* waits until it is handled: a durable conversation job, then its ID in   *)
(* the metadata.  The heartbeat of the connection runs beside it.          *)
(***************************************************************************)
EXTENDS PushRegistration

CONSTANTS
  NoMessage,
  MaxUnacked   \* messages received before the stream is acknowledged

ASSUME ReceiverAssumption == NoMessage \notin Messages /\ MaxUnacked \in Nat \ {0}

VARIABLES
  queue,      \* endpoint -> messages the server has for it
  sent,       \* messages Tumblr has sent
  link,       \* the connection is up
  position,   \* messages received over this connection
  unacked,    \* receivedPersistentID
  cur,        \* the message the receive loop waits for
  ackEvent,   \* a StreamAck event waits for the supervisor
  jobs,       \* messages whose conversation job is in the database
  ignored,    \* messages that turned out to say nothing to this login
  acked,      \* history: messages acknowledged to the server
  pinged      \* history: those that a heartbeat acknowledged while handled

linkVars == <<link, position, unacked, cur, ackEvent>>
msgVars  == <<queue, sent, jobs, ignored, acked, pinged>>
vars     == <<regVars, linkVars, msgVars>>

PushTypeOK ==
  /\ RegistrationTypeOK
  /\ queue \in [Tokens -> SUBSET Messages] /\ sent \subseteq Messages
  /\ link \in BOOLEAN /\ position \subseteq Messages /\ unacked \subseteq position
  /\ cur \in Messages \cup {NoMessage} /\ ackEvent \in BOOLEAN
  /\ jobs \subseteq sent /\ ignored \subseteq sent /\ acked \subseteq sent /\ pinged \subseteq acked

Init ==
  /\ RegistrationInit
  /\ queue = [t \in Tokens |-> {}] /\ sent = {}
  /\ link = FALSE /\ position = {} /\ unacked = {} /\ cur = NoMessage /\ ackEvent = FALSE
  /\ jobs = {} /\ ignored = {} /\ acked = {} /\ pinged = {}

NoLink == link' = FALSE /\ position' = {} /\ unacked' = {} /\ cur' = NoMessage /\ ackEvent' = FALSE
Hangup == link' = FALSE /\ UNCHANGED <<position, unacked, ackEvent>>

(* The server forgets what is acknowledged. *)
Ack(S) == queue' = [queue EXCEPT ![reg] = @ \ S] /\ acked' = acked \cup S

-----------------------------------------------------------------------------
(* tryToConnect and readMessages *)

(* The persistent IDs of the registration it connects with: a pending one   *)
(* has none yet, whatever the active one of the same endpoint has.          *)
Stored == IF fromPending THEN {} ELSE keys.ids[reg]

(* Mutant: the received IDs of the last connection are kept. *)
DialAgain ==
  /\ sup = "dial" /\ sup' = "login" /\ link' = TRUE
  /\ position' = {} /\ cur' = NoMessage /\ ackEvent' = FALSE
  /\ Ack(Stored)
  /\ UNCHANGED <<keys, disk, registered, supVars, cleanVars, unsure, faults, turns,
                 unacked, sent, jobs, ignored, pinged>>

Dial ==
  /\ sup = "dial"
  /\ \/ /\ sup' = "login" /\ link' = TRUE
        /\ position' = {} /\ unacked' = {} /\ cur' = NoMessage /\ ackEvent' = FALSE
        /\ Ack(Stored)
        /\ UNCHANGED faults
     \/ sup' = "prepare" /\ Fault /\ UNCHANGED <<linkVars, queue, acked>>
  /\ UNCHANGED <<keys, disk, registered, supVars, cleanVars, unsure, turns,
                 sent, jobs, ignored, pinged>>

(* The ID counts as received before the message is handled. *)
Receive(m) ==
  /\ link /\ cur = NoMessage /\ Cardinality(unacked) < MaxUnacked
  /\ m \in queue[reg] \ position
  /\ cur' = m /\ position' = position \cup {m} /\ unacked' = unacked \cup {m}
  /\ UNCHANGED <<regVars, link, ackEvent, msgVars>>

StreamAck ==
  /\ link /\ cur = NoMessage /\ Cardinality(unacked) >= MaxUnacked
  /\ Ack(position) /\ unacked' = {} /\ ackEvent' = TRUE
  /\ UNCHANGED <<regVars, link, position, cur, sent, jobs, ignored, pinged>>

(* A ping, or the answer to one, says how far the stream was read. *)
Heartbeat ==
  /\ link /\ ~(position \cap queue[reg] \subseteq acked)
  /\ Ack(position)
  /\ pinged' = pinged \cup ({cur} \ (jobs \cup ignored \cup {NoMessage}))
  /\ UNCHANGED <<regVars, linkVars, sent, jobs, ignored>>

Lose ==
  /\ link /\ Fault /\ Hangup
  /\ UNCHANGED <<keys, disk, registered, sup, supVars, cleanVars, unsure, turns, cur, msgVars>>

-----------------------------------------------------------------------------
(* runPushReceiver *)

(* The ConnectedEvent of a registration that is active, or has just been    *)
(* promoted.                                                                *)
Connected ==
  /\ sup = "login" /\ ~fromPending
  /\ keys' = [keys EXCEPT !.ids[reg] = {}] /\ old' = keys
  /\ sup' = "clearing"
  /\ UNCHANGED <<disk, registered, reg, fromPending, force, cleanVars, unsure, faults, turns, linkVars, msgVars>>

(* clearPushPersistentIDs *)
Cleared ==
  /\ \/ Saved /\ UNCHANGED keys
     \/ NotSaved /\ keys' = [keys EXCEPT !.ids[reg] = old.ids[reg]]
  /\ old' = NoKeys

SaveConnected ==
  /\ sup = "clearing" /\ Cleared /\ sup' = "listen"
  /\ StartCleanup
  /\ UNCHANGED <<registered, useVars, todo, early, unsure, turns, linkVars, msgVars>>

ClearOnAck ==
  /\ sup = "listen" /\ ackEvent /\ ackEvent' = FALSE
  /\ keys' = [keys EXCEPT !.ids[reg] = {}] /\ old' = keys
  /\ sup' = "cleared"
  /\ UNCHANGED <<disk, registered, reg, fromPending, force, cleanVars, unsure, faults, turns,
                 link, position, unacked, cur, msgVars>>

SaveCleared ==
  /\ sup = "cleared" /\ Cleared /\ sup' = "listen"
  /\ UNCHANGED <<registered, useVars, cleanVars, unsure, turns, linkVars, msgVars>>

(* handleWebPushPayload succeeds in one of two ways, the same for a message *)
(* that comes again: its conversation is queued, or it is ignored, for it   *)
(* has no data or no conversation, is not to be read with the keys of this  *)
(* login, or goes to another blog.                                          *)
HandlePayload ==
  \/ cur \notin ignored /\ jobs' = jobs \cup {cur} /\ UNCHANGED ignored
  \/ cur \notin jobs /\ ignored' = ignored \cup {cur} /\ UNCHANGED jobs

(* Mutant: the ID is saved whatever became of the message. *)
HandleOrSkip ==
  /\ sup = "listen" /\ cur # NoMessage /\ ~ackEvent
  /\ \/ HandlePayload /\ UNCHANGED faults
     \/ Fault /\ UNCHANGED <<jobs, ignored>>
  /\ keys' = [keys EXCEPT !.ids[reg] = @ \cup {cur}] /\ old' = keys
  /\ sup' = "storing"
  /\ UNCHANGED <<disk, registered, reg, fromPending, force, cleanVars, unsure, turns,
                 linkVars, queue, sent, acked, pinged>>

(* Mutant: the connection goes on after a failure. *)
HandleAndGoOn ==
  /\ sup = "listen" /\ cur # NoMessage /\ ~ackEvent
  /\ \/ /\ HandlePayload
        /\ keys' = [keys EXCEPT !.ids[reg] = @ \cup {cur}] /\ old' = keys
        /\ sup' = "storing"
        /\ UNCHANGED <<linkVars, faults>>
     \/ /\ cur' = NoMessage /\ Fault
        /\ UNCHANGED <<link, position, unacked, ackEvent, keys, old, sup, jobs, ignored>>
  /\ UNCHANGED <<disk, registered, reg, fromPending, force, cleanVars, unsure, turns,
                 queue, sent, acked, pinged>>

(* handlePushReceiverMessage: a failure ends the connection.                *)
Handle ==
  /\ sup = "listen" /\ cur # NoMessage /\ ~ackEvent
  /\ \/ /\ HandlePayload
        /\ keys' = [keys EXCEPT !.ids[reg] = @ \cup {cur}] /\ old' = keys
        /\ sup' = "storing"
        /\ UNCHANGED <<linkVars, faults>>
     \/ Hangup /\ cur' = NoMessage /\ Fault /\ UNCHANGED <<keys, old, sup, jobs, ignored>>
  /\ UNCHANGED <<disk, registered, reg, fromPending, force, cleanVars, unsure, turns,
                 queue, sent, acked, pinged>>

(* savePushPersistentID *)
SaveHandled ==
  /\ sup = "storing" /\ sup' = "listen" /\ cur' = NoMessage
  /\ \/ Saved /\ UNCHANGED <<keys, link, position, unacked, ackEvent>>
     \/ NotSaved /\ keys' = [keys EXCEPT !.ids[reg] = old.ids[reg]] /\ Hangup
  /\ old' = NoKeys
  /\ UNCHANGED <<registered, useVars, cleanVars, unsure, turns, msgVars>>

(* The events of a connection that has ended are handled first. *)
Retry ==
  /\ sup = "listen" /\ ~link /\ cur = NoMessage /\ ~ackEvent
  /\ sup' = "prepare"
  /\ UNCHANGED <<keys, disk, registered, supVars, cleanVars, unsure, faults, turns, linkVars, msgVars>>

(* The registration is due, or Google refuses its credentials.              *)
Rotate ==
  /\ sup \in {"dial", "listen"} /\ TurnTaken
  /\ sup' = "prepare" /\ force' = TRUE /\ NoLink
  /\ UNCHANGED <<keys, disk, registered, reg, fromPending, old, cleanVars, unsure, faults, msgVars>>

-----------------------------------------------------------------------------
(* The generation, the process and Tumblr. *)

Start ==
  /\ sup = "off" /\ cleanup = "off"
  /\ sup' = "prepare" /\ force' = FALSE
  /\ UNCHANGED <<keys, disk, registered, reg, fromPending, old, cleanVars, unsure, faults, turns, linkVars, msgVars>>

(* A save that is under way ends first. *)
Stop ==
  /\ sup \in {"prepare", "register", "dial", "login", "listen"} /\ cleanup # "saving"
  /\ TurnTaken
  /\ sup' = "off" /\ cleanup' = "off" /\ todo' = {} /\ NoLink
  /\ UNCHANGED <<keys, disk, registered, supVars, early, unsure, faults, msgVars>>

(* Also in a logout, as long as the login is there. *)
Crash ==
  /\ sup # "loggedout" /\ TurnTaken
  /\ keys' = disk /\ old' = NoKeys
  /\ sup' = "off" /\ cleanup' = "off" /\ todo' = {} /\ NoLink
  /\ UNCHANGED <<disk, registered, useVars, early, unsure, faults, msgVars>>

Send(m) ==
  /\ m \notin sent /\ registered # {} /\ sent' = sent \cup {m}
  /\ queue' = [t \in Tokens |-> queue[t] \cup (IF t \in registered THEN {m} ELSE {})]
  /\ UNCHANGED <<regVars, linkVars, jobs, ignored, acked, pinged>>

Prepare == /\ UsePending \/ UseActive \/ Stage \/ SaveStaged \/ Register \/ SaveMarked
              \/ Promote \/ SavePromoted
           /\ IF sup = "promoting" /\ sup' = "prepare" THEN NoLink ELSE UNCHANGED linkVars
           /\ UNCHANGED msgVars
Clean   == /\ Snapshot \/ SaveCleaned \/ (\E t \in Tokens : Unregister(t))
           /\ UNCHANGED <<linkVars, msgVars>>
Depart  == Logout /\ UNCHANGED <<linkVars, msgVars>>
Leave   == /\ SaveDropped \/ DeleteLogin \/ (\E t \in Tokens : LogoutEndpoint(t))
           /\ UNCHANGED <<linkVars, msgVars>>
Listen  == Dial \/ Connected \/ SaveConnected \/ ClearOnAck \/ SaveCleared \/ Handle \/ SaveHandled \/ Retry
Read    == StreamAck \/ (\E m \in Messages : Receive(m))

Next == \/ Prepare \/ Clean \/ Depart \/ Leave \/ Listen \/ Read \/ Heartbeat \/ Lose
        \/ Rotate \/ Start \/ Stop \/ Crash
        \/ \E m \in Messages : Send(m)

Spec == Init /\ [][Next]_vars

(* The goroutines of a generation go on, and so does a logout once asked    *)
(* for; a process that stopped starts again.                                *)
Fairness == /\ WF_vars(Prepare) /\ WF_vars(Clean) /\ WF_vars(Leave)
            /\ WF_vars(Listen) /\ WF_vars(Read) /\ WF_vars(Start)

FairSpec == Spec /\ Fairness

-----------------------------------------------------------------------------
(* What the push connection promises. *)

(* An endpoint that Tumblr sends to is named by the metadata, in memory and *)
(* in the database, so that somebody will unregister it, whatever was       *)
(* rolled back, and however far a logout came before it was cut short, as   *)
(* long as the login is there; but for one whose registration was never     *)
(* saved.                                                                   *)
NoForgottenEndpoint ==
  sup # "loggedout" => registered \subseteq (Named(keys) \cap Named(disk)) \cup unsure

(* Nobody listens on an endpoint that Tumblr does not send to, but for one  *)
(* that the cleanup took before its retirement was saved, or a logout       *)
(* unregistered before the login was gone: a failed save or a crash makes   *)
(* it the pending or the active one again.                                  *)
ListenedIsRegistered ==
  sup \in {"clearing", "cleared", "listen", "storing"} => reg \in registered \cup early

(* "keeps remote acknowledgements behind durable processing" (api.go): what *)
(* the server has forgotten has its conversation job, unless it says        *)
(* nothing to this login, but for a message that a heartbeat acknowledged   *)
(* while it was handled.                                                    *)
AckedIsDurable == acked \subseteq jobs \cup ignored \cup pinged

(* What Tumblr has sent to the active endpoint gets its conversation job,   *)
(* or turns out to say nothing to this login, whatever fails on the way,    *)
(* unless the endpoint is replaced first or the login logs out: it neither  *)
(* waits there for ever nor is forgotten.                                   *)
Due(m) ==
  keys.active # NoToken /\ m \in (queue[keys.active] \cup acked) \ (jobs \cup ignored \cup pinged)

EveryMessageHandled ==
  \A m \in Messages : Due(m) ~> (~Due(m) \/ sup = "loggedout")

(* Once nothing fails any more, a connection unregisters every endpoint     *)
(* that retires, unless its generation ends; the cleanup of the connection  *)
(* before must not still be at work, for it has its own list.               *)
RetiredEndpointLeaves ==
  \A t \in Tokens :
    (sup = "login" /\ t \in keys.retiring /\ cleanup = "off" /\ faults = MaxFaults) ~>
      (t \notin registered \/ sup \in {"off", "loggedout"})
=============================================================================
