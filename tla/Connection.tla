------------------------------ MODULE Connection ------------------------------
(***************************************************************************)
(* The client of one login: the generations of its connection, the         *)
(* operations it owns, and its retirement when a login flow replaces it.   *)
(*                                                                         *)
(* Connect starts a generation, whose goroutines are one thread here: it   *)
(* validates the session, saves the account and works until its context is *)
(* cancelled.  Connect and Disconnect first take over from the generation  *)
(* before: one change at a time, cancelling it and waiting for its end.    *)
(* An operation of the client is owned between its begin and its end, and  *)
(* a retired client begins none; retirement waits for those that run.      *)
(*                                                                         *)
(* A login flow that succeeds leaves the old client retired and connects a *)
(* new one, which is this module again; one that fails reactivates it.     *)
(***************************************************************************)
EXTENDS LoginSaves, FiniteSets

CONSTANTS
  Callers,   \* threads of the framework that call Connect, Disconnect, LogoutRemote
  Handlers,  \* threads that handle a Matrix event
  Login,     \* the thread of a login flow
  MaxGens,   \* bound: generations
  Worker,    \* the thread of a generation
  MaxActs    \* bound: calls, events, and changes of the metadata by a worker

Gens    == 1..MaxGens
Workers == {Worker[g] : g \in Gens}
Calls   == Callers \cup {Login}
Threads == Calls \cup Handlers \cup Workers

ASSUME ConnectionAssumption ==
  /\ Login \notin Callers /\ Savers = Handlers \cup Workers
  /\ MaxGens \in Nat /\ MaxActs \in Nat /\ DOMAIN Worker = Gens
  /\ \A g, k \in Gens : Worker[g] = Worker[k] => g = k
  /\ Handlers \cap Workers = {} /\ Calls \cap (Handlers \cup Workers) = {}

VARIABLES
  pc,          \* what a thread does next
  call,        \* the call a thread makes
  gen,         \* the generation it is about
  prev,        \* the generation it takes over from, or 0
  retired,
  owned,       \* threads in an owned operation
  changing,    \* a change of generation is in progress
  current,     \* the generation of the client, or 0
  last,        \* the last generation made
  cancelled,   \* generations whose context is cancelled
  loggedIn,
  told,        \* the last bridge state, and the generation it was about
  quiet,       \* history: the retirement has returned
  acts

ownVars  == <<retired, owned>>
genVars  == <<changing, current, last, cancelled>>
memVars  == <<call, gen, prev>>
vars     == <<pc, memVars, ownVars, genVars, loggedIn, told, quiet, acts, saveVars>>

States == {"none", "connecting", "connected", "transient", "unknown", "bad"}

Places == {"idle", "change", "stop", "check", "login", "announce", "signoff",
           "drain", "newlogin", "reconnect", "replaced", "reserved", "boot", "apply",
           "saving", "saved", "working", "reporting", "handling", "swap",
           "failing", "failed", "cancel", "resign", "done"}

ConnectionTypeOK ==
  /\ SavesTypeOK
  /\ pc \in [Threads -> Places]
  /\ call \in [Calls -> {"none", "connect", "disconnect", "logout", "replace"}]
  /\ gen \in [Threads -> 0..MaxGens] /\ prev \in [Calls -> 0..MaxGens]
  /\ retired \in BOOLEAN /\ owned \subseteq Threads
  /\ changing \in BOOLEAN /\ current \in 0..MaxGens /\ last \in 0..MaxGens
  /\ cancelled \subseteq Gens /\ loggedIn \in BOOLEAN
  /\ told \in [state : States, of : 0..MaxGens]
  /\ quiet \in BOOLEAN /\ acts \in 0..MaxActs

Init ==
  /\ SavesInit
  /\ pc = [t \in Threads |-> "idle"]
  /\ call = [t \in Calls |-> "none"]
  /\ gen = [t \in Threads |-> IF t \in Workers THEN CHOOSE g \in Gens : Worker[g] = t ELSE 0]
  /\ prev = [t \in Calls |-> 0]
  /\ retired = FALSE /\ owned = {}
  /\ changing = FALSE /\ current = 0 /\ last = 0 /\ cancelled = {}
  /\ loggedIn = FALSE /\ told = [state |-> "none", of |-> 0]
  /\ quiet = FALSE /\ acts = 0

Goto(t, p)   == pc' = [pc EXCEPT ![t] = p]
Act          == acts < MaxActs /\ acts' = acts + 1
Begin(t)     == ~retired /\ owned' = owned \cup {t}
End(t)       == owned' = owned \ {t}
Running(g)   == g # 0 /\ g = current /\ g \notin cancelled
IsCurrent(g) == ~retired /\ Running(g)

(* sendBridgeState: nothing is said for a retired client. *)
Send(s, g)   == told' = IF retired THEN told ELSE [state |-> s, of |-> g]

-----------------------------------------------------------------------------
(* Connect, Disconnect, LogoutRemote. *)

StartCall(t) ==
  /\ t \in Callers /\ pc[t] = "idle" /\ Act /\ Goto(t, "change")
  /\ \/ Begin(t) /\ \E c \in {"connect", "logout"} : call' = [call EXCEPT ![t] = c]
     \/ call' = [call EXCEPT ![t] = "disconnect"] /\ UNCHANGED owned
  /\ UNCHANGED <<gen, prev, retired, genVars, loggedIn, told, quiet, saveVars>>

(* Only the generation of a Connect is used, and numbered here. *)
BeginChange(t) ==
  /\ pc[t] = "change" /\ ~changing /\ Goto(t, "stop")
  /\ changing' = TRUE /\ current' = 0
  /\ cancelled' = cancelled \cup ({current} \ {0})
  /\ prev' = [prev EXCEPT ![t] = current]
  /\ \/ /\ call[t] = "connect" /\ last < MaxGens
        /\ last' = last + 1 /\ gen' = [gen EXCEPT ![t] = last + 1]
     \/ call[t] # "connect" /\ UNCHANGED <<last, gen>>
  /\ UNCHANGED <<call, ownVars, loggedIn, told, quiet, acts, saveVars>>

(* Mutant: cancelled is taken for ended. *)
StoppedOnCancel(g) == g # 0 => g \in cancelled

(* Mutant: a generation is waited for once its goroutine runs. *)
StoppedOrReserved(g) == g # 0 => pc[Worker[g]] \in {"reserved", "done"}

Stopped(g) == g # 0 => pc[Worker[g]] = "done"

EndChange(t) ==
  /\ pc[t] = "stop" /\ Stopped(prev[t]) /\ changing' = FALSE
  /\ IF call[t] = "connect"
     THEN /\ current' = gen[t]
          /\ pc' = [pc EXCEPT ![t] = "check", ![Worker[gen[t]]] = "reserved"]
     ELSE Goto(t, "signoff") /\ UNCHANGED current
  /\ UNCHANGED <<memVars, ownVars, last, cancelled, loggedIn, told, quiet, acts, saveVars>>

CheckCurrent(t) ==
  /\ pc[t] = "check"
  /\ IF IsCurrent(gen[t])
     THEN Goto(t, "login") /\ UNCHANGED <<cancelled, owned>>
     ELSE /\ pc' = [pc EXCEPT ![t] = "idle", ![Worker[gen[t]]] = "done"]
          /\ cancelled' = cancelled \cup {gen[t]}
          /\ End(t)
  /\ UNCHANGED <<memVars, retired, changing, current, last, loggedIn, told, quiet, acts, saveVars>>

SignIn(t) ==
  /\ pc[t] = "login" /\ Goto(t, "announce")
  /\ loggedIn' = TRUE
  /\ UNCHANGED <<memVars, ownVars, genVars, told, quiet, acts, saveVars>>

StartRun(t) ==
  /\ pc[t] = "announce" /\ Send("connecting", gen[t])
  /\ pc' = [pc EXCEPT ![t] = "idle", ![Worker[gen[t]]] = "boot"]
  /\ End(t)
  /\ UNCHANGED <<memVars, retired, genVars, loggedIn, quiet, acts, saveVars>>

SignOff(t) ==
  /\ pc[t] = "signoff" /\ loggedIn' = FALSE
  /\ Goto(t, IF call[t] = "replace" THEN "newlogin" ELSE "idle")
  /\ End(t)
  /\ UNCHANGED <<memVars, retired, genVars, told, quiet, acts, saveVars>>

-----------------------------------------------------------------------------
(* The replacement of the client by a login flow. *)

Retire ==
  /\ pc[Login] = "idle" /\ ~retired /\ Act /\ Goto(Login, "drain")
  /\ retired' = TRUE
  /\ UNCHANGED <<memVars, owned, genVars, loggedIn, told, quiet, saveVars>>

(* Mutant: what runs is not waited for. *)
DrainAtOnce ==
  /\ pc[Login] = "drain" /\ Goto(Login, "change")
  /\ call' = [call EXCEPT ![Login] = "replace"]
  /\ loggedIn' = FALSE /\ quiet' = TRUE
  /\ UNCHANGED <<gen, prev, ownVars, genVars, told, acts, saveVars>>

Drain ==
  /\ pc[Login] = "drain" /\ owned = {} /\ Goto(Login, "change")
  /\ call' = [call EXCEPT ![Login] = "replace"]
  /\ loggedIn' = FALSE /\ quiet' = TRUE
  /\ UNCHANGED <<gen, prev, ownVars, genVars, told, acts, saveVars>>

(* NewLogin saves the metadata of the new client. *)
NewLogin ==
  /\ pc[Login] = "newlogin" /\ Goto(Login, "replaced")
  /\ meta' = meta + 1 /\ stored' = meta'
  /\ UNCHANGED <<memVars, ownVars, genVars, loggedIn, told, quiet, acts,
                 tail, closed, abandoned, place, snap>>

(* The old client gets its metadata back, newer than what NewLogin tried. *)
NewLoginFails ==
  /\ pc[Login] = "newlogin" /\ Goto(Login, "reconnect")
  /\ meta' = meta + 2 /\ stored' \in {stored, meta + 1}
  /\ retired' = FALSE /\ quiet' = FALSE
  /\ UNCHANGED <<memVars, owned, genVars, loggedIn, told, acts,
                 tail, closed, abandoned, place, snap>>

Reconnect ==
  /\ pc[Login] = "reconnect" /\ Begin(Login) /\ Goto(Login, "change")
  /\ call' = [call EXCEPT ![Login] = "connect"]
  /\ UNCHANGED <<gen, prev, retired, genVars, loggedIn, told, quiet, acts, saveVars>>

-----------------------------------------------------------------------------
(* A session that is refused: failConnect and failGeneration. *)

(* A bootstrap that is refused fails its own generation; any other call,    *)
(* through handleRemoteError, the one that is current by then.              *)
Unauthorized(t) ==
  /\ \/ pc[t] = "boot" /\ Goto(t, "failing") /\ UNCHANGED gen
     \/ /\ pc[t] \in {"working", "handling"} /\ ~retired
        /\ IF IsCurrent(current) THEN Goto(t, "failing") ELSE Goto(t, "swap")
        /\ IF t \in Handlers THEN gen' = [gen EXCEPT ![t] = current] ELSE UNCHANGED gen
  /\ UNCHANGED <<call, prev, ownVars, genVars, loggedIn, told, quiet, acts, saveVars>>

Return(t) == /\ Goto(t, IF t \in Workers THEN "done" ELSE "idle") /\ End(t)

CheckRunning(t) ==
  /\ pc[t] = "failing"
  /\ IF Running(gen[t]) THEN Goto(t, "failed") /\ UNCHANGED owned ELSE Return(t)
  /\ UNCHANGED <<memVars, retired, genVars, loggedIn, told, quiet, acts, saveVars>>

SetLoggedOut(t) ==
  /\ pc[t] = "failed" /\ loggedIn' = FALSE /\ Goto(t, "cancel")
  /\ UNCHANGED <<memVars, ownVars, genVars, told, quiet, acts, saveVars>>

CancelAndTell(t) ==
  /\ pc[t] \in {"cancel", "resign"}
  /\ cancelled' = cancelled \cup {gen[t]}
  /\ Send(IF pc[t] = "cancel" THEN "bad" ELSE "unknown", gen[t])
  /\ Return(t)
  /\ UNCHANGED <<memVars, retired, changing, current, last, loggedIn, quiet, acts, saveVars>>

SwapLoggedIn(t) ==
  /\ pc[t] = "swap" /\ loggedIn' = FALSE
  /\ IF loggedIn THEN Send("bad", gen[t]) ELSE UNCHANGED told
  /\ Return(t)
  /\ UNCHANGED <<memVars, retired, genVars, quiet, acts, saveVars>>

-----------------------------------------------------------------------------
(* A generation: runConnectionGeneration and the workers it starts. *)

Boot(t) ==
  /\ pc[t] = "boot" /\ gen[t] \notin cancelled
  /\ \/ Goto(t, "apply") /\ UNCHANGED told
     \/ /\ Goto(t, IF Running(gen[t]) THEN "resign" ELSE "done")
        /\ UNCHANGED told
     \/ /\ IF IsCurrent(gen[t]) THEN Send("transient", gen[t]) ELSE UNCHANGED told
        /\ UNCHANGED pc
  /\ UNCHANGED <<memVars, ownVars, genVars, loggedIn, quiet, acts, saveVars>>

(* The operation is owned before it may find that the metadata is invalid.  *)
Apply(t) ==
  /\ pc[t] = "apply"
  /\ IF IsCurrent(gen[t])
     THEN /\ Begin(t)
          /\ \/ Queue(t) /\ Goto(t, "saving")
             \/ Goto(t, "failing") /\ UNCHANGED saveVars
     ELSE Goto(t, "done") /\ UNCHANGED <<owned, saveVars>>
  /\ UNCHANGED <<memVars, retired, genVars, loggedIn, told, quiet, acts>>

StartWorkers(t) ==
  /\ t \in Workers /\ pc[t] = "saved" /\ End(t) /\ Goto(t, "working")
  /\ UNCHANGED <<memVars, retired, genVars, loggedIn, told, quiet, acts, saveVars>>

(* A worker changes the metadata, as the push registration does. *)
Refresh(t) ==
  /\ pc[t] = "working" /\ Act /\ Begin(t) /\ Queue(t) /\ Goto(t, "saving")
  /\ UNCHANGED <<memVars, retired, genVars, loggedIn, told, quiet>>

(* sendGenerationState *)
Report(t) ==
  /\ pc[t] = "working" /\ IsCurrent(gen[t]) /\ told.state # "connected"
  /\ Goto(t, "reporting")
  /\ UNCHANGED <<memVars, ownVars, genVars, loggedIn, told, quiet, acts, saveVars>>

SendReport(t) ==
  /\ pc[t] = "reporting" /\ Send("connected", gen[t]) /\ Goto(t, "working")
  /\ UNCHANGED <<memVars, ownVars, genVars, loggedIn, quiet, acts, saveVars>>

Stop(t) ==
  /\ pc[t] \in {"boot", "working"} /\ gen[t] \in cancelled /\ Goto(t, "done")
  /\ UNCHANGED <<memVars, ownVars, genVars, loggedIn, told, quiet, acts, saveVars>>

-----------------------------------------------------------------------------
(* Matrix events, and saves. *)

Handle(t) ==
  /\ pc[t] = "idle" /\ t \in Handlers /\ Act /\ Begin(t) /\ Goto(t, "handling")
  /\ UNCHANGED <<memVars, retired, genVars, loggedIn, told, quiet, saveVars>>

Edit(t) ==
  /\ pc[t] = "handling" /\ Queue(t) /\ Goto(t, "saving")
  /\ UNCHANGED <<memVars, ownVars, genVars, loggedIn, told, quiet, acts>>

Finish(t) ==
  /\ t \in Handlers /\ pc[t] \in {"handling", "saved"} /\ Return(t)
  /\ UNCHANGED <<memVars, retired, genVars, loggedIn, told, quiet, acts, saveVars>>

Unsaved == <<memVars, ownVars, genVars, loggedIn, told, quiet, acts>>

SaveTurn(t)   == pc[t] = "saving" /\ Turn(t) /\ UNCHANGED <<pc, Unsaved>>
SaveEnd(t)    == pc[t] = "saving" /\ (Write(t) \/ GiveUp(t)) /\ Goto(t, "saved") /\ UNCHANGED Unsaved
SavePass      == (\E n \in abandoned : Pass(n)) /\ UNCHANGED <<pc, Unsaved>>

-----------------------------------------------------------------------------

CallStep(t) == BeginChange(t) \/ EndChange(t) \/ CheckCurrent(t) \/ SignIn(t) \/ StartRun(t) \/ SignOff(t)
LoginStep   == Drain \/ NewLogin \/ NewLoginFails \/ Reconnect
FailStep(t) == CheckRunning(t) \/ SetLoggedOut(t) \/ CancelAndTell(t) \/ SwapLoggedIn(t)
SaveStep(t) == SaveTurn(t) \/ SaveEnd(t)
WorkStep(t) == Apply(t) \/ StartWorkers(t) \/ SendReport(t) \/ Stop(t)

Next == \/ \E t \in Calls : StartCall(t) \/ CallStep(t)
        \/ Retire \/ LoginStep \/ SavePass
        \/ \E t \in Workers : Boot(t) \/ WorkStep(t) \/ Refresh(t) \/ Report(t)
        \/ \E t \in Handlers : Handle(t) \/ Edit(t) \/ Finish(t)
        \/ \E t \in Handlers \cup Workers : Unauthorized(t) \/ FailStep(t) \/ SaveStep(t)

Spec == Init /\ [][Next]_vars

(* Goroutines go on, network calls return, and a cancelled context ends     *)
(* what waits for it.  Nothing makes a bootstrap succeed or a caller give   *)
(* up.                                                                      *)
Fairness ==
  /\ \A t \in Calls : WF_vars(CallStep(t))
  /\ WF_vars(LoginStep) /\ WF_vars(SavePass)
  /\ \A t \in Workers : WF_vars(WorkStep(t))
  /\ \A t \in Handlers : WF_vars(Finish(t))
  /\ \A t \in Handlers \cup Workers :
       WF_vars(FailStep(t)) /\ WF_vars(SaveTurn(t)) /\ WF_vars(SaveEnd(t) /\ snap[t] # 0)

FairSpec == Spec /\ Fairness

-----------------------------------------------------------------------------
(* What the client promises. *)

Alive(g) == pc[Worker[g]] \notin {"idle", "done"}

(* Two generations never run at once: a Connect takes over only when every  *)
(* goroutine of the generation before has ended (connectionGeneration).     *)
OneGeneration == \A g, k \in Gens : Alive(g) /\ Alive(k) => g = k

(* "Once it returns, the client can no longer save login metadata, publish  *)
(* bridge state, or start new work" (retireForReplacement): until it is     *)
(* reactivated, only the login flow changes the database.                   *)
RetiredIsSilent ==
  [][quiet /\ quiet' =>
       /\ told' = told /\ ~loggedIn' /\ owned' \subseteq owned /\ last' = last
       /\ stored' = stored \/ pc[Login] = "newlogin"]_vars

(* "an older database update can never finish after newer metadata": what   *)
(* the database has never goes back, whoever gave up waiting, and also over *)
(* a replacement (saveOwnedUserLogin, completeLogin).                       *)
SavesInOrder == [][stored' >= stored]_vars

(* A generation says nothing after the next one has, but for a Matrix event *)
(* that failed just as it was replaced.                                     *)
StatesInOrder ==
  [][told'.of >= told.of \/ \E t \in Handlers : pc[t] \in {"cancel", "swap"} /\ pc'[t] = "idle"]_vars

(* Connect, Disconnect, LogoutRemote, a replacement and a Matrix event all  *)
(* come to an end, although they wait for each other's work.                *)
EveryCallReturns == \A t \in Calls \cup Handlers : (pc[t] # "idle") ~> (pc[t] \in {"idle", "replaced"})
=============================================================================
