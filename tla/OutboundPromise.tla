-------------------------- MODULE OutboundPromise --------------------------
(***************************************************************************)
(* What the outbox promises about one login's sends, without rows, threads *)
(* or retries: a message leaves at most once, and the user hears           *)
(* "not submitted" only of a message that is not on Tumblr and never will  *)
(* be, so that writing it again is safe (the comment over                  *)
(* tumblr_outbound_receipt, outboundNotSubmittedMessage).  "unconfirmed"   *)
(* promises nothing.                                                       *)
(***************************************************************************)
CONSTANT Sends

VARIABLES
  world,     \* where the message is: unsent, travelling, arrived or refused
  verdicts   \* what the user has been told of a send

promiseVars == <<world, verdicts>>

PromiseInit ==
  /\ world = [s \in Sends |-> "unsent"]
  /\ verdicts = [s \in Sends |-> {}]

Depart(s) ==
  /\ world[s] = "unsent" /\ "not_submitted" \notin verdicts[s]
  /\ world' = [world EXCEPT ![s] = "travelling"]
  /\ UNCHANGED verdicts

Finish(s) ==
  /\ world[s] = "travelling"
  /\ \E end \in {"arrived", "refused"} : world' = [world EXCEPT ![s] = end]
  /\ UNCHANGED verdicts

Rule(s, verdict) ==
  /\ IF verdict = "not_submitted"
     THEN world[s] \in {"unsent", "refused"} /\ verdicts[s] \subseteq {verdict}
     ELSE "not_submitted" \notin verdicts[s]
  /\ verdicts' = [verdicts EXCEPT ![s] = @ \cup {verdict}]
  /\ UNCHANGED world

PromiseNext == \E s \in Sends : \/ Depart(s) \/ Finish(s)
                                \/ \E verdict \in {"success", "not_submitted", "unconfirmed"} : Rule(s, verdict)

PromiseSpec == PromiseInit /\ [][PromiseNext]_promiseVars
=============================================================================
