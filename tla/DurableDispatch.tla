--------------------------- MODULE DurableDispatch ---------------------------
(***************************************************************************)
(* What allowly/execution.py promises of one operation id, without calls,  *)
(* locks, files or crashes.  The operation is open; it may be closed       *)
(* unsent (denied), or an attempt is put on record.  Only then may the     *)
(* request leave, once; and only then is an outcome reported, once.        *)
(* An attempt may well be on record with nothing ever sent, and a request  *)
(* may leave after "unknown" was reported; neither is undone.              *)
(***************************************************************************)
CONSTANT Sends  \* what a send may be: who sent what, under which approval

VARIABLES
  stage,   \* "open", "closed" or "attempted"
  sends,   \* the sends that reached the provider
  report   \* the outcome on record at the API: "none" until reported

Init ==
  /\ stage = "open"
  /\ sends = {}
  /\ report = "none"

Close ==
  /\ stage = "open"
  /\ stage' = "closed"
  /\ UNCHANGED <<sends, report>>

Attempt ==
  /\ stage = "open"
  /\ stage' = "attempted"
  /\ UNCHANGED <<sends, report>>

Send(s) ==
  /\ stage = "attempted"
  /\ sends = {}
  /\ sends' = {s}
  /\ UNCHANGED <<stage, report>>

Report(o) ==
  /\ stage = "attempted"
  /\ report = "none"
  /\ o = "unknown" \/ sends # {}
  /\ report' = o
  /\ UNCHANGED <<stage, sends>>

Next ==
  \/ Close
  \/ Attempt
  \/ \E s \in Sends : Send(s)
  \/ \E o \in {"unknown", "observed", "attested"} : Report(o)

Spec == Init /\ [][Next]_<<stage, sends, report>>
=============================================================================
