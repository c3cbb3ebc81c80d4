------------------------ MODULE ReceiptPollingProofs ------------------------
(***************************************************************************)
(* Proofs about one wait for a signed receipt (fetch_signed, seal,         *)
(* seal_value) for every timeout, poll interval, Retry-After and lag, and  *)
(* any answers of the API.                                                 *)
(***************************************************************************)
EXTENDS ReceiptPolling, TLAPS

\* Nothing is polled for until StartPolling.
WantedOncePolling == pc \in {"idle", "post"} => want = None

\* How far past the deadline each await may be: a request is cancelled one lag
\* late, a sleep that starts then ends one lag later still.
ClockInBounds ==
  /\ pc = "loop" => clock <= deadline + 2 * Lag
  /\ pc = "get" => clock <= deadline + Lag
  /\ pc = "sleep" => clock <= wake + Lag /\ wake <= deadline + Lag

\* A sleep ends when the next request is allowed, or else with nothing left.
WakesOnSchedule ==
  /\ pc = "sleep" => notBefore <= wake \/ deadline <= wake
  /\ pc = "loop" => notBefore <= clock \/ deadline <= clock

\* What every step of the wait keeps.
PollingInv ==
  /\ TypeOK
  /\ WantedOncePolling /\ ClockInBounds /\ WakesOnSchedule
  /\ ReceiptAskedFor /\ NoEarlyGiveUp /\ PollsOnSchedule

-----------------------------------------------------------------------------
\* SleepTime is min(delay, max(0, what is left)).
LEMMA SleepTimeIsMin ==
  ASSUME NEW delay \in Nat, deadline \in Nat, clock \in Nat
  PROVE  /\ SleepTime(delay) \in Nat
         /\ SleepTime(delay) = delay \/ clock + SleepTime(delay) >= deadline
         /\ clock + SleepTime(delay) <= deadline \/ SleepTime(delay) = 0
BY DEF SleepTime

\* The invariant holds before the call.
LEMMA InitPollingInv == Init => PollingInv
BY DEF Init, PollingInv, TypeOK, WantedOncePolling, ClockInBounds, WakesOnSchedule,
       ReceiptAskedFor, NoEarlyGiveUp, PollsOnSchedule, Polling

\* One step per action; the two that begin to poll, and the two that sleep, share one.
LEMMA NextPollingInv == PollingInv /\ [Next]_vars => PollingInv'
<1> SUFFICES ASSUME PollingInv, [Next]_vars PROVE PollingInv' OBVIOUS
<1> USE ConstantsAssumption
    DEF PollingInv, TypeOK, WantedOncePolling, ClockInBounds, WakesOnSchedule,
        ReceiptAskedFor, NoEarlyGiveUp, PollsOnSchedule, Polling
<1>1. ASSUME NEW id \in ReceiptIds, StartPolling(id), UNCHANGED record,
             workspace' \in Workspaces \cup {None}
      PROVE  PollingInv'
  BY <1>1 DEF StartPolling
<1>2. ASSUME NEW id \in ReceiptIds, FetchSigned(id) PROVE PollingInv'
  BY <1>1, <1>2 DEF FetchSigned
<1>3. ASSUME NEW r \in Records, Seal(r) PROVE PollingInv'
  BY <1>3 DEF Seal, timing
<1>4. ASSUME NEW ws \in Workspaces, SealAnswered(ws) PROVE PollingInv'
  <2>1. ASSUME NEW id \in ReceiptIds, StartPolling(id) PROVE PollingInv'
    BY <1>1, <1>4, <2>1 DEF SealAnswered
  <2>2. ASSUME NEW r \in Receipts, Sealed(r, ws), receipt' = r, pc' = "returned",
               UNCHANGED <<want, timing>>
        PROVE  PollingInv'
    BY <1>4, <2>2 DEF SealAnswered, Sealed, timing
  <2> QED BY <1>4, <2>1, <2>2 DEF SealAnswered
<1>5. CASE SealFailed \/ GetRefused
  BY <1>5 DEF SealFailed, GetRefused, asked, timing
<1>6. CASE Poll
  BY <1>6 DEF Poll, Remaining, asked
<1>7. CASE GiveUp
  BY <1>7 DEF GiveUp, Remaining, asked, timing
<1>8. CASE Reconnect
  BY <1>8 DEF Reconnect, asked
<1>9. ASSUME NEW delay \in Nat, pc = "get", SleepFor(delay) PROVE PollingInv'
  BY <1>9, SleepTimeIsMin DEF SleepFor, asked
<1>10. CASE GetFailed \/ TryLater
  BY <1>9, <1>10 DEF GetFailed, TryLater
<1>11. ASSUME NEW r \in Receipts, GetSigned(r) PROVE PollingInv'
  BY <1>11 DEF GetSigned, Requested, Sealed, asked, timing
<1>12. CASE Wake
  BY <1>12 DEF Wake, asked, timing
<1>13. CASE Tick
  BY <1>13 DEF Tick, asked
<1>14. CASE UNCHANGED vars
  BY <1>14 DEF vars
<1> QED
  BY <1>2, <1>3, <1>4, <1>5, <1>6, <1>7, <1>8, <1>10, <1>11, <1>12, <1>13, <1>14
     DEF Next, Step, Answer

-----------------------------------------------------------------------------
\* The invariant of one wait, for any API, timeout and event loop.
THEOREM PollingInvariant == Spec => []PollingInv
BY InitPollingInv, NextPollingInv, PTL DEF Spec

\* fetch_signed and seal hand over no receipt but the one asked for.
THEOREM ReceiptSafety == Spec => []ReceiptAskedFor
<1>1. PollingInv => ReceiptAskedFor BY DEF PollingInv
<1> QED BY PollingInvariant, <1>1, PTL

\* The wait lasts no longer than timeout and two lags of the event loop, whatever
\* Retry-After, errors or silence the API answers with.
THEOREM EndsInTimeAlways == Spec => []EndsInTime
<1>1. ASSUME PollingInv PROVE EndsInTime
  BY <1>1, ConstantsAssumption DEF PollingInv, TypeOK, ClockInBounds, Polling, EndsInTime
<1> QED BY PollingInvariant, <1>1, PTL

\* TimeoutError means that the timeout has passed.
THEOREM NoEarlyTimeout == Spec => []NoEarlyGiveUp
<1>1. PollingInv => NoEarlyGiveUp BY DEF PollingInv
<1> QED BY PollingInvariant, <1>1, PTL

\* Each GET fell due before the deadline, and is not out before it was due.
THEOREM PollSchedule == Spec => []PollsOnSchedule
<1>1. PollingInv => PollsOnSchedule BY DEF PollingInv
<1> QED BY PollingInvariant, <1>1, PTL
=============================================================================
