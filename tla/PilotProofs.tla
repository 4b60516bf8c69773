----------------------------- MODULE PilotProofs ------------------------------
(***************************************************************************)
(* What holds of a pilot, of its sessions and of its search for a rate, for *)
(* any protocol, any number of sessions and failures, any outcome of the   *)
(* trials.                                                                 *)
(*                                                                         *)
(* The sessions: TimeInv carries the time accounts through the file, where a *)
(* pause that is saved accounts for the time until it began, so that the   *)
(* session that resumes it starts from a true account.  LossInv says which *)
(* trials the records may lack: the one under way, and, once a session has *)
(* ended in anything but a pause, any.  ResumeInv says that the records    *)
(* follow the batches in pairs, and that the sessions' history adds up to  *)
(* the records and to the time budget.                                     *)
(*                                                                         *)
(* The search: ConfirmedTogether says that where one condition has confirmed *)
(* a rate, the other has been tried as often.                              *)
(***************************************************************************)
EXTENDS PilotSession, PilotSearch, FiniteSetTheorems, SequenceTheorems, WellFoundedInduction,
        TLAPS

Fields == {"status", "records", "batches", "currentRun", "sessions", "activeMs", "pausedMs",
           "startedAt", "activeSince", "pausedSince", "pauseRequested", "clean"}

\* A checkpoint with numbers for times.
IsCheckpoint(s) ==
  /\ DOMAIN s = Fields
  /\ {s.activeMs, s.pausedMs, s.startedAt, s.activeSince, s.pausedSince} \subseteq Int

Accounted(s, now) == s.activeMs + s.pausedMs = now - s.startedAt

\* What a checkpoint that a session may start from says of the time.
StartsTrue(s) ==
  /\ s.status = "PREPARED" =>
       s.activeMs = 0 /\ s.pausedMs = 0 /\ s.startedAt = Never /\ s.pausedSince = Never
  /\ s.status = "PAUSED" =>
       s.pausedSince # Never /\ s.startedAt # Never /\ Accounted(s, s.pausedSince)

Open(s) == s.status \notin {"PREPARED", "PAUSED"}

TimeInv ==
  /\ clock \in Nat
  /\ at \in {"idle", "prepare", "loop", "running", "cleanup", "restore"}
  /\ IsCheckpoint(state) /\ IsCheckpoint(saved)
  /\ at = "idle" => state = saved
  /\ at # "idle" => Open(state) /\ Open(saved) /\ state.startedAt # Never
  /\ StartsTrue(saved)
  /\ TimeIsAccounted

-------------------------------------------------------------------------------
(* What the operations on a checkpoint leave alone *)

\* t has the time account of s.
SameAccount(s, t) ==
  /\ DOMAIN t = Fields
  /\ t.activeMs = s.activeMs /\ t.pausedMs = s.pausedMs
  /\ t.startedAt = s.startedAt /\ t.activeSince = s.activeSince
  /\ t.pausedSince = s.pausedSince

\* A new evidence root is a checkpoint with a true account.
LEMMA NewIsCheckpoint ==
  IsCheckpoint(NewPilotState) /\ StartsTrue(NewPilotState)
<1>1. DOMAIN NewPilotState = Fields
  BY DEF NewPilotState, Fields
<1> QED
  BY <1>1 DEF NewPilotState, IsCheckpoint, StartsTrue, Never

\* Nothing but the start and the end of a session touches the time account.
LEMMA OperationsKeepAccount ==
  ASSUME NEW s, DOMAIN s = Fields
  PROVE  /\ SameAccount(s, Failed(s)) /\ Open(Failed(s))
         /\ SameAccount(s, Noticed(s)) /\ Noticed(s).status = s.status
         /\ SameAccount(s, NotRestored(s)) /\ NotRestored(s).status = "REVIEW_REQUIRED"
         /\ SameAccount(s, WithRecord(s)) /\ WithRecord(s).status = s.status
         /\ \A x : SameAccount(s, [s EXCEPT !.status = x])
         /\ \A x : [s EXCEPT !.status = x].status = x
BY DEF SameAccount, Failed, Noticed, NotRestored, WithRecord, Open, Fields

\* Two such operations after one another do not touch it either.
LEMMA SameAccountTransitive ==
  ASSUME NEW s, NEW t, NEW u, SameAccount(s, t), SameAccount(t, u)
  PROVE  SameAccount(s, u)
BY DEF SameAccount

-------------------------------------------------------------------------------
(* The time accounts *)

\* The accounts are true before the first session.
LEMMA InitTime == Init => TimeInv
BY NewIsCheckpoint DEF Init, TimeInv, TimeIsAccounted

\* A step of a running controller that leaves the object with its account, and the
\* file as it was or with that account too, keeps the accounts true.
LEMMA AccountKept ==
  ASSUME TimeInv, at # "idle",
         at' \in {"prepare", "loop", "running", "cleanup", "restore"},
         clock' = clock,
         SameAccount(state, state'), Open(state'),
         saved' = saved \/ saved' = state' \/ (SameAccount(state, saved') /\ Open(saved'))
  PROVE  TimeInv'
<1>1. IsCheckpoint(state')
  BY DEF TimeInv, IsCheckpoint, SameAccount
<1>2. IsCheckpoint(saved') /\ Open(saved')
  BY <1>1 DEF TimeInv, IsCheckpoint, SameAccount
<1>3. StartsTrue(saved')
  BY <1>2 DEF Open, StartsTrue
<1>4. TimeIsAccounted'
  BY DEF TimeInv, TimeIsAccounted, SameAccount
<1>5. state'.startedAt # Never
  BY DEF TimeInv, SameAccount
<1> QED
  BY <1>1, <1>2, <1>3, <1>4, <1>5 DEF TimeInv

\* A session starts with the pause that it ends added to its account.
LEMMA LaunchKeepsTime ==
  ASSUME TimeInv, Launch
  PROVE  TimeInv'
<1> DEFINE started == IF saved.startedAt = Never THEN clock ELSE saved.startedAt
<1>1. /\ DOMAIN saved = Fields
      /\ saved.activeMs \in Int /\ saved.pausedMs \in Int /\ saved.startedAt \in Int
      /\ saved.pausedSince \in Int /\ clock \in Nat
  BY DEF TimeInv, IsCheckpoint
<1>2. /\ DOMAIN state' = Fields
      /\ state'.status = "PREPARING"
      /\ state'.activeMs = saved.activeMs
      /\ state'.pausedMs = PausedSoFar(saved)
      /\ state'.startedAt = started
      /\ state'.activeSince = clock
      /\ state'.pausedSince = Never
      /\ saved' = state' /\ at' = "prepare" /\ clock' = clock
  BY <1>1 DEF Launch, Save, Fields
<1>3. PausedSoFar(saved) = IF saved.pausedSince = Never THEN saved.pausedMs
                           ELSE saved.pausedMs + (clock - saved.pausedSince)
  BY <1>1 DEF PausedSoFar, Elapsed
<1>4. saved.activeMs + PausedSoFar(saved) = clock - started
  <2>1. CASE saved.status = "PREPARED"
    BY <2>1, <1>1, <1>3 DEF TimeInv, StartsTrue
  <2>2. CASE saved.status = "PAUSED"
    BY <2>2, <1>1, <1>3 DEF TimeInv, StartsTrue, Accounted
  <2> QED
    BY <2>1, <2>2 DEF Launch, CanStartFresh, CanResume
<1>5. IsCheckpoint(state')
  BY <1>1, <1>2, <1>3 DEF IsCheckpoint, Never
<1>6. Open(state') /\ StartsTrue(state')
  BY <1>2 DEF Open, StartsTrue
<1>7. started # Never
  BY <1>1 DEF Never
<1>8. TimeIsAccounted'
  BY <1>2, <1>4 DEF TimeIsAccounted
<1> QED
  BY <1>1, <1>2, <1>5, <1>6, <1>7, <1>8 DEF TimeInv

\* What the finally block saves: a pause only if the session's time was added up.
LEMMA EndedIsTrue ==
  ASSUME TimeInv, NEW s, IsCheckpoint(s), s.status # "PREPARED", s.status # "PAUSED",
         s.startedAt # Never, Accounted(s, s.activeSince)
  PROVE  IsCheckpoint(Ended(s)) /\ StartsTrue(Ended(s))
<1> DEFINE active == clock - s.activeSince
           timed == IF active < 0 THEN [s EXCEPT !.status = "REVIEW_REQUIRED"]
                    ELSE [s EXCEPT !.activeMs = @ + active, !.sessions[Session].activeMs = active]
           paused == timed.status = "PAUSING"
           status == IF paused THEN "PAUSED" ELSE timed.status
<1>1. /\ DOMAIN s = Fields
      /\ s.activeMs \in Int /\ s.pausedMs \in Int /\ s.startedAt \in Int
      /\ s.activeSince \in Int /\ s.pausedSince \in Int /\ clock \in Nat
  BY DEF TimeInv, IsCheckpoint
<1>2. /\ DOMAIN timed = Fields
      /\ timed.pausedMs = s.pausedMs /\ timed.startedAt = s.startedAt
      /\ timed.pausedSince = s.pausedSince
      /\ timed.status = IF active < 0 THEN "REVIEW_REQUIRED" ELSE s.status
      /\ timed.activeMs = IF active < 0 THEN s.activeMs ELSE s.activeMs + active
  BY <1>1 DEF Fields
<1>3. Ended(s) = [timed EXCEPT !.activeSince = Never, !.status = status,
                    !.pausedSince = IF paused THEN clock ELSE @,
                    !.sessions[Session].endedAt = clock, !.sessions[Session].status = status]
  BY DEF Ended
<1> HIDE DEF timed
<1>4. /\ DOMAIN Ended(s) = Fields
      /\ Ended(s).status = status
      /\ Ended(s).activeMs = timed.activeMs
      /\ Ended(s).pausedMs = s.pausedMs
      /\ Ended(s).startedAt = s.startedAt
      /\ Ended(s).activeSince = Never
      /\ Ended(s).pausedSince = IF paused THEN clock ELSE s.pausedSince
  BY <1>2, <1>3 DEF Fields
<1>5. IsCheckpoint(Ended(s))
  BY <1>1, <1>2, <1>4 DEF IsCheckpoint, Never
<1>6. status # "PREPARED"
  BY <1>2
<1>7. status = "PAUSED" => paused /\ active >= 0
  BY <1>1, <1>2
<1>8. ASSUME Ended(s).status = "PAUSED"
      PROVE  /\ Ended(s).pausedSince # Never /\ Ended(s).startedAt # Never
             /\ Accounted(Ended(s), Ended(s).pausedSince)
  <2>1. paused /\ active >= 0
    BY <1>8, <1>4, <1>7
  <2> QED
    BY <2>1, <1>1, <1>2, <1>4 DEF Accounted, Never
<1>9. Ended(s).status # "PREPARED"
  BY <1>4, <1>6
<1> QED
  BY <1>5, <1>8, <1>9 DEF StartsTrue

\* The three ways a session ends, one of which leaves the file as it was.
LEMMA EndSessionKeepsTime ==
  ASSUME TimeInv, EndSession
  PROVE  TimeInv'
<1>1. /\ IsCheckpoint(state) /\ Open(state) /\ state.startedAt # Never
      /\ Accounted(state, state.activeSince)
      /\ IsCheckpoint(saved) /\ StartsTrue(saved)
  BY DEF TimeInv, EndSession, TimeIsAccounted, Accounted
<1>2. IsCheckpoint(Ended(state)) /\ StartsTrue(Ended(state))
  BY <1>1, EndedIsTrue DEF Open
<1>3. IsCheckpoint(Ended(NotRestored(state))) /\ StartsTrue(Ended(NotRestored(state)))
  <2>1. DOMAIN state = Fields
    BY <1>1 DEF IsCheckpoint
  <2>2. SameAccount(state, NotRestored(state)) /\ NotRestored(state).status = "REVIEW_REQUIRED"
    BY <2>1, OperationsKeepAccount
  <2>3. /\ IsCheckpoint(NotRestored(state)) /\ NotRestored(state).startedAt # Never
        /\ Accounted(NotRestored(state), NotRestored(state).activeSince)
    BY <1>1, <2>2 DEF SameAccount, IsCheckpoint, Accounted
  <2> QED
    BY <2>2, <2>3, EndedIsTrue
<1>4. IsCheckpoint(saved') /\ StartsTrue(saved')
  BY <1>1, <1>2, <1>3 DEF EndSession
<1>5. state' = saved' /\ at' = "idle" /\ clock' = clock
  BY DEF EndSession
<1> QED
  BY <1>4, <1>5 DEF TimeInv, TimeIsAccounted

\* Every step keeps the accounts true.
LEMMA NextKeepsTime ==
  ASSUME TimeInv, [Next]_pilotVars
  PROVE  TimeInv'
<1>1. DOMAIN state = Fields
  BY DEF TimeInv, IsCheckpoint
<1>2. /\ SameAccount(state, Failed(state)) /\ Open(Failed(state))
      /\ SameAccount(state, Noticed(state)) /\ Noticed(state).status = state.status
      /\ SameAccount(state, WithRecord(state)) /\ WithRecord(state).status = state.status
      /\ \A x : SameAccount(state, [state EXCEPT !.status = x])
      /\ \A x : [state EXCEPT !.status = x].status = x
  BY <1>1, OperationsKeepAccount
<1>3. DOMAIN Noticed(state) = Fields /\ DOMAIN WithRecord(state) = Fields
  BY <1>2 DEF SameAccount
<1>4. CASE Launch
  BY <1>4, LaunchKeepsTime
<1>5. CASE Prepare
  BY <1>5, <1>1, AccountKept DEF Prepare, TimeInv, SameAccount
<1>6. CASE StepFails \/ BudgetStops
  <2>1. /\ at # "idle" /\ state' = Failed(state) /\ at' = "cleanup"
        /\ clock' = clock /\ saved' = saved
    BY <1>6 DEF StepFails, BudgetStops, Fail
  <2> QED
    BY <2>1, <1>2, AccountKept
<1>7. CASE Pause
  <2>1. /\ at # "idle" /\ at' = "cleanup" /\ clock' = clock
        /\ state' = [Noticed(state) EXCEPT !.status = "PAUSING"] /\ saved' = state'
    BY <1>7 DEF Pause, MayGoOn, Save
  <2>2. SameAccount(Noticed(state), state') /\ Open(state')
    BY SMTT(30), <2>1, <1>3, OperationsKeepAccount DEF Open
  <2> QED
    BY <2>1, <2>2, <1>2, SameAccountTransitive, AccountKept
<1>8. CASE Decide
  <2>1. /\ at # "idle" /\ at' = "cleanup" /\ clock' = clock /\ saved' = state'
        /\ \/ state' = [state EXCEPT !.status = "COMPLETE"]
           \/ state' = [Noticed(state) EXCEPT !.status = "COMPLETE"]
    BY <1>8 DEF Decide, Save
  <2>2. SameAccount(state, state') /\ Open(state')
    <3>1. CASE state' = [state EXCEPT !.status = "COMPLETE"]
      BY <3>1, <1>2 DEF Open
    <3>2. CASE state' = [Noticed(state) EXCEPT !.status = "COMPLETE"]
      BY SMTT(30), <3>2, <1>2, <1>3, OperationsKeepAccount, SameAccountTransitive DEF Open
    <3> QED
      BY <2>1, <3>1, <3>2
  <2> QED
    BY <2>1, <2>2, AccountKept
<1>9. CASE PlanBatch
  <2>1. PICK batch : state' = [Noticed(state) EXCEPT !.batches = Append(@, batch)]
    BY <1>9 DEF PlanBatch, Save
  <2>2. at = "loop" /\ at' = at /\ clock' = clock /\ saved' = state'
    BY <1>9 DEF PlanBatch, MayGoOn, Save
  <2>3. SameAccount(Noticed(state), state') /\ state'.status = state.status
    BY <2>1, <1>2, <1>3 DEF SameAccount, Fields
  <2>4. Open(state')
    BY <2>2, <2>3 DEF TimeInv, Open
  <2> QED
    BY <2>2, <2>3, <2>4, <1>2, SameAccountTransitive, AccountKept
<1>10. CASE BeginRun
  <2>1. /\ at # "idle" /\ at' = "running" /\ clock' = clock /\ saved' = state'
        /\ state' = [Noticed(state) EXCEPT !.status = "RUNNING", !.currentRun = NextRun(state)]
    BY <1>10 DEF BeginRun, MayGoOn, Save
  <2>2. SameAccount(Noticed(state), state') /\ state'.status = "RUNNING"
    BY <2>1, <1>3 DEF SameAccount, Fields
  <2> QED
    BY <2>1, <2>2, <1>2, SameAccountTransitive, AccountKept DEF Open
<1>11. CASE RecordRun
  <2>1. /\ at # "idle" /\ at' = "loop" /\ clock' = clock
        /\ state' = WithRecord(state) /\ saved' = state'
    BY <1>11 DEF RecordRun, Save
  <2>2. Open(state')
    BY <2>1, <1>2 DEF TimeInv, Open
  <2> QED
    BY <2>1, <2>2, <1>2, AccountKept
<1>12. CASE RecordRunForReview
  <2>1. /\ at # "idle" /\ at' = "cleanup" /\ clock' = clock
        /\ saved' = WithRecord(state) /\ state' = Failed(WithRecord(state))
    BY <1>12 DEF RecordRunForReview
  <2>2. SameAccount(WithRecord(state), state') /\ Open(state')
    BY <2>1, <1>3, OperationsKeepAccount
  <2>3. Open(saved')
    BY <2>1, <1>2 DEF TimeInv, Open
  <2> QED
    BY <2>1, <2>2, <2>3, <1>2, SameAccountTransitive, AccountKept
<1>13. CASE Cleanup
  <2>1. /\ at # "idle" /\ at' = "restore" /\ clock' = clock /\ saved' = saved
        /\ \/ state' = [state EXCEPT !.clean = TRUE]
           \/ state' = [state EXCEPT !.clean = FALSE, !.status = "REVIEW_REQUIRED"]
    BY <1>13 DEF Cleanup
  <2>2. SameAccount(state, state') /\ state'.status \in {state.status, "REVIEW_REQUIRED"}
    BY <2>1, <1>1 DEF SameAccount, Fields
  <2>3. Open(state')
    BY <2>1, <2>2 DEF TimeInv, Open
  <2> QED
    BY <2>1, <2>2, <2>3, AccountKept
<1>14. CASE EndSession
  BY <1>14, EndSessionKeepsTime
<1>15. CASE Killed
  BY <1>15 DEF Killed, TimeInv, TimeIsAccounted
<1>16. CASE Tick \/ SetClockBack
  <2>1. clock' \in Nat
    BY <1>16 DEF Tick, SetClockBack, TimeInv
  <2>2. at' = at /\ state' = state /\ saved' = saved
    BY <1>16 DEF Tick, SetClockBack
  <2> QED
    BY <2>1, <2>2 DEF TimeInv, TimeIsAccounted
<1>17. CASE RequestPause \/ Signal \/ RemoveStaleLock \/ UNCHANGED pilotVars
  <2>1. at' = at /\ state' = state /\ saved' = saved /\ clock' = clock
    BY <1>17 DEF RequestPause, Signal, RemoveStaleLock, pilotVars
  <2> QED
    BY <2>1 DEF TimeInv, TimeIsAccounted
<1> QED
  BY <1>4, <1>5, <1>6, <1>7, <1>8, <1>9, <1>10, <1>11, <1>12, <1>13, <1>14, <1>15, <1>16, <1>17
  DEF Next, ControllerStep

\* The invariant of the time accounts, of the object and of the file.
THEOREM PilotTimeInvariant == Spec => []TimeInv
<1>1. TimeInv /\ [Next]_pilotVars => TimeInv'
  BY NextKeepsTime
<1> QED
  BY InitTime, <1>1, PTL DEF Spec

\* "Neither budget resets": while a session runs, active and paused time add up to the
\* time since the first session began, whatever was paused, resumed, killed or failed.
THEOREM PilotTimeIsAccounted == Spec => []TimeIsAccounted
<1>1. TimeInv => TimeIsAccounted
  BY DEF TimeInv
<1> QED
  BY PilotTimeInvariant, <1>1, PTL
-------------------------------------------------------------------------------
(* The trials the records may lack *)

IsLog(q) == q \in Seq(Range(q))

\* The log of t is that of s.
SameLog(s, t) == t.records = s.records

LossInv ==
  /\ DOMAIN state = Fields /\ DOMAIN saved = Fields
  /\ IsLog(state.records) /\ IsLog(saved.records)
  /\ at \in {"idle", "prepare", "loop", "running", "cleanup", "restore"}
  /\ at # "idle" => Open(saved)
  /\ saved.status = "PREPARED" => trials = {}
  /\ saved.status = "PAUSED" => trials \subseteq Recorded(saved)
  /\ at \in {"prepare", "loop", "running"} => state = saved
  /\ at \in {"prepare", "loop"} => trials \subseteq Recorded(saved)
  /\ at = "running" => trials \subseteq Recorded(saved) \union {state.currentRun}
  /\ at \in {"cleanup", "restore"} =>
       /\ state.status \notin {"PREPARED", "PAUSED"}
       /\ state.status = "PAUSING" => trials \subseteq Recorded(state)

\* A record more is in the log, and the log is still one.
LEMMA AppendToLog ==
  ASSUME NEW q, IsLog(q), NEW e
  PROVE  IsLog(Append(q, e)) /\ Range(Append(q, e)) = Range(q) \union {e}
<1> DEFINE T == Range(q) \union {e}
<1>1. q \in Seq(T) /\ e \in T
  BY DEF IsLog
<1>2. Append(q, e) \in Seq(T) /\ DOMAIN q = 1..Len(q)
  BY <1>1
<1>3. /\ DOMAIN Append(q, e) = 1..(Len(q) + 1) /\ Len(q) \in Nat
      /\ \A i \in 1..Len(q) : Append(q, e)[i] = q[i]
      /\ Append(q, e)[Len(q) + 1] = e
  BY <1>1
<1>4. Range(Append(q, e)) = T
  BY <1>2, <1>3 DEF Range
<1> QED
  BY <1>2, <1>4 DEF IsLog

\* Nothing but a recorded run touches the log.
LEMMA OperationsKeepLog ==
  ASSUME NEW s, DOMAIN s = Fields
  PROVE  /\ DOMAIN Failed(s) = Fields /\ SameLog(s, Failed(s))
         /\ Failed(s).status \in {"INTERRUPTED", "REVIEW_REQUIRED"}
         /\ DOMAIN Noticed(s) = Fields /\ SameLog(s, Noticed(s))
         /\ DOMAIN NotRestored(s) = Fields /\ SameLog(s, NotRestored(s))
         /\ NotRestored(s).status = "REVIEW_REQUIRED"
         /\ \A x : DOMAIN [s EXCEPT !.status = x] = Fields /\ SameLog(s, [s EXCEPT !.status = x])
         /\ \A x : [s EXCEPT !.status = x].status = x
BY DEF SameLog, Failed, Noticed, NotRestored, Fields

\* Recording a run adds it to the log, and nothing else.
LEMMA RecordingLogs ==
  ASSUME NEW s, DOMAIN s = Fields, IsLog(s.records)
  PROVE  /\ DOMAIN WithRecord(s) = Fields /\ WithRecord(s).status = s.status
         /\ IsLog(WithRecord(s).records)
         /\ Recorded(WithRecord(s)) = Recorded(s) \union {s.currentRun}
<1> DEFINE e == [run |-> s.currentRun, session |-> Session]
<1>1. /\ DOMAIN WithRecord(s) = Fields /\ WithRecord(s).status = s.status
      /\ WithRecord(s).records = Append(s.records, e)
  BY DEF WithRecord, Fields
<1>2. IsLog(Append(s.records, e)) /\ Range(Append(s.records, e)) = Range(s.records) \union {e}
  BY AppendToLog
<1>3. e.run = s.currentRun
  OBVIOUS
<1> HIDE DEF e
<1> QED
  BY <1>1, <1>2, <1>3 DEF Recorded

\* Ending a session keeps the log, and saves a pause only for one that was pausing.
LEMMA EndingKeepsLog ==
  ASSUME NEW s, DOMAIN s = Fields, s.status \notin {"PREPARED", "PAUSED"}
  PROVE  /\ DOMAIN Ended(s) = Fields /\ SameLog(s, Ended(s))
         /\ Ended(s).status # "PREPARED"
         /\ Ended(s).status = "PAUSED" => s.status = "PAUSING"
<1> DEFINE active == clock - s.activeSince
           timed == IF active < 0 THEN [s EXCEPT !.status = "REVIEW_REQUIRED"]
                    ELSE [s EXCEPT !.activeMs = @ + active, !.sessions[Session].activeMs = active]
           paused == timed.status = "PAUSING"
           status == IF paused THEN "PAUSED" ELSE timed.status
<1>1. /\ DOMAIN timed = Fields /\ timed.records = s.records
      /\ timed.status \in {"REVIEW_REQUIRED", s.status}
  <2> HIDE DEF active
  <2> QED
    BY DEF Fields
<1>2. Ended(s) = [timed EXCEPT !.activeSince = Never, !.status = status,
                    !.pausedSince = IF paused THEN clock ELSE @,
                    !.sessions[Session].endedAt = clock, !.sessions[Session].status = status]
  BY DEF Ended
<1> HIDE DEF timed
<1> QED
  BY <1>1, <1>2 DEF SameLog, Fields

\* No trial exists before the first session.
LEMMA InitLoss == Init => LossInv
<1> SUFFICES ASSUME Init PROVE LossInv
  OBVIOUS
<1>1. DOMAIN NewPilotState = Fields
  BY DEF NewPilotState, Fields
<1>2. IsLog(<<>>)
  BY DEF IsLog
<1>3. NewPilotState.records = <<>> /\ NewPilotState.status = "PREPARED"
  BY DEF NewPilotState
<1> QED
  BY <1>1, <1>2, <1>3 DEF Init, LossInv

\* A step to the cleanup with a log that no trial is missing from, if it is to pause.
LEMMA ToCleanup ==
  ASSUME LossInv, at # "idle", at' \in {"cleanup", "restore"}, trials' = trials,
         DOMAIN state' = Fields, IsLog(state'.records),
         state'.status \notin {"PREPARED", "PAUSED"},
         state'.status = "PAUSING" => trials \subseteq Recorded(state'),
         saved' = saved \/ (DOMAIN saved' = Fields /\ IsLog(saved'.records) /\ Open(saved'))
  PROVE  LossInv'
BY DEF LossInv, Open

\* A step of the loop that saves the object with its log unchanged.
LEMMA LoopKeepsLoss ==
  ASSUME LossInv, at = "loop", at' \in {"loop", "running"}, saved' = state',
         DOMAIN state' = Fields, SameLog(state, state'), Open(state'),
         trials' = trials \/ (at' = "running" /\ trials' = trials \union {state'.currentRun})
  PROVE  LossInv'
BY DEF LossInv, SameLog, Open, Recorded

\* Every step keeps what is known of the trials the records lack.
LEMMA NextKeepsLoss ==
  ASSUME TimeInv, LossInv, [Next]_pilotVars
  PROVE  LossInv'
<1>1. DOMAIN state = Fields /\ DOMAIN saved = Fields /\ IsLog(state.records) /\ IsLog(saved.records)
  BY DEF LossInv
<1>2. /\ DOMAIN Noticed(state) = Fields /\ SameLog(state, Noticed(state))
      /\ Noticed(state).status = state.status
  BY <1>1, OperationsKeepLog, OperationsKeepAccount
<1>3. at # "idle" => Open(state)
  BY DEF TimeInv
<1>4. CASE Launch
  <2>1. /\ DOMAIN saved' = Fields /\ saved'.status = "PREPARING" /\ saved'.records = saved.records
        /\ state' = saved' /\ at' = "prepare" /\ trials' = trials
    BY <1>1, <1>4 DEF Launch, Save, Fields
  <2>2. trials \subseteq Recorded(saved)
    BY <1>4 DEF Launch, CanStartFresh, CanResume, LossInv
  <2> QED
    BY <2>1, <2>2, <1>1 DEF LossInv, Recorded, Open
<1>5. CASE Prepare
  BY <1>5 DEF Prepare, LossInv
<1>6. CASE StepFails \/ BudgetStops
  <2>1. /\ at # "idle" /\ state' = Failed(state) /\ at' = "cleanup"
        /\ trials' = trials /\ saved' = saved
    BY <1>6 DEF StepFails, BudgetStops, Fail
  <2>2. /\ DOMAIN state' = Fields /\ SameLog(state, state')
        /\ state'.status \in {"INTERRUPTED", "REVIEW_REQUIRED"}
    BY <2>1, <1>1, OperationsKeepLog
  <2> QED
    BY <2>1, <2>2, <1>1, ToCleanup DEF SameLog
<1>7. CASE Pause
  <2>1. /\ at = "loop" /\ at' = "cleanup" /\ trials' = trials
        /\ state' = [Noticed(state) EXCEPT !.status = "PAUSING"] /\ saved' = state'
    BY <1>7 DEF Pause, MayGoOn, Save
  <2>2. DOMAIN state' = Fields /\ state'.records = state.records /\ state'.status = "PAUSING"
    BY <2>1, <1>2, OperationsKeepLog DEF SameLog
  <2>3. trials \subseteq Recorded(state')
    BY <2>1, <2>2 DEF LossInv, Recorded
  <2> QED
    BY <2>1, <2>2, <2>3, <1>1, ToCleanup DEF Open
<1>8. CASE Decide
  <2>1. /\ at = "loop" /\ at' = "cleanup" /\ trials' = trials /\ saved' = state'
        /\ \/ state' = [state EXCEPT !.status = "COMPLETE"]
           \/ state' = [Noticed(state) EXCEPT !.status = "COMPLETE"]
    BY <1>8 DEF Decide, Save
  <2>2. DOMAIN state' = Fields /\ state'.records = state.records /\ state'.status = "COMPLETE"
    <3>1. CASE state' = [state EXCEPT !.status = "COMPLETE"]
      BY <3>1, <1>1, OperationsKeepLog DEF SameLog
    <3>2. CASE state' = [Noticed(state) EXCEPT !.status = "COMPLETE"]
      BY <3>2, <1>2, OperationsKeepLog DEF SameLog
    <3> QED
      BY <2>1, <3>1, <3>2
  <2> QED
    BY <2>1, <2>2, <1>1, ToCleanup DEF Open
<1>9. CASE PlanBatch
  <2>1. PICK batch : state' = [Noticed(state) EXCEPT !.batches = Append(@, batch)]
    BY <1>9 DEF PlanBatch, Save
  <2>2. at = "loop" /\ at' = at /\ trials' = trials /\ saved' = state'
    BY <1>9 DEF PlanBatch, MayGoOn, Save
  <2>3. DOMAIN state' = Fields /\ SameLog(state, state') /\ state'.status = state.status
    BY <2>1, <1>2 DEF SameLog, Fields
  <2>4. Open(state')
    BY <2>2, <2>3, <1>3 DEF Open
  <2> QED
    BY <2>2, <2>3, <2>4, LoopKeepsLoss
<1>10. CASE BeginRun
  <2>1. /\ at = "loop" /\ at' = "running" /\ saved' = state'
        /\ trials' = trials \union {NextRun(state)}
        /\ state' = [Noticed(state) EXCEPT !.status = "RUNNING", !.currentRun = NextRun(state)]
    BY <1>10 DEF BeginRun, MayGoOn, Save
  <2>2. /\ DOMAIN state' = Fields /\ SameLog(state, state')
        /\ state'.status = "RUNNING" /\ state'.currentRun = NextRun(state)
    BY <2>1, <1>2 DEF SameLog, Fields
  <2> QED
    BY <2>1, <2>2, LoopKeepsLoss DEF Open
<1>11. CASE RecordRun
  <2>1. /\ at = "running" /\ at' = "loop" /\ trials' = trials
        /\ state' = WithRecord(state) /\ saved' = state' /\ state = saved
    BY <1>11 DEF RecordRun, Save, LossInv
  <2>2. /\ DOMAIN state' = Fields /\ state'.status = state.status /\ IsLog(state'.records)
        /\ Recorded(state') = Recorded(state) \union {state.currentRun}
    BY <2>1, <1>1, RecordingLogs
  <2>3. trials' \subseteq Recorded(saved')
    BY <2>1, <2>2 DEF LossInv
  <2>4. Open(saved')
    BY <2>1, <2>2, <1>3 DEF Open
  <2> QED
    BY <2>1, <2>2, <2>3, <2>4 DEF LossInv, Open
<1>12. CASE RecordRunForReview
  <2>1. /\ at = "running" /\ at' = "cleanup" /\ trials' = trials
        /\ saved' = WithRecord(state) /\ state' = Failed(WithRecord(state))
    BY <1>12 DEF RecordRunForReview
  <2>2. DOMAIN saved' = Fields /\ saved'.status = state.status /\ IsLog(saved'.records)
    BY <2>1, <1>1, RecordingLogs
  <2>3. /\ DOMAIN state' = Fields /\ state'.records = saved'.records
        /\ state'.status \in {"INTERRUPTED", "REVIEW_REQUIRED"}
    BY <2>1, <2>2, OperationsKeepLog DEF SameLog
  <2>4. Open(saved')
    BY <2>1, <2>2, <1>3 DEF Open
  <2> QED
    BY <2>1, <2>2, <2>3, <2>4, ToCleanup
<1>13. CASE Cleanup
  <2>1. /\ at = "cleanup" /\ at' = "restore" /\ trials' = trials /\ saved' = saved
        /\ \/ state' = [state EXCEPT !.clean = TRUE]
           \/ state' = [state EXCEPT !.clean = FALSE, !.status = "REVIEW_REQUIRED"]
    BY <1>13 DEF Cleanup
  <2>2. /\ DOMAIN state' = Fields /\ state'.records = state.records
        /\ state'.status \in {state.status, "REVIEW_REQUIRED"}
    BY <2>1, <1>1 DEF Fields
  <2>3. /\ state'.status \notin {"PREPARED", "PAUSED"}
        /\ state'.status = "PAUSING" => trials \subseteq Recorded(state')
    BY <2>1, <2>2 DEF LossInv, Recorded
  <2> QED
    BY <2>1, <2>2, <2>3, <1>1, ToCleanup
<1>14. CASE EndSession
  <2>1. /\ at = "restore" /\ at' = "idle" /\ state' = saved' /\ trials' = trials
        /\ saved' \in {Ended(state), Ended(NotRestored(state)), saved}
    BY <1>14 DEF EndSession
  <2>2. /\ state.status \notin {"PREPARED", "PAUSED"} /\ Open(saved)
        /\ state.status = "PAUSING" => trials \subseteq Recorded(state)
    BY <2>1 DEF LossInv
  <2>3. CASE saved' = Ended(state)
    <3>1. /\ DOMAIN saved' = Fields /\ saved'.records = state.records
          /\ saved'.status # "PREPARED" /\ (saved'.status = "PAUSED" => state.status = "PAUSING")
      BY <2>2, <2>3, <1>1, EndingKeepsLog DEF SameLog
    <3> QED
      BY <3>1, <2>1, <2>2, <1>1 DEF LossInv, Recorded
  <2>4. CASE saved' = Ended(NotRestored(state))
    <3>1. /\ DOMAIN NotRestored(state) = Fields /\ NotRestored(state).records = state.records
          /\ NotRestored(state).status = "REVIEW_REQUIRED"
      BY <1>1, OperationsKeepLog DEF SameLog
    <3>2. /\ DOMAIN saved' = Fields /\ saved'.records = state.records
          /\ saved'.status \notin {"PREPARED", "PAUSED"}
      BY <3>1, <2>4, EndingKeepsLog DEF SameLog
    <3> QED
      BY <3>2, <2>1, <1>1 DEF LossInv
  <2>5. CASE saved' = saved
    BY <2>5, <2>1, <2>2, <1>1 DEF LossInv, Open
  <2> QED
    BY <2>1, <2>3, <2>4, <2>5
<1>15. CASE Killed
  BY <1>15 DEF Killed, LossInv, Open
<1>16. CASE \/ Tick \/ SetClockBack \/ RequestPause \/ Signal \/ RemoveStaleLock
            \/ UNCHANGED pilotVars
  <2>1. at' = at /\ state' = state /\ saved' = saved /\ trials' = trials
    BY <1>16 DEF Tick, SetClockBack, RequestPause, Signal, RemoveStaleLock, pilotVars
  <2> QED
    BY <2>1 DEF LossInv
<1> QED
  BY <1>4, <1>5, <1>6, <1>7, <1>8, <1>9, <1>10, <1>11, <1>12, <1>13, <1>14, <1>15, <1>16
  DEF Next, ControllerStep

\* A trial starts in BeginRun alone.
LEMMA OnlyBeginRunStarts ==
  ASSUME [Next]_pilotVars, trials' # trials
  PROVE  BeginRun
BY DEF Next, ControllerStep, Launch, Prepare, StepFails, BudgetStops, Fail, Pause, Decide,
       PlanBatch, RecordRun, RecordRunForReview, Cleanup, EndSession, RequestPause, Signal,
       Killed, RemoveStaleLock, Tick, SetClockBack, pilotVars

\* A trial whose result was lost is the last one of its evidence root: NoTrialAfterLoss,
\* for any protocol and any number of sessions and faults.
THEOREM PilotNoTrialAfterLoss == Spec => NoTrialAfterLoss
<1>1. TimeInv /\ LossInv /\ [Next]_pilotVars => LossInv'
  BY NextKeepsLoss
<1>2. LossInv /\ [Next]_pilotVars => [trials' # trials => trials \subseteq Recorded(saved)]_pilotVars
  BY OnlyBeginRunStarts DEF BeginRun, MayGoOn, LossInv
<1>3. Spec => []LossInv
  BY InitLoss, PilotTimeInvariant, <1>1, PTL DEF Spec
<1> QED
  BY <1>2, <1>3, PTL DEF Spec, NoTrialAfterLoss

-------------------------------------------------------------------------------
(* Sequences put together from sequences.  FlattenSeq is recursive: each fact  *)
(* about it is an induction over the length of the beginning it has reached,   *)
(* and each induction is the smallest of its counterexamples.                  *)

\* Every set of natural numbers has a smallest one.
LEMMA SmallestNumber ==
  ASSUME NEW T, T \subseteq Nat, T # {}
  PROVE  \E m \in T : \A n \in T : m <= n
<1>1. PICK m \in T : \A n \in T : ~ (<<n, m>> \in OpToRel(<, Nat))
  BY NatLessThanWellFounded, WFMin
<1>2. \A n \in T : ~ (n < m)
  BY <1>1 DEF OpToRel
<1> QED
  BY <1>2

\* The recursion of FlattenSeq over the first n sequences of q.
Flattening(h, q, n) ==
  h = [i \in 1..n |-> IF i = 1 THEN q[i] ELSE h[i - 1] \o q[i]]

\* Two of them agree as far as their sequences do.
LEMMA FlatteningsAgree ==
  ASSUME NEW q, NEW r, NEW n \in Nat, NEW l \in Nat, NEW m \in Nat, m <= n, m <= l,
         \A i \in 1..m : q[i] = r[i],
         NEW h, NEW k, Flattening(h, q, n), Flattening(k, r, l)
  PROVE  \A i \in 1..m : h[i] = k[i]
<1> DEFINE T == {i \in 1..m : h[i] # k[i]}
<1>1. SUFFICES ASSUME T # {} PROVE FALSE
  OBVIOUS
<1>2. PICK i \in T : \A j \in T : i <= j
  <2> HIDE DEF T
  <2>1. T \subseteq Nat
    BY DEF T
  <2> QED
    BY <1>1, <2>1, SmallestNumber
<1>3. i \in 1..n /\ i \in 1..l /\ i \in Nat
  BY <1>2
<1>4. /\ h[i] = IF i = 1 THEN q[i] ELSE h[i - 1] \o q[i]
      /\ k[i] = IF i = 1 THEN r[i] ELSE k[i - 1] \o r[i]
  BY <1>3 DEF Flattening
<1>5. i # 1
  BY <1>2, <1>4
<1>6. i - 1 \in 1..m /\ ~(i <= i - 1)
  BY <1>2, <1>3, <1>5
<1>7. h[i - 1] = k[i - 1]
  BY <1>2, <1>6
<1> QED
  BY <1>2, <1>4, <1>5, <1>7

\* There is one for every sequence.
LEMMA FlatteningExists ==
  ASSUME NEW q, NEW n \in Nat
  PROVE  \E h : Flattening(h, q, n)
<1> DEFINE T == {i \in Nat : ~ \E h : Flattening(h, q, i)}
<1>1. SUFFICES ASSUME T # {} PROVE FALSE
  OBVIOUS
<1>2. PICK m \in T : \A j \in T : m <= j
  <2> HIDE DEF T
  <2>1. T \subseteq Nat
    BY DEF T
  <2> QED
    BY <1>1, <2>1, SmallestNumber
<1>3. m # 0
  <2>1. Flattening([i \in 1..0 |-> 0], q, 0)
    BY DEF Flattening
  <2> QED
    BY <1>2, <2>1
<1>4. PICK h : Flattening(h, q, m - 1)
  <2>1. m - 1 \in Nat /\ ~(m <= m - 1)
    BY <1>2, <1>3
  <2> QED
    BY <1>2, <2>1
<1> DEFINE g == [i \in 1..m |-> IF i < m THEN h[i] ELSE IF m = 1 THEN q[m] ELSE h[m - 1] \o q[m]]
<1>5. ASSUME NEW i \in 1..m
      PROVE  g[i] = IF i = 1 THEN q[i] ELSE g[i - 1] \o q[i]
  <2>0. m \in Nat /\ i \in Nat
    BY <1>2
  <2>1. CASE i < m
    <3>1. i \in 1..(m - 1) /\ g[i] = h[i]
      BY <2>0, <2>1
    <3>2. h[i] = IF i = 1 THEN q[i] ELSE h[i - 1] \o q[i]
      BY <3>1, <1>4 DEF Flattening
    <3>3. i # 1 => g[i - 1] = h[i - 1]
      BY <2>0, <2>1
    <3> QED
      BY <3>1, <3>2, <3>3
  <2>2. CASE i = m
    <3>1. g[m] = IF m = 1 THEN q[m] ELSE h[m - 1] \o q[m]
      BY <2>0, <2>2
    <3>2. m # 1 => g[m - 1] = h[m - 1]
      BY <2>0, <2>2
    <3> QED
      BY <2>2, <3>1, <3>2
  <2> QED
    BY <2>0, <2>1, <2>2
<1>6. g = [i \in 1..m |-> g[i]]
  OBVIOUS
<1>7. Flattening(g, q, m)
  <2> HIDE DEF g
  <2> QED
    BY <1>5, <1>6 DEF Flattening
<1> QED
  BY <1>2, <1>7

\* FlattenSeq is what any of them yields for the whole sequence.
LEMMA FlattenByFlattening ==
  ASSUME NEW q, Len(q) \in Nat \ {0}, NEW n \in Nat, n >= Len(q),
         NEW r, \A i \in 1..Len(q) : q[i] = r[i],
         NEW h, Flattening(h, r, n)
  PROVE  FlattenSeq(q) = h[Len(q)]
<1>1. Len(q) \in Nat /\ Len(q) # 0
  OBVIOUS
<1>2. PICK m \in Nat : m = Len(q)
  BY <1>1
<1>3. PICK k : k = CHOOSE g : Flattening(g, q, m)
  OBVIOUS
<1>4. FlattenSeq(q) = k[m]
  BY <1>1, <1>2, <1>3 DEF FlattenSeq, Flattening
<1>5. Flattening(k, q, m)
  BY <1>3, FlatteningExists
<1>6. /\ Flattening(h, r, n) /\ m \in Nat /\ n \in Nat /\ m <= m /\ m <= n
      /\ \A i \in 1..m : q[i] = r[i]
  BY <1>2
<1>7. \A i \in 1..m : k[i] = h[i]
  BY ONLY <1>5, <1>6, FlatteningsAgree
<1> QED
  BY <1>1, <1>2, <1>4, <1>7

\* Sequences over X make a sequence over X.
LEMMA FlattenType ==
  ASSUME NEW X, NEW q \in Seq(Seq(X))
  PROVE  FlattenSeq(q) \in Seq(X)
<1> DEFINE n == Len(q)
<1>1. n \in Nat /\ \A i \in 1..n : q[i] \in Seq(X)
  BY LenProperties, ElementOfSeq
<1>2. PICK h : Flattening(h, q, n)
  BY <1>1, FlatteningExists
<1> DEFINE T == {i \in 1..n : h[i] \notin Seq(X)}
<1>3. T = {}
  <2>1. SUFFICES ASSUME T # {} PROVE FALSE
    OBVIOUS
  <2>2. PICK m \in T : \A j \in T : m <= j
    <3> HIDE DEF T
    <3>1. T \subseteq Nat
      BY DEF T
    <3> QED
      BY <2>1, <3>1, SmallestNumber
  <2>3. h[m] = IF m = 1 THEN q[m] ELSE h[m - 1] \o q[m]
    BY <1>2, <2>2 DEF Flattening
  <2>4. m \in 1..n /\ m # 1
    BY <1>1, <2>2, <2>3
  <2>5. m - 1 \in 1..n /\ ~(m <= m - 1)
    BY <1>1, <2>4
  <2>6. h[m - 1] \in Seq(X) /\ q[m] \in Seq(X)
    BY <1>1, <2>2, <2>4, <2>5
  <2> QED
    BY ZenonT(60), <2>2, <2>3, <2>4, <2>6, ConcatProperties
<1>4. CASE q = <<>>
  BY <1>4, EmptySeq DEF FlattenSeq
<1>5. CASE q # <<>>
  <2>1. n # 0 /\ FlattenSeq(q) = h[n]
    BY <1>1, <1>2, <1>5, EmptySeq, FlattenByFlattening
  <2> QED
    BY <1>1, <1>3, <2>1
<1> QED
  BY <1>4, <1>5

\* One more sequence goes to the end.
LEMMA FlattenAppend ==
  ASSUME NEW X, NEW q \in Seq(Seq(X)), NEW e \in Seq(X)
  PROVE  FlattenSeq(Append(q, e)) = FlattenSeq(q) \o e
<1> DEFINE n == Len(q)
           a == Append(q, e)
<1>1. /\ n \in Nat /\ a \in Seq(Seq(X)) /\ a # <<>> /\ Len(a) = n + 1
      /\ \A i \in 1..n : a[i] = q[i]
      /\ a[n + 1] = e
  BY LenProperties, AppendProperties
<1> HIDE DEF a
<1>2. PICK h : Flattening(h, a, n + 1)
  <2>1. n + 1 \in Nat
    BY <1>1
  <2> QED
    BY <2>1, FlatteningExists
<1>3. FlattenSeq(a) = h[n + 1]
  <2>1. /\ n + 1 \in Nat /\ n + 1 >= Len(a) /\ Len(a) \in Nat \ {0}
        /\ \A i \in 1..Len(a) : a[i] = a[i]
    BY <1>1
  <2>2. FlattenSeq(a) = h[Len(a)]
    BY ONLY <1>2, <2>1, FlattenByFlattening
  <2> QED
    BY <1>1, <2>2
<1>4. h[n + 1] = IF n + 1 = 1 THEN a[n + 1] ELSE h[(n + 1) - 1] \o a[n + 1]
  <2>1. n + 1 \in 1..(n + 1)
    BY <1>1
  <2> HIDE DEF n
  <2> QED
    BY <1>2, <2>1 DEF Flattening
<1>5. CASE q = <<>>
  <2>1. n = 0 /\ FlattenSeq(q) = <<>>
    BY <1>5, EmptySeq DEF FlattenSeq
  <2>2. <<>> \o e = e
    BY ConcatEmptySeq
  <2> QED
    BY <1>1, <1>3, <1>4, <2>1, <2>2 DEF a
<1>6. CASE q # <<>>
  <2>1. n # 0
    BY <1>6, EmptySeq
  <2>2. FlattenSeq(q) = h[n]
    <3>1. n + 1 \in Nat /\ n + 1 >= Len(q) /\ Len(q) \in Nat \ {0}
      BY <1>1, <2>1
    <3>2. \A i \in 1..Len(q) : q[i] = a[i]
      BY <1>1
    <3> QED
      BY ONLY <1>2, <3>1, <3>2, FlattenByFlattening
  <2>3. n + 1 # 1 /\ (n + 1) - 1 = n
    BY <1>1, <2>1
  <2> QED
    BY <1>1, <1>3, <1>4, <2>2, <2>3 DEF a
<1> QED
  BY <1>5, <1>6

\* So does an element that the last sequence gets.
LEMMA FlattenExtendLast ==
  ASSUME NEW X, NEW q \in Seq(Seq(X)), q # <<>>, NEW e \in X
  PROVE  FlattenSeq([q EXCEPT ![Len(q)] = Append(@, e)]) = Append(FlattenSeq(q), e)
<1>1. PICK f \in Seq(Seq(X)), t \in Seq(X) : q = Append(f, t)
  BY SequenceEmptyOrAppend
<1>2. /\ Len(f) \in Nat /\ Len(q) = Len(f) + 1 /\ q[Len(f) + 1] = t
      /\ \A i \in 1..Len(f) : q[i] = f[i]
  BY <1>1, AppendProperties, LenProperties
<1>3. Append(t, e) \in Seq(X)
  BY AppendProperties
<1>4. [q EXCEPT ![Len(q)] = Append(@, e)] = Append(f, Append(t, e))
  <2> DEFINE l == [q EXCEPT ![Len(q)] = Append(t, e)]
             r == Append(f, Append(t, e))
  <2>0. Len(q) \in 1..Len(q) /\ q[Len(q)] = t
    BY <1>2
  <2>1. /\ l \in Seq(Seq(X)) /\ Len(l) = Len(q)
        /\ \A i \in 1..Len(q) : l[i] = IF i = Len(q) THEN Append(t, e) ELSE q[i]
    BY <1>3, <2>0, ExceptSeq
  <2>2. /\ r \in Seq(Seq(X)) /\ Len(r) = Len(f) + 1
        /\ \A i \in 1..Len(f) : r[i] = f[i]
        /\ r[Len(f) + 1] = Append(t, e)
    BY <1>3, AppendProperties
  <2>3. \A i \in 1..Len(l) : l[i] = r[i]
    <3> SUFFICES ASSUME NEW i \in 1..Len(q) PROVE l[i] = r[i]
      BY <2>1
    <3>1. i \in 1..Len(f) \/ i = Len(f) + 1
      BY <1>2
    <3>2. CASE i \in 1..Len(f)
      <4>1. i # Len(q) /\ q[i] = f[i]
        BY <1>2, <3>2
      <4> QED
        BY <2>1, <2>2, <3>2, <4>1
    <3>3. CASE i = Len(f) + 1
      BY <1>2, <2>1, <2>2, <3>3
    <3> QED
      BY <3>1, <3>2, <3>3
  <2>4. l = r
    <3>1. Len(l) = Len(r)
      BY <1>2, <2>1, <2>2
    <3> HIDE DEF l, r
    <3> QED
      BY <2>1, <2>2, <2>3, <3>1, SeqEqual
  <2> QED
    BY <2>0, <2>4
<1>5. /\ FlattenSeq(q) = FlattenSeq(f) \o t
      /\ FlattenSeq(Append(f, Append(t, e))) = FlattenSeq(f) \o Append(t, e)
  BY <1>1, <1>3, FlattenAppend
<1>6. FlattenSeq(f) \o Append(t, e) = Append(FlattenSeq(f) \o t, e)
  <2>1. FlattenSeq(f) \in Seq(X) /\ <<e>> \in Seq(X)
    BY FlattenType
  <2>2. /\ Append(t, e) = t \o <<e>>
        /\ FlattenSeq(f) \o t \in Seq(X)
        /\ Append(FlattenSeq(f) \o t, e) = (FlattenSeq(f) \o t) \o <<e>>
    BY <2>1, AppendIsConcat, ConcatProperties
  <2> QED
    BY <2>1, <2>2, ConcatAssociative
<1> QED
  BY <1>4, <1>5, <1>6

\* A sequence of pairs makes a sequence of twice the length.
LEMMA FlattenPairs ==
  ASSUME NEW X, NEW q \in Seq(Seq(X)), \A i \in 1..Len(q) : Len(q[i]) = 2
  PROVE  /\ Len(FlattenSeq(q)) = 2 * Len(q)
         /\ \A j \in 1..Len(q) : /\ FlattenSeq(q)[2 * j - 1] = q[j][1]
                                 /\ FlattenSeq(q)[2 * j] = q[j][2]
<1> DEFINE n == Len(q)
<1>1. n \in Nat /\ \A i \in 1..n : q[i] \in Seq(X)
  BY LenProperties, ElementOfSeq
<1>2. PICK h : Flattening(h, q, n)
  BY <1>1, FlatteningExists
<1> DEFINE C(i) == /\ h[i] \in Seq(X)
                   /\ Len(h[i]) = 2 * i
                   /\ \A j \in 1..i : h[i][2 * j - 1] = q[j][1] /\ h[i][2 * j] = q[j][2]
           T == {i \in 1..n : ~C(i)}
<1>3. T = {}
  <2>1. SUFFICES ASSUME T # {} PROVE FALSE
    OBVIOUS
  <2>2. PICK m \in T : \A j \in T : m <= j
    <3> HIDE DEF T
    <3>1. T \subseteq Nat
      BY DEF T
    <3> QED
      BY <2>1, <3>1, SmallestNumber
  <2>3. h[m] = IF m = 1 THEN q[m] ELSE h[m - 1] \o q[m]
    BY <1>2, <2>2 DEF Flattening
  <2>4. m \in 1..n /\ m \in Nat /\ q[m] \in Seq(X) /\ Len(q[m]) = 2
    BY <1>1, <2>2
  <2>5. CASE m = 1
    <3>1. h[m] = q[m]
      BY <2>3, <2>5
    <3>2. \A j \in 1..1 : j = 1 /\ 2 * j - 1 = 1 /\ 2 * j = 2
      OBVIOUS
    <3>3. C(m)
      BY <2>4, <2>5, <3>1, <3>2
    <3> QED
      BY <2>2, <3>3
  <2>6. CASE m # 1
    <3>1. m - 1 \in 1..n /\ ~(m <= m - 1)
      BY <1>1, <2>4, <2>6
    <3>2. C(m - 1)
      BY <2>2, <3>1
    <3>3. h[m] = h[m - 1] \o q[m]
      BY <2>3, <2>6
    <3>4. /\ h[m] \in Seq(X) /\ Len(h[m]) = Len(h[m - 1]) + Len(q[m])
          /\ \A i \in 1..(Len(h[m - 1]) + Len(q[m])) :
               h[m][i] = IF i <= Len(h[m - 1]) THEN h[m - 1][i] ELSE q[m][i - Len(h[m - 1])]
      <4>1. h[m - 1] \in Seq(X)
        BY <3>2
      <4>2. \A u, v \in Seq(X) :
              /\ u \o v \in Seq(X) /\ Len(u \o v) = Len(u) + Len(v)
              /\ \A i \in 1..(Len(u) + Len(v)) :
                   (u \o v)[i] = IF i <= Len(u) THEN u[i] ELSE v[i - Len(u)]
        BY ConcatProperties
      <4>3. q[m] \in Seq(X)
        BY <2>4
      <4> HIDE DEF C, T
      <4>4. h[m] \in Seq(X) /\ Len(h[m]) = Len(h[m - 1]) + Len(q[m])
        BY <3>3, <4>1, <4>2, <4>3
      <4>5. \A i \in 1..(Len(h[m - 1]) + Len(q[m])) :
              (h[m - 1] \o q[m])[i] = IF i <= Len(h[m - 1]) THEN h[m - 1][i]
                                      ELSE q[m][i - Len(h[m - 1])]
        BY <4>1, <4>2, <4>3
      <4> QED
        BY <3>3, <4>4, <4>5
    <3>5. Len(h[m - 1]) = 2 * m - 2 /\ Len(h[m]) = 2 * m
      BY <2>4, <3>2, <3>4
    <3>6. ASSUME NEW j \in 1..m
          PROVE  h[m][2 * j - 1] = q[j][1] /\ h[m][2 * j] = q[j][2]
      <4>1. j \in Nat /\ 2 * j - 1 \in 1..(2 * m) /\ 2 * j \in 1..(2 * m)
        BY <2>4
      <4>2. CASE j \in 1..(m - 1)
        <5>1. 2 * j - 1 <= 2 * m - 2 /\ 2 * j <= 2 * m - 2
          BY <2>4, <4>2
        <5>2. h[m][2 * j - 1] = h[m - 1][2 * j - 1] /\ h[m][2 * j] = h[m - 1][2 * j]
          BY <2>4, <3>4, <3>5, <4>1, <5>1
        <5> QED
          BY <3>2, <4>2, <5>2
      <4>3. CASE j = m
        <5>1. /\ ~(2 * j - 1 <= 2 * m - 2) /\ ~(2 * j <= 2 * m - 2)
              /\ (2 * j - 1) - (2 * m - 2) = 1 /\ 2 * j - (2 * m - 2) = 2
          BY <2>4, <4>3
        <5> QED
          BY <2>4, <3>4, <3>5, <4>1, <4>3, <5>1
      <4> QED
        BY <2>4, <4>2, <4>3
    <3>7. C(m)
      BY <3>4, <3>5, <3>6
    <3> QED
      BY <2>2, <3>7
  <2> QED
    BY <2>5, <2>6
<1>4. CASE q = <<>>
  BY <1>4, EmptySeq DEF FlattenSeq
<1>5. CASE q # <<>>
  <2>1. n # 0 /\ FlattenSeq(q) = h[n]
    BY <1>1, <1>2, <1>5, EmptySeq, FlattenByFlattening
  <2>2. C(n)
    <3>1. n \in 1..n
      BY <1>1, <2>1
    <3> HIDE DEF C
    <3> QED
      BY <1>3, <3>1
  <2> QED
    BY <2>1, <2>2
<1> QED
  BY <1>4, <1>5

-------------------------------------------------------------------------------
(* The sums of a session history.  SumOver takes the largest number out of a   *)
(* set of numbers; what it does over 1..n is a recursion over n.               *)

\* The recursion of SumOver over the subsets of 1..n.
Summing(h, f, n) ==
  h = [s \in SUBSET (1..n) |-> IF s = {} THEN 0 ELSE h[s \ {Max(s)}] + f[Max(s)]]

SumTo(f, n) == (CHOOSE h : Summing(h, f, n))[1..n]

\* The largest number of a beginning of the numbers.
LEMMA MaxOfNumbers ==
  ASSUME NEW n \in Nat \ {0}, NEW s, s \subseteq 1..n, n \in s
  PROVE  Max(s) = n
<1>1. n \in s /\ \A y \in s : n >= y
  OBVIOUS
<1>2. ASSUME NEW x \in s, \A y \in s : x >= y PROVE x = n
  BY <1>2
<1> QED
  BY <1>1, <1>2 DEF Max

\* A set of such numbers has a largest one.
LEMMA MaxIsMember ==
  ASSUME NEW n \in Nat, NEW s, s \subseteq 1..n, s # {}
  PROVE  Max(s) \in s
<1> DEFINE T == {b \in Nat : \A x \in s : x <= b}
<1>1. n \in T
  OBVIOUS
<1>2. PICK b \in T : \A c \in T : b <= c
  <2> HIDE DEF T
  <2>1. T \subseteq Nat
    BY DEF T
  <2> QED
    BY <1>1, <2>1, SmallestNumber
<1>3. b \in s
  <2>1. SUFFICES ASSUME b \notin s PROVE FALSE
    OBVIOUS
  <2>2. \A x \in s : x \in Nat /\ x >= 1 /\ x <= b - 1
    BY <1>2, <2>1
  <2>3. PICK x \in s : x \in Nat /\ x >= 1 /\ x <= b - 1
    BY <2>2
  <2>4. b \in Nat /\ b - 1 \in Nat /\ ~(b <= b - 1)
    BY <1>2, <2>3
  <2> QED
    BY <1>2, <2>2, <2>4
<1>4. \A x \in s : b >= x
  BY <1>2
<1> QED
  BY <1>3, <1>4 DEF Max

\* There is such a recursion for every n.
LEMMA SummingExists ==
  ASSUME NEW f, NEW n \in Nat
  PROVE  \E h : Summing(h, f, n)
<1> DEFINE T == {i \in Nat : ~ \E h : Summing(h, f, i)}
<1>1. SUFFICES ASSUME T # {} PROVE FALSE
  OBVIOUS
<1>2. PICK m \in T : \A j \in T : m <= j
  <2> HIDE DEF T
  <2>1. T \subseteq Nat
    BY DEF T
  <2> QED
    BY <1>1, <2>1, SmallestNumber
<1>3. m # 0
  <2> DEFINE z == [s \in SUBSET (1..0) |-> 0]
  <2>1. \A s \in SUBSET (1..0) : s = {}
    OBVIOUS
  <2>2. z = [s \in SUBSET (1..0) |-> IF s = {} THEN 0 ELSE z[s \ {Max(s)}] + f[Max(s)]]
    BY <2>1
  <2>3. Summing(z, f, 0)
    <3> HIDE DEF z
    <3> QED
      BY <2>2 DEF Summing
  <2> QED
    BY <1>2, <2>3
<1>4. m \in Nat /\ m - 1 \in Nat /\ m \in Nat \ {0} /\ ~(m <= m - 1)
  BY <1>2, <1>3
<1>5. PICK h : Summing(h, f, m - 1)
  BY <1>2, <1>4
<1> DEFINE g == [s \in SUBSET (1..m) |-> IF m \in s THEN h[s \ {m}] + f[m] ELSE h[s]]
<1>6. ASSUME NEW s \in SUBSET (1..m)
      PROVE  g[s] = IF s = {} THEN 0 ELSE g[s \ {Max(s)}] + f[Max(s)]
  <2>1. CASE m \in s
    <3>1. Max(s) = m /\ s # {}
      BY <1>4, <2>1, MaxOfNumbers
    <3>2. g[s \ {m}] = h[s \ {m}] /\ g[s] = h[s \ {m}] + f[m]
      BY <2>1
    <3> HIDE DEF g
    <3> QED
      BY <3>1, <3>2
  <2>2. CASE m \notin s
    <3>1. s \in SUBSET (1..(m - 1))
      BY <1>4, <2>2
    <3>2. h[s] = IF s = {} THEN 0 ELSE h[s \ {Max(s)}] + f[Max(s)]
      BY <1>5, <3>1 DEF Summing
    <3>3. g[s] = h[s] /\ g[s \ {Max(s)}] = h[s \ {Max(s)}]
      BY <2>2
    <3> HIDE DEF g
    <3> QED
      BY <3>2, <3>3
  <2> QED
    BY <2>1, <2>2
<1>7. g = [s \in SUBSET (1..m) |-> g[s]]
  OBVIOUS
<1>8. Summing(g, f, m)
  <2> HIDE DEF g
  <2> QED
    BY <1>6, <1>7 DEF Summing
<1> QED
  BY <1>2, <1>8

\* Two of them agree on the beginnings on which what they sum agrees.
LEMMA SummingsAgree ==
  ASSUME NEW f, NEW g, NEW n \in Nat, NEW l \in Nat, n <= l,
         \A i \in 1..n : f[i] = g[i],
         NEW h, NEW k, Summing(h, f, n), Summing(k, g, l)
  PROVE  h[1..n] = k[1..n]
<1> DEFINE T == {i \in 0..n : h[1..i] # k[1..i]}
<1>1. SUFFICES ASSUME T # {} PROVE FALSE
  <2>1. n \in 0..n
    OBVIOUS
  <2> QED
    BY <2>1
<1>2. PICK i \in T : \A j \in T : i <= j
  <2> HIDE DEF T
  <2>1. T \subseteq Nat
    BY DEF T
  <2> QED
    BY <1>1, <2>1, SmallestNumber
<1>3. i \in Nat /\ 1..i \in SUBSET (1..n) /\ 1..i \in SUBSET (1..l)
  BY <1>2
<1>4. /\ h[1..i] = IF 1..i = {} THEN 0 ELSE h[(1..i) \ {Max(1..i)}] + f[Max(1..i)]
      /\ k[1..i] = IF 1..i = {} THEN 0 ELSE k[(1..i) \ {Max(1..i)}] + g[Max(1..i)]
  BY <1>3 DEF Summing
<1>5. i # 0
  <2>1. 1..0 = {}
    OBVIOUS
  <2> QED
    BY <1>2, <1>4, <2>1
<1>6. Max(1..i) = i
  <2>1. i \in Nat \ {0} /\ i \in 1..i
    BY <1>3, <1>5
  <2> QED
    BY <2>1, MaxOfNumbers
<1>7. (1..i) \ {i} = 1..(i - 1) /\ i - 1 \in 0..n /\ ~(i <= i - 1) /\ i \in 1..n
  BY <1>2, <1>3, <1>5
<1>8. h[1..(i - 1)] = k[1..(i - 1)]
  BY <1>2, <1>7
<1> QED
  BY <1>2, <1>4, <1>6, <1>7, <1>8

\* Two of them for the same values.
LEMMA SummingsOfOne ==
  ASSUME NEW f, NEW n \in Nat, NEW l \in Nat, n <= l,
         NEW h, NEW k, Summing(h, f, n), Summing(k, f, l)
  PROVE  h[1..n] = k[1..n]
<1>1. \A i \in 1..n : f[i] = f[i]
  OBVIOUS
<1>2. n \in Nat /\ l \in Nat /\ n <= l /\ Summing(h, f, n) /\ Summing(k, f, l)
  OBVIOUS
<1> QED
  BY ONLY SMTT(30), <1>1, <1>2, SummingsAgree

\* SumTo is the sum of the first n values, one after another.
LEMMA SumToProperties ==
  ASSUME NEW n \in Nat, NEW f
  PROVE  /\ SumTo(f, 0) = 0
         /\ SumTo(f, n + 1) = SumTo(f, n) + f[n + 1]
         /\ \A h : Summing(h, f, n) => SumTo(f, n) = h[1..n]
         /\ \A g : (\A i \in 1..n : f[i] = g[i]) => SumTo(f, n) = SumTo(g, n)
<1>1. ASSUME NEW g, NEW l \in Nat PROVE \E k : Summing(k, g, l) /\ SumTo(g, l) = k[1..l]
  <2>1. PICK k : k = CHOOSE h : Summing(h, g, l)
    OBVIOUS
  <2>2. Summing(k, g, l)
    BY <2>1, SummingExists
  <2> QED
    BY <2>1, <2>2 DEF SumTo
<1>2. SumTo(f, 0) = 0
  <2>1. PICK k : Summing(k, f, 0) /\ SumTo(f, 0) = k[1..0]
    BY <1>1
  <2>2. 1..0 = {} /\ 1..0 \in SUBSET (1..0)
    OBVIOUS
  <2> QED
    BY <2>1, <2>2 DEF Summing
<1>3. PICK a : Summing(a, f, n) /\ SumTo(f, n) = a[1..n]
  BY <1>1
<1>4. n + 1 \in Nat /\ n + 1 \in Nat \ {0} /\ n <= n /\ n <= n + 1 /\ n + 1 \in 1..(n + 1)
  OBVIOUS
<1>5. PICK b : Summing(b, f, n + 1) /\ SumTo(f, n + 1) = b[1..(n + 1)]
  BY <1>1, <1>4
<1>6. SumTo(f, n + 1) = SumTo(f, n) + f[n + 1]
  <2>1. Max(1..(n + 1)) = n + 1
    BY <1>4, MaxOfNumbers
  <2>2. 1..(n + 1) # {} /\ (1..(n + 1)) \ {n + 1} = 1..n /\ 1..(n + 1) \in SUBSET (1..(n + 1))
    BY <1>4
  <2>3. b[1..(n + 1)] = b[1..n] + f[n + 1]
    BY <1>5, <2>1, <2>2 DEF Summing
  <2>4. a[1..n] = b[1..n]
    <3>1. PICK l \in Nat : l = n + 1
      BY <1>4
    <3>2. n <= l
      BY <3>1
    <3>3. Summing(a, f, n) /\ Summing(b, f, l)
      BY <1>3, <1>5, <3>1
    <3> QED
      BY <3>2, <3>3, SummingsOfOne
  <2> QED
    BY <1>3, <1>5, <2>3, <2>4
<1>7. ASSUME NEW h, Summing(h, f, n) PROVE SumTo(f, n) = h[1..n]
  <2>1. n <= n
    OBVIOUS
  <2>2. a[1..n] = h[1..n]
    BY <1>3, <1>7, <2>1, SummingsOfOne
  <2> QED
    BY <1>3, <2>2
<1>8. ASSUME NEW g, \A i \in 1..n : f[i] = g[i] PROVE SumTo(f, n) = SumTo(g, n)
  <2>1. PICK k : Summing(k, g, n) /\ SumTo(g, n) = k[1..n]
    BY <1>1
  <2>2. n \in Nat /\ n <= n /\ Summing(a, f, n) /\ Summing(k, g, n)
    BY <1>3, <2>1
  <2>3. a[1..n] = k[1..n]
    BY ONLY <1>8, <2>2, SummingsAgree
  <2> QED
    BY <1>3, <2>1, <2>3
<1> QED
  BY <1>2, <1>6, <1>7, <1>8

\* The two sums of SessionsMatchBudget.
ActiveSum(q, n) == SumOver(n, LAMBDA i : q[i].activeMs)
GapSum(q, n) == SumOver(n, LAMBDA i : q[i + 1].startedAt - q[i].endedAt)

Actives(q, n) == [i \in 1..n |-> q[i].activeMs]
Gaps(q, n) == [i \in 1..n |-> q[i + 1].startedAt - q[i].endedAt]

\* They are sums of that form.
LEMMA ActiveSumIsSum ==
  ASSUME NEW n \in Nat, NEW q
  PROVE  ActiveSum(q, n) = SumTo(Actives(q, n), n)
<1> DEFINE e == [i \in 1..n |-> i]
           A(h) == h = [s \in SUBSET DOMAIN e |->
                          IF s = {} THEN 0 ELSE h[s \ {Max(s)}] + q[e[Max(s)]].activeMs]
<1>1. PICK a : a = CHOOSE h : A(h)
  OBVIOUS
<1>2. ActiveSum(q, n) = a[DOMAIN e]
  BY <1>1 DEF ActiveSum, SumOver, FoldLeft, MapThenFoldSet
<1>3. DOMAIN e = 1..n
  OBVIOUS
<1>4. ASSUME NEW s \in SUBSET (1..n), s # {} PROVE q[e[Max(s)]].activeMs = Actives(q, n)[Max(s)]
  <2>1. Max(s) \in 1..n
    BY <1>4, MaxIsMember
  <2> QED
    BY <2>1 DEF Actives
<1>5. ASSUME NEW h PROVE A(h) <=> Summing(h, Actives(q, n), n)
  <2> HIDE DEF e
  <2> QED
    BY <1>3, <1>4 DEF Summing
<1>6. Summing(a, Actives(q, n), n)
  <2>1. \E h : A(h)
    <3> HIDE DEF A
    <3> QED
      BY <1>5, SummingExists
  <2>2. A(a)
    <3> HIDE DEF A
    <3> QED
      BY <1>1, <2>1
  <2> HIDE DEF A
  <2> QED
    BY <1>5, <2>2
<1> QED
  BY <1>2, <1>3, <1>6, SumToProperties

\* The same of the gaps.
LEMMA GapSumIsSum ==
  ASSUME NEW n \in Nat, NEW q
  PROVE  GapSum(q, n) = SumTo(Gaps(q, n), n)
<1> DEFINE e == [i \in 1..n |-> i]
           G(i) == q[i + 1].startedAt - q[i].endedAt
           A(h) == h = [s \in SUBSET DOMAIN e |->
                          IF s = {} THEN 0 ELSE h[s \ {Max(s)}] + G(e[Max(s)])]
<1>1. PICK a : a = CHOOSE h : A(h)
  OBVIOUS
<1>2. GapSum(q, n) = a[DOMAIN e]
  BY <1>1 DEF GapSum, SumOver, FoldLeft, MapThenFoldSet
<1>3. DOMAIN e = 1..n
  OBVIOUS
<1>4. ASSUME NEW s \in SUBSET (1..n), s # {} PROVE G(e[Max(s)]) = Gaps(q, n)[Max(s)]
  <2>1. Max(s) \in 1..n
    BY <1>4, MaxIsMember
  <2> QED
    BY <2>1 DEF Gaps
<1>5. ASSUME NEW h PROVE A(h) <=> Summing(h, Gaps(q, n), n)
  <2> HIDE DEF e, G
  <2> QED
    BY <1>3, <1>4 DEF Summing
<1>6. Summing(a, Gaps(q, n), n)
  <2>1. \E h : A(h)
    <3> HIDE DEF A
    <3> QED
      BY <1>5, SummingExists
  <2>2. A(a)
    <3> HIDE DEF A
    <3> QED
      BY <1>1, <2>1
  <2> HIDE DEF A
  <2> QED
    BY <1>5, <2>2
<1> QED
  BY <1>2, <1>3, <1>6, SumToProperties

\* One session more adds its time, and its gap, to the sums, which depend on
\* the sessions they are taken over only.
LEMMA HistorySums ==
  ASSUME NEW n \in Nat, NEW q
  PROVE  /\ ActiveSum(q, 0) = 0 /\ GapSum(q, 0) = 0
         /\ ActiveSum(q, n + 1) = ActiveSum(q, n) + q[n + 1].activeMs
         /\ GapSum(q, n + 1) = GapSum(q, n) + (q[n + 2].startedAt - q[n + 1].endedAt)
         /\ \A r : (\A i \in 1..n : q[i].activeMs = r[i].activeMs)
                     => ActiveSum(q, n) = ActiveSum(r, n)
         /\ \A r : (\A i \in 1..n : /\ q[i + 1].startedAt = r[i + 1].startedAt
                                    /\ q[i].endedAt = r[i].endedAt)
                     => GapSum(q, n) = GapSum(r, n)
<1>1. /\ n + 1 \in Nat /\ 0 \in Nat /\ n + 1 \in 1..(n + 1) /\ (n + 1) + 1 = n + 2
      /\ \A i \in 1..n : i \in 1..(n + 1)
  OBVIOUS
<1>2. ActiveSum(q, 0) = 0 /\ GapSum(q, 0) = 0
  <2>1. PICK z \in Nat : z = 0
    BY <1>1
  <2>2. ActiveSum(q, z) = SumTo(Actives(q, z), z) /\ GapSum(q, z) = SumTo(Gaps(q, z), z)
    BY ONLY <2>1, ActiveSumIsSum, GapSumIsSum
  <2>3. SumTo(Actives(q, z), 0) = 0 /\ SumTo(Gaps(q, z), 0) = 0
    BY ONLY <2>1, SumToProperties
  <2> QED
    BY <2>1, <2>2, <2>3
<1>3. ActiveSum(q, n + 1) = ActiveSum(q, n) + q[n + 1].activeMs
  <2>1. SumTo(Actives(q, n + 1), n + 1) = SumTo(Actives(q, n + 1), n) + Actives(q, n + 1)[n + 1]
    BY SumToProperties
  <2>2. SumTo(Actives(q, n + 1), n) = SumTo(Actives(q, n), n)
    <3>1. \A i \in 1..n : Actives(q, n + 1)[i] = Actives(q, n)[i]
      BY <1>1 DEF Actives
    <3> QED
      BY <3>1, SumToProperties
  <2>3. Actives(q, n + 1)[n + 1] = q[n + 1].activeMs
    BY <1>1 DEF Actives
  <2> QED
    BY <1>1, <2>1, <2>2, <2>3, ActiveSumIsSum
<1>4. GapSum(q, n + 1) = GapSum(q, n) + (q[n + 2].startedAt - q[n + 1].endedAt)
  <2>1. SumTo(Gaps(q, n + 1), n + 1) = SumTo(Gaps(q, n + 1), n) + Gaps(q, n + 1)[n + 1]
    BY SumToProperties
  <2>2. SumTo(Gaps(q, n + 1), n) = SumTo(Gaps(q, n), n)
    <3>1. \A i \in 1..n : Gaps(q, n + 1)[i] = Gaps(q, n)[i]
      BY <1>1 DEF Gaps
    <3> QED
      BY <3>1, SumToProperties
  <2>3. Gaps(q, n + 1)[n + 1] = q[n + 2].startedAt - q[n + 1].endedAt
    BY <1>1 DEF Gaps
  <2> QED
    BY <1>1, <2>1, <2>2, <2>3, GapSumIsSum
<1>5. ASSUME NEW r, \A i \in 1..n : q[i].activeMs = r[i].activeMs
      PROVE  ActiveSum(q, n) = ActiveSum(r, n)
  <2>1. \A i \in 1..n : Actives(q, n)[i] = Actives(r, n)[i]
    BY <1>5 DEF Actives
  <2> QED
    BY <2>1, ActiveSumIsSum, SumToProperties
<1>6. ASSUME NEW r, \A i \in 1..n : /\ q[i + 1].startedAt = r[i + 1].startedAt
                                    /\ q[i].endedAt = r[i].endedAt
      PROVE  GapSum(q, n) = GapSum(r, n)
  <2>1. \A i \in 1..n : Gaps(q, n)[i] = Gaps(r, n)[i]
    BY <1>6 DEF Gaps
  <2> QED
    BY <2>1, GapSumIsSum, SumToProperties
<1> QED
  BY <1>2, <1>3, <1>4, <1>5, <1>6

-------------------------------------------------------------------------------
(* Pairs.  A plan is a sequence of pairs, each of its own batch and repetition, *)
(* and the runs of a log are its beginning: so a log stands at a pair boundary  *)
(* exactly when its length is even and each pair is of one session.             *)

Status == {"PREPARED", "OPEN", "PREPARING", "RUNNING", "PAUSING", "PAUSED", "COMPLETE",
           "INTERRUPTED", "REVIEW_REQUIRED"}
RunId == [batch : Nat, repetition : Nat, condition : Conditions]
RunRecord == [run : RunId, session : Nat]
SessionRecord == [runIds : Seq(RunId), startedAt : Int, endedAt : Int, activeMs : Int,
                  status : Status]

Paired(p) ==
  \E k \in Nat :
    /\ Len(p) = 2 * k
    /\ \A j \in 1..k :
         /\ Pair(p[2 * j - 1]) = Pair(p[2 * j]) /\ p[2 * j - 1] # p[2 * j]
         /\ \A l \in 1..k : Pair(p[2 * l]) = Pair(p[2 * j]) => l = j

\* The checkpoint's parts are of their types, and its plan is one of pairs.
Sound(s) ==
  /\ s.status \in Status
  /\ s.records \in Seq(RunRecord)
  /\ \A i \in 1..Len(s.records) : s.records[i].session \in 1..Len(s.sessions)
  /\ s.batches \in Seq(Seq(RunId))
  /\ s.sessions \in Seq(SessionRecord)
  /\ Paired(Plan(s))
  /\ \A i \in 1..Len(Plan(s)) : Plan(s)[i].batch \in 1..Len(s.batches)

\* The log is the beginning of the plan, a pair is of one session, and half a
\* pair of the last one.
Following(s) ==
  /\ Len(s.records) <= Len(Plan(s))
  /\ \A i \in 1..Len(s.records) : s.records[i].run = Plan(s)[i]
  /\ \A j \in 1..Len(s.records) :
       2 * j <= Len(s.records) => s.records[2 * j - 1].session = s.records[2 * j].session
  /\ \A j \in 1..Len(s.records) :
       2 * j - 1 = Len(s.records) => s.records[Len(s.records)].session = Len(s.sessions)

\* A function on the first n numbers is a sequence of length n.
LEMMA FunctionIsSequence ==
  ASSUME NEW X, NEW n \in Nat, NEW f \in [1..n -> X]
  PROVE  f \in Seq(X) /\ Len(f) = n
<1>1. f \in Seq(X)
  BY SeqDef
<1>2. DOMAIN f = 1..Len(f) /\ Len(f) \in Nat /\ DOMAIN f = 1..n
  BY <1>1, LenProperties
<1> QED
  BY <1>1, <1>2

\* A prefix, element by element.
LEMMA PrefixByElements ==
  ASSUME NEW X, NEW a \in Seq(X), NEW p \in Seq(X)
  PROVE  IsPrefix(a, p) <=> Len(a) <= Len(p) /\ \A i \in 1..Len(a) : a[i] = p[i]
<1>1. Len(a) \in Nat /\ Len(p) \in Nat
  BY LenProperties
<1>2. SubSeq(a, 1, Len(a)) = a
  BY SubSeqFull
<1>3. ASSUME Len(a) <= Len(p)
      PROVE  SubSeq(p, 1, Len(a)) = a <=> \A i \in 1..Len(a) : a[i] = p[i]
  <2>1. \A i \in 1..Len(a) : p[i] \in X
    BY <1>1, <1>3, ElementOfSeq
  <2>2. /\ SubSeq(p, 1, Len(a)) \in Seq(X)
        /\ Len(SubSeq(p, 1, Len(a))) = IF 1 <= Len(a) THEN Len(a) - 1 + 1 ELSE 0
        /\ \A i \in 1..(Len(a) - 1 + 1) : SubSeq(p, 1, Len(a))[i] = p[1 + i - 1]
    BY <1>1, <2>1, SubSeqProperties
  <2>3. Len(SubSeq(p, 1, Len(a))) = Len(a) /\ \A i \in 1..Len(a) : SubSeq(p, 1, Len(a))[i] = p[i]
    BY <1>1, <2>2
  <2> QED
    BY <2>2, <2>3, SeqEqual
<1> QED
  BY <1>2, <1>3 DEF IsPrefix

\* The runs of a log.
LEMMA RunsOfLog ==
  ASSUME NEW r \in Seq(RunRecord)
  PROVE  /\ RunsOf(r) \in Seq(RunId) /\ Len(RunsOf(r)) = Len(r)
         /\ \A i \in 1..Len(r) : RunsOf(r)[i] = r[i].run
<1>1. Len(r) \in Nat /\ DOMAIN r = 1..Len(r) /\ \A i \in 1..Len(r) : r[i] \in RunRecord
  BY LenProperties, ElementOfSeq
<1>2. RunsOf(r) \in [1..Len(r) -> RunId] /\ \A i \in 1..Len(r) : RunsOf(r)[i] = r[i].run
  BY <1>1 DEF RunsOf, RunRecord
<1> QED
  BY <1>1, <1>2, FunctionIsSequence

\* The plan is a sequence of runs.
LEMMA PlanType == ASSUME NEW s, Sound(s) PROVE Plan(s) \in Seq(RunId) /\ Len(Plan(s)) \in Nat
BY FlattenType, LenProperties DEF Sound, Plan

\* Every place is the first or the second one of a pair.
LEMMA Halves ==
  ASSUME NEW i \in Nat \ {0}
  PROVE  \E a \in Nat \ {0} : i = 2 * a - 1 \/ i = 2 * a
<1> DEFINE a == (i + 1) \div 2
<1>1. a \in Nat \ {0} /\ (i = 2 * a - 1 \/ i = 2 * a)
  OBVIOUS
<1> QED
  BY <1>1

\* Two different runs of one batch and repetition are neighbours in the plan.
LEMMA PartnersAreNeighbours ==
  ASSUME NEW p, Paired(p), NEW i \in 1..Len(p), NEW j \in 1..Len(p),
         Pair(p[i]) = Pair(p[j]), p[i] # p[j]
  PROVE  \E a \in Nat \ {0} : \/ i = 2 * a - 1 /\ j = 2 * a
                              \/ i = 2 * a /\ j = 2 * a - 1
<1>1. PICK k \in Nat :
        /\ Len(p) = 2 * k
        /\ \A l \in 1..k :
             /\ Pair(p[2 * l - 1]) = Pair(p[2 * l])
             /\ \A m \in 1..k : Pair(p[2 * m]) = Pair(p[2 * l]) => m = l
  BY DEF Paired
<1>2. i \in Nat \ {0} /\ j \in Nat \ {0} /\ i <= 2 * k /\ j <= 2 * k
  BY <1>1
<1>3. PICK a \in Nat \ {0} : i = 2 * a - 1 \/ i = 2 * a
  BY <1>2, Halves
<1>4. PICK b \in Nat \ {0} : j = 2 * b - 1 \/ j = 2 * b
  BY <1>2, Halves
<1>5. a \in 1..k /\ b \in 1..k
  BY <1>2, <1>3, <1>4
<1>6. Pair(p[i]) = Pair(p[2 * a]) /\ Pair(p[j]) = Pair(p[2 * b])
  BY <1>1, <1>3, <1>4, <1>5
<1>7. a = b
  BY <1>1, <1>5, <1>6
<1>8. i # j
  OBVIOUS
<1> QED
  BY <1>3, <1>4, <1>7, <1>8

\* A log at a pair boundary has an even length and follows the plan.
LEMMA BoundaryFollows ==
  ASSUME NEW s, Sound(s), AtPairBoundary(s)
  PROVE  Following(s) /\ \E k \in Nat : Len(s.records) = 2 * k
<1> DEFINE r == s.records
           p == Plan(s)
<1>1. r \in Seq(RunRecord) /\ p \in Seq(RunId) /\ Len(p) \in Nat /\ Paired(p)
  BY PlanType DEF Sound
<1>2. Len(r) \in Nat /\ DOMAIN r = 1..Len(r)
  BY <1>1, LenProperties
<1>3. Len(r) <= Len(p) /\ \A i \in 1..Len(r) : r[i].run = p[i]
  <2>1. IsPrefix(RunsOf(r), p)
    BY DEF AtPairBoundary
  <2>2. /\ RunsOf(r) \in Seq(RunId) /\ Len(RunsOf(r)) = Len(r)
        /\ \A i \in 1..Len(r) : RunsOf(r)[i] = r[i].run
    BY <1>1, RunsOfLog
  <2>3. Len(RunsOf(r)) <= Len(p) /\ \A i \in 1..Len(RunsOf(r)) : RunsOf(r)[i] = p[i]
    BY <1>1, <2>1, <2>2, PrefixByElements
  <2> QED
    BY <2>2, <2>3
<1>4. \A i \in 1..Len(r) : \E j \in 1..Len(r) :
        p[j] # p[i] /\ Pair(p[j]) = Pair(p[i]) /\ r[j].session = r[i].session
  <2> SUFFICES ASSUME NEW i \in 1..Len(r)
               PROVE  \E j \in 1..Len(r) :
                        p[j] # p[i] /\ Pair(p[j]) = Pair(p[i]) /\ r[j].session = r[i].session
    OBVIOUS
  <2>1. r[i] \in Range(r)
    BY <1>2 DEF Range
  <2>2. PICK q \in Range(r) : q.run # r[i].run /\ Pair(q.run) = Pair(r[i].run) /\ q.session = r[i].session
    BY <2>1 DEF AtPairBoundary
  <2>3. PICK j \in 1..Len(r) : q = r[j]
    BY <1>2, <2>2 DEF Range
  <2> QED
    BY <1>3, <2>2, <2>3
<1>5. ASSUME NEW a \in Nat \ {0}, 2 * a - 1 \in 1..Len(r)
      PROVE  2 * a \in 1..Len(r) /\ r[2 * a].session = r[2 * a - 1].session
  <2>1. PICK j \in 1..Len(r) :
          /\ p[j] # p[2 * a - 1] /\ Pair(p[j]) = Pair(p[2 * a - 1])
          /\ r[j].session = r[2 * a - 1].session
    BY <1>4, <1>5
  <2>2. j \in 1..Len(p) /\ 2 * a - 1 \in 1..Len(p)
    BY <1>1, <1>2, <1>3, <1>5
  <2>3. PICK b \in Nat \ {0} : \/ 2 * a - 1 = 2 * b - 1 /\ j = 2 * b
                               \/ 2 * a - 1 = 2 * b /\ j = 2 * b - 1
    <3> HIDE DEF p, r
    <3> QED
      BY <1>1, <2>1, <2>2, PartnersAreNeighbours
  <2>4. j = 2 * a
    BY <2>3
  <2> QED
    BY <2>1, <2>4
<1> HIDE DEF r, p
<1>6. \E k \in Nat : Len(r) = 2 * k
  <2>1. CASE Len(r) = 0
    BY <2>1
  <2>2. CASE Len(r) # 0
    <3>1. PICK a \in Nat \ {0} : Len(r) = 2 * a - 1 \/ Len(r) = 2 * a
      BY <1>2, <2>2, Halves
    <3>2. Len(r) # 2 * a - 1
      <4> SUFFICES ASSUME Len(r) = 2 * a - 1 PROVE FALSE
        OBVIOUS
      <4>1. 2 * a - 1 \in 1..Len(r)
        BY <1>2, <2>2
      <4>2. 2 * a <= Len(r)
        BY <1>5, <4>1
      <4> QED
        BY <4>2
    <3> QED
      BY <3>1, <3>2
  <2> QED
    BY <2>1, <2>2
<1>7. \A j \in 1..Len(r) : 2 * j <= Len(r) => r[2 * j - 1].session = r[2 * j].session
  <2> SUFFICES ASSUME NEW j \in 1..Len(r), 2 * j <= Len(r)
               PROVE  r[2 * j - 1].session = r[2 * j].session
    OBVIOUS
  <2>1. j \in Nat \ {0} /\ 2 * j - 1 \in 1..Len(r)
    BY <1>2
  <2> QED
    BY <1>5, <2>1
<1>8. \A j \in 1..Len(r) : 2 * j - 1 # Len(r)
  BY <1>2, <1>6
<1> QED
  BY <1>3, <1>6, <1>7, <1>8 DEF Following, r, p

\* A log of even length that follows the plan is at a pair boundary.
LEMMA EvenIsBoundary ==
  ASSUME NEW s, Sound(s), Following(s), s.currentRun = NoRun,
         NEW k \in Nat, Len(s.records) = 2 * k
  PROVE  AtPairBoundary(s)
<1> DEFINE r == s.records
           p == Plan(s)
<1>1. r \in Seq(RunRecord) /\ p \in Seq(RunId) /\ Len(p) \in Nat /\ Paired(p)
  BY PlanType DEF Sound
<1>2. Len(r) \in Nat /\ DOMAIN r = 1..Len(r)
  BY <1>1, LenProperties
<1>3. /\ Len(r) <= Len(p) /\ \A i \in 1..Len(r) : r[i].run = p[i]
      /\ \A j \in 1..Len(r) : 2 * j <= Len(r) => r[2 * j - 1].session = r[2 * j].session
  BY DEF Following
<1>4. Len(r) = 2 * k
  OBVIOUS
<1>5. IsPrefix(RunsOf(r), p)
  <2>1. /\ RunsOf(r) \in Seq(RunId) /\ Len(RunsOf(r)) = Len(r)
        /\ \A i \in 1..Len(r) : RunsOf(r)[i] = r[i].run
    BY <1>1, RunsOfLog
  <2> HIDE DEF r, p
  <2> QED
    BY <1>1, <1>3, <2>1, PrefixByElements
<1>6. PICK l \in Nat : /\ Len(p) = 2 * l
                       /\ \A j \in 1..l : Pair(p[2 * j - 1]) = Pair(p[2 * j]) /\ p[2 * j - 1] # p[2 * j]
  BY <1>1 DEF Paired
<1> HIDE DEF r, p
<1>7. ASSUME NEW i \in 1..Len(r)
      PROVE  \E j \in 1..Len(r) :
               p[j] # p[i] /\ Pair(p[j]) = Pair(p[i]) /\ r[j].session = r[i].session
  <2>1. i \in Nat \ {0}
    BY <1>2
  <2>2. PICK a \in Nat \ {0} : i = 2 * a - 1 \/ i = 2 * a
    BY <2>1, Halves
  <2>3. /\ a \in 1..l /\ a \in 1..Len(r) /\ 2 * a <= Len(r)
        /\ 2 * a \in 1..Len(r) /\ 2 * a - 1 \in 1..Len(r)
    BY <1>1, <1>2, <1>3, <1>4, <1>6, <2>2
  <2>4. /\ Pair(p[2 * a - 1]) = Pair(p[2 * a]) /\ p[2 * a - 1] # p[2 * a]
        /\ r[2 * a - 1].session = r[2 * a].session
    BY <1>3, <1>6, <2>3
  <2>5. CASE i = 2 * a - 1
    BY <2>3, <2>4, <2>5
  <2>6. CASE i = 2 * a
    BY <2>3, <2>4, <2>6
  <2> QED
    BY <2>2, <2>5, <2>6
<1>8. ASSUME NEW e \in Range(r)
      PROVE  \E q \in Range(r) : q.run # e.run /\ Pair(q.run) = Pair(e.run) /\ q.session = e.session
  <2>1. PICK i \in 1..Len(r) : e = r[i]
    BY <1>2 DEF Range
  <2>2. PICK j \in 1..Len(r) :
          p[j] # p[i] /\ Pair(p[j]) = Pair(p[i]) /\ r[j].session = r[i].session
    BY <1>7
  <2>3. r[j] \in Range(r)
    BY <1>2 DEF Range
  <2> QED
    BY <1>3, <2>1, <2>2, <2>3
<1> QED
  BY <1>5, <1>8 DEF AtPairBoundary, r, p

\* What follows a log of odd length in the plan is the other run of its last pair.
LEMMA OddIsHalfAPair ==
  ASSUME NEW s, Sound(s), Following(s), Len(s.records) < Len(Plan(s)),
         ~ \E k \in Nat : Len(s.records) = 2 * k
  PROVE  \E e \in Recorded(s) : Pair(e) = Pair(NextRun(s))
<1> DEFINE r == s.records
           p == Plan(s)
<1>1. r \in Seq(RunRecord) /\ p \in Seq(RunId) /\ Len(p) \in Nat /\ Paired(p)
  BY PlanType DEF Sound
<1>2. Len(r) \in Nat /\ DOMAIN r = 1..Len(r)
  BY <1>1, LenProperties
<1>3. Len(r) < Len(p) /\ \A i \in 1..Len(r) : r[i].run = p[i]
  BY DEF Following
<1>4. ~ \E k \in Nat : Len(r) = 2 * k
  OBVIOUS
<1>5. NextRun(s) = p[Len(r) + 1] /\ Recorded(s) = {e.run : e \in Range(r)}
  BY DEF NextRun, Recorded
<1>6. PICK l \in Nat : Len(p) = 2 * l /\ \A j \in 1..l : Pair(p[2 * j - 1]) = Pair(p[2 * j])
  BY <1>1 DEF Paired
<1> HIDE DEF r, p
<1>7. Len(r) # 0
  <2> SUFFICES ASSUME Len(r) = 0 PROVE FALSE
    OBVIOUS
  <2>1. 0 \in Nat /\ Len(r) = 2 * 0
    OBVIOUS
  <2> QED
    BY <1>4, <2>1
<1>8. PICK a \in Nat \ {0} : Len(r) = 2 * a - 1
  BY <1>2, <1>4, <1>7, Halves
<1>9. a \in 1..l /\ Len(r) + 1 = 2 * a /\ Len(r) \in 1..Len(r)
  BY <1>2, <1>3, <1>6, <1>8
<1>10. Pair(p[Len(r)]) = Pair(p[Len(r) + 1])
  BY <1>6, <1>8, <1>9
<1>11. r[Len(r)] \in Range(r) /\ r[Len(r)].run = p[Len(r)]
  BY <1>2, <1>3, <1>9 DEF Range
<1> QED
  BY <1>5, <1>10, <1>11

-------------------------------------------------------------------------------
(* The history.  A session that ended in a pause is complete; the one that runs *)
(* comes after them, and the time accounts are the sums over those before it.   *)

Closed(e) == e.status = "PAUSED" /\ e.endedAt # Never /\ e.activeMs = e.endedAt - e.startedAt

History(s) ==
  LET n == Len(s.sessions) IN
  /\ n >= 1
  /\ s.sessions[n].startedAt = s.activeSince
  /\ \A i \in 1..(n - 1) : Closed(s.sessions[i])
  /\ \A i \in 1..(n - 1) : s.sessions[i + 1].startedAt - s.sessions[i].endedAt >= 0
  /\ s.startedAt = s.sessions[1].startedAt
  /\ s.activeMs = ActiveSum(s.sessions, n - 1)
  /\ s.pausedMs = GapSum(s.sessions, n - 1)
  /\ SessionsMatchRecords(s)

\* t has the log, the plan, the sessions and the accounts of s.
SameBooks(s, t) ==
  /\ DOMAIN t = Fields
  /\ t.records = s.records /\ t.batches = s.batches /\ t.sessions = s.sessions
  /\ t.activeSince = s.activeSince /\ t.startedAt = s.startedAt
  /\ t.activeMs = s.activeMs /\ t.pausedMs = s.pausedMs
  /\ t.currentRun = s.currentRun

\* The operations that change neither log nor plan nor history.
LEMMA OperationsKeepBooks ==
  ASSUME NEW s, DOMAIN s = Fields, s.status \in Status
  PROVE  /\ SameBooks(s, Failed(s)) /\ Failed(s).status \in {"INTERRUPTED", "REVIEW_REQUIRED"}
         /\ SameBooks(s, Noticed(s)) /\ Noticed(s).status = s.status
         /\ SameBooks(s, NotRestored(s)) /\ NotRestored(s).status = "REVIEW_REQUIRED"
         /\ \A x \in Status : LET t == [s EXCEPT !.status = x] IN SameBooks(s, t) /\ t.status = x
BY DEF SameBooks, Failed, Noticed, NotRestored, Fields

\* Everything that is said of such parts is said of both.
LEMMA SameBooksKeep ==
  ASSUME NEW s, Sound(s), NEW t, SameBooks(s, t), t.status \in Status
  PROVE  /\ Sound(t) /\ Plan(t) = Plan(s)
         /\ Following(s) => Following(t)
         /\ History(s) => History(t)
         /\ AtPairBoundary(s) => AtPairBoundary(t)
<1>1. Plan(t) = Plan(s)
  BY DEF SameBooks, Plan
<1>2. Sound(t)
  BY <1>1 DEF SameBooks, Sound
<1>3. Following(s) => Following(t)
  BY <1>1 DEF SameBooks, Following
<1>4. History(s) => History(t)
  BY DEF SameBooks, History, SessionsMatchRecords
<1>5. AtPairBoundary(s) => AtPairBoundary(t)
  BY <1>1 DEF SameBooks, AtPairBoundary
<1> QED
  BY <1>1, <1>2, <1>3, <1>4, <1>5

\* makePilotBatch() makes pairs, one for each repetition.
LEMMA BatchIsPaired ==
  ASSUME fixedScope \in BOOLEAN, NEW number \in Nat, NEW b \in Batches(number)
  PROVE  /\ b \in Seq(RunId)
         /\ \E n \in Nat :
              /\ Len(b) = 2 * n
              /\ \A j \in 1..n : /\ b[2 * j - 1].batch = number /\ b[2 * j].batch = number
                                 /\ b[2 * j - 1].repetition = j /\ b[2 * j].repetition = j
                                 /\ b[2 * j - 1] # b[2 * j]
<1> DEFINE Run(i, c) == [batch |-> number, repetition |-> i, condition |-> c]
           Other(c) == CHOOSE d \in Conditions : d # c
           PairFor(order, i) == <<Run(i, order[i]), Run(i, Other(order[i]))>>
<1>1. PICK n \in Nat :
        \E order \in [1..n -> Conditions] : b = FlattenSeq([i \in 1..n |-> PairFor(order, i)])
  <2> DEFINE Sizes == IF fixedScope THEN {MaximumRuns \div 2} ELSE 1..MaxRepetitions
             Of(m) == {FlattenSeq([i \in 1..m |-> PairFor(order, i)]) :
                         order \in [1..m -> Conditions]}
  <2>0. Batches(number) = UNION {Of(m) : m \in Sizes}
    BY DEF Batches
  <2>1. PICK n \in Sizes : b \in Of(n)
    <3> HIDE DEF Of, Sizes
    <3> QED
      BY <2>0
  <2>3. \E order \in [1..n -> Conditions] : b = FlattenSeq([i \in 1..n |-> PairFor(order, i)])
    <3> HIDE DEF PairFor
    <3> QED
      BY <2>1
  <2>2. n \in Nat
    <3>1. MaximumRuns \in Nat /\ MaxRepetitions \in Nat
      BY PilotSessionAssumption
    <3>2. n = MaximumRuns \div 2 \/ n \in 1..MaxRepetitions
      BY <2>1
    <3> QED
      BY ONLY <3>1, <3>2
  <2> QED
    BY <2>2, <2>3
<1>0. PICK order \in [1..n -> Conditions] : b = FlattenSeq([i \in 1..n |-> PairFor(order, i)])
  BY <1>1
<1>2. ASSUME NEW c \in Conditions PROVE Other(c) \in Conditions /\ Other(c) # c
  BY DEF Conditions
<1>3. ASSUME NEW i \in 1..n
      PROVE  /\ PairFor(order, i) \in Seq(RunId) /\ Len(PairFor(order, i)) = 2
             /\ PairFor(order, i)[1] = Run(i, order[i])
             /\ PairFor(order, i)[2] = Run(i, Other(order[i]))
  <2>1. order[i] \in Conditions /\ Other(order[i]) \in Conditions
    BY <1>2
  <2>2. Run(i, order[i]) \in RunId /\ Run(i, Other(order[i])) \in RunId
    <3> HIDE DEF Other
    <3> QED
      BY <2>1 DEF RunId
  <2> HIDE DEF Run, Other
  <2> QED
    BY <2>2
<1> DEFINE q == [i \in 1..n |-> PairFor(order, i)]
<1>4. q \in Seq(Seq(RunId)) /\ Len(q) = n
  <2>1. q \in [1..n -> Seq(RunId)]
    <3> HIDE DEF PairFor
    <3> QED
      BY <1>3
  <2> HIDE DEF q
  <2> QED
    BY <2>1, FunctionIsSequence
<1>5. /\ \A i \in 1..Len(q) : Len(q[i]) = 2
      /\ \A i \in 1..n : q[i][1] = Run(i, order[i]) /\ q[i][2] = Run(i, Other(order[i]))
  <2> HIDE DEF PairFor, Run, Other
  <2> QED
    BY <1>3, <1>4
<1> HIDE DEF q, PairFor
<1>6. b = FlattenSeq(q)
  BY <1>0 DEF q
<1>7. b \in Seq(RunId)
  BY <1>4, <1>6, FlattenType
<1>8. /\ Len(b) = 2 * n
      /\ \A j \in 1..n : b[2 * j - 1] = q[j][1] /\ b[2 * j] = q[j][2]
  <2>1. /\ q \in Seq(Seq(RunId)) /\ \A i \in 1..Len(q) : Len(q[i]) = 2
    BY <1>4, <1>5
  <2>2. /\ Len(FlattenSeq(q)) = 2 * Len(q)
        /\ \A i \in 1..Len(q) : /\ FlattenSeq(q)[2 * i - 1] = q[i][1]
                                /\ FlattenSeq(q)[2 * i] = q[i][2]
    BY ONLY <2>1, FlattenPairs
  <2> QED
    BY <1>4, <1>6, <2>2
<1>9. ASSUME NEW j \in 1..n
      PROVE  /\ b[2 * j - 1].batch = number /\ b[2 * j].batch = number
             /\ b[2 * j - 1].repetition = j /\ b[2 * j].repetition = j
             /\ b[2 * j - 1] # b[2 * j]
  <2>1. b[2 * j - 1] = Run(j, order[j]) /\ b[2 * j] = Run(j, Other(order[j]))
    BY <1>5, <1>8
  <2>2. Other(order[j]) # order[j]
    <3>1. order[j] \in Conditions
      OBVIOUS
    <3> HIDE DEF Other
    <3> QED
      BY <1>2, <3>1
  <2>3. b[2 * j - 1].condition = order[j] /\ b[2 * j].condition = Other(order[j])
    <3> HIDE DEF Other
    <3> QED
      BY <2>1
  <2>4. /\ b[2 * j - 1].batch = number /\ b[2 * j].batch = number
        /\ b[2 * j - 1].repetition = j /\ b[2 * j].repetition = j
    <3> HIDE DEF Other
    <3> QED
      BY <2>1
  <2> QED
    BY <2>2, <2>3, <2>4
<1> QED
  BY <1>7, <1>8, <1>9

\* A batch more leaves a plan of pairs.
LEMMA BatchKeepsPlan ==
  ASSUME fixedScope \in BOOLEAN, NEW s, Sound(s), NEW b \in Batches(Len(s.batches) + 1),
         NEW t, t.batches = Append(s.batches, b), t.records = s.records, t.sessions = s.sessions,
         t.status \in Status
  PROVE  /\ Sound(t)
         /\ Following(s) => Following(t)
<1> DEFINE p == Plan(s)
           l == Len(p)
           c == Len(s.batches)
<1>1. p \in Seq(RunId) /\ l \in Nat /\ c \in Nat /\ s.batches \in Seq(Seq(RunId)) /\ Paired(p)
  BY PlanType, LenProperties DEF Sound
<1>2. /\ b \in Seq(RunId)
      /\ \E n \in Nat :
           /\ Len(b) = 2 * n
           /\ \A j \in 1..n : /\ b[2 * j - 1].batch = c + 1 /\ b[2 * j].batch = c + 1
                              /\ b[2 * j - 1].repetition = j /\ b[2 * j].repetition = j
                              /\ b[2 * j - 1] # b[2 * j]
  <2>1. c + 1 \in Nat
    BY <1>1
  <2> QED
    BY <2>1, BatchIsPaired
<1>3. PICK n \in Nat :
           /\ Len(b) = 2 * n
           /\ \A j \in 1..n : /\ b[2 * j - 1].batch = c + 1 /\ b[2 * j].batch = c + 1
                              /\ b[2 * j - 1].repetition = j /\ b[2 * j].repetition = j
                              /\ b[2 * j - 1] # b[2 * j]
  BY <1>2
<1>4. Plan(t) = p \o b
  BY <1>1, <1>2, FlattenAppend DEF Plan
<1>5. t.batches \in Seq(Seq(RunId)) /\ Len(t.batches) = c + 1
  BY <1>1, <1>2, AppendProperties
<1>6. /\ Plan(t) \in Seq(RunId) /\ Len(Plan(t)) = l + 2 * n
      /\ \A i \in 1..l : Plan(t)[i] = p[i]
      /\ \A i \in 1..(2 * n) : Plan(t)[l + i] = b[i]
  <2>1. /\ p \o b \in Seq(RunId) /\ Len(p \o b) = l + Len(b)
        /\ \A i \in 1..(l + Len(b)) : (p \o b)[i] = IF i <= l THEN p[i] ELSE b[i - l]
    <3>1. p \in Seq(RunId) /\ b \in Seq(RunId)
      BY <1>1, <1>2
    <3> HIDE DEF p
    <3> QED
      BY ONLY <3>1, ConcatProperties DEF l
  <2>2. \A i \in 1..l : i \in 1..(l + Len(b)) /\ i <= l
    BY <1>1, <1>3
  <2>3. \A i \in 1..(2 * n) : l + i \in 1..(l + Len(b)) /\ ~(l + i <= l) /\ (l + i) - l = i
    BY <1>1, <1>3
  <2> HIDE DEF p, l
  <2>4. \A i \in 1..l : (p \o b)[i] = p[i]
    BY <2>1, <2>2
  <2>5. \A i \in 1..(2 * n) : (p \o b)[l + i] = b[i]
    BY <2>1, <2>3
  <2> QED
    BY <1>3, <1>4, <2>1, <2>4, <2>5
<1>7. \A i \in 1..l : p[i].batch \in 1..c
  BY DEF Sound
<1>8. PICK k \in Nat :
        /\ l = 2 * k
        /\ \A j \in 1..k :
             /\ Pair(p[2 * j - 1]) = Pair(p[2 * j]) /\ p[2 * j - 1] # p[2 * j]
             /\ \A m \in 1..k : Pair(p[2 * m]) = Pair(p[2 * j]) => m = j
  BY <1>1 DEF Paired
<1> HIDE DEF p, l, c
<1> DEFINE o == Plan(t)
<1>9. \A j \in 1..k : o[2 * j - 1] = p[2 * j - 1] /\ o[2 * j] = p[2 * j] /\ o[2 * j].batch \in 1..c
  <2> SUFFICES ASSUME NEW j \in 1..k
               PROVE  o[2 * j - 1] = p[2 * j - 1] /\ o[2 * j] = p[2 * j] /\ o[2 * j].batch \in 1..c
    OBVIOUS
  <2>1. 2 * j - 1 \in 1..l /\ 2 * j \in 1..l
    BY <1>8
  <2> QED
    BY <1>6, <1>7, <2>1
<1>10. \A j \in 1..n : /\ o[2 * (k + j) - 1] = b[2 * j - 1] /\ o[2 * (k + j)] = b[2 * j]
  <2> SUFFICES ASSUME NEW j \in 1..n
               PROVE  /\ o[2 * (k + j) - 1] = b[2 * j - 1] /\ o[2 * (k + j)] = b[2 * j]
    OBVIOUS
  <2>1. /\ 2 * j - 1 \in 1..(2 * n) /\ 2 * j \in 1..(2 * n)
        /\ 2 * (k + j) - 1 = l + (2 * j - 1) /\ 2 * (k + j) = l + 2 * j
    BY <1>8
  <2> QED
    BY <1>6, <2>1
<1> HIDE DEF o
<1>11. ASSUME NEW j \in 1..(k + n)
       PROVE  \/ j \in 1..k
              \/ \E i \in 1..n : j = k + i
  <2>1. j \notin 1..k => j - k \in 1..n /\ j = k + (j - k)
    OBVIOUS
  <2> QED
    BY <2>1
<1>12. ASSUME NEW j \in 1..(k + n)
       PROVE  Pair(o[2 * j - 1]) = Pair(o[2 * j]) /\ o[2 * j - 1] # o[2 * j]
  <2>1. CASE j \in 1..k
    BY <1>8, <1>9, <2>1
  <2>2. ASSUME NEW i \in 1..n, j = k + i
        PROVE  Pair(o[2 * j - 1]) = Pair(o[2 * j]) /\ o[2 * j - 1] # o[2 * j]
    <3>1. o[2 * j - 1] = b[2 * i - 1] /\ o[2 * j] = b[2 * i]
      BY <1>10, <2>2
    <3> QED
      BY ZenonT(60), <1>3, <3>1 DEF Pair
  <2> QED
    BY <1>11, <2>1, <2>2
<1>13. ASSUME NEW j \in 1..(k + n), NEW m \in 1..(k + n), Pair(o[2 * m]) = Pair(o[2 * j])
       PROVE  m = j
  <2>1. o[2 * m].batch = o[2 * j].batch /\ o[2 * m].repetition = o[2 * j].repetition
    BY <1>13 DEF Pair
  <2>2. ASSUME NEW i \in 1..n PROVE o[2 * (k + i)].batch = c + 1 /\ o[2 * (k + i)].repetition = i
    BY <1>3, <1>10
  <2>3. c + 1 \notin 1..c
    BY <1>1
  <2>4. CASE j \in 1..k /\ m \in 1..k
    <3>1. o[2 * j] = p[2 * j] /\ o[2 * m] = p[2 * m]
      BY <1>9, <2>4
    <3> QED
      BY <1>8, <1>13, <2>4, <3>1
  <2>5. ASSUME NEW i \in 1..n, j = k + i PROVE m = j
    <3>1. o[2 * j].batch = c + 1 /\ o[2 * j].repetition = i
      BY <2>2, <2>5
    <3>2. m \notin 1..k
      BY <1>9, <2>1, <2>3, <3>1
    <3>3. PICK g \in 1..n : m = k + g
      BY <1>11, <3>2
    <3>4. o[2 * m].repetition = g
      BY <2>2, <3>3
    <3> QED
      BY <2>1, <2>5, <3>1, <3>3, <3>4
  <2>6. ASSUME NEW i \in 1..n, m = k + i PROVE m = j
    <3>1. o[2 * m].batch = c + 1 /\ o[2 * m].repetition = i
      BY <2>2, <2>6
    <3>2. j \notin 1..k
      BY <1>9, <2>1, <2>3, <3>1
    <3>3. PICK g \in 1..n : j = k + g
      BY <1>11, <3>2
    <3>4. o[2 * j].repetition = g
      BY <2>2, <3>3
    <3> QED
      BY <2>1, <2>6, <3>1, <3>3, <3>4
  <2> QED
    BY <1>11, <2>4, <2>5, <2>6
<1>14. Paired(o)
  <2>1. k + n \in Nat /\ Len(o) = 2 * (k + n)
    BY <1>6, <1>8 DEF o
  <2> QED
    BY <1>12, <1>13, <2>1 DEF Paired
<1>15. \A i \in 1..Len(o) : o[i].batch \in 1..(c + 1)
  <2> SUFFICES ASSUME NEW i \in 1..Len(o) PROVE o[i].batch \in 1..(c + 1)
    OBVIOUS
  <2>1. Len(o) = l + 2 * n
    BY <1>6 DEF o
  <2>2. CASE i \in 1..l
    <3>1. o[i] = p[i]
      BY <1>6, <2>2 DEF o
    <3> QED
      BY <1>1, <1>7, <2>2, <3>1
  <2>3. CASE i \notin 1..l
    <3>1. i \in Nat \ {0} /\ i <= 2 * (k + n) /\ i > 2 * k
      BY <1>8, <2>1, <2>3
    <3>2. PICK a \in Nat \ {0} : i = 2 * a - 1 \/ i = 2 * a
      BY <3>1, Halves
    <3>3. a - k \in 1..n /\ a = k + (a - k)
      BY <3>1, <3>2
    <3>4. PICK j \in 1..n : a = k + j
      BY <3>3
    <3>5. o[i].batch = c + 1
      <4>1. o[2 * (k + j) - 1].batch = c + 1 /\ o[2 * (k + j)].batch = c + 1
        BY <1>3, <1>10
      <4> QED
        BY <3>2, <3>4, <4>1
    <3> QED
      BY <1>1, <3>5
  <2> QED
    BY <2>2, <2>3
<1>16. Sound(t)
  BY <1>5, <1>14, <1>15 DEF Sound, o
<1>17. ASSUME Following(s) PROVE Following(t)
  <2>1. Len(s.records) <= l /\ \A i \in 1..Len(s.records) : s.records[i].run = p[i]
    BY <1>17 DEF Following, p, l
  <2>2. Len(s.records) \in Nat
    BY LenProperties DEF Sound
  <2>3. \A i \in 1..Len(s.records) : i \in 1..l
    BY <1>1, <2>1, <2>2
  <2>4. Len(s.records) <= Len(Plan(t))
    BY <1>1, <1>6, <2>1, <2>2
  <2>5. \A i \in 1..Len(s.records) : s.records[i].run = Plan(t)[i]
    BY <1>6, <2>1, <2>3
  <2> QED
    BY <1>17, <2>4, <2>5 DEF Following
<1> QED
  BY <1>16, <1>17

\* What WithRecord() and Ended() make of the sessions: one element is another.
LEMMA LastSession ==
  ASSUME NEW q \in Seq(SessionRecord), NEW n \in Nat, n = Len(q), n >= 1, NEW e \in SessionRecord,
         NEW r, r = [q EXCEPT ![n] = e]
  PROVE  /\ r \in Seq(SessionRecord) /\ Len(r) = n /\ r[n] = e
         /\ \A i \in 1..(n - 1) : r[i] = q[i]
<1>1. DOMAIN q = 1..n /\ \A i \in 1..n : q[i] \in SessionRecord
  BY LenProperties, ElementOfSeq
<1>2. /\ r \in [1..n -> SessionRecord] /\ r[n] = e
      /\ \A i \in 1..(n - 1) : r[i] = q[i]
  <2>1. q \in [1..n -> SessionRecord]
    BY <1>1, LenProperties
  <2> QED
    BY <2>1
<1> QED
  BY <1>2, FunctionIsSequence

\* The run lists of the sessions.
LEMMA RunListsType ==
  ASSUME NEW q \in Seq(SessionRecord)
  PROVE  /\ [i \in DOMAIN q |-> q[i].runIds] \in Seq(Seq(RunId))
         /\ Len([i \in DOMAIN q |-> q[i].runIds]) = Len(q)
<1>1. DOMAIN q = 1..Len(q) /\ Len(q) \in Nat /\ \A i \in 1..Len(q) : q[i] \in SessionRecord
  BY LenProperties, ElementOfSeq
<1>2. [i \in DOMAIN q |-> q[i].runIds] \in [1..Len(q) -> Seq(RunId)]
  BY <1>1 DEF SessionRecord
<1> QED
  BY <1>1, <1>2, FunctionIsSequence

\* A record for the run under way keeps log, plan and history in step.
LEMMA RecordingKeepsBooks ==
  ASSUME DOMAIN state = Fields, Sound(state), Following(state), History(state),
         Len(state.records) < Len(Plan(state)), state.currentRun = NextRun(state)
  PROVE  LET t == WithRecord(state) IN
         /\ Sound(t) /\ Following(t) /\ History(t)
         /\ t.currentRun = NoRun /\ t.status = state.status /\ DOMAIN t = Fields
<1> DEFINE t == WithRecord(state)
           q == state.sessions
           n == Len(q)
           run == state.currentRun
           rec == [run |-> run, session |-> n]
           e == [q[n] EXCEPT !.runIds = Append(@, run)]
           r == state.records
           l == Len(r)
           p == Plan(state)
<1>1. /\ DOMAIN t = Fields
      /\ t.records = Append(r, rec) /\ t.sessions = [q EXCEPT ![n] = e]
      /\ t.batches = state.batches /\ t.status = state.status /\ t.currentRun = NoRun
      /\ t.activeSince = state.activeSince /\ t.startedAt = state.startedAt
      /\ t.activeMs = state.activeMs /\ t.pausedMs = state.pausedMs
  BY DEF WithRecord, Session, Fields
<1>2. /\ r \in Seq(RunRecord) /\ l \in Nat /\ p \in Seq(RunId) /\ Len(p) \in Nat
      /\ q \in Seq(SessionRecord) /\ n \in Nat /\ n >= 1 /\ n \in 1..n /\ l < Len(p)
  <2>1. r \in Seq(RunRecord) /\ p \in Seq(RunId) /\ Len(p) \in Nat /\ q \in Seq(SessionRecord) /\ n >= 1
    BY PlanType DEF Sound, History
  <2> QED
    BY <2>1, LenProperties
<1>3. run = p[l + 1] /\ run \in RunId
  <2>1. l + 1 \in 1..Len(p)
    BY <1>2
  <2> QED
    BY <1>2, <2>1, ElementOfSeq DEF NextRun
<1>4. rec \in RunRecord
  BY <1>2, <1>3 DEF RunRecord
<1>5. /\ t.records \in Seq(RunRecord) /\ Len(t.records) = l + 1
      /\ \A i \in 1..l : t.records[i] = r[i]
      /\ t.records[l + 1] = rec
  <2> HIDE DEF r, l, rec, t
  <2>1. l = Len(r)
    BY DEF l
  <2> QED
    BY <1>1, <1>2, <1>4, <2>1, AppendProperties
<1>6. q[n] \in SessionRecord
  BY <1>2, ElementOfSeq
<1>7. /\ e \in SessionRecord
      /\ e.runIds = Append(q[n].runIds, run)
      /\ e.startedAt = q[n].startedAt /\ e.endedAt = q[n].endedAt
      /\ e.activeMs = q[n].activeMs /\ e.status = q[n].status
  <2>1. Append(q[n].runIds, run) \in Seq(RunId)
    BY <1>3, <1>6, AppendProperties DEF SessionRecord
  <2> HIDE DEF q, n, run
  <2> QED
    BY <1>6, <2>1 DEF SessionRecord
<1>8. /\ t.sessions \in Seq(SessionRecord) /\ Len(t.sessions) = n /\ t.sessions[n] = e
      /\ \A i \in 1..(n - 1) : t.sessions[i] = q[i]
  <2> HIDE DEF e, t
  <2> QED
    BY <1>1, <1>2, <1>7, LastSession
<1>9. Plan(t) = p
  BY <1>1 DEF Plan
<1> HIDE DEF t, q, n, r, l, p, e, rec, run
<1>10. Sound(t)
  <2>1. \A i \in 1..l : r[i].session \in 1..n
    BY DEF Sound, r, l, q, n
  <2>2. rec.session = n
    BY DEF rec
  <2>3. \A i \in 1..(l + 1) : i \in 1..l \/ i = l + 1
    BY <1>2
  <2>4. \A i \in 1..Len(t.records) : t.records[i].session \in 1..Len(t.sessions)
    BY <1>2, <1>5, <1>8, <2>1, <2>2, <2>3
  <2>5. /\ t.status \in Status /\ t.batches \in Seq(Seq(RunId)) /\ Paired(Plan(t))
        /\ \A i \in 1..Len(Plan(t)) : Plan(t)[i].batch \in 1..Len(t.batches)
    BY <1>1, <1>9 DEF Sound, p
  <2> QED
    BY <1>5, <1>8, <2>4, <2>5 DEF Sound
<1>11. Following(t)
  <2>1. /\ \A i \in 1..l : r[i].run = p[i]
        /\ \A j \in 1..l : 2 * j <= l => r[2 * j - 1].session = r[2 * j].session
        /\ \A j \in 1..l : 2 * j - 1 = l => r[l].session = n
    BY DEF Following, r, l, p, n, q
  <2>2. rec.run = p[l + 1] /\ rec.session = n
    BY <1>3 DEF rec, run
  <2>3. \A i \in 1..(l + 1) : i \in 1..l \/ i = l + 1
    BY <1>2
  <2>4. \A i \in 1..(l + 1) : t.records[i].run = p[i]
    BY <1>5, <2>1, <2>2, <2>3
  <2>5. ASSUME NEW j \in 1..(l + 1), 2 * j <= l + 1
        PROVE  t.records[2 * j - 1].session = t.records[2 * j].session
    <3>1. CASE 2 * j <= l
      <4>1. j \in 1..l /\ 2 * j - 1 \in 1..l /\ 2 * j \in 1..l
        BY <1>2, <3>1
      <4> QED
        BY <1>5, <2>1, <3>1, <4>1
    <3>2. CASE 2 * j = l + 1
      <4>1. j \in 1..l /\ 2 * j - 1 = l /\ l \in 1..l
        BY <1>2, <3>2
      <4>2. t.records[2 * j - 1].session = n
        BY <1>5, <2>1, <4>1
      <4> QED
        BY <1>5, <2>2, <3>2, <4>2
    <3>3. 2 * j <= l \/ 2 * j = l + 1
      BY <1>2, <2>5
    <3> QED
      BY <3>1, <3>2, <3>3
  <2>6. t.records[l + 1].session = n
    BY <1>5, <2>2
  <2> QED
    BY <1>2, <1>5, <1>8, <1>9, <2>4, <2>5, <2>6 DEF Following
<1>12. SessionsMatchRecords(t)
  <2> DEFINE f == [i \in DOMAIN q |-> q[i].runIds]
             g == [i \in DOMAIN t.sessions |-> t.sessions[i].runIds]
  <2>1. DOMAIN q = 1..n /\ DOMAIN t.sessions = 1..n
    BY <1>2, <1>8, LenProperties DEF n
  <2>2. f \in Seq(Seq(RunId)) /\ Len(f) = n /\ f # <<>>
    <3>1. f \in Seq(Seq(RunId)) /\ Len(f) = n
      BY <1>2, RunListsType DEF n
    <3> QED
      BY <1>2, <3>1, EmptySeq
  <2>3. /\ DOMAIN f = 1..n /\ DOMAIN g = 1..n
        /\ \A i \in 1..n : f[i] = q[i].runIds /\ g[i] = t.sessions[i].runIds
    BY <2>1
  <2>4. FlattenSeq(f) = RunsOf(r)
    BY DEF History, SessionsMatchRecords, q, r
  <2> HIDE DEF f, g
  <2>5. g = [f EXCEPT ![n] = Append(@, run)]
    <3>1. g[n] = Append(f[n], run)
      BY <1>2, <1>7, <1>8, <2>3
    <3>2. ASSUME NEW i \in 1..(n - 1) PROVE g[i] = f[i]
      <4>1. i \in 1..n
        BY <1>2
      <4>2. t.sessions[i] = q[i]
        BY <1>8
      <4> QED
        BY <2>3, <4>1, <4>2
    <3>3. \A i \in 1..n : i = n \/ i \in 1..(n - 1)
      BY <1>2
    <3>4. g = [i \in 1..n |-> g[i]] /\ f = [i \in 1..n |-> f[i]]
      BY <2>1 DEF f, g
    <3> QED
      BY <2>3, <3>1, <3>2, <3>3, <3>4
  <2>6. FlattenSeq(g) = Append(RunsOf(r), run)
    <3>1. FlattenSeq([f EXCEPT ![Len(f)] = Append(@, run)]) = Append(FlattenSeq(f), run)
      BY ONLY <1>3, <2>2, FlattenExtendLast
    <3> QED
      BY <2>2, <2>4, <2>5, <3>1
  <2>7. RunsOf(t.records) = Append(RunsOf(r), run)
    <3>1. /\ RunsOf(r) \in Seq(RunId) /\ Len(RunsOf(r)) = l
          /\ \A i \in 1..l : RunsOf(r)[i] = r[i].run
      BY <1>2, RunsOfLog DEF l
    <3>2. /\ RunsOf(t.records) \in Seq(RunId) /\ Len(RunsOf(t.records)) = l + 1
          /\ \A i \in 1..(l + 1) : RunsOf(t.records)[i] = t.records[i].run
      BY <1>5, RunsOfLog
    <3>3. /\ Append(RunsOf(r), run) \in Seq(RunId) /\ Len(Append(RunsOf(r), run)) = l + 1
          /\ \A i \in 1..l : Append(RunsOf(r), run)[i] = RunsOf(r)[i]
          /\ Append(RunsOf(r), run)[l + 1] = run
      <4>1. RunsOf(r) \in Seq(RunId) /\ run \in RunId /\ Len(RunsOf(r)) = l
        BY <1>3, <3>1
      <4> QED
        BY ONLY <1>2, <4>1, AppendProperties
    <3>4. \A i \in 1..(l + 1) : i \in 1..l \/ i = l + 1
      BY <1>2
    <3>5. rec.run = run
      BY DEF rec
    <3>6. \A i \in 1..(l + 1) : RunsOf(t.records)[i] = Append(RunsOf(r), run)[i]
      BY <1>5, <3>1, <3>2, <3>3, <3>4, <3>5
    <3> QED
      BY <3>2, <3>3, <3>6, SeqEqual
  <2>8. ASSUME NEW x \in Range(t.records)
        PROVE  x.run \in Range(t.sessions[x.session].runIds)
    <3>1. PICK i \in 1..(l + 1) : x = t.records[i]
      <4>1. DOMAIN t.records = 1..(l + 1)
        BY <1>5, LenProperties
      <4> QED
        BY <4>1 DEF Range
    <3>2. /\ q[n].runIds \in Seq(RunId) /\ Len(q[n].runIds) \in Nat
          /\ Len(e.runIds) = Len(q[n].runIds) + 1
          /\ DOMAIN e.runIds = 1..(Len(q[n].runIds) + 1)
          /\ DOMAIN q[n].runIds = 1..Len(q[n].runIds)
          /\ \A j \in 1..Len(q[n].runIds) : e.runIds[j] = q[n].runIds[j]
          /\ e.runIds[Len(q[n].runIds) + 1] = run
      <4>1. q[n].runIds \in Seq(RunId)
        BY <1>6 DEF SessionRecord
      <4>2. PICK y \in Seq(RunId) : y = q[n].runIds
        BY <4>1
      <4>3. /\ Append(y, run) \in Seq(RunId) /\ Len(Append(y, run)) = Len(y) + 1
            /\ \A j \in 1..Len(y) : Append(y, run)[j] = y[j]
            /\ Append(y, run)[Len(y) + 1] = run
        BY <1>3, AppendProperties
      <4>4. /\ Len(y) \in Nat /\ DOMAIN y = 1..Len(y)
            /\ DOMAIN Append(y, run) = 1..Len(Append(y, run))
        BY <4>3, LenProperties
      <4> QED
        BY <1>7, <4>1, <4>2, <4>3, <4>4
    <3>3. CASE i = l + 1
      <4>1. x.run = run /\ x.session = n
        BY <1>5, <3>1, <3>3 DEF rec
      <4>2. Len(q[n].runIds) + 1 \in DOMAIN e.runIds
        BY <3>2
      <4>3. run \in Range(e.runIds)
        BY <3>2, <4>2 DEF Range
      <4> QED
        BY <1>8, <4>1, <4>3
    <3>4. CASE i \in 1..l
      <4>1. x = r[i] /\ x \in Range(r) /\ x.session \in 1..n
        <5>1. DOMAIN r = 1..l
          BY <1>2, LenProperties DEF l
        <5>2. x = r[i]
          BY <1>5, <3>1, <3>4
        <5>3. r[i].session \in 1..n
          BY <3>4 DEF Sound, r, l, q, n
        <5> QED
          BY <3>4, <5>1, <5>2, <5>3 DEF Range
      <4>2. x.run \in Range(q[x.session].runIds)
        BY <4>1 DEF History, SessionsMatchRecords, q, r
      <4>3. CASE x.session = n
        <5>1. \A j \in DOMAIN q[n].runIds : j \in DOMAIN e.runIds /\ e.runIds[j] = q[n].runIds[j]
          BY <3>2
        <5>2. Range(q[n].runIds) \subseteq Range(e.runIds)
          BY <5>1 DEF Range
        <5> QED
          BY <1>8, <4>2, <4>3, <5>2
      <4>4. CASE x.session # n
        <5>1. x.session \in 1..(n - 1)
          BY <1>2, <4>1, <4>4
        <5> QED
          BY <1>8, <4>2, <5>1
      <4> QED
        BY <4>3, <4>4
    <3> QED
      BY <1>2, <3>1, <3>3, <3>4
  <2> QED
    BY <2>6, <2>7, <2>8 DEF SessionsMatchRecords, g
<1>13. History(t)
  <2>1. /\ q[n].startedAt = state.activeSince
        /\ \A i \in 1..(n - 1) : Closed(q[i])
        /\ \A i \in 1..(n - 1) : q[i + 1].startedAt - q[i].endedAt >= 0
        /\ state.startedAt = q[1].startedAt
        /\ state.activeMs = ActiveSum(q, n - 1)
        /\ state.pausedMs = GapSum(q, n - 1)
    BY DEF History, q, n
  <2>2. /\ \A i \in 1..n : /\ t.sessions[i].startedAt = q[i].startedAt
                           /\ t.sessions[i].endedAt = q[i].endedAt
                           /\ t.sessions[i].activeMs = q[i].activeMs
                           /\ t.sessions[i].status = q[i].status
    <3>1. \A i \in 1..n : i = n \/ i \in 1..(n - 1)
      BY <1>2
    <3> QED
      BY <1>7, <1>8, <3>1
  <2>3. PICK m \in Nat : m = n - 1
    BY <1>2
  <2>4. \A i \in 1..m : i \in 1..n /\ i + 1 \in 1..n
    BY <1>2, <2>3
  <2>5. /\ \A i \in 1..m : q[i].activeMs = t.sessions[i].activeMs
        /\ \A i \in 1..m : /\ q[i + 1].startedAt = t.sessions[i + 1].startedAt
                           /\ q[i].endedAt = t.sessions[i].endedAt
    BY <2>2, <2>4
  <2>6. ActiveSum(q, m) = ActiveSum(t.sessions, m) /\ GapSum(q, m) = GapSum(t.sessions, m)
    BY ONLY <2>5, m \in Nat, HistorySums
  <2>7. /\ \A i \in 1..m : Closed(t.sessions[i])
        /\ \A i \in 1..m : t.sessions[i + 1].startedAt - t.sessions[i].endedAt >= 0
    BY <2>1, <2>2, <2>3, <2>4 DEF Closed
  <2>8. 1 \in 1..n
    BY <1>2
  <2>9. /\ t.sessions[n].startedAt = t.activeSince /\ t.startedAt = t.sessions[1].startedAt
        /\ t.activeMs = ActiveSum(t.sessions, n - 1) /\ t.pausedMs = GapSum(t.sessions, n - 1)
    BY <1>1, <1>2, <2>1, <2>2, <2>3, <2>6, <2>8
  <2> QED
    BY <1>2, <1>8, <1>12, <2>3, <2>7, <2>9 DEF History
<1> QED
  BY <1>1, <1>10, <1>11, <1>13 DEF t

\* SessionsMatchBudget() speaks of the two sums.
LEMMA BudgetSums ==
  ASSUME NEW s
  PROVE  SessionsMatchBudget(s) <=>
           LET n == Len(s.sessions) IN
           /\ \A i \in 1..n :
                /\ s.sessions[i].status = "PAUSED"
                /\ s.sessions[i].activeMs = s.sessions[i].endedAt - s.sessions[i].startedAt
           /\ \A i \in 1..(n - 1) : s.sessions[i + 1].startedAt - s.sessions[i].endedAt >= 0
           /\ s.startedAt = s.sessions[1].startedAt
           /\ s.pausedSince = s.sessions[n].endedAt
           /\ s.activeMs = ActiveSum(s.sessions, n)
           /\ s.pausedMs = GapSum(s.sessions, n - 1)
BY DEF SessionsMatchBudget, ActiveSum, GapSum

\* A session of a plan that is new or of a clean pause starts with a history.
LEMMA LaunchOpensBooks ==
  ASSUME TimeInv, Sound(saved), saved.status = "PREPARED" => saved = NewPilotState, Launch
  PROVE  /\ Sound(state') /\ Following(state') /\ History(state')
         /\ state'.currentRun = NoRun /\ state'.status = "PREPARING"
<1> DEFINE q == saved.sessions
           n == Len(q)
           r == saved.records
           t == state'
<1>1. /\ DOMAIN saved = Fields /\ clock \in Nat
      /\ saved.activeMs \in Int /\ saved.pausedMs \in Int /\ saved.pausedSince \in Int
  BY DEF TimeInv, IsCheckpoint
<1>2. /\ t.status = "PREPARING" /\ t.records = r /\ t.batches = saved.batches
      /\ t.sessions = Append(q, NewSession) /\ t.currentRun = saved.currentRun
      /\ t.startedAt = (IF saved.startedAt = Never THEN clock ELSE saved.startedAt)
      /\ t.activeSince = clock /\ t.activeMs = saved.activeMs /\ t.pausedMs = PausedSoFar(saved)
  BY <1>1 DEF Launch, Save, Fields
<1>3. NewSession \in SessionRecord /\ NewSession.startedAt = clock /\ NewSession.runIds = <<>>
  BY <1>1, EmptySeq DEF NewSession, SessionRecord, Status, Never
<1>4. q \in Seq(SessionRecord) /\ n \in Nat /\ r \in Seq(RunRecord) /\ Len(r) \in Nat
  BY LenProperties DEF Sound
<1> HIDE DEF q, n, r, t
<1>5. /\ t.sessions \in Seq(SessionRecord) /\ Len(t.sessions) = n + 1
      /\ t.sessions[n + 1] = NewSession
      /\ \A i \in 1..n : t.sessions[i] = q[i]
  <2>1. n = Len(q)
    BY DEF n
  <2> QED
    BY <1>2, <1>3, <1>4, <2>1, AppendProperties
<1>6. Plan(t) = Plan(saved)
  BY <1>2 DEF Plan
<1>7. Sound(t)
  <2>1. \A i \in 1..Len(r) : r[i].session \in 1..n
    BY DEF Sound, r, n, q
  <2>2. \A i \in 1..Len(t.records) : t.records[i].session \in 1..Len(t.sessions)
    BY <1>2, <1>4, <1>5, <2>1
  <2>3. t.status \in Status
    BY <1>2 DEF Status
  <2> QED
    BY <1>2, <1>5, <1>6, <2>2, <2>3 DEF Sound, r
<1>8. CanStartFresh(saved) \/ CanResume(saved)
  BY DEF Launch
<1>9. \/ saved = NewPilotState /\ n = 0 /\ Len(r) = 0
      \/ CanResume(saved) /\ n >= 1
  <2>1. CASE CanStartFresh(saved)
    BY <2>1, EmptySeq DEF CanStartFresh, q, n, r
  <2>2. CASE CanResume(saved)
    <3>1. q # <<>>
      BY <2>2 DEF CanResume, q
    <3> QED
      BY <2>2, <3>1, <1>4, EmptySeq DEF n
  <2> QED
    BY <1>8, <2>1, <2>2
<1>10. saved.currentRun = NoRun
  BY <1>9 DEF NewPilotState, CanResume, AtPairBoundary
<1>11. Following(t)
  <2>1. CASE saved = NewPilotState /\ n = 0 /\ Len(r) = 0
    <3>1. Len(Plan(t)) \in Nat
      BY <1>7, PlanType
    <3> QED
      BY <1>2, <2>1, <3>1 DEF Following
  <2>2. CASE CanResume(saved)
    <3>1. Following(saved)
      BY <2>2, BoundaryFollows DEF CanResume
    <3>2. PICK k \in Nat : Len(r) = 2 * k
      BY <2>2, BoundaryFollows DEF CanResume, r
    <3>3. \A j \in 1..Len(r) : 2 * j - 1 # Len(r)
      BY <3>2
    <3>4. /\ Len(r) <= Len(Plan(t))
          /\ \A i \in 1..Len(r) : r[i].run = Plan(t)[i]
          /\ \A j \in 1..Len(r) : 2 * j <= Len(r) => r[2 * j - 1].session = r[2 * j].session
      BY <1>6, <3>1 DEF Following, r
    <3> QED
      BY <1>2, <3>3, <3>4 DEF Following
  <2> QED
    BY <1>9, <2>1, <2>2
<1>12. SessionsMatchRecords(t)
  <2> DEFINE f == [i \in DOMAIN q |-> q[i].runIds]
             g == [i \in DOMAIN t.sessions |-> t.sessions[i].runIds]
  <2>1. FlattenSeq(f) = RunsOf(r) /\ \A x \in Range(r) : x.run \in Range(q[x.session].runIds)
    <3>1. CASE saved = NewPilotState
      <4>1. q = <<>> /\ r = <<>>
        BY <3>1 DEF NewPilotState, q, r
      <4>2. f = <<>> /\ RunsOf(r) = <<>> /\ Range(r) = {}
        BY <4>1 DEF RunsOf, Range
      <4> HIDE DEF f
      <4>3. FlattenSeq(f) = <<>>
        BY <4>2 DEF FlattenSeq
      <4> QED
        BY <4>2, <4>3
    <3>2. CASE CanResume(saved)
      BY <3>2 DEF CanResume, SessionsMatchRecords, q, r
    <3> QED
      BY <1>9, <3>1, <3>2
  <2>2. f \in Seq(Seq(RunId)) /\ Len(f) = n /\ DOMAIN f = 1..n
    BY <1>4, RunListsType, LenProperties DEF n
  <2>3. g \in Seq(Seq(RunId)) /\ Len(g) = n + 1
    BY <1>5, RunListsType
  <2>4. /\ \A i \in 1..n : f[i] = q[i].runIds
        /\ \A i \in 1..(n + 1) : g[i] = t.sessions[i].runIds
    <3>1. DOMAIN t.sessions = 1..(n + 1)
      BY <1>5, LenProperties
    <3> QED
      BY <2>2, <3>1
  <2> HIDE DEF f, g
  <2>5. g = Append(f, <<>>)
    <3>0. <<>> \in Seq(RunId)
      BY EmptySeq
    <3>1. /\ Append(f, <<>>) \in Seq(Seq(RunId)) /\ Len(Append(f, <<>>)) = n + 1
          /\ \A i \in 1..n : Append(f, <<>>)[i] = f[i]
          /\ Append(f, <<>>)[n + 1] = <<>>
      BY <2>2, <3>0, AppendProperties
    <3>2. \A i \in 1..(n + 1) : i \in 1..n \/ i = n + 1
      BY <1>4
    <3>3. g[n + 1] = <<>>
      <4>1. n + 1 \in 1..(n + 1)
        BY <1>4
      <4> QED
        BY <1>3, <1>5, <2>4, <4>1
    <3>4. \A i \in 1..n : g[i] = f[i]
      <4>1. \A i \in 1..n : i \in 1..(n + 1)
        BY <1>4
      <4> QED
        BY <1>5, <2>4, <4>1
    <3>5. \A i \in 1..(n + 1) : g[i] = Append(f, <<>>)[i]
      BY <3>1, <3>2, <3>3, <3>4
    <3> QED
      BY <2>3, <3>1, <3>5, SeqEqual
  <2>6. FlattenSeq(g) = RunsOf(r)
    <3>0. <<>> \in Seq(RunId)
      BY EmptySeq
    <3>1. FlattenSeq(g) = RunsOf(r) \o <<>>
      BY <2>1, <2>2, <2>5, <3>0, FlattenAppend
    <3>2. RunsOf(r) \in Seq(RunId)
      BY <1>4, RunsOfLog
    <3> QED
      BY <3>1, <3>2, ConcatEmptySeq
  <2>7. ASSUME NEW x \in Range(r) PROVE x.run \in Range(t.sessions[x.session].runIds)
    <3>1. x.session \in 1..n
      <4>1. DOMAIN r = 1..Len(r)
        BY <1>4, LenProperties
      <4>2. PICK i \in 1..Len(r) : x = r[i]
        BY <4>1 DEF Range
      <4> QED
        BY <4>2 DEF Sound, r, n, q
    <3> QED
      BY <1>5, <2>1, <3>1
  <2> QED
    BY <1>2, <2>6, <2>7 DEF SessionsMatchRecords, g
<1>13. /\ \A i \in 1..n : Closed(q[i])
       /\ \A i \in 1..n : t.sessions[i + 1].startedAt - t.sessions[i].endedAt >= 0
       /\ t.startedAt = t.sessions[1].startedAt
       /\ t.activeMs = ActiveSum(t.sessions, n) /\ t.pausedMs = GapSum(t.sessions, n)
  <2>1. CASE saved = NewPilotState /\ n = 0 /\ Len(r) = 0
    <3>1. /\ t.startedAt = clock /\ t.activeMs = 0 /\ t.pausedMs = 0
      BY <1>2, <2>1 DEF NewPilotState, PausedSoFar, Elapsed
    <3>2. t.sessions[1].startedAt = clock
      BY <1>3, <1>5, <2>1
    <3>3. ActiveSum(t.sessions, n) = 0 /\ GapSum(t.sessions, n) = 0
      <4>1. 0 \in Nat
        OBVIOUS
      <4> QED
        BY <2>1, <4>1, HistorySums
    <3> QED
      BY <2>1, <3>1, <3>2, <3>3
  <2>2. CASE CanResume(saved) /\ n >= 1
    <3>1. /\ \A i \in 1..n : q[i].status = "PAUSED" /\ q[i].activeMs = q[i].endedAt - q[i].startedAt
          /\ \A i \in 1..(n - 1) : q[i + 1].startedAt - q[i].endedAt >= 0
          /\ saved.startedAt = q[1].startedAt /\ saved.pausedSince = q[n].endedAt
          /\ saved.activeMs = ActiveSum(q, n) /\ saved.pausedMs = GapSum(q, n - 1)
      <4>1. SessionsMatchBudget(saved)
        BY <2>2 DEF CanResume
      <4> QED
        BY <4>1, BudgetSums DEF q, n
    <3>2. \A i \in 1..n : q[i].endedAt # Never
      <4>1. DOMAIN q = 1..n
        BY <1>4, LenProperties DEF n
      <4> QED
        BY <2>2, <4>1 DEF CanResume, q
    <3>3. saved.pausedSince # Never /\ saved.startedAt # Never
      BY <2>2 DEF CanResume, TimeInv, StartsTrue
    <3>4. saved.pausedSince <= clock
      BY DEF Launch, ClockAhead
    <3>5. t.pausedMs = saved.pausedMs + (clock - saved.pausedSince)
      BY <1>2, <3>3 DEF PausedSoFar, Elapsed
    <3>6. PICK m \in Nat : m = n - 1
      BY <1>4, <2>2
    <3>7. n = m + 1 /\ n + 1 = m + 2 /\ n \in 1..n /\ 1 \in 1..n /\ n \in Nat
      BY <1>4, <2>2, <3>6
    <3>8. \A i \in 1..m : i \in 1..n /\ i + 1 \in 1..n
      BY <1>4, <3>6
    <3>9. GapSum(t.sessions, m) = GapSum(q, m)
      <4>1. \A i \in 1..m : /\ q[i + 1].startedAt = t.sessions[i + 1].startedAt
                            /\ q[i].endedAt = t.sessions[i].endedAt
        BY <1>5, <3>8
      <4> QED
        BY ONLY <4>1, m \in Nat, HistorySums
    <3>10. GapSum(t.sessions, m + 1)
             = GapSum(t.sessions, m) + (t.sessions[m + 2].startedAt - t.sessions[m + 1].endedAt)
      BY ONLY m \in Nat, HistorySums
    <3>11. t.sessions[m + 2].startedAt = clock /\ t.sessions[m + 1].endedAt = saved.pausedSince
      BY <1>3, <1>5, <3>1, <3>7
    <3>12. t.pausedMs = GapSum(t.sessions, n)
      <4>1. saved.pausedMs = GapSum(q, m)
        BY <3>1, <3>6
      <4> QED
        BY <3>5, <3>7, <3>9, <3>10, <3>11, <4>1
    <3>13. ActiveSum(t.sessions, n) = ActiveSum(q, n)
      <4>1. \A i \in 1..n : q[i].activeMs = t.sessions[i].activeMs
        BY <1>5
      <4> QED
        BY ONLY <4>1, <3>7, HistorySums
    <3>14. t.activeMs = ActiveSum(t.sessions, n)
      BY <1>2, <3>1, <3>13
    <3>15. t.startedAt = t.sessions[1].startedAt
      BY <1>2, <1>5, <3>1, <3>3, <3>7
    <3>16. ASSUME NEW i \in 1..n
           PROVE  t.sessions[i + 1].startedAt - t.sessions[i].endedAt >= 0
      <4>1. CASE i = n
        <5>1. t.sessions[i + 1].startedAt = clock /\ t.sessions[i].endedAt = saved.pausedSince
          BY <3>7, <3>11, <4>1
        <5> QED
          BY <1>1, <3>4, <5>1
      <4>2. CASE i # n
        <5>1. i \in 1..(n - 1) /\ i + 1 \in 1..n
          BY <1>4, <4>2
        <5> QED
          BY <1>5, <3>1, <5>1
      <4> QED
        BY <4>1, <4>2
    <3>17. \A i \in 1..n : Closed(q[i])
      BY <3>1, <3>2 DEF Closed
    <3> QED
      BY <3>12, <3>14, <3>15, <3>16, <3>17
  <2> QED
    BY <1>9, <2>1, <2>2
<1>14. History(t)
  <2>1. (n + 1) - 1 = n /\ n + 1 >= 1
    BY <1>4
  <2>2. t.sessions[n + 1].startedAt = t.activeSince
    BY <1>2, <1>3, <1>5
  <2>3. \A i \in 1..n : Closed(t.sessions[i])
    BY <1>5, <1>13
  <2> QED
    BY <1>5, <1>12, <1>13, <2>1, <2>2, <2>3 DEF History
<1> QED
  BY <1>2, <1>7, <1>10, <1>11, <1>14 DEF t

\* What the finally block makes of a checkpoint, and what of a clean pause.
LEMMA EndingKeepsBooks ==
  ASSUME clock \in Nat, NEW s, IsCheckpoint(s), Sound(s), History(s),
         Len(s.sessions) = Session, s.status \notin {"PREPARED", "PAUSED"},
         s.status = "PAUSING" => AtPairBoundary(s) /\ s.clean
  PROVE  /\ Sound(Ended(s)) /\ Ended(s).status # "PREPARED"
         /\ Ended(s).status = "PAUSED" => CanResume(Ended(s))
<1> DEFINE q == s.sessions
           n == Len(q)
           active == clock - s.activeSince
           timed == IF active < 0 THEN [s EXCEPT !.status = "REVIEW_REQUIRED"]
                    ELSE [s EXCEPT !.activeMs = @ + active, !.sessions[Session].activeMs = active]
           paused == timed.status = "PAUSING"
           status == IF paused THEN "PAUSED" ELSE timed.status
           t == Ended(s)
           mid == IF active < 0 THEN q[n] ELSE [q[n] EXCEPT !.activeMs = active]
           e == [mid EXCEPT !.endedAt = clock, !.status = status]
<1>1. /\ DOMAIN s = Fields /\ s.activeMs \in Int /\ s.activeSince \in Int
      /\ active \in Int /\ clock \in Int /\ Session = n
  BY DEF IsCheckpoint
<1>2. /\ q \in Seq(SessionRecord) /\ n \in Nat /\ n >= 1 /\ n \in 1..n
      /\ s.records \in Seq(RunRecord) /\ s.status \in Status
  <2>1. q \in Seq(SessionRecord) /\ n >= 1 /\ s.records \in Seq(RunRecord) /\ s.status \in Status
    BY DEF Sound, History
  <2> QED
    BY <2>1, LenProperties
<1>3. /\ DOMAIN timed = Fields
      /\ timed.sessions = IF active < 0 THEN q ELSE [q EXCEPT ![n].activeMs = active]
      /\ timed.status = IF active < 0 THEN "REVIEW_REQUIRED" ELSE s.status
      /\ timed.activeMs = IF active < 0 THEN s.activeMs ELSE s.activeMs + active
      /\ timed.records = s.records /\ timed.batches = s.batches /\ timed.clean = s.clean
      /\ timed.pausedMs = s.pausedMs /\ timed.startedAt = s.startedAt
      /\ timed.currentRun = s.currentRun
  BY <1>1 DEF Fields
<1>4. t = [timed EXCEPT !.activeSince = Never, !.status = status,
             !.pausedSince = IF paused THEN clock ELSE @,
             !.sessions[Session].endedAt = clock, !.sessions[Session].status = status]
  BY DEF Ended
<1> HIDE DEF timed, active
<1>5. /\ t.status = status /\ t.activeMs = timed.activeMs /\ t.activeSince = Never
      /\ t.pausedSince = IF paused THEN clock ELSE timed.pausedSince
      /\ t.sessions = [timed.sessions EXCEPT ![n].endedAt = clock, ![n].status = status]
      /\ t.records = s.records /\ t.batches = s.batches /\ t.clean = s.clean
      /\ t.pausedMs = s.pausedMs /\ t.startedAt = s.startedAt /\ t.currentRun = s.currentRun
  <2> HIDE DEF t, status, paused
  <2> QED
    BY <1>1, <1>3, <1>4 DEF Fields
<1>6. /\ status \in Status /\ status # "PREPARED"
      /\ status = "PAUSED" => active >= 0 /\ s.status = "PAUSING" /\ paused
  BY <1>1, <1>2, <1>3 DEF Status
<1>7. q[n] \in SessionRecord
  BY <1>2, ElementOfSeq
<1> HIDE DEF t, status, q, n
<1>8. mid \in SessionRecord /\ mid.runIds = q[n].runIds /\ mid.startedAt = q[n].startedAt
      /\ mid.activeMs = IF active < 0 THEN q[n].activeMs ELSE active
  BY <1>1, <1>7 DEF SessionRecord
<1> HIDE DEF mid
<1>9. /\ e \in SessionRecord
      /\ e.runIds = q[n].runIds /\ e.startedAt = q[n].startedAt
      /\ e.activeMs = IF active < 0 THEN q[n].activeMs ELSE active
      /\ e.endedAt = clock /\ e.status = status
  BY <1>1, <1>6, <1>8 DEF SessionRecord
<1> HIDE DEF e
<1>10. t.sessions = [q EXCEPT ![n] = e]
  <2>1. timed.sessions = [q EXCEPT ![n] = mid]
    <3>1. q = [i \in 1..n |-> q[i]]
      <4>1. q \in [1..n -> SessionRecord]
        BY <1>2, LenProperties, ElementOfSeq DEF n
      <4> QED
        BY <4>1
    <3> QED
      BY <1>2, <1>3, <3>1 DEF mid
  <2>2. DOMAIN q = 1..n
    BY <1>2, LenProperties DEF n
  <2> QED
    BY <1>2, <1>5, <2>1, <2>2 DEF e
<1>11. /\ t.sessions \in Seq(SessionRecord) /\ Len(t.sessions) = n /\ t.sessions[n] = e
       /\ \A i \in 1..(n - 1) : t.sessions[i] = q[i]
  <2>1. n = Len(q)
    BY DEF n
  <2> QED
    BY <1>2, <1>9, <1>10, <2>1, LastSession
<1>12. Plan(t) = Plan(s)
  BY <1>5 DEF Plan
<1>13. Sound(t)
  <2>1. \A i \in 1..Len(s.records) : s.records[i].session \in 1..n
    BY DEF Sound, n, q
  <2> QED
    BY <1>5, <1>6, <1>11, <1>12, <2>1 DEF Sound
<1>14. ASSUME status = "PAUSED" PROVE CanResume(t)
  <2>1. /\ active >= 0 /\ AtPairBoundary(s) /\ s.clean /\ t.pausedSince = clock
        /\ t.activeMs = s.activeMs + active
    BY <1>1, <1>3, <1>5, <1>6, <1>14
  <2>2. /\ q[n].startedAt = s.activeSince
        /\ \A i \in 1..(n - 1) : Closed(q[i])
        /\ \A i \in 1..(n - 1) : q[i + 1].startedAt - q[i].endedAt >= 0
        /\ s.startedAt = q[1].startedAt
        /\ s.activeMs = ActiveSum(q, n - 1) /\ s.pausedMs = GapSum(q, n - 1)
        /\ SessionsMatchRecords(s)
    BY DEF History, q, n
  <2>3. \A i \in 1..n : i = n \/ i \in 1..(n - 1)
    BY <1>2
  <2>4. Closed(e)
    <3>1. e.activeMs = active
      BY <1>1, <1>9, <2>1
    <3>2. active = clock - s.activeSince
      BY DEF active
    <3> QED
      BY <1>9, <1>14, <2>2, <3>1, <3>2 DEF Closed, Never
  <2>5. \A i \in 1..n : Closed(t.sessions[i])
    BY <1>11, <2>2, <2>3, <2>4
  <2>6. \A i \in 1..n : t.sessions[i].startedAt = q[i].startedAt
    BY <1>9, <1>11, <2>3
  <2>7. PICK m \in Nat : m = n - 1
    BY <1>2
  <2>8. n = m + 1 /\ 1 \in 1..n /\ \A i \in 1..m : i \in 1..(n - 1) /\ i + 1 \in 1..n
    BY <1>2, <2>7
  <2>9. ActiveSum(t.sessions, m) = ActiveSum(q, m) /\ GapSum(t.sessions, m) = GapSum(q, m)
    <3>1. \A i \in 1..m : q[i].activeMs = t.sessions[i].activeMs
      BY <1>11, <2>8
    <3>2. \A i \in 1..m : /\ q[i + 1].startedAt = t.sessions[i + 1].startedAt
                          /\ q[i].endedAt = t.sessions[i].endedAt
      BY <1>11, <2>6, <2>8
    <3> QED
      BY ONLY <3>1, <3>2, m \in Nat, HistorySums
  <2>10. ActiveSum(t.sessions, m + 1) = ActiveSum(t.sessions, m) + t.sessions[m + 1].activeMs
    BY ONLY m \in Nat, HistorySums
  <2>11. t.activeMs = ActiveSum(t.sessions, n)
    <3>1. t.sessions[m + 1].activeMs = active
      BY <1>1, <1>9, <1>11, <2>1, <2>8
    <3>2. s.activeMs = ActiveSum(q, m)
      BY <2>2, <2>7
    <3> QED
      BY <2>1, <2>8, <2>9, <2>10, <3>1, <3>2
  <2>12. t.pausedMs = GapSum(t.sessions, n - 1)
    BY <1>5, <2>2, <2>7, <2>9
  <2>13. \A i \in 1..(n - 1) : t.sessions[i + 1].startedAt - t.sessions[i].endedAt >= 0
    BY <1>11, <2>2, <2>6, <2>7, <2>8
  <2>14. t.startedAt = t.sessions[1].startedAt
    BY <1>5, <2>2, <2>6, <2>8
  <2>15. t.pausedSince = t.sessions[n].endedAt
    BY <1>9, <1>11, <2>1
  <2>16. SessionsMatchBudget(t)
    <3>1. /\ \A i \in 1..n :
               /\ t.sessions[i].status = "PAUSED"
               /\ t.sessions[i].activeMs = t.sessions[i].endedAt - t.sessions[i].startedAt
      BY <2>5 DEF Closed
    <3> QED
      BY <1>11, <2>11, <2>12, <2>13, <2>14, <2>15, <3>1, BudgetSums
  <2>17. SessionsMatchRecords(t)
    <3>1. \A i \in 1..n : t.sessions[i].runIds = q[i].runIds
      BY <1>9, <1>11, <2>3
    <3>2. DOMAIN t.sessions = 1..n /\ DOMAIN q = 1..n
      BY <1>2, <1>11, LenProperties DEF n
    <3>3. [i \in DOMAIN t.sessions |-> t.sessions[i].runIds] = [i \in DOMAIN q |-> q[i].runIds]
      BY <3>1, <3>2
    <3>4. FlattenSeq([i \in DOMAIN t.sessions |-> t.sessions[i].runIds]) = RunsOf(t.records)
      BY <1>5, <2>2, <3>3 DEF SessionsMatchRecords, q
    <3>5. ASSUME NEW x \in Range(t.records) PROVE x.run \in Range(t.sessions[x.session].runIds)
      <4>1. x \in Range(s.records)
        BY <1>5, <3>5
      <4>2. x.session \in 1..n
        <5>1. DOMAIN s.records = 1..Len(s.records)
          BY <1>2, LenProperties
        <5>2. PICK i \in 1..Len(s.records) : x = s.records[i]
          BY <4>1, <5>1 DEF Range
        <5> QED
          BY <5>2 DEF Sound, n, q
      <4>3. x.run \in Range(q[x.session].runIds)
        BY <2>2, <4>1 DEF SessionsMatchRecords, q
      <4> QED
        BY <3>1, <4>2, <4>3
    <3> QED
      BY <3>4, <3>5 DEF SessionsMatchRecords
  <2>18. AtPairBoundary(t)
    BY <1>5, <1>12, <2>1 DEF AtPairBoundary
  <2>19. t.sessions # <<>>
    BY <1>2, <1>11, EmptySeq
  <2>20. \A i \in DOMAIN t.sessions : t.sessions[i].endedAt # Never
    <3>1. DOMAIN t.sessions = 1..n
      BY <1>11, LenProperties
    <3> QED
      BY <2>5, <3>1 DEF Closed
  <2>21. t.pausedSince # Never
    BY <2>1 DEF Never
  <2> QED
    BY <1>5, <1>14, <2>1, <2>16, <2>17, <2>18, <2>19, <2>20, <2>21 DEF CanResume
<1> QED
  BY <1>5, <1>6, <1>13, <1>14 DEF t

-------------------------------------------------------------------------------
(* The invariant.  A controller that pauses stands at a pair boundary, with its *)
(* log, its plan and its history in step; so what it saves can be resumed.      *)

\* The log, the run under way and the history, where the controller stands.
BooksAt(place, s) ==
  /\ place \in {"prepare", "loop", "running"} => Following(s)
  /\ place \in {"prepare", "loop"} => s.currentRun = NoRun
  /\ place = "running" => Len(s.records) < Len(Plan(s)) /\ s.currentRun = NextRun(s)
  /\ place # "idle" => History(s)
  /\ place \in {"cleanup", "restore"} /\ s.status = "PAUSING" => AtPairBoundary(s)
  /\ place = "restore" /\ s.status = "PAUSING" => s.clean

ResumeInv ==
  /\ fixedScope \in BOOLEAN
  /\ Sound(state) /\ Sound(saved)
  /\ saved.status = "PREPARED" => saved = NewPilotState
  /\ BooksAt(at, state)
  /\ PausedIsResumable

\* Nothing is planned or recorded before the first session.
LEMMA InitResume == Init => ResumeInv
<1> SUFFICES ASSUME Init PROVE ResumeInv
  OBVIOUS
<1> DEFINE s == NewPilotState
<1>1. state = s /\ saved = s /\ fixedScope \in BOOLEAN /\ at = "idle" /\ s.status = "PREPARED"
  BY DEF Init, NewPilotState
<1>2. Sound(s)
  <2>1. s.records = <<>> /\ s.batches = <<>> /\ s.sessions = <<>> /\ s.status \in Status
    BY DEF NewPilotState, Status
  <2>2. Plan(s) = <<>>
    BY <2>1 DEF Plan, FlattenSeq
  <2>3. Paired(<<>>)
    <3>1. 0 \in Nat /\ Len(<<>>) = 2 * 0 /\ 1..0 = {}
      BY EmptySeq
    <3> QED
      BY <3>1 DEF Paired
  <2> HIDE DEF s
  <2>4. /\ s.records \in Seq(RunRecord) /\ s.batches \in Seq(Seq(RunId))
        /\ s.sessions \in Seq(SessionRecord)
        /\ 1..Len(s.records) = {} /\ 1..Len(Plan(s)) = {}
    BY <2>1, <2>2, EmptySeq
  <2>5. Paired(Plan(s))
    BY <2>2, <2>3
  <2> QED
    BY <2>1, <2>4, <2>5 DEF Sound
<1> HIDE DEF s
<1>3. BooksAt(at, state) /\ PausedIsResumable
  BY <1>1 DEF BooksAt, PausedIsResumable
<1> QED
  BY <1>1, <1>2, <1>3 DEF ResumeInv, s

\* A step of a running controller needs to keep what is said of the object only.
LEMMA ResumeKept ==
  ASSUME ResumeInv, TimeInv', at' # "idle", fixedScope' = fixedScope,
         Sound(state'), Sound(saved'), BooksAt(at', state')
  PROVE  ResumeInv'
<1>1. saved'.status \notin {"PREPARED", "PAUSED"}
  BY DEF TimeInv, Open
<1> QED
  BY <1>1 DEF ResumeInv, PausedIsResumable

\* The steps that change neither log nor plan nor history, but for the run under way.
LEMMA QuietStepKeepsResume ==
  ASSUME TimeInv, ResumeInv, TimeInv', at \in {"loop", "running", "prepare"}, at' = "cleanup",
         fixedScope' = fixedScope, SameBooks(state, state'), state'.status \in Status,
         state'.status = "PAUSING" => AtPairBoundary(state'),
         saved' = saved \/ saved' = state'
  PROVE  ResumeInv'
<1>1. Sound(state) /\ History(state) /\ Sound(saved)
  BY DEF ResumeInv, BooksAt
<1>2. Sound(state') /\ History(state')
  BY <1>1, SameBooksKeep
<1>3. BooksAt(at', state')
  BY <1>2 DEF BooksAt
<1> QED
  BY <1>1, <1>2, <1>3, ResumeKept

\* Every step keeps the invariant.
LEMMA NextKeepsResume ==
  ASSUME TimeInv, ResumeInv, [Next]_pilotVars
  PROVE  ResumeInv'
<1>1. TimeInv'
  BY NextKeepsTime
<1>2. /\ DOMAIN state = Fields /\ clock \in Nat
      /\ IsCheckpoint(state) /\ state.status \in Status
      /\ Sound(state) /\ Sound(saved) /\ fixedScope \in BOOLEAN
      /\ at # "idle" => state.status \notin {"PREPARED", "PAUSED"} /\ History(state)
      /\ at = "idle" => state = saved
  BY DEF TimeInv, IsCheckpoint, ResumeInv, BooksAt, Sound, Open
<1>3. /\ SameBooks(state, Failed(state)) /\ Failed(state).status \in {"INTERRUPTED", "REVIEW_REQUIRED"}
      /\ SameBooks(state, Noticed(state)) /\ Noticed(state).status = state.status
      /\ SameBooks(state, NotRestored(state)) /\ NotRestored(state).status = "REVIEW_REQUIRED"
  BY <1>2, OperationsKeepBooks
<1>4. DOMAIN Noticed(state) = Fields /\ Noticed(state).status \in Status
  BY <1>2, <1>3 DEF SameBooks
<1>5. /\ Sound(Noticed(state)) /\ Plan(Noticed(state)) = Plan(state)
      /\ Following(state) => Following(Noticed(state))
      /\ History(state) => History(Noticed(state))
      /\ AtPairBoundary(state) => AtPairBoundary(Noticed(state))
  BY <1>2, <1>3, <1>4, SameBooksKeep
<1>6. CASE Launch
  <2>1. saved.status = "PREPARED" => saved = NewPilotState
    BY DEF ResumeInv
  <2>2. /\ Sound(state') /\ Following(state') /\ History(state')
        /\ state'.currentRun = NoRun /\ state'.status = "PREPARING"
    BY <1>2, <1>6, <2>1, LaunchOpensBooks
  <2>3. saved' = state' /\ at' = "prepare" /\ fixedScope' = fixedScope
    BY <1>6 DEF Launch, Save
  <2>4. BooksAt(at', state')
    BY <2>2, <2>3 DEF BooksAt
  <2> QED
    BY <1>1, <2>2, <2>3, <2>4, ResumeKept
<1>7. CASE Prepare
  <2>1. /\ at = "prepare" /\ at' = "loop" /\ state' = state /\ saved' = saved
        /\ fixedScope' = fixedScope
    BY <1>7 DEF Prepare
  <2>2. BooksAt(at', state')
    BY <2>1 DEF ResumeInv, BooksAt
  <2> QED
    BY <1>1, <1>2, <2>1, <2>2, ResumeKept
<1>8. CASE StepFails \/ BudgetStops
  <2>1. /\ at \in {"prepare", "loop", "running"} /\ at' = "cleanup"
        /\ state' = Failed(state) /\ saved' = saved /\ fixedScope' = fixedScope
    BY <1>8 DEF StepFails, BudgetStops, Fail
  <2>2. state'.status \in Status /\ state'.status # "PAUSING"
    BY <1>3, <2>1 DEF Status
  <2> QED
    BY <1>1, <1>3, <2>1, <2>2, QuietStepKeepsResume
<1>9. CASE Pause
  <2>1. /\ at = "loop" /\ at' = "cleanup" /\ saved' = state' /\ fixedScope' = fixedScope
        /\ state' = [Noticed(state) EXCEPT !.status = "PAUSING"]
        /\ AtPairBoundary(Noticed(state))
    BY <1>9 DEF Pause, MayGoOn, Save, PausesHere
  <2>2. "PAUSING" \in Status
    BY DEF Status
  <2>3. SameBooks(Noticed(state), state') /\ state'.status = "PAUSING"
    BY <1>4, <2>1, <2>2, OperationsKeepBooks
  <2>4. SameBooks(state, state')
    BY <1>3, <2>3 DEF SameBooks
  <2>5. AtPairBoundary(state')
    BY <1>5, <2>1, <2>2, <2>3, SameBooksKeep
  <2> QED
    BY <1>1, <2>1, <2>2, <2>3, <2>4, <2>5, QuietStepKeepsResume
<1>10. CASE Decide
  <2>1. /\ at = "loop" /\ at' = "cleanup" /\ saved' = state' /\ fixedScope' = fixedScope
        /\ \/ state' = [state EXCEPT !.status = "COMPLETE"]
           \/ state' = [Noticed(state) EXCEPT !.status = "COMPLETE"]
    BY <1>10 DEF Decide, MayGoOn, Save
  <2>2. "COMPLETE" \in Status
    BY DEF Status
  <2>3. SameBooks(state, state') /\ state'.status = "COMPLETE"
    <3>1. CASE state' = [state EXCEPT !.status = "COMPLETE"]
      BY <1>2, <2>2, <3>1, OperationsKeepBooks
    <3>2. CASE state' = [Noticed(state) EXCEPT !.status = "COMPLETE"]
      <4>1. SameBooks(Noticed(state), state') /\ state'.status = "COMPLETE"
        BY <1>4, <2>2, <3>2, OperationsKeepBooks
      <4> QED
        BY <1>3, <4>1 DEF SameBooks
    <3> QED
      BY <2>1, <3>1, <3>2
  <2> QED
    BY <1>1, <2>1, <2>2, <2>3, QuietStepKeepsResume
<1>11. CASE PlanBatch
  <2>1. /\ at = "loop" /\ at' = "loop" /\ saved' = state' /\ fixedScope' = fixedScope
        /\ \E b \in Batches(Len(state.batches) + 1) :
             state' = [Noticed(state) EXCEPT !.batches = Append(@, b)]
    BY <1>11 DEF PlanBatch, MayGoOn, Save
  <2>2. PICK b \in Batches(Len(state.batches) + 1) :
          state' = [Noticed(state) EXCEPT !.batches = Append(@, b)]
    BY <2>1
  <2>3. /\ state'.batches = Append(state.batches, b) /\ state'.records = state.records
        /\ state'.sessions = state.sessions /\ state'.status = state.status
        /\ state'.currentRun = state.currentRun /\ state'.activeSince = state.activeSince
        /\ state'.startedAt = state.startedAt /\ state'.activeMs = state.activeMs
        /\ state'.pausedMs = state.pausedMs
    BY <1>3, <1>4, <2>2 DEF SameBooks, Fields
  <2>4. Following(state) /\ History(state) /\ state.currentRun = NoRun
    BY <2>1 DEF ResumeInv, BooksAt
  <2>5. Sound(state') /\ Following(state')
    BY <1>2, <2>3, <2>4, BatchKeepsPlan
  <2>6. History(state')
    BY <2>3, <2>4 DEF History, SessionsMatchRecords
  <2>7. BooksAt(at', state')
    BY <2>1, <2>3, <2>4, <2>5, <2>6 DEF BooksAt
  <2> QED
    BY <1>1, <2>1, <2>5, <2>7, ResumeKept
<1>12. CASE BeginRun
  <2>1. /\ at = "loop" /\ at' = "running" /\ saved' = state' /\ fixedScope' = fixedScope
        /\ Len(Plan(state)) > Len(state.records)
        /\ state' = [Noticed(state) EXCEPT !.status = "RUNNING", !.currentRun = NextRun(state)]
    BY <1>12 DEF BeginRun, MayGoOn, Save
  <2>2. /\ state'.batches = state.batches /\ state'.records = state.records
        /\ state'.sessions = state.sessions /\ state'.status = "RUNNING"
        /\ state'.currentRun = NextRun(state) /\ state'.activeSince = state.activeSince
        /\ state'.startedAt = state.startedAt /\ state'.activeMs = state.activeMs
        /\ state'.pausedMs = state.pausedMs
    BY <1>3, <1>4, <2>1 DEF SameBooks, Fields
  <2>3. Following(state) /\ History(state)
    BY <2>1 DEF ResumeInv, BooksAt
  <2>4. Plan(state') = Plan(state)
    BY <2>2 DEF Plan
  <2>5. NextRun(state') = NextRun(state)
    BY <2>2, <2>4 DEF NextRun
  <2>6. Sound(state') /\ Following(state')
    <3>1. state'.status \in Status
      BY <2>2 DEF Status
    <3>2. Sound(state')
      BY <1>2, <2>2, <2>4, <3>1 DEF Sound
    <3> QED
      BY <2>2, <2>3, <2>4, <3>2 DEF Following
  <2>7. History(state')
    BY <2>2, <2>3 DEF History, SessionsMatchRecords
  <2>8. Len(state'.records) < Len(Plan(state'))
    <3>1. Len(state.records) \in Nat /\ Len(Plan(state)) \in Nat
      BY <1>2, PlanType, LenProperties DEF Sound
    <3> QED
      BY <2>1, <2>2, <2>4, <3>1
  <2>9. BooksAt(at', state')
    BY <2>1, <2>2, <2>5, <2>6, <2>7, <2>8 DEF BooksAt
  <2> QED
    BY <1>1, <2>1, <2>6, <2>9, ResumeKept
<1>13. ASSUME at = "running"
       PROVE  LET t == WithRecord(state) IN
              /\ Sound(t) /\ Following(t) /\ History(t)
              /\ t.currentRun = NoRun /\ t.status = state.status /\ DOMAIN t = Fields
  <2>1. /\ Following(state) /\ History(state)
        /\ Len(state.records) < Len(Plan(state)) /\ state.currentRun = NextRun(state)
    BY <1>13 DEF ResumeInv, BooksAt
  <2> QED
    BY <1>2, <2>1, RecordingKeepsBooks
<1>14. CASE RecordRun
  <2>1. /\ at = "running" /\ at' = "loop" /\ state' = WithRecord(state) /\ saved' = state'
        /\ fixedScope' = fixedScope
    BY <1>14 DEF RecordRun, Save
  <2>2. Sound(state') /\ BooksAt(at', state')
    BY <1>13, <2>1 DEF BooksAt
  <2> QED
    BY <1>1, <2>1, <2>2, ResumeKept
<1>15. CASE RecordRunForReview
  <2>1. /\ at = "running" /\ at' = "cleanup" /\ saved' = WithRecord(state)
        /\ state' = Failed(WithRecord(state)) /\ fixedScope' = fixedScope
    BY <1>15 DEF RecordRunForReview
  <2>2. PICK t : t = WithRecord(state)
    OBVIOUS
  <2>3. Sound(t) /\ History(t) /\ DOMAIN t = Fields /\ t.status \in Status
    BY <1>2, <1>13, <2>1, <2>2
  <2>4. SameBooks(t, Failed(t)) /\ Failed(t).status \in {"INTERRUPTED", "REVIEW_REQUIRED"}
    BY <2>3, OperationsKeepBooks
  <2>5. Failed(t).status \in Status /\ Failed(t).status # "PAUSING"
    BY <2>4 DEF Status
  <2>6. Sound(Failed(t)) /\ History(Failed(t))
    BY <2>3, <2>4, <2>5, SameBooksKeep
  <2>7. BooksAt(at', state')
    BY <2>1, <2>2, <2>5, <2>6 DEF BooksAt
  <2> QED
    BY <1>1, <2>1, <2>2, <2>3, <2>6, <2>7, ResumeKept
<1>16. CASE Cleanup
  <2>1. /\ at = "cleanup" /\ at' = "restore" /\ saved' = saved /\ fixedScope' = fixedScope
        /\ \/ state' = [state EXCEPT !.clean = TRUE]
           \/ state' = [state EXCEPT !.clean = FALSE, !.status = "REVIEW_REQUIRED"]
    BY <1>16 DEF Cleanup
  <2>2. /\ SameBooks(state, state') /\ state'.status \in {state.status, "REVIEW_REQUIRED"}
        /\ state'.status = "PAUSING" => state.status = "PAUSING" /\ state'.clean
    <3>1. CASE state' = [state EXCEPT !.clean = TRUE]
      BY <1>2, <3>1 DEF SameBooks, Fields
    <3>2. CASE state' = [state EXCEPT !.clean = FALSE, !.status = "REVIEW_REQUIRED"]
      BY <1>2, <3>2 DEF SameBooks, Fields
    <3> QED
      BY <2>1, <3>1, <3>2
  <2>3. state'.status \in Status
    BY <1>2, <2>2 DEF Status
  <2>4. History(state) /\ (state.status = "PAUSING" => AtPairBoundary(state))
    BY <2>1 DEF ResumeInv, BooksAt
  <2>5. /\ Sound(state') /\ History(state')
        /\ AtPairBoundary(state) => AtPairBoundary(state')
    BY <1>2, <2>2, <2>3, <2>4, SameBooksKeep
  <2>6. BooksAt(at', state')
    BY <2>1, <2>2, <2>4, <2>5 DEF BooksAt
  <2> QED
    BY <1>1, <1>2, <2>1, <2>5, <2>6, ResumeKept
<1>17. CASE EndSession
  <2>1. /\ at = "restore" /\ at' = "idle" /\ state' = saved' /\ fixedScope' = fixedScope
        /\ \/ saved' = Ended(state)
           \/ saved' = Ended(NotRestored(state))
           \/ saved' = saved
    BY <1>17 DEF EndSession
  <2>2. /\ History(state) /\ state.status \notin {"PREPARED", "PAUSED"}
        /\ state.status = "PAUSING" => AtPairBoundary(state) /\ state.clean
    BY <1>2, <2>1 DEF ResumeInv, BooksAt
  <2>3. /\ Sound(Ended(state)) /\ Ended(state).status # "PREPARED"
        /\ Ended(state).status = "PAUSED" => CanResume(Ended(state))
    <3>1. Len(state.sessions) = Session
      BY DEF Session
    <3> QED
      BY <1>2, <2>2, <3>1, EndingKeepsBooks
  <2>4. /\ Sound(Ended(NotRestored(state))) /\ Ended(NotRestored(state)).status # "PREPARED"
        /\ Ended(NotRestored(state)).status = "PAUSED" => CanResume(Ended(NotRestored(state)))
    <3>1. PICK t : t = NotRestored(state)
      OBVIOUS
    <3>2. SameBooks(state, t) /\ t.status = "REVIEW_REQUIRED" /\ t.status \in Status
      BY <1>3, <3>1 DEF Status
    <3>3. Sound(t) /\ History(t)
      BY <1>2, <2>2, <3>2, SameBooksKeep
    <3>4. IsCheckpoint(t)
      <4>1. SameAccount(state, t)
        BY <1>2, <3>1, OperationsKeepAccount
      <4> QED
        BY <1>2, <4>1 DEF SameAccount, IsCheckpoint
    <3>5. Len(t.sessions) = Session
      BY <3>2 DEF SameBooks, Session
    <3>6. t.status \notin {"PREPARED", "PAUSED", "PAUSING"}
      BY <3>2
    <3> QED
      BY <1>2, <3>1, <3>3, <3>4, <3>5, <3>6, EndingKeepsBooks
  <2>5. saved' = saved => saved'.status \notin {"PREPARED", "PAUSED"}
    BY <2>1 DEF TimeInv, Open
  <2>6. BooksAt(at', state')
    BY <2>1 DEF BooksAt
  <2>7. Sound(saved')
    BY <1>2, <2>1, <2>3, <2>4
  <2>8. /\ saved'.status = "PREPARED" => saved' = NewPilotState
        /\ saved'.status = "PAUSED" => CanResume(saved')
    BY <2>1, <2>3, <2>4, <2>5
  <2>9. fixedScope' \in BOOLEAN
    BY <1>2, <2>1
  <2> QED
    BY <2>1, <2>6, <2>7, <2>8, <2>9 DEF ResumeInv, PausedIsResumable
<1>18. CASE Killed
  <2>1. at' = "idle" /\ state' = saved /\ saved' = saved /\ fixedScope' = fixedScope
    BY <1>18 DEF Killed
  <2>2. BooksAt(at', state')
    BY <2>1 DEF BooksAt
  <2> QED
    BY <2>1, <2>2 DEF ResumeInv, PausedIsResumable
<1>19. CASE RequestPause \/ Signal \/ RemoveStaleLock \/ Tick \/ SetClockBack \/ UNCHANGED pilotVars
  <2>1. at' = at /\ state' = state /\ saved' = saved /\ fixedScope' = fixedScope
    BY <1>19 DEF RequestPause, Signal, RemoveStaleLock, Tick, SetClockBack, pilotVars
  <2> QED
    BY <2>1 DEF ResumeInv, PausedIsResumable
<1> QED
  BY <1>6, <1>7, <1>8, <1>9, <1>10, <1>11, <1>12, <1>14, <1>15, <1>16, <1>17, <1>18, <1>19
  DEF Next, ControllerStep

\* Whatever sessions, failures and clock corrections came before, a pause that the
\* controller saves is a checkpoint that assertPilotCanStart() accepts.
THEOREM PilotPauseIsResumable == Spec => []PausedIsResumable
<1>1. Init => TimeInv /\ ResumeInv
  BY InitTime, InitResume
<1>2. TimeInv /\ ResumeInv /\ [Next]_pilotVars => (TimeInv /\ ResumeInv)'
  BY NextKeepsTime, NextKeepsResume
<1>3. ResumeInv => PausedIsResumable
  BY DEF ResumeInv
<1> QED
  BY <1>1, <1>2, <1>3, PTL DEF Spec

\* Once the controller has noticed a pause request, it starts no run but the second
\* one of a pair: at an even length of the log it would have paused.
THEOREM PilotPauseKeepsPairs == Spec => PauseKeepsPairs
<1>1. Init => TimeInv /\ ResumeInv
  BY InitTime, InitResume
<1>2. TimeInv /\ ResumeInv /\ [Next]_pilotVars => (TimeInv /\ ResumeInv)'
  BY NextKeepsTime, NextKeepsResume
<1>3. TimeInv /\ ResumeInv /\ [Next]_pilotVars
        => [\A run \in trials' \ trials :
              state'.pauseRequested => \E r \in Recorded(state) : Pair(r) = Pair(run)]_pilotVars
  <2> SUFFICES ASSUME TimeInv, ResumeInv, [Next]_pilotVars,
                      NEW run \in trials' \ trials, state'.pauseRequested
               PROVE  \E r \in Recorded(state) : Pair(r) = Pair(run)
    OBVIOUS
  <2>1. BeginRun
    BY OnlyBeginRunStarts
  <2>2. /\ at = "loop" /\ trials' = trials \union {NextRun(state)}
        /\ ~PausesHere(Noticed(state)) /\ Len(Plan(state)) > Len(state.records)
        /\ state' = [Noticed(state) EXCEPT !.status = "RUNNING", !.currentRun = NextRun(state)]
    BY <2>1 DEF BeginRun, MayGoOn, Save
  <2>3. run = NextRun(state)
    BY <2>2
  <2>4. /\ DOMAIN state = Fields /\ Sound(state) /\ Following(state) /\ state.currentRun = NoRun
        /\ state.status \in Status
    BY <2>2 DEF TimeInv, IsCheckpoint, ResumeInv, BooksAt, Sound
  <2>5. PICK t : t = Noticed(state)
    OBVIOUS
  <2>6. SameBooks(state, t) /\ t.status = state.status
    BY <2>4, <2>5, OperationsKeepBooks
  <2>7. /\ Sound(t) /\ Following(t) /\ t.currentRun = NoRun
        /\ Plan(t) = Plan(state) /\ t.records = state.records
    BY <2>4, <2>6, SameBooksKeep DEF SameBooks
  <2>8. t.pauseRequested
    BY <2>2, <2>5, <2>6 DEF SameBooks, Fields
  <2>9. ~AtPairBoundary(t)
    BY <2>2, <2>5, <2>8 DEF PausesHere
  <2>10. ~ \E k \in Nat : Len(t.records) = 2 * k
    BY <2>7, <2>9, EvenIsBoundary
  <2>11. Len(state.records) < Len(Plan(state))
    <3>1. Len(state.records) \in Nat /\ Len(Plan(state)) \in Nat
      BY <2>4, PlanType, LenProperties DEF Sound
    <3> QED
      BY <2>2, <3>1
  <2>12. ~ \E k \in Nat : Len(state.records) = 2 * k
    BY <2>7, <2>10
  <2> QED
    BY <2>3, <2>4, <2>11, <2>12, OddIsHalfAPair
<1> QED
  BY <1>1, <1>2, <1>3, PTL DEF Spec, PauseKeepsPairs

-------------------------------------------------------------------------------
(* The search for a rate.  A confirmation runs both conditions: where one has   *)
(* confirmed a rate, the other has as many runs, stable ones or an unstable one.*)

SearchTypeOK ==
  /\ stable \in [Conditions -> SUBSET Rates]
  /\ unstable \in [Conditions -> SUBSET Rates]
  /\ confirmed \in [Conditions -> [Rates -> Nat]]
  /\ faultRuns \in [Conditions -> [FaultScenarios -> Nat]]
  /\ decision \in {"RUN", "REVIEW", "COMPLETE"}

ConfirmedTogether ==
  \A c, d \in Conditions, r \in Rates :
    confirmed[d][r] > 0 /\ r \notin unstable[c] => confirmed[c][r] >= BoundaryReplicates

SearchInv == SearchTypeOK /\ ConfirmedTogether /\ SharedRateHolds

\* The extremes of a set of rates.
LEMMA ExtremeRates ==
  ASSUME NEW T, T \subseteq 0..MaximumRate, T # {}
  PROVE  /\ Max(T) \in T /\ \A x \in T : x <= Max(T)
         /\ Min(T) \in T /\ \A x \in T : Min(T) <= x
<1> DEFINE B == {b \in Nat : \A x \in T : x <= b}
<1>1. MaximumRate \in Nat
  BY PilotSearchAssumption
<1>2. \E m \in T : \A x \in T : m <= x
  <2>1. T \subseteq Nat
    BY <1>1
  <2> QED
    BY <2>1, SmallestNumber
<1>3. \E m \in T : \A x \in T : m >= x
  <2>1. B \subseteq Nat /\ MaximumRate \in B
    BY <1>1
  <2>2. PICK b \in B : \A c \in B : b <= c
    <3> HIDE DEF B
    <3> QED
      BY <2>1, SmallestNumber
  <2>3. b \in T
    <3>1. SUFFICES ASSUME b \notin T PROVE FALSE
      OBVIOUS
    <3>2. \A x \in T : x \in Nat /\ x <= b - 1
      BY <1>1, <2>2, <3>1
    <3>3. PICK x \in T : x \in Nat /\ x <= b - 1
      BY <3>2
    <3>4. b \in Nat
      OBVIOUS
    <3>5. b - 1 \in Nat /\ ~(b <= b - 1)
      BY <3>3, <3>4
    <3>6. b - 1 \in B
      BY <3>2, <3>5
    <3> QED
      BY <2>2, <3>5, <3>6
  <2> QED
    BY <1>1, <2>2, <2>3
<1>4. Max(T) \in T /\ \A x \in T : Max(T) >= x
  BY <1>3 DEF Max
<1>5. Min(T) \in T /\ \A x \in T : Min(T) <= x
  BY <1>2 DEF Min
<1> QED
  BY <1>1, <1>4, <1>5

\* The boundaries of a condition are rates it was tried at, or none.
LEMMA Boundaries ==
  ASSUME SearchTypeOK, NEW c \in Conditions
  PROVE  /\ Upper(c) \in Rates \union {None} /\ Lower(c) \in Rates \union {None}
         /\ Upper(c) # None => \A r \in unstable[c] : Upper(c) <= r
         /\ Upper(c) = None => unstable[c] = {}
         /\ Lower(c) # None /\ Upper(c) # None => Lower(c) < Upper(c)
<1>1. MaximumRate \in Nat /\ stable[c] \subseteq Rates /\ unstable[c] \subseteq Rates
  BY PilotSearchAssumption DEF SearchTypeOK
<1>2. \A r \in Rates : r \in Nat /\ r # None /\ r \in 0..MaximumRate
  BY <1>1 DEF Rates, None
<1>3. unstable[c] # {} => Upper(c) \in unstable[c] /\ \A r \in unstable[c] : Upper(c) <= r
  <2>1. unstable[c] \subseteq 0..MaximumRate
    BY <1>1, <1>2
  <2> QED
    BY <2>1, ExtremeRates DEF Upper
<1>4. unstable[c] = {} => Upper(c) = None
  BY DEF Upper
<1> DEFINE below == {r \in stable[c] : Upper(c) = None \/ r < Upper(c)}
<1>5. Lower(c) = Max({None} \union below)
  BY DEF Lower
<1>6. Lower(c) \in {None} \union below
  <2>1. {None} \union below \subseteq 0..MaximumRate
    BY <1>1, <1>2 DEF None
  <2> HIDE DEF below
  <2> QED
    BY <1>5, <2>1, ExtremeRates
<1> QED
  BY <1>1, <1>2, <1>3, <1>4, <1>6

\* Nothing is known before the first batch.
LEMMA InitSearch == SearchInit => SearchInv
BY PilotSearchAssumption
DEF SearchInit, SearchInv, SearchTypeOK, ConfirmedTogether, SharedRateHolds, Conditions, Rates

\* The next rate to screen is one of the rates.
LEMMA NextRateIsRate ==
  ASSUME SearchTypeOK, NEW c \in Conditions, ~Unresolvable(c), ~Resolved(c)
  PROVE  NextRate(c) \in Rates
<1>1. Upper(c) \in Rates \union {None} /\ Lower(c) \in Rates \union {None}
  BY Boundaries
<1>2. StartRate \in Nat \ {0} /\ MaximumRate \in Nat
  BY PilotSearchAssumption
<1>3. ~(NextRate(c) > MaximumRate) /\ ~(Upper(c) # None /\ Lower(c) = None)
  BY DEF Unresolvable
<1>4. CASE Upper(c) # None
  <2>1. Upper(c) \in 1..MaximumRate /\ Lower(c) \in 1..MaximumRate
    BY <1>1, <1>3, <1>4 DEF Rates
  <2>2. NextRate(c) = (Lower(c) + Upper(c)) \div 2
    BY <1>4 DEF NextRate
  <2>3. (Lower(c) + Upper(c)) \div 2 \in Int /\ (Lower(c) + Upper(c)) \div 2 >= 1
    BY <1>2, <2>1
  <2> QED
    BY <1>2, <1>3, <2>2, <2>3 DEF Rates
<1>5. CASE Upper(c) = None /\ Lower(c) # None
  <2>1. Lower(c) \in 1..MaximumRate
    BY <1>1, <1>5 DEF Rates
  <2>2. NextRate(c) = 2 * Lower(c)
    BY <1>5 DEF NextRate
  <2> QED
    BY <1>2, <1>3, <2>1, <2>2 DEF Rates
<1>6. CASE Upper(c) = None /\ Lower(c) = None
  <2>1. NextRate(c) = StartRate
    BY <1>6 DEF NextRate
  <2> QED
    BY <1>2, <1>3, <2>1 DEF Rates
<1> QED
  BY <1>4, <1>5, <1>6

\* What both conditions confirmed at the lower of two settled boundaries.
LEMMA SettledTogether ==
  ASSUME SearchTypeOK, ConfirmedTogether, \A c \in Conditions : Settled(c)
  PROVE  \A c \in Conditions : /\ confirmed[c][SharedRate] >= BoundaryReplicates
                               /\ \A r \in unstable[c] : r > SharedRate
<1>1. \A c \in Conditions :
        /\ Lower(c) \in Rates /\ Upper(c) \in Rates /\ Lower(c) < Upper(c)
        /\ \A r \in unstable[c] : Upper(c) <= r
        /\ confirmed[c][Lower(c)] >= BoundaryReplicates
  BY Boundaries DEF Settled, Resolved
<1>2. /\ MaximumRate \in Nat /\ BoundaryReplicates \in Nat /\ BoundaryReplicates > 0
      /\ \A r \in Rates : r \in Nat /\ r \in 0..MaximumRate
  BY PilotSearchAssumption DEF Rates
<1> DEFINE L == {Lower(c) : c \in Conditions}
<1>3. L \subseteq 0..MaximumRate /\ L # {}
  BY <1>1, <1>2 DEF Conditions
<1>4. SharedRate \in L /\ \A x \in L : SharedRate <= x
  <2>1. SharedRate = Min(L)
    BY DEF SharedRate
  <2> HIDE DEF L
  <2> QED
    BY <1>3, <2>1, ExtremeRates
<1>5. PICK d \in Conditions : SharedRate = Lower(d)
  BY <1>4
<1>6. SharedRate \in Rates /\ SharedRate \in Nat
  BY <1>1, <1>2, <1>5
<1>7. ASSUME NEW c \in Conditions, NEW r \in unstable[c] PROVE r > SharedRate
  <2>1. SharedRate <= Lower(c) /\ Lower(c) < Upper(c) /\ Upper(c) <= r
    BY <1>1, <1>4
  <2>2. r \in Nat /\ Lower(c) \in Nat /\ Upper(c) \in Nat
    BY <1>1, <1>2 DEF SearchTypeOK
  <2> QED
    BY <1>6, <2>1, <2>2
<1>8. ASSUME NEW c \in Conditions PROVE confirmed[c][SharedRate] >= BoundaryReplicates
  <2>1. SharedRate \notin unstable[c]
    <3>1. ~(SharedRate > SharedRate)
      BY <1>6
    <3> QED
      BY <1>7, <3>1
  <2>2. confirmed[d][SharedRate] \in Nat /\ confirmed[d][SharedRate] > 0
    <3>1. confirmed[d][SharedRate] >= BoundaryReplicates
      BY <1>1, <1>5
    <3>2. confirmed[d][SharedRate] \in Nat
      BY <1>6 DEF SearchTypeOK
    <3> QED
      BY <1>2, <3>1, <3>2
  <2> QED
    BY <1>6, <2>1, <2>2 DEF ConfirmedTogether
<1> QED
  BY <1>7, <1>8

\* A batch of n runs of each condition at a rate.
LEMMA RecordKeepsSets ==
  ASSUME SearchTypeOK, NEW rate \in Rates, NEW n \in Nat, NEW good \in [Conditions -> 0..n],
         Record(rate, n, good)
  PROVE  /\ stable' \in [Conditions -> SUBSET Rates] /\ unstable' \in [Conditions -> SUBSET Rates]
         /\ \A c \in Conditions : /\ unstable[c] \subseteq unstable'[c]
                                  /\ rate \notin unstable'[c] => good[c] = n
<1>1. \A c \in Conditions : good[c] \in 0..n
  OBVIOUS
<1>2. \A c \in Conditions :
        /\ stable'[c] = stable[c] \union {r \in {rate} : good[c] > 0}
        /\ unstable'[c] = unstable[c] \union {r \in {rate} : good[c] < n}
  BY DEF Record
<1>3. \A c \in Conditions : stable[c] \subseteq Rates /\ unstable[c] \subseteq Rates
  BY DEF SearchTypeOK
<1>4. stable' \in [Conditions -> SUBSET Rates] /\ unstable' \in [Conditions -> SUBSET Rates]
  BY <1>3 DEF Record
<1>5. \A c \in Conditions : /\ unstable[c] \subseteq unstable'[c]
                            /\ rate \notin unstable'[c] => good[c] = n
  BY <1>1, <1>2
<1> QED
  BY <1>4, <1>5

\* Every answer of nextPilotStep(), and the batch it asks for, keeps the invariant.
LEMMA SearchNextKeepsInv ==
  ASSUME SearchInv, [SearchNext]_searchVars
  PROVE  SearchInv'
<1>1. SearchTypeOK /\ ConfirmedTogether /\ SharedRateHolds
  BY DEF SearchInv
<1>2. ASSUME NEW c \in Conditions, Screen(c) PROVE SearchInv'
  <2>1. /\ decision = "RUN" /\ ~Unresolvable(c) /\ ~Resolved(c)
        /\ confirmed' = confirmed /\ faultRuns' = faultRuns /\ decision' = decision
    BY <1>2 DEF Screen, Turn
  <2>2. PICK good \in [Conditions -> 0..ScreeningReplicates] :
          Record(NextRate(c), ScreeningReplicates, good)
    BY <1>2 DEF Screen
  <2>3. NextRate(c) \in Rates
    BY <1>1, <2>1, NextRateIsRate
  <2>4. ScreeningReplicates \in Nat
    BY PilotSearchAssumption
  <2>5. /\ stable' \in [Conditions -> SUBSET Rates] /\ unstable' \in [Conditions -> SUBSET Rates]
        /\ \A d \in Conditions : unstable[d] \subseteq unstable'[d]
    BY <1>1, <2>2, <2>3, <2>4, RecordKeepsSets
  <2>6. SearchTypeOK'
    BY <1>1, <2>1, <2>5 DEF SearchTypeOK
  <2>7. ConfirmedTogether'
    BY <1>1, <2>1, <2>5 DEF ConfirmedTogether
  <2>8. SharedRateHolds'
    BY <2>1 DEF SharedRateHolds
  <2> QED
    BY <2>6, <2>7, <2>8 DEF SearchInv
<1>3. ASSUME NEW c \in Conditions, Confirm(c) PROVE SearchInv'
  <2> DEFINE rate == Lower(c)
  <2>1. /\ decision = "RUN" /\ Resolved(c) /\ faultRuns' = faultRuns /\ decision' = decision
    BY <1>3 DEF Confirm, Turn
  <2>2. PICK good \in [Conditions -> 0..BoundaryReplicates] :
          /\ Record(rate, BoundaryReplicates, good)
          /\ confirmed' = [d \in Conditions |-> [confirmed[d] EXCEPT ![rate] = @ + good[d]]]
    BY <1>3 DEF Confirm
  <2>3. rate \in Rates
    BY <1>1, <2>1, Boundaries DEF Resolved
  <2>4. BoundaryReplicates \in Nat /\ \A d \in Conditions : good[d] \in 0..BoundaryReplicates
    BY PilotSearchAssumption
  <2>5. /\ stable' \in [Conditions -> SUBSET Rates] /\ unstable' \in [Conditions -> SUBSET Rates]
        /\ \A d \in Conditions : /\ unstable[d] \subseteq unstable'[d]
                                 /\ rate \notin unstable'[d] => good[d] = BoundaryReplicates
    <3> HIDE DEF rate
    <3> QED
      BY <1>1, <2>2, <2>3, <2>4, RecordKeepsSets
  <2> HIDE DEF rate
  <2>6. /\ confirmed \in [Conditions -> [Rates -> Nat]]
        /\ \A d \in Conditions : confirmed[d] \in [Rates -> Nat]
        /\ \A d \in Conditions, r \in Rates : confirmed[d][r] \in Nat
    BY <1>1 DEF SearchTypeOK
  <2>7. \A d \in Conditions, r \in Rates :
          confirmed'[d][r] = IF r = rate THEN confirmed[d][r] + good[d] ELSE confirmed[d][r]
    BY <2>2, <2>3, <2>6
  <2>8. confirmed' \in [Conditions -> [Rates -> Nat]]
    <3>1. \A d \in Conditions : [confirmed[d] EXCEPT ![rate] = @ + good[d]] \in [Rates -> Nat]
      BY <2>3, <2>4, <2>6
    <3> QED
      BY <2>2, <3>1
  <2>9. SearchTypeOK'
    BY <1>1, <2>1, <2>5, <2>8 DEF SearchTypeOK
  <2>10. ConfirmedTogether'
    <3> SUFFICES ASSUME NEW a \in Conditions, NEW d \in Conditions, NEW r \in Rates,
                        confirmed'[d][r] > 0, r \notin unstable'[a]
                 PROVE  confirmed'[a][r] >= BoundaryReplicates
      BY DEF ConfirmedTogether
    <3>1. CASE r = rate
      <4>1. confirmed'[a][r] = confirmed[a][r] + good[a] /\ good[a] = BoundaryReplicates
        BY <2>5, <2>7, <3>1
      <4> QED
        BY <2>4, <2>6, <4>1
    <3>2. CASE r # rate
      <4>1. confirmed'[a][r] = confirmed[a][r] /\ confirmed'[d][r] = confirmed[d][r]
        BY <2>7, <3>2
      <4>2. r \notin unstable[a]
        BY <2>5
      <4> QED
        BY <1>1, <4>1, <4>2 DEF ConfirmedTogether
    <3> QED
      BY <3>1, <3>2
  <2>11. SharedRateHolds'
    BY <2>1 DEF SharedRateHolds
  <2> QED
    BY <2>9, <2>10, <2>11 DEF SearchInv
<1>4. ASSUME NEW c \in Conditions, Review(c) PROVE SearchInv'
  BY <1>1, <1>4 DEF Review, SearchInv, SearchTypeOK, ConfirmedTogether, SharedRateHolds
<1>5. CASE RejectGrid
  BY <1>1, <1>5 DEF RejectGrid, SearchInv, SearchTypeOK, ConfirmedTogether, SharedRateHolds
<1>6. CASE InjectFaults
  <2>1. /\ decision = "RUN" /\ decision' = decision
        /\ stable' = stable /\ unstable' = unstable /\ confirmed' = confirmed
    BY <1>6 DEF InjectFaults, BothSettled
  <2>2. PICK f \in FaultScenarios :
          faultRuns' = [c \in Conditions |-> [faultRuns[c] EXCEPT ![f] = @ + FaultReplicates]]
    BY <1>6 DEF InjectFaults
  <2>3. FaultReplicates \in Nat
    BY PilotSearchAssumption
  <2>4. \A c \in Conditions : faultRuns[c] \in [FaultScenarios -> Nat]
    BY <1>1 DEF SearchTypeOK
  <2>5. \A c \in Conditions :
          [faultRuns[c] EXCEPT ![f] = @ + FaultReplicates] \in [FaultScenarios -> Nat]
    BY <2>3, <2>4
  <2>6. faultRuns' \in [Conditions -> [FaultScenarios -> Nat]]
    BY <2>2, <2>5
  <2> QED
    BY <1>1, <2>1, <2>6 DEF SearchInv, SearchTypeOK, ConfirmedTogether, SharedRateHolds
<1>7. CASE Complete
  <2>1. /\ \A c \in Conditions : Settled(c)
        /\ decision' = "COMPLETE" /\ stable' = stable /\ unstable' = unstable
        /\ confirmed' = confirmed /\ faultRuns' = faultRuns
    BY <1>7 DEF Complete, BothSettled
  <2>2. \A c \in Conditions : /\ confirmed[c][SharedRate] >= BoundaryReplicates
                              /\ \A r \in unstable[c] : r > SharedRate
    BY <1>1, <2>1, SettledTogether
  <2>3. SharedRate' = SharedRate
    BY <2>1 DEF SharedRate, Lower, Upper
  <2>4. SharedRateHolds'
    BY <2>1, <2>2, <2>3 DEF SharedRateHolds
  <2> QED
    BY <1>1, <2>1, <2>4 DEF SearchInv, SearchTypeOK, ConfirmedTogether
<1>8. CASE UNCHANGED searchVars
  <2>1. /\ decision' = decision /\ stable' = stable /\ unstable' = unstable
        /\ confirmed' = confirmed /\ faultRuns' = faultRuns
    BY <1>8 DEF searchVars
  <2>2. SharedRate' = SharedRate
    BY <2>1 DEF SharedRate, Lower, Upper
  <2> QED
    BY <1>1, <2>1, <2>2 DEF SearchInv, SearchTypeOK, ConfirmedTogether, SharedRateHolds
<1> QED
  BY <1>2, <1>3, <1>4, <1>5, <1>6, <1>7, <1>8 DEF SearchNext

\* Whatever the trials answer, at any rates and for any number of replicates, the rate
\* a complete pilot reports was confirmed for both conditions, and nothing at or
\* below it was unstable.
THEOREM PilotSharedRateHolds == SearchSpec => []SharedRateHolds
<1>1. SearchInv => SharedRateHolds
  BY DEF SearchInv
<1>2. SearchInv /\ [SearchNext]_searchVars => SearchInv'
  BY SearchNextKeepsInv
<1> QED
  BY InitSearch, <1>1, <1>2, PTL DEF SearchSpec
===============================================================================
