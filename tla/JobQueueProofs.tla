--------------------------- MODULE JobQueueProofs ---------------------------
(***************************************************************************)
(* Theorems about JobQueue, for any number of jobs, slots, workers and     *)
(* requests: types, that what has ended stays ended, fencing, that the     *)
(* queue implements JobLease, and what holds of jobs and their records.    *)
(***************************************************************************)
EXTENDS JobQueue, TLAPS

-----------------------------------------------------------------------------
(***************************************************************************)
(* The registry: what its operators return.                                *)
(***************************************************************************)

\* A hook moves a record to a status of its own.
LEMMA MoveType ==
  ASSUME NEW from, NEW to \in DomainStatuses, NEW d \in DomainStatuses
  PROVE  Move(from, to, d) \in DomainStatuses
  BY DEF Move

LEMMA HookTypes ==
  ASSUME NEW t \in JobTypes, NEW d \in DomainStatuses, NEW reason
  PROVE  /\ Initial(t) \in DomainStatuses
         /\ Cancelled(t, d) \in DomainStatuses
         /\ Failed(t, d) \in DomainStatuses
         /\ Interrupted(t, d, reason) \in DomainStatuses
  BY DEF Initial, Cancelled, Failed, Interrupted, InterruptTo, Move, DomainStatuses, JobStatuses,
         Active, Terminal

\* A record settles its job with a terminal status or not at all.
LEMMA ReconciledType ==
  ASSUME NEW t \in JobTypes, NEW d \in DomainStatuses
  PROVE  Reconciled(t, d) \in Terminal \cup {"none"}
  BY DEF Reconciled, Terminal

LEMMA HandlerStatuses ==
  ASSUME NEW t \in JobTypes
  PROVE  /\ StartStatuses(t) \subseteq DomainStatuses
         /\ EndStatuses(t) \subseteq DomainStatuses
  BY DEF StartStatuses, EndStatuses, DomainStatuses, JobStatuses, Active, Terminal

\* A handler that returns does so with the terminal status its job is to get.
LEMMA EndedType ==
  ASSUME NEW t \in JobTypes, NEW d \in EndStatuses(t)
  PROVE  /\ Ended(t, d).pc \in {"returned", "cancelling", "failing"}
         /\ Ended(t, d).outcome \in Terminal \cup {"none"}
         /\ Ended(t, d).pc = "returned" => Ended(t, d).outcome \in Terminal
  <1>1. CASE t \in {"scan", "source_refresh"}
    BY <1>1 DEF Ended, EndStatuses, Terminal
  <1>2. CASE t \in BuildTypes
    BY <1>2 DEF Ended, EndStatuses, Terminal, BuildTypes
  <1>3. CASE t \in JobTypes \ ({"scan", "source_refresh"} \cup BuildTypes)
    BY <1>3 DEF Ended, EndStatuses, Terminal, BuildTypes, JobTypes, RunTypes
  <1> QED
    BY <1>1, <1>2, <1>3

-----------------------------------------------------------------------------
(***************************************************************************)
(* Type correctness.  A slot's job, a handler's outcome, a plan's status   *)
(* and a request's job are null in some phases only; TypeOK alone is not   *)
(* inductive because a step writes them into the rows.                     *)
(***************************************************************************)

GoodSlots ==
  {e \in SlotStates : /\ e.pc # "idle" => e.job \in Jobs
                      /\ e.pc \in {"returned", "persisting"} => e.outcome \in Terminal}

GoodPasses ==
  {p \in PassStates : \A j \in Jobs : p.plan[j] # NoPlan => p.plan[j].status \in Terminal}

GoodCalls == {c \in Calls : c # NoCall => c.job \in Jobs}

RowsOK ==
  /\ job \in [Jobs -> JobRows]
  /\ domain \in [Jobs -> DomainStatuses]
  /\ staged \in [Jobs -> BOOLEAN]

TypeInv ==
  /\ RowsOK
  /\ exec \in [Slots -> GoodSlots]
  /\ pass \in [Workers -> GoodPasses]
  /\ call \in [Clients -> GoodCalls]
  /\ nextToken \in Nat
  /\ faults \in Nat

LEMMA TypeInvImpliesTypeOK == TypeInv => TypeOK
  BY DEF TypeInv, RowsOK, TypeOK, GoodSlots, GoodPasses, GoodCalls

\* A row is what RowsOK says of it, field by field.
LEMMA RowFields ==
  ASSUME RowsOK, NEW j \in Jobs
  PROVE  /\ job[j] \in JobRows
         /\ job[j].type \in JobTypes
         /\ job[j].status \in JobStatuses \cup {"absent"}
         /\ job[j].token \in Nat
         /\ job[j].lease \in Leases
         /\ job[j].cancel \in BOOLEAN
         /\ domain[j] \in DomainStatuses
         /\ staged[j] \in BOOLEAN
  BY QueueAssumption DEF RowsOK, JobRows

\* What the actions write into a row leaves it well formed.
LEMMA RowUpdates ==
  ASSUME NEW row \in JobRows, NEW st \in Terminal, nextToken \in Nat
  PROVE  /\ Renewed(row) \in JobRows
         /\ Settled(row, st) \in JobRows
         /\ Leased(row) \in JobRows
         /\ Stamped(row) \in JobRows
         /\ [row EXCEPT !.status = st] \in JobRows
  BY DEF Renewed, Settled, Leased, Stamped, JobRows, Leases, JobStatuses, Active

\* What recovery plans for a job is a terminal status and a status of its record.
LEMMA PlannedType ==
  ASSUME RowsOK, NEW j \in Jobs
  PROVE  /\ Planned(j) \in Plans
         /\ Planned(j).status \in Terminal
         /\ Planned(j).domain \in DomainStatuses
  <1>1. /\ Reconciled(job[j].type, domain[j]) \in Terminal \cup {"none"}
        /\ Interrupted(job[j].type, domain[j], "lease_expired") \in DomainStatuses
    BY RowFields, ReconciledType, HookTypes
  <1>2. /\ Planned(j) = [status |-> Planned(j).status, domain |-> Planned(j).domain]
        /\ Planned(j).status \in Terminal
        /\ Planned(j).domain \in DomainStatuses
    BY <1>1, RowFields DEF Planned, Reconcilable, Terminal
  <1> QED
    BY <1>2 DEF Plans, JobStatuses, Terminal, Active

\* A slot that moves on keeps its job; it may not enter a phase that needs an outcome.
LEMMA SlotMoves ==
  ASSUME NEW e \in GoodSlots, e.pc # "idle",
         NEW phase \in Phases \ {"returned", "persisting"}
  PROVE  [e EXCEPT !.pc = phase] \in GoodSlots
  BY DEF GoodSlots, SlotStates

LEMMA IdleIsGood == Idle \in GoodSlots
  BY DEF Idle, GoodSlots, SlotStates, Phases

LEMMA NoPassIsGood == NoPass \in GoodPasses
  BY DEF NoPass, NoPlan, GoodPasses, PassStates, Plans, DomainStatuses

LEMMA NoCallIsGood == NoCall \in GoodCalls
  BY DEF NoCall, GoodCalls, Calls, DomainStatuses

THEOREM InitTypeInv == Init => TypeInv
  <1> SUFFICES ASSUME Init PROVE TypeInv
    OBVIOUS
  <1> USE QueueAssumption DEF Init
  <1>1. job \in [Jobs -> JobRows]
    BY DEF JobRows, Leases
  <1>2. domain \in [Jobs -> DomainStatuses] /\ staged \in [Jobs -> BOOLEAN]
    BY DEF DomainStatuses
  <1>3. exec \in [Slots -> GoodSlots]
    BY IdleIsGood
  <1>4. pass \in [Workers -> GoodPasses]
    BY NoPassIsGood
  <1>5. call \in [Clients -> GoodCalls]
    BY NoCallIsGood
  <1> QED
    BY <1>1, <1>2, <1>3, <1>4, <1>5 DEF TypeInv, RowsOK

-----------------------------------------------------------------------------
\* The requests.
LEMMA RequestKeepsTypes == TypeInv /\ Request => TypeInv'
  <1> SUFFICES ASSUME TypeInv, Request PROVE TypeInv'
    OBVIOUS
  <1> USE DEF TypeInv
  <1>1. ASSUME NEW j \in Jobs, Enqueue(j) PROVE TypeInv'
    <2>1. job' \in [Jobs -> JobRows]
      BY <1>1, RowFields DEF Enqueue, RowsOK, JobRows, JobStatuses, Active
    <2>2. domain' \in [Jobs -> DomainStatuses]
      BY <1>1, RowFields, HookTypes DEF Enqueue, RowsOK
    <2> QED
      BY <1>1, <2>1, <2>2 DEF Enqueue, RowsOK
  <1>2. ASSUME NEW j \in Jobs, NEW st, NEW d, Cancel(j, st, d)
        PROVE  job' \in [Jobs -> JobRows] /\ domain' \in [Jobs -> DomainStatuses]
    <2> DEFINE row == [job[j] EXCEPT !.cancel = TRUE,
                                     !.status = IF st = "queued" THEN "cancelled" ELSE @]
    <2>0. row \in JobRows
      BY RowFields DEF JobRows, JobStatuses, Terminal
    <2>1. job' \in [Jobs -> JobRows]
      <3>1. job' = [job EXCEPT ![j] = row]
        BY <1>2 DEF Cancel, RowsOK
      <3> QED
        BY <2>0, <3>1 DEF RowsOK
    <2>2. domain' \in [Jobs -> DomainStatuses]
      BY <1>2, RowFields DEF Cancel, RowsOK, DomainStatuses, JobStatuses, Terminal
    <2> QED
      BY <2>1, <2>2
  <1>3. ASSUME NEW j \in Jobs, CancelNow(j) PROVE TypeInv'
    BY <1>3, <1>2 DEF CancelNow, RowsOK
  <1>4. ASSUME NEW c \in Clients, NEW j \in Jobs, CancelRead(c, j) PROVE TypeInv'
    <2>1. [job |-> j, status |-> job[j].status, domain |-> domain[j]] \in GoodCalls
      BY <1>4, RowFields DEF CancelRead, GoodCalls, Calls, JobStatuses
    <2> QED
      BY <1>4, <2>1 DEF CancelRead, RowsOK
  <1>5. ASSUME NEW c \in Clients, CancelWrite(c) PROVE TypeInv'
    <2>1. call[c].job \in Jobs
      BY <1>5 DEF CancelWrite, GoodCalls
    <2>2. PICK d : Cancel(call[c].job, call[c].status, d)
      BY <1>5 DEF CancelWrite
    <2>3. job' \in [Jobs -> JobRows] /\ domain' \in [Jobs -> DomainStatuses]
      BY <2>1, <2>2, <1>2
    <2>4. call' \in [Clients -> GoodCalls]
      BY <1>5, NoCallIsGood DEF CancelWrite
    <2> QED
      BY <1>5, <2>3, <2>4 DEF CancelWrite, RowsOK
  <1>6. ASSUME NEW j \in Jobs, Requeue(j) PROVE TypeInv'
    <2>1. job' \in [Jobs -> JobRows]
      BY <1>6, RowFields DEF Requeue, RowsOK, JobRows, JobStatuses, Active, Leases
    <2>2. domain' \in [Jobs -> DomainStatuses]
      BY <1>6 DEF Requeue, RowsOK, DomainStatuses, JobStatuses, Active
    <2> QED
      BY <1>6, <2>1, <2>2 DEF Requeue, RowsOK
  <1> QED
    BY <1>1, <1>3, <1>4, <1>5, <1>6 DEF Request

-----------------------------------------------------------------------------
\* A slot's job is a job, whenever the slot is not idle.
LEMMA HeldIsJob ==
  ASSUME TypeInv, NEW s \in Slots, exec[s].pc # "idle"
  PROVE  Held(s) \in Jobs /\ exec[s] \in GoodSlots
  BY DEF TypeInv, GoodSlots, Held

\* Steps of a slot that leave the rows alone and move its execution on.
LEMMA MoveKeepsTypes ==
  ASSUME TypeInv, NEW s \in Slots, NEW e \in GoodSlots, exec' = [exec EXCEPT ![s] = e],
         UNCHANGED <<job, domain, staged, pass, call, nextToken, faults>>
  PROVE  TypeInv'
  BY DEF TypeInv, RowsOK

LEMMA GotoKeepsTypes ==
  ASSUME TypeInv, NEW s \in Slots, exec[s].pc # "idle",
         NEW phase \in Phases \ {"returned", "persisting"}, Goto(s, phase),
         UNCHANGED <<job, domain, staged, pass, call, nextToken, faults>>
  PROVE  TypeInv'
  <1>1. [exec[s] EXCEPT !.pc = phase] \in GoodSlots
    BY HeldIsJob, SlotMoves
  <1>2. exec' = [exec EXCEPT ![s] = [exec[s] EXCEPT !.pc = phase]]
    BY DEF Goto
  <1> QED
    BY <1>1, <1>2, MoveKeepsTypes

LEMMA ReleaseKeepsTypes ==
  ASSUME TypeInv, NEW s \in Slots, Release(s),
         UNCHANGED <<job, domain, staged, pass, call, nextToken, faults>>
  PROVE  TypeInv'
  BY IdleIsGood, MoveKeepsTypes DEF Release

\* Steps of a slot that also write a row and its record.
LEMMA WriteKeepsTypes ==
  ASSUME TypeInv, NEW s \in Slots, NEW j \in Jobs, NEW row \in JobRows,
         NEW d \in DomainStatuses, NEW b \in BOOLEAN, NEW e \in GoodSlots,
         job' = [job EXCEPT ![j] = row],
         domain' = [domain EXCEPT ![j] = d],
         staged' = [staged EXCEPT ![j] = b],
         exec' = [exec EXCEPT ![s] = e],
         nextToken' \in Nat,
         UNCHANGED <<pass, call, faults>>
  PROVE  TypeInv'
  BY DEF TypeInv, RowsOK

\* Claims and leases.
LEMMA ClaimKeepsTypes ==
  ASSUME TypeInv, NEW s \in Slots, Claim(s) \/ Heartbeat(s)
  PROVE  TypeInv'
  <1>1. ASSUME NEW j \in Jobs, ClaimRead(s, j) PROVE TypeInv'
    <2>1. [Idle EXCEPT !.pc = "claiming", !.job = j, !.seen = job[j].cancel] \in GoodSlots
      BY RowFields DEF TypeInv, Idle, GoodSlots, SlotStates, Phases
    <2> QED
      BY <1>1, <2>1, MoveKeepsTypes DEF ClaimRead
  <1>2. CASE ClaimWon(s)
    <2>1. Held(s) \in Jobs /\ Leased(job[Held(s)]) \in JobRows
      BY <1>2, HeldIsJob, RowUpdates, RowFields DEF ClaimWon, TypeInv, Terminal
    <2>2. [exec[s] EXCEPT !.pc = "claimed", !.token = nextToken] \in GoodSlots
      BY <1>2, HeldIsJob DEF ClaimWon, TypeInv, GoodSlots, SlotStates, Phases
    <2>3. exec' = [exec EXCEPT ![s] = [exec[s] EXCEPT !.pc = "claimed", !.token = nextToken]]
      BY <1>2 DEF ClaimWon, TypeInv
    <2>4. job' \in [Jobs -> JobRows] /\ exec' \in [Slots -> GoodSlots]
      BY <1>2, <2>1, <2>2, <2>3 DEF ClaimWon, TypeInv, RowsOK
    <2> QED
      BY <1>2, <2>4 DEF ClaimWon, TypeInv, RowsOK
  <1>3. CASE ClaimLost(s)
    BY <1>3, ReleaseKeepsTypes DEF ClaimLost
  <1>4. CASE Heartbeat(s)
    <2>1. Held(s) \in Jobs /\ Renewed(job[Held(s)]) \in JobRows
      BY <1>4, HeldIsJob, RowUpdates, RowFields DEF Heartbeat, Owns, TypeInv, Terminal
    <2> QED
      BY <1>4, <2>1 DEF Heartbeat, TypeInv, RowsOK
  <1> QED
    BY <1>1, <1>2, <1>3, <1>4 DEF Claim

LEMMA LeaseExpiresKeepsTypes ==
  ASSUME TypeInv, NEW j \in Jobs, LeaseExpires(j)
  PROVE  TypeInv'
  BY RowFields DEF LeaseExpires, TypeInv, RowsOK, JobRows, Leases

-----------------------------------------------------------------------------
\* The execution of a handler.
LEMMA ExecuteKeepsTypes ==
  ASSUME TypeInv, NEW s \in Slots, Execute(s)
  PROVE  TypeInv'
  <1> USE DEF Phases
  <1>1. CASE StartCancelled(s)
    BY <1>1, GotoKeepsTypes DEF StartCancelled
  <1>2. CASE HandlerStart(s)
    <2>1. PICK d \in StartStatuses(TypeHeld(s)) :
            /\ domain' = [domain EXCEPT ![Held(s)] = d]
            /\ Goto(s, IF d = "waiting_for_projections" THEN "failing" ELSE "working")
      BY <1>2 DEF HandlerStart
    <2> DEFINE phase == IF d = "waiting_for_projections" THEN "failing" ELSE "working"
    <2>2. Held(s) \in Jobs /\ exec[s] \in GoodSlots
      BY <1>2, HeldIsJob DEF HandlerStart
    <2>3. d \in DomainStatuses
      BY <2>2, HandlerStatuses, RowFields DEF TypeInv, TypeHeld
    <2>4. Renewed(job[Held(s)]) \in JobRows
      BY <2>2, RowUpdates, RowFields DEF TypeInv, Terminal
    <2>5. [exec[s] EXCEPT !.pc = phase] \in GoodSlots
      BY <1>2, <2>2, SlotMoves DEF HandlerStart
    <2>6. exec' = [exec EXCEPT ![s] = [exec[s] EXCEPT !.pc = phase]]
      BY <2>1 DEF Goto
    <2>7. job' \in [Jobs -> JobRows] /\ domain' \in [Jobs -> DomainStatuses]
      BY <1>2, <2>1, <2>2, <2>3, <2>4 DEF HandlerStart, TypeInv, RowsOK
    <2>8. exec' \in [Slots -> GoodSlots]
      BY <2>5, <2>6 DEF TypeInv
    <2> QED
      BY <1>2, <2>7, <2>8 DEF HandlerStart, TypeInv, RowsOK
  <1>3. CASE HandlerEnter(s)
    BY <1>3, GotoKeepsTypes DEF HandlerEnter
  <1>4. CASE SeeCancel(s)
    <2> DEFINE e == [exec[s] EXCEPT !.seen = TRUE,
                                    !.pc = IF EndStatuses(TypeHeld(s)) = {} THEN "cancelling"
                                                                            ELSE @]
    <2>1. e \in GoodSlots
      BY <1>4, HeldIsJob DEF SeeCancel, GoodSlots, SlotStates
    <2>2. exec' = [exec EXCEPT ![s] = e]
      BY <1>4 DEF SeeCancel, TypeInv
    <2> QED
      BY <1>4, <2>1, <2>2, MoveKeepsTypes DEF SeeCancel
  <1>5. CASE HandlerEnd(s)
    <2>1. PICK d \in EndStatuses(TypeHeld(s)) :
            /\ domain' = [domain EXCEPT ![Held(s)] = d]
            /\ exec' = [exec EXCEPT ![s].pc = Ended(TypeHeld(s), d).pc,
                                    ![s].outcome = Ended(TypeHeld(s), d).outcome]
      BY <1>5 DEF HandlerEnd
    <2> DEFINE end == Ended(TypeHeld(s), d)
               e == [exec[s] EXCEPT !.pc = end.pc, !.outcome = end.outcome]
    <2>2. Held(s) \in Jobs /\ exec[s] \in GoodSlots
      BY <1>5, HeldIsJob DEF HandlerEnd
    <2>3. TypeHeld(s) \in JobTypes
      BY <2>2, RowFields DEF TypeInv, TypeHeld
    <2>4. d \in DomainStatuses
      BY <2>3, HandlerStatuses
    <2>5. /\ end.pc \in {"returned", "cancelling", "failing"}
          /\ end.outcome \in Terminal \cup {"none"}
          /\ end.pc = "returned" => end.outcome \in Terminal
      BY <2>3, EndedType
    <2>6. e \in GoodSlots
      <3> HIDE DEF end
      <3>1. exec[s].job \in Jobs
        BY <2>2 DEF Held
      <3> QED
        BY <2>2, <2>5, <3>1 DEF GoodSlots, SlotStates
    <2>7. exec' = [exec EXCEPT ![s] = e]
      BY <2>1 DEF TypeInv
    <2>8. Renewed(job[Held(s)]) \in JobRows
      BY <2>2, RowUpdates, RowFields DEF TypeInv, Terminal
    <2>9. job' \in [Jobs -> JobRows] /\ domain' \in [Jobs -> DomainStatuses]
      BY <1>5, <2>1, <2>2, <2>4, <2>8 DEF HandlerEnd, TypeInv, RowsOK
    <2>10. exec' \in [Slots -> GoodSlots]
      BY <2>6, <2>7 DEF TypeInv
    <2> QED
      BY <1>5, <2>9, <2>10 DEF HandlerEnd, TypeInv, RowsOK
  <1>6. CASE HandlerReturn(s)
    <2>1. PICK o \in {"completed", "completed_with_errors"} :
            exec' = [exec EXCEPT ![s].pc = "returned", ![s].outcome = o]
      BY <1>6 DEF HandlerReturn
    <2>2. [exec[s] EXCEPT !.pc = "returned", !.outcome = o] \in GoodSlots
      BY <1>6, HeldIsJob DEF HandlerReturn, GoodSlots, SlotStates, Terminal
    <2>3. exec' = [exec EXCEPT ![s] = [exec[s] EXCEPT !.pc = "returned", !.outcome = o]]
      BY <2>1 DEF TypeInv
    <2> QED
      BY <1>6, <2>2, <2>3, MoveKeepsTypes DEF HandlerReturn
  <1>7. CASE FindingRun(s)
    <2>1. Held(s) \in Jobs
      BY <1>7, HeldIsJob DEF FindingRun
    <2>2. Settled(job[Held(s)], "completed") \in JobRows
      BY <2>1, RowUpdates, RowFields DEF TypeInv, Terminal
    <2>3. job' \in [Jobs -> JobRows] /\ domain' \in [Jobs -> DomainStatuses]
      BY <1>7, <2>1, <2>2
         DEF FindingRun, TypeInv, RowsOK, DomainStatuses, JobStatuses, Terminal
    <2> QED
      BY <1>7, <2>3, IdleIsGood DEF FindingRun, Release, TypeInv, RowsOK
  <1>8. CASE LoseLease(s)
    BY <1>8, ReleaseKeepsTypes DEF LoseLease
  <1> QED
    BY <1>1, <1>2, <1>3, <1>4, <1>5, <1>6, <1>7, <1>8 DEF Execute

\* What can go wrong in it.
LEMMA MishapKeepsTypes ==
  ASSUME TypeInv, NEW s \in Slots, Mishap(s)
  PROVE  TypeInv'
  <1> USE DEF Phases
  <1>1. CASE HandlerRaise(s)
    BY <1>1, GotoKeepsTypes DEF HandlerRaise
  <1>2. CASE Shutdown(s)
    BY <1>2, GotoKeepsTypes DEF Shutdown
  <1>3. CASE FollowupsFail(s)
    BY <1>3, ReleaseKeepsTypes DEF FollowupsFail
  <1>4. CASE PersistLocked(s)
    BY <1>4, GotoKeepsTypes DEF PersistLocked
  <1>5. CASE TerminalizeLocked(s)
    BY <1>5, ReleaseKeepsTypes DEF TerminalizeLocked
  <1> QED
    BY <1>1, <1>2, <1>3, <1>4, <1>5 DEF Mishap

-----------------------------------------------------------------------------
\* The terminal transactions.
LEMMA SettleKeepsTypes ==
  ASSUME TypeInv, NEW s \in Slots, Settle(s)
  PROVE  TypeInv'
  <1>1. ASSUME exec[s].pc \in {"returned", "persisting"}
        PROVE  Held(s) \in Jobs /\ Settled(job[Held(s)], exec[s].outcome) \in JobRows
    BY <1>1, HeldIsJob, RowUpdates, RowFields DEF TypeInv, GoodSlots
  <1>2. CASE PersistFollowups(s)
    BY <1>1, <1>2, IdleIsGood DEF PersistFollowups, Release, TypeInv, RowsOK
  <1>3. CASE PersistCheck(s)
    <2>1. Held(s) \in Jobs /\ exec[s] \in GoodSlots
      BY <1>3, HeldIsJob DEF PersistCheck
    <2>2. [exec[s] EXCEPT !.pc = "persisting"] \in GoodSlots
      BY <1>3, <2>1 DEF PersistCheck, GoodSlots, SlotStates, Phases
    <2>3. exec' = [exec EXCEPT ![s] = [exec[s] EXCEPT !.pc = "persisting"]]
      BY <1>3 DEF PersistCheck, Goto
    <2>4. exec' \in [Slots -> GoodSlots]
      BY <2>2, <2>3 DEF TypeInv
    <2>5. staged' \in [Jobs -> BOOLEAN]
      <3>1. (staged[Held(s)] \/ FollowupsDue(TypeHeld(s), domain[Held(s)])) \in BOOLEAN
        OBVIOUS
      <3> QED
        BY <1>3, <3>1 DEF PersistCheck, TypeInv, RowsOK
    <2> QED
      BY <1>3, <2>4, <2>5 DEF PersistCheck, TypeInv, RowsOK
  <1>4. CASE PersistWrite(s)
    BY <1>1, <1>4, IdleIsGood DEF PersistWrite, Release, TypeInv, RowsOK
  <1>5. CASE PersistStale(s)
    BY <1>5, ReleaseKeepsTypes DEF PersistStale
  <1>6. ASSUME exec[s].pc # "idle", NEW st \in Terminal, NEW d \in DomainStatuses, NEW b,
               job' = [job EXCEPT ![Held(s)] = Settled(@, st)],
               domain' = [domain EXCEPT ![Held(s)] = d],
               staged' = [staged EXCEPT ![Held(s)] = @ \/ b],
               Release(s), UNCHANGED <<pass, call, nextToken, faults>>
        PROVE  TypeInv'
    <2>1. Held(s) \in Jobs /\ Settled(job[Held(s)], st) \in JobRows
      BY <1>6, HeldIsJob, RowUpdates, RowFields DEF TypeInv
    <2>2. job' \in [Jobs -> JobRows] /\ domain' \in [Jobs -> DomainStatuses]
      BY <1>6, <2>1 DEF TypeInv, RowsOK
    <2>3. staged' \in [Jobs -> BOOLEAN]
      <3>1. (staged[Held(s)] \/ b) \in BOOLEAN
        OBVIOUS
      <3> QED
        BY <1>6, <3>1 DEF TypeInv, RowsOK
    <2>4. exec' \in [Slots -> GoodSlots]
      BY <1>6, IdleIsGood DEF Release, TypeInv
    <2> QED
      BY <1>6, <2>2, <2>3, <2>4 DEF TypeInv, RowsOK
  <1>7. ASSUME exec[s].pc # "idle"
        PROVE  /\ Cancelled(TypeHeld(s), domain[Held(s)]) \in DomainStatuses
               /\ Failed(TypeHeld(s), domain[Held(s)]) \in DomainStatuses
               /\ ShutDown(TypeHeld(s), domain[Held(s)]) \in DomainStatuses
    BY <1>7, HeldIsJob, RowFields, HookTypes DEF TypeHeld, ShutDown, TypeInv
  <1>8. CASE TerminalizeCancelled(s)
    <2>1. "cancelled" \in Terminal
      BY DEF Terminal
    <2> QED
      BY <1>8, <1>6, <1>7, <2>1 DEF TerminalizeCancelled, Terminalize
  <1>9. CASE TerminalizeFailed(s)
    <2>1. "failed" \in Terminal
      BY DEF Terminal
    <2> QED
      BY <1>9, <1>6, <1>7, <2>1 DEF TerminalizeFailed, Terminalize
  <1>10. CASE TerminalizeInterrupted(s)
    <2>1. "interrupted" \in Terminal
      BY DEF Terminal
    <2> QED
      BY <1>10, <1>6, <1>7, <2>1 DEF TerminalizeInterrupted, Terminalize
  <1>11. CASE TerminalizeStale(s)
    BY <1>11, ReleaseKeepsTypes DEF TerminalizeStale
  <1> QED
    BY <1>2, <1>3, <1>4, <1>5, <1>8, <1>9, <1>10, <1>11 DEF Settle

-----------------------------------------------------------------------------
\* Recovery.
LEMMA RecoverStampKeepsTypes ==
  ASSUME TypeInv, NEW w \in Workers, RecoverStamp(w)
  PROVE  TypeInv'
  <1>1. \A j \in Jobs : /\ job[j] \in JobRows
                        /\ Stamped(job[j]) \in JobRows
                        /\ [Stamped(job[j]) EXCEPT !.status = "interrupted"] \in JobRows
                        /\ Settled(Stamped(job[j]), Planned(j).status) \in JobRows
    <2> TAKE j \in Jobs
    <2>1. "interrupted" \in Terminal
      BY DEF Terminal
    <2>2. job[j] \in JobRows /\ Stamped(job[j]) \in JobRows
      BY <2>1, RowFields, RowUpdates DEF TypeInv
    <2>3. Planned(j).status \in Terminal
      BY PlannedType DEF TypeInv
    <2> QED
      BY <2>1, <2>2, <2>3, RowUpdates DEF TypeInv
  <1>2. job' \in [Jobs -> JobRows]
    BY <1>1 DEF RecoverStamp
  <1>3. domain' \in [Jobs -> DomainStatuses]
    <2>1. \A j \in Jobs : domain[j] \in DomainStatuses /\ Planned(j).domain \in DomainStatuses
      BY RowFields, PlannedType DEF TypeInv
    <2> QED
      BY <2>1 DEF RecoverStamp
  <1>4. staged' \in [Jobs -> BOOLEAN]
    BY DEF RecoverStamp
  <1>5. pass' \in [Workers -> GoodPasses]
    <2>1. PICK todo \in SUBSET Jobs :
            pass' = [pass EXCEPT ![w] =
                       IF todo = {} THEN NoPass
                       ELSE [NoPass EXCEPT !.pc = "looping", !.token = nextToken,
                                           !.todo = todo]]
      <3>1. PICK first \in SUBSET {j \in Expired : ~Reconcilable(j)}, last \in SUBSET Expired :
              pass' = [pass EXCEPT ![w] =
                         IF Expired = first \cup last
                         THEN NoPass
                         ELSE [NoPass EXCEPT !.pc = "looping", !.token = nextToken,
                                             !.todo = Expired \ (first \cup last)]]
        BY DEF RecoverStamp
      <3>2. Expired = first \cup last <=> Expired \ (first \cup last) = {}
        OBVIOUS
      <3>3. Expired \ (first \cup last) \in SUBSET Jobs
        BY DEF Expired
      <3> QED
        BY <3>1, <3>2, <3>3
    <2>2. [NoPass EXCEPT !.pc = "looping", !.token = nextToken, !.todo = todo] \in GoodPasses
      BY NoPassIsGood DEF NoPass, GoodPasses, PassStates, TypeInv
    <2> QED
      BY <2>1, <2>2, NoPassIsGood DEF TypeInv
  <1>6. nextToken' = nextToken + 1 /\ UNCHANGED <<exec, call, faults>>
    BY DEF RecoverStamp
  <1> QED
    BY <1>2, <1>3, <1>4, <1>5, <1>6 DEF TypeInv, RowsOK

LEMMA RecoverReadKeepsTypes ==
  ASSUME TypeInv, NEW w \in Workers, NEW j \in Jobs, RecoverRead(w, j)
  PROVE  TypeInv'
  <1> DEFINE pc == IF Reconcilable(j) THEN "flushing" ELSE pass[w].pc
             plan == [pass[w].plan EXCEPT ![j] = Planned(j)]
             p == [pass[w] EXCEPT !.todo = @ \ {j}, !.pc = pc, !.plan = plan]
  <1>1. pass[w] \in GoodPasses
    BY DEF TypeInv
  <1>2. Planned(j) \in Plans /\ Planned(j).status \in Terminal
    BY PlannedType DEF TypeInv
  <1>3. plan \in [Jobs -> Plans]
    BY <1>1, <1>2 DEF GoodPasses, PassStates
  <1>4. \A i \in Jobs : plan[i] # NoPlan => plan[i].status \in Terminal
    BY <1>1, <1>2 DEF GoodPasses, PassStates
  <1>5. p \in GoodPasses
    <2>1. pc \in {"idle", "looping", "flushing", "error"}
      BY <1>1 DEF GoodPasses, PassStates
    <2> HIDE DEF pc, plan
    <2> QED
      BY <1>1, <1>3, <1>4, <2>1 DEF GoodPasses, PassStates
  <1>6. pass' = [pass EXCEPT ![w] = p]
    BY <1>1 DEF RecoverRead, TypeInv, GoodPasses, PassStates
  <1> QED
    BY <1>5, <1>6 DEF RecoverRead, TypeInv, RowsOK

LEMMA RecoverCommitKeepsTypes ==
  ASSUME TypeInv, NEW w \in Workers, RecoverCommit(w)
  PROVE  TypeInv'
  <1> DEFINE plan == pass[w].plan
             New(j) == IF plan[j].status = "interrupted"
                       THEN [job[j] EXCEPT !.status = "interrupted"]
                       ELSE Settled(job[j], plan[j].status)
  <1>1. pass[w] \in GoodPasses
    BY DEF TypeInv
  <1>2. ASSUME NEW j \in Jobs, plan[j] # NoPlan
        PROVE  plan[j].status \in Terminal /\ plan[j].domain \in DomainStatuses
    BY <1>1, <1>2 DEF GoodPasses, PassStates, Plans
  <1>3. ASSUME NEW j \in Jobs, plan[j] # NoPlan PROVE New(j) \in JobRows
    <2>1. "interrupted" \in Terminal
      BY DEF Terminal
    <2> QED
      BY <1>2, <1>3, <2>1, RowFields, RowUpdates DEF TypeInv
  <1>4. job' \in [Jobs -> JobRows]
    <2>1. job' = [j \in Jobs |-> IF plan[j] # NoPlan THEN New(j) ELSE job[j]]
      BY DEF RecoverCommit
    <2> HIDE DEF New, plan
    <2> QED
      BY <1>3, <2>1, RowFields DEF TypeInv
  <1>5. domain' \in [Jobs -> DomainStatuses]
    <2>1. domain' = [j \in Jobs |-> IF plan[j] # NoPlan THEN plan[j].domain ELSE domain[j]]
      BY DEF RecoverCommit
    <2> HIDE DEF plan
    <2> QED
      BY <1>2, <2>1, RowFields DEF TypeInv
  <1>6. staged' \in [Jobs -> BOOLEAN]
    BY DEF RecoverCommit
  <1>7. pass' \in [Workers -> GoodPasses]
    <2>1. [pass[w] EXCEPT !.pc = "looping", !.plan = NoPass.plan] \in GoodPasses
      BY <1>1, NoPassIsGood DEF NoPass, GoodPasses, PassStates
    <2> QED
      BY <2>1, NoPassIsGood DEF RecoverCommit, TypeInv
  <1> QED
    BY <1>4, <1>5, <1>6, <1>7 DEF RecoverCommit, TypeInv, RowsOK

LEMMA WorkerKeepsTypes ==
  ASSUME TypeInv, NEW w \in Workers, Recover(w) \/ RecoverAbort(w) \/ Restart(w) \/ Crash(w)
  PROVE  TypeInv'
  <1>1. ASSUME NEW j \in Jobs, RecoverError(w, j) PROVE TypeInv'
    <2>1. [NoPass EXCEPT !.pc = "error"] \in GoodPasses
      BY NoPassIsGood DEF NoPass, GoodPasses, PassStates
    <2> QED
      BY <1>1, <2>1 DEF RecoverError, TypeInv, RowsOK
  <1>2. CASE RecoverAbort(w)
    BY <1>2, NoPassIsGood DEF RecoverAbort, TypeInv, RowsOK
  <1>3. CASE Restart(w)
    BY <1>3, NoPassIsGood DEF Restart, TypeInv, RowsOK
  <1>4. CASE Crash(w)
    BY <1>4, NoPassIsGood, IdleIsGood DEF Crash, TypeInv, RowsOK
  <1>5. CASE Recover(w)
    <2>1. CASE RecoverStamp(w)
      BY <2>1, RecoverStampKeepsTypes
    <2>2. CASE RecoverCommit(w)
      BY <2>2, RecoverCommitKeepsTypes
    <2>3. CASE \E j \in Jobs : RecoverRead(w, j)
      BY <2>3, RecoverReadKeepsTypes
    <2>4. CASE \E j \in Jobs : RecoverError(w, j)
      BY <2>4, <1>1
    <2> QED
      BY <1>5, <2>1, <2>2, <2>3, <2>4 DEF Recover
  <1> QED
    BY <1>2, <1>3, <1>4, <1>5

-----------------------------------------------------------------------------
LEMMA NextTypeInv == TypeInv /\ [Next]_vars => TypeInv'
  <1> SUFFICES ASSUME TypeInv, [Next]_vars PROVE TypeInv'
    OBVIOUS
  <1>1. CASE UNCHANGED vars
    BY <1>1 DEF vars, TypeInv, RowsOK
  <1>2. CASE Next
    BY <1>2, RequestKeepsTypes, LeaseExpiresKeepsTypes, ClaimKeepsTypes, ExecuteKeepsTypes,
       SettleKeepsTypes, MishapKeepsTypes, WorkerKeepsTypes
       DEF Next
  <1> QED
    BY <1>1, <1>2

THEOREM TypeInvariant == Spec => []TypeInv
  BY InitTypeInv, NextTypeInv, PTL DEF Spec

\* Every row, record, execution, pass and request stays of its type: a job never gets a
\* record's status, nor a slot an outcome that is none, whatever the races.
THEOREM TypeCorrect == Spec => []TypeOK
  BY TypeInvariant, TypeInvImpliesTypeOK, PTL

-----------------------------------------------------------------------------
(***************************************************************************)
(* Fencing, for any number of jobs, slots, workers and requests: no two    *)
(* executions hold the lease of a job, and one that has lost it does not   *)
(* get it back.                                                            *)
(*                                                                         *)
(* Both follow from tokens being fresh.  Only a claim and a recovery pass  *)
(* issue tokens; every other step is quiet: it keeps the tokens there are, *)
(* or clears them, and starts no job.                                      *)
(***************************************************************************)

\* An execution keeps its token only together with its job.
QuietSlots ==
  \A s \in Slots : /\ exec'[s].token \in {exec[s].token, 0}
                   /\ exec'[s].token # 0 => exec'[s].job = exec[s].job

QuietRows ==
  \A j \in Jobs :
    /\ job'[j].token \in {job[j].token, 0}
    /\ job'[j].status = "running" =>
         job[j].status = "running" /\ job'[j].token = job[j].token

Quiet == QuietSlots /\ QuietRows /\ nextToken' = nextToken

TokenInv ==
  /\ nextToken # 0
  /\ \A j \in Jobs : /\ job[j].token < nextToken
                     /\ job[j].status = "running" => job[j].token # 0
  /\ \A s \in Slots : exec[s].token < nextToken
  /\ \A s, o \in Slots : exec[s].token = exec[o].token /\ exec[s].token # 0 => s = o

LEMMA TokenTypes ==
  ASSUME TypeInv
  PROVE  /\ nextToken \in Nat
         /\ \A j \in Jobs : job[j].token \in Nat
         /\ \A s \in Slots : exec[s].token \in Nat
  BY RowFields DEF TypeInv, GoodSlots, SlotStates

-----------------------------------------------------------------------------
\* The shapes of the quiet steps.
LEMMA SameRows ==
  ASSUME TypeInv, UNCHANGED job
  PROVE  QuietRows
  BY DEF QuietRows

LEMMA OneRow ==
  ASSUME TypeInv, NEW j \in Jobs, NEW row,
         job' = [job EXCEPT ![j] = row],
         row.token \in {job[j].token, 0},
         row.status = "running" => job[j].status = "running" /\ row.token = job[j].token
  PROVE  QuietRows
  BY DEF QuietRows, TypeInv, RowsOK

LEMMA RowKept ==
  ASSUME TypeInv, NEW j \in Jobs, NEW st \in Terminal
  PROVE  /\ Renewed(job[j]).token = job[j].token
         /\ Renewed(job[j]).status = job[j].status
         /\ Settled(job[j], st).token = job[j].token
         /\ Settled(job[j], st).status = st
         /\ st # "running"
  BY RowFields DEF Renewed, Settled, TypeInv, JobRows, Terminal

LEMMA SameSlots ==
  ASSUME TypeInv, UNCHANGED exec
  PROVE  QuietSlots
  BY DEF QuietSlots

LEMMA ReleasedSlot ==
  ASSUME TypeInv, NEW s \in Slots, Release(s)
  PROVE  QuietSlots
  BY DEF Release, QuietSlots, TypeInv, Idle

LEMMA MovedSlot ==
  ASSUME TypeInv, NEW s \in Slots, NEW phase, Goto(s, phase)
  PROVE  QuietSlots
  BY DEF Goto, QuietSlots, TypeInv, GoodSlots, SlotStates

-----------------------------------------------------------------------------
LEMMA RequestQuiet == ASSUME TypeInv, Request PROVE Quiet
  <1> USE DEF Quiet
  <1>1. ASSUME NEW j \in Jobs, Enqueue(j) PROVE Quiet
    BY <1>1, SameSlots DEF Enqueue, QuietRows, TypeInv, RowsOK, JobRows
  <1>2. ASSUME NEW j \in Jobs, NEW st, NEW d, Cancel(j, st, d) PROVE QuietRows
    BY <1>2, RowFields DEF Cancel, QuietRows, TypeInv, RowsOK, JobRows
  <1>3. ASSUME NEW j \in Jobs, CancelNow(j) PROVE Quiet
    BY <1>3, <1>2, SameSlots DEF CancelNow
  <1>4. ASSUME NEW c \in Clients, NEW j \in Jobs, CancelRead(c, j) PROVE Quiet
    BY <1>4, SameSlots, SameRows DEF CancelRead
  <1>5. ASSUME NEW c \in Clients, CancelWrite(c) PROVE Quiet
    <2>1. call[c].job \in Jobs
      BY <1>5 DEF CancelWrite, TypeInv, GoodCalls
    <2>2. PICK d : Cancel(call[c].job, call[c].status, d)
      BY <1>5 DEF CancelWrite
    <2> QED
      BY <1>5, <1>2, <2>1, <2>2, SameSlots DEF CancelWrite
  <1>6. ASSUME NEW j \in Jobs, Requeue(j) PROVE Quiet
    BY <1>6, SameSlots, RowFields DEF Requeue, QuietRows, TypeInv, RowsOK, JobRows
  <1> QED
    BY <1>1, <1>3, <1>4, <1>5, <1>6 DEF Request

LEMMA LeaseQuiet ==
  ASSUME TypeInv, \/ \E j \in Jobs : LeaseExpires(j)
                  \/ \E s \in Slots : \/ Heartbeat(s) \/ ClaimLost(s)
                                      \/ \E j \in Jobs : ClaimRead(s, j)
  PROVE  Quiet
  <1> USE DEF Quiet
  <1>1. ASSUME NEW j \in Jobs, LeaseExpires(j) PROVE Quiet
    BY <1>1, SameSlots, RowFields DEF LeaseExpires, QuietRows, TypeInv, RowsOK, JobRows
  <1>2. ASSUME NEW s \in Slots, Heartbeat(s) PROVE Quiet
    <2>1. Held(s) \in Jobs
      BY <1>2 DEF Heartbeat, Owns
    <2> QED
      BY <1>2, <2>1, SameSlots, RowFields
         DEF Heartbeat, Renewed, QuietRows, TypeInv, RowsOK, JobRows
  <1>3. ASSUME NEW s \in Slots, ClaimLost(s) PROVE Quiet
    BY <1>3, ReleasedSlot, SameRows DEF ClaimLost
  <1>4. ASSUME NEW s \in Slots, NEW j \in Jobs, ClaimRead(s, j) PROVE Quiet
    BY <1>4, SameRows DEF ClaimRead, QuietSlots, TypeInv, Idle
  <1> QED
    BY <1>1, <1>2, <1>3, <1>4

LEMMA ExecuteQuiet == ASSUME TypeInv, NEW s \in Slots, Execute(s) PROVE Quiet
  <1> USE DEF Quiet
  <1>1. ASSUME exec[s].pc # "idle" PROVE Held(s) \in Jobs
    BY <1>1, HeldIsJob
  <1>2. CASE StartCancelled(s)
    BY <1>2, MovedSlot, SameRows DEF StartCancelled
  <1>3. CASE HandlerStart(s)
    <2>1. QuietSlots
      BY <1>3, MovedSlot DEF HandlerStart
    <2>2. Held(s) \in Jobs
      BY <1>1, <1>3 DEF HandlerStart
    <2>3. QuietRows
      BY <1>3, <2>2, RowFields DEF HandlerStart, Renewed, QuietRows, TypeInv, RowsOK, JobRows
    <2> QED
      BY <1>3, <2>1, <2>3 DEF HandlerStart
  <1>4. CASE HandlerEnter(s)
    BY <1>4, MovedSlot, SameRows DEF HandlerEnter
  <1>5. CASE SeeCancel(s)
    BY <1>5, SameRows DEF SeeCancel, QuietSlots, TypeInv, GoodSlots, SlotStates
  <1>6. CASE HandlerEnd(s)
    <2>1. QuietSlots
      <3>1. PICK pc, o : exec' = [exec EXCEPT ![s].pc = pc, ![s].outcome = o]
        BY <1>6 DEF HandlerEnd
      <3> QED
        BY <3>1 DEF QuietSlots, TypeInv, GoodSlots, SlotStates
    <2>2. Held(s) \in Jobs
      BY <1>1, <1>6 DEF HandlerEnd
    <2>3. QuietRows
      BY <1>6, <2>2, RowFields DEF HandlerEnd, Renewed, QuietRows, TypeInv, RowsOK, JobRows
    <2> QED
      BY <1>6, <2>1, <2>3 DEF HandlerEnd
  <1>7. CASE HandlerReturn(s)
    BY <1>7, SameRows DEF HandlerReturn, QuietSlots, TypeInv, GoodSlots, SlotStates
  <1>8. CASE FindingRun(s)
    <2>1. QuietSlots
      BY <1>8, ReleasedSlot DEF FindingRun
    <2>2. Held(s) \in Jobs
      BY <1>1, <1>8 DEF FindingRun
    <2>3. QuietRows
      BY <1>8, <2>2, RowFields DEF FindingRun, Settled, QuietRows, TypeInv, RowsOK, JobRows
    <2> QED
      BY <1>8, <2>1, <2>3 DEF FindingRun
  <1>9. CASE LoseLease(s)
    BY <1>9, ReleasedSlot, SameRows DEF LoseLease
  <1> QED
    BY <1>2, <1>3, <1>4, <1>5, <1>6, <1>7, <1>8, <1>9 DEF Execute

LEMMA SettleQuiet == ASSUME TypeInv, NEW s \in Slots, Settle(s) \/ Mishap(s) PROVE Quiet
  <1> USE DEF Quiet
  <1>1. ASSUME exec[s].pc # "idle", NEW st \in Terminal,
               job' = [job EXCEPT ![Held(s)] = Settled(@, st)]
        PROVE  QuietRows
    <2>1. Held(s) \in Jobs
      BY <1>1, HeldIsJob
    <2> QED
      BY <1>1, <2>1, RowKept, OneRow
  <1>2. ASSUME exec[s].pc \in {"returned", "persisting"}
        PROVE  exec[s].outcome \in Terminal
    BY <1>2 DEF TypeInv, GoodSlots
  <1>3. CASE PersistFollowups(s)
    BY <1>1, <1>2, <1>3, ReleasedSlot DEF PersistFollowups
  <1>4. CASE PersistCheck(s)
    BY <1>4, MovedSlot, SameRows DEF PersistCheck
  <1>5. CASE PersistWrite(s)
    BY <1>1, <1>2, <1>5, ReleasedSlot DEF PersistWrite
  <1>6. CASE PersistStale(s) \/ TerminalizeStale(s) \/ FollowupsFail(s) \/ TerminalizeLocked(s)
    BY <1>6, ReleasedSlot, SameRows
       DEF PersistStale, TerminalizeStale, FollowupsFail, TerminalizeLocked
  <1>7. CASE TerminalizeCancelled(s)
    BY <1>1, <1>7, ReleasedSlot DEF TerminalizeCancelled, Terminalize, Terminal
  <1>8. CASE TerminalizeFailed(s)
    BY <1>1, <1>8, ReleasedSlot DEF TerminalizeFailed, Terminalize, Terminal
  <1>9. CASE TerminalizeInterrupted(s)
    BY <1>1, <1>9, ReleasedSlot DEF TerminalizeInterrupted, Terminalize, Terminal
  <1>10. CASE HandlerRaise(s) \/ Shutdown(s) \/ PersistLocked(s)
    BY <1>10, MovedSlot, SameRows DEF HandlerRaise, Shutdown, PersistLocked
  <1> QED
    BY <1>3, <1>4, <1>5, <1>6, <1>7, <1>8, <1>9, <1>10 DEF Settle, Mishap

\* A pass that goes on, ends or is lost writes planned statuses only, and those are terminal.
LEMMA WorkerQuiet ==
  ASSUME TypeInv, NEW w \in Workers,
         \/ \E j \in Jobs : RecoverRead(w, j) \/ RecoverError(w, j)
         \/ RecoverCommit(w) \/ RecoverAbort(w) \/ Restart(w) \/ Crash(w)
  PROVE  Quiet
  <1> USE DEF Quiet
  <1>1. ASSUME NEW j \in Jobs, RecoverRead(w, j) PROVE Quiet
    BY <1>1, SameSlots, SameRows DEF RecoverRead
  <1>2. ASSUME NEW j \in Jobs, RecoverError(w, j) PROVE Quiet
    BY <1>2, SameSlots, SameRows DEF RecoverError
  <1>3. CASE RecoverAbort(w) \/ Restart(w)
    BY <1>3, SameSlots, SameRows DEF RecoverAbort, Restart
  <1>4. CASE Crash(w)
    BY <1>4, SameRows DEF Crash, QuietSlots, TypeInv, Idle
  <1>5. CASE RecoverCommit(w)
    <2> DEFINE plan == pass[w].plan
               New(j) == IF plan[j].status = "interrupted"
                         THEN [job[j] EXCEPT !.status = "interrupted"]
                         ELSE Settled(job[j], plan[j].status)
    <2>1. ASSUME NEW j \in Jobs, plan[j] # NoPlan
          PROVE  New(j).token = job[j].token /\ New(j).status # "running"
      <3>1. plan[j].status \in Terminal
        BY <2>1 DEF TypeInv, GoodPasses
      <3>2. CASE plan[j].status = "interrupted"
        BY <3>2, RowFields DEF TypeInv, JobRows
      <3>3. CASE plan[j].status # "interrupted"
        BY <3>1, <3>3, RowKept
      <3> QED
        BY <3>2, <3>3
    <2>2. job' = [j \in Jobs |-> IF plan[j] # NoPlan THEN New(j) ELSE job[j]]
      BY <1>5 DEF RecoverCommit
    <2>3. QuietRows
      <3> HIDE DEF plan, New
      <3> QED
        BY <2>1, <2>2 DEF QuietRows
    <2> QED
      BY <1>5, <2>3, SameSlots DEF RecoverCommit
  <1> QED
    BY <1>1, <1>2, <1>3, <1>4, <1>5

-----------------------------------------------------------------------------
\* What the two steps that issue a token do to the tokens.
LEMMA ClaimTokens ==
  ASSUME TypeInv, NEW s \in Slots, ClaimWon(s)
  PROVE  /\ nextToken' = nextToken + 1
         /\ exec[s].pc = "claiming"
         /\ exec'[s].token = nextToken
         /\ \A o \in Slots \ {s} : exec'[o] = exec[o]
         /\ \A j \in Jobs : \/ job'[j] = job[j]
                            \/ job'[j].token = nextToken
  BY DEF ClaimWon, Leased, TypeInv, GoodSlots, SlotStates, RowsOK, JobRows

LEMMA RecoveryTokens ==
  ASSUME TypeInv, NEW w \in Workers, RecoverStamp(w)
  PROVE  /\ nextToken' = nextToken + 1
         /\ UNCHANGED exec
         /\ \A j \in Jobs : \/ job'[j] = job[j]
                            \/ job'[j].token = nextToken
  <1>1. nextToken' = nextToken + 1 /\ UNCHANGED exec
    BY DEF RecoverStamp
  <1>2. PICK first \in SUBSET {j \in Expired : ~Reconcilable(j)}, last \in SUBSET Expired :
          job' = [j \in Jobs |->
                    CASE j \in first -> [Stamped(job[j]) EXCEPT !.status = "interrupted"]
                      [] j \in last  -> Settled(Stamped(job[j]), Planned(j).status)
                      [] j \in Expired \ (first \cup last) -> Stamped(job[j])
                      [] OTHER      -> job[j]]
    BY DEF RecoverStamp
  <1>3. ASSUME NEW j \in Jobs PROVE job'[j] = job[j] \/ job'[j].token = nextToken
    <2>1. job[j] \in JobRows
      BY RowFields DEF TypeInv
    <2>2. Stamped(job[j]).token = nextToken
      BY <2>1 DEF Stamped, JobRows
    <2>3. [Stamped(job[j]) EXCEPT !.status = "interrupted"].token = nextToken
      BY <2>1 DEF Stamped, JobRows
    <2>4. Settled(Stamped(job[j]), Planned(j).status).token = nextToken
      BY <2>1 DEF Stamped, Settled, JobRows
    <2> QED
      BY <1>2, <2>2, <2>3, <2>4
  <1> QED
    BY <1>1, <1>3

\* Every step is quiet, a claim or the start of a recovery pass.
LEMMA StepCases ==
  ASSUME TypeInv, [Next]_vars
  PROVE  Quiet \/ (\E s \in Slots : ClaimWon(s)) \/ (\E w \in Workers : RecoverStamp(w))
  <1>1. CASE UNCHANGED vars
    BY <1>1, SameRows, SameSlots DEF vars, Quiet
  <1>2. CASE Request
    BY <1>2, RequestQuiet
  <1>3. CASE \E j \in Jobs : LeaseExpires(j)
    BY <1>3, LeaseQuiet
  <1>4. ASSUME NEW s \in Slots, Claim(s) \/ Heartbeat(s) PROVE Quiet \/ ClaimWon(s)
    BY <1>4, LeaseQuiet DEF Claim
  <1>5. ASSUME NEW s \in Slots, Execute(s) \/ Settle(s) \/ Mishap(s) PROVE Quiet
    BY <1>5, ExecuteQuiet, SettleQuiet
  <1>6. ASSUME NEW w \in Workers, Recover(w) \/ RecoverAbort(w) \/ Restart(w) \/ Crash(w)
        PROVE  Quiet \/ RecoverStamp(w)
    BY <1>6, WorkerQuiet DEF Recover
  <1> QED
    BY <1>1, <1>2, <1>3, <1>4, <1>5, <1>6 DEF Next

-----------------------------------------------------------------------------
LEMMA InitTokenInv == Init => TokenInv
  BY DEF Init, TokenInv, Idle

LEMMA NextTokenInv == TypeInv /\ TokenInv /\ [Next]_vars => TokenInv'
  <1> SUFFICES ASSUME TypeInv, TokenInv, [Next]_vars PROVE TokenInv'
    OBVIOUS
  <1> USE TokenTypes
  <1>1. CASE Quiet
    BY <1>1 DEF Quiet, QuietRows, QuietSlots, TokenInv
  <1>2. ASSUME NEW s \in Slots, ClaimWon(s) PROVE TokenInv'
    BY <1>2, ClaimTokens DEF TokenInv
  <1>3. ASSUME NEW w \in Workers, RecoverStamp(w) PROVE TokenInv'
    BY <1>3, RecoveryTokens DEF TokenInv
  <1> QED
    BY <1>1, <1>2, <1>3, StepCases

THEOREM TokensFresh == Spec => []TokenInv
  BY InitTokenInv, NextTokenInv, TypeInvariant, PTL DEF Spec

LEMMA TokenInvOwner == TokenInv => SingleOwner
  BY DEF TokenInv, SingleOwner, Owns

\* At most one execution ever holds the lease of a job, whatever is claimed, recovered,
\* requeued and still running with an old token.
THEOREM LeaseExclusive == Spec => []SingleOwner
  BY TokensFresh, TokenInvOwner, PTL

LEMMA StaleStaysStale ==
  ASSUME TypeInv, TokenInv, [Next]_vars, NEW s \in Slots,
         ~Owns(s), exec[s].pc \notin {"idle", "claiming"}, Held(s)' = Held(s)
  PROVE  ~Owns(s)'
  <1> SUFFICES ASSUME Owns(s)' PROVE FALSE
    OBVIOUS
  <1>1. /\ Held(s) \in Jobs
        /\ job'[Held(s)].status = "running"
        /\ job'[Held(s)].token = exec'[s].token
    BY DEF Owns
  <1>2. TokenInv'
    BY NextTokenInv
  <1>3. CASE Quiet
    BY <1>1, <1>2, <1>3 DEF Quiet, QuietRows, QuietSlots, TokenInv, Owns
  <1>4. ASSUME NEW o \in Slots, ClaimWon(o) PROVE FALSE
    BY <1>1, <1>4, ClaimTokens, TokenTypes DEF TokenInv, Owns
  <1>5. ASSUME NEW w \in Workers, RecoverStamp(w) PROVE FALSE
    BY <1>1, <1>5, RecoveryTokens, TokenTypes DEF TokenInv, Owns
  <1> QED
    BY <1>3, <1>4, <1>5, StepCases

\* An execution that has lost its lease never owns its job again.
THEOREM FencingPermanent == Spec => LostLeaseStaysLost
  <1>1. TypeInv /\ TokenInv /\ [Next]_vars
          => [\A s \in Slots :
                /\ ~Owns(s)
                /\ exec[s].pc \notin {"idle", "claiming"}
                /\ Held(s)' = Held(s)
                => ~Owns(s)']_vars
    BY StaleStaysStale
  <1> QED
    BY <1>1, TypeInvariant, TokensFresh, PTL DEF Spec, LostLeaseStaysLost

-----------------------------------------------------------------------------
(***************************************************************************)
(* The queue implements JobLease: a record is written by the holder of the *)
(* lease, or by a step that ends the holder's lease.                       *)
(*                                                                         *)
(* A step that issues no token can only shrink the holdings, so it is a    *)
(* Revoke as soon as every record it writes is nobody's afterwards and no  *)
(* execution starts over.  Only the two fenced commits of a handler write  *)
(* a record that stays held, and each takes the execution a stage further. *)
(***************************************************************************)

\* No record changes under an execution that holds it after the step.
WritesFreeRecords ==
  \A j \in Jobs : domain'[j] # domain[j] => \A s \in Slots : <<s, j>> \notin Holdings'

\* No execution starts over that goes on.
Forward ==
  \A s \in Slots : exec'[s].job # NoJob => StageOf(exec'[s].pc) >= StageOf(exec[s].pc)

LEMMA StageType == \A phase : StageOf(phase) \in 0 .. 2
  BY DEF StageOf

LEMMA HoldingsOwn ==
  ASSUME NEW s, NEW j
  PROVE  <<s, j>> \in Holdings <=> s \in Slots /\ j \in Jobs /\ Owns(s) /\ Held(s) = j
  BY DEF Holdings

\* The same of the state after a step.
LEMMA HoldingsOwnNext ==
  ASSUME NEW s, NEW j
  PROVE  <<s, j>> \in Holdings' <=>
           /\ s \in Slots
           /\ j \in Jobs
           /\ exec'[s].job = j
           /\ job'[j].status = "running"
           /\ job'[j].token = exec'[s].token
  BY DEF Holdings, Owns, Held

-----------------------------------------------------------------------------
\* The three ways a step maps to one of JobLease.
LEMMA ShrinkingStep ==
  ASSUME TypeInv', SingleOwner, Holdings' \subseteq Holdings, WritesFreeRecords, Forward
  PROVE  Lease!Next
  <1> DEFINE J == {j \in Jobs : \/ domain'[j] # domain[j]
                                \/ \E s \in Slots : <<s, j>> \in Holdings \ Holdings'}
  <1>1. ASSUME NEW p \in Holdings, p[2] \in J PROVE p \notin Holdings'
    <2>1. p[1] \in Slots /\ p = <<p[1], p[2]>> /\ p[2] \in Jobs
      BY DEF Holdings
    <2>2. CASE domain'[p[2]] # domain[p[2]]
      BY <2>1, <2>2 DEF WritesFreeRecords
    <2>3. ASSUME NEW s \in Slots, <<s, p[2]>> \in Holdings \ Holdings' PROVE p \notin Holdings'
      <3>1. s = p[1]
        BY <2>1, <2>3, HoldingsOwn DEF SingleOwner
      <3> QED
        BY <2>1, <2>3, <3>1
    <2> QED
      BY <1>1, <2>2, <2>3
  <1>2. ASSUME NEW p \in Holdings, p[2] \notin J PROVE p \in Holdings'
    <2>1. p[1] \in Slots /\ p = <<p[1], p[2]>> /\ p[2] \in Jobs
      BY DEF Holdings
    <2> QED
      BY <1>2, <2>1
  <1>3. Holdings' = {p \in Holdings : p[2] \notin J}
    BY <1>1, <1>2
  <1>4. domain' \in [Jobs -> DomainStatuses] /\ \A j \in Jobs \ J : domain'[j] = domain[j]
    BY DEF TypeInv, RowsOK
  <1>5. [s \in Slots |-> StageOf(exec'[s].pc)] \in [Slots -> Lease!Stages]
    BY StageType DEF Lease!Stages
  <1>6. ASSUME NEW s \in Slots, NEW j \in Jobs, <<s, j>> \in Holdings'
        PROVE  [x \in Slots |-> StageOf(exec'[x].pc)][s] >=
                 [x \in Slots |-> StageOf(exec[x].pc)][s]
    BY <1>6, HoldingsOwnNext, QueueAssumption DEF Forward
  <1>7. Lease!Revoke(J)
    BY <1>3, <1>4, <1>5, <1>6 DEF Lease!Revoke
  <1>8. J \in SUBSET Jobs
    OBVIOUS
  <1> HIDE DEF J
  <1> QED
    BY <1>7, <1>8 DEF Lease!Next

LEMMA HolderStep ==
  ASSUME TypeInv, NEW s \in Slots, Owns(s), NEW d \in DomainStatuses,
         domain' = [domain EXCEPT ![Held(s)] = d], Holdings' = Holdings,
         \A o \in Slots \ {s} : exec'[o] = exec[o],
         StageOf(exec'[s].pc) > StageOf(exec[s].pc)
  PROVE  Lease!Next
  <1>1. Held(s) \in Jobs /\ <<s, Held(s)>> \in Holdings
    BY HoldingsOwn DEF Owns
  <1>2. StageOf(exec'[s].pc) \in Lease!Stages
    BY StageType DEF Lease!Stages
  <1>3. [o \in Slots |-> StageOf(exec'[o].pc)] =
          [[o \in Slots |-> StageOf(exec[o].pc)] EXCEPT ![s] = StageOf(exec'[s].pc)]
    OBVIOUS
  <1>4. Lease!Write(s, Held(s))
    BY <1>1, <1>2, <1>3 DEF Lease!Write
  <1> QED
    BY <1>1, <1>4 DEF Lease!Next

LEMMA TakingStep ==
  ASSUME NEW s \in Slots, NEW j \in Jobs, UNCHANGED domain,
         \A o \in Slots, k \in Jobs : <<o, k>> \in Holdings => o # s /\ k # j,
         Holdings' = Holdings \cup {<<s, j>>},
         StageOf(exec[s].pc) = 0,
         \A o \in Slots : StageOf(exec'[o].pc) = StageOf(exec[o].pc)
  PROVE  Lease!Next
  <1>1. Lease!Take(s, j)
    BY DEF Lease!Take
  <1> QED
    BY <1>1 DEF Lease!Next

-----------------------------------------------------------------------------
LEMMA QuietShrinks ==
  ASSUME TypeInv, TokenInv, Quiet
  PROVE  Holdings' \subseteq Holdings
  <1> SUFFICES ASSUME NEW s \in Slots, NEW j \in Jobs, <<s, j>> \in Holdings'
               PROVE  <<s, j>> \in Holdings
    BY DEF Holdings
  <1>1. /\ exec'[s].job = j
        /\ job'[j].status = "running"
        /\ job'[j].token = exec'[s].token
    BY HoldingsOwnNext
  <1>2. job[j].status = "running" /\ job'[j].token = job[j].token /\ job[j].token # 0
    BY <1>1 DEF Quiet, QuietRows, TokenInv
  <1>3. exec[s].token = exec'[s].token /\ exec[s].job = j
    BY <1>1, <1>2 DEF Quiet, QuietSlots
  <1> QED
    BY <1>1, <1>2, <1>3, HoldingsOwn DEF Owns, Held

LEMMA SameForward ==
  ASSUME UNCHANGED exec
  PROVE  Forward
  BY StageType DEF Forward

LEMMA ReleasedForward ==
  ASSUME TypeInv, NEW s \in Slots, Release(s)
  PROVE  Forward
  BY StageType DEF Forward, Release, Idle, TypeInv

LEMMA OneForward ==
  ASSUME NEW s \in Slots, \A o \in Slots \ {s} : exec'[o] = exec[o],
         StageOf(exec'[s].pc) >= StageOf(exec[s].pc)
  PROVE  Forward
  BY StageType DEF Forward

LEMMA MovedForward ==
  ASSUME TypeInv, NEW s \in Slots, NEW phase, Goto(s, phase),
         StageOf(phase) >= StageOf(exec[s].pc)
  PROVE  Forward
  BY OneForward DEF Goto, TypeInv, GoodSlots, SlotStates

LEMMA SameHoldings ==
  ASSUME \A s \in Slots : exec'[s].job = exec[s].job /\ exec'[s].token = exec[s].token,
         \A j \in Jobs : job'[j].status = job[j].status /\ job'[j].token = job[j].token
  PROVE  Holdings' = Holdings
  <1>1. ASSUME NEW s \in Slots, NEW j \in Jobs
        PROVE  <<s, j>> \in Holdings' <=> <<s, j>> \in Holdings
    BY HoldingsOwn, HoldingsOwnNext DEF Owns, Held
  <1> QED
    BY <1>1 DEF Holdings

LEMMA EndedRecords ==
  ASSUME \A j \in Jobs : domain'[j] # domain[j] => job'[j].status # "running"
  PROVE  WritesFreeRecords
  BY HoldingsOwnNext DEF WritesFreeRecords

LEMMA SameRecords ==
  ASSUME UNCHANGED domain
  PROVE  WritesFreeRecords
  BY DEF WritesFreeRecords

\* A handler's fenced commit: the holder writes, and renews its lease.
LEMMA FencedCommit ==
  ASSUME TypeInv, NEW s \in Slots, Owns(s), NEW d \in DomainStatuses, NEW pc, NEW o,
         domain' = [domain EXCEPT ![Held(s)] = d],
         job' = [job EXCEPT ![Held(s)] = Renewed(@)],
         exec' = [exec EXCEPT ![s].pc = pc, ![s].outcome = o],
         StageOf(pc) > StageOf(exec[s].pc)
  PROVE  Lease!Next
  <1>1. \A x \in Slots : exec'[x].job = exec[x].job /\ exec'[x].token = exec[x].token
    BY DEF TypeInv, GoodSlots, SlotStates
  <1>2. Held(s) \in Jobs
    BY DEF Owns
  <1>3. \A j \in Jobs : job'[j].status = job[j].status /\ job'[j].token = job[j].token
    BY <1>2, RowFields DEF Renewed, TypeInv, RowsOK, JobRows
  <1>4. exec'[s].pc = pc /\ \A x \in Slots \ {s} : exec'[x] = exec[x]
    BY DEF TypeInv, GoodSlots, SlotStates
  <1> QED
    BY <1>1, <1>3, <1>4, SameHoldings, HolderStep

-----------------------------------------------------------------------------
LEMMA RequestWrites == ASSUME TypeInv, Request PROVE WritesFreeRecords
  <1>1. ASSUME NEW j \in Jobs, Enqueue(j) PROVE WritesFreeRecords
    BY <1>1, EndedRecords DEF Enqueue, TypeInv, RowsOK, JobRows
  <1>2. ASSUME NEW j \in Jobs, NEW st, NEW d, Cancel(j, st, d) PROVE WritesFreeRecords
    <2>1. \A k \in Jobs : domain'[k] # domain[k] => job'[k].status = "cancelled"
      BY <1>2, RowFields DEF Cancel, TypeInv, RowsOK, JobRows
    <2> QED
      BY <2>1, EndedRecords
  <1>3. ASSUME NEW j \in Jobs, CancelNow(j) PROVE WritesFreeRecords
    BY <1>2, <1>3 DEF CancelNow
  <1>4. ASSUME NEW c \in Clients, NEW j \in Jobs, CancelRead(c, j) PROVE WritesFreeRecords
    BY <1>4, SameRecords DEF CancelRead
  <1>5. ASSUME NEW c \in Clients, CancelWrite(c) PROVE WritesFreeRecords
    <2>1. call[c].job \in Jobs
      BY <1>5 DEF CancelWrite, TypeInv, GoodCalls
    <2> QED
      BY <1>2, <1>5, <2>1 DEF CancelWrite
  <1>6. ASSUME NEW j \in Jobs, Requeue(j) PROVE WritesFreeRecords
    BY <1>6, EndedRecords, RowFields DEF Requeue, TypeInv, RowsOK, JobRows
  <1> QED
    BY <1>1, <1>3, <1>4, <1>5, <1>6 DEF Request

LEMMA RequestForward == ASSUME TypeInv, Request PROVE Forward
  <1>1. UNCHANGED exec
    BY DEF Request, Enqueue, CancelNow, CancelRead, CancelWrite, Requeue
  <1> QED
    BY <1>1, SameForward

LEMMA ExecuteForward ==
  ASSUME TypeInv, NEW s \in Slots,
         \/ StartCancelled(s) \/ HandlerEnter(s) \/ SeeCancel(s) \/ HandlerReturn(s)
         \/ FindingRun(s) \/ LoseLease(s)
  PROVE  Forward
  <1>1. CASE StartCancelled(s)
    BY <1>1, MovedForward DEF StartCancelled, StageOf
  <1>2. CASE HandlerEnter(s)
    BY <1>2, MovedForward DEF HandlerEnter, StageOf
  <1>3. CASE SeeCancel(s)
    <2>1. \A o \in Slots \ {s} : exec'[o] = exec[o]
      BY <1>3 DEF SeeCancel, TypeInv
    <2>2. exec'[s].pc \in {"working", "cancelling"}
      BY <1>3 DEF SeeCancel, TypeInv, GoodSlots, SlotStates
    <2>3. StageOf(exec'[s].pc) >= StageOf(exec[s].pc)
      BY <1>3, <2>2 DEF SeeCancel, StageOf
    <2> QED
      BY <2>1, <2>3, OneForward
  <1>4. CASE HandlerReturn(s)
    <2>1. exec'[s].pc = "returned" /\ \A o \in Slots \ {s} : exec'[o] = exec[o]
      BY <1>4 DEF HandlerReturn, TypeInv, GoodSlots, SlotStates
    <2>2. StageOf(exec'[s].pc) >= StageOf(exec[s].pc)
      BY <1>4, <2>1 DEF HandlerReturn, StageOf
    <2> QED
      BY <2>1, <2>2, OneForward
  <1>5. CASE FindingRun(s) \/ LoseLease(s)
    BY <1>5, ReleasedForward DEF FindingRun, LoseLease
  <1> QED
    BY <1>1, <1>2, <1>3, <1>4, <1>5

LEMMA SettleForward == ASSUME TypeInv, NEW s \in Slots, Settle(s) \/ Mishap(s) PROVE Forward
  <1>1. CASE HandlerRaise(s) \/ Shutdown(s) \/ PersistLocked(s) \/ PersistCheck(s)
    BY <1>1, MovedForward DEF HandlerRaise, Shutdown, PersistLocked, PersistCheck, StageOf
  <1>2. CASE TerminalizeCancelled(s) \/ TerminalizeFailed(s) \/ TerminalizeInterrupted(s)
    BY <1>2, ReleasedForward
       DEF TerminalizeCancelled, TerminalizeFailed, TerminalizeInterrupted, Terminalize
  <1>3. CASE \/ PersistFollowups(s) \/ PersistWrite(s) \/ PersistStale(s) \/ TerminalizeStale(s)
             \/ FollowupsFail(s) \/ TerminalizeLocked(s)
    BY <1>3, ReleasedForward
       DEF PersistFollowups, PersistWrite, PersistStale, TerminalizeStale, FollowupsFail,
           TerminalizeLocked
  <1> QED
    BY <1>1, <1>2, <1>3 DEF Settle, Mishap

LEMMA WorkerForward ==
  ASSUME TypeInv, NEW w \in Workers,
         Recover(w) \/ RecoverAbort(w) \/ Restart(w) \/ Crash(w)
  PROVE  Forward
  <1>1. CASE Crash(w)
    BY <1>1, StageType DEF Crash, Forward, Idle, TypeInv
  <1>2. CASE Recover(w) \/ RecoverAbort(w) \/ Restart(w)
    <2>1. UNCHANGED exec
      BY <1>2 DEF Recover, RecoverStamp, RecoverRead, RecoverError, RecoverCommit, RecoverAbort,
                  Restart
    <2> QED
      BY <2>1, SameForward
  <1> QED
    BY <1>1, <1>2

LEMMA ExecuteMaps ==
  ASSUME TypeInv, NEW s \in Slots, Execute(s)
  PROVE  Lease!Next \/ (WritesFreeRecords /\ Forward)
  <1> USE QueueAssumption
  <1>1. exec[s].pc # "idle" => TypeHeld(s) \in JobTypes
    BY HeldIsJob, RowFields DEF TypeInv, TypeHeld
  <1>2. CASE HandlerStart(s)
    <2>1. PICK d \in StartStatuses(TypeHeld(s)) :
            /\ domain' = [domain EXCEPT ![Held(s)] = d]
            /\ Goto(s, IF d = "waiting_for_projections" THEN "failing" ELSE "working")
      BY <1>2 DEF HandlerStart
    <2>2. d \in DomainStatuses
      BY <1>1, <1>2, HandlerStatuses DEF HandlerStart
    <2>3. exec' = [exec EXCEPT
                     ![s].pc = IF d = "waiting_for_projections" THEN "failing" ELSE "working",
                     ![s].outcome = exec[s].outcome]
      BY <2>1 DEF Goto, TypeInv, GoodSlots, SlotStates
    <2>4. StageOf(IF d = "waiting_for_projections" THEN "failing" ELSE "working")
            > StageOf(exec[s].pc)
      BY <1>2 DEF HandlerStart, StageOf
    <2> QED
      BY <1>2, <2>1, <2>2, <2>3, <2>4, FencedCommit DEF HandlerStart
  <1>3. CASE HandlerEnd(s)
    <2>1. PICK d \in EndStatuses(TypeHeld(s)) :
            /\ domain' = [domain EXCEPT ![Held(s)] = d]
            /\ exec' = [exec EXCEPT ![s].pc = Ended(TypeHeld(s), d).pc,
                                    ![s].outcome = Ended(TypeHeld(s), d).outcome]
      BY <1>3 DEF HandlerEnd
    <2>2. d \in DomainStatuses
      BY <1>1, <1>3, HandlerStatuses DEF HandlerEnd
    <2>3. StageOf(Ended(TypeHeld(s), d).pc) > StageOf(exec[s].pc)
      <3>1. Ended(TypeHeld(s), d).pc \in {"returned", "cancelling", "failing"}
        BY DEF Ended
      <3> QED
        BY <1>3, <3>1 DEF HandlerEnd, StageOf
    <2> QED
      BY <1>3, <2>1, <2>2, <2>3, FencedCommit DEF HandlerEnd
  <1>4. CASE FindingRun(s)
    <2>1. Held(s) \in Jobs
      BY <1>4 DEF FindingRun, Owns
    <2>2. job'[Held(s)].status = "completed"
      BY <1>4, <2>1, RowKept DEF FindingRun, TypeInv, RowsOK, Terminal
    <2> QED
      BY <1>4, <2>2, EndedRecords, ExecuteForward DEF FindingRun, TypeInv, RowsOK
  <1>5. CASE \/ StartCancelled(s) \/ HandlerEnter(s) \/ SeeCancel(s) \/ HandlerReturn(s)
             \/ LoseLease(s)
    BY <1>5, SameRecords, ExecuteForward
       DEF StartCancelled, HandlerEnter, SeeCancel, HandlerReturn, LoseLease
  <1> QED
    BY <1>2, <1>3, <1>4, <1>5 DEF Execute

LEMMA SettleWrites ==
  ASSUME TypeInv, NEW s \in Slots, Settle(s) \/ Mishap(s)
  PROVE  WritesFreeRecords
  <1>1. ASSUME NEW st \in Terminal, Owns(s), NEW d,
               domain' = [domain EXCEPT ![Held(s)] = d],
               job' = [job EXCEPT ![Held(s)] = Settled(@, st)]
        PROVE  WritesFreeRecords
    <2>1. Held(s) \in Jobs
      BY <1>1 DEF Owns
    <2>2. job'[Held(s)].status # "running"
      BY <1>1, <2>1, RowKept DEF TypeInv, RowsOK
    <2> QED
      BY <1>1, <2>2, EndedRecords DEF TypeInv, RowsOK
  <1>2. CASE TerminalizeCancelled(s)
    BY <1>1, <1>2 DEF TerminalizeCancelled, Terminalize, Terminal
  <1>3. CASE TerminalizeFailed(s)
    BY <1>1, <1>3 DEF TerminalizeFailed, Terminalize, Terminal
  <1>4. CASE TerminalizeInterrupted(s)
    BY <1>1, <1>4 DEF TerminalizeInterrupted, Terminalize, Terminal
  <1>5. CASE \/ PersistFollowups(s) \/ PersistCheck(s) \/ PersistWrite(s) \/ PersistStale(s)
             \/ TerminalizeStale(s) \/ Mishap(s)
    BY <1>5, SameRecords
       DEF PersistFollowups, PersistCheck, PersistWrite, PersistStale, TerminalizeStale, Mishap,
           HandlerRaise, Shutdown, FollowupsFail, PersistLocked, TerminalizeLocked
  <1> QED
    BY <1>2, <1>3, <1>4, <1>5 DEF Settle

LEMMA WorkerWrites ==
  ASSUME TypeInv, TypeInv', TokenInv, NEW w \in Workers,
         Recover(w) \/ RecoverAbort(w) \/ Restart(w) \/ Crash(w)
  PROVE  WritesFreeRecords
  <1>1. CASE RecoverAbort(w) \/ Restart(w) \/ Crash(w)
    BY <1>1, SameRecords DEF RecoverAbort, Restart, Crash
  <1>2. ASSUME NEW j \in Jobs, RecoverRead(w, j) \/ RecoverError(w, j)
        PROVE  WritesFreeRecords
    BY <1>2, SameRecords DEF RecoverRead, RecoverError
  <1>3. CASE RecoverCommit(w)
    <2> DEFINE plan == pass[w].plan
    <2>1. ASSUME NEW j \in Jobs, domain'[j] # domain[j] PROVE job'[j].status # "running"
      <3>1. plan[j] # NoPlan
        BY <1>3, <2>1 DEF RecoverCommit, TypeInv, RowsOK
      <3>2. plan[j].status \in Terminal
        BY <3>1 DEF TypeInv, GoodPasses
      <3>3. job'[j] = IF plan[j].status = "interrupted"
                      THEN [job[j] EXCEPT !.status = "interrupted"]
                      ELSE Settled(job[j], plan[j].status)
        BY <1>3, <3>1 DEF RecoverCommit
      <3>4. CASE plan[j].status = "interrupted"
        BY <3>3, <3>4, RowFields DEF TypeInv, JobRows
      <3>5. CASE plan[j].status # "interrupted"
        BY <3>2, <3>3, <3>5, RowKept
      <3> QED
        BY <3>4, <3>5
    <2> QED
      BY <2>1, EndedRecords
  <1>4. CASE RecoverStamp(w)
    <2>1. ASSUME NEW j \in Jobs, domain'[j] # domain[j] PROVE job'[j].status = "interrupted"
      <3>1. PICK first \in SUBSET {k \in Expired : ~Reconcilable(k)}, last \in SUBSET Expired :
              /\ job' = [k \in Jobs |->
                    CASE k \in first -> [Stamped(job[k]) EXCEPT !.status = "interrupted"]
                      [] k \in last  -> Settled(Stamped(job[k]), Planned(k).status)
                      [] k \in Expired \ (first \cup last) -> Stamped(job[k])
                      [] OTHER      -> job[k]]
              /\ domain' = [k \in Jobs |-> IF k \in first THEN Planned(k).domain ELSE domain[k]]
              /\ last \subseteq {k \in Expired : Reconcilable(k)}
        BY <1>4 DEF RecoverStamp
      <3>2. j \in first /\ j \notin last
        BY <2>1, <3>1
      <3>3. job'[j] = [Stamped(job[j]) EXCEPT !.status = "interrupted"]
        BY <3>1, <3>2
      <3> QED
        BY <3>3, RowFields DEF TypeInv, Stamped, JobRows
    <2> QED
      BY <2>1, EndedRecords
  <1> QED
    BY <1>1, <1>2, <1>3, <1>4 DEF Recover

-----------------------------------------------------------------------------
\* A claim takes a lease that nobody holds: the row was queued, and the slot had no token.
LEMMA ClaimTakes ==
  ASSUME TypeInv, TokenInv, NEW s \in Slots, ClaimWon(s)
  PROVE  Lease!Next
  <1> DEFINE j == Held(s)
  <1>1. j \in Jobs /\ exec[s].pc = "claiming" /\ job[j].status = "queued"
    BY HeldIsJob DEF ClaimWon, StillQueued
  <1>2. /\ exec'[s].job = j
        /\ exec'[s].token = nextToken
        /\ \A o \in Slots \ {s} : exec'[o] = exec[o]
        /\ job'[j].status = "running"
        /\ job'[j].token = nextToken
        /\ \A k \in Jobs \ {j} : job'[k] = job[k]
    <2>1. exec[s] \in SlotStates /\ job[j] \in JobRows
      BY <1>1 DEF TypeInv, GoodSlots, RowsOK
    <2>2. exec' = [exec EXCEPT ![s].pc = "claimed", ![s].token = nextToken]
      BY DEF ClaimWon
    <2>3. exec'[s].job = j /\ exec'[s].token = nextToken
      BY <2>1, <2>2 DEF TypeInv, SlotStates, Held
    <2>4. job' = [job EXCEPT ![j] = Leased(job[j])]
      BY DEF ClaimWon
    <2>5. job'[j] = Leased(job[j]) /\ \A k \in Jobs \ {j} : job'[k] = job[k]
      BY <1>1, <2>4 DEF TypeInv, RowsOK
    <2>6. job'[j].status = "running" /\ job'[j].token = nextToken
      BY <2>1, <2>5 DEF Leased, JobRows
    <2> QED
      BY <2>3, <2>5, <2>6, ClaimTokens
  <1>3. \A o \in Slots : exec[o].token # nextToken
    BY TokenTypes DEF TokenInv
  <1>4. ASSUME NEW o \in Slots, NEW k \in Jobs, <<o, k>> \in Holdings PROVE o # s /\ k # j
    BY <1>1, <1>4, HoldingsOwn DEF Owns
  <1>5. ASSUME NEW o \in Slots, NEW k \in Jobs
        PROVE  <<o, k>> \in Holdings' <=> <<o, k>> \in Holdings \/ (o = s /\ k = j)
    <2>1. CASE o = s
      BY <1>1, <1>2, <1>4, <2>1, HoldingsOwn, HoldingsOwnNext
    <2>2. CASE o # s /\ k = j
      BY <1>2, <1>3, <1>4, <2>2, HoldingsOwnNext
    <2>3. CASE o # s /\ k # j
      BY <1>2, <2>3, HoldingsOwn, HoldingsOwnNext DEF Owns, Held
    <2> QED
      BY <2>1, <2>2, <2>3
  <1>6. Holdings' = Holdings \cup {<<s, j>>}
    BY <1>1, <1>5 DEF Holdings
  <1>7. UNCHANGED domain
    BY DEF ClaimWon
  <1>8. StageOf(exec[s].pc) = 0 /\ \A o \in Slots : StageOf(exec'[o].pc) = StageOf(exec[o].pc)
    <2>1. exec'[s].pc = "claimed"
      BY DEF ClaimWon, TypeInv, GoodSlots, SlotStates
    <2> QED
      BY <1>1, <1>2, <2>1 DEF StageOf
  <1> HIDE DEF j
  <1> QED
    BY <1>1, <1>4, <1>6, <1>7, <1>8, TakingStep

\* A pass stamps rows with a token no execution has.
LEMMA StampShrinks ==
  ASSUME TypeInv, TokenInv, NEW w \in Workers, RecoverStamp(w)
  PROVE  Holdings' \subseteq Holdings
  <1> SUFFICES ASSUME NEW s \in Slots, NEW j \in Jobs, <<s, j>> \in Holdings'
               PROVE  <<s, j>> \in Holdings
    BY DEF Holdings
  <1>1. job'[j].token # nextToken
    BY RecoveryTokens, TokenTypes, HoldingsOwnNext DEF TokenInv
  <1>2. job'[j] = job[j] /\ exec' = exec
    BY <1>1, RecoveryTokens
  <1> QED
    BY <1>2, HoldingsOwn, HoldingsOwnNext DEF Owns, Held

LEMMA StepRefines ==
  ASSUME TypeInv, TypeInv', TokenInv, [Next]_vars
  PROVE  [Lease!Next]_Lease!vars
  <1>1. SingleOwner
    BY TokenInvOwner
  <1>2. CASE UNCHANGED vars
    BY <1>2 DEF vars, Lease!vars, Holdings, Owns, Held
  <1>3. ASSUME Quiet, WritesFreeRecords, Forward PROVE Lease!Next
    BY <1>1, <1>3, QuietShrinks, ShrinkingStep
  <1>4. CASE Request
    BY <1>3, <1>4, RequestQuiet, RequestWrites, RequestForward
  <1>5. ASSUME NEW j \in Jobs, LeaseExpires(j) PROVE Lease!Next
    BY <1>3, <1>5, LeaseQuiet, SameRecords, SameForward DEF LeaseExpires
  <1>6. ASSUME NEW s \in Slots, Claim(s) \/ Heartbeat(s) PROVE Lease!Next
    <2>1. CASE ClaimWon(s)
      BY <2>1, ClaimTakes
    <2>2. CASE ClaimLost(s)
      BY <1>3, <2>2, LeaseQuiet, SameRecords, ReleasedForward DEF ClaimLost
    <2>3. CASE Heartbeat(s)
      BY <1>3, <2>3, LeaseQuiet, SameRecords, SameForward DEF Heartbeat
    <2>4. ASSUME NEW j \in Jobs, ClaimRead(s, j) PROVE Lease!Next
      <3>1. exec'[s].pc = "claiming" /\ \A o \in Slots \ {s} : exec'[o] = exec[o]
        BY <2>4 DEF ClaimRead, TypeInv, Idle
      <3>2. Forward
        BY <2>4, <3>1, OneForward DEF ClaimRead, StageOf
      <3> QED
        BY <1>3, <2>4, <3>2, LeaseQuiet, SameRecords DEF ClaimRead
    <2> QED
      BY <1>6, <2>1, <2>2, <2>3, <2>4 DEF Claim
  <1>7. ASSUME NEW s \in Slots, Execute(s) PROVE Lease!Next
    BY <1>3, <1>7, ExecuteQuiet, ExecuteMaps
  <1>8. ASSUME NEW s \in Slots, Settle(s) \/ Mishap(s) PROVE Lease!Next
    BY <1>3, <1>8, SettleQuiet, SettleWrites, SettleForward
  <1>9. ASSUME NEW w \in Workers, Recover(w) \/ RecoverAbort(w) \/ Restart(w) \/ Crash(w)
        PROVE  Lease!Next
    <2>1. WritesFreeRecords
      BY <1>9, WorkerWrites
    <2>2. Holdings' \subseteq Holdings
      BY <1>9, WorkerQuiet, QuietShrinks, StampShrinks DEF Recover
    <2> QED
      BY <1>1, <1>9, <2>1, <2>2, WorkerForward, ShrinkingStep
  <1> QED
    BY <1>2, <1>4, <1>5, <1>6, <1>7, <1>8, <1>9 DEF Next

LEMMA InitRefines == Init => Lease!Init
  BY DEF Init, Idle, Lease!Init, Holdings, Owns, Held, DomainStatuses, StageOf

\* Every behaviour of the queue is one of JobLease: a held record is written by its holder
\* alone, as the handler starts and as it ends; whoever else writes it ends the holder's lease
\* in the same step.
THEOREM LeaseImplemented == Spec => ImplementsLease
  <1>1. TypeInv /\ TypeInv' /\ TokenInv /\ [Next]_vars => [Lease!Next]_Lease!vars
    BY StepRefines
  <1> QED
    BY <1>1, InitRefines, TypeInvariant, TokensFresh, PTL DEF Spec, ImplementsLease, Lease!Spec

-----------------------------------------------------------------------------
(***************************************************************************)
(* Jobs and their records: no job ends and leaves its record active; and,  *)
(* as long as no cancellation is overtaken, a job's outcome agrees with    *)
(* its record, what must follow it has been created, its record is not     *)
(* touched again, and its status moves as LEGAL_TRANSITIONS has it.        *)
(*                                                                         *)
(* First what a step does to a row with its record, to a slot, to a pass   *)
(* and to a request, whatever action it is; the invariants are then kept   *)
(* case by case of these, not action by action.                            *)
(***************************************************************************)

\* An execution that has won its claim.
Past(s) == exec[s].pc \notin {"idle", "claiming"}

-----------------------------------------------------------------------------
(***************************************************************************)
(* What a step may do to an execution, a recovery pass and a request.      *)
(***************************************************************************)

SameHold(s) == exec'[s].job = exec[s].job /\ exec'[s].token = exec[s].token

Looks(s) ==
  /\ exec'[s].pc = "claiming"
  /\ exec'[s].job \in Jobs
  /\ job[exec'[s].job].status = "queued"
  /\ UNCHANGED job

Wins(s) ==
  /\ exec[s].pc = "claiming"
  /\ exec'[s].pc = "claimed"
  /\ exec'[s].job = exec[s].job
  /\ job[Held(s)].status = "queued"
  /\ job'[Held(s)].status = "running"
  /\ domain'[Held(s)] = domain[Held(s)]
  /\ \A o \in Slots \ {s} : exec'[o] = exec[o]

Moves(s) ==
  /\ SameHold(s)
  /\ UNCHANGED <<job, domain>>
  /\ \/ /\ exec[s].pc \in {"claimed", "working"}
        /\ exec'[s].pc \in {"working", "cancelling", "failing", "interrupting"}
     \/ exec[s].pc = "persisting" /\ exec'[s].pc = "failing"
     \/ /\ exec[s].pc = "returned"
        /\ exec'[s].pc = "persisting"
        /\ exec'[s].outcome = exec[s].outcome
        /\ FollowupsDue(TypeHeld(s), domain[Held(s)]) => staged'[Held(s)]
     \/ /\ TypeHeld(s) = "structured_content_build"
        /\ exec[s].pc = "working"
        /\ exec'[s].pc = "returned"

Starts(s) ==
  /\ SameHold(s)
  /\ Owns(s)
  /\ exec[s].pc = "claimed"
  /\ exec'[s].pc \in {"working", "failing"}
  /\ job'[Held(s)].status = "running"
  /\ domain'[Held(s)] \in StartStatuses(TypeHeld(s))

Finishes(s) ==
  /\ SameHold(s)
  /\ Owns(s)
  /\ exec[s].pc = "working"
  /\ job'[Held(s)].status = "running"
  /\ \E d \in EndStatuses(TypeHeld(s)) :
       /\ domain'[Held(s)] = d
       /\ exec'[s].pc = Ended(TypeHeld(s), d).pc
       /\ exec'[s].outcome = Ended(TypeHeld(s), d).outcome

SlotStep(s) ==
  exec'[s] = exec[s] \/ exec'[s] = Idle
  \/ Looks(s) \/ Wins(s) \/ Moves(s) \/ Starts(s) \/ Finishes(s)

Forgets(w) ==
  /\ pass'[w].todo \subseteq pass[w].todo
  /\ \A j \in Jobs : pass'[w].plan[j] \in {pass[w].plan[j], NoPlan}

Stamps(w) ==
  /\ \A j \in Jobs : pass'[w].plan[j] = NoPlan
  /\ \A j \in pass'[w].todo : /\ job[j].status = "running"
                              /\ job'[j].status = "running"
                              /\ job'[j].token = nextToken

PlansOne(w) ==
  /\ UNCHANGED <<job, domain, staged, exec>>
  /\ pass'[w].todo \subseteq pass[w].todo
  /\ \E k \in pass[w].todo :
       /\ Planned(k).status \in LegalTransitions[job[k].status]
       /\ pass'[w].plan[k] = Planned(k)
       /\ \A j \in Jobs \ {k} : pass'[w].plan[j] = pass[w].plan[j]

PassStep(w) == Forgets(w) \/ Stamps(w) \/ PlansOne(w)

Reads(c) ==
  /\ UNCHANGED <<job, domain>>
  /\ \E j \in Jobs :
       /\ job[j].type \in Cancellable
       /\ job[j].status \in Active
       /\ call'[c] = [job |-> j, status |-> job[j].status, domain |-> domain[j]]

CallStep(c) == call'[c] \in {call[c], NoCall} \/ Reads(c)

-----------------------------------------------------------------------------
(***************************************************************************)
(* What a step may do to the row of a job and to its record.               *)
(***************************************************************************)

Keeps(j) ==
  /\ job'[j].status = job[j].status
  /\ domain'[j] = domain[j]
  /\ job[j].status # "running" => job'[j].token = job[j].token
  /\ job'[j].lease = "none" => job[j].lease = "none"

Begins(j) ==
  /\ job[j].status = "absent"
  /\ job'[j].status = "queued"
  /\ job'[j].token = job[j].token
  /\ domain'[j] = Initial(job[j].type)

BeginsAgain(j) ==
  /\ job[j].type = "finding_evaluation"
  /\ job'[j].status = "queued"
  /\ job[j].status \in Terminal
  /\ job'[j].token = 0
  /\ domain'[j] = "queued"

IsClaimed(j) ==
  /\ job[j].status = "queued"
  /\ job'[j].status = "running"
  /\ job'[j].lease = "live"
  /\ domain'[j] = domain[j]

\* The holder's commits as its handler starts and ends.
Works(j) ==
  /\ job[j].status = "running"
  /\ job'[j].status = "running"
  /\ job'[j].lease = "live"
  /\ \E s \in Slots : Held(s) = j /\ (Starts(s) \/ Finishes(s))

\* A queued job is cancelled, or one that was queued when a request read it.
EndsQueued(j) ==
  /\ job[j].status = "queued"
  /\ job'[j].status = "cancelled"
  /\ job'[j].token = job[j].token
  /\ domain'[j] = Move(QueuedCancelFrom(job[j].type), "cancelled", domain[j])

EndsRequested(j) ==
  /\ job'[j].status = "cancelled"
  /\ job'[j].token = job[j].token
  /\ \E c \in Clients :
       /\ CancelWrite(c)
       /\ call[c].job = j
       /\ call[c].status = "queued"
       /\ \E d \in {call[c].domain} \cup Latest(j) :
            domain'[j] = IF d \in QueuedCancelFrom(job[j].type) THEN "cancelled" ELSE domain[j]

\* The holder settles its job.
EndsHeld(j) ==
  \E s \in Slots :
    /\ Owns(s)
    /\ Held(s) = j
    /\ \/ /\ exec[s].pc = "returned"
          /\ job'[j].status = exec[s].outcome
          /\ domain'[j] = domain[j]
          /\ staged'[j]
       \/ /\ exec[s].pc = "cancelling"
          /\ job'[j].status = "cancelled"
          /\ domain'[j] = Cancelled(job[j].type, domain[j])
          /\ StagesFollowups(job[j].type, "cancelled") => staged'[j]
       \/ /\ exec[s].pc = "failing"
          /\ job'[j].status = "failed"
          /\ domain'[j] = Failed(job[j].type, domain[j])
          /\ StagesFollowups(job[j].type, "failed") => staged'[j]
       \/ /\ exec[s].pc = "interrupting"
          /\ job'[j].status = "interrupted"
          /\ domain'[j] = Interrupted(job[j].type, domain[j], "worker_shutdown")
          /\ StagesFollowups(job[j].type, "worker_shutdown") => staged'[j]
       \/ /\ job[j].type = "finding_evaluation"
          /\ exec[s].pc = "working"
          /\ job'[j].status = "completed"
          /\ domain'[j] = "completed"

\* The last write of an execution, which is not fenced.
EndsLate(j) ==
  \E s \in Slots :
    /\ exec[s].pc = "persisting"
    /\ Held(s) = j
    /\ job'[j].status = exec[s].outcome
    /\ domain'[j] = domain[j]

\* What a pass plans for a job, or has planned for it, is written.
EndsAs(j, plan) ==
  /\ job'[j].status = plan.status
  /\ domain'[j] = plan.domain
  /\ StagedBy(j, plan) => staged'[j]

EndsRecovered(j) ==
  \/ /\ job[j].status = "running"
     /\ EndsAs(j, Planned(j))
     /\ job'[j].lease = "none" => job[j].lease = "none" \/ Reconcilable(j)
  \/ \E w \in Workers :
       /\ pass[w].plan[j] # NoPlan
       /\ EndsAs(j, pass[w].plan[j])
       /\ job'[j].lease = "none" =>
            job[j].lease = "none" \/ pass[w].plan[j].status # "interrupted"

RowStep(j) ==
  /\ job'[j].type = job[j].type
  /\ staged[j] => staged'[j]
  /\ \/ Keeps(j) \/ Begins(j) \/ BeginsAgain(j) \/ IsClaimed(j) \/ Works(j)
     \/ EndsQueued(j) \/ EndsRequested(j) \/ EndsHeld(j) \/ EndsLate(j) \/ EndsRecovered(j)

StepOK ==
  /\ \A j \in Jobs : RowStep(j)
  /\ \A s \in Slots : SlotStep(s)
  /\ \A w \in Workers : PassStep(w)
  /\ \A c \in Clients : CallStep(c)

-----------------------------------------------------------------------------
\* Steps that leave the rows, or all rows but one, as they are; the same of slots.
LEMMA SameRowSteps ==
  ASSUME UNCHANGED <<job, domain>>, \A j \in Jobs : staged[j] => staged'[j]
  PROVE  \A j \in Jobs : RowStep(j)
  BY DEF RowStep, Keeps

LEMMA OneRowStep ==
  ASSUME TypeInv, NEW j \in Jobs, NEW row, NEW d, NEW b,
         job' = [job EXCEPT ![j] = row],
         domain' = [domain EXCEPT ![j] = d],
         staged' = [staged EXCEPT ![j] = b],
         RowStep(j)
  PROVE  \A k \in Jobs : RowStep(k)
  <1>1. ASSUME NEW k \in Jobs \ {j} PROVE RowStep(k)
    <2>1. job'[k] = job[k] /\ domain'[k] = domain[k] /\ staged'[k] = staged[k]
      BY <1>1 DEF TypeInv, RowsOK
    <2> QED
      BY <2>1 DEF RowStep, Keeps
  <1> QED
    BY <1>1

LEMMA SameSlotSteps ==
  ASSUME UNCHANGED exec
  PROVE  \A s \in Slots : SlotStep(s)
  BY DEF SlotStep

LEMMA OneSlotStep ==
  ASSUME TypeInv, NEW s \in Slots, NEW e, exec' = [exec EXCEPT ![s] = e], SlotStep(s)
  PROVE  \A o \in Slots : SlotStep(o)
  BY DEF SlotStep, TypeInv

LEMMA ReleaseSteps ==
  ASSUME TypeInv, NEW s \in Slots, Release(s)
  PROVE  \A o \in Slots : SlotStep(o)
  BY DEF SlotStep, Release, TypeInv

LEMMA SamePassSteps ==
  ASSUME UNCHANGED pass
  PROVE  \A w \in Workers : PassStep(w)
  BY DEF PassStep, Forgets

LEMMA SameCallSteps ==
  ASSUME UNCHANGED call
  PROVE  \A c \in Clients : CallStep(c)
  BY DEF CallStep

\* A pass is dropped.
LEMMA NoPassStep ==
  ASSUME TypeInv, NEW w \in Workers, NEW p, pass' = [pass EXCEPT ![w] = p],
         p.todo = {}, p.plan = NoPass.plan
  PROVE  \A v \in Workers : PassStep(v)
  <1>1. pass'[w] = p /\ \A v \in Workers \ {w} : pass'[v] = pass[v]
    BY DEF TypeInv
  <1>2. Forgets(w)
    BY <1>1 DEF Forgets, NoPass
  <1> QED
    BY <1>1, <1>2 DEF PassStep, Forgets

-----------------------------------------------------------------------------
\* Every action is such a step.
LEMMA CancelRow ==
  ASSUME TypeInv, NEW j \in Jobs, NEW st, NEW d, Cancel(j, st, d), UNCHANGED staged
  PROVE  /\ \A k \in Jobs \ {j} : RowStep(k)
         /\ st # "queued" => RowStep(j)
         /\ job'[j].type = job[j].type /\ (staged[j] => staged'[j])
         /\ st = "queued" =>
              /\ job'[j].status = "cancelled"
              /\ job'[j].token = job[j].token
              /\ domain'[j] = IF d \in QueuedCancelFrom(job[j].type) THEN "cancelled" ELSE domain[j]
  <1> DEFINE row == [job[j] EXCEPT !.cancel = TRUE,
                                   !.status = IF st = "queued" THEN "cancelled" ELSE @]
             rec == IF st = "queued" /\ d \in QueuedCancelFrom(job[j].type) THEN "cancelled" ELSE domain[j]
  <1>1. job' = [job EXCEPT ![j] = row] /\ domain' = [domain EXCEPT ![j] = rec]
    BY DEF Cancel, TypeInv, RowsOK
  <1>2. /\ row.type = job[j].type /\ row.token = job[j].token /\ row.lease = job[j].lease
        /\ row.status = IF st = "queued" THEN "cancelled" ELSE job[j].status
    BY RowFields DEF TypeInv, JobRows
  <1> HIDE DEF row
  <1>3. job'[j] = row /\ domain'[j] = rec
    BY <1>1 DEF TypeInv, RowsOK
  <1>4. ASSUME NEW k \in Jobs \ {j} PROVE RowStep(k)
    BY <1>1 DEF TypeInv, RowsOK, RowStep, Keeps
  <1> QED
    BY <1>2, <1>3, <1>4 DEF RowStep, Keeps

LEMMA RequestSteps == ASSUME TypeInv, Request PROVE StepOK
  <1> USE DEF StepOK
  <1>1. ASSUME NEW j \in Jobs, Enqueue(j) PROVE StepOK
    <2>1. \A k \in Jobs : RowStep(k)
      BY <1>1, RowFields DEF Enqueue, RowStep, Keeps, Begins, TypeInv, RowsOK, JobRows
    <2> QED
      BY <1>1, <2>1, SameSlotSteps, SamePassSteps, SameCallSteps DEF Enqueue
  <1>2. ASSUME NEW j \in Jobs, CancelNow(j) PROVE StepOK
    <2>1. RowStep(j)
      BY <1>2, CancelRow DEF CancelNow, RowStep, EndsQueued, Move
    <2>2. \A k \in Jobs : RowStep(k)
      BY <1>2, <2>1, CancelRow DEF CancelNow
    <2> QED
      BY <1>2, <2>2, SameSlotSteps, SamePassSteps, SameCallSteps DEF CancelNow
  <1>3. ASSUME NEW c \in Clients, NEW j \in Jobs, CancelRead(c, j) PROVE StepOK
    <2>1. \A k \in Clients : CallStep(k)
      BY <1>3 DEF CancelRead, CallStep, Reads, TypeInv
    <2> QED
      BY <1>3, <2>1, SameRowSteps, SameSlotSteps, SamePassSteps DEF CancelRead
  <1>4. ASSUME NEW c \in Clients, CancelWrite(c) PROVE StepOK
    <2> DEFINE j == call[c].job
    <2>1. j \in Jobs /\ call[c] # NoCall
      BY <1>4 DEF CancelWrite, TypeInv, GoodCalls
    <2>2. PICK d \in {call[c].domain} \cup Latest(j) : Cancel(j, call[c].status, d)
      BY <1>4 DEF CancelWrite
    <2> HIDE DEF j
    <2>3. UNCHANGED <<staged, exec, pass>> /\ call' = [call EXCEPT ![c] = NoCall]
      BY <1>4 DEF CancelWrite
    <2>4. RowStep(j)
      <3>1. CASE call[c].status # "queued"
        BY <2>1, <2>2, <2>3, <3>1, CancelRow
      <3>2. CASE call[c].status = "queued"
        <4>1. /\ job'[j].type = job[j].type /\ (staged[j] => staged'[j])
              /\ job'[j].status = "cancelled" /\ job'[j].token = job[j].token
              /\ domain'[j] = IF d \in QueuedCancelFrom(job[j].type) THEN "cancelled" ELSE domain[j]
          BY <2>1, <2>2, <2>3, <3>2, CancelRow
        <4>2. EndsRequested(j)
          BY <1>4, <2>2, <3>2, <4>1 DEF EndsRequested, j
        <4> QED
          BY <4>1, <4>2 DEF RowStep
      <3> QED
        BY <3>1, <3>2
    <2>5. \A k \in Jobs : RowStep(k)
      BY <2>1, <2>2, <2>3, <2>4, CancelRow
    <2>6. \A k \in Clients : CallStep(k)
      BY <2>3 DEF CallStep, TypeInv
    <2> QED
      BY <2>3, <2>5, <2>6, SameSlotSteps, SamePassSteps
  <1>5. ASSUME NEW j \in Jobs, Requeue(j) PROVE StepOK
    <2>1. \A k \in Jobs : RowStep(k)
      BY <1>5, RowFields
         DEF Requeue, RowStep, Keeps, BeginsAgain, TypeInv, RowsOK, JobRows, Terminal
    <2> QED
      BY <1>5, <2>1, SameSlotSteps, SamePassSteps, SameCallSteps DEF Requeue
  <1> QED
    BY <1>1, <1>2, <1>3, <1>4, <1>5 DEF Request

LEMMA LeaseSteps ==
  ASSUME TypeInv, (\E j \in Jobs : LeaseExpires(j)) \/ (\E s \in Slots : Claim(s) \/ Heartbeat(s))
  PROVE  StepOK
  <1> USE DEF StepOK
  <1>1. ASSUME NEW j \in Jobs, LeaseExpires(j) PROVE StepOK
    <2>1. \A k \in Jobs : RowStep(k)
      BY <1>1, RowFields DEF LeaseExpires, RowStep, Keeps, TypeInv, RowsOK, JobRows
    <2> QED
      BY <1>1, <2>1, SameSlotSteps, SamePassSteps, SameCallSteps DEF LeaseExpires
  <1>2. ASSUME NEW s \in Slots, Heartbeat(s) PROVE StepOK
    <2>1. \A k \in Jobs : RowStep(k)
      BY <1>2, RowFields DEF Heartbeat, Owns, Renewed, RowStep, Keeps, TypeInv, RowsOK, JobRows
    <2> QED
      BY <1>2, <2>1, SameSlotSteps, SamePassSteps, SameCallSteps DEF Heartbeat
  <1>3. ASSUME NEW s \in Slots, NEW j \in Jobs, ClaimRead(s, j) PROVE StepOK
    <2>1. \A o \in Slots : SlotStep(o)
      BY <1>3 DEF ClaimRead, SlotStep, Looks, Idle, TypeInv
    <2> QED
      BY <1>3, <2>1, SameRowSteps, SamePassSteps, SameCallSteps DEF ClaimRead
  <1>4. ASSUME NEW s \in Slots, ClaimLost(s) PROVE StepOK
    BY <1>4, ReleaseSteps, SameRowSteps, SamePassSteps, SameCallSteps DEF ClaimLost
  <1>5. ASSUME NEW s \in Slots, ClaimWon(s) PROVE StepOK
    <2>1. Held(s) \in Jobs
      BY <1>5, HeldIsJob DEF ClaimWon
    <2>2. \A k \in Jobs : RowStep(k)
      BY <1>5, <2>1, RowFields
         DEF ClaimWon, StillQueued, Leased, RowStep, Keeps, IsClaimed, TypeInv, RowsOK, JobRows
    <2>3. exec' = [exec EXCEPT ![s] = [exec[s] EXCEPT !.pc = "claimed", !.token = nextToken]]
      BY <1>5 DEF ClaimWon, TypeInv
    <2>4. Wins(s)
      <3>1. exec'[s].pc = "claimed" /\ exec'[s].job = exec[s].job
        BY <2>3 DEF TypeInv, GoodSlots, SlotStates
      <3>2. job'[Held(s)].status = "running"
        BY <1>5, <2>1, RowFields DEF ClaimWon, Leased, TypeInv, RowsOK, JobRows
      <3> QED
        BY <1>5, <2>3, <3>1, <3>2 DEF ClaimWon, StillQueued, Wins, TypeInv
    <2>5. \A o \in Slots : SlotStep(o)
      BY <2>3, <2>4, OneSlotStep DEF SlotStep
    <2> QED
      BY <1>5, <2>2, <2>5, SamePassSteps, SameCallSteps DEF ClaimWon
  <1> QED
    BY <1>1, <1>2, <1>3, <1>4, <1>5 DEF Claim

\* A slot that moves on alone.
LEMMA GotoSteps ==
  ASSUME TypeInv, NEW s \in Slots, exec[s].pc # "idle", NEW phase, Goto(s, phase),
         UNCHANGED <<job, domain, staged, pass, call>>,
         \/ /\ exec[s].pc \in {"claimed", "working"}
            /\ phase \in {"working", "cancelling", "failing", "interrupting"}
         \/ exec[s].pc = "persisting" /\ phase = "failing"
  PROVE  StepOK
  <1>1. exec' = [exec EXCEPT ![s] = [exec[s] EXCEPT !.pc = phase]]
    BY DEF Goto
  <1>2. exec'[s].pc = phase /\ SameHold(s)
    BY <1>1 DEF TypeInv, GoodSlots, SlotStates, SameHold
  <1>3. SlotStep(s)
    BY <1>2 DEF SlotStep, Moves
  <1>4. \A o \in Slots : SlotStep(o)
    BY <1>1, <1>3, OneSlotStep
  <1> QED
    BY <1>4, SameRowSteps, SamePassSteps, SameCallSteps DEF StepOK

LEMMA ReleasedSteps ==
  ASSUME TypeInv, NEW s \in Slots, Release(s), UNCHANGED <<job, domain, staged, pass, call>>
  PROVE  StepOK
  BY ReleaseSteps, SameRowSteps, SamePassSteps, SameCallSteps DEF StepOK

LEMMA ExecuteSteps == ASSUME TypeInv, NEW s \in Slots, Execute(s) PROVE StepOK
  <1> USE DEF StepOK
  <1>0. ASSUME exec[s].pc # "idle" PROVE Held(s) \in Jobs /\ exec[s] \in GoodSlots
    BY <1>0, HeldIsJob
  <1>1. CASE StartCancelled(s)
    BY <1>1, GotoSteps DEF StartCancelled
  <1>2. CASE HandlerStart(s)
    <2>1. PICK d \in StartStatuses(TypeHeld(s)) :
            /\ domain' = [domain EXCEPT ![Held(s)] = d]
            /\ Goto(s, IF d = "waiting_for_projections" THEN "failing" ELSE "working")
      BY <1>2 DEF HandlerStart
    <2> DEFINE phase == IF d = "waiting_for_projections" THEN "failing" ELSE "working"
    <2>2. Held(s) \in Jobs /\ exec[s].pc = "claimed" /\ Owns(s)
      BY <1>0, <1>2 DEF HandlerStart
    <2>3. exec' = [exec EXCEPT ![s] = [exec[s] EXCEPT !.pc = phase]]
      BY <2>1 DEF Goto
    <2>4. exec'[s].pc = phase /\ SameHold(s) /\ domain'[Held(s)] = d
      BY <2>1, <2>2, <2>3 DEF TypeInv, RowsOK, GoodSlots, SlotStates, SameHold
    <2>5. Starts(s)
      <3>1. job'[Held(s)].status = "running"
        BY <1>2, <2>2, RowFields DEF HandlerStart, Owns, Renewed, TypeInv, RowsOK, JobRows
      <3> QED
        BY <2>2, <2>4, <3>1 DEF Starts
    <2>6. \A k \in Jobs : RowStep(k)
      <3>1. Works(Held(s)) /\ job'[Held(s)].type = job[Held(s)].type
        BY <1>2, <2>2, <2>5, RowFields
           DEF HandlerStart, Works, Owns, Renewed, TypeHeld, TypeInv, RowsOK, JobRows
      <3>2. ASSUME NEW k \in Jobs \ {Held(s)} PROVE RowStep(k)
        BY <1>2, <2>1, <3>2 DEF HandlerStart, TypeInv, RowsOK, RowStep, Keeps
      <3> QED
        BY <1>2, <3>1, <3>2 DEF HandlerStart, RowStep
    <2>7. \A o \in Slots : SlotStep(o)
      BY <2>3, <2>5, OneSlotStep DEF SlotStep
    <2> QED
      BY <1>2, <2>6, <2>7, SamePassSteps, SameCallSteps DEF HandlerStart
  <1>3. CASE HandlerEnter(s)
    BY <1>3, GotoSteps DEF HandlerEnter
  <1>4. CASE SeeCancel(s)
    <2> DEFINE pc == IF EndStatuses(TypeHeld(s)) = {} THEN "cancelling" ELSE exec[s].pc
    <2>1. exec' = [exec EXCEPT ![s] = [exec[s] EXCEPT !.seen = TRUE, !.pc = pc]]
      BY <1>4 DEF SeeCancel, TypeInv
    <2>2. exec'[s].pc = pc /\ SameHold(s)
      BY <2>1 DEF TypeInv, GoodSlots, SlotStates, SameHold
    <2>3. Moves(s)
      BY <1>4, <2>2 DEF SeeCancel, Moves
    <2>4. \A o \in Slots : SlotStep(o)
      BY <2>1, <2>3, OneSlotStep DEF SlotStep
    <2> QED
      BY <1>4, <2>4, SameRowSteps, SamePassSteps, SameCallSteps DEF SeeCancel
  <1>5. CASE HandlerEnd(s)
    <2>1. PICK d \in EndStatuses(TypeHeld(s)) :
            /\ domain' = [domain EXCEPT ![Held(s)] = d]
            /\ exec' = [exec EXCEPT ![s].pc = Ended(TypeHeld(s), d).pc,
                                    ![s].outcome = Ended(TypeHeld(s), d).outcome]
      BY <1>5 DEF HandlerEnd
    <2> DEFINE end == Ended(TypeHeld(s), d)
    <2>2. Held(s) \in Jobs /\ exec[s].pc = "working" /\ Owns(s)
      BY <1>0, <1>5 DEF HandlerEnd
    <2>3. exec' = [exec EXCEPT ![s] = [exec[s] EXCEPT !.pc = end.pc, !.outcome = end.outcome]]
      BY <2>1 DEF TypeInv
    <2>4. /\ exec'[s].pc = end.pc /\ exec'[s].outcome = end.outcome /\ SameHold(s)
          /\ domain'[Held(s)] = d
      <3>1. domain'[Held(s)] = d
        BY <2>1, <2>2 DEF TypeInv, RowsOK
      <3>2. exec[s] \in SlotStates /\ exec \in [Slots -> SlotStates]
        BY DEF TypeInv, GoodSlots
      <3> HIDE DEF end
      <3> QED
        BY <2>3, <3>1, <3>2 DEF SlotStates, SameHold
    <2>5. Finishes(s)
      <3>1. job'[Held(s)].status = "running"
        BY <1>5, <2>2, RowFields DEF HandlerEnd, Owns, Renewed, TypeInv, RowsOK, JobRows
      <3> QED
        BY <2>2, <2>4, <3>1 DEF Finishes
    <2>6. \A k \in Jobs : RowStep(k)
      <3>1. Works(Held(s)) /\ job'[Held(s)].type = job[Held(s)].type
        BY <1>5, <2>2, <2>5, RowFields
           DEF HandlerEnd, Works, Owns, Renewed, TypeHeld, TypeInv, RowsOK, JobRows
      <3>2. ASSUME NEW k \in Jobs \ {Held(s)} PROVE RowStep(k)
        BY <1>5, <2>1, <3>2 DEF HandlerEnd, TypeInv, RowsOK, RowStep, Keeps
      <3> QED
        BY <1>5, <3>1, <3>2 DEF HandlerEnd, RowStep
    <2>7. \A o \in Slots : SlotStep(o)
      <3> HIDE DEF end
      <3> QED
        BY <2>3, <2>5, OneSlotStep DEF SlotStep
    <2> QED
      BY <1>5, <2>6, <2>7, SamePassSteps, SameCallSteps DEF HandlerEnd
  <1>6. CASE HandlerReturn(s)
    <2>1. PICK o : exec' = [exec EXCEPT ![s].pc = "returned", ![s].outcome = o]
      BY <1>6 DEF HandlerReturn
    <2>2. exec' = [exec EXCEPT ![s] = [exec[s] EXCEPT !.pc = "returned", !.outcome = o]]
      BY <2>1 DEF TypeInv
    <2>3. exec'[s].pc = "returned" /\ SameHold(s)
      BY <2>2 DEF TypeInv, GoodSlots, SlotStates, SameHold
    <2>4. Moves(s)
      BY <1>6, <2>3 DEF HandlerReturn, Moves
    <2>5. \A x \in Slots : SlotStep(x)
      BY <2>2, <2>4, OneSlotStep DEF SlotStep
    <2> QED
      BY <1>6, <2>5, SameRowSteps, SamePassSteps, SameCallSteps DEF HandlerReturn
  <1>7. CASE FindingRun(s)
    <2>1. Held(s) \in Jobs
      BY <1>0, <1>7 DEF FindingRun
    <2>2. /\ job'[Held(s)].status = "completed" /\ domain'[Held(s)] = "completed"
          /\ job'[Held(s)].type = job[Held(s)].type
      BY <1>7, <2>1, RowFields DEF FindingRun, Settled, TypeInv, RowsOK, JobRows
    <2>3. RowStep(Held(s))
      BY <1>7, <2>2 DEF FindingRun, RowStep, EndsHeld, TypeHeld
    <2>4. ASSUME NEW k \in Jobs \ {Held(s)} PROVE RowStep(k)
      BY <1>7, <2>4 DEF FindingRun, TypeInv, RowsOK, RowStep, Keeps
    <2> QED
      BY <1>7, <2>3, <2>4, ReleaseSteps, SamePassSteps, SameCallSteps DEF FindingRun
  <1>8. CASE LoseLease(s)
    BY <1>8, ReleasedSteps DEF LoseLease
  <1> QED
    BY <1>1, <1>2, <1>3, <1>4, <1>5, <1>6, <1>7, <1>8 DEF Execute

LEMMA MishapSteps == ASSUME TypeInv, NEW s \in Slots, Mishap(s) PROVE StepOK
  <1>1. CASE HandlerRaise(s) \/ Shutdown(s) \/ PersistLocked(s)
    BY <1>1, GotoSteps DEF HandlerRaise, Shutdown, PersistLocked
  <1>2. CASE FollowupsFail(s) \/ TerminalizeLocked(s)
    BY <1>2, ReleasedSteps DEF FollowupsFail, TerminalizeLocked
  <1> QED
    BY <1>1, <1>2 DEF Mishap

LEMMA SettleSteps == ASSUME TypeInv, NEW s \in Slots, Settle(s) PROVE StepOK
  <1> USE DEF StepOK
  <1>0. ASSUME exec[s].pc # "idle" PROVE Held(s) \in Jobs /\ exec[s] \in GoodSlots
    BY <1>0, HeldIsJob
  <1>a. ASSUME exec[s].pc # "idle", NEW st \in Terminal, job' = [job EXCEPT ![Held(s)] = Settled(@, st)]
        PROVE  /\ job'[Held(s)].status = st /\ job'[Held(s)].type = job[Held(s)].type
               /\ \A k \in Jobs \ {Held(s)} : job'[k] = job[k]
    BY <1>0, <1>a, RowFields DEF Settled, TypeInv, RowsOK, JobRows
  <1>b. exec[s].pc \in {"returned", "persisting"} => exec[s].outcome \in Terminal
    BY DEF TypeInv, GoodSlots
  <1>1. CASE PersistFollowups(s)
    <2>1. Held(s) \in Jobs /\ exec[s].pc = "returned" /\ Owns(s)
      BY <1>0, <1>1 DEF PersistFollowups
    <2>2. /\ job'[Held(s)].status = exec[s].outcome /\ job'[Held(s)].type = job[Held(s)].type
          /\ \A k \in Jobs \ {Held(s)} : job'[k] = job[k]
      BY <1>1, <1>a, <1>b, <2>1 DEF PersistFollowups
    <2>3. \A k \in Jobs : RowStep(k)
      BY <1>1, <2>1, <2>2 DEF PersistFollowups, TypeInv, RowsOK, RowStep, Keeps, EndsHeld
    <2> QED
      BY <1>1, <2>3, ReleaseSteps, SamePassSteps, SameCallSteps DEF PersistFollowups
  <1>2. CASE PersistCheck(s)
    <2>1. Held(s) \in Jobs /\ exec[s].pc = "returned"
      BY <1>0, <1>2 DEF PersistCheck
    <2>2. exec' = [exec EXCEPT ![s] = [exec[s] EXCEPT !.pc = "persisting"]]
      BY <1>2 DEF PersistCheck, Goto
    <2>3. exec'[s].pc = "persisting" /\ exec'[s].outcome = exec[s].outcome /\ SameHold(s)
      BY <2>2 DEF TypeInv, GoodSlots, SlotStates, SameHold
    <2>4. \A k \in Jobs : staged[k] => staged'[k]
      BY <1>2 DEF PersistCheck, TypeInv, RowsOK
    <2>5. FollowupsDue(TypeHeld(s), domain[Held(s)]) => staged'[Held(s)]
      BY <1>2, <2>1 DEF PersistCheck, TypeInv, RowsOK
    <2>6. Moves(s)
      BY <1>2, <2>1, <2>3, <2>5 DEF PersistCheck, Moves
    <2>7. \A o \in Slots : SlotStep(o)
      BY <2>2, <2>6, OneSlotStep DEF SlotStep
    <2> QED
      BY <1>2, <2>4, <2>7, SameRowSteps, SamePassSteps, SameCallSteps DEF PersistCheck
  <1>3. CASE PersistWrite(s)
    <2>1. Held(s) \in Jobs /\ exec[s].pc = "persisting"
      BY <1>0, <1>3 DEF PersistWrite
    <2>2. /\ job'[Held(s)].status = exec[s].outcome /\ job'[Held(s)].type = job[Held(s)].type
          /\ \A k \in Jobs \ {Held(s)} : job'[k] = job[k]
      BY <1>3, <1>a, <1>b, <2>1 DEF PersistWrite
    <2>3. \A k \in Jobs : RowStep(k)
      BY <1>3, <2>1, <2>2 DEF PersistWrite, RowStep, Keeps, EndsLate
    <2> QED
      BY <1>3, <2>3, ReleaseSteps, SamePassSteps, SameCallSteps DEF PersistWrite
  <1>4. CASE PersistStale(s) \/ TerminalizeStale(s)
    BY <1>4, ReleasedSteps DEF PersistStale, TerminalizeStale
  <1>5. ASSUME NEW phase \in {"cancelling", "failing", "interrupting"},
               exec[s].pc = phase, Owns(s), NEW st \in Terminal, NEW d, NEW hook,
               \/ phase = "cancelling" /\ st = "cancelled" /\ hook = "cancelled"
                  /\ d = Cancelled(TypeHeld(s), domain[Held(s)])
               \/ phase = "failing" /\ st = "failed" /\ hook = "failed"
                  /\ d = Failed(TypeHeld(s), domain[Held(s)])
               \/ phase = "interrupting" /\ st = "interrupted" /\ hook = "worker_shutdown"
                  /\ d = Interrupted(TypeHeld(s), domain[Held(s)], "worker_shutdown"),
               domain' = [domain EXCEPT ![Held(s)] = d],
               staged' = [staged EXCEPT ![Held(s)] = @ \/ StagesFollowups(TypeHeld(s), hook)],
               job' = [job EXCEPT ![Held(s)] = Settled(@, st)],
               Release(s), UNCHANGED <<pass, call, nextToken, faults>>
        PROVE  StepOK
    <2>1. Held(s) \in Jobs /\ TypeHeld(s) = job[Held(s)].type
      BY <1>0, <1>5 DEF TypeHeld
    <2>2. /\ job'[Held(s)].status = st /\ job'[Held(s)].type = job[Held(s)].type
          /\ \A k \in Jobs \ {Held(s)} : job'[k] = job[k]
      BY <1>5, <1>a
    <2>3. /\ domain'[Held(s)] = d
          /\ staged'[Held(s)] = (staged[Held(s)] \/ StagesFollowups(TypeHeld(s), hook))
          /\ \A k \in Jobs \ {Held(s)} : domain'[k] = domain[k] /\ staged'[k] = staged[k]
      BY <1>5, <2>1 DEF TypeInv, RowsOK
    <2>4. EndsHeld(Held(s))
      <3>1. StagesFollowups(job[Held(s)].type, hook) => staged'[Held(s)]
        BY <2>1, <2>3
      <3>2. CASE phase = "cancelling"
        BY <1>5, <2>1, <2>2, <2>3, <3>1, <3>2 DEF EndsHeld
      <3>3. CASE phase = "failing"
        BY <1>5, <2>1, <2>2, <2>3, <3>1, <3>3 DEF EndsHeld
      <3>4. CASE phase = "interrupting"
        BY <1>5, <2>1, <2>2, <2>3, <3>1, <3>4 DEF EndsHeld
      <3> QED
        BY <3>2, <3>3, <3>4
    <2>5. staged[Held(s)] => staged'[Held(s)]
      BY <2>3
    <2>6. \A k \in Jobs : RowStep(k)
      BY <2>2, <2>3, <2>4, <2>5 DEF RowStep, Keeps
    <2> QED
      BY <1>5, <2>6, ReleaseSteps, SamePassSteps, SameCallSteps
  <1>6. CASE TerminalizeCancelled(s)
    BY <1>6, <1>5 DEF TerminalizeCancelled, Terminalize, Terminal
  <1>7. CASE TerminalizeFailed(s)
    BY <1>7, <1>5 DEF TerminalizeFailed, Terminalize, Terminal
  <1>8. CASE TerminalizeInterrupted(s)
    BY <1>8, <1>5 DEF TerminalizeInterrupted, Terminalize, Terminal, ShutDown
  <1> QED
    BY <1>1, <1>2, <1>3, <1>4, <1>6, <1>7, <1>8 DEF Settle

LEMMA StampSteps == ASSUME TypeInv, NEW w \in Workers, RecoverStamp(w) PROVE StepOK
  <1>1. PICK first \in SUBSET {j \in Expired : ~Reconcilable(j)}, last \in SUBSET Expired :
          /\ last \subseteq {j \in Expired : Reconcilable(j)}
          /\ job' = [j \in Jobs |->
                       CASE j \in first -> [Stamped(job[j]) EXCEPT !.status = "interrupted"]
                         [] j \in last  -> Settled(Stamped(job[j]), Planned(j).status)
                         [] j \in Expired \ (first \cup last) -> Stamped(job[j])
                         [] OTHER      -> job[j]]
          /\ domain' = [j \in Jobs |-> IF j \in first THEN Planned(j).domain ELSE domain[j]]
          /\ staged' = [j \in Jobs |-> staged[j] \/ (j \in last /\ StagedBy(j, Planned(j)))]
          /\ pass' = [pass EXCEPT ![w] =
                        IF Expired = first \cup last
                        THEN NoPass
                        ELSE [NoPass EXCEPT !.pc = "looping", !.token = nextToken,
                                            !.todo = Expired \ (first \cup last)]]
    BY DEF RecoverStamp
  <1>2. ASSUME NEW j \in Jobs
        PROVE  /\ Stamped(job[j]).status = job[j].status
               /\ Stamped(job[j]).token = nextToken
               /\ Stamped(job[j]).type = job[j].type
               /\ Stamped(job[j]).lease = job[j].lease
               /\ [Stamped(job[j]) EXCEPT !.status = "interrupted"].status = "interrupted"
               /\ [Stamped(job[j]) EXCEPT !.status = "interrupted"].type = job[j].type
               /\ [Stamped(job[j]) EXCEPT !.status = "interrupted"].lease = job[j].lease
               /\ Settled(Stamped(job[j]), Planned(j).status).status = Planned(j).status
               /\ Settled(Stamped(job[j]), Planned(j).status).type = job[j].type
               /\ j \in Expired => job[j].status = "running"
    <2>1. job[j] \in JobRows
      BY RowFields DEF TypeInv
    <2> QED
      BY <2>1 DEF Stamped, Settled, JobRows, Expired
  <1>3. ASSUME NEW j \in Jobs, j \in Expired \ (first \cup last)
        PROVE  /\ job'[j].status = "running" /\ job'[j].token = nextToken
               /\ job'[j].type = job[j].type /\ job'[j].lease = job[j].lease
    <2>1. job'[j] = Stamped(job[j])
      BY <1>1, <1>3
    <2> QED
      BY <1>2, <1>3, <2>1
  <1>4. ASSUME NEW j \in Jobs PROVE RowStep(j)
    <2>1. staged'[j] = (staged[j] \/ (j \in last /\ StagedBy(j, Planned(j))))
      BY <1>1
    <2>2. CASE j \in first
      <3>1. /\ job'[j] = [Stamped(job[j]) EXCEPT !.status = "interrupted"]
            /\ domain'[j] = Planned(j).domain
        BY <1>1, <2>2
      <3>2. /\ job'[j].status = "interrupted" /\ job'[j].type = job[j].type
            /\ job'[j].lease = job[j].lease
        BY <1>2, <3>1
      <3>3. Planned(j).status = "interrupted" /\ job[j].status = "running"
        BY <1>1, <1>2, <2>2 DEF Planned
      <3> QED
        BY <2>1, <3>1, <3>2, <3>3 DEF RowStep, EndsRecovered, EndsAs, StagedBy
    <2>3. CASE j \in last
      <3>0. j \in Expired /\ Reconcilable(j) /\ j \notin first
        BY <1>1, <2>3
      <3>1. job'[j] = Settled(Stamped(job[j]), Planned(j).status) /\ domain'[j] = domain[j]
        BY <1>1, <2>3, <3>0
      <3>2. job'[j].status = Planned(j).status /\ job'[j].type = job[j].type
        BY <1>2, <3>1
      <3>3. Planned(j).domain = domain[j] /\ job[j].status = "running"
        BY <1>2, <3>0 DEF Planned
      <3> QED
        BY <2>1, <2>3, <3>0, <3>1, <3>2, <3>3 DEF RowStep, EndsRecovered, EndsAs
    <2>4. CASE j \in Expired \ (first \cup last)
      <3>1. domain'[j] = domain[j]
        BY <1>1, <2>4
      <3> QED
        BY <1>2, <1>3, <2>1, <2>4, <3>1 DEF RowStep, Keeps
    <2>5. CASE j \notin Expired
      <3>1. job'[j] = job[j] /\ domain'[j] = domain[j]
        BY <1>1, <2>5
      <3> QED
        BY <2>1, <3>1 DEF RowStep, Keeps
    <2> QED
      BY <2>2, <2>3, <2>4, <2>5
  <1>5. ASSUME NEW v \in Workers PROVE PassStep(v)
    <2>1. CASE v # w
      <3>1. pass'[v] = pass[v]
        BY <1>1, <2>1 DEF TypeInv
      <3> QED
        BY <3>1 DEF PassStep, Forgets
    <2>2. CASE v = w
      <3>1. /\ pass'[w].plan = NoPass.plan
            /\ pass'[w].todo \subseteq Expired \ (first \cup last)
        <4>1. CASE Expired = first \cup last
          BY <1>1, <4>1 DEF TypeInv, NoPass
        <4>2. CASE Expired # first \cup last
          BY <1>1, <4>2 DEF TypeInv, NoPass
        <4> QED
          BY <4>1, <4>2
      <3>2. \A j \in pass'[w].todo : /\ job[j].status = "running" /\ job'[j].status = "running"
                                     /\ job'[j].token = nextToken
        BY <1>2, <1>3, <3>1 DEF Expired
      <3>3. \A j \in Jobs : pass'[w].plan[j] = NoPlan
        BY <3>1 DEF NoPass
      <3> QED
        BY <2>2, <3>2, <3>3 DEF PassStep, Stamps
    <2> QED
      BY <2>1, <2>2
  <1> QED
    BY <1>4, <1>5, SameSlotSteps, SameCallSteps DEF RecoverStamp, StepOK

LEMMA CommitSteps == ASSUME TypeInv, NEW w \in Workers, RecoverCommit(w) PROVE StepOK
  <1> DEFINE plan == pass[w].plan
             New(j) == IF plan[j].status = "interrupted"
                       THEN [job[j] EXCEPT !.status = "interrupted"]
                       ELSE Settled(job[j], plan[j].status)
  <1>1. /\ job' = [j \in Jobs |-> IF plan[j] # NoPlan THEN New(j) ELSE job[j]]
        /\ domain' = [j \in Jobs |-> IF plan[j] # NoPlan THEN plan[j].domain ELSE domain[j]]
        /\ staged' = [j \in Jobs |-> staged[j] \/ StagedBy(j, plan[j])]
        /\ UNCHANGED <<exec, call>>
    BY DEF RecoverCommit
  <1>2. ASSUME NEW j \in Jobs
        PROVE  /\ New(j).status = plan[j].status
               /\ New(j).type = job[j].type
               /\ plan[j].status = "interrupted" => New(j).lease = job[j].lease
    BY RowFields DEF TypeInv, JobRows, Settled
  <1>3. ASSUME NEW j \in Jobs PROVE RowStep(j)
    <2>0. staged'[j] = (staged[j] \/ StagedBy(j, plan[j]))
      BY <1>1
    <2> HIDE DEF New
    <2>1. CASE plan[j] = NoPlan
      <3>1. job'[j] = job[j] /\ domain'[j] = domain[j]
        BY <1>1, <2>1
      <3> QED
        BY <2>0, <3>1 DEF RowStep, Keeps
    <2>2. CASE plan[j] # NoPlan
      <3>1. job'[j] = New(j) /\ domain'[j] = plan[j].domain
        BY <1>1, <2>2
      <3> QED
        BY <1>2, <2>0, <2>2, <3>1 DEF RowStep, EndsRecovered, EndsAs
    <2> QED
      BY <2>1, <2>2
  <1>4. ASSUME NEW v \in Workers PROVE PassStep(v)
    <2>1. pass' = [pass EXCEPT ![w] = IF @.todo = {} THEN NoPass
                                      ELSE [@ EXCEPT !.pc = "looping", !.plan = NoPass.plan]]
      BY DEF RecoverCommit
    <2>2. CASE v # w
      BY <2>1, <2>2 DEF TypeInv, PassStep, Forgets
    <2>3. CASE v = w
      <3>1. pass[w] \in PassStates
        BY DEF TypeInv, GoodPasses
      <3>2. pass'[w].plan = NoPass.plan /\ pass'[w].todo \subseteq pass[w].todo
        <4>1. CASE pass[w].todo = {}
          BY <2>1, <4>1 DEF TypeInv, NoPass
        <4>2. CASE pass[w].todo # {}
          BY <2>1, <3>1, <4>2 DEF TypeInv, NoPass, PassStates
        <4> QED
          BY <4>1, <4>2
      <3>3. Forgets(w)
        BY <3>2 DEF Forgets, NoPass
      <3> QED
        BY <2>3, <3>3 DEF PassStep
    <2> QED
      BY <2>2, <2>3
  <1> QED
    BY <1>1, <1>3, <1>4, SameSlotSteps, SameCallSteps DEF StepOK

LEMMA WorkerSteps ==
  ASSUME TypeInv, NEW w \in Workers, Recover(w) \/ RecoverAbort(w) \/ Restart(w) \/ Crash(w)
  PROVE  StepOK
  <1> USE DEF StepOK
  <1>1. ASSUME NEW j \in Jobs, RecoverRead(w, j) PROVE StepOK
    <2>0. pass[w] \in PassStates
      BY DEF TypeInv, GoodPasses
    <2>1. /\ pass'[w].todo \subseteq pass[w].todo
          /\ pass'[w].plan = [pass[w].plan EXCEPT ![j] = Planned(j)]
          /\ \A v \in Workers \ {w} : pass'[v] = pass[v]
      BY <1>1, <2>0 DEF RecoverRead, TypeInv, PassStates
    <2>2. PlansOne(w)
      <3>1. pass[w].plan \in [Jobs -> Plans]
        BY <2>0 DEF PassStates
      <3>2. /\ pass'[w].plan[j] = Planned(j)
            /\ \A k \in Jobs \ {j} : pass'[w].plan[k] = pass[w].plan[k]
        BY <2>1, <3>1
      <3>3. /\ j \in pass[w].todo /\ Planned(j).status \in LegalTransitions[job[j].status]
            /\ UNCHANGED <<job, domain, staged, exec>>
        BY <1>1 DEF RecoverRead
      <3> QED
        BY <2>1, <3>2, <3>3 DEF PlansOne
    <2>3. \A v \in Workers : PassStep(v)
      BY <2>1, <2>2 DEF PassStep, Forgets
    <2> QED
      BY <1>1, <2>3, SameRowSteps, SameSlotSteps, SameCallSteps DEF RecoverRead
  <1>2. ASSUME NEW p, pass' = [pass EXCEPT ![w] = p], p.todo = {}, p.plan = NoPass.plan,
               UNCHANGED <<job, domain, staged, call>>, \A s \in Slots : SlotStep(s)
        PROVE  StepOK
    BY <1>2, NoPassStep, SameRowSteps, SameCallSteps
  <1>3. NoPass.todo = {} /\ [NoPass EXCEPT !.pc = "error"].todo = {}
        /\ [NoPass EXCEPT !.pc = "error"].plan = NoPass.plan
    BY DEF NoPass
  <1>4. ASSUME NEW j \in Jobs, RecoverError(w, j) PROVE StepOK
    BY <1>2, <1>3, <1>4, SameSlotSteps DEF RecoverError
  <1>5. CASE RecoverAbort(w) \/ Restart(w)
    BY <1>2, <1>3, <1>5, SameSlotSteps DEF RecoverAbort, Restart
  <1>6. CASE Crash(w)
    <2>1. \A s \in Slots : SlotStep(s)
      BY <1>6 DEF Crash, SlotStep, TypeInv
    <2> QED
      BY <1>2, <1>3, <1>6, <2>1 DEF Crash
  <1> QED
    BY <1>1, <1>4, <1>5, <1>6, StampSteps, CommitSteps DEF Recover

LEMMA EveryStep == ASSUME TypeInv, [Next]_vars PROVE StepOK
  <1>1. CASE UNCHANGED vars
    BY <1>1, SameRowSteps, SameSlotSteps, SamePassSteps, SameCallSteps DEF vars, StepOK
  <1>2. CASE Next
    BY <1>2, RequestSteps, LeaseSteps, ExecuteSteps, MishapSteps, SettleSteps, WorkerSteps
       DEF Next
  <1> QED
    BY <1>1, <1>2

-----------------------------------------------------------------------------
(***************************************************************************)
(* Records of ended jobs have ended.  What has to be known besides: a job  *)
(* that is worked on has not been seen absent, and is claimed once unless  *)
(* it is an evaluation; an execution that has returned, and a pass that    *)
(* has made a plan, leave the record in a status that is none of activity. *)
(***************************************************************************)

Final == DomainStatuses \ (Active \cup ActiveBuild)

\* The statuses a record of a job that exists may have, beyond its type.
Fit(t, d) ==
  /\ t \in BuildTypes => d \in ActiveBuild \cup {"ready", "failed", "cancelled"}
  /\ t = "structured_content_build" => d = "none"

Foreign(w, j) == j \in pass[w].todo \/ pass[w].plan[j] # NoPlan

Present ==
  /\ \A s \in Slots : exec[s].pc # "idle" => job[Held(s)].status # "absent"
  /\ \A w \in Workers, j \in Jobs : Foreign(w, j) => job[j].status # "absent"

StartedOnce ==
  \A s \in Slots :
    Past(s) /\ TypeHeld(s) # "finding_evaluation" =>
      /\ job[Held(s)].status # "queued"
      /\ \A o \in Slots : Past(o) /\ Held(o) = Held(s) => o = s

RecordsFit ==
  \A j \in Jobs :
    /\ job[j].status = "queued" => domain[j] = Initial(job[j].type)
    /\ job[j].status = "running" => domain[j] # "interrupted"
    /\ job[j].status # "absent" => Fit(job[j].type, domain[j])

ReturnsEnded ==
  \A s \in Slots :
    exec[s].pc \in {"returned", "persisting"} =>
      TypeHeld(s) # "finding_evaluation" /\ domain[Held(s)] \in Final

PlansEnd ==
  \A w \in Workers, j \in Jobs :
    pass[w].plan[j] # NoPlan =>
      pass[w].plan[j].domain \in Final /\ Fit(job[j].type, pass[w].plan[j].domain)

CallsFit ==
  \A c \in Clients :
    call[c] # NoCall =>
      /\ job[call[c].job].type \in Cancellable
      /\ job[call[c].job].status # "absent"
      /\ call[c].status = "queued" => call[c].domain = Initial(job[call[c].job].type)

RecordInv ==
  /\ Present
  /\ StartedOnce
  /\ RecordsFit
  /\ ReturnsEnded
  /\ PlansEnd
  /\ CallsFit
  /\ NoOrphanRecord

\* The hooks end a record, except where a category run is shut down, which they leave alone.
LEMMA HooksEnd ==
  ASSUME NEW t \in JobTypes, NEW d \in DomainStatuses, Fit(t, d)
  PROVE  /\ Cancelled(t, d) \in Final /\ Fit(t, Cancelled(t, d))
         /\ Failed(t, d) \in Final /\ Fit(t, Failed(t, d))
         /\ Interrupted(t, d, "lease_expired") \in Final
         /\ Fit(t, Interrupted(t, d, "lease_expired"))
         /\ Fit(t, Interrupted(t, d, "worker_shutdown"))
         /\ IF t = "category_rule_evaluation"
            THEN Interrupted(t, d, "worker_shutdown") = d
            ELSE Interrupted(t, d, "worker_shutdown") \in Final
         /\ Reconciled(t, d) # "none" => d \in Final
  <1> USE DEF Fit, Final, Cancelled, Failed, Interrupted, InterruptFrom, InterruptTo,
              TerminalizeFrom, Guarded, Move, Reconciled, DomainStatuses, JobStatuses,
              Active, Terminal, ActiveBuild, BuildTypes, RunTypes
  <1>1. CASE t \in BuildTypes
    BY <1>1
  <1>2. CASE t \in RunTypes
    BY <1>2
  <1>3. CASE t \in {"structured_content_build", "finding_evaluation"}
    BY <1>3
  <1> QED
    BY <1>1, <1>2, <1>3 DEF JobTypes

\* A handler's statuses are those of its record; it ends it, and never as interrupted.
LEMMA HandlersFit ==
  ASSUME NEW t \in JobTypes, NEW d \in StartStatuses(t) \cup EndStatuses(t)
  PROVE  /\ Fit(t, d) /\ d # "interrupted"
         /\ t \notin {"finding_evaluation", "structured_content_build"}
         /\ d \in EndStatuses(t) => d \in Final
  BY DEF Fit, Final, StartStatuses, EndStatuses, DomainStatuses, JobStatuses, Active, Terminal,
         ActiveBuild, BuildTypes, RunTypes, JobTypes

LEMMA InitialFits ==
  ASSUME NEW t \in JobTypes
  PROVE  /\ Fit(t, Initial(t)) /\ Initial(t) # "interrupted"
         /\ t # "structured_content_build" => Initial(t) = "queued"
  BY DEF Fit, Initial, ActiveBuild, BuildTypes

LEMMA PlannedEnds ==
  ASSUME TypeInv, RecordsFit, NEW j \in Jobs, job[j].status # "absent"
  PROVE  Planned(j).domain \in Final /\ Fit(job[j].type, Planned(j).domain)
  BY RowFields, HooksEnd DEF RecordsFit, Planned, Reconcilable, TypeInv

\* A job ends.
Settles(j) ==
  /\ job[j].status # "absent"
  /\ job'[j].status \in Terminal
  /\ Fit(job[j].type, domain'[j])
  /\ \/ domain'[j] \in Final
     \/ /\ job[j].type = "category_rule_evaluation"
        /\ job'[j].status = "interrupted"
        /\ domain'[j] = domain[j]

\* Whoever ends a job, its record ends with it.
LEMMA EndingsSettle ==
  ASSUME TypeInv, RecordInv, NEW j \in Jobs,
         EndsQueued(j) \/ EndsRequested(j) \/ EndsHeld(j) \/ EndsLate(j) \/ EndsRecovered(j)
  PROVE  Settles(j)
  <1> DEFINE t == job[j].type
  <1>0. t \in JobTypes /\ domain[j] \in DomainStatuses
    BY RowFields DEF TypeInv
  <1>a. job[j].status # "absent" => Fit(t, domain[j])
    BY DEF RecordInv, RecordsFit
  <1>b. \A st : st \in {"cancelled", "failed", "interrupted", "completed"} => st \in Terminal
    BY DEF Terminal
  <1>c. QueuedCancelFrom(t) \subseteq DomainStatuses
    BY DEF QueuedCancelFrom, Guarded, DomainStatuses, ActiveBuild, JobStatuses, Active
  <1>d. /\ t \in RunTypes \cup BuildTypes \cup {"finding_evaluation"} => "queued" \in QueuedCancelFrom(t)
        /\ t \in BuildTypes => QueuedCancelFrom(t) = ActiveBuild
        /\ t = "structured_content_build" => QueuedCancelFrom(t) = {}
    BY <1>0 DEF QueuedCancelFrom, Guarded, DomainStatuses, JobStatuses, Active, ActiveBuild,
                RunTypes, BuildTypes, JobTypes
  <1>e. /\ "cancelled" \in Final /\ "none" \in Final
        /\ t # "structured_content_build" => Fit(t, "cancelled")
        /\ t = "finding_evaluation" => "completed" \in Final /\ Fit(t, "completed")
    BY DEF Final, Fit, DomainStatuses, JobStatuses, Terminal, Active, ActiveBuild, BuildTypes
  <1>f. t \in RunTypes \cup BuildTypes \cup {"finding_evaluation", "structured_content_build"}
    BY <1>0 DEF JobTypes
  <1>1. CASE EndsQueued(j)
    <2>1. domain[j] = Initial(t) /\ job[j].status = "queued" /\ job'[j].status = "cancelled"
      BY <1>1 DEF EndsQueued, RecordInv, RecordsFit
    <2>2. CASE t = "structured_content_build"
      BY <1>0, <1>1, <1>a, <1>b, <1>d, <1>e, <2>1, <2>2, InitialFits DEF EndsQueued, Move, Fit, Settles
    <2>3. CASE t # "structured_content_build"
      <3>1. domain'[j] = "cancelled"
        BY <1>0, <1>1, <1>d, <1>f, <2>1, <2>3, InitialFits DEF EndsQueued, Move
      <3> QED
        BY <1>b, <1>e, <2>1, <2>3, <3>1 DEF Settles
    <2> QED
      BY <2>2, <2>3
  <1>2. CASE EndsRequested(j)
    <2>0. PICK c \in Clients :
            /\ call[c] # NoCall
            /\ call[c].job = j
            /\ call[c].status = "queued"
            /\ \E d \in {call[c].domain} \cup Latest(j) :
                 domain'[j] = IF d \in QueuedCancelFrom(t) THEN "cancelled" ELSE domain[j]
      BY <1>2 DEF EndsRequested, CancelWrite
    <2>1. PICK d \in {call[c].domain} \cup Latest(j) :
            domain'[j] = IF d \in QueuedCancelFrom(t) THEN "cancelled" ELSE domain[j]
      BY <2>0
    <2>2. /\ job[j].status # "absent" /\ job'[j].status \in Terminal
          /\ call[c].domain = Initial(t)
      BY <1>2, <1>b, <2>0 DEF EndsRequested, RecordInv, CallsFit
    <2>3. CASE t = "structured_content_build"
      <3>1. domain'[j] = "none"
        BY <1>a, <1>d, <2>1, <2>2, <2>3 DEF Fit
      <3> QED
        BY <1>e, <2>2, <2>3, <3>1 DEF Settles, Fit, BuildTypes
    <2>4. CASE t # "structured_content_build" /\ d = call[c].domain
      BY <1>0, <1>d, <1>e, <1>f, <2>1, <2>2, <2>4, InitialFits DEF Settles
    <2>5. CASE t # "structured_content_build" /\ d \in Latest(j)
      <3>1. t \in BuildTypes /\ d = domain[j]
        BY <2>5 DEF Latest, BuildTypes
      <3>2. CASE d \in ActiveBuild
        BY <1>d, <1>e, <2>1, <2>2, <2>5, <3>1, <3>2 DEF Settles
      <3>3. CASE d \notin ActiveBuild
        <4>1. domain'[j] = domain[j]
          BY <1>d, <2>1, <3>1, <3>3
        <4>2. domain[j] \in {"ready", "failed", "cancelled"}
          BY <1>a, <2>2, <3>1, <3>3 DEF Fit
        <4>3. domain[j] \in Final
          BY <4>2 DEF Final, DomainStatuses, JobStatuses, Terminal, Active, ActiveBuild
        <4> QED
          BY <1>a, <2>2, <4>1, <4>3 DEF Settles
      <3> QED
        BY <3>2, <3>3
    <2> QED
      BY <2>1, <2>3, <2>4, <2>5
  <1>3. CASE EndsHeld(j)
    <2>1. PICK s \in Slots :
            /\ Owns(s)
            /\ Held(s) = j
            /\ \/ /\ exec[s].pc = "returned"
                  /\ job'[j].status = exec[s].outcome
                  /\ domain'[j] = domain[j]
               \/ /\ exec[s].pc = "cancelling"
                  /\ job'[j].status = "cancelled"
                  /\ domain'[j] = Cancelled(t, domain[j])
               \/ /\ exec[s].pc = "failing"
                  /\ job'[j].status = "failed"
                  /\ domain'[j] = Failed(t, domain[j])
               \/ /\ exec[s].pc = "interrupting"
                  /\ job'[j].status = "interrupted"
                  /\ domain'[j] = Interrupted(t, domain[j], "worker_shutdown")
               \/ /\ t = "finding_evaluation"
                  /\ job'[j].status = "completed"
                  /\ domain'[j] = "completed"
      BY <1>3 DEF EndsHeld
    <2>2. job[j].status # "absent"
      BY <2>1 DEF Owns
    <2>3. CASE exec[s].pc = "returned" /\ job'[j].status = exec[s].outcome /\ domain'[j] = domain[j]
      <3>1. domain[j] \in Final
        BY <2>1, <2>3 DEF RecordInv, ReturnsEnded
      <3>2. exec[s].outcome \in Terminal
        BY <2>3 DEF TypeInv, GoodSlots
      <3> QED
        BY <1>a, <2>2, <2>3, <3>1, <3>2 DEF Settles
    <2> HIDE DEF t
    <2>4. CASE domain'[j] = Cancelled(t, domain[j]) /\ job'[j].status = "cancelled"
      BY <1>0, <1>a, <1>b, <2>2, <2>4, HooksEnd DEF Settles, t
    <2>5. CASE domain'[j] = Failed(t, domain[j]) /\ job'[j].status = "failed"
      BY <1>0, <1>a, <1>b, <2>2, <2>5, HooksEnd DEF Settles, t
    <2>6. CASE domain'[j] = Interrupted(t, domain[j], "worker_shutdown") /\ job'[j].status = "interrupted"
      BY <1>0, <1>a, <1>b, <2>2, <2>6, HooksEnd DEF Settles, t
    <2>7. CASE t = "finding_evaluation" /\ domain'[j] = "completed" /\ job'[j].status = "completed"
      BY <1>b, <1>e, <2>2, <2>7 DEF Settles, t
    <2> QED
      BY <2>1, <2>3, <2>4, <2>5, <2>6, <2>7
  <1>4. CASE EndsLate(j)
    <2>1. PICK s \in Slots : /\ exec[s].pc = "persisting" /\ Held(s) = j
                             /\ job'[j].status = exec[s].outcome /\ domain'[j] = domain[j]
      BY <1>4 DEF EndsLate
    <2>2. job[j].status # "absent" /\ domain[j] \in Final
      BY <2>1 DEF RecordInv, Present, ReturnsEnded
    <2>3. exec[s].outcome \in Terminal
      BY <2>1 DEF TypeInv, GoodSlots
    <2> QED
      BY <1>a, <2>1, <2>2, <2>3 DEF Settles
  <1>5. CASE EndsRecovered(j)
    <2>1. CASE job[j].status = "running" /\ EndsAs(j, Planned(j))
      <3>1. Planned(j).status \in Terminal
        BY PlannedType DEF TypeInv
      <3>2. Planned(j).domain \in Final /\ Fit(t, Planned(j).domain)
        BY <2>1, PlannedEnds DEF RecordInv
      <3> QED
        BY <2>1, <3>1, <3>2 DEF EndsAs, Settles
    <2>2. ASSUME NEW w \in Workers, pass[w].plan[j] # NoPlan, EndsAs(j, pass[w].plan[j])
          PROVE  Settles(j)
      <3>1. pass[w].plan[j].status \in Terminal
        BY <2>2 DEF TypeInv, GoodPasses
      <3>2. /\ pass[w].plan[j].domain \in Final /\ Fit(t, pass[w].plan[j].domain)
            /\ job[j].status # "absent"
        BY <2>2 DEF RecordInv, PlansEnd, Present, Foreign
      <3> QED
        BY <2>2, <3>1, <3>2 DEF EndsAs, Settles
    <2> QED
      BY <1>5, <2>1, <2>2 DEF EndsRecovered
  <1> QED
    BY <1>1, <1>2, <1>3, <1>4, <1>5

-----------------------------------------------------------------------------
\* What a step does to a row that exists, to an execution past its claim, and to what a
\* pass holds.
LEMMA RowMoves ==
  ASSUME TypeInv, RecordInv, StepOK, NEW j \in Jobs
  PROVE  /\ job'[j].type = job[j].type
         /\ Keeps(j) \/ Begins(j) \/ BeginsAgain(j) \/ IsClaimed(j) \/ Works(j) \/ Settles(j)
  BY EndingsSettle DEF StepOK, RowStep

LEMMA StaysPresent ==
  ASSUME TypeInv, RecordInv, StepOK, NEW j \in Jobs, job[j].status # "absent"
  PROVE  job'[j].status # "absent"
  BY RowMoves DEF Keeps, Begins, BeginsAgain, IsClaimed, Works, Settles, Terminal

LEMMA PastBefore ==
  ASSUME TypeInv, StepOK, NEW s \in Slots, Past(s)'
  PROVE  (Past(s) /\ SameHold(s)) \/ Wins(s)
  BY DEF StepOK, SlotStep, Looks, Moves, Starts, Finishes, SameHold, Past, Idle

LEMMA HeldBefore ==
  ASSUME TypeInv, StepOK, NEW s \in Slots, exec'[s].pc # "idle"
  PROVE  \/ exec[s].pc # "idle" /\ exec'[s].job = exec[s].job
         \/ Looks(s)
  BY DEF StepOK, SlotStep, Wins, Moves, Starts, Finishes, SameHold, Idle

LEMMA ForeignBefore ==
  ASSUME TypeInv, StepOK, NEW w \in Workers, NEW j \in Jobs, Foreign(w, j)'
  PROVE  Foreign(w, j) \/ (job[j].status = "running" /\ job'[j].status = "running")
  BY DEF StepOK, PassStep, Forgets, Stamps, PlansOne, Foreign

LEMMA NextPresent == ASSUME TypeInv, TypeInv', RecordInv, StepOK PROVE Present'
  <1> USE DEF Held, TypeHeld
  <1>1. ASSUME NEW s \in Slots, exec'[s].pc # "idle" PROVE job'[exec'[s].job].status # "absent"
    <2>1. CASE exec[s].pc # "idle" /\ exec'[s].job = exec[s].job
      BY <2>1, HeldIsJob, StaysPresent DEF RecordInv, Present
    <2>2. CASE Looks(s)
      BY <2>2 DEF Looks
    <2> QED
      BY <1>1, <2>1, <2>2, HeldBefore
  <1>2. ASSUME NEW w \in Workers, NEW j \in Jobs, Foreign(w, j)' PROVE job'[j].status # "absent"
    BY <1>2, ForeignBefore, StaysPresent DEF RecordInv, Present
  <1> QED
    BY <1>1, <1>2 DEF Present

LEMMA NextStartedOnce == ASSUME TypeInv, TypeInv', RecordInv, StepOK PROVE StartedOnce'
  <1> USE DEF Held, TypeHeld
  <1> SUFFICES ASSUME NEW s \in Slots, Past(s)', TypeHeld(s)' # "finding_evaluation"
               PROVE  /\ job'[exec'[s].job].status # "queued"
                      /\ \A o \in Slots : Past(o)' /\ exec'[o].job = exec'[s].job => o = s
    BY DEF StartedOnce
  <1> DEFINE j == exec[s].job
  <1>1. /\ (Past(s) /\ SameHold(s)) \/ Wins(s)
        /\ j \in Jobs /\ exec'[s].job = j /\ job[j].status # "absent"
    BY PastBefore, HeldIsJob DEF Past, Wins, SameHold, RecordInv, Present
  <1>2. job[j].type # "finding_evaluation"
    BY <1>1, RowMoves
  <1>3. job'[j].status # "queued"
    <2>1. CASE Wins(s)
      BY <2>1 DEF Wins
    <2>2. CASE Past(s)
      <3>1. job[j].status # "queued"
        BY <1>2, <2>2 DEF RecordInv, StartedOnce
      <3> QED
        BY <1>1, <1>2, <3>1, RowMoves
           DEF Keeps, Begins, BeginsAgain, IsClaimed, Works, Settles, Terminal
    <2> QED
      BY <1>1, <2>1, <2>2
  <1>4. ASSUME NEW o \in Slots, Past(o)', exec'[o].job = j, o # s PROVE FALSE
    <2>1. exec[o].job = j /\ (Past(o) \/ Wins(o))
      BY <1>4, PastBefore DEF Wins, SameHold
    <2>2. CASE Past(s) /\ Past(o)
      BY <1>2, <1>4, <2>1, <2>2 DEF RecordInv, StartedOnce
    <2>3. CASE Past(s) /\ Wins(o)
      BY <1>2, <2>1, <2>3 DEF RecordInv, StartedOnce, Wins
    <2>4. CASE Wins(s) /\ Past(o)
      BY <1>2, <2>1, <2>4 DEF RecordInv, StartedOnce, Wins
    <2>5. CASE Wins(s) /\ Wins(o)
      BY <1>4, <2>5 DEF Wins
    <2> QED
      BY <1>1, <2>1, <2>2, <2>3, <2>4, <2>5
  <1> QED
    BY <1>1, <1>3, <1>4

LEMMA WorksStatuses ==
  ASSUME NEW j \in Jobs, Works(j)
  PROVE  domain'[j] \in StartStatuses(job[j].type) \cup EndStatuses(job[j].type)
  BY DEF Works, Starts, Finishes, TypeHeld

LEMMA NextRecordsFit == ASSUME TypeInv, TypeInv', RecordInv, StepOK PROVE RecordsFit'
  <1> SUFFICES ASSUME NEW j \in Jobs
               PROVE  /\ job'[j].status = "queued" => domain'[j] = Initial(job'[j].type)
                      /\ job'[j].status = "running" => domain'[j] # "interrupted"
                      /\ job'[j].status # "absent" => Fit(job'[j].type, domain'[j])
    BY DEF RecordsFit
  <1>0. job[j].type \in JobTypes /\ job'[j].type = job[j].type
    BY RowFields, RowMoves DEF TypeInv
  <1>a. /\ job[j].status = "queued" => domain[j] = Initial(job[j].type)
        /\ job[j].status = "running" => domain[j] # "interrupted"
        /\ job[j].status # "absent" => Fit(job[j].type, domain[j])
    BY DEF RecordInv, RecordsFit
  <1>1. CASE Keeps(j)
    BY <1>0, <1>1, <1>a DEF Keeps
  <1>2. CASE Begins(j)
    BY <1>0, <1>2, InitialFits DEF Begins
  <1>3. CASE BeginsAgain(j)
    BY <1>0, <1>3, InitialFits DEF BeginsAgain, Initial
  <1>4. CASE IsClaimed(j)
    BY <1>0, <1>4, <1>a, InitialFits DEF IsClaimed
  <1>5. CASE Works(j)
    BY <1>0, <1>5, WorksStatuses, HandlersFit DEF Works
  <1>6. CASE Settles(j)
    BY <1>0, <1>6 DEF Settles, Terminal
  <1> QED
    BY <1>1, <1>2, <1>3, <1>4, <1>5, <1>6, RowMoves

\* Only the holder writes a record as its handler starts or ends, so not one that another
\* execution has returned from.
LEMMA WorksAlone ==
  ASSUME TypeInv, RecordInv, NEW s \in Slots, Past(s), TypeHeld(s) # "finding_evaluation",
         Works(Held(s))
  PROVE  exec[s].pc \in {"claimed", "working"} /\ Owns(s)
  BY DEF RecordInv, StartedOnce, Works, Past, Starts, Finishes

LEMMA NextReturnsEnded == ASSUME TypeInv, TypeInv', RecordInv, StepOK PROVE ReturnsEnded'
  <1> USE DEF Held, TypeHeld
  <1> SUFFICES ASSUME NEW s \in Slots, exec'[s].pc \in {"returned", "persisting"}
               PROVE  /\ job'[exec'[s].job].type # "finding_evaluation"
                      /\ domain'[exec'[s].job] \in Final
    BY DEF ReturnsEnded
  <1> DEFINE j == exec[s].job
  <1>1. exec[s].pc # "idle" /\ exec'[s].job = j
    BY HeldBefore DEF Looks
  <1>2. j \in Jobs /\ job[j].status # "absent"
    BY <1>1, HeldIsJob DEF RecordInv, Present
  <1>3. /\ job'[j].type = job[j].type
        /\ job[j].type \in JobTypes
        /\ Fit(job[j].type, domain[j])
    BY <1>2, RowMoves, RowFields DEF RecordInv, RecordsFit, TypeInv
  <1>4. SlotStep(s)
    BY DEF StepOK
  <1>5. CASE exec[s].pc \in {"returned", "persisting"}
    <2>1. job[j].type # "finding_evaluation" /\ domain[j] \in Final
      BY <1>5 DEF RecordInv, ReturnsEnded
    <2>2. ~Works(j)
      BY <1>5, <2>1, WorksAlone DEF Past
    <2> QED
      BY <1>1, <1>2, <1>3, <2>1, <2>2, RowMoves
         DEF Keeps, Begins, BeginsAgain, IsClaimed, Settles
  <1>6. CASE Moves(s) /\ exec[s].pc \notin {"returned", "persisting"}
    <2>1. /\ job[j].type = "structured_content_build"
          /\ UNCHANGED <<job, domain>>
      BY <1>6 DEF Moves
    <2>2. domain[j] = "none"
      BY <1>3, <2>1 DEF Fit
    <2>3. "none" \in Final
      BY DEF Final, DomainStatuses, Active, ActiveBuild
    <2> QED
      BY <1>1, <2>1, <2>2, <2>3
  <1>7. CASE Finishes(s)
    BY <1>1, <1>3, <1>7, HandlersFit DEF Finishes
  <1>8. CASE Starts(s) \/ Wins(s) \/ Looks(s) \/ exec'[s] = Idle
    BY <1>8 DEF Starts, Wins, Looks, Idle
  <1> QED
    BY <1>4, <1>5, <1>6, <1>7, <1>8 DEF SlotStep

LEMMA NextPlansEnd == ASSUME TypeInv, TypeInv', RecordInv, StepOK PROVE PlansEnd'
  <1> SUFFICES ASSUME NEW w \in Workers, NEW j \in Jobs, pass'[w].plan[j] # NoPlan
               PROVE  /\ pass'[w].plan[j].domain \in Final
                      /\ Fit(job'[j].type, pass'[w].plan[j].domain)
    BY DEF PlansEnd
  <1>1. job'[j].type = job[j].type /\ PassStep(w)
    BY RowMoves DEF StepOK
  <1>2. CASE pass'[w].plan[j] = pass[w].plan[j]
    BY <1>1, <1>2 DEF RecordInv, PlansEnd
  <1>3. CASE j \in pass[w].todo /\ pass'[w].plan[j] = Planned(j)
    <2>1. job[j].status # "absent"
      BY <1>3 DEF RecordInv, Present, Foreign
    <2> QED
      BY <1>1, <1>3, <2>1, PlannedEnds DEF RecordInv
  <1> QED
    BY <1>1, <1>2, <1>3 DEF PassStep, Forgets, Stamps, PlansOne

LEMMA NextCallsFit == ASSUME TypeInv, TypeInv', RecordInv, StepOK PROVE CallsFit'
  <1> SUFFICES ASSUME NEW c \in Clients, call'[c] # NoCall
               PROVE  /\ job'[call'[c].job].type \in Cancellable
                      /\ job'[call'[c].job].status # "absent"
                      /\ call'[c].status = "queued" =>
                           call'[c].domain = Initial(job'[call'[c].job].type)
    BY DEF CallsFit
  <1>1. CallStep(c)
    BY DEF StepOK
  <1>2. CASE call'[c] = call[c]
    <2>1. call[c].job \in Jobs
      BY <1>2 DEF TypeInv, GoodCalls
    <2> QED
      BY <1>2, <2>1, RowMoves, StaysPresent DEF RecordInv, CallsFit
  <1>3. CASE Reads(c)
    <2>1. PICK j \in Jobs :
            /\ job[j].type \in Cancellable
            /\ job[j].status \in Active
            /\ call'[c] = [job |-> j, status |-> job[j].status, domain |-> domain[j]]
      BY <1>3 DEF Reads
    <2>2. UNCHANGED <<job, domain>>
      BY <1>3 DEF Reads
    <2> QED
      BY <2>1, <2>2 DEF RecordInv, RecordsFit, Active
  <1> QED
    BY <1>1, <1>2, <1>3 DEF CallStep

LEMMA NextNoOrphanRecord == ASSUME TypeInv, TypeInv', RecordInv, StepOK PROVE NoOrphanRecord'
  <1> SUFFICES ASSUME NEW j \in Jobs,
                      job'[j].status \in Terminal,
                      ~(job'[j].type = "category_rule_evaluation" /\ job'[j].status = "interrupted")
               PROVE  domain'[j] \notin Active \cup ActiveBuild
    BY DEF NoOrphanRecord
  <1>1. CASE Keeps(j)
    BY <1>1, RowMoves DEF Keeps, RecordInv, NoOrphanRecord
  <1>2. CASE Settles(j)
    BY <1>2, RowMoves DEF Settles, Final
  <1> QED
    BY <1>1, <1>2, RowMoves DEF Begins, BeginsAgain, IsClaimed, Works, Terminal

-----------------------------------------------------------------------------
LEMMA InitRecordInv == Init => RecordInv
  <1> SUFFICES ASSUME Init PROVE RecordInv
    OBVIOUS
  <1>1. \A j \in Jobs : job[j].status = "absent" /\ domain[j] = "none"
    BY DEF Init
  <1>2. \A s \in Slots : exec[s].pc = "idle"
    BY DEF Init, Idle
  <1>3. \A w \in Workers, j \in Jobs : ~Foreign(w, j)
    BY DEF Init, NoPass, Foreign
  <1>4. \A c \in Clients : call[c] = NoCall
    BY DEF Init
  <1> QED
    BY <1>1, <1>2, <1>3, <1>4
       DEF RecordInv, Present, StartedOnce, Past, RecordsFit, ReturnsEnded, PlansEnd, Foreign,
           CallsFit, NoOrphanRecord, Terminal

LEMMA NextRecordInv == TypeInv /\ RecordInv /\ [Next]_vars => RecordInv'
  <1> SUFFICES ASSUME TypeInv, RecordInv, [Next]_vars PROVE RecordInv'
    OBVIOUS
  <1>1. TypeInv' /\ StepOK
    BY NextTypeInv, EveryStep
  <1> QED
    BY <1>1, NextPresent, NextStartedOnce, NextRecordsFit, NextReturnsEnded, NextPlansEnd,
       NextCallsFit, NextNoOrphanRecord DEF RecordInv

\* The inductive invariant.
THEOREM RecordsConsistent == Spec => []RecordInv
  BY InitRecordInv, NextRecordInv, TypeInvariant, PTL DEF Spec

\* No job ends and leaves its record active, whichever of a handler, a request, a recovery
\* pass or a stale request or pass ended it; only a category run that is shut down may be.
THEOREM RecordsEndWithJobs == Spec => []NoOrphanRecord
  BY RecordsConsistent, PTL DEF RecordInv

-----------------------------------------------------------------------------
(***************************************************************************)
(* Outcomes, for histories in which no cancellation is overtaken: a        *)
(* request that read a queued row still finds it queued when it writes.    *)
(* Without that a job that runs, or has ended, is turned into a cancelled  *)
(* one over whatever its record says.                                      *)
(*                                                                         *)
(* What has to be known besides: a row that a recovery pass holds has no   *)
(* owner, and the pass's plan is what the row and its record still call    *)
(* for, or already are; an execution that has returned holds the outcome   *)
(* its record stands for, and past the point where follow-ups are created  *)
(* they exist.                                                             *)
(***************************************************************************)

Timely ==
  \A c \in Clients :
    CancelWrite(c) /\ call[c].status = "queued" => job[call[c].job].status = "queued"

Recorded(j) == job[j].type \in RunTypes \cup BuildTypes

PlanFits(t, plan) ==
  \/ Reconciled(t, plan.domain) = plan.status
  \/ /\ plan.status = "interrupted"
     /\ t \in RunTypes \cup BuildTypes => plan.domain = InterruptTo(t)

LeasesRun ==
  \A j \in Jobs : /\ job[j].status = "running" => job[j].lease # "none"
                  /\ job[j].status \in {"queued", "absent"} => job[j].token = 0

PassesOwn ==
  \A w \in Workers, j \in Jobs :
    Foreign(w, j) /\ Recorded(j) =>
      /\ job[j].status # "queued"
      /\ \A s \in Slots : Past(s) /\ Held(s) = j => ~Owns(s)

\* What a plan calls for has been done, by another pass or by the execution itself.
Done(j, plan) ==
  /\ plan.status = job[j].status
  /\ plan.domain = domain[j]
  /\ plan.status = "interrupted" => job[j].lease # "none"

PlansHold ==
  \A w \in Workers, j \in Jobs :
    LET plan == pass[w].plan[j]
    IN plan # NoPlan =>
         /\ PlanFits(job[j].type, plan)
         /\ Recorded(j) => \/ job[j].status = "running" /\ plan = Planned(j)
                           \/ Done(j, plan)

ReturnsAgree ==
  \A s \in Slots :
    exec[s].pc \in {"returned", "persisting"} /\ TypeHeld(s) # "structured_content_build" =>
      /\ Reconciled(TypeHeld(s), domain[Held(s)]) = exec[s].outcome
      /\ exec[s].outcome \notin {"interrupted", InterruptTo(TypeHeld(s))}
      /\ job[Held(s)].status \in Terminal => job[Held(s)].status = exec[s].outcome

WorkOpen ==
  \A s \in Slots :
    Past(s) /\ Owns(s) /\ TypeHeld(s) # "structured_content_build" =>
      /\ exec[s].pc \in {"claimed", "working"} => domain[Held(s)] \in Active \cup ActiveBuild
      /\ exec[s].pc = "cancelling" =>
           domain[Held(s)] \in Active \cup ActiveBuild \cup {"cancelled"}

StagedFirst ==
  \A s \in Slots :
    /\ Past(s)
    /\ exec[s].pc # "returned"
    /\ FollowupsDue(TypeHeld(s), domain[Held(s)])
    => staged[Held(s)] \/ (TypeHeld(s) = "scan" /\ exec[s].pc # "persisting")

AgreeInv ==
  /\ LeasesRun
  /\ PassesOwn
  /\ PlansHold
  /\ ReturnsAgree
  /\ WorkOpen
  /\ StagedFirst
  /\ OutcomeAgrees
  /\ FollowupsStaged

-----------------------------------------------------------------------------
\* What the hooks and the handlers' last statuses come to.
LEMMA HookOutcomes ==
  ASSUME NEW t \in JobTypes, NEW d \in DomainStatuses, Fit(t, d)
  PROVE  /\ t # "structured_content_build" /\ d \in Active \cup ActiveBuild \cup {"cancelled"} =>
              Reconciled(t, Cancelled(t, d)) = "cancelled"
         /\ t # "scan" /\ FollowupsDue(t, Cancelled(t, d)) => Cancelled(t, d) = d
         /\ t # "scan" /\ FollowupsDue(t, Failed(t, d)) => Failed(t, d) = d
         /\ t # "scan" /\ FollowupsDue(t, Interrupted(t, d, "worker_shutdown")) =>
              Interrupted(t, d, "worker_shutdown") = d
  <1> USE DEF Fit, Cancelled, Failed, Interrupted, InterruptFrom, InterruptTo, FollowupsDue,
              TerminalizeFrom, Guarded, Move, Reconciled, DomainStatuses, JobStatuses,
              Active, Terminal, ActiveBuild, BuildTypes, RunTypes
  <1>1. CASE t \in BuildTypes
    BY <1>1
  <1>2. CASE t \in RunTypes
    BY <1>2
  <1>3. CASE t \in {"structured_content_build", "finding_evaluation"}
    BY <1>3
  <1> QED
    BY <1>1, <1>2, <1>3 DEF JobTypes

LEMMA HandlerOutcomes ==
  ASSUME NEW t \in JobTypes, NEW d \in EndStatuses(t)
  PROVE  /\ Ended(t, d).pc = "returned" =>
              /\ Reconciled(t, d) = Ended(t, d).outcome
              /\ Ended(t, d).outcome \notin {"interrupted", InterruptTo(t)}
         /\ FollowupsDue(t, d) => Ended(t, d).pc = "returned"
         /\ Ended(t, d).pc \in {"returned", "cancelling", "failing"}
         /\ Ended(t, d).pc = "cancelling" => d = "cancelled"
  <1> USE DEF EndStatuses, Ended, Reconciled, InterruptTo, FollowupsDue, Terminal, BuildTypes,
              RunTypes
  <1>1. CASE t \in BuildTypes
    BY <1>1
  <1>2. CASE t \in {"scan", "source_refresh", "category_rule_evaluation"}
    BY <1>2
  <1>3. CASE t \in {"performance_run", "accessibility_run", "render_run"}
    BY <1>3
  <1>4. CASE t \in {"structured_content_build", "finding_evaluation"}
    BY <1>4
  <1> QED
    BY <1>1, <1>2, <1>3, <1>4 DEF JobTypes

LEMMA StartsOpen ==
  ASSUME NEW t \in JobTypes, NEW d \in StartStatuses(t)
  PROVE  d \in Active \cup ActiveBuild /\ ~FollowupsDue(t, d)
  BY DEF StartStatuses, FollowupsDue, Active, ActiveBuild, Terminal, RunTypes, BuildTypes

LEMMA InitialOutcomes ==
  ASSUME NEW t \in JobTypes
  PROVE  /\ ~FollowupsDue(t, Initial(t))
         /\ t # "structured_content_build" =>
              /\ Initial(t) \in Active
              /\ Reconciled(t, Move(QueuedCancelFrom(t), "cancelled", Initial(t))) = "cancelled"
  BY DEF Initial, FollowupsDue, Reconciled, Move, QueuedCancelFrom, Guarded, Active, Terminal,
         ActiveBuild, DomainStatuses, JobStatuses, RunTypes, BuildTypes, JobTypes

\* A plan settles the job as its record says, or interrupts both.
LEMMA PlanOutcomes ==
  ASSUME NEW t \in RunTypes \cup BuildTypes, NEW plan, PlanFits(t, plan)
  PROVE  /\ \/ plan.status = Reconciled(t, plan.domain)
            \/ Reconciled(t, plan.domain) = InterruptTo(t) /\ plan.status = "interrupted"
         /\ plan.status = "interrupted" /\ t # "scan" => ~FollowupsDue(t, plan.domain)
  BY DEF PlanFits, Reconciled, InterruptTo, FollowupsDue, Terminal, RunTypes, BuildTypes

LEMMA PlannedFits ==
  ASSUME TypeInv, RecordsFit, NEW j \in Jobs, job[j].status # "absent"
  PROVE  PlanFits(job[j].type, Planned(j))
  <1> DEFINE t == job[j].type
             d == domain[j]
  <1>1. t \in JobTypes /\ d \in DomainStatuses /\ Fit(t, d)
    BY RowFields DEF TypeInv, RecordsFit
  <1>2. CASE Reconcilable(j)
    BY <1>2 DEF Planned, PlanFits
  <1>3. CASE ~Reconcilable(j)
    <2>1. t \in RunTypes \cup BuildTypes => Interrupted(t, d, "lease_expired") = InterruptTo(t)
      <3> HIDE DEF t, d
      <3> QED
        BY <1>1, <1>3 DEF Reconcilable, Reconciled, Interrupted, InterruptFrom, TerminalizeFrom,
             Guarded, Move, Fit, DomainStatuses, JobStatuses, Active, Terminal, ActiveBuild,
             RunTypes, BuildTypes, t, d
    <2> QED
      BY <1>3, <2>1 DEF Planned, PlanFits
  <1> QED
    BY <1>2, <1>3

-----------------------------------------------------------------------------
LEMMA HeldOnce ==
  ASSUME TypeInv, RecordInv, NEW s \in Slots, NEW o \in Slots, Past(s), Past(o),
         Held(o) = Held(s), TypeHeld(s) # "finding_evaluation"
  PROVE  o = s
  BY DEF RecordInv, StartedOnce

LEMMA PastHolds ==
  ASSUME TypeInv, RecordInv, NEW s \in Slots, Past(s)
  PROVE  /\ Held(s) \in Jobs
         /\ job[Held(s)].status # "absent"
         /\ TypeHeld(s) \in JobTypes
         /\ domain[Held(s)] \in DomainStatuses
         /\ Fit(TypeHeld(s), domain[Held(s)])
         /\ TypeHeld(s) # "finding_evaluation" => job[Held(s)].status # "queued"
  <1>1. Held(s) \in Jobs /\ job[Held(s)].status # "absent"
    BY HeldIsJob DEF Past, RecordInv, Present
  <1> QED
    BY <1>1, RowFields DEF TypeHeld, RecordInv, RecordsFit, StartedOnce, TypeInv

\* A request that is not overtaken cancels the job as it found it.
LEMMA TimelyEnds ==
  ASSUME TypeInv, RecordInv, Timely, NEW j \in Jobs, EndsRequested(j)
  PROVE  EndsQueued(j)
  <1>1. PICK c \in Clients :
          /\ CancelWrite(c)
          /\ call[c].job = j
          /\ call[c].status = "queued"
          /\ \E d \in {call[c].domain} \cup Latest(j) :
               domain'[j] = IF d \in QueuedCancelFrom(job[j].type) THEN "cancelled" ELSE domain[j]
    BY DEF EndsRequested
  <1>2. PICK d \in {call[c].domain} \cup Latest(j) :
          domain'[j] = IF d \in QueuedCancelFrom(job[j].type) THEN "cancelled" ELSE domain[j]
    BY <1>1
  <1>3. job[j].status = "queued" /\ call[c] # NoCall
    BY <1>1 DEF Timely, CancelWrite
  <1>4. domain[j] = Initial(job[j].type) /\ call[c].domain = Initial(job[j].type)
    BY <1>1, <1>3 DEF RecordInv, RecordsFit, CallsFit
  <1>5. d = domain[j]
    BY <1>2, <1>4 DEF Latest
  <1> QED
    BY <1>2, <1>3, <1>5 DEF EndsRequested, EndsQueued, Move

\* What a recovery pass writes is called for by the row it finds, or already so.
LEMMA RecoveredAs ==
  ASSUME TypeInv, RecordInv, AgreeInv, NEW j \in Jobs, EndsRecovered(j)
  PROVE  \E plan \in Plans :
           /\ EndsAs(j, plan)
           /\ plan.status \in Terminal
           /\ PlanFits(job[j].type, plan)
           /\ Recorded(j) =>
                /\ \/ job[j].status = "running" /\ plan = Planned(j)
                   \/ plan.status = job[j].status /\ plan.domain = domain[j]
                /\ plan.status = "interrupted" => job'[j].lease # "none"
  <1>1. CASE /\ job[j].status = "running"
             /\ EndsAs(j, Planned(j))
             /\ job'[j].lease = "none" => job[j].lease = "none" \/ Reconcilable(j)
    <2>1. Planned(j) \in Plans /\ Planned(j).status \in Terminal
      BY PlannedType DEF TypeInv
    <2>2. PlanFits(job[j].type, Planned(j))
      BY <1>1, PlannedFits DEF RecordInv
    <2>3. Recorded(j) /\ Planned(j).status = "interrupted" => ~Reconcilable(j)
      <3> SUFFICES ASSUME Recorded(j), Planned(j).status = "interrupted", Reconcilable(j)
                   PROVE  FALSE
        OBVIOUS
      <3>1. Reconciled(job[j].type, domain[j]) = "interrupted"
        BY DEF Planned
      <3>2. domain[j] = "interrupted"
        BY <3>1 DEF Recorded, Reconciled, RunTypes, BuildTypes
      <3> QED
        BY <1>1, <3>2 DEF RecordInv, RecordsFit
    <2>4. job[j].lease # "none"
      BY <1>1 DEF AgreeInv, LeasesRun
    <2> QED
      BY <1>1, <2>1, <2>2, <2>3, <2>4
  <1>2. ASSUME NEW w \in Workers, pass[w].plan[j] # NoPlan, EndsAs(j, pass[w].plan[j]),
               job'[j].lease = "none" =>
                 job[j].lease = "none" \/ pass[w].plan[j].status # "interrupted"
        PROVE  \E plan \in Plans :
                 /\ EndsAs(j, plan)
                 /\ plan.status \in Terminal
                 /\ PlanFits(job[j].type, plan)
                 /\ Recorded(j) =>
                      /\ \/ job[j].status = "running" /\ plan = Planned(j)
                         \/ plan.status = job[j].status /\ plan.domain = domain[j]
                      /\ plan.status = "interrupted" => job'[j].lease # "none"
    <2> DEFINE plan == pass[w].plan[j]
    <2>1. plan \in Plans /\ plan.status \in Terminal
      BY <1>2 DEF TypeInv, GoodPasses, PassStates
    <2>2. /\ PlanFits(job[j].type, plan)
          /\ Recorded(j) => \/ job[j].status = "running" /\ plan = Planned(j)
                            \/ Done(j, plan)
      BY <1>2 DEF AgreeInv, PlansHold
    <2>3. job[j].status = "running" => job[j].lease # "none"
      BY DEF AgreeInv, LeasesRun
    <2> HIDE DEF plan
    <2> QED
      BY <1>2, <2>1, <2>2, <2>3 DEF Done, plan
  <1> QED
    BY <1>1, <1>2 DEF EndsRecovered

\* A record that an execution has returned from, and the job's outcome, stay as they are.
LEMMA ReturnsStand ==
  ASSUME TypeInv, RecordInv, AgreeInv, StepOK, Timely, NEW s \in Slots,
         exec[s].pc \in {"returned", "persisting"}, TypeHeld(s) # "structured_content_build"
  PROVE  /\ domain'[Held(s)] = domain[Held(s)]
         /\ job'[Held(s)].status \in Terminal => job'[Held(s)].status = exec[s].outcome
  <1> DEFINE j == Held(s)
             t == job[j].type
  <1>0. Past(s) /\ t # "finding_evaluation"
    BY DEF Past, RecordInv, ReturnsEnded, TypeHeld
  <1>1. j \in Jobs /\ t \in JobTypes /\ job[j].status \notin {"absent", "queued"}
    BY <1>0, PastHolds DEF TypeHeld
  <1>2. /\ Reconciled(t, domain[j]) = exec[s].outcome
        /\ exec[s].outcome # "none"
        /\ exec[s].outcome \notin {"interrupted", InterruptTo(t)}
        /\ job[j].status \in Terminal => job[j].status = exec[s].outcome
    BY <1>0 DEF AgreeInv, ReturnsAgree, TypeHeld, TypeInv, GoodSlots, Terminal
  <1>3. \A o \in Slots : Past(o) /\ Held(o) = j => o = s
    BY <1>0, HeldOnce DEF TypeHeld
  <1>4. RowStep(j)
    BY <1>1 DEF StepOK
  <1>5. CASE Keeps(j)
    BY <1>2, <1>5 DEF Keeps
  <1>6. ~Begins(j) /\ ~BeginsAgain(j) /\ ~IsClaimed(j) /\ ~EndsQueued(j) /\ ~EndsRequested(j)
    BY <1>0, <1>1, TimelyEnds DEF Begins, BeginsAgain, IsClaimed, EndsQueued
  <1>7. ~Works(j)
    BY <1>0, WorksAlone DEF TypeHeld
  <1>8. CASE EndsHeld(j)
    BY <1>0, <1>3, <1>8 DEF EndsHeld, Past
  <1>9. CASE EndsLate(j)
    BY <1>3, <1>9 DEF EndsLate, Past
  <1>10. CASE EndsRecovered(j)
    <2>1. PICK plan \in Plans :
            /\ EndsAs(j, plan)
            /\ \/ job[j].status = "running" /\ plan = Planned(j)
               \/ plan.status = job[j].status /\ plan.domain = domain[j] /\ plan.status \in Terminal
      <3>1. Recorded(j)
        BY <1>0, <1>1 DEF Recorded, JobTypes, TypeHeld
      <3> HIDE DEF j, t
      <3> QED
        BY <1>1, <1>10, <3>1, RecoveredAs
    <2>2. Reconcilable(j)
      BY <1>2 DEF Reconcilable
    <2> QED
      BY <1>2, <2>1, <2>2 DEF EndsAs, Planned
  <1> QED
    BY <1>4, <1>5, <1>6, <1>7, <1>8, <1>9, <1>10 DEF RowStep

-----------------------------------------------------------------------------
\* The row cases again, with a timely request as the cancellation of a queued job.
LEMMA RowCases ==
  ASSUME TypeInv, RecordInv, StepOK, Timely, NEW j \in Jobs
  PROVE  /\ job'[j].type = job[j].type
         /\ staged[j] => staged'[j]
         /\ \/ Keeps(j) \/ Begins(j) \/ BeginsAgain(j) \/ IsClaimed(j) \/ Works(j)
            \/ EndsQueued(j) \/ EndsHeld(j) \/ EndsLate(j) \/ EndsRecovered(j)
  BY TimelyEnds DEF StepOK, RowStep

\* An execution that holds the lease after a step has just won it, or held it before.
LEMMA OwnedBefore ==
  ASSUME TypeInv, TokenInv, [Next]_vars, StepOK, NEW s \in Slots, Past(s)', Owns(s)'
  PROVE  Wins(s) \/ (Past(s) /\ SameHold(s) /\ Owns(s))
  BY PastBefore, StaleStaysStale DEF Past, SameHold, Held

LEMMA NextLeasesRun ==
  ASSUME TypeInv, TypeInv', RecordInv, AgreeInv, StepOK, Timely
  PROVE  LeasesRun'
  <1> SUFFICES ASSUME NEW j \in Jobs
               PROVE  /\ job'[j].status = "running" => job'[j].lease # "none"
                      /\ job'[j].status \in {"queued", "absent"} => job'[j].token = 0
    BY DEF LeasesRun
  <1>1. /\ job[j].status = "running" => job[j].lease # "none"
        /\ job[j].status \in {"queued", "absent"} => job[j].token = 0
    BY DEF AgreeInv, LeasesRun
  <1> QED
    BY <1>1, RowMoves DEF Keeps, Begins, BeginsAgain, IsClaimed, Works, Settles, Terminal

LEMMA NextPassesOwn ==
  ASSUME TypeInv, TypeInv', TokenInv, [Next]_vars, RecordInv, AgreeInv, StepOK, Timely
  PROVE  PassesOwn'
  <1> SUFFICES ASSUME NEW w \in Workers, NEW j \in Jobs, Foreign(w, j)', Recorded(j)'
               PROVE  /\ job'[j].status # "queued"
                      /\ \A s \in Slots : Past(s)' /\ exec'[s].job = j => ~Owns(s)'
    BY DEF PassesOwn, Held
  <1>0. Recorded(j) /\ job[j].type # "finding_evaluation"
    BY RowMoves DEF Recorded, RunTypes, BuildTypes
  <1>1. CASE Foreign(w, j)
    <2>1. /\ job[j].status \notin {"queued", "absent"}
          /\ \A s \in Slots : Past(s) /\ Held(s) = j => ~Owns(s)
      BY <1>0, <1>1 DEF AgreeInv, PassesOwn, RecordInv, Present
    <2>2. job'[j].status # "queued"
      BY <1>0, <2>1, RowMoves
         DEF Keeps, Begins, BeginsAgain, IsClaimed, Works, Settles, Terminal
    <2>3. ASSUME NEW s \in Slots, Past(s)', exec'[s].job = j, Owns(s)' PROVE FALSE
      <3>1. Past(s) /\ SameHold(s) /\ Owns(s)
        BY <2>1, <2>3, OwnedBefore DEF Wins, Held
      <3> QED
        BY <2>1, <2>3, <3>1 DEF SameHold, Held
    <2> QED
      BY <2>2, <2>3
  <1>2. CASE j \in pass'[w].todo /\ Stamps(w)
    <2>1. job[j].status = "running" /\ job'[j].status = "running" /\ job'[j].token = nextToken
      BY <1>2 DEF Stamps
    <2>2. ASSUME NEW s \in Slots, Past(s)', exec'[s].job = j, Owns(s)' PROVE FALSE
      <3>1. SameHold(s)
        BY <2>1, <2>2, OwnedBefore DEF Wins, Held
      <3>2. exec[s].token = nextToken
        BY <2>1, <2>2, <3>1 DEF Owns, Held, SameHold
      <3> QED
        BY <3>2, TokenTypes DEF TokenInv
    <2> QED
      BY <2>1, <2>2
  <1>3. PassStep(w)
    BY DEF StepOK
  <1> QED
    BY <1>1, <1>2, <1>3 DEF PassStep, Forgets, PlansOne, Stamps, Foreign

LEMMA NextPlansHold ==
  ASSUME TypeInv, TypeInv', RecordInv, AgreeInv, StepOK, Timely
  PROVE  PlansHold'
  <1> SUFFICES ASSUME NEW w \in Workers, NEW j \in Jobs, NEW plan,
                      plan = pass'[w].plan[j], plan # NoPlan
               PROVE  /\ PlanFits(job'[j].type, plan)
                      /\ Recorded(j)' => \/ job'[j].status = "running" /\ plan = Planned(j)'
                                         \/ Done(j, plan)'
    BY DEF PlansHold, Done
  <1>1. /\ job'[j].type = job[j].type
        /\ Recorded(j)' <=> Recorded(j)
        /\ Recorded(j) => job[j].type # "finding_evaluation"
    BY RowCases DEF Recorded, RunTypes, BuildTypes
  <1>2. domain'[j] = domain[j] => Planned(j)' = Planned(j)
    BY <1>1 DEF Planned, Reconcilable
  <1>3. CASE plan = pass[w].plan[j]
    <2>0. PlanFits(job[j].type, plan)
      BY <1>3 DEF AgreeInv, PlansHold
    <2> SUFFICES ASSUME Recorded(j)
                 PROVE  \/ job'[j].status = "running" /\ plan = Planned(j)'
                        \/ Done(j, plan)'
      BY <1>1, <2>0
    <2>1. /\ plan \in Plans /\ plan.status \in Terminal
          /\ job[j].status \notin {"absent", "queued"}
          /\ \A s \in Slots : Past(s) /\ Held(s) = j => ~Owns(s)
      <3>1. Foreign(w, j)
        BY <1>3 DEF Foreign
      <3> QED
        BY <1>3, <3>1 DEF TypeInv, GoodPasses, PassStates, RecordInv, Present, AgreeInv, PassesOwn
    <2>2. \/ job[j].status = "running" /\ plan = Planned(j)
          \/ Done(j, plan)
      BY <1>3 DEF AgreeInv, PlansHold
    <2>3. ~Begins(j) /\ ~BeginsAgain(j) /\ ~IsClaimed(j) /\ ~EndsQueued(j)
      BY <1>1, <2>1 DEF Begins, BeginsAgain, IsClaimed, EndsQueued
    <2>4. ~Works(j) /\ ~EndsHeld(j)
      BY <2>1 DEF Works, EndsHeld, Starts, Finishes, Past
    <2>5. CASE Keeps(j)
      BY <1>2, <2>2, <2>5 DEF Keeps, Done
    <2>6. CASE EndsLate(j)
      <3>1. PICK s \in Slots : /\ exec[s].pc = "persisting" /\ Held(s) = j
                               /\ job'[j].status = exec[s].outcome /\ domain'[j] = domain[j]
        BY <2>6 DEF EndsLate
      <3>2. /\ Reconciled(job[j].type, domain[j]) = exec[s].outcome
            /\ exec[s].outcome \notin {"none", "interrupted", InterruptTo(job[j].type)}
        <4>1. job[j].type # "structured_content_build"
          BY DEF Recorded, RunTypes, BuildTypes
        <4> QED
          BY <3>1, <4>1 DEF AgreeInv, ReturnsAgree, TypeHeld, TypeInv, GoodSlots, Terminal
      <3>3. CASE plan = Planned(j)
        BY <3>1, <3>2, <3>3 DEF Planned, Reconcilable, Done
      <3>4. CASE Done(j, plan)
        BY <2>0, <3>1, <3>2, <3>4, PlanOutcomes DEF Done, Recorded
      <3> QED
        BY <2>2, <3>3, <3>4
    <2>7. CASE EndsRecovered(j)
      <3>1. PICK other \in Plans :
              /\ EndsAs(j, other)
              /\ other.status \in Terminal
              /\ \/ job[j].status = "running" /\ other = Planned(j)
                 \/ other.status = job[j].status /\ other.domain = domain[j]
              /\ other.status = "interrupted" => job'[j].lease # "none"
        BY <2>7, RecoveredAs
      <3>2. plan.status = other.status /\ plan.domain = other.domain
        BY <2>1, <2>2, <3>1 DEF Done, Terminal
      <3> QED
        BY <3>1, <3>2 DEF EndsAs, Done
    <2> QED
      BY <2>3, <2>4, <2>5, <2>6, <2>7, RowCases
  <1>4. CASE PlansOne(w) /\ plan # pass[w].plan[j]
    <2>1. /\ UNCHANGED <<job, domain>>
          /\ j \in pass[w].todo
          /\ plan = Planned(j)
          /\ Planned(j).status \in LegalTransitions[job[j].status]
      BY <1>4 DEF PlansOne
    <2>2. job[j].status # "absent" /\ (Recorded(j) => job[j].status # "queued")
      BY <2>1 DEF Foreign, RecordInv, Present, AgreeInv, PassesOwn
    <2>3. Recorded(j) => job[j].status = "running"
      <3>1. Planned(j).status \in Terminal
        BY PlannedType DEF TypeInv
      <3>2. job[j].status \in JobStatuses
        BY <2>2, RowFields DEF TypeInv
      <3> QED
        BY <2>1, <2>2, <3>1, <3>2 DEF LegalTransitions, JobStatuses, Terminal, Active
    <2> QED
      BY <1>1, <1>2, <2>1, <2>2, <2>3, PlannedFits DEF RecordInv
  <1>5. PassStep(w)
    BY DEF StepOK
  <1> QED
    BY <1>3, <1>4, <1>5 DEF PassStep, Forgets, Stamps

LEMMA NextReturnsAgree ==
  ASSUME TypeInv, TypeInv', RecordInv, RecordInv', AgreeInv, StepOK, Timely
  PROVE  ReturnsAgree'
  <1> USE DEF Held, TypeHeld
  <1> SUFFICES ASSUME NEW s \in Slots, exec'[s].pc \in {"returned", "persisting"},
                      job'[exec'[s].job].type # "structured_content_build"
               PROVE  /\ Reconciled(job'[exec'[s].job].type, domain'[exec'[s].job])
                           = exec'[s].outcome
                      /\ exec'[s].outcome \notin
                           {"interrupted", InterruptTo(job'[exec'[s].job].type)}
                      /\ job'[exec'[s].job].status \in Terminal =>
                           job'[exec'[s].job].status = exec'[s].outcome
    BY DEF ReturnsAgree
  <1> DEFINE j == exec[s].job
  <1>1. exec[s].pc # "idle" /\ exec'[s].job = j /\ j \in Jobs
    BY HeldBefore, HeldIsJob DEF Looks
  <1>2. /\ job'[j].type = job[j].type /\ job[j].type \in JobTypes
        /\ job[j].type # "structured_content_build"
    BY <1>1, RowMoves, RowFields DEF TypeInv
  <1>3. SlotStep(s)
    BY DEF StepOK
  <1>4. CASE exec[s].pc \in {"returned", "persisting"} /\ exec'[s].outcome = exec[s].outcome
    <2>1. /\ Reconciled(job[j].type, domain[j]) = exec[s].outcome
          /\ exec[s].outcome \notin {"interrupted", InterruptTo(job[j].type)}
      BY <1>2, <1>4 DEF AgreeInv, ReturnsAgree
    <2>2. /\ domain'[j] = domain[j]
          /\ job'[j].status \in Terminal => job'[j].status = exec[s].outcome
      BY <1>2, <1>4, ReturnsStand
    <2> QED
      BY <1>1, <1>2, <1>4, <2>1, <2>2
  <1>5. CASE Finishes(s)
    <2>1. PICK d \in EndStatuses(job[j].type) :
            /\ domain'[j] = d
            /\ exec'[s].pc = Ended(job[j].type, d).pc
            /\ exec'[s].outcome = Ended(job[j].type, d).outcome
      BY <1>5 DEF Finishes
    <2>2. Ended(job[j].type, d).pc = "returned"
      BY <1>2, <2>1, HandlerOutcomes
    <2>3. job'[j].status = "running"
      BY <1>5 DEF Finishes
    <2>4. /\ Reconciled(job[j].type, d) = exec'[s].outcome
          /\ exec'[s].outcome \notin {"interrupted", InterruptTo(job[j].type)}
      BY <1>2, <2>1, <2>2, HandlerOutcomes
    <2> QED
      BY <1>1, <1>2, <2>1, <2>3, <2>4 DEF Terminal
  <1>6. CASE Moves(s)
    BY <1>2, <1>4, <1>6 DEF Moves
  <1>7. CASE Starts(s) \/ Wins(s) \/ Looks(s) \/ exec'[s] = Idle
    BY <1>7 DEF Starts, Wins, Looks, Idle
  <1>8. CASE exec'[s] = exec[s]
    BY <1>4, <1>8
  <1> QED
    BY <1>3, <1>5, <1>6, <1>7, <1>8 DEF SlotStep

LEMMA NextWorkOpen ==
  ASSUME TypeInv, TypeInv', TokenInv, [Next]_vars, RecordInv, AgreeInv, StepOK, Timely
  PROVE  WorkOpen'
  <1> USE DEF Held, TypeHeld
  <1> SUFFICES ASSUME NEW s \in Slots, Past(s)', Owns(s)',
                      job'[exec'[s].job].type # "structured_content_build"
               PROVE  /\ exec'[s].pc \in {"claimed", "working"} =>
                           domain'[exec'[s].job] \in Active \cup ActiveBuild
                      /\ exec'[s].pc = "cancelling" =>
                           domain'[exec'[s].job] \in Active \cup ActiveBuild \cup {"cancelled"}
    BY DEF WorkOpen
  <1> DEFINE j == exec[s].job
  <1>1. exec'[s].job = j /\ exec[s].pc # "idle" /\ j \in Jobs /\ job'[j].status = "running"
    BY OwnedBefore, HeldIsJob DEF Wins, SameHold, Past, Owns
  <1>2. /\ job'[j].type = job[j].type /\ job[j].type \in JobTypes
        /\ job[j].type # "structured_content_build"
    BY <1>1, RowMoves, RowFields DEF TypeInv
  <1>3. CASE Wins(s)
    BY <1>1, <1>2, <1>3, InitialOutcomes DEF Wins, RecordInv, RecordsFit
  <1>4. CASE Past(s) /\ SameHold(s) /\ Owns(s)
    <2>1. /\ exec[s].pc \in {"claimed", "working"} => domain[j] \in Active \cup ActiveBuild
          /\ exec[s].pc = "cancelling" => domain[j] \in Active \cup ActiveBuild \cup {"cancelled"}
      BY <1>2, <1>4 DEF AgreeInv, WorkOpen
    <2>2. SlotStep(s) /\ exec'[s].pc \notin {"idle", "claiming"}
      BY DEF StepOK, Past
    <2>3. CASE exec'[s] = exec[s]
      <3>1. job[j].status = "running"
        BY <1>4 DEF Owns
      <3>2. ASSUME Works(j) PROVE FALSE
        <4>1. PICK o \in Slots : exec[o].job = j /\ (Starts(o) \/ Finishes(o))
          BY <3>2 DEF Works
        <4>2. Past(o) /\ job[j].type # "finding_evaluation"
          BY <1>2, <3>2, <4>1, WorksStatuses, HandlersFit DEF Starts, Finishes, Past
        <4>3. o = s
          BY <1>4, <4>1, <4>2, HeldOnce
        <4>4. Starts(s) => exec'[s].pc # exec[s].pc
          BY DEF Starts
        <4>5. Finishes(s) => exec'[s].pc # exec[s].pc
          BY <1>2, HandlerOutcomes DEF Finishes
        <4> QED
          BY <2>3, <4>1, <4>3, <4>4, <4>5
      <3>3. Keeps(j)
        BY <1>1, <3>1, <3>2, RowMoves DEF Begins, BeginsAgain, IsClaimed, Settles, Terminal
      <3> QED
        BY <1>1, <2>1, <2>3, <3>3 DEF Keeps
    <2>4. CASE Moves(s)
      BY <1>1, <2>1, <2>4 DEF Moves
    <2>5. CASE Starts(s)
      BY <1>1, <1>2, <2>5, StartsOpen DEF Starts
    <2>6. CASE Finishes(s)
      BY <1>1, <1>2, <2>6, HandlerOutcomes DEF Finishes
    <2> QED
      BY <1>4, <2>2, <2>3, <2>4, <2>5, <2>6 DEF SlotStep, Looks, Wins, Past, Idle
  <1> QED
    BY <1>3, <1>4, OwnedBefore

LEMMA NextStagedFirst ==
  ASSUME TypeInv, TypeInv', RecordInv, RecordInv', AgreeInv, StepOK, Timely
  PROVE  StagedFirst'
  <1> USE DEF Held, TypeHeld
  <1> SUFFICES ASSUME NEW s \in Slots, Past(s)', exec'[s].pc # "returned",
                      FollowupsDue(job'[exec'[s].job].type, domain'[exec'[s].job]),
                      ~(job'[exec'[s].job].type = "scan" /\ exec'[s].pc # "persisting")
               PROVE  staged'[exec'[s].job]
    BY DEF StagedFirst
  <1> DEFINE j == exec[s].job
             t == job[j].type
  <1>1. exec'[s].job = j /\ exec[s].pc # "idle" /\ j \in Jobs
    BY PastBefore, HeldIsJob DEF Wins, SameHold, Past
  <1>2. job'[j].type = t /\ t \in JobTypes /\ (staged[j] => staged'[j])
    BY <1>1, RowCases, RowFields DEF TypeInv
  <1>3. t \notin {"finding_evaluation", "structured_content_build"}
    BY <1>1, <1>2 DEF FollowupsDue
  <1>4. ~Wins(s)
    BY <1>1, <1>2, InitialOutcomes DEF Wins, RecordInv, RecordsFit
  <1>5. Past(s) /\ SameHold(s) /\ SlotStep(s)
    BY <1>4, PastBefore DEF StepOK
  <1>6. domain'[j] = domain[j] /\ exec[s].pc # "returned" => staged'[j]
    <2> SUFFICES ASSUME domain'[j] = domain[j], exec[s].pc # "returned" PROVE staged'[j]
      OBVIOUS
    <2>1. exec[s].pc = "persisting" \/ t # "scan"
      BY <1>1, <1>2, <1>5, HandlerOutcomes
         DEF SlotStep, Looks, Wins, Moves, Starts, Finishes, Past, Idle
    <2> QED
      BY <1>1, <1>2, <1>5, <2>1 DEF AgreeInv, StagedFirst
  <1>7. CASE exec[s].pc \in {"returned", "persisting"}
    <2>1. domain'[j] = domain[j]
      BY <1>3, <1>7, ReturnsStand
    <2>2. CASE exec[s].pc = "persisting"
      BY <1>1, <1>6, <2>1, <2>2
    <2>3. CASE exec[s].pc = "returned"
      <3>1. Moves(s)
        BY <1>5, <2>3 DEF SlotStep, Looks, Wins, Starts, Finishes, Past, Idle
      <3> QED
        BY <1>1, <1>2, <2>1, <2>3, <3>1 DEF Moves
    <2> QED
      BY <1>7, <2>2, <2>3
  <1>8. CASE exec[s].pc \notin {"returned", "persisting"}
    <2>0. exec'[s].pc # "persisting" /\ t # "scan"
      <3>1. exec'[s].pc # "persisting"
        BY <1>2, <1>5, <1>8, HandlerOutcomes
           DEF SlotStep, Looks, Wins, Moves, Starts, Finishes, Past, Idle
      <3> QED
        BY <1>1, <1>2, <3>1
    <2>1. job[j].status \notin {"absent", "queued"} /\ Fit(t, domain[j]) /\ domain[j] \in DomainStatuses
      BY <1>3, <1>5, PastHolds
    <2>2. \A o \in Slots : Past(o) /\ exec[o].job = j => o = s
      BY <1>3, <1>5, HeldOnce
    <2>3. CASE Keeps(j)
      BY <1>1, <1>6, <1>8, <2>3 DEF Keeps
    <2>4. ~Begins(j) /\ ~BeginsAgain(j) /\ ~IsClaimed(j) /\ ~EndsQueued(j)
      BY <1>3, <2>1 DEF Begins, BeginsAgain, IsClaimed, EndsQueued
    <2>5. ~Works(j)
      <3> SUFFICES ASSUME Works(j) PROVE FALSE
        OBVIOUS
      <3>1. Starts(s) \/ Finishes(s)
        BY <2>2 DEF Works, Starts, Finishes, Past
      <3>2. ~Starts(s)
        BY <1>1, <1>2, StartsOpen DEF Starts
      <3>3. ~Finishes(s)
        BY <1>1, <1>2, HandlerOutcomes DEF Finishes
      <3> QED
        BY <3>1, <3>2, <3>3
    <2>6. CASE EndsHeld(j)
      <3>1. \/ domain'[j] \in {Cancelled(t, domain[j]), Failed(t, domain[j]),
                               Interrupted(t, domain[j], "worker_shutdown")}
            \/ domain'[j] = domain[j]
        BY <1>3, <2>6 DEF EndsHeld
      <3>2. domain'[j] = domain[j]
        <4> HIDE DEF t
        <4> QED
          BY <1>1, <1>2, <2>0, <2>1, <3>1, HookOutcomes
      <3> QED
        BY <1>1, <1>6, <1>8, <3>2
    <2>7. CASE EndsLate(j)
      BY <1>1, <1>6, <1>8, <2>7 DEF EndsLate
    <2>8. CASE EndsRecovered(j)
      <3>1. PICK plan \in Plans :
              EndsAs(j, plan) /\ PlanFits(t, plan) /\ plan.status \in Terminal
        BY <1>1, <2>8, RecoveredAs
      <3>2. plan.status # "interrupted"
        <4>1. t \in RunTypes \cup BuildTypes
          BY <1>2, <1>3 DEF JobTypes
        <4> HIDE DEF t
        <4> QED
          BY <1>1, <1>2, <2>0, <3>1, <4>1, PlanOutcomes DEF EndsAs
      <3> QED
        BY <1>1, <1>2, <3>1, <3>2 DEF EndsAs, StagedBy, Terminal
    <2> QED
      BY <1>1, <2>3, <2>4, <2>5, <2>6, <2>7, <2>8, RowCases
  <1> QED
    BY <1>7, <1>8

LEMMA NextOutcomeAgrees ==
  ASSUME TypeInv, TypeInv', RecordInv, AgreeInv, StepOK, Timely
  PROVE  OutcomeAgrees'
  <1> SUFFICES ASSUME NEW j \in Jobs,
                      job'[j].status \in {"completed", "completed_with_errors", "cancelled"},
                      job'[j].type # "structured_content_build"
               PROVE  Reconciled(job'[j].type, domain'[j]) = job'[j].status
    BY DEF OutcomeAgrees
  <1> DEFINE t == job[j].type
  <1>1. job'[j].type = t /\ t \in JobTypes
    BY RowCases, RowFields DEF TypeInv
  <1>2. CASE Keeps(j)
    BY <1>1, <1>2 DEF Keeps, AgreeInv, OutcomeAgrees
  <1>3. CASE EndsQueued(j)
    BY <1>1, <1>3, InitialOutcomes DEF EndsQueued, RecordInv, RecordsFit
  <1>4. CASE EndsHeld(j)
    <2>1. PICK s \in Slots :
            /\ Owns(s)
            /\ Held(s) = j
            /\ \/ /\ exec[s].pc = "returned"
                  /\ job'[j].status = exec[s].outcome
                  /\ domain'[j] = domain[j]
               \/ /\ exec[s].pc = "cancelling"
                  /\ job'[j].status = "cancelled"
                  /\ domain'[j] = Cancelled(t, domain[j])
               \/ /\ t = "finding_evaluation"
                  /\ job'[j].status = "completed"
                  /\ domain'[j] = "completed"
      BY <1>4 DEF EndsHeld
    <2>2. CASE exec[s].pc = "returned" /\ job'[j].status = exec[s].outcome /\ domain'[j] = domain[j]
      BY <1>1, <2>1, <2>2 DEF AgreeInv, ReturnsAgree, TypeHeld
    <2>3. CASE /\ exec[s].pc = "cancelling" /\ job'[j].status = "cancelled"
               /\ domain'[j] = Cancelled(t, domain[j])
      <3>1. domain[j] \in Active \cup ActiveBuild \cup {"cancelled"}
        BY <1>1, <2>1, <2>3 DEF AgreeInv, WorkOpen, TypeHeld, Past
      <3>2. domain[j] \in DomainStatuses /\ Fit(t, domain[j])
        BY <2>1, <2>3, PastHolds DEF Past, TypeHeld
      <3> HIDE DEF t
      <3> QED
        BY <1>1, <2>3, <3>1, <3>2, HookOutcomes
    <2>4. CASE t = "finding_evaluation" /\ job'[j].status = "completed" /\ domain'[j] = "completed"
      BY <1>1, <2>4 DEF Reconciled, RunTypes, BuildTypes
    <2> QED
      BY <2>1, <2>2, <2>3, <2>4
  <1>5. CASE EndsLate(j)
    BY <1>1, <1>5 DEF EndsLate, AgreeInv, ReturnsAgree, TypeHeld
  <1>6. CASE EndsRecovered(j)
    <2>1. PICK plan \in Plans : EndsAs(j, plan) /\ PlanFits(t, plan)
      BY <1>6, RecoveredAs
    <2> QED
      BY <1>1, <2>1 DEF EndsAs, PlanFits
  <1> QED
    BY <1>2, <1>3, <1>4, <1>5, <1>6, RowCases DEF Begins, BeginsAgain, IsClaimed, Works

LEMMA NextFollowupsStaged ==
  ASSUME TypeInv, TypeInv', RecordInv, AgreeInv, StepOK, Timely
  PROVE  FollowupsStaged'
  <1> SUFFICES ASSUME NEW j \in Jobs,
                      job'[j].status \in Terminal,
                      job'[j].token # 0,
                      FollowupsDue(job'[j].type, domain'[j]),
                      ~(job'[j].status = "interrupted" /\ job'[j].lease # "none")
               PROVE  staged'[j]
    BY DEF FollowupsStaged
  <1> DEFINE t == job[j].type
  <1>1. job'[j].type = t /\ t \in JobTypes /\ (staged[j] => staged'[j])
    BY RowCases, RowFields DEF TypeInv
  <1>2. t \in RunTypes \cup BuildTypes
    BY <1>1 DEF FollowupsDue, RunTypes, BuildTypes
  <1>3. CASE Keeps(j)
    BY <1>1, <1>3 DEF Keeps, AgreeInv, FollowupsStaged, Terminal
  <1>4. ~EndsQueued(j)
    BY DEF EndsQueued, AgreeInv, LeasesRun
  <1>5. CASE EndsHeld(j)
    <2> SUFFICES ASSUME ~staged'[j] PROVE FALSE
      OBVIOUS
    <2>1. PICK s \in Slots :
            /\ Held(s) = j
            /\ Past(s)
            /\ exec[s].pc # "returned"
            /\ domain'[j] \in {Cancelled(t, domain[j]), Failed(t, domain[j]),
                               Interrupted(t, domain[j], "worker_shutdown")}
            /\ t # "scan"
      BY <1>2, <1>5 DEF EndsHeld, StagesFollowups, Past, RunTypes, BuildTypes
    <2>2. domain[j] \in DomainStatuses /\ Fit(t, domain[j])
      BY <2>1, PastHolds DEF TypeHeld
    <2>3. domain'[j] = domain[j]
      <3> HIDE DEF t
      <3> QED
        BY <1>1, <2>1, <2>2, HookOutcomes
    <2> QED
      BY <1>1, <2>1, <2>3 DEF AgreeInv, StagedFirst, TypeHeld
  <1>6. CASE EndsLate(j)
    BY <1>1, <1>6 DEF EndsLate, AgreeInv, StagedFirst, TypeHeld, Past
  <1>7. CASE EndsRecovered(j)
    <2>1. PICK plan \in Plans :
            /\ EndsAs(j, plan)
            /\ plan.status \in Terminal
            /\ plan.status = "interrupted" => job'[j].lease # "none"
      BY <1>2, <1>7, RecoveredAs DEF Recorded
    <2> QED
      BY <1>1, <2>1 DEF EndsAs, StagedBy, Terminal
  <1> QED
    BY <1>3, <1>4, <1>5, <1>6, <1>7, RowCases DEF Begins, BeginsAgain, IsClaimed, Works, Terminal

-----------------------------------------------------------------------------
LEMMA InitAgreeInv == Init => AgreeInv
  <1> SUFFICES ASSUME Init PROVE AgreeInv
    OBVIOUS
  <1>1. \A j \in Jobs : job[j].status = "absent" /\ job[j].token = 0
    BY DEF Init
  <1>2. \A s \in Slots : exec[s].pc = "idle"
    BY DEF Init, Idle
  <1>3. \A w \in Workers, j \in Jobs : ~Foreign(w, j)
    BY DEF Init, NoPass, Foreign
  <1> QED
    BY <1>1, <1>2, <1>3
       DEF AgreeInv, LeasesRun, PassesOwn, PlansHold, ReturnsAgree, WorkOpen, StagedFirst, Past,
           Foreign, OutcomeAgrees, FollowupsStaged, Terminal

LEMMA StutterTimely == TypeInv /\ UNCHANGED vars => Timely
  BY DEF Timely, CancelWrite, TypeInv, vars

LEMMA NextAgreeInv ==
  TypeInv /\ TokenInv /\ RecordInv /\ AgreeInv /\ [Next]_vars /\ [Timely]_vars => AgreeInv'
  <1> SUFFICES ASSUME TypeInv, TokenInv, RecordInv, AgreeInv, [Next]_vars, [Timely]_vars
               PROVE  AgreeInv'
    OBVIOUS
  <1>1. TypeInv' /\ RecordInv' /\ StepOK /\ Timely
    BY NextTypeInv, NextRecordInv, EveryStep, StutterTimely
  <1> QED
    BY <1>1, NextLeasesRun, NextPassesOwn, NextPlansHold, NextReturnsAgree, NextWorkOpen,
       NextStagedFirst, NextOutcomeAgrees, NextFollowupsStaged DEF AgreeInv

\* The inductive invariant.
THEOREM OutcomesConsistent == Spec /\ [][Timely]_vars => []AgreeInv
  BY InitAgreeInv, NextAgreeInv, TypeInvariant, TokensFresh, RecordsConsistent, PTL DEF Spec

\* A job reported as completed or cancelled has a record that says so too, unless a
\* cancellation was overtaken.
THEOREM OutcomesAgree == Spec /\ [][Timely]_vars => []OutcomeAgrees
  BY OutcomesConsistent, PTL DEF AgreeInv

\* A job that has ended with a lease behind it has its required follow-ups, unless recovery
\* interrupted it or a cancellation was overtaken.
THEOREM FollowupsExist == Spec /\ [][Timely]_vars => []FollowupsStaged
  BY OutcomesConsistent, PTL DEF AgreeInv

-----------------------------------------------------------------------------
\* What becomes of an ended job.
LEMMA EndedStands ==
  ASSUME TypeInv, RecordInv, AgreeInv, StepOK, Timely, NEW j \in Jobs,
         job[j].status \in Terminal, job[j].type # "finding_evaluation"
  PROVE  /\ domain'[j] = domain[j]
         /\ Recorded(j) => job'[j].status = job[j].status
  <1> DEFINE t == job[j].type
  <1>0. t \in JobTypes /\ t # "finding_evaluation"
    BY RowFields DEF TypeInv
  <1>1. ~Begins(j) /\ ~BeginsAgain(j) /\ ~IsClaimed(j) /\ ~Works(j) /\ ~EndsQueued(j) /\ ~EndsHeld(j)
    BY DEF Begins, BeginsAgain, IsClaimed, Works, EndsQueued, EndsHeld, Owns, Terminal
  <1>2. CASE Keeps(j)
    BY <1>2 DEF Keeps
  <1>3. CASE EndsLate(j)
    BY <1>3 DEF EndsLate, AgreeInv, ReturnsAgree, TypeHeld, Recorded, RunTypes, BuildTypes
  <1>4. CASE EndsRecovered(j)
    <2>1. CASE Recorded(j)
      <3>1. PICK plan \in Plans :
              /\ EndsAs(j, plan)
              /\ plan.status = job[j].status
              /\ plan.domain = domain[j]
        BY <1>4, <2>1, RecoveredAs DEF Terminal
      <3> QED
        BY <3>1 DEF EndsAs
    <2>2. CASE ~Recorded(j)
      <3>1. t = "structured_content_build"
        BY <1>0, <2>2 DEF Recorded, JobTypes
      <3>2. Fit(t, domain[j])
        BY DEF RecordInv, RecordsFit, Terminal
      <3>3. Fit(t, domain'[j])
        BY <1>4, EndingsSettle DEF Settles
      <3> QED
        BY <2>2, <3>1, <3>2, <3>3 DEF Fit
    <2> QED
      BY <2>1, <2>2
  <1> QED
    BY <1>1, <1>2, <1>3, <1>4, RowCases

\* The record of an ended job is not touched again by a zombie or a late recovery, unless it
\* is an evaluation's or a cancellation was overtaken.
THEOREM EndedRecordsFrozen == Spec /\ [][Timely]_vars => EndedRecordFrozen
  <1>1. TypeInv /\ RecordInv /\ AgreeInv /\ [Next]_vars /\ [Timely]_vars
          => [\A j \in Jobs :
                job[j].type # "finding_evaluation" /\ job[j].status \in Terminal =>
                  domain'[j] = domain[j]]_vars
    BY EndedStands, EveryStep, StutterTimely
  <1> QED
    BY <1>1, TypeInvariant, RecordsConsistent, OutcomesConsistent, PTL
       DEF Spec, EndedRecordFrozen

LEMMA StepIsLegal ==
  ASSUME TypeInv, RecordInv, AgreeInv, StepOK, Timely, NEW j \in Jobs, Recorded(j)
  PROVE  \/ job'[j].status = job[j].status
         \/ job[j].status = "absent" /\ job'[j].status = "queued"
         \/ job[j].status # "absent" /\ job'[j].status \in LegalTransitions[job[j].status]
  <1>0. job[j].status \in JobStatuses \cup {"absent"} /\ job[j].type # "finding_evaluation"
    BY RowFields DEF TypeInv, Recorded, RunTypes, BuildTypes
  <1>1. CASE job[j].status \in Terminal
    BY <1>0, <1>1, EndedStands
  <1>2. CASE job[j].status = "absent"
    BY <1>0, <1>2, RowMoves
       DEF Keeps, Begins, BeginsAgain, IsClaimed, Works, Settles, Terminal
  <1>3. CASE job[j].status = "running"
    <2>1. job'[j].status \in Terminal \cup {"running"}
      BY <1>0, <1>3, RowMoves
         DEF Keeps, Begins, BeginsAgain, IsClaimed, Works, Settles, Terminal
    <2> QED
      BY <1>3, <2>1 DEF LegalTransitions, JobStatuses, Active
  <1>4. CASE job[j].status = "queued"
    <2>1. ~EndsHeld(j)
      BY <1>4 DEF EndsHeld, Owns
    <2>2. ~EndsLate(j)
      BY <1>0, <1>4, PastHolds DEF EndsLate, Past, TypeHeld
    <2>3. ~EndsRecovered(j)
      <3> SUFFICES ASSUME EndsRecovered(j) PROVE FALSE
        OBVIOUS
      <3>1. PICK w \in Workers : pass[w].plan[j] # NoPlan
        BY <1>4 DEF EndsRecovered
      <3> QED
        BY <1>4, <3>1 DEF AgreeInv, PassesOwn, Foreign
    <2>4. job'[j].status \in {"queued", "running", "cancelled"}
      BY <1>0, <1>4, <2>1, <2>2, <2>3, RowCases
         DEF Keeps, Begins, BeginsAgain, IsClaimed, Works, EndsQueued
    <2> QED
      BY <1>4, <2>4 DEF LegalTransitions, JobStatuses, Active
  <1> QED
    BY <1>0, <1>1, <1>2, <1>3, <1>4 DEF JobStatuses, Active

\* Every change of the status of a job with a run or a build is one LEGAL_TRANSITIONS allows,
\* unless a cancellation was overtaken.
THEOREM StepsLegal == Spec /\ [][Timely]_vars => LegalSteps
  <1>1. TypeInv /\ RecordInv /\ AgreeInv /\ [Next]_vars /\ [Timely]_vars
          => [\A j \in Jobs :
                job[j].type \in RunTypes \cup BuildTypes =>
                  \/ job'[j].status = job[j].status
                  \/ job[j].status = "absent" /\ job'[j].status = "queued"
                  \/ job[j].status # "absent" /\ job'[j].status \in LegalTransitions[job[j].status]]_vars
    BY StepIsLegal, EveryStep, StutterTimely DEF Recorded
  <1> QED
    BY <1>1, TypeInvariant, RecordsConsistent, OutcomesConsistent, PTL DEF Spec, LegalSteps

=============================================================================
