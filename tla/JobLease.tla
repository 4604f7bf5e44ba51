------------------------------ MODULE JobLease ------------------------------
(***************************************************************************)
(* What the queue promises about a job's record, whatever becomes of the   *)
(* executions: the record is worked on under a lease that one execution    *)
(* holds at a time.  The holder writes the record when it starts and when  *)
(* it ends its work, and not again under the same lease.  Anyone else who  *)
(* writes it (a cancellation, recovery, a requeue), or the holder itself   *)
(* when it settles the job, ends the lease in the same step.               *)
(***************************************************************************)
EXTENDS Naturals

CONSTANTS
  Jobs,      \* jobs, each with its record
  Slots,     \* executions
  Statuses   \* statuses of a record

VARIABLES
  holds,     \* who holds the lease of what
  record,    \* the records' statuses
  stage      \* how far each execution is

vars == <<holds, record, stage>>

\* Not started, at work, done with the work.
Stages == 0 .. 2

Init ==
  /\ holds = {}
  /\ record \in [Jobs -> Statuses]
  /\ stage = [s \in Slots |-> 0]

\* An execution that holds nothing takes a lease that is free.
Take(s, j) ==
  /\ \A o \in Slots, k \in Jobs : <<o, k>> \in holds => o # s /\ k # j
  /\ stage[s] = 0
  /\ holds' = holds \cup {<<s, j>>}
  /\ UNCHANGED <<record, stage>>

\* The holder writes the record as it goes on to a later stage, and keeps the lease.
Write(s, j) ==
  /\ <<s, j>> \in holds
  /\ \E n \in Stages : n > stage[s] /\ stage' = [stage EXCEPT ![s] = n]
  /\ \E d \in Statuses : record' = [record EXCEPT ![j] = d]
  /\ UNCHANGED holds

\* The leases of the jobs in J end; their records, and no others, may be written.  Executions
\* go on, but none starts over under its lease.
Revoke(J) ==
  /\ holds' = {p \in holds : p[2] \notin J}
  /\ record' \in [Jobs -> Statuses]
  /\ \A j \in Jobs \ J : record'[j] = record[j]
  /\ stage' \in [Slots -> Stages]
  /\ \A s \in Slots, j \in Jobs : <<s, j>> \in holds' => stage'[s] >= stage[s]

Next ==
  \/ \E s \in Slots, j \in Jobs : Take(s, j) \/ Write(s, j)
  \/ \E J \in SUBSET Jobs : Revoke(J)

Spec == Init /\ [][Next]_vars
=============================================================================
