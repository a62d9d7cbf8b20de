----------------------------- MODULE JobLedger -----------------------------
(***************************************************************************)
(* What the ingest queue promises about accepted work, whatever happens to *)
(* the process: a job is accepted once, its content may be run more than   *)
(* once but only while the job is open, it is reported as succeeded only   *)
(* if a run of it succeeded, and a settled job is never touched again.     *)
(***************************************************************************)
EXTENDS Naturals

CONSTANT Jobs

VARIABLES ledger, runs

Init ==
  /\ ledger = [j \in Jobs |-> "absent"]
  /\ runs = [j \in Jobs |-> 0]

Accept(j) ==
  /\ ledger[j] = "absent"
  /\ ledger' = [ledger EXCEPT ![j] = "open"]
  /\ UNCHANGED runs

Run(j) ==
  /\ ledger[j] = "open"
  /\ runs' = [runs EXCEPT ![j] = @ + 1]
  /\ UNCHANGED ledger

Report(j) ==
  /\ ledger[j] = "open"
  /\ \/ runs[j] > 0 /\ ledger' = [ledger EXCEPT ![j] = "succeeded"]
     \/ ledger' = [ledger EXCEPT ![j] = "dead_letter"]
  /\ UNCHANGED runs

Next == \E j \in Jobs : Accept(j) \/ Run(j) \/ Report(j)

Spec == Init /\ [][Next]_<<ledger, runs>>

=============================================================================
