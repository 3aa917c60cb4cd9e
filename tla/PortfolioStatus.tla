--------------------------- MODULE PortfolioStatus ---------------------------
(* What the readers of the portfolio tables see of all workers together: the *)
(* selected snapshot and the one row of portfolio_worker_status, whose      *)
(* columns change together in single transactions.                          *)
CONSTANTS
  Snapshots,  \* the synchronization runs that may be promoted
  NoRun       \* no snapshot is selected

VARIABLES
  current,      \* portfolio_current_snapshot.sync_run_id
  promoted,     \* the complete runs
  lifecycle,    \* portfolio_worker_status.lifecycle
  failureCode,  \* TRUE iff portfolio_worker_status.failure_code is set
  live          \* lease_expires_at is after the database's clock

statusVars == <<current, promoted, lifecycle, failureCode, live>>

StatusInit ==
  /\ current = NoRun /\ promoted = {}
  /\ lifecycle = "disabled" /\ failureCode = FALSE /\ live = FALSE

Acquire ==
  /\ ~live /\ live' = TRUE
  /\ lifecycle' = IF failureCode THEN "degraded" ELSE "starting"
  /\ UNCHANGED <<current, promoted, failureCode>>

BeginSync ==
  /\ live
  /\ lifecycle' = IF failureCode THEN "degraded" ELSE "running"
  /\ UNCHANGED <<current, promoted, failureCode, live>>

Promote(s) ==
  /\ live /\ s \notin promoted
  /\ current' = s /\ promoted' = promoted \cup {s}
  /\ lifecycle' = "running" /\ failureCode' = FALSE
  /\ UNCHANGED live

FailSync ==
  /\ live
  /\ lifecycle' = "degraded" /\ failureCode' = TRUE
  /\ UNCHANGED <<current, promoted, live>>

\* An expired lease that nobody took may still be released.
Release ==
  /\ live' = FALSE
  /\ \/ lifecycle' = "failed" /\ failureCode' = TRUE
     \/ /\ lifecycle' = IF failureCode THEN "degraded" ELSE "stopped"
        /\ UNCHANGED failureCode
  /\ UNCHANGED <<current, promoted>>

Expire == live /\ live' = FALSE /\ UNCHANGED <<current, promoted, lifecycle, failureCode>>

StatusNext ==
  \/ Acquire \/ BeginSync \/ FailSync \/ Release \/ Expire
  \/ \E s \in Snapshots : Promote(s)

StatusSpec == StatusInit /\ [][StatusNext]_statusVars
=============================================================================
