----------------------------- MODULE RunLedger -----------------------------
(***************************************************************************)
(* What the jobs subsystem promises, seen from outside: a client polls the *)
(* status and rows_written of a run, a reader looks at the destination.    *)
(* A status only moves forward, a terminal one is final, a run becomes     *)
(* visible at most once, and no row claims rows that are not visible.      *)
(***************************************************************************)
EXTENDS Naturals

CONSTANTS Run,     \* run ids
          Null     \* nothing visible, nothing claimed

VARIABLES status,  \* the run's status, "none" before it has a row
          visible, \* rows of the run a reader finds in the destination, or Null
          claimed  \* rows_written of the run's row, or Null

ledgerVars == <<status, visible, claimed>>

Open == {"pending", "running"}

Init ==
    /\ status = [r \in Run |-> "none"]
    /\ visible = [r \in Run |-> Null]
    /\ claimed = [r \in Run |-> Null]

Admit(r) ==
    /\ status[r] = "none"
    /\ status' = [status EXCEPT ![r] = "pending"]
    /\ UNCHANGED <<visible, claimed>>

Begin(r) ==
    /\ status[r] = "pending"
    /\ status' = [status EXCEPT ![r] = "running"]
    /\ UNCHANGED <<visible, claimed>>

\* A run may land late, after a row that denies it, but never after one that claims it.
Land(r) ==
    /\ status[r] # "none" /\ visible[r] = Null /\ claimed[r] = Null
    /\ visible'[r] \in Nat
    /\ visible' = [visible EXCEPT ![r] = visible'[r]]
    /\ UNCHANGED <<status, claimed>>

\* The run's rows are visible, and the row says so: succeeded, or cancelled too late.
Confirm(r) ==
    /\ status[r] \in Open /\ visible[r] # Null
    /\ \E s \in {"succeeded", "cancelled"} : status' = [status EXCEPT ![r] = s]
    /\ claimed' = [claimed EXCEPT ![r] = visible[r]]
    /\ UNCHANGED visible

Deny(r) ==
    /\ status[r] \in Open
    /\ \E s \in {"failed", "cancelled"} : status' = [status EXCEPT ![r] = s]
    /\ UNCHANGED <<visible, claimed>>

\* A restart fails every open run at once.
Reconcile ==
    /\ status' = [r \in Run |-> IF status[r] \in Open THEN "failed" ELSE status[r]]
    /\ UNCHANGED <<visible, claimed>>

Next ==
    \/ \E r \in Run : Admit(r) \/ Begin(r) \/ Land(r) \/ Confirm(r) \/ Deny(r)
    \/ Reconcile

Spec == Init /\ [][Next]_ledgerVars
=============================================================================
