----------------------------- MODULE DriverBlock -----------------------------
(***************************************************************************)
(* Database transactions of BillingService that concern different sessions *)
(* of one driver, statement by statement, as READ COMMITTED runs them: a   *)
(* SELECT sees what is committed and its own writes, an UPDATE waits for   *)
(* the row it matches, and what a transaction wrote shows when it commits. *)
(* Billing takes each transaction as one step; this is what that leaves    *)
(* out, for the one row that they share, the driver's.                     *)
(***************************************************************************)

CONSTANTS
  Call,     \* transactions; each has a debt of its own
  PayCall   \* the calls that apply an approval, the others register a decline

VARIABLES
  debt,    \* the committed status of the debt of each transaction
  driver,  \* driver.billing_status, committed
  pc       \* "idle"; "wrote" its debt; "clear": saw no open debt; "set": has
           \* updated the driver; "kept": leaves the driver alone; "done"

vars == <<debt, driver, pc>>

Owes == \E k \in Call : debt[k] = "OPEN"

(* Any debts that were there before, and the block that goes with them.    *)
Init ==
  /\ debt \in [Call -> {"ABSENT", "OPEN"}]
  /\ \A k \in PayCall : debt[k] = "OPEN"
  /\ driver = IF Owes THEN "BLOCKED_DEBT" ELSE "OK"
  /\ pc = [k \in Call |-> "idle"]

Goto(k, l) == pc' = [pc EXCEPT ![k] = l] /\ UNCHANGED <<debt, driver>>

WriteDebt(k) == pc[k] = "idle" /\ Goto(k, "wrote")

(* The SELECT of unblockIfClear: its own debt is PAID by now.              *)
LookForDebts(k) ==
  /\ k \in PayCall /\ pc[k] = "wrote"
  /\ Goto(k, IF \E j \in Call \ {k} : debt[j] = "OPEN" THEN "kept" ELSE "clear")

(* The UPDATE of the driver: ... AND billing_status = 'BLOCKED_DEBT' after *)
(* a payment, ... AND billing_status = 'OK' after a decline.               *)
UpdateDriver(k) ==
  /\ pc[k] = IF k \in PayCall THEN "clear" ELSE "wrote"
  /\ IF driver = IF k \in PayCall THEN "BLOCKED_DEBT" ELSE "OK"
     THEN (\A j \in Call : pc[j] # "set") /\ Goto(k, "set")
     ELSE Goto(k, "kept")

Commit(k) ==
  /\ pc[k] \in {"set", "kept"}
  /\ debt' = [debt EXCEPT ![k] = IF k \in PayCall THEN "PAID" ELSE "OPEN"]
  /\ driver' = IF pc[k] = "kept" THEN driver
               ELSE IF k \in PayCall THEN "OK" ELSE "BLOCKED_DEBT"
  /\ pc' = [pc EXCEPT ![k] = "done"]

Next == \E k \in Call : WriteDebt(k) \/ LookForDebts(k) \/ UpdateDriver(k) \/ Commit(k)

Spec == Init /\ [][Next]_vars

(* ADR 0002 point 6: when the debts have been paid, the block has been     *)
(* lifted by the event that paid the last one.                             *)
BlockIsLifted ==
  (\A k \in Call : pc[k] \in {"idle", "done"}) /\ ~Owes => driver = "OK"
==============================================================================
