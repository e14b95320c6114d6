-------------------------------- MODULE Ledger --------------------------------
(***************************************************************************)
(* What the platform promises about the money of a session, with no rows,  *)
(* calls or webhooks in sight: a session is priced once, its price is      *)
(* collected once or forgiven, it is owed only while it is neither, and    *)
(* money goes back only after the session has been closed with it.         *)
(* Billing implements this module while nothing fails or overtakes.        *)
(***************************************************************************)

CONSTANTS Session, Payment,
          Free      \* sessions nobody is to pay for

VARIABLES
  bill,       \* bill[s]: "OPEN" until s has its price, "DUE", "PAID" or "FORGIVEN"
  taken,      \* taken[s]: the payments that took money for s
  returned,   \* the payments whose money went back
  owed        \* the sessions that are a debt of their driver

vars == <<bill, taken, returned, owed>>

Init ==
  /\ bill = [s \in Session |-> "OPEN"]
  /\ taken = [s \in Session |-> {}]
  /\ returned = {}
  /\ owed = {}

Price(s) ==
  /\ bill[s] = "OPEN"
  /\ bill' = [bill EXCEPT ![s] = IF s \in Free THEN "FORGIVEN" ELSE "DUE"]
  /\ UNCHANGED <<taken, returned, owed>>

(* What is due and has not been collected.                                 *)
Uncollected(s) == bill[s] = "DUE" /\ taken[s] = {}

(* An attempt fails: from now on the driver owes s.                        *)
Owe(s) ==
  /\ Uncollected(s)
  /\ owed' = owed \cup {s}
  /\ UNCHANGED <<bill, taken, returned>>

(* Payment p takes the money.                                              *)
Collect(s, p) ==
  /\ Uncollected(s)
  /\ taken' = [taken EXCEPT ![s] = {p}]
  /\ UNCHANGED <<bill, returned, owed>>

(* The platform learns that the money has been taken.                      *)
Close(s) ==
  /\ bill[s] = "DUE" /\ taken[s] # {}
  /\ bill' = [bill EXCEPT ![s] = "PAID"]
  /\ owed' = owed \ {s}
  /\ UNCHANGED <<taken, returned>>

Forgive(s) ==
  /\ Uncollected(s)
  /\ bill' = [bill EXCEPT ![s] = "FORGIVEN"]
  /\ owed' = owed \ {s}
  /\ UNCHANGED <<taken, returned>>

(* The money of p is given back; what it paid for stays paid.              *)
Return(s, p) ==
  /\ bill[s] = "PAID" /\ p \in taken[s] \ returned
  /\ returned' = returned \cup {p}
  /\ UNCHANGED <<bill, taken, owed>>

Next ==
  \E s \in Session :
    \/ Price(s) \/ Owe(s) \/ Close(s) \/ Forgive(s)
    \/ \E p \in Payment : Collect(s, p) \/ Return(s, p)

Spec == Init /\ [][Next]_vars
==============================================================================
