--------------------------- MODULE PointLifecycle ---------------------------
(***************************************************************************)
(* The life of a charge point on the platform                              *)
(* (packages/domain/src/charge-point-lifecycle.ts).                        *)
(***************************************************************************)

Lifecycle == {"INVENTORIED", "PROVISIONED", "CONNECTED_PENDING", "CONFIGURED", "TESTED",
              "OPERATIONAL", "MAINTENANCE", "REJECTED", "DECOMMISSIONED"}

(* TRANSITIONS                                                             *)
Transitions(from) ==
  CASE from = "INVENTORIED" -> {"PROVISIONED", "DECOMMISSIONED"}
    [] from = "PROVISIONED" -> {"CONNECTED_PENDING", "DECOMMISSIONED"}
    [] from = "CONNECTED_PENDING" -> {"CONFIGURED", "REJECTED", "DECOMMISSIONED"}
    [] from = "CONFIGURED" -> {"TESTED", "CONNECTED_PENDING", "DECOMMISSIONED"}
    [] from = "TESTED" -> {"OPERATIONAL", "CONFIGURED", "DECOMMISSIONED"}
    [] from = "OPERATIONAL" -> {"MAINTENANCE", "DECOMMISSIONED"}
    [] from = "MAINTENANCE" -> {"OPERATIONAL", "DECOMMISSIONED"}
    [] from = "REJECTED" -> {"PROVISIONED", "DECOMMISSIONED"}
    [] from = "DECOMMISSIONED" -> {}

(* evaluateIdTag: where a token that is not a test token is valid.         *)
Billable == {"OPERATIONAL", "MAINTENANCE"}

=============================================================================
