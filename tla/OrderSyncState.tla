--------------------------- MODULE OrderSyncState ---------------------------
(***************************************************************************)
(* The status values of an order and the transition table of               *)
(* shop/services/order_sync_state.py.  The table is the only place where    *)
(* the program says which status may follow which.                         *)
(***************************************************************************)

Statuses == {"pending_zoho_sync", "synced", "sync_failed", "cancelled"}

\* allowed_transitions(from_status)
AllowedTransitions(from) ==
  CASE from = "pending_zoho_sync" -> {"synced", "sync_failed", "cancelled"}
    [] from = "sync_failed"       -> {"pending_zoho_sync", "synced", "cancelled"}
    [] from = "synced"            -> {"cancelled"}
    [] OTHER                      -> {}

\* ORDER_EDITABLE_STATUSES: not yet confirmed by staff.
EditableStatuses == {"pending_zoho_sync", "sync_failed"}
=============================================================================
