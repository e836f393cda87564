---------------------------- MODULE RefundClaim ----------------------------
(***************************************************************************)
(* What the refund claim of a row promises (geidea_refund_id with its      *)
(* 'processing:' tokens, shop/services/geidea_paybylink.py): one claimant  *)
(* at a time asks Geidea for the refund; only the claimant that holds the  *)
(* claim finishes it or gives it back; a finished claim is final; a        *)
(* claimant that dies leaves the row claimed.                              *)
(***************************************************************************)
CONSTANTS Claimants, Free, Done

VARIABLES
  claim,   \* Free, Done or the claimant that holds the row
  active   \* the claimants that are between claim and finalize or release

vars == <<claim, active>>

Init == claim = Free /\ active = {}

Take(c) ==
  /\ claim = Free
  /\ claim' = c
  /\ active' = active \cup {c}

Finalize(c) ==
  /\ claim = c /\ c \in active
  /\ claim' = Done
  /\ active' = active \ {c}

Release(c) ==
  /\ claim = c /\ c \in active
  /\ claim' = Free
  /\ active' = active \ {c}

Die(c) ==
  /\ c \in active
  /\ active' = active \ {c}
  /\ UNCHANGED claim

Next == \E c \in Claimants : Take(c) \/ Finalize(c) \/ Release(c) \/ Die(c)

Spec == Init /\ [][Next]_vars
=============================================================================
