--------------------------- MODULE MCTokenKeeper ---------------------------
(***************************************************************************)
(* Instances of TokenKeeper for TLC.                                       *)
(***************************************************************************)
EXTENDS TokenKeeper

Lease(renewable, duration) == [renewable |-> renewable, duration |-> duration]

(* A renewable lease, one that is not, and one that does not expire. *)
MixedLeases == {Lease(TRUE, 12), Lease(FALSE, 12), Lease(FALSE, 0)}
=============================================================================
