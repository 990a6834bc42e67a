----------------------------- MODULE MCListing -----------------------------
(***************************************************************************)
(* Instances of Listing for TLC: up to three pages of two variables.       *)
(***************************************************************************)
EXTENDS Listing

CONSTANT absent   \* model value

Stored(ids) == [k \in DOMAIN ids |-> [id |-> ids[k], body |-> "x"]]
MCStored == {Stored(<<"a", "b", "c", "d", "e">>), Stored(<<"a", "b", "c">>)}
=============================================================================
