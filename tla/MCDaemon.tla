------------------------------ MODULE MCDaemon ------------------------------
(***************************************************************************)
(* Instances of Daemon for TLC: the configuration file is edited twice, to *)
(* something that does not load and then to a shorter, or longer, timeout. *)
(***************************************************************************)
EXTENDS Daemon

CONSTANT broken   \* model value

Static == {3}
ShorterTimeout == <<2, broken, 1>>
LongerTimeout == <<2, broken, 5>>
=============================================================================
