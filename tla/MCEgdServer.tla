---------------------------- MODULE MCEgdServer -----------------------------
(* Small instances of EgdServer.                                           *)
EXTENDS EgdServer

CONSTANTS c1, c2

(* Blocking reads before and after other commands, a non-blocking read, a  *)
(* payload to skip whose bytes look like commands, an unknown command      *)
(* after a blocking read and before one.                                   *)
MixedScripts ==
  { <<2, 3, 0>>, <<1, 2, 2, 1>>, <<3, 0, 0, 2, 4, 4, 4>>, <<2, 2, 5>>, <<5, 2, 4>> }

Questions == { <<2, 3, 2, 1>>, <<1, 2, 3, 0, 0, 1, 4, 2, 3>> }

(* Clients that do not get their answers, although there is entropy: three *)
(* blocking reads sent at once, and an ADDENTROPY of zero bytes.           *)
Pipelines == { <<2, 3, 2, 1, 2, 1>> }

NothingAdded == { <<3, 0, 0, 0, 4>> }

Second == {c2}
=============================================================================
