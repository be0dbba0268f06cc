----------------------------- MODULE MCStartup ------------------------------
(* Small instances of Startup.                                             *)
EXTENDS Startup

CONSTANTS i1, i2, i3, ctl, egd, tcp, k1, k2

S(op, arg) == [op |-> op, arg |-> arg, ok |-> TRUE]
Bad(op, arg) == [op |-> op, arg |-> arg, ok |-> FALSE]

(* The file as it is shipped, with kernel output and with EGD; one that    *)
(* stays in the foreground and has a control port besides; and bad ones:   *)
(* two outputs, a key before the output, a socket twice, an unknown owner, *)
(* a device that is not there, no socket.                                  *)
Files == {
  <<S("UnixControlSocket", ctl), S("SetOutputToKernel", none), S("AddEntropyKeys", none)>>,
  <<S("UnixControlSocket", ctl), S("EGDUnixSocket", egd), S("AddEntropyKey", k1)>>,
  <<S("Daemonise", FALSE), S("TCPControlSocket", tcp), S("UnixControlSocket", ctl),
    S("SetOutputToFile", none), S("AddEntropyKey", k1)>>,
  <<S("UnixControlSocket", ctl), S("SetOutputToKernel", none), S("EGDTCPSocket", tcp)>>,
  <<S("UnixControlSocket", ctl), S("AddEntropyKeys", none), S("AddEntropyKey", k1),
    S("SetOutputToKernel", none)>>,
  <<S("UnixControlSocket", ctl), S("SetOutputToKernel", none), S("UnixControlSocket", ctl)>>,
  <<S("UnixControlSocket", ctl), Bad("EGDUnixSocket", egd)>>,
  <<S("EGDTCPSocket", tcp), S("UnixControlSocket", ctl), S("AddEntropyKey", k2)>>,
  <<S("SetOutputToKernel", none)>> }
=============================================================================
