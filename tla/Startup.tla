------------------------------ MODULE Startup -------------------------------
(***************************************************************************)
(* Starting and ending ekeyd, again and again on one machine: main of      *)
(* host/ekeyd.c, the configuration file that CONFIG runs (host/control.lua *)
(* offers it the statements), do_daemonise, and the ways the program ends. *)
(* Sockets on the file system, TCP ports, the devices of the keys and the  *)
(* pid file are all the instances share.                                   *)
(***************************************************************************)
EXTENDS Naturals, Sequences, FiniteSets

CONSTANTS
  Instances,     \* ekeyd processes, each started at most once
  Confs,         \* configuration files, as sequences of statements
  Paths, Ports,  \* addresses of sockets
  Devices,       \* what is in the directory of key devices
  Working,       \* of these, the ones that can be opened
  Serial,        \* TRUE: one start or orderly end at a time
  empty,         \* a pid file with nothing in it
  none

UnixOps == {"UnixControlSocket", "EGDUnixSocket"}
TcpOps == {"TCPControlSocket", "EGDTCPSocket"}
SocketOps == UnixOps \cup TcpOps
EGDOps == {"EGDUnixSocket", "EGDTCPSocket"}

(* ok: the output file is there, the owner of the socket exists.           *)
Statements ==
  [op : UnixOps, arg : Paths, ok : BOOLEAN] \cup
  [op : TcpOps, arg : Ports, ok : {TRUE}] \cup
  [op : {"SetOutputToFile", "SetOutputToKernel"}, arg : {none}, ok : BOOLEAN] \cup
  [op : {"AddEntropyKey"}, arg : Devices, ok : {TRUE}] \cup
  [op : {"AddEntropyKeys"}, arg : {none}, ok : {TRUE}] \cup
  [op : {"Daemonise"}, arg : BOOLEAN, ok : {TRUE}]

socketsOf(file) == {file[n].arg : n \in {m \in DOMAIN file : file[m].op \in SocketOps}}

KeyOps == {"AddEntropyKey", "AddEntropyKeys"}

(* As in ekeyd.conf.in, sockets come before keys; files that are used on   *)
(* one machine have a socket in common.                                    *)
ASSUME StartupAssumption ==
  /\ \A file \in Confs :
       /\ file \in Seq(Statements)
       /\ \A m, n \in DOMAIN file :
            file[m].op \in SocketOps /\ file[n].op \in KeyOps => m < n
       /\ socketsOf(file) = {} => \A n \in DOMAIN file : file[n].op \notin KeyOps
  /\ \A f, g \in Confs :
       socketsOf(f) \cap socketsOf(g) = {} => {} \in {socketsOf(f), socketsOf(g)}
  /\ Working \subseteq Devices
  /\ Paths \cap Ports = {}
  /\ none \notin Instances \cup Paths \cup Ports \cup Devices
  /\ empty \notin Instances \cup {none}
  /\ Serial \in BOOLEAN

VARIABLES
  pc,            \* each instance: off, config, forked (by do_daemonise),
                 \* running, closing, and then ended, refused or dead
  conf,          \* its configuration file
  line,          \* the statement it is at
  stage,         \* and the system call within it
  output,        \* output_configured: none, set, or folded
  daemonise,
  controlsockets,
  keys,          \* devices it has open
  node,          \* each path: the instance whose socket it leads to
  launcher,      \* the process the user started: none, waiting or returned
  pidwriter,     \* the process between the two forks: none, opening or
                 \* writing the pid file, and then done, or ended before it
                 \* had opened (unopened) or filled it (unwritten)
  pidfile        \* the instance it names, empty, or none

confVars == <<conf, line, stage, output, daemonise>>
fileVars == <<node, pidfile>>
forkVars == <<launcher, pidwriter>>
vars == <<pc, confVars, controlsockets, keys, fileVars, forkVars>>

alive(i) == pc[i] \in {"config", "forked", "running", "closing"}

quiet ==
  Serial => \A j \in Instances :
    pc[j] \notin {"config", "forked", "closing"} /\ launcher[j] # "waiting"

-----------------------------------------------------------------------------
(* lstate_init, and CONFIG: one statement of the file after the other.     *)

Start(i, file) ==
  /\ pc[i] = "off"
  /\ quiet
  /\ pc' = [pc EXCEPT ![i] = "config"]
  /\ conf' = [conf EXCEPT ![i] = file]
  /\ UNCHANGED <<line, stage, output, daemonise, controlsockets, keys, fileVars,
                 forkVars>>

at(i) == conf[i][line[i]]

configuring(i, ops) ==
  /\ pc[i] = "config"
  /\ line[i] <= Len(conf[i])
  /\ at(i).op \in ops

nextLine(i) == line' = [line EXCEPT ![i] = @ + 1]

(* The end of a process: its memory goes, its descriptors are closed, but  *)
(* nothing is unlinked.                                                    *)
gone(i, how) ==
  /\ pc' = [pc EXCEPT ![i] = how]
  /\ conf' = [conf EXCEPT ![i] = <<>>]
  /\ line' = [line EXCEPT ![i] = 1]
  /\ stage' = [stage EXCEPT ![i] = "connect"]
  /\ output' = [output EXCEPT ![i] = "none"]
  /\ daemonise' = [daemonise EXCEPT ![i] = TRUE]
  /\ controlsockets' = [controlsockets EXCEPT ![i] = {}]
  /\ keys' = [keys EXCEPT ![i] = {}]

(* lua_pcall fails, and main returns.                                      *)
refused(i) == gone(i, "refused") /\ UNCHANGED <<fileVars, forkVars>>

(* Somebody accepts connections at this address.                           *)
served(a) ==
  IF a \in Paths THEN node[a] # none /\ a \in controlsockets[node[a]]
                 ELSE \E j \in Instances : a \in controlsockets[j]

(* Mutant: nobody asks whether there is a daemon.                          *)
Connect_untried(i) ==
  /\ configuring(i, SocketOps) /\ stage[i] = "connect"
  /\ IF at(i).op \in EGDOps /\ output[i] = "set" THEN refused(i)
     ELSE
       /\ output' = [output EXCEPT ![i] = IF at(i).op \in EGDOps THEN "folded" ELSE @]
       /\ stage' = [stage EXCEPT ![i] = IF at(i).op \in UnixOps THEN "unlink" ELSE "bind"]
       /\ UNCHANGED <<pc, conf, line, daemonise, controlsockets, keys, fileVars, forkVars>>

SetFoldedOutput(i) ==
  output' = [output EXCEPT ![i] = IF at(i).op \in EGDOps THEN "folded" ELSE @]

(* The first thing every kind of socket does, after SetFoldedOutput for    *)
(* the EGD kinds.                                                          *)
Connect(i) ==
  /\ configuring(i, SocketOps) /\ stage[i] = "connect"
  /\ IF (at(i).op \in EGDOps /\ output[i] = "set") \/ served(at(i).arg) THEN refused(i)
     ELSE
       /\ SetFoldedOutput(i)
       /\ stage' = [stage EXCEPT ![i] = IF at(i).op \in UnixOps THEN "unlink" ELSE "bind"]
       /\ UNCHANGED <<pc, conf, line, daemonise, controlsockets, keys, fileVars, forkVars>>

(* Mutant: what an earlier daemon left is not removed.                     *)
Unlink_not(i) ==
  /\ configuring(i, UnixOps) /\ stage[i] = "unlink"
  /\ stage' = [stage EXCEPT ![i] = "bind"]
  /\ UNCHANGED <<pc, conf, line, output, daemonise, controlsockets, keys, fileVars, forkVars>>

Unlink(i) ==
  /\ configuring(i, UnixOps) /\ stage[i] = "unlink"
  /\ node' = [node EXCEPT ![at(i).arg] = none]
  /\ stage' = [stage EXCEPT ![i] = "bind"]
  /\ UNCHANGED <<pc, conf, line, output, daemonise, controlsockets, keys, pidfile, forkVars>>

(* bind fails if there is a file, or a socket that listens at the port.    *)
Bind(i) ==
  /\ configuring(i, SocketOps) /\ stage[i] = "bind"
  /\ LET a == at(i).arg IN
     IF (a \in Paths /\ node[a] # none) \/ (a \in Ports /\ served(a)) THEN refused(i)
     ELSE
       /\ node' = IF a \in Paths THEN [node EXCEPT ![a] = i] ELSE node
       /\ stage' = [stage EXCEPT ![i] = "listen"]
       /\ UNCHANGED <<pc, conf, line, output, daemonise, controlsockets, keys, pidfile,
                      forkVars>>

addctlsocket(i, a) == controlsockets' = [controlsockets EXCEPT ![i] = @ \cup {a}]

(* listen and addctlsocket; an EGD socket gets its mode and its owner.     *)
Listen(i) ==
  /\ configuring(i, SocketOps) /\ stage[i] = "listen"
  /\ LET a == at(i).arg IN
     IF (a \in Ports /\ served(a)) \/ ~at(i).ok THEN refused(i)
     ELSE
       /\ addctlsocket(i, a)
       /\ stage' = [stage EXCEPT ![i] = "connect"]
       /\ nextLine(i)
       /\ UNCHANGED <<pc, conf, output, daemonise, keys, fileVars, forkVars>>

SetOutput(i) ==
  /\ configuring(i, {"SetOutputToFile", "SetOutputToKernel"})
  /\ IF output[i] # "none" \/ ~at(i).ok THEN refused(i)
     ELSE
       /\ output' = [output EXCEPT ![i] = "set"]
       /\ nextLine(i)
       /\ UNCHANGED <<pc, conf, stage, daemonise, controlsockets, keys, fileVars, forkVars>>

opened(i, devices) ==
  /\ keys' = [keys EXCEPT ![i] = @ \cup devices]
  /\ nextLine(i)
  /\ UNCHANGED <<pc, conf, stage, output, daemonise, controlsockets, fileVars, forkVars>>

AddEntropyKey(i) ==
  /\ configuring(i, {"AddEntropyKey"})
  /\ IF output[i] = "none" \/ at(i).arg \notin Working THEN refused(i)
                                                       ELSE opened(i, {at(i).arg})

(* Mutant: devices that cannot be opened are taken for keys.               *)
AddEntropyKeys_unopened(i) ==
  /\ configuring(i, {"AddEntropyKeys"})
  /\ IF output[i] = "none" THEN opened(i, {}) ELSE opened(i, Devices)

(* The directory is read in any order, up to the first device that cannot  *)
(* be added.  No error is reported.                                        *)
AddEntropyKeys(i) ==
  /\ configuring(i, {"AddEntropyKeys"})
  /\ \E devices \in SUBSET Working :
       /\ output[i] = "none" => devices = {}
       /\ output[i] # "none" /\ Working = Devices => devices = Devices
       /\ opened(i, devices)

Daemonise(i) ==
  /\ configuring(i, {"Daemonise"})
  /\ daemonise' = [daemonise EXCEPT ![i] = at(i).arg]
  /\ nextLine(i)
  /\ UNCHANGED <<pc, conf, stage, output, controlsockets, keys, fileVars, forkVars>>

(* The end of the file.  With do_daemonise the user's process becomes the  *)
(* launcher; its child forks once more and writes the pid file.            *)
Configured(i) ==
  /\ pc[i] = "config"
  /\ line[i] > Len(conf[i])
  /\ IF controlsockets[i] = {} THEN refused(i)
     ELSE
       /\ pc' = [pc EXCEPT ![i] = IF daemonise[i] THEN "forked" ELSE "running"]
       /\ launcher' = [launcher EXCEPT ![i] = IF daemonise[i] THEN "waiting" ELSE @]
       /\ pidwriter' = [pidwriter EXCEPT ![i] = IF daemonise[i] THEN "opening" ELSE @]
       /\ UNCHANGED <<confVars, controlsockets, keys, fileVars>>

-----------------------------------------------------------------------------
(* do_daemonise, after the second fork *)

writerIs(i, state) == pidwriter' = [pidwriter EXCEPT ![i] = state]

(* fopen for writing, which empties what an earlier daemon left.           *)
OpenPid(i) ==
  /\ pidwriter[i] = "opening"
  /\ pidfile' = empty
  /\ writerIs(i, "writing")
  /\ UNCHANGED <<pc, confVars, controlsockets, keys, node, launcher>>

(* It cannot be opened: the daemon is sent a signal.                       *)
OpenPidFails(i) ==
  /\ pidwriter[i] = "opening"
  /\ writerIs(i, "unopened")
  /\ IF alive(i) THEN gone(i, "dead") ELSE UNCHANGED <<pc, confVars, controlsockets, keys>>
  /\ UNCHANGED <<fileVars, launcher>>

(* fprintf and fclose.  Nobody looks at their results: on a full disk the  *)
(* file stays empty, and all goes on.                                      *)
WritePid(i) ==
  /\ pidwriter[i] = "writing"
  /\ \/ pidfile' = i /\ writerIs(i, "done")
     \/ pidfile' = pidfile /\ writerIs(i, "unwritten")
  /\ UNCHANGED <<pc, confVars, controlsockets, keys, node, launcher>>

(* A signal ends the process that writes it, and not the daemon.           *)
WriterKilled(i) ==
  /\ \/ pidwriter[i] = "opening" /\ writerIs(i, "unopened")
     \/ pidwriter[i] = "writing" /\ writerIs(i, "unwritten")
  /\ UNCHANGED <<pc, confVars, controlsockets, keys, fileVars, launcher>>

ClosePipe(i) ==
  /\ pc[i] = "forked"
  /\ pc' = [pc EXCEPT ![i] = "running"]
  /\ UNCHANGED <<confVars, controlsockets, keys, fileVars, forkVars>>

(* Mutant: the process that writes the pid file has closed its end first.  *)
LauncherReturns_early(i) ==
  /\ launcher[i] = "waiting"
  /\ pc[i] # "forked"
  /\ launcher' = [launcher EXCEPT ![i] = "returned"]
  /\ UNCHANGED <<pc, confVars, controlsockets, keys, fileVars, pidwriter>>

(* read returns once both processes have closed their end of the pipe.     *)
LauncherReturns(i) ==
  /\ launcher[i] = "waiting"
  /\ pc[i] # "forked" /\ pidwriter[i] \in {"done", "unopened", "unwritten"}
  /\ launcher' = [launcher EXCEPT ![i] = "returned"]
  /\ UNCHANGED <<pc, confVars, controlsockets, keys, fileVars, pidwriter>>

-----------------------------------------------------------------------------
(* Ends *)

(* A client's Shutdown closes sockets and keys, and poll has nothing left. *)
Shutdown(i) ==
  /\ pc[i] = "running"
  /\ quiet
  /\ pc' = [pc EXCEPT ![i] = "closing"]
  /\ controlsockets' = [controlsockets EXCEPT ![i] = {}]
  /\ keys' = [keys EXCEPT ![i] = {}]
  /\ UNCHANGED <<confVars, fileVars, forkVars>>

(* poll fails: FINAL closes the sockets, the keys stay open until the end. *)
PollFails(i) ==
  /\ pc[i] = "running"
  /\ quiet
  /\ pc' = [pc EXCEPT ![i] = "closing"]
  /\ controlsockets' = [controlsockets EXCEPT ![i] = {}]
  /\ UNCHANGED <<confVars, keys, fileVars, forkVars>>

(* main removes the pid file, whosever it is; sockets stay where they are. *)
Exit(i) ==
  /\ pc[i] = "closing"
  /\ gone(i, "ended")
  /\ pidfile' = none
  /\ UNCHANGED <<node, forkVars>>

(* No signal is handled.                                                   *)
Crash(i) ==
  /\ alive(i)
  /\ gone(i, "dead")
  /\ UNCHANGED <<fileVars, forkVars>>

-----------------------------------------------------------------------------
Init ==
  /\ pc = [i \in Instances |-> "off"]
  /\ conf = [i \in Instances |-> <<>>]
  /\ line = [i \in Instances |-> 1]
  /\ stage = [i \in Instances |-> "connect"]
  /\ output = [i \in Instances |-> "none"]
  /\ daemonise = [i \in Instances |-> TRUE]
  /\ controlsockets = [i \in Instances |-> {}]
  /\ keys = [i \in Instances |-> {}]
  /\ node = [a \in Paths |-> none]
  /\ launcher = [i \in Instances |-> "none"]
  /\ pidwriter = [i \in Instances |-> "none"]
  /\ pidfile = none

Next ==
  \E i \in Instances :
    \/ \E file \in Confs : Start(i, file)
    \/ Connect(i) \/ Unlink(i) \/ Bind(i) \/ Listen(i)
    \/ SetOutput(i) \/ AddEntropyKey(i) \/ AddEntropyKeys(i) \/ Daemonise(i)
    \/ Configured(i)
    \/ OpenPid(i) \/ OpenPidFails(i) \/ WritePid(i) \/ WriterKilled(i)
    \/ ClosePipe(i) \/ LauncherReturns(i)
    \/ Shutdown(i) \/ PollFails(i) \/ Exit(i) \/ Crash(i)

Spec == Init /\ [][Next]_vars

-----------------------------------------------------------------------------
(* Every variable has its type; a process that is gone holds nothing.      *)
TypeOK ==
  /\ pc \in [Instances ->
       {"off", "config", "forked", "running", "closing", "ended", "refused", "dead"}]
  /\ conf \in [Instances -> Confs \cup {<<>>}]
  /\ line \in [Instances -> Nat \ {0}]
  /\ \A i \in Instances : line[i] <= Len(conf[i]) + 1
  /\ stage \in [Instances -> {"connect", "unlink", "bind", "listen"}]
  /\ output \in [Instances -> {"none", "set", "folded"}]
  /\ daemonise \in [Instances -> BOOLEAN]
  /\ controlsockets \in [Instances -> SUBSET (Paths \cup Ports)]
  /\ keys \in [Instances -> SUBSET Working]
  /\ \A i \in Instances : ~alive(i) => controlsockets[i] = {} /\ keys[i] = {}
  /\ node \in [Paths -> Instances \cup {none}]
  /\ launcher \in [Instances -> {"none", "waiting", "returned"}]
  /\ pidwriter \in [Instances ->
       {"none", "opening", "writing", "done", "unopened", "unwritten"}]
  /\ pidfile \in Instances \cup {empty, none}

(* Whatever is started, refused, killed or ended beside it, the sockets of *)
(* a daemon stay reachable, and nobody else opens (and thereby resets) the *)
(* keys it reads: starting ekeyd twice does not disturb the first.         *)
Undisturbed ==
  \A i \in Instances : pc[i] \in {"forked", "running"} =>
    /\ \A a \in controlsockets[i] \cap Paths : node[a] = i
    /\ \A j \in Instances \ {i} : keys[i] \cap keys[j] = {}

(* What a configuration file is to be, whatever the order of its lines:    *)
(* one output, sockets all different and at least one, keys named only     *)
(* after the output, and everything named there.                           *)
Valid(file) ==
  LET lines(ops) == {n \in DOMAIN file : file[n].op \in ops}
      fixed == lines({"SetOutputToFile", "SetOutputToKernel"})
  IN  /\ Cardinality(fixed) + (IF lines(EGDOps) = {} THEN 0 ELSE 1) <= 1
      /\ lines(SocketOps) # {}
      /\ \A m, n \in lines(SocketOps) : file[m].arg = file[n].arg => m = n
      /\ \A n \in lines({"AddEntropyKey"}) :
           file[n].arg \in Working /\ \E m \in fixed \cup lines(EGDOps) : m < n
      /\ \A n \in DOMAIN file : file[n].ok

(* A start is refused only on account of its configuration file or of a    *)
(* daemon that serves one of its sockets, however earlier daemons ended    *)
(* and whatever they left behind; and a bad file is always refused.        *)
RefusedRightly ==
  [][\A i \in Instances : pc[i] = "config" =>
       /\ pc'[i] = "refused" =>
            \/ ~Valid(conf[i])
            \/ \E j \in Instances \ {i} : controlsockets[j] \cap socketsOf(conf[i]) # {}
       /\ pc'[i] \in {"forked", "running"} => Valid(conf[i])]_vars

(* Once the command that started a daemon has returned, and for as long as *)
(* it runs, also after another start was refused, the pid file names it.   *)
(* If it does not, the process that was to write it was ended before it    *)
(* had opened the file, or was cut short, by a signal or a full disk,      *)
(* after that, and then the file is empty: it names no daemon of the past. *)
PidFileTrue ==
  \A i \in Instances : pc[i] = "running" /\ launcher[i] = "returned" =>
    \/ pidfile = i
    \/ pidfile = empty /\ pidwriter[i] = "unwritten"
    \/ pidwriter[i] = "unopened"
=============================================================================
