--------------------------- MODULE Startup_proofs ---------------------------
(***************************************************************************)
(* Proofs about Startup, for any number of instances, any configuration    *)
(* files that satisfy StartupAssumption, and any devices: if starts and    *)
(* orderly ends do not overlap, no start disturbs a running daemon, the    *)
(* pid file that was written names the daemon once its start command has   *)
(* returned, and a start is refused for its configuration file or another  *)
(* daemon only.                                                            *)
(*                                                                         *)
(* The first two rest on this: what a configuration                        *)
(* file has got through it listens on (Listening), nobody else listens     *)
(* there (Exclusive), and files have a socket in common; so of two         *)
(* instances only one can get to the end of its file (Alone), or to the    *)
(* lines that name keys.  The last needs what the lines an instance has    *)
(* got through say of its file (Progress), which was not bad so far.       *)
(***************************************************************************)
EXTENDS Startup, TLAPS, FiniteSetTheorems

busy(i) == pc[i] \in {"config", "forked", "closing"} \/ launcher[i] = "waiting"

(* One start or orderly end at a time.                                     *)
Serialised == \A i, j \in Instances : busy(i) /\ busy(j) => i = j

(* A socket leads to who listens on it, and only one does.                 *)
Exclusive ==
  /\ \A i \in Instances : \A a \in controlsockets[i] : a \in Paths => node[a] = i
  /\ \A i, j \in Instances :
       \A a \in controlsockets[i] : a \in controlsockets[j] => i = j

(* Between the test and listen, nobody has come to listen at the address.  *)
Untaken ==
  \A i \in Instances : pc[i] = "config" /\ stage[i] # "connect" =>
    /\ line[i] \in DOMAIN conf[i]
    /\ at(i).op \in SocketOps
    /\ \A j \in Instances : at(i).arg \notin controlsockets[j]
    /\ stage[i] = "listen" /\ at(i).arg \in Paths => node[at(i).arg] = i

(* An instance listens on the sockets its file has named so far, and on no *)
(* others; past the file there is at least one.                            *)
Listening ==
  \A i \in Instances :
    /\ pc[i] \in {"config", "forked", "running"} =>
         /\ conf[i] \in Confs
         /\ \A n \in DOMAIN conf[i] :
              n < line[i] /\ conf[i][n].op \in SocketOps =>
                conf[i][n].arg \in controlsockets[i]
         /\ controlsockets[i] \subseteq socketsOf(conf[i])
    /\ pc[i] \in {"forked", "running"} =>
         line[i] > Len(conf[i]) /\ controlsockets[i] # {}

KeysApart == \A i, j \in Instances : \A k \in keys[i] : k \in keys[j] => i = j

past == {"forked", "running", "closing"}

Alone == \A i, j \in Instances : pc[i] \in past /\ pc[j] \in past => i = j

(* The processes of a start, and what they leave in the pid file.          *)
Forks ==
  \A i \in Instances :
    /\ pc[i] \in {"off", "config"} => launcher[i] = "none" /\ pidwriter[i] = "none"
    /\ pc[i] = "off" => stage[i] = "connect" /\ line[i] = 1 /\ conf[i] = <<>>
                        /\ output[i] = "none" /\ daemonise[i]
    /\ pidwriter[i] \in {"opening", "writing"} => launcher[i] = "waiting"
    /\ pc[i] = "forked" => launcher[i] = "waiting"
    /\ launcher[i] = "waiting" => \A j \in Instances \ {i} : ~alive(j)
    /\ launcher[i] = "returned" => pidwriter[i] \in {"done", "unopened", "unwritten"}
    /\ pc[i] \in {"forked", "running"} =>
         /\ pidwriter[i] = "done" => pidfile = i
         /\ pidwriter[i] \in {"writing", "unwritten"} => pidfile = empty

IInv ==
  /\ TypeOK
  /\ Serialised
  /\ Exclusive
  /\ Untaken
  /\ Listening
  /\ KeysApart
  /\ Alone
  /\ Forks

-----------------------------------------------------------------------------
(* What is true of the statement an instance is at.                        *)
LEMMA Statement ==
  ASSUME IInv, NEW i \in Instances, pc[i] = "config", line[i] \in DOMAIN conf[i]
  PROVE  /\ conf[i] \in Confs
         /\ at(i) \in Statements
         /\ at(i).op \in SocketOps => at(i).arg \in Paths \cup Ports
         /\ at(i).op \in UnixOps => at(i).arg \in Paths
<1>1. conf[i] \in Confs /\ conf[i] \in Seq(Statements)
  BY StartupAssumption DEF IInv, Listening
<1>2. at(i) \in Statements
  BY <1>1 DEF at
<1>3. at(i).op \in SocketOps => at(i).arg \in Paths \cup Ports
  BY <1>2 DEF Statements, SocketOps, UnixOps, TcpOps
<1>4. at(i).op \in UnixOps => at(i).arg \in Paths
  BY <1>2 DEF Statements, UnixOps, TcpOps
<1> QED
  BY <1>1, <1>2, <1>3, <1>4

(* What an instance is at while it configures itself.                      *)
LEMMA AtLine ==
  ASSUME IInv, NEW i \in Instances, NEW ops, configuring(i, ops)
  PROVE  pc[i] = "config" /\ line[i] \in DOMAIN conf[i] /\ at(i).op \in ops
<1>1. conf[i] \in Seq(Statements)
  BY StartupAssumption DEF IInv, Listening, configuring
<1> QED
  BY <1>1 DEF IInv, TypeOK, configuring

(* An address nobody serves has no listener: the node of a path leads to   *)
(* whoever listens on it.                                                  *)
LEMMA Unserved ==
  ASSUME IInv, NEW a \in Paths \cup Ports, ~served(a), NEW j \in Instances
  PROVE  a \notin controlsockets[j]
  BY StartupAssumption DEF IInv, Exclusive, served

(* Two instances that have got through files with sockets are one.         *)
LEMMA OneListens ==
  ASSUME IInv, NEW i \in Instances, NEW j \in Instances,
         conf[i] \in Confs, conf[j] \in Confs,
         socketsOf(conf[i]) # {}, socketsOf(conf[j]) # {},
         socketsOf(conf[i]) \subseteq controlsockets[i],
         socketsOf(conf[j]) \subseteq controlsockets[j]
  PROVE  i = j
<1>1. PICK a : a \in socketsOf(conf[i]) \cap socketsOf(conf[j])
  BY StartupAssumption
<1> QED
  BY <1>1 DEF IInv, Exclusive

(* An instance past its file listens on all its file names.                *)
LEMMA ListensOnAll ==
  ASSUME IInv, NEW i \in Instances, pc[i] \in {"config", "forked", "running"},
         \A n \in DOMAIN conf[i] : conf[i][n].op \in SocketOps => n < line[i]
  PROVE  socketsOf(conf[i]) \subseteq controlsockets[i]
  BY DEF IInv, Listening, socketsOf

(* A process that ends leaves everything else as it was.                   *)
LEMMA Gone ==
  ASSUME IInv, NEW i \in Instances, NEW how \in {"ended", "refused", "dead"},
         gone(i, how), node' = node, launcher' = launcher
  PROVE  Serialised' /\ Exclusive' /\ Untaken' /\ Listening' /\ KeysApart' /\ Alone'
<1>1. Serialised'
  BY DEF IInv, TypeOK, Serialised, busy, gone, past
<1>2. Exclusive'
  BY DEF IInv, TypeOK, Exclusive, gone, past
<1>3. Untaken'
  BY DEF IInv, TypeOK, Untaken, at, gone, past
<1>4. Listening'
  BY DEF IInv, TypeOK, Listening, gone, past
<1>5. KeysApart'
  BY DEF IInv, TypeOK, KeysApart, gone, past
<1>6. Alone'
  BY DEF IInv, TypeOK, Alone, past, gone
<1> QED
  BY <1>1, <1>2, <1>3, <1>4, <1>5, <1>6

(* A process ends and leaves files and forks as they were.                 *)
LEMMA Ended ==
  ASSUME IInv, NEW i \in Instances, NEW how \in {"ended", "refused", "dead"},
         gone(i, how), UNCHANGED <<fileVars, forkVars>>
  PROVE  IInv'
<1>1. TypeOK'
  BY DEF IInv, TypeOK, alive, gone, fileVars, forkVars
<1>2. Forks'
  BY DEF IInv, TypeOK, Forks, alive, gone, fileVars, forkVars
<1> QED
  BY <1>1, <1>2, Gone DEF IInv, fileVars, forkVars

(* A new process has named nothing yet, and is the only one on its way.    *)
LEMMA StartStep ==
  ASSUME Serial, IInv, NEW i \in Instances, NEW file \in Confs, Start(i, file)
  PROVE  IInv'
<1>1. /\ pc[i] = "off" /\ controlsockets[i] = {} /\ keys[i] = {}
      /\ stage[i] = "connect" /\ line[i] = 1
      /\ pc' = [pc EXCEPT ![i] = "config"] /\ conf' = [conf EXCEPT ![i] = file]
      /\ UNCHANGED <<line, stage, output, daemonise, controlsockets, keys, fileVars,
                     forkVars>>
  BY DEF IInv, TypeOK, Forks, alive, Start
<1>2. Len(file) \in Nat /\ DOMAIN file = 1 .. Len(file)
  BY StartupAssumption
<1>11. TypeOK'
  <2>1. /\ conf' \in [Instances -> Confs \cup {<<>>}]
        /\ pc' \in [Instances -> {"off", "config", "forked", "running", "closing",
                                  "ended", "refused", "dead"}]
    BY <1>1 DEF IInv, TypeOK
  <2>2. \A j \in Instances : line[j] <= Len(conf'[j]) + 1
    BY <1>1, <1>2 DEF IInv, TypeOK
  <2>3. \A j \in Instances : ~alive(j)' => controlsockets[j] = {} /\ keys[j] = {}
    BY <1>1 DEF IInv, TypeOK, alive
  <2> QED
    BY <1>1, <2>1, <2>2, <2>3 DEF IInv, TypeOK, fileVars, forkVars
<1>12. Serialised'
  BY StartupAssumption DEF IInv, TypeOK, Serialised, busy, Start, quiet, fileVars,
     forkVars
<1>13. Exclusive'
  BY StartupAssumption DEF IInv, TypeOK, Exclusive, Start, quiet, fileVars, forkVars
<1>14. Untaken'
  BY <1>1 DEF IInv, TypeOK, Untaken, at, fileVars
<1>15. Listening'
  <2>1. conf'[i] = file /\ file \in Confs /\ pc'[i] = "config" /\ line'[i] = 1
        /\ controlsockets'[i] = {}
    BY <1>1 DEF IInv, TypeOK
  <2>2. \A n \in DOMAIN file : ~(n < 1)
    BY <1>2
  <2>3. \A j \in Instances \ {i} : pc'[j] = pc[j] /\ conf'[j] = conf[j]
    BY <1>1 DEF IInv, TypeOK
  <2> QED
    BY <1>1, <2>1, <2>2, <2>3 DEF IInv, Listening
<1>16. KeysApart'
  BY StartupAssumption DEF IInv, TypeOK, KeysApart, Start, quiet, fileVars, forkVars
<1>17. Alone'
  BY StartupAssumption DEF IInv, TypeOK, Alone, past, Start, quiet, fileVars,
     forkVars, Forks
<1>18. Forks'
  BY StartupAssumption DEF IInv, TypeOK, Forks, alive, Start, quiet, fileVars,
     forkVars, Serialised, busy
<1> QED
  BY <1>11, <1>12, <1>13, <1>14, <1>15, <1>16, <1>17, <1>18 DEF IInv

(* The address was tried: whoever passes the test is alone there.          *)
LEMMA ConnectStep ==
  ASSUME Serial, IInv, NEW i \in Instances, Connect(i)
  PROVE  IInv'
<1>1. pc[i] = "config" /\ line[i] \in DOMAIN conf[i] /\ at(i).op \in SocketOps
  BY AtLine DEF Connect
<1>2. SUFFICES ASSUME ~refused(i) PROVE IInv'
  BY Ended DEF refused
<1>3. /\ ~served(at(i).arg) /\ SetFoldedOutput(i)
      /\ stage' = [stage EXCEPT ![i] =
                     IF at(i).op \in UnixOps THEN "unlink" ELSE "bind"]
      /\ UNCHANGED <<pc, conf, line, daemonise, controlsockets, keys, fileVars,
                     forkVars>>
  BY <1>2 DEF Connect
<1>4. /\ conf[i] \in Confs /\ at(i) \in Statements
      /\ (at(i).op \in UnixOps => at(i).arg \in Paths)
      /\ (at(i).op \in SocketOps => at(i).arg \in Paths \cup Ports)
  BY <1>1, Statement
<1>5. \A j \in Instances : at(i).arg \notin controlsockets[j]
  BY <1>1, <1>3, <1>4, Unserved
<1>11. TypeOK'
  BY <1>3 DEF IInv, TypeOK, alive, SetFoldedOutput, fileVars, forkVars
<1>12. Serialised'
  BY <1>1, <1>3, <1>4 DEF IInv, TypeOK, Serialised, busy, fileVars, forkVars,
     Listening
<1>13. Exclusive'
  BY <1>1, <1>3, <1>4 DEF IInv, TypeOK, Exclusive, fileVars, forkVars, Listening
<1>14. Untaken'
  BY <1>1, <1>3, <1>5 DEF IInv, TypeOK, Untaken, at, fileVars
<1>15. Listening'
  BY <1>1, <1>3, <1>4 DEF IInv, TypeOK, Listening, fileVars, forkVars, Listening
<1>16. KeysApart'
  BY <1>1, <1>3, <1>4 DEF IInv, TypeOK, KeysApart, fileVars, forkVars, Listening
<1>17. Alone'
  BY <1>1, <1>3, <1>4 DEF IInv, TypeOK, Alone, past, fileVars, forkVars, Listening
<1>18. Forks'
  BY <1>1, <1>3 DEF IInv, TypeOK, Forks, alive, SetFoldedOutput, fileVars, forkVars
<1> QED
  BY <1>11, <1>12, <1>13, <1>14, <1>15, <1>16, <1>17, <1>18 DEF IInv

(* The path belongs to nobody who listens.                                 *)
LEMMA UnlinkStep ==
  ASSUME Serial, IInv, NEW i \in Instances, Unlink(i)
  PROVE  IInv'
<1>1. pc[i] = "config" /\ line[i] \in DOMAIN conf[i] /\ at(i).op \in UnixOps
  BY AtLine DEF Unlink
<1>4. at(i).arg \in Paths
  BY <1>1, Statement
<1>11. TypeOK'
  BY <1>1, <1>4 DEF IInv, TypeOK, alive, Unlink, forkVars
<1>12. Serialised'
  BY <1>1, <1>4 DEF IInv, TypeOK, Serialised, busy, Unlink, forkVars
<1>5. \A j \in Instances : at(i).arg \notin controlsockets[j]
  BY <1>1 DEF IInv, Untaken, Unlink
<1>13. Exclusive'
  BY <1>4, <1>5 DEF IInv, TypeOK, Exclusive, Unlink
<1>14. Untaken'
  BY <1>1, <1>4 DEF IInv, TypeOK, Untaken, Serialised, busy, at, Unlink, forkVars,
     SocketOps
<1>15. Listening'
  BY <1>1, <1>4 DEF IInv, TypeOK, Listening, Unlink, forkVars
<1>16. KeysApart'
  BY <1>1, <1>4 DEF IInv, TypeOK, KeysApart, Unlink, forkVars
<1>17. Alone'
  BY <1>1, <1>4 DEF IInv, TypeOK, Alone, past, Unlink, forkVars
<1>18. Forks'
  BY <1>1, <1>4 DEF IInv, TypeOK, Forks, alive, Unlink, forkVars
<1> QED
  BY <1>11, <1>12, <1>13, <1>14, <1>15, <1>16, <1>17, <1>18 DEF IInv

(* The path leads to the one that bound it, who does not listen yet.       *)
LEMMA BindStep ==
  ASSUME Serial, IInv, NEW i \in Instances, Bind(i)
  PROVE  IInv'
<1>1. pc[i] = "config" /\ line[i] \in DOMAIN conf[i] /\ at(i).op \in SocketOps
  BY AtLine DEF Bind
<1>2. SUFFICES ASSUME ~refused(i) PROVE IInv'
  BY Ended DEF refused
<1>3. /\ stage[i] = "bind"
      /\ node' = IF at(i).arg \in Paths THEN [node EXCEPT ![at(i).arg] = i] ELSE node
      /\ stage' = [stage EXCEPT ![i] = "listen"]
      /\ UNCHANGED <<pc, conf, line, output, daemonise, controlsockets, keys, pidfile,
                     forkVars>>
  BY <1>2 DEF Bind
<1>4. /\ conf[i] \in Confs /\ at(i) \in Statements
      /\ (at(i).op \in UnixOps => at(i).arg \in Paths)
      /\ (at(i).op \in SocketOps => at(i).arg \in Paths \cup Ports)
  BY <1>1, Statement
<1>11. TypeOK'
  BY <1>1, <1>3, <1>4 DEF IInv, TypeOK, alive, fileVars, forkVars
<1>12. Serialised'
  BY <1>1, <1>3, <1>4 DEF IInv, TypeOK, Serialised, busy, fileVars, forkVars
<1>5. \A j \in Instances : at(i).arg \notin controlsockets[j]
  BY <1>1, <1>3 DEF IInv, Untaken
<1>13. Exclusive'
  BY <1>3, <1>5 DEF IInv, TypeOK, Exclusive
<1>14. Untaken'
  BY <1>1, <1>3, <1>4 DEF IInv, TypeOK, Untaken, Serialised, busy, at, forkVars
<1>15. Listening'
  BY <1>1, <1>3, <1>4 DEF IInv, TypeOK, Listening, fileVars, forkVars
<1>16. KeysApart'
  BY <1>1, <1>3, <1>4 DEF IInv, TypeOK, KeysApart, fileVars, forkVars
<1>17. Alone'
  BY <1>1, <1>3, <1>4 DEF IInv, TypeOK, Alone, past, fileVars, forkVars
<1>18. Forks'
  BY <1>1, <1>3, <1>4 DEF IInv, TypeOK, Forks, alive, fileVars, forkVars
<1> QED
  BY <1>11, <1>12, <1>13, <1>14, <1>15, <1>16, <1>17, <1>18 DEF IInv

(* Nobody has come to listen since the test, as no other start runs.       *)
LEMMA ListenStep ==
  ASSUME Serial, IInv, NEW i \in Instances, Listen(i)
  PROVE  IInv'
<1>1. pc[i] = "config" /\ line[i] \in DOMAIN conf[i] /\ at(i).op \in SocketOps
  BY AtLine DEF Listen
<1>2. SUFFICES ASSUME ~refused(i) PROVE IInv'
  BY Ended DEF refused
<1>3. /\ stage[i] = "listen"
      /\ controlsockets' = [controlsockets EXCEPT ![i] = @ \cup {at(i).arg}]
      /\ stage' = [stage EXCEPT ![i] = "connect"]
      /\ line' = [line EXCEPT ![i] = @ + 1]
      /\ UNCHANGED <<pc, conf, output, daemonise, keys, fileVars, forkVars>>
  BY <1>2 DEF Listen, addctlsocket, nextLine
<1>4. /\ conf[i] \in Confs /\ at(i) \in Statements
      /\ (at(i).op \in UnixOps => at(i).arg \in Paths)
      /\ (at(i).op \in SocketOps => at(i).arg \in Paths \cup Ports)
  BY <1>1, Statement
<1>5. conf[i] \in Seq(Statements) /\ at(i) = conf[i][line[i]]
  BY <1>4, StartupAssumption DEF at
<1>11. TypeOK'
  BY <1>1, <1>3, <1>4, <1>5 DEF IInv, TypeOK, alive, fileVars, forkVars
<1>12. Serialised'
  BY <1>1, <1>3, <1>4 DEF IInv, TypeOK, Serialised, busy, nextLine, fileVars, forkVars
<1>13. Exclusive'
  BY <1>1, <1>3 DEF IInv, TypeOK, Exclusive, Untaken, fileVars
<1>14. Untaken'
  BY <1>1, <1>3, <1>4 DEF IInv, TypeOK, Untaken, Serialised, busy, at, fileVars
<1>15. Listening'
  BY <1>1, <1>3, <1>5 DEF IInv, TypeOK, Listening, socketsOf
<1>16. KeysApart'
  BY <1>1, <1>3, <1>4 DEF IInv, TypeOK, KeysApart, nextLine, fileVars, forkVars
<1>17. Alone'
  BY <1>1, <1>3, <1>4 DEF IInv, TypeOK, Alone, past, nextLine, fileVars, forkVars
<1>18. Forks'
  BY <1>1, <1>3, <1>4 DEF IInv, TypeOK, Forks, alive, nextLine, fileVars, forkVars
<1> QED
  BY <1>11, <1>12, <1>13, <1>14, <1>15, <1>16, <1>17, <1>18 DEF IInv

(* Outputs have nothing to do with sockets and keys.                       *)
LEMMA SetOutputStep ==
  ASSUME Serial, IInv, NEW i \in Instances, SetOutput(i)
  PROVE  IInv'
<1>1. /\ pc[i] = "config" /\ line[i] \in DOMAIN conf[i] /\ stage[i] = "connect"
      /\ at(i).op \in {"SetOutputToFile", "SetOutputToKernel"}
  BY AtLine DEF SetOutput, IInv, Untaken, SocketOps, UnixOps, TcpOps
<1>2. SUFFICES ASSUME ~refused(i) PROVE IInv'
  BY Ended DEF refused
<1>3. /\ output' = [output EXCEPT ![i] = "set"]
      /\ line' = [line EXCEPT ![i] = @ + 1]
      /\ UNCHANGED <<pc, conf, stage, daemonise, controlsockets, keys, fileVars,
                     forkVars>>
  BY <1>2 DEF SetOutput, nextLine
<1>4. /\ conf[i] \in Seq(Statements) /\ at(i) = conf[i][line[i]]
      /\ at(i).op \notin SocketOps
  BY <1>1, Statement, StartupAssumption DEF at, SocketOps, UnixOps, TcpOps
<1>11. TypeOK'
  BY <1>1, <1>3, <1>4 DEF IInv, TypeOK, alive, fileVars, forkVars
<1>12. Serialised'
  BY <1>1, <1>3 DEF IInv, TypeOK, Serialised, busy, fileVars, forkVars
<1>13. Exclusive'
  BY <1>1, <1>3 DEF IInv, TypeOK, Exclusive, fileVars, forkVars
<1>14. Untaken'
  BY <1>1, <1>3 DEF IInv, TypeOK, Untaken, at, fileVars
<1>15. Listening'
  BY <1>1, <1>3, <1>4 DEF IInv, TypeOK, Listening
<1>16. KeysApart'
  BY <1>1, <1>3 DEF IInv, TypeOK, KeysApart, fileVars, forkVars
<1>17. Alone'
  BY <1>1, <1>3 DEF IInv, TypeOK, Alone, past, fileVars, forkVars
<1>18. Forks'
  BY <1>1, <1>3 DEF IInv, TypeOK, Forks, alive, fileVars, forkVars
<1> QED
  BY <1>11, <1>12, <1>13, <1>14, <1>15, <1>16, <1>17, <1>18 DEF IInv

(* The line comes after the sockets of the file: the other instances have  *)
(* no keys, since one that has listens on a socket of this file too.       *)
LEMMA AddEntropyKeyStep ==
  ASSUME Serial, IInv, NEW i \in Instances, AddEntropyKey(i)
  PROVE  IInv'
<1>1. /\ pc[i] = "config" /\ line[i] \in DOMAIN conf[i] /\ stage[i] = "connect"
      /\ at(i).op \in {"AddEntropyKey"}
  BY AtLine DEF AddEntropyKey, IInv, Untaken, SocketOps, UnixOps, TcpOps
<1>2. SUFFICES ASSUME ~refused(i) PROVE IInv'
  BY Ended DEF refused
<1>3. /\ \E devices \in SUBSET Working : keys' = [keys EXCEPT ![i] = @ \cup devices]
      /\ line' = [line EXCEPT ![i] = @ + 1]
      /\ UNCHANGED <<pc, conf, stage, output, daemonise, controlsockets, fileVars,
                     forkVars>>
  BY <1>2 DEF AddEntropyKey, opened, nextLine
<1>4. /\ conf[i] \in Seq(Statements) /\ at(i) = conf[i][line[i]]
      /\ at(i).op \notin SocketOps
  BY <1>1, Statement, StartupAssumption DEF at, SocketOps, UnixOps, TcpOps
<1>5. \A j \in Instances \ {i} : keys[j] = {} \/ pc[j] \notin {"forked", "running"}
  <2>1. \A n \in DOMAIN conf[i] : conf[i][n].op \in SocketOps => n < line[i]
    BY <1>1, <1>4, Statement, StartupAssumption DEF KeyOps
  <2>2. /\ conf[i] \in Confs /\ socketsOf(conf[i]) # {}
        /\ socketsOf(conf[i]) \subseteq controlsockets[i]
    BY <1>1, <1>4, <2>1, Statement, ListensOnAll, StartupAssumption DEF KeyOps
  <2>3. SUFFICES ASSUME NEW j \in Instances, pc[j] \in {"forked", "running"} PROVE i = j
    OBVIOUS
  <2>4. /\ conf[j] \in Confs /\ socketsOf(conf[j]) # {}
        /\ socketsOf(conf[j]) \subseteq controlsockets[j]
    <3>1. conf[j] \in Confs /\ line[j] > Len(conf[j]) /\ controlsockets[j] # {}
          /\ controlsockets[j] \subseteq socketsOf(conf[j])
      BY <2>3 DEF IInv, Listening
    <3>2. \A n \in DOMAIN conf[j] : n < line[j]
      BY <3>1, StartupAssumption DEF IInv, TypeOK
    <3> QED
      BY <2>3, <3>1, <3>2, ListensOnAll
  <2> QED
    BY <2>2, <2>4, OneListens
<1>6. \A j \in Instances \ {i} : keys[j] = {}
  BY <1>1, <1>5 DEF IInv, TypeOK, Serialised, busy, alive
<1>11. TypeOK'
  BY <1>1, <1>3, <1>4 DEF IInv, TypeOK, alive, fileVars, forkVars
<1>12. Serialised'
  BY <1>1, <1>3 DEF IInv, TypeOK, Serialised, busy, fileVars, forkVars
<1>13. Exclusive'
  BY <1>1, <1>3 DEF IInv, TypeOK, Exclusive, fileVars, forkVars
<1>14. Untaken'
  BY <1>1, <1>3 DEF IInv, TypeOK, Untaken, at, fileVars
<1>15. Listening'
  BY <1>1, <1>3, <1>4 DEF IInv, TypeOK, Listening
<1>16. KeysApart'
  BY <1>3, <1>6 DEF IInv, TypeOK, KeysApart
<1>17. Alone'
  BY <1>1, <1>3 DEF IInv, TypeOK, Alone, past, fileVars, forkVars
<1>18. Forks'
  BY <1>1, <1>3 DEF IInv, TypeOK, Forks, alive, fileVars, forkVars
<1> QED
  BY <1>11, <1>12, <1>13, <1>14, <1>15, <1>16, <1>17, <1>18 DEF IInv

(* As for a single key, with a set of devices.                             *)
LEMMA AddEntropyKeysStep ==
  ASSUME Serial, IInv, NEW i \in Instances, AddEntropyKeys(i)
  PROVE  IInv'
<1>1. /\ pc[i] = "config" /\ line[i] \in DOMAIN conf[i] /\ stage[i] = "connect"
      /\ at(i).op \in {"AddEntropyKeys"}
  BY AtLine DEF AddEntropyKeys, IInv, Untaken, SocketOps, UnixOps, TcpOps
<1>3. /\ \E devices \in SUBSET Working : keys' = [keys EXCEPT ![i] = @ \cup devices]
      /\ line' = [line EXCEPT ![i] = @ + 1]
      /\ UNCHANGED <<pc, conf, stage, output, daemonise, controlsockets, fileVars,
                     forkVars>>
  BY DEF AddEntropyKeys, opened, nextLine
<1>4. /\ conf[i] \in Seq(Statements) /\ at(i) = conf[i][line[i]]
      /\ at(i).op \notin SocketOps
  BY <1>1, Statement, StartupAssumption DEF at, SocketOps, UnixOps, TcpOps
<1>5. \A j \in Instances \ {i} : keys[j] = {} \/ pc[j] \notin {"forked", "running"}
  <2>1. \A n \in DOMAIN conf[i] : conf[i][n].op \in SocketOps => n < line[i]
    BY <1>1, <1>4, Statement, StartupAssumption DEF KeyOps
  <2>2. /\ conf[i] \in Confs /\ socketsOf(conf[i]) # {}
        /\ socketsOf(conf[i]) \subseteq controlsockets[i]
    BY <1>1, <1>4, <2>1, Statement, ListensOnAll, StartupAssumption DEF KeyOps
  <2>3. SUFFICES ASSUME NEW j \in Instances, pc[j] \in {"forked", "running"} PROVE i = j
    OBVIOUS
  <2>4. /\ conf[j] \in Confs /\ socketsOf(conf[j]) # {}
        /\ socketsOf(conf[j]) \subseteq controlsockets[j]
    <3>1. conf[j] \in Confs /\ line[j] > Len(conf[j]) /\ controlsockets[j] # {}
          /\ controlsockets[j] \subseteq socketsOf(conf[j])
      BY <2>3 DEF IInv, Listening
    <3>2. \A n \in DOMAIN conf[j] : n < line[j]
      BY <3>1, StartupAssumption DEF IInv, TypeOK
    <3> QED
      BY <2>3, <3>1, <3>2, ListensOnAll
  <2> QED
    BY <2>2, <2>4, OneListens
<1>6. \A j \in Instances \ {i} : keys[j] = {}
  BY <1>1, <1>5 DEF IInv, TypeOK, Serialised, busy, alive
<1>11. TypeOK'
  BY <1>1, <1>3, <1>4 DEF IInv, TypeOK, alive, fileVars, forkVars
<1>12. Serialised'
  BY <1>1, <1>3 DEF IInv, TypeOK, Serialised, busy, fileVars, forkVars
<1>13. Exclusive'
  BY <1>1, <1>3 DEF IInv, TypeOK, Exclusive, fileVars, forkVars
<1>14. Untaken'
  BY <1>1, <1>3 DEF IInv, TypeOK, Untaken, at, fileVars
<1>15. Listening'
  BY <1>1, <1>3, <1>4 DEF IInv, TypeOK, Listening
<1>16. KeysApart'
  BY <1>3, <1>6 DEF IInv, TypeOK, KeysApart
<1>17. Alone'
  BY <1>1, <1>3 DEF IInv, TypeOK, Alone, past, fileVars, forkVars
<1>18. Forks'
  BY <1>1, <1>3 DEF IInv, TypeOK, Forks, alive, fileVars, forkVars
<1> QED
  BY <1>11, <1>12, <1>13, <1>14, <1>15, <1>16, <1>17, <1>18 DEF IInv

(* The argument of Daemonise.                                              *)
LEMMA Booleans ==
  ASSUME IInv, NEW i \in Instances, configuring(i, {"Daemonise"})
  PROVE  at(i).arg \in BOOLEAN
<1>1. pc[i] = "config" /\ line[i] \in DOMAIN conf[i] /\ at(i).op = "Daemonise"
  BY AtLine
<1>2. at(i) \in Statements
  BY <1>1, Statement
<1> QED
  BY <1>1, <1>2 DEF Statements, UnixOps, TcpOps

(* Daemonise only sets a flag.                                             *)
LEMMA DaemoniseStep ==
  ASSUME Serial, IInv, NEW i \in Instances, Daemonise(i)
  PROVE  IInv'
<1>1. /\ pc[i] = "config" /\ line[i] \in DOMAIN conf[i] /\ stage[i] = "connect"
      /\ at(i).op \in {"Daemonise"}
  BY AtLine DEF Daemonise, IInv, Untaken, SocketOps, UnixOps, TcpOps
<1>3. /\ daemonise' = [daemonise EXCEPT ![i] = at(i).arg] /\ at(i).arg \in BOOLEAN
      /\ line' = [line EXCEPT ![i] = @ + 1]
      /\ UNCHANGED <<pc, conf, stage, output, controlsockets, keys, fileVars, forkVars>>
  BY Booleans DEF Daemonise, nextLine
<1>4. /\ conf[i] \in Seq(Statements) /\ at(i) = conf[i][line[i]]
      /\ at(i).op \notin SocketOps
  BY <1>1, Statement, StartupAssumption DEF at, SocketOps, UnixOps, TcpOps
<1>11. TypeOK'
  BY <1>1, <1>3, <1>4 DEF IInv, TypeOK, alive, fileVars, forkVars
<1>12. Serialised'
  BY <1>1, <1>3 DEF IInv, TypeOK, Serialised, busy, fileVars, forkVars
<1>13. Exclusive'
  BY <1>1, <1>3 DEF IInv, TypeOK, Exclusive, fileVars, forkVars
<1>14. Untaken'
  BY <1>1, <1>3 DEF IInv, TypeOK, Untaken, at, fileVars
<1>15. Listening'
  BY <1>1, <1>3, <1>4 DEF IInv, TypeOK, Listening
<1>16. KeysApart'
  BY <1>1, <1>3 DEF IInv, TypeOK, KeysApart, fileVars, forkVars
<1>17. Alone'
  BY <1>1, <1>3 DEF IInv, TypeOK, Alone, past, fileVars, forkVars
<1>18. Forks'
  BY <1>1, <1>3 DEF IInv, TypeOK, Forks, alive, fileVars, forkVars
<1> QED
  BY <1>11, <1>12, <1>13, <1>14, <1>15, <1>16, <1>17, <1>18 DEF IInv

(* Past its file an instance listens on all its sockets, so there is no    *)
(* other.                                                                  *)
LEMMA ConfiguredStep ==
  ASSUME Serial, IInv, NEW i \in Instances, Configured(i)
  PROVE  IInv'
<1>1. /\ pc[i] = "config" /\ line[i] > Len(conf[i])
      /\ conf[i] \in Confs /\ conf[i] \in Seq(Statements)
      /\ line[i] \notin DOMAIN conf[i]
  BY StartupAssumption DEF Configured, IInv, TypeOK, Listening
<1>2. SUFFICES ASSUME ~refused(i) PROVE IInv'
  BY Ended DEF refused
<1>3. /\ controlsockets[i] # {}
      /\ pc' = [pc EXCEPT ![i] = IF daemonise[i] THEN "forked" ELSE "running"]
      /\ launcher' = [launcher EXCEPT ![i] = IF daemonise[i] THEN "waiting" ELSE @]
      /\ pidwriter' = [pidwriter EXCEPT ![i] = IF daemonise[i] THEN "opening" ELSE @]
      /\ UNCHANGED <<confVars, controlsockets, keys, fileVars>>
  BY <1>2 DEF Configured
<1>5. \A j \in Instances \ {i} : ~alive(j)
  <2>1. SUFFICES ASSUME NEW j \in Instances, alive(j) PROVE i = j
    OBVIOUS
  <2>2. CASE pc[j] # "running"
    BY <1>1, <2>1, <2>2 DEF IInv, Serialised, busy, alive
  <2>3. CASE pc[j] = "running"
    <3>1. conf[j] \in Confs /\ line[j] > Len(conf[j]) /\ controlsockets[j] # {}
          /\ controlsockets[j] \subseteq socketsOf(conf[j])
          /\ controlsockets[i] \subseteq socketsOf(conf[i])
      BY <1>1, <2>3 DEF IInv, Listening
    <3>2. \A n \in DOMAIN conf[j] : n < line[j]
      BY <3>1, StartupAssumption DEF IInv, TypeOK
    <3>3. \A n \in DOMAIN conf[i] : n < line[i]
      BY <1>1 DEF IInv, TypeOK
    <3> QED
      BY <1>1, <1>3, <2>3, <3>1, <3>2, <3>3, ListensOnAll, OneListens
  <2> QED
    BY <2>2, <2>3
<1>11. TypeOK'
  BY <1>1, <1>3 DEF IInv, TypeOK, alive, confVars, fileVars
<1>12. Serialised'
  BY <1>1, <1>3, <1>5 DEF IInv, TypeOK, Serialised, busy, alive
<1>13. Exclusive'
  BY <1>1, <1>3 DEF IInv, TypeOK, Exclusive, confVars, fileVars
<1>14. Untaken'
  BY <1>1, <1>3 DEF IInv, TypeOK, Untaken, at, confVars, fileVars
<1>15. Listening'
  BY <1>1, <1>3 DEF IInv, TypeOK, Listening, confVars, fileVars
<1>16. KeysApart'
  BY <1>1, <1>3 DEF IInv, TypeOK, KeysApart, confVars, fileVars
<1>17. Alone'
  BY <1>1, <1>3, <1>5 DEF IInv, TypeOK, Alone, past, alive
<1>18. Forks'
  BY <1>1, <1>3, <1>5 DEF IInv, TypeOK, Forks, alive, confVars, fileVars
<1> QED
  BY <1>11, <1>12, <1>13, <1>14, <1>15, <1>16, <1>17, <1>18 DEF IInv

(* The writer of the pid file belongs to the one instance that is alive.   *)
LEMMA OpenPidStep ==
  ASSUME Serial, IInv, NEW i \in Instances, OpenPid(i)
  PROVE  IInv'
<1>11. TypeOK'
  BY DEF IInv, TypeOK, alive, OpenPid, writerIs, confVars
<1>12. Serialised'
  BY DEF IInv, TypeOK, Serialised, busy, OpenPid, writerIs, confVars
<1>13. Exclusive'
  BY DEF IInv, TypeOK, Exclusive, OpenPid, writerIs, confVars
<1>14. Untaken'
  BY DEF IInv, TypeOK, Untaken, at, OpenPid, writerIs, confVars
<1>15. Listening'
  BY DEF IInv, TypeOK, Listening, OpenPid, writerIs, confVars
<1>16. KeysApart'
  BY DEF IInv, TypeOK, KeysApart, OpenPid, writerIs, confVars
<1>17. Alone'
  BY DEF IInv, TypeOK, Alone, past, OpenPid, writerIs, confVars
<1>18. Forks'
  BY DEF IInv, TypeOK, Forks, alive, OpenPid, writerIs, confVars
<1> QED
  BY <1>11, <1>12, <1>13, <1>14, <1>15, <1>16, <1>17, <1>18 DEF IInv

(* On a full disk the file stays empty.                                    *)
LEMMA WritePidStep ==
  ASSUME Serial, IInv, NEW i \in Instances, WritePid(i)
  PROVE  IInv'
<1>11. TypeOK'
  BY DEF IInv, TypeOK, alive, WritePid, writerIs, confVars
<1>12. Serialised'
  BY DEF IInv, TypeOK, Serialised, busy, WritePid, writerIs, confVars
<1>13. Exclusive'
  BY DEF IInv, TypeOK, Exclusive, WritePid, writerIs, confVars
<1>14. Untaken'
  BY DEF IInv, TypeOK, Untaken, at, WritePid, writerIs, confVars
<1>15. Listening'
  BY DEF IInv, TypeOK, Listening, WritePid, writerIs, confVars
<1>16. KeysApart'
  BY DEF IInv, TypeOK, KeysApart, WritePid, writerIs, confVars
<1>17. Alone'
  BY DEF IInv, TypeOK, Alone, past, WritePid, writerIs, confVars
<1>18. Forks'
  BY DEF IInv, TypeOK, Forks, alive, WritePid, writerIs, confVars
<1> QED
  BY <1>11, <1>12, <1>13, <1>14, <1>15, <1>16, <1>17, <1>18 DEF IInv

(* It may be killed.                                                       *)
LEMMA WriterKilledStep ==
  ASSUME Serial, IInv, NEW i \in Instances, WriterKilled(i)
  PROVE  IInv'
<1>11. TypeOK'
  BY DEF IInv, TypeOK, alive, WriterKilled, writerIs, confVars, fileVars
<1>12. Serialised'
  BY DEF IInv, TypeOK, Serialised, busy, WriterKilled, writerIs, confVars, fileVars
<1>13. Exclusive'
  BY DEF IInv, TypeOK, Exclusive, WriterKilled, writerIs, confVars, fileVars
<1>14. Untaken'
  BY DEF IInv, TypeOK, Untaken, at, WriterKilled, writerIs, confVars, fileVars
<1>15. Listening'
  BY DEF IInv, TypeOK, Listening, WriterKilled, writerIs, confVars, fileVars
<1>16. KeysApart'
  BY DEF IInv, TypeOK, KeysApart, WriterKilled, writerIs, confVars, fileVars
<1>17. Alone'
  BY DEF IInv, TypeOK, Alone, past, WriterKilled, writerIs, confVars, fileVars
<1>18. Forks'
  BY DEF IInv, TypeOK, Forks, alive, WriterKilled, writerIs, confVars, fileVars
<1> QED
  BY <1>11, <1>12, <1>13, <1>14, <1>15, <1>16, <1>17, <1>18 DEF IInv

(* The launcher goes on waiting for the process that writes the pid file.  *)
LEMMA ClosePipeStep ==
  ASSUME Serial, IInv, NEW i \in Instances, ClosePipe(i)
  PROVE  IInv'
<1>11. TypeOK'
  BY DEF IInv, TypeOK, alive, ClosePipe, confVars, fileVars, forkVars
<1>12. Serialised'
  BY DEF IInv, TypeOK, Serialised, busy, ClosePipe, confVars, fileVars, forkVars
<1>13. Exclusive'
  BY DEF IInv, TypeOK, Exclusive, ClosePipe, confVars, fileVars, forkVars
<1>14. Untaken'
  BY DEF IInv, TypeOK, Untaken, at, ClosePipe, confVars, fileVars, forkVars
<1>15. Listening'
  BY DEF IInv, TypeOK, Listening, ClosePipe, confVars, fileVars, forkVars
<1>16. KeysApart'
  BY DEF IInv, TypeOK, KeysApart, ClosePipe, confVars, fileVars, forkVars
<1>17. Alone'
  BY DEF IInv, TypeOK, Alone, past, ClosePipe, confVars, fileVars, forkVars
<1>18. Forks'
  BY DEF IInv, TypeOK, Forks, alive, ClosePipe, confVars, fileVars, forkVars
<1> QED
  BY <1>11, <1>12, <1>13, <1>14, <1>15, <1>16, <1>17, <1>18 DEF IInv

(* Both ends of the pipe are closed: nobody writes the pid file any more.  *)
LEMMA LauncherReturnsStep ==
  ASSUME Serial, IInv, NEW i \in Instances, LauncherReturns(i)
  PROVE  IInv'
<1>11. TypeOK'
  BY DEF IInv, TypeOK, alive, LauncherReturns, confVars, fileVars
<1>12. Serialised'
  BY DEF IInv, TypeOK, Serialised, busy, LauncherReturns, confVars, fileVars
<1>13. Exclusive'
  BY DEF IInv, TypeOK, Exclusive, LauncherReturns, confVars, fileVars
<1>14. Untaken'
  BY DEF IInv, TypeOK, Untaken, at, LauncherReturns, confVars, fileVars
<1>15. Listening'
  BY DEF IInv, TypeOK, Listening, LauncherReturns, confVars, fileVars
<1>16. KeysApart'
  BY DEF IInv, TypeOK, KeysApart, LauncherReturns, confVars, fileVars
<1>17. Alone'
  BY DEF IInv, TypeOK, Alone, past, LauncherReturns, confVars, fileVars
<1>18. Forks'
  BY DEF IInv, TypeOK, Forks, alive, LauncherReturns, confVars, fileVars
<1> QED
  BY <1>11, <1>12, <1>13, <1>14, <1>15, <1>16, <1>17, <1>18 DEF IInv

(* A daemon that closes is the one that ran.                               *)
LEMMA ShutdownStep ==
  ASSUME Serial, IInv, NEW i \in Instances, Shutdown(i)
  PROVE  IInv'
<1>11. TypeOK'
  BY DEF IInv, TypeOK, alive, Shutdown, quiet, confVars, fileVars, forkVars
<1>12. Serialised'
  BY DEF IInv, TypeOK, Serialised, busy, Shutdown, quiet, confVars, fileVars,
     forkVars, Alone, past
<1>13. Exclusive'
  BY DEF IInv, TypeOK, Exclusive, Shutdown, quiet, confVars, fileVars, forkVars
<1>14. Untaken'
  BY DEF IInv, TypeOK, Untaken, at, Shutdown, quiet, confVars, fileVars, forkVars
<1>15. Listening'
  BY DEF IInv, TypeOK, Listening, Shutdown, quiet, confVars, fileVars, forkVars
<1>16. KeysApart'
  BY DEF IInv, TypeOK, KeysApart, Shutdown, quiet, confVars, fileVars, forkVars
<1>17. Alone'
  BY DEF IInv, TypeOK, Alone, past, Shutdown, quiet, confVars, fileVars, forkVars
<1>18. Forks'
  BY DEF IInv, TypeOK, Forks, alive, Shutdown, quiet, confVars, fileVars, forkVars,
     Alone, past
<1> QED
  BY <1>11, <1>12, <1>13, <1>14, <1>15, <1>16, <1>17, <1>18 DEF IInv

(* The same when poll fails.                                               *)
LEMMA PollFailsStep ==
  ASSUME Serial, IInv, NEW i \in Instances, PollFails(i)
  PROVE  IInv'
<1>11. TypeOK'
  BY DEF IInv, TypeOK, alive, PollFails, quiet, confVars, fileVars, forkVars
<1>12. Serialised'
  BY DEF IInv, TypeOK, Serialised, busy, PollFails, quiet, confVars, fileVars,
     forkVars, Alone, past
<1>13. Exclusive'
  BY DEF IInv, TypeOK, Exclusive, PollFails, quiet, confVars, fileVars, forkVars
<1>14. Untaken'
  BY DEF IInv, TypeOK, Untaken, at, PollFails, quiet, confVars, fileVars, forkVars
<1>15. Listening'
  BY DEF IInv, TypeOK, Listening, PollFails, quiet, confVars, fileVars, forkVars
<1>16. KeysApart'
  BY DEF IInv, TypeOK, KeysApart, PollFails, quiet, confVars, fileVars, forkVars
<1>17. Alone'
  BY DEF IInv, TypeOK, Alone, past, PollFails, quiet, confVars, fileVars, forkVars
<1>18. Forks'
  BY DEF IInv, TypeOK, Forks, alive, PollFails, quiet, confVars, fileVars, forkVars,
     Alone, past
<1> QED
  BY <1>11, <1>12, <1>13, <1>14, <1>15, <1>16, <1>17, <1>18 DEF IInv

(* The pid file cannot be opened, and the daemon is killed if it still runs. *)
LEMMA OpenPidFailsStep ==
  ASSUME Serial, IInv, NEW i \in Instances, OpenPidFails(i)
  PROVE  IInv'
<1>1. TypeOK'
  <2>1. CASE alive(i)
    <3>1. gone(i, "dead") /\ pidwriter' = [pidwriter EXCEPT ![i] = "unopened"]
          /\ UNCHANGED <<node, pidfile, launcher>>
      BY <2>1 DEF OpenPidFails, writerIs, fileVars
    <3>2. \A j \in Instances : ~alive(j)' => controlsockets'[j] = {} /\ keys'[j] = {}
      BY <3>1 DEF IInv, TypeOK, alive, gone
    <3> QED
      BY <3>1, <3>2 DEF IInv, TypeOK, gone
  <2>2. CASE ~alive(i)
    BY <2>2 DEF IInv, TypeOK, OpenPidFails, writerIs, alive, confVars, fileVars
  <2> QED
    BY <2>1, <2>2
<1>2. Forks'
  <2>1. CASE alive(i)
    BY <2>1 DEF IInv, TypeOK, Forks, OpenPidFails, writerIs, alive, gone, fileVars
  <2>2. CASE ~alive(i)
    BY <2>2 DEF IInv, TypeOK, Forks, OpenPidFails, writerIs, alive, confVars, fileVars
  <2> QED
    BY <2>1, <2>2
<1>3. Serialised' /\ Exclusive' /\ Untaken' /\ Listening' /\ KeysApart' /\ Alone'
  <2>1. CASE alive(i)
    BY <2>1, Gone DEF OpenPidFails, fileVars
  <2>2. CASE ~alive(i)
    BY <2>2 DEF IInv, Serialised, busy, Exclusive, Untaken, at, Listening, KeysApart,
       Alone,
                past, OpenPidFails, confVars, fileVars
  <2> QED
    BY <2>1, <2>2
<1> QED
  BY <1>1, <1>2, <1>3 DEF IInv

(* The one daemon that ends removes the pid file, and nobody runs after it. *)
LEMMA ExitStep ==
  ASSUME Serial, IInv, NEW i \in Instances, Exit(i)
  PROVE  IInv'
<1>1. TypeOK'
  BY DEF IInv, TypeOK, Exit, alive, gone, forkVars
<1>2. Forks'
  BY DEF IInv, TypeOK, Forks, Exit, Alone, past, alive, gone, forkVars
<1> QED
  BY <1>1, <1>2, Gone DEF IInv, Exit, forkVars

(* A process may die anywhere.                                             *)
LEMMA CrashStep ==
  ASSUME Serial, IInv, NEW i \in Instances, Crash(i)
  PROVE  IInv'
  BY Ended DEF Crash

(* Nothing has been started.                                               *)
LEMMA InitInv == ASSUME Init PROVE IInv
  BY DEF Init, IInv, TypeOK, Serialised, busy, Exclusive, Untaken, Listening,
     KeysApart,
         Alone, past, Forks, alive

(* Every step keeps the invariant.                                         *)
LEMMA NextInv == ASSUME Serial, IInv, [Next]_vars PROVE IInv'
<1>1. CASE UNCHANGED vars
  BY <1>1 DEF vars, confVars, fileVars, forkVars, IInv, TypeOK, Serialised, busy,
     Exclusive,
              Untaken, at, Listening, KeysApart, Alone, past, Forks, alive
<1>2. CASE Next
  BY <1>2, StartStep, ConnectStep, UnlinkStep, BindStep, ListenStep, SetOutputStep,
     AddEntropyKeyStep, AddEntropyKeysStep, DaemoniseStep, ConfiguredStep, OpenPidStep,
     OpenPidFailsStep, WritePidStep, WriterKilledStep, ClosePipeStep, LauncherReturnsStep,
     ShutdownStep, PollFailsStep,
     ExitStep, CrashStep DEF Next
<1> QED
  BY <1>1, <1>2

(* So it holds throughout.                                                 *)
LEMMA Invariance == ASSUME Serial PROVE Spec => []IInv
<1>1. Init => IInv
  BY InitInv
<1>2. IInv /\ [Next]_vars => IInv'
  BY NextInv
<1> QED
  BY <1>1, <1>2, PTL DEF Spec

(* Every variable of the start-up keeps its type, and a process that has   *)
(* ended holds neither sockets nor keys.                                   *)
THEOREM TypeCorrect == ASSUME Serial PROVE Spec => []TypeOK
<1>1. IInv => TypeOK
  BY DEF IInv
<1> QED
  BY <1>1, Invariance, PTL

(* No start, refusal, kill or end of another ekeyd takes the sockets or    *)
(* the keys of one that runs (the test in UnixControlSocket and its like), *)
(* if starts and orderly ends do not overlap and the files satisfy         *)
(* StartupAssumption: sockets come before keys, and two files share one.   *)
THEOREM StartsDoNotDisturb == ASSUME Serial PROVE Spec => []Undisturbed
<1>1. IInv => Undisturbed
  BY DEF IInv, Exclusive, KeysApart, Undisturbed
<1> QED
  BY <1>1, Invariance, PTL

(* do_daemonise: when the launcher has returned the pid file names the     *)
(* daemon for as long as it runs, unless the process that writes it was    *)
(* killed or found the disk full; past fopen it never names a former one.  *)
THEOREM PidFileNamesDaemon == ASSUME Serial PROVE Spec => []PidFileTrue
<1>1. IInv => PidFileTrue
  BY DEF IInv, Forks, PidFileTrue
<1> QED
  BY <1>1, Invariance, PTL
-----------------------------------------------------------------------------
(* What a configuration file has got through                               *)

OutputOps == {"SetOutputToFile", "SetOutputToKernel"}

before(file, n, ops) == {m \in DOMAIN file : m < n /\ file[m].op \in ops}

(* An EGD socket counts as soon as its statement has set the output, mid   *)
(* in the statement.                                                       *)
folding(file, n, mid) ==
  {m \in DOMAIN file : (m < n \/ (mid /\ m = n)) /\ file[m].op \in EGDOps}

(* What the statements before the n-th have made of the output and the     *)
(* sockets, and that none of them was bad.                                 *)
Got(file, n, out, sockets, mid) ==
  /\ \A m \in DOMAIN file : m < n => file[m].ok
  /\ sockets = {file[m].arg : m \in before(file, n, SocketOps)}
  /\ \A l, m \in before(file, n, SocketOps) : file[l].arg = file[m].arg => l = m
  /\ out = "none" => before(file, n, OutputOps) = {} /\ folding(file, n, mid) = {}
  /\ out = "set" => /\ \E f \in DOMAIN file : before(file, n, OutputOps) = {f}
                    /\ folding(file, n, mid) = {}
  /\ out = "folded" => before(file, n, OutputOps) = {} /\ folding(file, n, mid) # {}
  /\ \A m \in before(file, n, {"AddEntropyKey"}) :
       /\ file[m].arg \in Working
       /\ \E l \in DOMAIN file : l < m /\ file[l].op \in OutputOps \cup EGDOps

(* An instance that configures itself has got this far; the path it is     *)
(* about to bind is free.                                                  *)
ProgressOf(i) ==
  pc[i] = "config" =>
    /\ Got(conf[i], line[i], output[i], controlsockets[i], stage[i] # "connect")
    /\ stage[i] = "bind" /\ at(i).arg \in Paths => node[at(i).arg] = none

Progress == \A i \in Instances : ProgressOf(i)

(* Lines of a file are numbers.                                            *)
LEMMA FileLines ==
  ASSUME NEW file \in Confs
  PROVE  /\ DOMAIN file = 1 .. Len(file) /\ Len(file) \in Nat
         /\ \A m \in DOMAIN file : m \in Nat /\ m >= 1 /\ file[m] \in Statements
BY StartupAssumption

(* A statement more that counts,                                           *)
LEMMA OneMore ==
  ASSUME NEW file \in Confs, NEW n \in DOMAIN file, NEW ops, file[n].op \in ops
  PROVE  before(file, n + 1, ops) = before(file, n, ops) \cup {n}
<1>1. \A m \in DOMAIN file : m < n + 1 <=> m < n \/ m = n
  BY FileLines
<1> QED
  BY <1>1 DEF before

(* and one that does not.                                                  *)
LEMMA NoneMore ==
  ASSUME NEW file \in Confs, NEW n \in DOMAIN file, NEW ops, file[n].op \notin ops
  PROVE  before(file, n + 1, ops) = before(file, n, ops)
<1>1. \A m \in DOMAIN file : m < n + 1 <=> m < n \/ m = n
  BY FileLines
<1> QED
  BY <1>1 DEF before

(* Sockets of EGD, in the middle of their statement and after it.          *)
LEMMA Folding ==
  ASSUME NEW file \in Confs, NEW n \in DOMAIN file
  PROVE  /\ folding(file, n + 1, FALSE) = folding(file, n, TRUE)
         /\ file[n].op \in EGDOps => n \in folding(file, n, TRUE)
         /\ file[n].op \notin EGDOps => folding(file, n, TRUE) = folding(file, n, FALSE)
<1>1. \A m \in DOMAIN file : m < n + 1 <=> m < n \/ m = n
  BY FileLines
<1> QED
  BY <1>1 DEF folding

(* Which statements do what.                                               *)
LEMMA Kinds ==
  /\ \A x \in SocketOps : x \notin OutputOps /\ x # "AddEntropyKey"
  /\ \A x \in OutputOps : x \notin SocketOps /\ x \notin EGDOps /\ x # "AddEntropyKey"
  /\ \A x \in {"AddEntropyKey", "AddEntropyKeys", "Daemonise"} :
       x \notin SocketOps /\ x \notin EGDOps /\ x \notin OutputOps
  /\ EGDOps \subseteq SocketOps
BY DEF SocketOps, UnixOps, TcpOps, EGDOps, OutputOps

(* A socket's statement is begun: the output is set for an EGD socket.     *)
LEMMA GotBegun ==
  ASSUME NEW file \in Confs, NEW n \in DOMAIN file, NEW out \in {"none", "set", "folded"},
         NEW sockets, Got(file, n, out, sockets, FALSE),
         ~(file[n].op \in EGDOps /\ out = "set")
  PROVE  Got(file, n, IF file[n].op \in EGDOps THEN "folded" ELSE out, sockets, TRUE)
<1>1. CASE file[n].op \in EGDOps
  <2>1. folding(file, n, TRUE) # {} /\ before(file, n, OutputOps) = {}
    <3>1. n \in folding(file, n, TRUE)
      BY <1>1, Folding
    <3>2. out \in {"none", "folded"}
      BY <1>1
    <3> QED
      BY <3>1, <3>2 DEF Got
  <2> QED
    BY <1>1, <2>1 DEF Got
<1>2. CASE file[n].op \notin EGDOps
  <2>1. folding(file, n, TRUE) = folding(file, n, FALSE)
    BY <1>2, Folding
  <2> QED
    BY <1>2, <2>1 DEF Got
<1> QED
  BY <1>1, <1>2

(* And ended: one address more is listened on.                             *)
LEMMA GotSocket ==
  ASSUME NEW file \in Confs, NEW n \in DOMAIN file, NEW out \in {"none", "set", "folded"},
         NEW sockets, Got(file, n, out, sockets, TRUE), file[n].op \in SocketOps, file[n].ok,
         file[n].arg \notin sockets
  PROVE  Got(file, n + 1, out, sockets \cup {file[n].arg}, FALSE)
<1>1. /\ before(file, n + 1, SocketOps) = before(file, n, SocketOps) \cup {n}
      /\ before(file, n + 1, OutputOps) = before(file, n, OutputOps)
      /\ before(file, n + 1, {"AddEntropyKey"}) = before(file, n, {"AddEntropyKey"})
      /\ folding(file, n + 1, FALSE) = folding(file, n, TRUE)
  <2>1. file[n].op \notin OutputOps /\ file[n].op \notin {"AddEntropyKey"}
    BY Kinds
  <2> QED
    BY <2>1, OneMore, NoneMore, Folding
<1>2. sockets = {file[m].arg : m \in before(file, n, SocketOps)}
  BY DEF Got
<1>3. sockets \cup {file[n].arg} = {file[m].arg : m \in before(file, n + 1, SocketOps)}
  BY <1>1, <1>2
<1>4. \A l, m \in before(file, n + 1, SocketOps) : file[l].arg = file[m].arg => l = m
  <2>1. \A m \in before(file, n, SocketOps) : file[m].arg # file[n].arg
    BY <1>2
  <2> QED
    BY <1>1, <2>1 DEF Got
<1>5. \A m \in DOMAIN file : m < n + 1 => file[m].ok
  <2>1. \A m \in DOMAIN file : m < n + 1 => m < n \/ m = n
    BY FileLines
  <2> QED
    BY <2>1 DEF Got
<1> QED
  BY <1>1, <1>3, <1>4, <1>5 DEF Got

(* The output is set.                                                      *)
LEMMA GotOutput ==
  ASSUME NEW file \in Confs, NEW n \in DOMAIN file, NEW sockets,
         Got(file, n, "none", sockets, FALSE), file[n].op \in OutputOps, file[n].ok
  PROVE  Got(file, n + 1, "set", sockets, FALSE)
<1>1. /\ before(file, n + 1, SocketOps) = before(file, n, SocketOps)
      /\ before(file, n + 1, OutputOps) = before(file, n, OutputOps) \cup {n}
      /\ before(file, n + 1, {"AddEntropyKey"}) = before(file, n, {"AddEntropyKey"})
      /\ folding(file, n + 1, FALSE) = folding(file, n, FALSE)
  <2>1. /\ file[n].op \notin SocketOps /\ file[n].op \notin {"AddEntropyKey"}
        /\ file[n].op \notin EGDOps
    BY Kinds
  <2> QED
    BY <2>1, OneMore, NoneMore, Folding
<1>2. before(file, n, OutputOps) = {} /\ folding(file, n, FALSE) = {}
  BY DEF Got
<1>3. \A m \in DOMAIN file : m < n + 1 => file[m].ok
  <2>1. \A m \in DOMAIN file : m < n + 1 => m < n \/ m = n
    BY FileLines
  <2> QED
    BY <2>1 DEF Got
<1>4. before(file, n + 1, OutputOps) = {n} /\ folding(file, n + 1, FALSE) = {}
  BY <1>1, <1>2
<1> QED
  BY <1>1, <1>3, <1>4 DEF Got

(* Keys and Daemonise change neither.                                      *)
LEMMA GotOther ==
  ASSUME NEW file \in Confs, NEW n \in DOMAIN file, NEW out \in {"none", "set", "folded"},
         NEW sockets, Got(file, n, out, sockets, FALSE), file[n].ok,
         file[n].op \in {"AddEntropyKey", "AddEntropyKeys", "Daemonise"},
         file[n].op = "AddEntropyKey" => file[n].arg \in Working /\ out # "none"
  PROVE  Got(file, n + 1, out, sockets, FALSE)
<1>1. /\ before(file, n + 1, SocketOps) = before(file, n, SocketOps)
      /\ before(file, n + 1, OutputOps) = before(file, n, OutputOps)
      /\ folding(file, n + 1, FALSE) = folding(file, n, FALSE)
  <2>1. /\ file[n].op \notin SocketOps /\ file[n].op \notin OutputOps
        /\ file[n].op \notin EGDOps
    BY Kinds
  <2> QED
    BY <2>1, OneMore, NoneMore, Folding
<1>2. \A m \in DOMAIN file : m < n + 1 => file[m].ok
  <2>1. \A m \in DOMAIN file : m < n + 1 => m < n \/ m = n
    BY FileLines
  <2> QED
    BY <2>1 DEF Got
<1>3. \A m \in before(file, n + 1, {"AddEntropyKey"}) :
        /\ file[m].arg \in Working
        /\ \E l \in DOMAIN file : l < m /\ file[l].op \in OutputOps \cup EGDOps
  <2>1. CASE file[n].op = "AddEntropyKey"
    <3>1. \E l \in DOMAIN file : l < n /\ file[l].op \in OutputOps \cup EGDOps
      BY <2>1 DEF Got, before, folding
    <3>2. before(file, n + 1, {"AddEntropyKey"}) = before(file, n, {"AddEntropyKey"}) \cup {n}
      BY <2>1, OneMore, NoneMore, Folding
    <3> QED
      BY <2>1, <3>1, <3>2 DEF Got
  <2>2. CASE file[n].op # "AddEntropyKey"
    <3>1. before(file, n + 1, {"AddEntropyKey"}) = before(file, n, {"AddEntropyKey"})
      <4>1. file[n].op \notin {"AddEntropyKey"}
        BY <2>2
      <4> QED
        BY <4>1, NoneMore
    <3> QED
      BY <3>1 DEF Got
  <2> QED
    BY <2>1, <2>2
<1> QED
  BY <1>1, <1>2, <1>3 DEF Got

-----------------------------------------------------------------------------
(* What makes a file a bad one                                             *)

lines(file, ops) == {n \in DOMAIN file : file[n].op \in ops}

(* Valid in terms of lines.                                                *)
LEMMA ValidIs ==
  ASSUME NEW file
  PROVE  Valid(file) <=>
           /\ Cardinality(lines(file, OutputOps))
                + (IF lines(file, EGDOps) = {} THEN 0 ELSE 1) <= 1
           /\ lines(file, SocketOps) # {}
           /\ \A m, n \in lines(file, SocketOps) : file[m].arg = file[n].arg => m = n
           /\ \A n \in lines(file, {"AddEntropyKey"}) :
                /\ file[n].arg \in Working
                /\ \E m \in lines(file, OutputOps) \cup lines(file, EGDOps) : m < n
           /\ \A n \in DOMAIN file : file[n].ok
BY DEF Valid, lines, OutputOps

(* How many statements set a fixed output.                                 *)
LEMMA OutputLines ==
  ASSUME NEW file \in Confs
  PROVE  LET fixed == lines(file, OutputOps)
         IN  /\ Cardinality(fixed) \in Nat
             /\ fixed = {} => Cardinality(fixed) = 0
             /\ \A f : fixed = {f} => Cardinality(fixed) = 1
             /\ fixed # {} => Cardinality(fixed) >= 1
             /\ \A f, g \in fixed : f # g => Cardinality(fixed) >= 2
<1> DEFINE S == lines(file, OutputOps)
<1>1. IsFiniteSet(S) /\ Cardinality(S) \in Nat
  <2>1. IsFiniteSet(1 .. Len(file)) /\ S \subseteq 1 .. Len(file)
    BY FileLines, FS_Interval DEF lines
  <2>2. IsFiniteSet(S)
    BY <2>1, FS_Subset
  <2> QED
    BY <2>2, FS_CardinalityType
<1> HIDE DEF S
<1>2. (S = {} => Cardinality(S) = 0) /\ (S # {} => Cardinality(S) # 0)
  BY <1>1, FS_EmptySet
<1>3. \A f : S = {f} => Cardinality(S) = 1
  BY FS_Singleton
<1>4. ASSUME NEW f \in S, NEW g \in S, f # g
      PROVE  Cardinality(S) >= 2
  <2>1. /\ IsFiniteSet({f}) /\ Cardinality({f}) = 1
    BY FS_Singleton
  <2>2. IsFiniteSet({f} \cup {g}) /\ Cardinality({f} \cup {g}) = 2
    <3>1. g \notin {f}
      BY <1>4
    <3>2. /\ IsFiniteSet({f} \cup {g})
          /\ Cardinality({f} \cup {g}) = IF g \in {f} THEN Cardinality({f})
                                                      ELSE Cardinality({f}) + 1
      BY ONLY <2>1, FS_AddElement, Zenon
    <3> QED
      BY ONLY <2>1, <3>1, <3>2
  <2>3. Cardinality({f} \cup {g}) <= Cardinality(S)
    BY <1>1, FS_Subset
  <2> QED
    BY <1>1, <2>2, <2>3
<1> QED
  BY <1>1, <1>2, <1>3, <1>4 DEF S

(* Two outputs.                                                            *)
LEMMA BadOutput ==
  ASSUME NEW file \in Confs, NEW n \in DOMAIN file, NEW out \in {"none", "set", "folded"},
         NEW sockets, Got(file, n, out, sockets, FALSE),
         \/ file[n].op \in OutputOps /\ out # "none"
         \/ file[n].op \in EGDOps /\ out = "set"
  PROVE  ~Valid(file)
<1> DEFINE fixed == lines(file, OutputOps)
           egd == lines(file, EGDOps)
<1>1. Cardinality(fixed) \in Nat /\ (fixed # {} => Cardinality(fixed) >= 1)
      /\ \A f, g \in fixed : f # g => Cardinality(fixed) >= 2
  BY OutputLines
<1>2. n \in Nat /\ ~(n < n)
  BY FileLines
<1>3. CASE out = "set"
  <2>1. PICK f \in DOMAIN file : f < n /\ file[f].op \in OutputOps
    BY <1>3 DEF Got, before
  <2>2. f \in fixed /\ f # n
    BY <1>2, <2>1 DEF lines
  <2>3. CASE file[n].op \in OutputOps
    <3>1. n \in fixed
      BY <2>3 DEF lines
    <3>2. Cardinality(fixed) >= 2
      BY <1>1, <2>2, <3>1
    <3> HIDE DEF fixed, egd
    <3>3. ~(Cardinality(fixed) + (IF egd = {} THEN 0 ELSE 1) <= 1)
      BY <1>1, <3>2
    <3> QED
      BY <3>3, ValidIs DEF fixed, egd
  <2>4. CASE file[n].op \in EGDOps
    <3>1. egd # {} /\ fixed # {}
      BY <2>2, <2>4 DEF lines
    <3> HIDE DEF fixed, egd
    <3>2. ~(Cardinality(fixed) + (IF egd = {} THEN 0 ELSE 1) <= 1)
      BY <1>1, <3>1
    <3> QED
      BY <3>2, ValidIs DEF fixed, egd
  <2> QED
    BY <2>3, <2>4
<1>4. CASE out = "folded"
  <2>1. egd # {} /\ fixed # {}
    BY <1>4 DEF Got, folding, lines
  <2> HIDE DEF fixed, egd
  <2>2. ~(Cardinality(fixed) + (IF egd = {} THEN 0 ELSE 1) <= 1)
    BY <1>1, <2>1
  <2> QED
    BY <2>2, ValidIs DEF fixed, egd
<1> QED
  BY <1>3, <1>4

(* The same address twice.                                                 *)
LEMMA BadSocket ==
  ASSUME NEW file \in Confs, NEW n \in DOMAIN file, NEW out, NEW sockets, NEW mid,
         Got(file, n, out, sockets, mid), file[n].op \in SocketOps, file[n].arg \in sockets
  PROVE  ~Valid(file)
<1>1. PICK m \in DOMAIN file : m < n /\ file[m].op \in SocketOps /\ file[m].arg = file[n].arg
  BY DEF Got, before
<1>2. m # n
  BY <1>1, FileLines
<1> QED
  BY <1>1, <1>2, ValidIs DEF lines

(* A key before the output, or one that is not there.                      *)
LEMMA BadKey ==
  ASSUME NEW file \in Confs, NEW n \in DOMAIN file, NEW out, NEW sockets,
         Got(file, n, out, sockets, FALSE), file[n].op = "AddEntropyKey",
         out = "none" \/ file[n].arg \notin Working
  PROVE  ~Valid(file)
<1>1. CASE out = "none"
  <2>1. \A m \in lines(file, OutputOps) \cup lines(file, EGDOps) : ~(m < n)
    BY <1>1 DEF Got, before, folding, lines
  <2> QED
    BY <2>1, ValidIs DEF lines
<1>2. CASE file[n].arg \notin Working
  BY <1>2, ValidIs DEF lines
<1> QED
  BY <1>1, <1>2

(* At its end a file is good if it has opened a socket, and only then.     *)
LEMMA GotAll ==
  ASSUME NEW file \in Confs, NEW n \in Nat, n > Len(file),
         NEW out \in {"none", "set", "folded"}, NEW sockets, Got(file, n, out, sockets, FALSE)
  PROVE  Valid(file) <=> sockets # {}
<1>1. /\ \A ops : before(file, n, ops) = lines(file, ops)
      /\ folding(file, n, FALSE) = lines(file, EGDOps)
      /\ \A m \in DOMAIN file : m < n
  <2>1. \A m \in DOMAIN file : m < n
    BY FileLines
  <2> QED
    BY <2>1 DEF before, folding, lines
<1>2. sockets # {} <=> lines(file, SocketOps) # {}
  BY <1>1 DEF Got
<1>3. Cardinality(lines(file, OutputOps)) + (IF lines(file, EGDOps) = {} THEN 0 ELSE 1) <= 1
  <2> DEFINE fixed == lines(file, OutputOps)
             egd == lines(file, EGDOps)
  <2>1. (fixed = {} => Cardinality(fixed) = 0) /\ \A f : fixed = {f} => Cardinality(fixed) = 1
    BY OutputLines
  <2>2. CASE out = "set"
    <3>1. egd = {} /\ \E f : fixed = {f}
      BY <1>1, <2>2 DEF Got
    <3>2. Cardinality(fixed) = 1
      BY <2>1, <3>1
    <3> QED
      BY <3>1, <3>2
  <2>3. CASE out # "set"
    <3>1. fixed = {}
      BY <1>1, <2>3 DEF Got
    <3>2. Cardinality(fixed) = 0
      BY <2>1, <3>1
    <3> QED
      BY <3>2
  <2> QED
    BY <2>2, <2>3
<1>4. /\ \A l, m \in lines(file, SocketOps) : file[l].arg = file[m].arg => l = m
      /\ \A m \in DOMAIN file : file[m].ok
  BY <1>1 DEF Got
<1>5. \A m \in lines(file, {"AddEntropyKey"}) :
        /\ file[m].arg \in Working
        /\ \E l \in lines(file, OutputOps) \cup lines(file, EGDOps) : l < m
  BY <1>1 DEF Got, lines
<1> QED
  BY <1>2, <1>3, <1>4, <1>5, ValidIs

(* Nothing is named before the first line.                                 *)
LEMMA GotNothing ==
  ASSUME NEW file \in Confs
  PROVE  Got(file, 1, "none", {}, FALSE)
<1>1. \A m \in DOMAIN file : ~(m < 1)
  BY FileLines
<1>2. /\ \A ops : before(file, 1, ops) = {}
      /\ folding(file, 1, FALSE) = {}
  BY <1>1 DEF before, folding
<1> QED
  BY <1>1, <1>2 DEF Got

-----------------------------------------------------------------------------
(* Each step takes an instance at most one statement further.              *)

(* Who configures itself does so alone.                                    *)
LEMMA OneConfigures ==
  ASSUME IInv, NEW i \in Instances, pc[i] = "config"
  PROVE  \A j \in Instances \ {i} : pc[j] # "config"
  BY DEF IInv, Serialised, busy

(* What a step of one instance leaves of the others.                       *)
unmoved(j) ==
  /\ pc'[j] = pc[j] /\ conf'[j] = conf[j] /\ line'[j] = line[j] /\ stage'[j] = stage[j]
  /\ output'[j] = output[j] /\ controlsockets'[j] = controlsockets[j]

(* So only the instance that moves has to be looked at.                    *)
LEMMA Elsewhere ==
  ASSUME IInv, Progress, NEW i \in Instances, \A j \in Instances \ {i} : unmoved(j),
         node' = node \/ pc[i] = "config", ProgressOf(i)'
  PROVE  Progress'
<1> SUFFICES ASSUME NEW j \in Instances \ {i} PROVE ProgressOf(j)'
  BY DEF Progress
<1>1. unmoved(j) /\ ProgressOf(j)
  BY DEF Progress
<1>2. CASE pc[j] = "config"
  <2>1. node' = node
    BY <1>2, OneConfigures
  <2> QED
    BY <1>1, <2>1 DEF ProgressOf, at, unmoved
<1>3. CASE pc[j] # "config"
  BY <1>1, <1>3 DEF ProgressOf, unmoved
<1> QED
  BY <1>2, <1>3

(* The statement an instance is at, and where it has got to.               *)
LEMMA AtStatement ==
  ASSUME IInv, Progress, NEW i \in Instances, NEW ops, configuring(i, ops)
  PROVE  /\ conf[i] \in Confs /\ line[i] \in DOMAIN conf[i]
         /\ at(i) = conf[i][line[i]] /\ at(i) \in Statements /\ at(i).op \in ops
         /\ output[i] \in {"none", "set", "folded"}
         /\ Got(conf[i], line[i], output[i], controlsockets[i], stage[i] # "connect")
         /\ pc[i] = "config"
<1>1. pc[i] = "config" /\ line[i] \in DOMAIN conf[i] /\ at(i).op \in ops
  BY AtLine
<1>2. conf[i] \in Confs /\ at(i) \in Statements
  BY <1>1, Statement
<1>3. output[i] \in {"none", "set", "folded"}
  BY DEF IInv, TypeOK
<1>4. Got(conf[i], line[i], output[i], controlsockets[i], stage[i] # "connect")
  BY <1>1 DEF Progress, ProgressOf
<1> QED
  BY <1>1, <1>2, <1>3, <1>4 DEF at

(* Between statements no socket is on its way.                             *)
LEMMA NoSocketBegun ==
  ASSUME IInv, NEW i \in Instances, pc[i] = "config",
         line[i] \notin DOMAIN conf[i] \/ at(i).op \notin SocketOps
  PROVE  stage[i] = "connect"
  BY DEF IInv, Untaken

(* A process that ends has no more to configure.                           *)
LEMMA EndProgress ==
  ASSUME IInv, Progress, NEW i \in Instances, NEW how \in {"ended", "refused", "dead"},
         gone(i, how), node' = node
  PROVE  Progress'
<1>1. \A j \in Instances \ {i} : unmoved(j)
  BY DEF IInv, TypeOK, gone, unmoved
<1>2. pc'[i] # "config"
  BY DEF IInv, TypeOK, gone
<1> QED
  BY <1>1, <1>2, Elsewhere DEF ProgressOf

(* A start is at the first line.                                           *)
LEMMA StartProgress ==
  ASSUME IInv, Progress, NEW i \in Instances, NEW file \in Confs, Start(i, file)
  PROVE  Progress'
<1>1. /\ controlsockets[i] = {} /\ stage[i] = "connect" /\ line[i] = 1
      /\ output[i] = "none"
  BY DEF IInv, TypeOK, Forks, alive, Start
<1>2. /\ conf'[i] = file /\ line'[i] = 1 /\ stage'[i] = "connect" /\ output'[i] = "none"
      /\ controlsockets'[i] = {}
  BY <1>1 DEF IInv, TypeOK, Start
<1>3. \A j \in Instances \ {i} : unmoved(j)
  BY DEF IInv, TypeOK, Start, unmoved
<1>4. Got(file, 1, "none", {}, FALSE)
  BY GotNothing
<1>5. ProgressOf(i)'
  BY <1>2, <1>4 DEF ProgressOf
<1> QED
  BY <1>3, <1>5, Elsewhere DEF Start, fileVars

(* The test of a socket sets the output for an EGD one.                    *)
LEMMA ConnectProgress ==
  ASSUME IInv, Progress, NEW i \in Instances, Connect(i)
  PROVE  Progress'
<1>1. SUFFICES ASSUME ~refused(i) PROVE Progress'
  BY EndProgress DEF refused, fileVars
<1>2. /\ conf[i] \in Confs /\ line[i] \in DOMAIN conf[i]
      /\ at(i) = conf[i][line[i]] /\ at(i) \in Statements /\ at(i).op \in SocketOps
      /\ output[i] \in {"none", "set", "folded"} /\ pc[i] = "config"
      /\ Got(conf[i], line[i], output[i], controlsockets[i], stage[i] # "connect")
  BY AtStatement DEF Connect
<1>3. /\ stage[i] = "connect" /\ ~(at(i).op \in EGDOps /\ output[i] = "set")
      /\ output' = [output EXCEPT ![i] = IF at(i).op \in EGDOps THEN "folded" ELSE @]
      /\ stage' = [stage EXCEPT ![i] = IF at(i).op \in UnixOps THEN "unlink" ELSE "bind"]
      /\ UNCHANGED <<pc, conf, line, controlsockets, node>>
  BY <1>1 DEF Connect, SetFoldedOutput, fileVars
<1>4. /\ output'[i] = IF at(i).op \in EGDOps THEN "folded" ELSE output[i]
      /\ stage'[i] = IF at(i).op \in UnixOps THEN "unlink" ELSE "bind"
  BY <1>3 DEF IInv, TypeOK
<1>5. Got(conf[i], line[i], output[i], controlsockets[i], FALSE)
  BY <1>2, <1>3
<1>6. Got(conf[i], line[i], output'[i], controlsockets[i], TRUE)
  BY <1>2, <1>3, <1>4, <1>5, GotBegun
<1>7. stage'[i] = "bind" => at(i).arg \notin Paths
  BY <1>2, <1>4, StartupAssumption DEF Statements, SocketOps, UnixOps, TcpOps
<1>8. ProgressOf(i)'
  <2>1. (stage'[i] # "connect") = TRUE /\ at(i)' = at(i)
    BY <1>3, <1>4 DEF at
  <2> QED
    BY <1>3, <1>6, <1>7, <2>1 DEF ProgressOf
<1>9. \A j \in Instances \ {i} : unmoved(j)
  BY <1>3 DEF IInv, TypeOK, unmoved
<1> QED
  BY <1>3, <1>8, <1>9, Elsewhere

(* What is left of an earlier socket is removed before bind.               *)
LEMMA UnlinkProgress ==
  ASSUME IInv, Progress, NEW i \in Instances, Unlink(i)
  PROVE  Progress'
<1>2. /\ at(i) \in Statements /\ at(i).op \in UnixOps /\ pc[i] = "config"
      /\ Got(conf[i], line[i], output[i], controlsockets[i], stage[i] # "connect")
  BY AtStatement DEF Unlink
<1>3. /\ stage[i] = "unlink"
      /\ node' = [node EXCEPT ![at(i).arg] = none]
      /\ stage' = [stage EXCEPT ![i] = "bind"]
      /\ UNCHANGED <<pc, conf, line, output, controlsockets>>
  BY DEF Unlink
<1>4. stage'[i] = "bind" /\ (at(i).arg \in Paths => node'[at(i).arg] = none)
  BY <1>3 DEF IInv, TypeOK
<1>5. Got(conf[i], line[i], output[i], controlsockets[i], TRUE)
  <2>1. (stage[i] # "connect") = TRUE
    BY <1>3
  <2> QED
    BY <1>2, <2>1
<1>8. ProgressOf(i)'
  <2>1. (stage'[i] # "connect") = TRUE /\ at(i)' = at(i)
    BY <1>3, <1>4 DEF at
  <2> QED
    BY <1>3, <1>4, <1>5, <2>1 DEF ProgressOf
<1>9. \A j \in Instances \ {i} : unmoved(j)
  BY <1>3 DEF IInv, TypeOK, unmoved
<1> QED
  BY <1>2, <1>8, <1>9, Elsewhere

(* bind is within the statement.                                           *)
LEMMA BindProgress ==
  ASSUME IInv, Progress, NEW i \in Instances, Bind(i)
  PROVE  Progress'
<1>1. SUFFICES ASSUME ~refused(i) PROVE Progress'
  BY EndProgress DEF refused, fileVars
<1>2. /\ pc[i] = "config"
      /\ Got(conf[i], line[i], output[i], controlsockets[i], stage[i] # "connect")
  BY AtStatement DEF Bind
<1>3. /\ stage[i] = "bind"
      /\ stage' = [stage EXCEPT ![i] = "listen"]
      /\ UNCHANGED <<pc, conf, line, output, controlsockets>>
  BY <1>1 DEF Bind
<1>4. stage'[i] = "listen"
  BY <1>3 DEF IInv, TypeOK
<1>5. Got(conf[i], line[i], output[i], controlsockets[i], TRUE)
  <2>1. (stage[i] # "connect") = TRUE
    BY <1>3
  <2> QED
    BY <1>2, <2>1
<1>8. ProgressOf(i)'
  <2>1. (stage'[i] # "connect") = TRUE
    BY <1>4
  <2> QED
    BY <1>3, <1>4, <1>5, <2>1 DEF ProgressOf
<1>9. \A j \in Instances \ {i} : unmoved(j)
  BY <1>3 DEF IInv, TypeOK, unmoved
<1> QED
  BY <1>2, <1>8, <1>9, Elsewhere

(* listen ends it, on an address the instance did not have.                *)
LEMMA ListenProgress ==
  ASSUME IInv, Progress, NEW i \in Instances, Listen(i)
  PROVE  Progress'
<1>1. SUFFICES ASSUME ~refused(i) PROVE Progress'
  BY EndProgress DEF refused, fileVars
<1>2. /\ conf[i] \in Confs /\ line[i] \in DOMAIN conf[i]
      /\ at(i) = conf[i][line[i]] /\ at(i).op \in SocketOps
      /\ output[i] \in {"none", "set", "folded"} /\ pc[i] = "config"
      /\ Got(conf[i], line[i], output[i], controlsockets[i], stage[i] # "connect")
  BY AtStatement DEF Listen
<1>3. /\ stage[i] = "listen" /\ at(i).ok
      /\ controlsockets' = [controlsockets EXCEPT ![i] = @ \cup {at(i).arg}]
      /\ stage' = [stage EXCEPT ![i] = "connect"]
      /\ line' = [line EXCEPT ![i] = @ + 1]
      /\ UNCHANGED <<pc, conf, output, node>>
  BY <1>1 DEF Listen, addctlsocket, nextLine, fileVars
<1>4. /\ stage'[i] = "connect" /\ line'[i] = line[i] + 1
      /\ controlsockets'[i] = controlsockets[i] \cup {at(i).arg}
  BY <1>3 DEF IInv, TypeOK
<1>5. at(i).arg \notin controlsockets[i]
  BY <1>2, <1>3 DEF IInv, Untaken
<1>6. Got(conf[i], line[i], output[i], controlsockets[i], TRUE)
  <2>1. (stage[i] # "connect") = TRUE
    BY <1>3
  <2> QED
    BY <1>2, <2>1
<1>7. Got(conf[i], line[i] + 1, output[i], controlsockets[i] \cup {at(i).arg}, FALSE)
  BY <1>2, <1>3, <1>5, <1>6, GotSocket
<1>8. ProgressOf(i)'
  <2>1. (stage'[i] # "connect") = FALSE
    BY <1>4
  <2> QED
    BY <1>3, <1>4, <1>7, <2>1 DEF ProgressOf
<1>9. \A j \in Instances \ {i} : unmoved(j)
  BY <1>3 DEF IInv, TypeOK, unmoved
<1> QED
  BY <1>3, <1>8, <1>9, Elsewhere

(* The steps that are a statement each.                                    *)
LEMMA StatementProgress ==
  ASSUME IInv, Progress, NEW i \in Instances, pc[i] = "config", stage[i] = "connect",
         Got(conf[i], line[i] + 1, output'[i], controlsockets[i], FALSE),
         \A j \in Instances \ {i} : output'[j] = output[j],
         line' = [line EXCEPT ![i] = @ + 1],
         UNCHANGED <<pc, conf, stage, controlsockets>>
  PROVE  Progress'
<1>1. line'[i] = line[i] + 1
  BY DEF IInv, TypeOK
<1>2. ProgressOf(i)'
  <2>1. (stage'[i] # "connect") = FALSE
    OBVIOUS
  <2> QED
    BY <1>1, <2>1 DEF ProgressOf
<1>3. \A j \in Instances \ {i} : unmoved(j)
  BY DEF IInv, TypeOK, unmoved
<1> QED
  BY <1>2, <1>3, Elsewhere

(* The output is set once.                                                 *)
LEMMA SetOutputProgress ==
  ASSUME IInv, Progress, NEW i \in Instances, SetOutput(i)
  PROVE  Progress'
<1>1. SUFFICES ASSUME ~refused(i) PROVE Progress'
  BY EndProgress DEF refused, fileVars
<1>2. /\ conf[i] \in Confs /\ line[i] \in DOMAIN conf[i]
      /\ at(i) = conf[i][line[i]] /\ at(i).op \in OutputOps /\ pc[i] = "config"
      /\ Got(conf[i], line[i], output[i], controlsockets[i], stage[i] # "connect")
  BY AtStatement DEF SetOutput, OutputOps
<1>3. /\ output[i] = "none" /\ at(i).ok
      /\ output' = [output EXCEPT ![i] = "set"]
      /\ line' = [line EXCEPT ![i] = @ + 1]
      /\ UNCHANGED <<pc, conf, stage, controlsockets>>
  BY <1>1 DEF SetOutput, nextLine
<1>4. stage[i] = "connect"
  BY <1>2, Kinds, NoSocketBegun
<1>5. Got(conf[i], line[i], "none", controlsockets[i], FALSE)
  BY <1>2, <1>3, <1>4
<1>6. Got(conf[i], line[i] + 1, "set", controlsockets[i], FALSE)
  BY <1>2, <1>3, <1>5, GotOutput
<1>7. output'[i] = "set" /\ \A j \in Instances \ {i} : output'[j] = output[j]
  BY <1>3 DEF IInv, TypeOK
<1> QED
  BY <1>2, <1>3, <1>4, <1>6, <1>7, StatementProgress

(* Keys and Daemonise.                                                     *)
LEMMA OtherProgress ==
  ASSUME IInv, Progress, NEW i \in Instances,
         AddEntropyKey(i) \/ AddEntropyKeys(i) \/ Daemonise(i)
  PROVE  Progress'
<1>1. SUFFICES ASSUME ~refused(i) PROVE Progress'
  BY EndProgress DEF refused, fileVars, AddEntropyKey
<1>2. configuring(i, {"AddEntropyKey", "AddEntropyKeys", "Daemonise"})
  BY DEF AddEntropyKey, AddEntropyKeys, Daemonise, configuring
<1>3. /\ conf[i] \in Confs /\ line[i] \in DOMAIN conf[i]
      /\ at(i) = conf[i][line[i]] /\ at(i) \in Statements /\ pc[i] = "config"
      /\ at(i).op \in {"AddEntropyKey", "AddEntropyKeys", "Daemonise"}
      /\ output[i] \in {"none", "set", "folded"}
      /\ Got(conf[i], line[i], output[i], controlsockets[i], stage[i] # "connect")
  BY <1>2, AtStatement
<1>4. stage[i] = "connect"
  BY <1>3, Kinds, NoSocketBegun
<1>5. at(i).ok
  BY <1>3 DEF Statements, UnixOps, TcpOps
<1>6. at(i).op = "AddEntropyKey" => at(i).arg \in Working /\ output[i] # "none"
  BY <1>1 DEF AddEntropyKey, AddEntropyKeys, Daemonise, configuring
<1>7. /\ line' = [line EXCEPT ![i] = @ + 1]
      /\ UNCHANGED <<pc, conf, stage, output, controlsockets>>
  BY <1>1 DEF AddEntropyKey, AddEntropyKeys, Daemonise, opened, nextLine
<1>8. Got(conf[i], line[i], output[i], controlsockets[i], FALSE)
  BY <1>3, <1>4
<1>9. Got(conf[i], line[i] + 1, output[i], controlsockets[i], FALSE)
  BY <1>3, <1>5, <1>6, <1>8, GotOther
<1> QED
  BY <1>3, <1>4, <1>7, <1>9, StatementProgress

(* The process between the forks changes none of what an instance holds.   *)
Writer(i) == OpenPid(i) \/ WritePid(i) \/ WriterKilled(i)

(* Nothing else has to do with a file that is being read.                  *)
LEMMA LaterProgress ==
  ASSUME IInv, Progress, NEW i \in Instances,
         \/ Configured(i) \/ Writer(i) \/ ClosePipe(i) \/ LauncherReturns(i)
         \/ Shutdown(i) \/ PollFails(i) \/ OpenPidFails(i) \/ Exit(i) \/ Crash(i)
  PROVE  Progress'
<1>1. CASE Exit(i) \/ Crash(i)
  BY <1>1, EndProgress DEF Exit, Crash, fileVars
<1>2. CASE OpenPidFails(i)
  <2>1. CASE alive(i)
    BY <1>2, <2>1, EndProgress DEF OpenPidFails, fileVars
  <2>2. CASE ~alive(i)
    <3>1. UNCHANGED <<pc, conf, line, stage, output, controlsockets, node>>
      BY <1>2, <2>2 DEF OpenPidFails, confVars, fileVars
    <3> QED
      BY <3>1 DEF Progress, ProgressOf, at
  <2> QED
    BY <2>1, <2>2
<1>3. CASE Writer(i) \/ LauncherReturns(i)
  <2>1. UNCHANGED <<pc, conf, line, stage, output, controlsockets, node>>
    BY <1>3 DEF Writer, OpenPid, WritePid, WriterKilled, LauncherReturns, confVars, fileVars
  <2> QED
    BY <2>1 DEF Progress, ProgressOf, at
<1>4. CASE Configured(i) \/ ClosePipe(i) \/ Shutdown(i) \/ PollFails(i)
  <2>1. SUFFICES ASSUME ~refused(i) PROVE Progress'
    BY EndProgress DEF refused, fileVars
  <2>2. /\ pc'[i] # "config" /\ node' = node
        /\ \A j \in Instances \ {i} : unmoved(j)
    BY <1>4, <2>1 DEF Configured, ClosePipe, Shutdown, PollFails, confVars, fileVars,
       unmoved, IInv, TypeOK
  <2> QED
    BY <2>2, Elsewhere DEF ProgressOf
<1> QED
  BY <1>1, <1>2, <1>3, <1>4

(* Progress is kept.                                                       *)
LEMMA NextProgress == ASSUME IInv, Progress, [Next]_vars PROVE Progress'
<1>1. CASE UNCHANGED vars
  BY <1>1 DEF vars, confVars, fileVars, Progress, ProgressOf, at
<1>2. CASE Next
  BY <1>2, StartProgress, ConnectProgress, UnlinkProgress, BindProgress, ListenProgress,
     SetOutputProgress, OtherProgress, LaterProgress DEF Next, Writer
<1> QED
  BY <1>1, <1>2

-----------------------------------------------------------------------------
(* Refusals                                                                *)

(* RefusedRightly, for one instance.                                       *)
Rightly(i) ==
  pc[i] = "config" =>
    /\ pc'[i] = "refused" =>
         \/ ~Valid(conf[i])
         \/ \E j \in Instances \ {i} : controlsockets[j] \cap socketsOf(conf[i]) # {}
    /\ pc'[i] \in {"forked", "running"} => Valid(conf[i])

(* A statement is refused for the file it is in or for another daemon.     *)
LEMMA RefusedAtStatement ==
  ASSUME IInv, Progress, NEW i \in Instances, NEW ops, configuring(i, ops),
         pc'[i] \in {"config", "refused"},
         \/ pc'[i] = "config"
         \/ ~Valid(conf[i])
         \/ \E j \in Instances \ {i} : at(i).op \in SocketOps /\ at(i).arg \in controlsockets[j]
  PROVE  Rightly(i)
<1>1. line[i] \in DOMAIN conf[i] /\ at(i) = conf[i][line[i]]
  BY AtStatement
<1>2. at(i).op \in SocketOps => at(i).arg \in socketsOf(conf[i])
  BY <1>1 DEF socketsOf
<1> QED
  BY <1>2 DEF Rightly

(* A test is answered by the instance itself or by another.                *)
LEMMA ConnectRightly ==
  ASSUME IInv, Progress, NEW i \in Instances, Connect(i)
  PROVE  Rightly(i)
<1>2. /\ conf[i] \in Confs /\ line[i] \in DOMAIN conf[i]
      /\ at(i) = conf[i][line[i]] /\ at(i).op \in SocketOps /\ at(i) \in Statements
      /\ output[i] \in {"none", "set", "folded"} /\ pc[i] = "config"
      /\ Got(conf[i], line[i], output[i], controlsockets[i], stage[i] # "connect")
  BY AtStatement DEF Connect
<1>3. configuring(i, SocketOps) /\ Got(conf[i], line[i], output[i], controlsockets[i], FALSE)
  BY <1>2 DEF Connect
<1>4. CASE at(i).op \in EGDOps /\ output[i] = "set"
  <2>1. pc'[i] = "refused"
    BY <1>4 DEF Connect, refused, gone, IInv, TypeOK
  <2>2. ~Valid(conf[i])
    BY <1>2, <1>3, <1>4, BadOutput
  <2> QED
    BY <1>3, <2>1, <2>2, RefusedAtStatement
<1>5. CASE served(at(i).arg)
  <2>1. pc'[i] = "refused"
    BY <1>5 DEF Connect, refused, gone, IInv, TypeOK
  <2>2. PICK j \in Instances : at(i).arg \in controlsockets[j]
    BY <1>5 DEF served, IInv, TypeOK
  <2>3. CASE j = i
    <3>1. ~Valid(conf[i])
      BY <1>2, <1>3, <2>2, <2>3, BadSocket
    <3> QED
      BY <1>3, <2>1, <3>1, RefusedAtStatement
  <2>4. CASE j # i
    BY <1>2, <1>3, <2>1, <2>2, <2>4, RefusedAtStatement
  <2> QED
    BY <2>3, <2>4
<1>6. CASE ~(at(i).op \in EGDOps /\ output[i] = "set") /\ ~served(at(i).arg)
  <2>1. pc' = pc
    BY <1>6 DEF Connect
  <2> QED
    BY <1>2, <1>3, <2>1, RefusedAtStatement
<1> QED
  BY <1>4, <1>5, <1>6

(* Nobody serves an address between the test and listen.                   *)
LEMMA NotServed ==
  ASSUME IInv, NEW i \in Instances, pc[i] = "config", stage[i] # "connect",
         at(i).arg \in Ports
  PROVE  ~served(at(i).arg)
  BY StartupAssumption DEF IInv, Untaken, served

(* bind cannot fail.                                                       *)
LEMMA BindRightly ==
  ASSUME IInv, Progress, NEW i \in Instances, Bind(i)
  PROVE  Rightly(i)
<1>1. pc[i] = "config" /\ stage[i] = "bind" /\ configuring(i, SocketOps)
  BY DEF Bind, configuring
<1>2. at(i).arg \in Paths => node[at(i).arg] = none
  BY <1>1 DEF Progress, ProgressOf
<1>3. at(i).arg \in Ports => ~served(at(i).arg)
  BY <1>1, NotServed
<1>4. pc' = pc
  BY <1>2, <1>3 DEF Bind
<1> QED
  BY <1>1, <1>4, RefusedAtStatement

(* listen fails for the owner only.                                        *)
LEMMA ListenRightly ==
  ASSUME IInv, Progress, NEW i \in Instances, Listen(i)
  PROVE  Rightly(i)
<1>1. pc[i] = "config" /\ stage[i] = "listen" /\ configuring(i, SocketOps)
  BY DEF Listen, configuring
<1>2. line[i] \in DOMAIN conf[i] /\ at(i) = conf[i][line[i]]
  BY <1>1, AtStatement
<1>3. at(i).arg \in Ports => ~served(at(i).arg)
  BY <1>1, NotServed
<1>4. CASE at(i).ok
  <2>1. pc' = pc
    BY <1>3, <1>4 DEF Listen
  <2> QED
    BY <1>1, <2>1, RefusedAtStatement
<1>5. CASE ~at(i).ok
  <2>1. pc'[i] = "refused"
    BY <1>5 DEF Listen, refused, gone, IInv, TypeOK
  <2>2. ~Valid(conf[i])
    BY <1>2, <1>5, ValidIs
  <2> QED
    BY <1>1, <2>1, <2>2, RefusedAtStatement
<1> QED
  BY <1>4, <1>5

(* An output is refused if there is one, or if it is not there.            *)
LEMMA SetOutputRightly ==
  ASSUME IInv, Progress, NEW i \in Instances, SetOutput(i)
  PROVE  Rightly(i)
<1>1. configuring(i, OutputOps)
  BY DEF SetOutput, OutputOps
<1>2. /\ conf[i] \in Confs /\ line[i] \in DOMAIN conf[i]
      /\ at(i) = conf[i][line[i]] /\ at(i).op \in OutputOps
      /\ output[i] \in {"none", "set", "folded"} /\ pc[i] = "config"
      /\ Got(conf[i], line[i], output[i], controlsockets[i], stage[i] # "connect")
  BY <1>1, AtStatement
<1>3. stage[i] = "connect"
  BY <1>2, Kinds, NoSocketBegun
<1>4. Got(conf[i], line[i], output[i], controlsockets[i], FALSE)
  BY <1>2, <1>3
<1>5. CASE output[i] # "none" \/ ~at(i).ok
  <2>1. pc'[i] = "refused"
    BY <1>5 DEF SetOutput, refused, gone, IInv, TypeOK
  <2>2. CASE output[i] # "none"
    <3>1. ~Valid(conf[i])
      BY <1>2, <1>4, <2>2, BadOutput
    <3> QED
      BY <1>1, <2>1, <3>1, RefusedAtStatement
  <2>3. CASE ~at(i).ok
    <3>1. ~Valid(conf[i])
      BY <1>2, <2>3, ValidIs
    <3> QED
      BY <1>1, <2>1, <3>1, RefusedAtStatement
  <2> QED
    BY <1>5, <2>2, <2>3
<1>6. CASE ~(output[i] # "none" \/ ~at(i).ok)
  <2>1. pc' = pc
    BY <1>6 DEF SetOutput
  <2> QED
    BY <1>1, <1>2, <2>1, RefusedAtStatement
<1> QED
  BY <1>5, <1>6

(* A key is refused if there is no output, or if it is not there.          *)
LEMMA AddEntropyKeyRightly ==
  ASSUME IInv, Progress, NEW i \in Instances, AddEntropyKey(i)
  PROVE  Rightly(i)
<1>1. configuring(i, {"AddEntropyKey"})
  BY DEF AddEntropyKey
<1>2. /\ conf[i] \in Confs /\ line[i] \in DOMAIN conf[i]
      /\ at(i) = conf[i][line[i]] /\ at(i).op = "AddEntropyKey"
      /\ output[i] \in {"none", "set", "folded"} /\ pc[i] = "config"
      /\ Got(conf[i], line[i], output[i], controlsockets[i], stage[i] # "connect")
  BY <1>1, AtStatement
<1>3. stage[i] = "connect"
  BY <1>2, Kinds, NoSocketBegun
<1>4. Got(conf[i], line[i], output[i], controlsockets[i], FALSE)
  BY <1>2, <1>3
<1>5. CASE output[i] = "none" \/ at(i).arg \notin Working
  <2>1. pc'[i] = "refused"
    BY <1>5 DEF AddEntropyKey, refused, gone, IInv, TypeOK
  <2>2. ~Valid(conf[i])
    BY <1>2, <1>4, <1>5, BadKey
  <2> QED
    BY <1>1, <2>1, <2>2, RefusedAtStatement
<1>6. CASE ~(output[i] = "none" \/ at(i).arg \notin Working)
  <2>1. pc' = pc
    BY <1>6 DEF AddEntropyKey, opened
  <2> QED
    BY <1>1, <1>2, <2>1, RefusedAtStatement
<1> QED
  BY <1>5, <1>6

(* At the end of the file all that counts is whether there is a socket.    *)
LEMMA ConfiguredRightly ==
  ASSUME IInv, Progress, NEW i \in Instances, Configured(i)
  PROVE  Rightly(i)
<1>1. /\ pc[i] = "config" /\ line[i] > Len(conf[i]) /\ conf[i] \in Confs
      /\ line[i] \in Nat /\ output[i] \in {"none", "set", "folded"}
  BY DEF Configured, IInv, TypeOK, Listening
<1>2. line[i] \notin DOMAIN conf[i]
  BY <1>1, FileLines
<1>3. Got(conf[i], line[i], output[i], controlsockets[i], FALSE)
  <2>1. stage[i] = "connect"
    BY <1>1, <1>2, NoSocketBegun
  <2> QED
    BY <1>1, <2>1 DEF Progress, ProgressOf
<1>4. Valid(conf[i]) <=> controlsockets[i] # {}
  BY <1>1, <1>3, GotAll
<1>5. CASE controlsockets[i] = {}
  <2>1. pc'[i] = "refused"
    BY <1>5 DEF Configured, refused, gone, IInv, TypeOK
  <2> QED
    BY <1>4, <1>5, <2>1 DEF Rightly
<1>6. CASE controlsockets[i] # {}
  <2>1. pc'[i] \in {"forked", "running"}
    BY <1>6 DEF Configured, IInv, TypeOK
  <2> QED
    BY <1>4, <1>6, <2>1 DEF Rightly
<1> QED
  BY <1>5, <1>6

(* No other step refuses or starts anything.                               *)
LEMMA OtherRightly ==
  ASSUME IInv, NEW i \in Instances,
         \/ \E file \in Confs : Start(i, file)
         \/ Unlink(i) \/ AddEntropyKeys(i) \/ Daemonise(i) \/ Writer(i)
         \/ OpenPidFails(i) \/ ClosePipe(i) \/ LauncherReturns(i) \/ Shutdown(i)
         \/ PollFails(i) \/ Exit(i) \/ Crash(i)
  PROVE  Rightly(i)
<1>1. SUFFICES ASSUME pc[i] = "config" PROVE pc'[i] \in {"config", "dead"}
  BY DEF Rightly
<1>2. pidwriter[i] = "none"
  BY <1>1 DEF IInv, Forks
<1>3. CASE Crash(i)
  BY <1>3 DEF Crash, gone, IInv, TypeOK
<1>4. CASE Unlink(i) \/ AddEntropyKeys(i) \/ Daemonise(i) \/ LauncherReturns(i)
  BY <1>1, <1>4 DEF Unlink, AddEntropyKeys, opened, Daemonise, LauncherReturns
<1>5. ~Writer(i) /\ ~OpenPidFails(i)
  BY <1>2 DEF Writer, OpenPid, WritePid, WriterKilled, OpenPidFails
<1>6. /\ ~ClosePipe(i) /\ ~Shutdown(i) /\ ~PollFails(i) /\ ~Exit(i)
      /\ \A file \in Confs : ~Start(i, file)
  BY <1>1 DEF ClosePipe, Shutdown, PollFails, Exit, Start
<1> QED
  BY <1>3, <1>4, <1>5, <1>6

(* A step of one instance neither refuses nor starts another.              *)
LEMMA OthersRightly ==
  ASSUME IInv, NEW i \in Instances, pc' = pc \/ \E how : pc' = [pc EXCEPT ![i] = how],
         Rightly(i)
  PROVE  \A k \in Instances : Rightly(k)
<1> SUFFICES ASSUME NEW k \in Instances \ {i} PROVE Rightly(k)
  OBVIOUS
<1>1. pc'[k] = pc[k]
  BY DEF IInv, TypeOK
<1> QED
  BY <1>1 DEF Rightly

(* Every step is right.                                                    *)
LEMMA NextRightly ==
  ASSUME IInv, Progress, Next
  PROVE  \A k \in Instances : Rightly(k)
<1>1. PICK i \in Instances :
        \/ \E file \in Confs : Start(i, file)
        \/ Connect(i) \/ Unlink(i) \/ Bind(i) \/ Listen(i)
        \/ SetOutput(i) \/ AddEntropyKey(i) \/ AddEntropyKeys(i) \/ Daemonise(i)
        \/ Configured(i)
        \/ Writer(i) \/ OpenPidFails(i) \/ ClosePipe(i) \/ LauncherReturns(i)
        \/ Shutdown(i) \/ PollFails(i) \/ Exit(i) \/ Crash(i)
  BY DEF Next, Writer
<1>2. Rightly(i)
  BY <1>1, ConnectRightly, BindRightly, ListenRightly, SetOutputRightly,
     AddEntropyKeyRightly, ConfiguredRightly, OtherRightly
<1>3. pc' = pc \/ \E how : pc' = [pc EXCEPT ![i] = how]
  <2>1. CASE refused(i)
    BY <2>1 DEF refused, gone
  <2>2. CASE Connect(i) \/ Unlink(i) \/ Bind(i) \/ Listen(i) \/ SetOutput(i)
    BY <2>2 DEF Connect, Unlink, Bind, Listen, SetOutput, refused, gone
  <2>3. CASE AddEntropyKey(i) \/ AddEntropyKeys(i) \/ Daemonise(i) \/ Configured(i)
    BY <2>3 DEF AddEntropyKey, AddEntropyKeys, Daemonise, Configured, opened, refused, gone
  <2>4. CASE Writer(i) \/ OpenPidFails(i) \/ ClosePipe(i) \/ LauncherReturns(i)
    BY <2>4 DEF Writer, OpenPid, WritePid, WriterKilled, OpenPidFails, ClosePipe,
       LauncherReturns, gone
  <2>5. CASE Shutdown(i) \/ PollFails(i) \/ Exit(i) \/ Crash(i)
    BY <2>5 DEF Shutdown, PollFails, Exit, Crash, gone
  <2>6. CASE \E file \in Confs : Start(i, file)
    BY <2>6 DEF Start
  <2> QED
    BY <1>1, <2>2, <2>3, <2>4, <2>5, <2>6
<1> QED
  BY <1>2, <1>3, OthersRightly

(* A start is refused only for what its configuration file says or for     *)
(* another daemon that serves one of its sockets, whatever earlier daemons *)
(* left behind (the test and the unlink of UnixControlSocket and its like, *)
(* and the errors that end lua_pcall); and no bad file starts a daemon.    *)
THEOREM RefusalsAreRight == ASSUME Serial PROVE Spec => RefusedRightly
<1>1. Init => Progress
  BY DEF Init, Progress, ProgressOf
<1>2. IInv /\ Progress /\ [Next]_vars => Progress'
  BY NextProgress
<1>3. IInv /\ Progress /\ [Next]_vars =>
        [\A i \in Instances : pc[i] = "config" =>
           /\ pc'[i] = "refused" =>
                \/ ~Valid(conf[i])
                \/ \E j \in Instances \ {i} :
                     controlsockets[j] \cap socketsOf(conf[i]) # {}
           /\ pc'[i] \in {"forked", "running"} => Valid(conf[i])]_vars
  BY NextRightly DEF Rightly
<1>4. Spec => []IInv
  BY Invariance
<1> QED
  BY <1>1, <1>2, <1>3, <1>4, PTL DEF Spec, RefusedRightly
=============================================================================
