------------------------------- MODULE LtRekey ------------------------------
(***************************************************************************)
(* ekey-setkey: one process changes the long-term key of a device and      *)
(* saves it in the keyring file.  The device commits to its new key when   *)
(* it answers the L command; the host has it in memory first, then in      *)
(* <keyring>.new.tmp, then in <keyring>.new and at last in the keyring.    *)
(* A process may be killed between any two steps, the next one finds what  *)
(* it left behind, and two may overlap.                                    *)
(***************************************************************************)
EXTENDS Naturals, Sequences, SequencesExt

CONSTANTS
  Procs,         \* processes of ekey-setkey that may be alive at once
  Devices,       \* devices, named by their serial numbers
  Rings,         \* contents the keyring file may have at first
  Retries,       \* frames looked at for a serial number or an M frame (20)
  Fresh,         \* bound: values of the nonce and entropy sources
  LinkCap,       \* bound: frames and commands under way to and from a device
  MaxFaults,     \* bound: kills, losses, wrong master keys, needless runs,
                 \* renames that fail
  DiskFull,      \* TRUE: the disk may be full when the keyring is written
  Absent,        \* there is no file of this name
  NULL           \* a C null pointer; no entry

ASSUME RekeyAssumption ==
  /\ Retries \in Nat \ {0}
  /\ Fresh \in Nat \ {0}
  /\ LinkCap \in [Devices -> Nat \ {0}]
  /\ MaxFaults \in Nat
  /\ DiskFull \in BOOLEAN

VARIABLES
  keyring, new, tmp,  \* the three files
  proc,          \* each process
  ltkey,         \* long-term key of each device
  unlocked,      \* nonce MAC each device holds: mkey and nonce, or NULL
  toTool, toDev, \* frames and commands under way
  fresh,         \* next value of the nonce source and of the generators
  faults,        \* faults so far
  overlap,       \* two processes have been alive at once
  stale,         \* devices whose last run began while an L command of a
                 \* former one, or the answer to it, was under way
  installed      \* devices the keyring knew at first

files == <<keyring, new, tmp>>
devVars == <<ltkey, unlocked, toTool, toDev, fresh>>
history == <<overlap, stale, installed>>
vars == <<files, proc, devVars, faults, history>>

Values == 0 .. Fresh - 1
LongTermKeys == Values \X Values           \* host nonce, device entropy
Entries == [snum : Devices, ltkey : LongTermKeys]
Contents == Seq(Entries)

(* A process: where it is, the device it was started for, ents (latest     *)
(* entry first), the retries of its loop, whether its master key is the    *)
(* device's, its nonce, and its exit status (NULL: killed, none yet).      *)
Processes ==
  [at : {"exit", "snum", "mac", "ack", "open", "lines", "rename_tmp", "rename_new"},
   dev : Devices, ents : Contents, retries : 0 .. Retries, mkey : BOOLEAN,
   nonce : Values, status : {NULL, 0, 1, 2, 3, 4, 6}]

Ended(d, code) ==
  [at |-> "exit", dev |-> d, ents |-> <<>>, retries |-> 0, mkey |-> TRUE,
   nonce |-> 0, status |-> code]

-----------------------------------------------------------------------------
(* The key database *)

find_ltkey(ents, s) == {i \in DOMAIN ents : ents[i].snum = s}

Distinct(ents) == \A s \in Devices : \A i, j \in find_ltkey(ents, s) : i = j

ASSUME KeyringAssumption ==
  /\ \A ring \in Rings \ {Absent} : ring \in Contents /\ Distinct(ring)
  /\ Absent \notin Contents
  /\ NULL \notin LongTermKeys /\ NULL # 0

(* Mutant: the new entry is not linked to the rest of the list.            *)
add_ltkey_unlinked(ents, e) ==
  IF find_ltkey(ents, e.snum) = {} THEN <<e>>
  ELSE [i \in DOMAIN ents |-> IF i \in find_ltkey(ents, e.snum) THEN e ELSE ents[i]]

(* Mutant: an entry is always added.                                       *)
add_ltkey_always(ents, e) == <<e>> \o ents

(* Of two entries for a serial number there is only ever one: add_ltkey    *)
(* overwrites it in place, or puts a new entry in front.                   *)
add_ltkey(ents, e) ==
  IF find_ltkey(ents, e.snum) = {} THEN <<e>> \o ents
  ELSE [i \in DOMAIN ents |-> IF i \in find_ltkey(ents, e.snum) THEN e ELSE ents[i]]

(* So one line after the other is added to the list; if all are different, *)
(* each is put in front of those before it.                                *)
read_keyring(content) ==
  IF Distinct(content) THEN Reverse(content)
                       ELSE FoldLeft(add_ltkey, <<>>, content)

snum_to_ltkey(ents, s) ==
  IF find_ltkey(ents, s) = {} THEN NULL
  ELSE ents[CHOOSE i \in find_ltkey(ents, s) : TRUE].ltkey

(* What the keyring file says of a device.                                 *)
Known(d) == IF keyring = Absent THEN NULL ELSE snum_to_ltkey(keyring, d)

Agree(d) == Known(d) = ltkey[d]

-----------------------------------------------------------------------------
(* Processes *)

Alive == {p \in Procs : proc[p].at # "exit"}

set(p, r) == proc' = [proc EXCEPT ![p] = r]

exit(p, code) == set(p, Ended(proc[p].dev, code))

\* A command that finds the link full is lost, as one whose write fails.
write(d, c) ==
  toDev' = IF Len(toDev[d]) < LinkCap[d]
             THEN [toDev EXCEPT ![d] = Append(@, c)] ELSE toDev

Frame(type) == [type |-> type, entropy |-> NULL]
Ack(entropy) == [type |-> "L", entropy |-> entropy]
Frames == {Frame(t) : t \in {"S", "M", "k", "l"}} \cup {Ack(v) : v \in Values}

(* An L command or its answer is among what is under way.                  *)
rekeying(frames, commands) ==
  \/ \E f \in Range(frames) : f.type = "L"
  \/ \E c \in Range(commands) : c.cmd = "L"

Reset == [cmd |-> "reset"]
M(m, n) == [cmd |-> "M", mkey |-> m, nonce |-> n]
L(n) == [cmd |-> "L", nonce |-> n]
Commands == {Reset} \cup {M(m, n) : m \in BOOLEAN, n \in Values}
                    \cup {L(n) : n \in Values}

fault == faults < MaxFaults /\ faults' = faults + 1

start(p, r) ==
  proc' = [q \in Procs |->
    IF q = p THEN r ELSE IF q \in Alive THEN proc[q] ELSE Ended(r.dev, NULL)]

(* Once the tool is started beside another process: one that is about to   *)
(* save, since before that the two have nothing in common.  Earlier exit   *)
(* statuses are forgotten.                                                 *)
starting(d) ==
  /\ Alive # Procs
  /\ \A q \in Alive : ~overlap /\ proc[q].at = "open" /\ proc[q].dev # d
  /\ overlap' = (overlap \/ Alive # {})
  /\ UNCHANGED <<files, ltkey, unlocked, fresh, installed>>

(* Only a terminal is flushed, and only of what has not reached the device *)
(* or has come from it: what an earlier run left under way may be there    *)
(* still, frames but for the first few, commands but for the last.  The    *)
(* first command written is ^C.                                            *)
estream_open(d) ==
  \E n \in 0 .. Len(toTool[d]), m \in 0 .. Len(toDev[d]) :
    LET frames == SubSeq(toTool[d], n + 1, Len(toTool[d]))
        commands == SubSeq(toDev[d], 1, m)
    IN  /\ toTool' = [toTool EXCEPT ![d] = frames]
        /\ toDev' = [toDev EXCEPT ![d] =
             IF m < LinkCap[d] THEN Append(commands, Reset) ELSE commands]
        /\ stale' = IF rekeying(frames, commands) THEN stale \cup {d} ELSE stale \ {d}

(* get_keyring, estream_open and the first ^C.  A keyring that cannot be   *)
(* read ends the run before the device is touched.  A wrong master key     *)
(* counts as a fault, and so does a run that is not needed.                *)
Start(d, right) ==
  LET p == CHOOSE q \in Procs : q \notin Alive IN
  /\ starting(d)
  /\ IF right /\ ~Agree(d) THEN UNCHANGED faults ELSE fault
  /\ IF keyring = Absent
       THEN start(p, Ended(d, 2)) /\ UNCHANGED <<toTool, toDev, stale>>
       ELSE /\ start(p, [Ended(d, NULL) EXCEPT
                 !.at = "snum", !.ents = read_keyring(keyring),
                 !.retries = Retries, !.mkey = right])
            /\ estream_open(d)

(* A run that ends before the device is touched: options that are not      *)
(* understood or a master key or serial number on the command line that    *)
(* does not decode to its length or fails its check digit (1), no master   *)
(* key or a bad one on the terminal (3), no device that opens (4).         *)
StartFails(d) ==
  LET p == CHOOSE q \in Procs : q \notin Alive IN
  /\ starting(d)
  /\ fault
  /\ \E code \in {1, 3, 4} : start(p, Ended(d, code))
  /\ UNCHANGED <<toTool, toDev, stale>>

(* A process in one of its three loops reads the next frame.               *)
reading(p, at, f) ==
  /\ proc[p].at = at
  /\ LET d == proc[p].dev IN
     toTool[d] # <<>> /\ f = Head(toTool[d]) /\ toTool' = [toTool EXCEPT ![d] = Tail(@)]
  /\ UNCHANGED <<files, ltkey, unlocked, faults, history>>

(* Another frame than the expected one costs a retry.                      *)
retry(p) ==
  IF proc[p].retries = 1 THEN exit(p, 3) ELSE set(p, [proc[p] EXCEPT !.retries = @ - 1])

(* A frame of a type that get_pkt_type does not know is a read error.      *)
ReadError(p) ==
  \E at \in {"snum", "mac", "ack"} :
    /\ reading(p, at, Frame("l"))
    /\ exit(p, 2)
    /\ UNCHANGED <<toDev, fresh>>

(* The next value of the nonce source is taken.                            *)
fill_nonce == fresh' = (fresh + 1) % Fresh

(* Waiting for the serial number: without a MAC key only an S frame is     *)
(* accepted, anything else is answered with another ^C.  Then the nonce is *)
(* made, and its MAC sent.                                                 *)
ReadSnum(p) ==
  \/ \E f \in Frames \ {Frame("S"), Frame("l")} :
       /\ reading(p, "snum", f)
       /\ retry(p)
       /\ write(proc[p].dev, Reset)
       /\ UNCHANGED fresh
  \/ /\ reading(p, "snum", Frame("S"))
     /\ set(p, [proc[p] EXCEPT !.at = "mac", !.retries = Retries, !.nonce = fresh])
     /\ fill_nonce
     /\ write(proc[p].dev, M(proc[p].mkey, fresh))

(* As if the serial number had come, but for the exit: it is not the one   *)
(* given with -s (4), or fill_nonce fails (1).                             *)
NoNonce(p) ==
  /\ proc[p].at = "snum"
  /\ toTool[proc[p].dev] # <<>> /\ Head(toTool[proc[p].dev]) = Frame("S")
  /\ fault
  /\ \E code \in {1, 4} : exit(p, code)
  /\ UNCHANGED <<files, devVars, history>>

(* Waiting for the acknowledgement of the nonce MAC.                       *)
ReadMac(p) ==
  \/ \E f \in Frames \ {Frame("M"), Frame("l")} :
       /\ reading(p, "mac", f)
       /\ retry(p)
       /\ UNCHANGED <<toDev, fresh>>
  \/ /\ reading(p, "mac", Frame("M"))
     /\ set(p, [proc[p] EXCEPT !.at = "ack"])
     /\ write(proc[p].dev, L(proc[p].nonce))
     /\ UNCHANGED fresh

(* Waiting, without a limit, for the acknowledgement of the rekeying; the  *)
(* new key is then made of the nonce and the entropy in the frame.         *)
ReadAck(p) ==
  /\ \E f \in Frames \ {Frame("l")} :
       /\ reading(p, "ack", f)
       /\ IF f.type # "L" THEN UNCHANGED proc
          ELSE set(p, [proc[p] EXCEPT !.at = "open",
                 !.ents = add_ltkey(@, [snum |-> proc[p].dev,
                                        ltkey |-> <<proc[p].nonce, f.entropy>>])])
  /\ UNCHANGED <<toDev, fresh>>

saving(p, at) == proc[p].at = at /\ UNCHANGED <<devVars, history>>

goto(p, at) == set(p, [proc[p] EXCEPT !.at = at])

(* Mutant: the result of write_keyring is not looked at.                   *)
OpenTmp_unchecked(p) ==
  /\ saving(p, "open")
  /\ IF tmp = Absent
       THEN tmp' = <<>> /\ goto(p, "lines")
       ELSE exit(p, 0) /\ UNCHANGED tmp
  /\ UNCHANGED <<faults, keyring, new>>

(* open(O_CREAT | O_EXCL): the name must be free.                          *)
OpenTmp(p) ==
  /\ saving(p, "open")
  /\ IF tmp = Absent
       THEN tmp' = <<>> /\ goto(p, "lines")
       ELSE exit(p, 6) /\ UNCHANGED tmp
  /\ UNCHANGED <<faults, keyring, new>>

(* Mutant: renamed before the buffer is flushed.                           *)
WriteLines_unflushed(p) ==
  /\ saving(p, "lines")
  /\ goto(p, "rename_tmp")
  /\ UNCHANGED <<faults, keyring, new, tmp>>

(* The lines are buffered and reach the file with fflush, whose result is  *)
(* not looked at: on a full disk only some of them do.                     *)
WriteLines(p) ==
  /\ saving(p, "lines")
  /\ \E n \in 0 .. Len(proc[p].ents) :
       /\ DiskFull \/ n = Len(proc[p].ents)
       /\ tmp' = SubSeq(proc[p].ents, 1, n)
  /\ goto(p, "rename_tmp")
  /\ UNCHANGED <<faults, keyring, new>>

(* A rename that fails: the name of the file is freed before it is used to *)
(* remove it, so whether that happens is anybody's guess.                  *)
RenameTmp(p) ==
  /\ saving(p, "rename_tmp")
  /\ \/ new' = tmp /\ tmp' = Absent /\ goto(p, "rename_new") /\ UNCHANGED faults
     \/ fault /\ exit(p, 6) /\ tmp' \in {tmp, Absent} /\ UNCHANGED new
  /\ UNCHANGED keyring

(* Mutant: the arguments of rename are swapped.                            *)
RenameNew_swapped(p) ==
  /\ saving(p, "rename_new")
  /\ exit(p, 0) /\ new' = keyring /\ keyring' = Absent
  /\ UNCHANGED <<tmp, faults>>

(* put_keyring's own rename fails also if another process was faster.      *)
RenameNew(p) ==
  /\ saving(p, "rename_new")
  /\ \/ /\ new # Absent
        /\ exit(p, 0) /\ keyring' = new /\ new' = Absent /\ UNCHANGED faults
     \/ /\ IF new = Absent THEN UNCHANGED faults ELSE fault
        /\ exit(p, 6) /\ UNCHANGED <<keyring, new>>
  /\ UNCHANGED tmp

kill(p) == p \in Alive /\ exit(p, NULL) /\ UNCHANGED <<files, devVars, history>>

Kill(p) == fault /\ kill(p)

(* A process that has missed its last frame waits until it is interrupted. *)
Interrupt(p) ==
  /\ proc[p].at = "ack"
  /\ \A c \in Range(toDev[proc[p].dev]) : c.cmd # "L"
  /\ \A f \in Range(toTool[proc[p].dev]) : f.type \notin {"L", "l"}
  /\ kill(p)
  /\ UNCHANGED faults

-----------------------------------------------------------------------------
(* The device (README.protocol) and the links *)

answer(d, c, f) ==
  /\ toDev[d] # <<>> /\ Head(toDev[d]).cmd = c
  /\ Len(toTool[d]) < LinkCap[d]
  /\ toDev' = [toDev EXCEPT ![d] = Tail(@)]
  /\ toTool' = [toTool EXCEPT ![d] = Append(@, f)]
  /\ UNCHANGED <<files, proc, faults, history>>

DevReset(d) == answer(d, "reset", Frame("S")) /\ UNCHANGED <<ltkey, unlocked, fresh>>

DevMac(d) ==
  /\ answer(d, "M", Frame("M"))
  /\ unlocked' = [unlocked EXCEPT ![d] = Head(toDev[d])]
  /\ UNCHANGED <<ltkey, fresh>>

matches(d) == unlocked[d] = M(TRUE, Head(toDev[d]).nonce)

DevRekey(d) ==
  /\ answer(d, "L", Ack(fresh))
  /\ matches(d)
  /\ ltkey' = [ltkey EXCEPT ![d] = <<Head(toDev[d]).nonce, fresh>>]
  /\ unlocked' = [unlocked EXCEPT ![d] = NULL]
  /\ fresh' = (fresh + 1) % Fresh

DevRefuse(d) ==
  /\ answer(d, "L", Frame("l"))
  /\ ~matches(d)
  /\ UNCHANGED <<ltkey, unlocked, fresh>>

(* Key requests come on their own, seldom.                                 *)
DevKeyReq(d) ==
  /\ toTool[d] = <<>> /\ toDev[d] = <<>>
  /\ \E p \in Alive : proc[p].dev = d
  /\ toTool' = [toTool EXCEPT ![d] = <<Frame("k")>>]
  /\ UNCHANGED <<files, proc, ltkey, unlocked, toDev, fresh, faults, history>>

(* Damaged frames and commands, and frames another reader has taken.       *)
Lose(d) ==
  /\ fault
  /\ \/ toTool[d] # <<>> /\ toTool' = [toTool EXCEPT ![d] = Tail(@)] /\ UNCHANGED toDev
     \/ toDev[d] # <<>> /\ toDev' = [toDev EXCEPT ![d] = Tail(@)] /\ UNCHANGED toTool
  /\ UNCHANGED <<files, proc, ltkey, unlocked, fresh, history>>

-----------------------------------------------------------------------------
Init ==
  /\ keyring \in Rings
  /\ new = Absent /\ tmp = Absent
  /\ \E d \in Devices : proc = [p \in Procs |-> Ended(d, NULL)]
  /\ ltkey = [d \in Devices |-> <<0, 0>>]
  /\ unlocked = [d \in Devices |-> NULL]
  /\ toTool = [d \in Devices |-> <<>>]
  /\ toDev = [d \in Devices |-> <<>>]
  /\ fresh = 1 % Fresh
  /\ faults = 0
  /\ overlap = FALSE
  /\ stale = {}
  /\ installed = {d \in Devices : Known(d) # NULL}

Save(p) == OpenTmp(p) \/ WriteLines(p) \/ RenameTmp(p) \/ RenameNew(p)

Process(p) == ReadError(p) \/ ReadSnum(p) \/ ReadMac(p) \/ ReadAck(p) \/ Save(p)

Device(d) == DevReset(d) \/ DevMac(d) \/ DevRekey(d) \/ DevRefuse(d) \/ DevKeyReq(d)

Next ==
  \/ \E d \in Devices, right \in BOOLEAN : Start(d, right)
  \/ \E d \in Devices : StartFails(d)
  \/ \E p \in Procs : Process(p)
  \/ \E p \in Procs : NoNonce(p)
  \/ \E p \in Procs : Kill(p)
  \/ \E p \in Procs : Interrupt(p)
  \/ \E d \in Devices : Device(d)
  \/ \E d \in Devices : Lose(d)

Spec == Init /\ [][Next]_vars

-----------------------------------------------------------------------------
(* Every variable has its type; at most one entry for a serial number is   *)
(* kept, in memory as in every file.                                       *)
TypeOK ==
  /\ keyring \in Contents \cup {Absent} /\ new \in Contents \cup {Absent}
  /\ tmp \in Contents \cup {Absent}
  /\ \A f \in {keyring, new, tmp} \ {Absent} : Distinct(f)
  /\ proc \in [Procs -> Processes]
  /\ \A p \in Procs : Distinct(proc[p].ents)
  /\ ltkey \in [Devices -> LongTermKeys]
  /\ unlocked \in [Devices -> Commands \cup {NULL}]
  /\ toTool \in [Devices -> Seq(Frames)]
  /\ toDev \in [Devices -> Seq(Commands)]
  /\ fresh \in Values
  /\ faults \in 0 .. MaxFaults
  /\ overlap \in BOOLEAN
  /\ stale \subseteq Devices
  /\ installed \subseteq Devices

(* The exit status can be trusted: from a process that reports success     *)
(* until the next one is started for its device, the keyring file holds    *)
(* the key the device has, whatever else a killed run left under way,      *)
(* unless that was an L command or the answer to one, or another process   *)
(* ran beside it.                                                          *)
Saved ==
  \A p \in Procs :
    proc[p].status = 0 /\ proc[p].dev \notin stale /\ ~overlap => Agree(proc[p].dev)

(* Whoever is killed where, and however two processes overlap, the file    *)
(* under the keyring's own name is never half written: every device known  *)
(* at first stays known.                                                   *)
NeverTorn == \A d \in installed : Known(d) # NULL

(* A run for one device leaves alone what the keyring says of the others.  *)
OthersKept ==
  [][\A d \in Devices : Known(d)' # Known(d) /\ ~overlap'
       => \E p \in Alive : proc[p].dev = d]_vars

-----------------------------------------------------------------------------
(* Processes read what there is to read and go on; the device answers and  *)
(* never stops asking; an operator starts the tool again, with the right   *)
(* master key, while the keyring does not fit a device, sometimes when     *)
(* nothing is left of an earlier run on the lines (the terminal's flush    *)
(* has caught it, or the device has been given the time to answer), and    *)
(* interrupts it when it waits in vain.                                    *)
idle(d) == toTool[d] = <<>> /\ toDev[d] = <<Reset>>

Fairness ==
  /\ WF_vars(\E p \in Procs : Process(p))
  /\ \A p \in Procs : WF_vars(Interrupt(p))
  /\ WF_vars(\E d \in Devices : Device(d))
  /\ \A d \in Devices :
       SF_vars(~Agree(d) /\ Alive = {} /\ Start(d, TRUE) /\ idle(d)')

FairSpec == Spec /\ Fairness

(* No point at which a process dies, no lost frame and no wrong master key *)
(* makes a device useless: running the tool again brings keyring and       *)
(* device together, provided that no process died with its .new.tmp file   *)
(* open, which blocks every later one.                                     *)
Recovers ==
  ([](tmp # Absent => \E p \in Alive : proc[p].at \in {"lines", "rename_tmp"}))
    => (keyring # Absent ~> \A d \in Devices : Agree(d))
=============================================================================
