----------------------------- MODULE EkeyDevice -----------------------------
(***************************************************************************)
(* The entropy key itself.  Its firmware is not part of the repository:    *)
(* this is the behaviour the host code is written against, as far as the   *)
(* host can observe it (frames it must be ready for, answers to its        *)
(* commands, when session keys change).                                    *)
(***************************************************************************)
EXTENDS EkeyWire

CONSTANTS
  DevSerial,     \* serial number of the attached device
  DevLTKey,      \* long-term key the device holds
  Prompt,        \* TRUE: unsolicited frames are slow compared with a round trip
  WrapNonces,    \* FALSE: the device nonces stop at the end of their range
  InfoModes,     \* failure modes reported in information frames (NULL: none)
  GoesBad        \* TRUE: generators may fail while a session is keyed

ASSUME DeviceAssumption ==
  /\ DevSerial \in Serials
  /\ DevLTKey \in LTKeys
  /\ Prompt \in BOOLEAN
  /\ WrapNonces \in BOOLEAN
  /\ GoesBad \in BOOLEAN
  /\ InfoModes \subseteq Modes \cup {NULL}

VARIABLES
  dev_key,       \* current session key
  dev_seq,       \* sequence number of the next entropy frame
  dev_nonces     \* next fresh 32-byte device nonce

devVars == <<dev_key, dev_seq, dev_nonces>>

DevTypeOK ==
  /\ dev_key \in Keys
  /\ dev_seq \in 0 .. MaxSeq + 1
  /\ dev_nonces \in Nonces

-----------------------------------------------------------------------------
DevMac == <<DevSerial, dev_key>>

room == Len(toHost) < LinkCap

send(f) == room /\ toHost' = Append(toHost, f)

(* Blocks of 20000 bits and information frames come seconds apart, a round *)
(* trip takes milliseconds: with Prompt such a frame finds both links      *)
(* empty.                                                                  *)
slow == Prompt => toHost = <<>> /\ toDev = <<>>

SerialFrame ==
  [Frame("SNUM", <<DevSerial, ZeroKey>>, 0) EXCEPT !.serial = DevSerial]

(* ^C: session key back to zero, then the serial number.                   *)
DevReset ==
  /\ toDev # <<>> /\ Head(toDev).cmd = "reset"
  /\ toDev' = Tail(toDev)
  /\ send(SerialFrame)
  /\ dev_key' = ZeroKey
  /\ dev_seq' = 0
  /\ UNCHANGED dev_nonces

(* K: answer with fresh entropy under the old key, then change the key.    *)
DevRekey ==
  /\ toDev # <<>> /\ Head(toDev).cmd = "key"
  /\ WrapNonces \/ dev_nonces < NonceMod - 1
  /\ toDev' = Tail(toDev)
  /\ send([Frame("KEY", DevMac, Head(toDev).len) EXCEPT !.devnonce = dev_nonces])
  /\ dev_key' = <<DevLTKey, dev_nonces, Head(toDev).nonce>>
  /\ dev_seq' = 0
  /\ dev_nonces' = (dev_nonces + 1) % NonceMod

(* K when the generators have failed: a B frame, of which the host knows   *)
(* no type.                                                                *)
DevGoneBad ==
  /\ GoesBad
  /\ toDev # <<>> /\ Head(toDev).cmd = "key"
  /\ toDev' = Tail(toDev)
  /\ send(Frame("NONE", DevMac, 0))
  /\ UNCHANGED devVars

(* A command it does not understand.                                       *)
DevWarn ==
  /\ toDev # <<>> /\ Head(toDev).cmd = "unknown"
  /\ toDev' = Tail(toDev)
  /\ send(Frame("WARN", DevMac, 0))
  /\ UNCHANGED devVars

(* A block is ready but no sequence number is left for it.                 *)
DevKeyReq ==
  /\ slow
  /\ dev_key = ZeroKey \/ dev_seq > MaxSeq
  /\ send(Frame("KEYREQ", DevMac, 0))
  /\ UNCHANGED <<devVars, toDev>>

DevEntropy ==
  /\ dev_key # ZeroKey /\ dev_seq <= MaxSeq
  /\ send([Frame("ENTROPY", DevMac, dev_seq)
             EXCEPT !.block = [key |-> dev_key, seq |-> dev_seq]])
  /\ dev_seq' = dev_seq + 1
  /\ UNCHANGED <<dev_key, dev_nonces, toDev>>

DevInfo(mode) ==
  /\ slow
  /\ send([Frame("INFO", DevMac, 0) EXCEPT !.mode = mode])
  /\ UNCHANGED <<devVars, toDev>>

DevCommand == DevReset \/ DevRekey \/ DevGoneBad \/ DevWarn

DevNext == DevCommand \/ DevKeyReq \/ DevEntropy \/ \E m \in InfoModes : DevInfo(m)

=============================================================================
