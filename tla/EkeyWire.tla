------------------------------ MODULE EkeyWire ------------------------------
(***************************************************************************)
(* What travels between ekeyd and one entropy key: 64-byte frames from the *)
(* device (read through eframe_read and epkt_read) and short byte commands *)
(* from the host (written with estream_write).  Frames are records that    *)
(* keep what the receiving code tells apart; MACs and one-time pads are    *)
(* perfect: a MAC matches exactly when serial number and key match.        *)
(***************************************************************************)
EXTENDS Naturals, Sequences

CONSTANTS
  Serials,     \* device serial numbers (12 bytes)
  LTKeys,      \* long-term keys (32 bytes)
  MaxSeq,      \* last entropy sequence number of a session key (4095)
  NonceMod,    \* size of the nonce spaces (2^32 for con_nonces)
  LinkCap,     \* frames the link to the host buffers
  CmdCap,      \* commands the link to the device buffers
  NULL,        \* a C null pointer
  BadMac,      \* the MAC field of a damaged frame: matches no key
  Garbage      \* bytes no device generated

ASSUME WireAssumption ==
  /\ MaxSeq \in Nat
  /\ NonceMod \in Nat \ {0}
  /\ LinkCap \in Nat \ {0}
  /\ CmdCap \in Nat \ {0}

VARIABLES
  toHost,      \* frames sent by the device and not yet read by the host
  toDev        \* commands written by the host and not yet read by the device

-----------------------------------------------------------------------------
(* pkt_type_t.  NONE is also what an unknown type letter decodes to.       *)
PktTypes == {"SNUM", "INFO", "WARN", "ENTROPY", "KEYREQ", "KEY",
             "LTREKEYMAC", "LTREKEY", "KEYREJECTED"}

(* The letters a device puts on the wire; B and l have no pkt_type_t.      *)
WireTypes == (PktTypes \ {"KEYREJECTED"}) \cup {"NONE"}

(* How the payload decodes: a known class with data, an unknown class      *)
(* byte, or no data at all (decoded length 0).                             *)
Forms == {"ok", "badclass", "empty"}

(* The all-zero default_session_key, and the keys a session can have: the  *)
(* Skein of long-term key, device nonce and host nonce.  Every input of    *)
(* the hash stays visible, so two keys agree only if all inputs agree.     *)
ZeroKey == <<>>
Nonces == 0 .. NonceMod - 1
SessionKeys == LTKeys \X Nonces \X (Nonces \cup {NonceMod})
Keys == SessionKeys \cup {ZeroKey}

(* A prepared MAC state: serial number and key.                            *)
MacKeys == Serials \X Keys

(* 32 bytes of generated entropy, named by the session key and sequence    *)
(* number under which the device first sent them.                          *)
Blocks == [key : SessionKeys, seq : 0 .. MaxSeq]

Modes == {"0", "1"}           \* failure modes: healthy, failed

(* A frame: type letter, how its payload decodes, the key its MAC was made *)
(* with, the 12-bit sub-code, and the payload fields its type has (NULL in *)
(* the others): serial number, device nonce, failure mode, entropy.        *)
Frames == [type : WireTypes, form : Forms, mac : MacKeys \cup {BadMac},
           sub : Nat, serial : Serials \cup {NULL},
           devnonce : Nonces \cup {NULL}, mode : Modes \cup {NULL},
           block : Blocks \cup {NULL}]

Frame(type, mac, sub) ==
  [type |-> type, form |-> "ok", mac |-> mac, sub |-> sub, serial |-> NULL,
   devnonce |-> NULL, mode |-> NULL, block |-> NULL]

(* NONCE_LEN: the host's nonce is 12 bytes; ShortLen stands for any other  *)
(* length the device may report after losing part of the command.          *)
NonceLen == 12
ShortLen == 9

(* Host commands: ^C, K<nonce>. and bytes the device does not understand.  *)
CtrlC == [cmd |-> "reset", nonce |-> 0, len |-> 0]
KeyCmd(n) == [cmd |-> "key", nonce |-> n, len |-> NonceLen]
Unknown == [cmd |-> "unknown", nonce |-> 0, len |-> 0]
Commands == [cmd : {"reset", "key", "unknown"}, nonce : Nonces \cup {NonceMod},
             len : {0, NonceLen, ShortLen}]

(* NULL, a damaged MAC and foreign bytes are not mistaken for values.      *)
ASSUME DistinctAssumption ==
  /\ NULL \notin Serials \cup LTKeys
  /\ NULL \notin Nonces
  /\ NULL \notin SessionKeys
  /\ NULL \notin MacKeys
  /\ NULL \notin Blocks
  /\ BadMac \notin MacKeys
  /\ BadMac # NULL
  /\ Garbage \notin Blocks
=============================================================================
