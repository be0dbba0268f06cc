--------------------------- MODULE EkeyConnection ---------------------------
(***************************************************************************)
(* The host end of an entropy key connection: the packet layer of          *)
(* host/packet.c (type, MAC and class checks of one frame), the state      *)
(* machine of host/connection.c and the keyring lookup of host/keydb.c.    *)
(* econ_run handles one frame, to completion, per call.                    *)
(***************************************************************************)
EXTENDS EkeyWire

CONSTANTS
  MAX_PACKETS_BEFORE_RESET,   \* 5 in the code
  MAX_REKEYS_BEFORE_RESET     \* 50 in the code

ASSUME ConnectionAssumption ==
  /\ MAX_PACKETS_BEFORE_RESET \in Nat
  /\ MAX_REKEYS_BEFORE_RESET \in Nat

VARIABLES
  current_state,    \* ekey_state_t of the connection
  snum,             \* serial number, NULL until configured or learnt
  sk_mac,           \* MAC state of the packet layer, NULL until a serial is known
  ltkey,            \* long-term key looked up for snum, or NULL
  session_state,    \* key of the entropy pad, NULL before the first keying
  nonce,            \* nonce of the last keying command, NULL before the first
  keyreq_counter,   \* key requests ignored since the last keying command
  con_nonces,       \* nonces sent (also the first half of the next nonce)
  key_badness,      \* failure mode of the last snapshot, NULL: the initial 0
  keyring,          \* keydb: serial number -> long-term key or NULL
  out               \* the last two blocks written to op_stream, oldest first

conVars == <<current_state, snum, sk_mac, ltkey, session_state, nonce,
             keyreq_counter, con_nonces, key_badness, keyring, out>>

States == {"INIT", "CLOSE", "UNTRUSTED", "SESSION", "SESSION_SENT",
           "KEYED_FIRST", "KEYED_BAD", "KEYED"}

-----------------------------------------------------------------------------
(* keydb.c *)

snum_to_ltkey(s) == keyring[s]

(* read_keyring: the whole table is replaced (an unreadable file leaves it *)
(* as it was, which is a stuttering step).                                 *)
read_keyring(table) ==
  /\ keyring' = table
  /\ UNCHANGED <<current_state, snum, sk_mac, ltkey, session_state, nonce,
                 keyreq_counter, con_nonces, key_badness, out,
                 toHost, toDev>>

-----------------------------------------------------------------------------
(* packet.c *)

(* epkt_setsessionkey as a value: no serial number, no change.             *)
epkt_setsessionkey(s, k) == IF s = NULL THEN sk_mac ELSE <<s, k>>

verify_mac(p) == sk_mac # NULL /\ p.mac = sk_mac

(* Mutant: the outcome of the MAC check is ignored.                        *)
verified_ignored(p) == TRUE

(* A serial number frame needs no MAC while there is no MAC state.         *)
verified(p) == (sk_mac = NULL /\ p.type = "SNUM") \/ verify_mac(p)

(* pkt_type after verify_packet: a frame that fails its MAC is not dropped *)
(* but handed on as KEYREJECTED.                                           *)
pkt_type(p) == IF verified(p) THEN p.type ELSE "KEYREJECTED"

(* epkt_read gives up: unknown type, unknown class or nothing decoded.     *)
unreadable(p) == p.type = "NONE" \/ p.form # "ok"

-----------------------------------------------------------------------------
(* connection.c: shared pieces of the handlers *)

(* The key's stream is a blocking descriptor: a write waits for room.      *)
estream_write(cmd) == Len(toDev) < CmdCap /\ toDev' = Append(toDev, cmd)

reset ==
  /\ estream_write(CtrlC)
  /\ sk_mac' = epkt_setsessionkey(snum, ZeroKey)

(* Keep the last two blocks written to the output stream.                  *)
written(b) == IF out = <<>> THEN <<b>> ELSE <<out[Len(out)], b>>

(* The pad of session key and subcode recovers the block it was made with. *)
decrypt(p) == IF p.block = [key |-> session_state, seq |-> p.sub]
                THEN p.block ELSE Garbage

-----------------------------------------------------------------------------
(* connection.c: the packet handlers, each a whole call of econ_run *)

null_pkt_handler(p) ==
  UNCHANGED <<current_state, snum, sk_mac, ltkey, session_state, nonce,
              keyreq_counter, con_nonces, key_badness, out, toDev>>

reset_pkt_handler(p) ==
  /\ reset
  /\ current_state' = "INIT"
  /\ UNCHANGED <<snum, ltkey, session_state, nonce, keyreq_counter,
                 con_nonces, key_badness, out>>

badkey_pkt_handler(p) ==
  /\ reset
  /\ keyreq_counter' = 0
  /\ current_state' = "KEYED_BAD"
  /\ UNCHANGED <<snum, ltkey, session_state, nonce, con_nonces, key_badness,
                 out>>

(* Mutant: the retry threshold is never applied.                           *)
badkey_count_forever(p) == null_pkt_handler(p)

badkey_count_pkt_handler(p) ==
  /\ keyreq_counter' = keyreq_counter + 1
  /\ \/ /\ keyreq_counter < MAX_REKEYS_BEFORE_RESET
        /\ UNCHANGED <<current_state, sk_mac, toDev>>
     \/ /\ keyreq_counter >= MAX_REKEYS_BEFORE_RESET
        /\ reset
        /\ current_state' = "INIT"
  /\ UNCHANGED <<snum, ltkey, session_state, nonce, con_nonces, key_badness,
                 out>>

(* Only the failure mode of a snapshot is kept; the other readings of an   *)
(* information frame are numbers nothing here depends on.                  *)
info_pkt_handler(p) ==
  /\ key_badness' = IF p.mode # NULL THEN p.mode ELSE key_badness
  /\ UNCHANGED <<current_state, snum, sk_mac, ltkey, session_state, nonce,
                 keyreq_counter, con_nonces, out, toDev>>

(* Mutant: the counter moves on between filling and sending the nonce.     *)
keyreq_sends_next(nonceOk) ==
  /\ nonceOk
  /\ con_nonces' = (con_nonces + 1) % NonceMod
  /\ estream_write(KeyCmd(con_nonces'))
  /\ nonce' = con_nonces
  /\ keyreq_counter' = 0
  /\ current_state' = "SESSION_SENT"

(* keyreq_pkt_handler, also the tail of the last entropy frame.            *)
(* fill_nonce may fail; the nonce is then half written, and never used.    *)
keyreq(nonceOk) ==
  \/ /\ nonceOk
     /\ estream_write(KeyCmd(con_nonces))
     /\ nonce' = con_nonces
     /\ con_nonces' = (con_nonces + 1) % NonceMod
     /\ keyreq_counter' = 0
     /\ current_state' = "SESSION_SENT"
  \/ /\ ~nonceOk
     /\ current_state' = "UNTRUSTED"
     /\ UNCHANGED <<toDev, nonce, con_nonces, keyreq_counter>>

keyreq_pkt_handler(p, nonceOk) ==
  /\ keyreq(nonceOk)
  /\ UNCHANGED <<snum, sk_mac, ltkey, session_state, key_badness, out>>

(* Mutant: repeated key requests are ignored without limit.                *)
keyreq_count_forever(p) == null_pkt_handler(p)

keyreq_count_pkt_handler(p) ==
  /\ keyreq_counter' = keyreq_counter + 1
  /\ \/ /\ keyreq_counter < MAX_PACKETS_BEFORE_RESET
        /\ UNCHANGED <<current_state, sk_mac, toDev>>
     \/ /\ keyreq_counter >= MAX_PACKETS_BEFORE_RESET
        /\ reset
        /\ current_state' = "INIT"
  /\ UNCHANGED <<snum, ltkey, session_state, nonce, con_nonces, key_badness,
                 out>>

(* Mutant: the pad keeps the session key of the previous session.          *)
key_stale_pad(p) ==
  /\ session_state' = IF session_state = NULL THEN <<ltkey, p.devnonce, nonce>>
                                              ELSE session_state
  /\ sk_mac' = epkt_setsessionkey(snum, <<ltkey, p.devnonce, nonce>>)
  /\ current_state' = "KEYED_FIRST"
  /\ UNCHANGED <<snum, ltkey, nonce, keyreq_counter, con_nonces, key_badness,
                 out, toDev>>

key_pkt_handler(p) ==
  \/ /\ p.sub # NonceLen
     /\ reset_pkt_handler(p)
  \/ /\ p.sub = NonceLen
     /\ session_state' = <<ltkey, p.devnonce, nonce>>
     /\ sk_mac' = epkt_setsessionkey(snum, session_state')
     /\ current_state' = "KEYED_FIRST"
     /\ UNCHANGED <<snum, ltkey, nonce, keyreq_counter, con_nonces,
                    key_badness, out, toDev>>

entropy_pkt_handler(p, nonceOk) ==
  /\ out' = written(decrypt(p))
  /\ \/ /\ p.sub = MaxSeq
        /\ keyreq(nonceOk)
     \/ /\ p.sub # MaxSeq
        /\ current_state' = "KEYED"
        /\ UNCHANGED <<toDev, nonce, con_nonces, keyreq_counter>>
  /\ UNCHANGED <<snum, sk_mac, ltkey, session_state, key_badness>>

(* Mutant: a serial number without long-term key is accepted.              *)
snum_without_key(p) ==
  /\ p.serial # NULL
  /\ snum \in {NULL, p.serial}
  /\ snum' = p.serial
  /\ sk_mac' = epkt_setsessionkey(snum', ZeroKey)
  /\ ltkey' = snum_to_ltkey(snum')
  /\ current_state' = "SESSION"
  /\ UNCHANGED <<session_state, nonce, keyreq_counter, con_nonces, key_badness,
                 out, toDev>>

(* NULL stands for a serial number of fewer than 12 bytes.                 *)
snum_pkt_handler(p) ==
  \/ /\ p.serial = NULL
     /\ reset_pkt_handler(p)
  \/ /\ p.serial # NULL
     /\ snum \notin {NULL, p.serial}
     /\ current_state' = "UNTRUSTED"
     /\ UNCHANGED <<snum, sk_mac, ltkey, session_state, nonce, keyreq_counter,
                    con_nonces, key_badness, out, toDev>>
  \/ /\ p.serial # NULL
     /\ snum \in {NULL, p.serial}
     /\ snum' = p.serial
     /\ sk_mac' = epkt_setsessionkey(snum', ZeroKey)
     /\ ltkey' = snum_to_ltkey(snum')
     /\ current_state' = IF ltkey' = NULL THEN "UNTRUSTED" ELSE "SESSION"
     /\ UNCHANGED <<session_state, nonce, keyreq_counter, con_nonces,
                    key_badness, out, toDev>>

-----------------------------------------------------------------------------
(* connection.c: the dispatch table and econ_run *)

default_handler_for(s) ==
  IF s \in {"CLOSE", "UNTRUSTED", "KEYED_BAD"} THEN "null" ELSE "reset"

(* The entries init_states sets over the defaults.                         *)
set_handlers ==
  { <<"INIT",         "SNUM",        "snum">>,
    <<"SESSION",      "INFO",        "info">>,
    <<"SESSION",      "KEYREQ",      "keyreq">>,
    <<"SESSION_SENT", "KEYREQ",      "keyreq_count">>,
    <<"SESSION_SENT", "INFO",        "info">>,
    <<"SESSION_SENT", "KEY",         "key">>,
    <<"KEYED_FIRST",  "ENTROPY",     "entropy">>,
    <<"KEYED_FIRST",  "INFO",        "info">>,
    <<"KEYED_FIRST",  "KEYREJECTED", "badkey">>,
    <<"KEYED_BAD",    "KEYREQ",      "badkey_count">>,
    <<"KEYED",        "ENTROPY",     "entropy">>,
    <<"KEYED",        "INFO",        "info">>,
    <<"KEYED",        "KEYREQ",      "keyreq">> }

(* pkt_handlers[s][t] is h.                                                *)
pkt_handlers(s, t, h) ==
  \/ <<s, t, h>> \in set_handlers
  \/ /\ h = default_handler_for(s)
     /\ ~\E e \in set_handlers : e[1] = s /\ e[2] = t

(* The frame p handled by the entry of the table for the current state.    *)
dispatch(p, nonceOk) ==
  LET is(h) == pkt_handlers(current_state, pkt_type(p), h)
  IN  \/ is("null")         /\ null_pkt_handler(p)
      \/ is("reset")        /\ reset_pkt_handler(p)
      \/ is("badkey")       /\ badkey_pkt_handler(p)
      \/ is("badkey_count") /\ badkey_count_pkt_handler(p)
      \/ is("info")         /\ info_pkt_handler(p)
      \/ is("keyreq")       /\ keyreq_pkt_handler(p, nonceOk)
      \/ is("keyreq_count") /\ keyreq_count_pkt_handler(p)
      \/ is("key")          /\ key_pkt_handler(p)
      \/ is("entropy")      /\ entropy_pkt_handler(p, nonceOk)
      \/ is("snum")         /\ snum_pkt_handler(p)

close_connection ==
  /\ current_state' = "CLOSE"
  /\ UNCHANGED <<snum, sk_mac, ltkey, session_state, nonce, keyreq_counter,
                 con_nonces, key_badness, keyring, out, toDev>>

(* Mutant: the frame buffer is not cleared, the frame is handled again.    *)
econ_run_sticky(nonceOk) ==
  /\ current_state # "CLOSE"
  /\ toHost # <<>>
  /\ ~unreadable(Head(toHost))
  /\ toHost' \in {toHost, Tail(toHost)}
  /\ dispatch(Head(toHost), nonceOk)
  /\ UNCHANGED keyring

(* econ_run reads the next frame and handles it.  nonceOk is the result of *)
(* fill_nonce should the handler need one.                                 *)
econ_run(nonceOk) ==
  /\ current_state # "CLOSE"
  /\ toHost # <<>>
  /\ toHost' = Tail(toHost)
  /\ LET p == Head(toHost)
     IN  \/ /\ unreadable(p)
            /\ close_connection
         \/ /\ ~unreadable(p)
            /\ dispatch(p, nonceOk)
            /\ UNCHANGED keyring

(* econ_run when the read returns end of file or an error (unplugged).     *)
econ_run_eof ==
  /\ current_state # "CLOSE"
  /\ close_connection
  /\ UNCHANGED toHost

-----------------------------------------------------------------------------
(* ekeyd.c, lstate.c: what ListEntropyKeys tells of a connection: whether  *)
(* all is well with it, its status and its serial number.  KEYED_BAD is    *)
(* among the states that have no status of their own.                      *)

query_ekey_status ==
  CASE current_state = "CLOSE" -> "KEYCLOSED"
    [] current_state = "UNTRUSTED" -> "BADKEY"
    [] current_state \in {"SESSION", "SESSION_SENT"} -> "GOODSERIAL"
    [] current_state \in {"KEYED_FIRST", "KEYED"} -> "KEYED"
    [] OTHER -> "UNKNOWN"

l_query_ekey ==
  [okay |-> query_ekey_status \in {"UNKNOWN", "GOODSERIAL", "KEYED"},
   status |-> query_ekey_status, serial |-> snum]

=============================================================================
