------------------------------ MODULE Rekeyer ------------------------------
(***************************************************************************)
(* The Rekeyer class of rekeyer.py: the state a gateway keeps about the    *)
(* rekeying in progress, and its methods as operators on a record.  The    *)
(* module has no variables: SecureLink holds one such record per gateway   *)
(* and calls these operators from the two threads that share the object.   *)
(* A definition named Bug... is a plausible mistake in the one that        *)
(* follows it; it is only used to show that a property can fail.           *)
(*                                                                         *)
(* Data abstraction.  An ephemeral ECC key is a member of Secrets, and its *)
(* public half is written as the secret itself: all a peer does with it is *)
(* agree on a key.  A symmetric key is the set of secrets it was derived   *)
(* from, so key agreement is symmetric by construction, as X25519 is; the  *)
(* session key of the handshake, derived from none of them, is {}.         *)
(***************************************************************************)

CONSTANTS
    Secrets,    \* ephemeral ECC keys a Rekeyer can generate
    NoSecret    \* the None of __own_secret and the b'' of a message field

ASSUME SecretAssumption == NoSecret \notin Secrets

Flags == {"NONE", "INIT", "REPLY", "SWITCH", "SWITCH_ACK", "FAIL"}

\* RekeyStates.SHARED_SECRET_FLAGS: the messages that carry a public key.
SharedSecretFlags == {"INIT", "REPLY"}

\* The three values of __is_initiator: None, True and False.
Roles == {"none", "initiator", "replier"}

Keys == SUBSET Secrets
SessionKey == {}
SharedKey(own, peer) == {own, peer}

\* The None of __old_sym_key and __new_sym_key, which is no key.
NoKey == {NoSecret}

RekeyerState ==
    [ send_state    : Flags,
      peer_secret   : Secrets \cup {NoSecret},
      own_secret    : Secrets \cup {NoSecret},
      old_key       : Keys \cup {NoKey},
      new_key       : Keys \cup {NoKey},
      role          : Roles,
      fail_flag     : BOOLEAN,
      clear         : BOOLEAN,
      due           : BOOLEAN ]  \* time() - __rekey_switch_time >= __rekey_time

InitRekeyer ==
    [ send_state |-> "NONE", peer_secret |-> NoSecret, own_secret |-> NoSecret,
      old_key |-> NoKey, new_key |-> NoKey, role |-> "none",
      fail_flag |-> FALSE, clear |-> FALSE, due |-> FALSE ]

----------------------------------------------------------------------------

\* BUG: the ephemeral key is not forgotten.
BugResetMost(r) == [r EXCEPT !.peer_secret = NoSecret, !.role = "none", !.fail_flag = FALSE]

ResetMost(r) == [r EXCEPT !.peer_secret = NoSecret, !.own_secret = NoSecret,
                          !.role = "none", !.fail_flag = FALSE]

ResetSym(r) == [r EXCEPT !.old_key = NoKey, !.new_key = NoKey, !.clear = FALSE]

ResetAll(r) == ResetSym(ResetMost(r))

\* __generate_new_key returns normally; `agreed` is FALSE when importing the
\* peer's public key or the agreement itself raises ValueError.
Generates(r, agreed) ==
    agreed /\ r.own_secret # NoSecret /\ r.peer_secret # NoSecret

GenerateNewKey(r) == [r EXCEPT !.new_key = SharedKey(r.own_secret, r.peer_secret)]

Answer(r, flag) == [r EXCEPT !.send_state = flag]

----------------------------------------------------------------------------
(* Called by SymCipher.__update_key. *)

\* BUG: either side switches as soon as the switch is cleared.
BugMaySwitch(r, beforeSend) == r.clear

\* The role's turn to switch: the initiator before it sends, the replier
\* before it decrypts.
MaySwitch(r, beforeSend) == r.clear /\ (beforeSend <=> r.role = "initiator")

GetNewKey(r, beforeSend) ==
    IF r.fail_flag THEN r.old_key
    ELSE IF MaySwitch(r, beforeSend) THEN r.new_key ELSE NoKey

AfterGetNewKey(r) == IF r.fail_flag THEN ResetAll(r) ELSE r

SetFailFlag(r) == [r EXCEPT !.fail_flag = TRUE]

(* Called by SymCipher.encrypt_and_digest. *)

\* BUG: the ephemeral key is looked for whatever the flag.
BugLacksOwnSecret(r) == r.own_secret = NoSecret

\* get_own_public_secret raises ValueError: the flag it reads calls for a
\* public key and no ephemeral key is held.
LacksOwnSecret(r) == r.send_state \in SharedSecretFlags /\ r.own_secret = NoSecret

OwnPublicSecret(r) ==
    IF r.send_state \in SharedSecretFlags THEN r.own_secret ELSE NoSecret

----------------------------------------------------------------------------
(* handle_rekey(current_sym_key, recv_rekey_flag, peer_shared_secret), by  *)
(* received flag.  `fresh` is what ECC_key_gen returns if it is called.    *)

OnNone(r, fresh) ==
    IF r.due
    THEN [Answer(r, "INIT") EXCEPT !.role = "initiator", !.own_secret = fresh]
    ELSE ResetSym(Answer(r, "NONE"))

\* BUG: the replier clears the switch before the initiator has the key.
BugOnInitClears(r, fresh, agreed) ==
    [GenerateNewKey([Answer(r, "REPLY") EXCEPT !.role = "replier", !.own_secret = fresh])
       EXCEPT !.clear = TRUE]

\* BUG: the replier replies without deriving the new key.
BugOnInitNoKey(r, fresh, agreed) ==
    [Answer(r, "REPLY") EXCEPT !.role = "replier", !.own_secret = fresh]

OnInit(r, fresh, agreed) ==
    LET s == [Answer(r, "REPLY") EXCEPT !.role = "replier", !.own_secret = fresh]
    IN  IF Generates(s, agreed) THEN GenerateNewKey(s) ELSE ResetAll(Answer(s, "FAIL"))

OnFail(r) == ResetAll(Answer(r, "NONE"))

\* A REPLY, SWITCH or SWITCH_ACK, which only mean something to one role.
\* __handle_rekey_initiator does nothing with a SWITCH, and
\* __handle_rekey_replier nothing with a REPLY or a SWITCH_ACK.
\* BUG: the initiator announces a switch it does not clear.
BugInitiatorOnReply(r, agreed) == GenerateNewKey(Answer(r, "SWITCH"))

InitiatorOnReply(r, agreed) ==
    IF Generates(r, agreed)
    THEN [GenerateNewKey(Answer(r, "SWITCH")) EXCEPT !.clear = TRUE]
    ELSE SetFailFlag(Answer(r, "FAIL"))

\* BUG: the interval is not restarted.
BugInitiatorOnAck(r) == ResetAll(Answer(r, "NONE"))

InitiatorOnAck(r) == ResetAll([Answer(r, "NONE") EXCEPT !.due = FALSE])

\* BUG: the replier acknowledges a switch it does not make.
BugReplierOnSwitch(r) == ResetMost([Answer(r, "SWITCH_ACK") EXCEPT !.due = FALSE])

ReplierOnSwitch(r) ==
    IF r.new_key # NoKey
    THEN ResetMost([Answer(r, "SWITCH_ACK") EXCEPT !.clear = TRUE, !.due = FALSE])
    ELSE ResetAll(Answer(r, "FAIL"))

OnReplySwitchOrAck(r, flag, agreed) ==
    CASE r.fail_flag -> OnFail(r)
      [] ~r.fail_flag /\ r.role = "initiator" /\ flag = "REPLY" -> InitiatorOnReply(r, agreed)
      [] ~r.fail_flag /\ r.role = "initiator" /\ flag = "SWITCH_ACK" -> InitiatorOnAck(r)
      [] ~r.fail_flag /\ r.role = "replier" /\ flag = "SWITCH" -> ReplierOnSwitch(r)
      [] OTHER -> r

\* What every call stores first.
Received(r, currentKey, pub) ==
    [r EXCEPT !.old_key = currentKey,
              !.peer_secret = IF pub = NoSecret THEN @ ELSE pub]

\* The public key is there exactly when the flag calls for it.
FlagMatchesSecret(flag, pub) == flag \in SharedSecretFlags <=> pub # NoSecret

HandleRekey(r, currentKey, flag, pub, fresh, agreed) ==
    LET s == Received(r, currentKey, pub)
    IN  CASE ~FlagMatchesSecret(flag, pub) -> [r EXCEPT !.old_key = currentKey]
          [] FlagMatchesSecret(flag, pub) /\ flag = "NONE" -> OnNone(s, fresh)
          [] FlagMatchesSecret(flag, pub) /\ flag = "INIT" -> OnInit(s, fresh, agreed)
          [] FlagMatchesSecret(flag, pub) /\ flag = "FAIL" -> OnFail(s)
          [] OTHER -> OnReplySwitchOrAck(s, flag, agreed)

\* The ValueErrors of handle_rekey.
RoleMissing(r, flag) ==
    flag \in {"REPLY", "SWITCH", "SWITCH_ACK"} /\ ~r.fail_flag /\ r.role = "none"

NewKeyMissing(r, flag) ==
    flag = "SWITCH" /\ ~r.fail_flag /\ r.role = "replier" /\ r.new_key = NoKey

HandleRekeyRaises(r, flag, pub) ==
    ~FlagMatchesSecret(flag, pub) \/ RoleMissing(r, flag) \/ NewKeyMissing(r, flag)
============================================================================
