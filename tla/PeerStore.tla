----------------------------- MODULE PeerStore -----------------------------
(***************************************************************************)
(* The peers a gateway trusts.  A trusted RSA public key is kept twice: the*)
(* TPM holds the key at an NV index, and a row of peers.csv maps the key's *)
(* hash to that index.  Pairing (store_peer_RSA_public_key) writes the two *)
(* one after the other, keyvault_reset.py deletes them one after the other,*)
(* and the operator or the power may end either program between two steps. *)
(* A gateway accepts a peer whose key is found in both                     *)
(* (auth_RSA_public_key).  The gateway's own key pair is at NV index 0;    *)
(* rsa_keygen.py deletes the old one, generates another and stores it in   *)
(* two NV writes, and no pairing starts without a key that loads.          *)
(*                                                                         *)
(* Atomicity.  A step is one TPM command that changes NV memory, or one    *)
(* pass over peers.csv.  One program runs at a time.                       *)
(*                                                                         *)
(* Data abstraction.  A hash is written as the key it is of, an own key as *)
(* the number of the generation that made it.  A serialized public key is  *)
(* shorter than MAX_NV_BUFFER_SIZE and takes one NV write, a key pair is   *)
(* longer and takes two, with one prime cut by the boundary: a pair read   *)
(* back from halves of two keys fails RSA.import_key, as half a pair does. *)
(* Creating index 0 changes nothing that is read and is part of the first  *)
(* write.  An empty peers.csv is not told from a missing one.              *)
(***************************************************************************)
EXTENDS Naturals, FiniteSetsExt

CONSTANTS
    PubKeys,      \* the RSA public keys of the peers
    MaxIndex,     \* the NV indexes the TPM has room for are 1..MaxIndex
    PurgeRange,   \* UPPER_INDEX_RANGE of keyvault_reset.py
    Resets,       \* whether the operator ever resets, or replaces a key that loads
    MaxKeys,      \* bound on the own keys generated
    MaxFailures,  \* bound on the TPM commands that fail
    MaxCrashes,   \* bound on the programs that are interrupted
    Undefined,    \* an NV index that does not exist
    Unwritten     \* an NV index created and not written yet

ASSUME IndexAssumption == MaxIndex \in Nat /\ PurgeRange \in Nat
ASSUME BoundAssumption == MaxFailures \in Nat /\ MaxCrashes \in Nat /\ Resets \in BOOLEAN
ASSUME KeysAssumption == MaxKeys \in Nat
ASSUME ContentAssumption == Undefined # Unwritten /\ {Undefined, Unwritten} \cap PubKeys = {}

VARIABLES
    rows,     \* the rows of peers.csv, a set: their order is that of their ids
    nv,       \* nv[i]: the content of NV index i
    tool,     \* the program running: its program counter and locals
    paired,   \* the keys the operator confirmed since the last complete reset
    own,      \* the halves of NV index 0: the own key each is of, 0 for none
    made,     \* the own keys generated so far
    kept,     \* whether the TPM refused the last deletion of the own key
    failures, crashes

ownVars == <<own, made, kept>>
peerVars == <<rows, nv, paired>>
vars == <<peerVars, ownVars, tool, failures, crashes>>

Indices == 1..MaxIndex
Row == [key : PubKeys, id : Indices]

Pcs == {"idle", "scan", "create", "write", "append", "delete", "purge",
        "deleteOwn", "generate", "writeFirst", "writeSecond"}

ToolState ==
    [pc : Pcs,
     key : PubKeys \cup {Undefined}, id : 0..(MaxIndex + 1), todo : SUBSET Indices]

Idle == [pc |-> "idle", key |-> Undefined, id |-> 0, todo |-> {}]

Blank == [first |-> 0, second |-> 0]

OwnTypeOK ==
    /\ own \in [first : 0..MaxKeys, second : 0..MaxKeys]
    /\ made \in 0..MaxKeys
    /\ kept \in BOOLEAN

TypeOK ==
    /\ rows \subseteq Row
    /\ nv \in [Indices -> PubKeys \cup {Undefined, Unwritten}]
    /\ tool \in ToolState
    /\ paired \subseteq PubKeys
    /\ OwnTypeOK
    /\ failures \in 0..MaxFailures /\ crashes \in 0..MaxCrashes

Init ==
    /\ rows = {}
    /\ nv = [i \in Indices |-> Undefined]
    /\ tool = Idle
    /\ paired = {}
    /\ own = Blank /\ made = 0 /\ kept = FALSE
    /\ failures = 0 /\ crashes = 0

----------------------------------------------------------------------------
(* rsa_auth.py: a key is authorized when its row leads to the key itself.  *)

Known(k) == \E r \in rows : r.key = k

Authorized(k) == \E r \in rows : r.key = k /\ nv[r.id] = k

----------------------------------------------------------------------------
(* rsa_keygen.py. *)

\* The index is read in two parts and the key taken from them.
OwnKeyLoads == own.first # 0 /\ own.second = own.first

\* BUG: the old key is not deleted first.
BugStartKeygen ==
    /\ tool.pc = "idle" /\ made < MaxKeys /\ (OwnKeyLoads => Resets)
    /\ tool' = [Idle EXCEPT !.pc = "generate"]
    /\ UNCHANGED <<peerVars, ownVars, failures, crashes>>

StartKeygen ==
    /\ tool.pc = "idle" /\ made < MaxKeys /\ (OwnKeyLoads => Resets)
    /\ tool' = [Idle EXCEPT !.pc = "deleteOwn"]
    /\ UNCHANGED <<peerVars, ownVars, failures, crashes>>

DeleteOwn ==
    /\ tool.pc = "deleteOwn"
    /\ own' = Blank /\ kept' = FALSE
    /\ tool' = [tool EXCEPT !.pc = "generate"]
    /\ UNCHANGED <<peerVars, made, failures, crashes>>

\* "Old key deleted!" is printed whatever delete_TPM_nv returns.
DeleteOwnFails ==
    /\ tool.pc = "deleteOwn" /\ failures < MaxFailures
    /\ failures' = failures + 1
    /\ kept' = TRUE
    /\ tool' = [tool EXCEPT !.pc = "generate"]
    /\ UNCHANGED <<peerVars, own, made, crashes>>

Generate ==
    /\ tool.pc = "generate"
    /\ made' = made + 1
    /\ tool' = [tool EXCEPT !.pc = "writeFirst"]
    /\ UNCHANGED <<peerVars, own, kept, failures, crashes>>

\* get_random returns None, which ends RSA.generate and the program.
GenerateFails ==
    /\ tool.pc = "generate" /\ failures < MaxFailures
    /\ failures' = failures + 1
    /\ tool' = Idle
    /\ UNCHANGED <<peerVars, ownVars, crashes>>

WriteFirst ==
    /\ tool.pc = "writeFirst"
    /\ own' = [own EXCEPT !.first = made]
    /\ tool' = [tool EXCEPT !.pc = "writeSecond"]
    /\ UNCHANGED <<peerVars, made, kept, failures, crashes>>

WriteSecond ==
    /\ tool.pc = "writeSecond"
    /\ own' = [own EXCEPT !.second = made]
    /\ tool' = Idle
    /\ UNCHANGED <<peerVars, made, kept, failures, crashes>>

Keygen == DeleteOwn \/ Generate \/ WriteFirst \/ WriteSecond

----------------------------------------------------------------------------
(* Pairing. *)

\* The operator compares the fingerprints, one of them of the own key, and
\* confirms.
Confirm(k) ==
    /\ tool.pc = "idle" /\ OwnKeyLoads
    /\ tool' = [Idle EXCEPT !.pc = "scan", !.key = k]
    /\ paired' = paired \cup {k}
    /\ UNCHANGED <<rows, nv, failures, crashes, ownVars>>

\* BUG: the last index in use instead of the next one.
BugNewID == Max({1} \cup {r.id : r \in rows})

NewID == Max({0} \cup {r.id : r \in rows}) + 1

Scan ==
    /\ tool.pc = "scan"
    /\ tool' = IF Known(tool.key) THEN Idle ELSE [tool EXCEPT !.pc = "create", !.id = NewID]
    /\ UNCHANGED <<rows, nv, paired, failures, crashes, ownVars>>

\* BUG: an index that exists already is an error.
BugNVCreate ==
    /\ tool.pc = "create"
    /\ IF tool.id \in Indices /\ nv[tool.id] = Undefined
       THEN /\ nv' = [nv EXCEPT ![tool.id] = Unwritten]
            /\ tool' = [tool EXCEPT !.pc = "write"]
       ELSE tool' = Idle /\ UNCHANGED nv
    /\ UNCHANGED <<rows, paired, failures, crashes, ownVars>>

\* TPM_RC_NV_DEFINED is tolerated: an index left over is written again.
NVCreate ==
    /\ tool.pc = "create"
    /\ IF tool.id \in Indices
       THEN /\ nv' = [nv EXCEPT ![tool.id] = IF @ = Undefined THEN Unwritten ELSE @]
            /\ tool' = [tool EXCEPT !.pc = "write"]
       ELSE tool' = Idle /\ UNCHANGED nv
    /\ UNCHANGED <<rows, paired, failures, crashes, ownVars>>

NVWrite ==
    /\ tool.pc = "write"
    /\ nv' = [nv EXCEPT ![tool.id] = tool.key]
    /\ tool' = [tool EXCEPT !.pc = "append"]
    /\ UNCHANGED <<rows, paired, failures, crashes, ownVars>>

\* BUG: the result of store_TPM_nv is not looked at.
BugStoreFails ==
    /\ tool.pc \in {"create", "write"} /\ failures < MaxFailures
    /\ failures' = failures + 1
    /\ tool' = [tool EXCEPT !.pc = "append"]
    /\ UNCHANGED <<rows, nv, paired, crashes, ownVars>>

\* A TPM command of TPM_StoreNV fails: no row is written, or the own key
\* stays as far as it was written.
StoreFails ==
    /\ tool.pc \in {"create", "write", "writeFirst", "writeSecond"} /\ failures < MaxFailures
    /\ failures' = failures + 1
    /\ tool' = Idle
    /\ UNCHANGED <<rows, nv, paired, crashes, ownVars>>

AppendRow ==
    /\ tool.pc = "append"
    /\ rows' = rows \cup {[key |-> tool.key, id |-> tool.id]}
    /\ tool' = Idle
    /\ UNCHANGED <<nv, paired, failures, crashes, ownVars>>

----------------------------------------------------------------------------
(* keyvault_reset.py: the keys of the rows in turn, or without a peers.csv *)
(* the first PurgeRange indexes, if the operator agrees.                   *)

StartReset ==
    /\ Resets /\ tool.pc = "idle"
    /\ tool' = IF rows # {}
               THEN [Idle EXCEPT !.pc = "delete", !.todo = {r.id : r \in rows}]
               ELSE [Idle EXCEPT !.pc = "purge", !.todo = Indices \cap 1..PurgeRange]
    /\ UNCHANGED <<rows, nv, paired, failures, crashes, ownVars>>

DeleteNV ==
    /\ tool.pc \in {"delete", "purge"} /\ tool.todo # {}
    /\ LET i == Min(tool.todo)
       IN  /\ nv' = [nv EXCEPT ![i] = Undefined]
           /\ tool' = [tool EXCEPT !.todo = @ \ {i}]
    /\ UNCHANGED <<rows, paired, failures, crashes, ownVars>>

\* "Key delete ERROR!", and on with the next one.
DeleteFails ==
    /\ tool.pc \in {"delete", "purge"} /\ tool.todo # {} /\ failures < MaxFailures
    /\ failures' = failures + 1
    /\ tool' = [tool EXCEPT !.todo = @ \ {Min(@)}]
    /\ UNCHANGED <<rows, nv, paired, crashes, ownVars>>

\* BUG: peers.csv is kept.
BugEndReset ==
    /\ tool.pc \in {"delete", "purge"} /\ tool.todo = {}
    /\ paired' = {} /\ tool' = Idle
    /\ UNCHANGED <<rows, nv, failures, crashes, ownVars>>

EndReset ==
    /\ tool.pc \in {"delete", "purge"} /\ tool.todo = {}
    /\ rows' = {} /\ paired' = {} /\ tool' = Idle
    /\ UNCHANGED <<nv, failures, crashes, ownVars>>

----------------------------------------------------------------------------

\* The program is killed or the power is cut; nothing cleans up.
Crash ==
    /\ tool.pc # "idle" /\ crashes < MaxCrashes
    /\ crashes' = crashes + 1
    /\ tool' = Idle
    /\ UNCHANGED <<rows, nv, paired, failures, ownVars>>

Step == Scan \/ NVCreate \/ NVWrite \/ AppendRow \/ DeleteNV \/ EndReset \/ Keygen

Next == \/ \E k \in PubKeys : Confirm(k)
        \/ StartReset \/ StartKeygen \/ Step
        \/ StoreFails \/ DeleteFails \/ DeleteOwnFails \/ GenerateFails \/ Crash

SafetySpec == Init /\ [][Next]_vars

\* A program that is not interrupted goes on, and the operator repeats the
\* generation of the own key while it does not load, and the pairing of every
\* peer.
Spec == /\ SafetySpec /\ WF_vars(Step)
        /\ SF_vars(StartKeygen) /\ \A k \in PubKeys : SF_vars(Confirm(k))

----------------------------------------------------------------------------

\* Only a peer the operator confirmed is accepted: a complete reset forgets
\* every key even if the TPM refused to delete it, and an index that holds a
\* key from before the reset is never taken for trusted again.
AuthorizedWasPaired == \A k \in PubKeys : Authorized(k) => k \in paired

\* Pairing another peer, failing to, and being interrupted leave the peers
\* already accepted alone; only a reset takes one away.
OnlyResetRevokes ==
    [][\A k \in PubKeys :
          Authorized(k) /\ ~Authorized(k)' => tool.pc = "delete"]_vars

\* A row never leads to another peer's key, whatever was interrupted: its
\* index holds its key or was deleted.
RowsNeverSwapped == \A r \in rows : nv[r.id] \in {r.key, Undefined}

\* rsa_key_exchange_common.py:52, "Peer public key is already known!": a key
\* pairing takes for known is one a gateway accepts.
KnownIsAuthorized == tool.pc = "scan" /\ Known(tool.key) => Authorized(tool.key)

\* Unless the TPM refused to delete the old key, no half of it is ever left
\* beside a half of the new one, however many generations were cut short.
KeyOfOneRun == kept \/ own.second \in {0, own.first}

\* Whatever was interrupted or refused, repeating the generation of the own
\* key and the pairing succeeds, and the peer stays accepted.
EveryPeerJoins == \A k \in PubKeys : <>[]Authorized(k)
=============================================================================
