-------------------------- MODULE PeerStoreProofs --------------------------
(***************************************************************************)
(* Proofs of the safety properties of PeerStore, for any number of peers,  *)
(* NV indexes, failures and interruptions.                                 *)
(***************************************************************************)
EXTENDS PeerStore, WellFoundedInduction, TLAPS

\* A non-empty set of naturals has a minimum.
LEMMA MinOfNaturals ==
    ASSUME NEW S \in SUBSET Nat, S # {}
    PROVE  Min(S) \in S /\ \A y \in S : Min(S) <= y
<1> DEFINE Less == OpToRel(<, Nat)
<1>1. \A x, y \in Nat : x < y => <<x, y>> \in Less
  BY DEF OpToRel
<1>2. IsWellFoundedOn(Less, Nat)
  BY NatLessThanWellFounded
<1> HIDE DEF Less
<1>3. PICK m \in S : \A y \in S : ~(<<y, m>> \in Less)
  BY <1>2, WFMin
<1>4. \A y \in S : m <= y
  <2> SUFFICES ASSUME NEW y \in S PROVE ~(y < m)
    OBVIOUS
  <2>1. y \in Nat /\ m \in Nat /\ ~(<<y, m>> \in Less)
    BY <1>3
  <2> QED BY <1>1, <2>1
<1> QED BY <1>4 DEF Min

\* A non-empty set of bounded naturals has a maximum.
LEMMA MaxOfBounded ==
    ASSUME NEW n \in Nat, NEW S \in SUBSET (0..n), S # {}
    PROVE  Max(S) \in S /\ \A y \in S : y <= Max(S)
<1> DEFINE T == {n - x : x \in S}
<1>1. \A x \in S : x \in Nat /\ n - x \in Nat
  OBVIOUS
<1>2. T \in SUBSET Nat
  BY <1>1
<1>3. T # {}
  <2>1. PICK x \in S : TRUE
    OBVIOUS
  <2>2. n - x \in T
    OBVIOUS
  <2> QED BY <2>2
<1> HIDE DEF T
<1>4. Min(T) \in T /\ \A y \in T : Min(T) <= y
  BY <1>2, <1>3, MinOfNaturals
<1>5. PICK m \in S : Min(T) = n - m
  BY <1>4 DEF T
<1>6. \A y \in S : y <= m
  <2> SUFFICES ASSUME NEW y \in S PROVE y <= m
    OBVIOUS
  <2>1. n - y \in T
    BY DEF T
  <2>2. n - m <= n - y
    BY <1>4, <1>5, <2>1
  <2> QED BY <1>1, <2>2
<1> QED BY <1>6 DEF Max

\* The next index is above every row's.
LEMMA NewIDIsFree ==
    ASSUME rows \subseteq Row
    PROVE  NewID \in 1..(MaxIndex + 1) /\ \A r \in rows : r.id < NewID
<1> DEFINE S == {0} \cup {r.id : r \in rows}
<1>1. S \in SUBSET (0..MaxIndex) /\ S # {} /\ MaxIndex \in Nat
  BY IndexAssumption DEF Row, Indices
<1>2. \A r \in rows : r.id \in S
  OBVIOUS
<1>3. NewID = Max(S) + 1
  BY DEF NewID
<1> HIDE DEF S
<1>4. Max(S) \in S /\ \A y \in S : y <= Max(S)
  BY <1>1, MaxOfBounded
<1> DEFINE m == Max(S)
<1>5. m \in 0..MaxIndex /\ NewID = m + 1 /\ \A r \in rows : r.id \in 0..MaxIndex /\ r.id <= m
  BY <1>1, <1>2, <1>3, <1>4
<1> HIDE DEF m
<1> QED BY <1>1, <1>5

-----------------------------------------------------------------------------
(***************************************************************************)
(* The inductive invariant: besides the properties, what pairing has       *)
(* established at each of its steps.                                       *)
(***************************************************************************)
Pairing == tool.pc \in {"scan", "create", "write", "append"}
Storing == tool.pc \in {"create", "write", "append"}

PairingInv ==
    /\ Pairing => tool.key \in paired
    /\ Storing => ~Known(tool.key) /\ tool.id > 0 /\ \A r \in rows : r.id < tool.id
    /\ tool.pc \in {"write", "append"} => tool.id \in Indices
    /\ tool.pc = "append" => nv[tool.id] = tool.key

StoreInv ==
    /\ TypeOK
    /\ PairingInv
    /\ \A r \in rows : r.key \in paired
    /\ \A r, s \in rows : r.id = s.id => r = s
    /\ RowsNeverSwapped
    /\ tool.pc = "purge" => rows = {}
    /\ tool.pc \in {"deleteOwn", "generate"} => made < MaxKeys

\* What each step of rsa_keygen.py finds of the old key.
OwnInv ==
    /\ tool.pc \in {"generate", "writeFirst"} => kept \/ own = Blank
    /\ tool.pc = "writeSecond" => kept \/ own.second = 0
    /\ tool.pc \in {"writeFirst", "writeSecond"} => made > 0
    /\ tool.pc = "writeSecond" => own.first = made
    /\ KeyOfOneRun

KeygenPcs == {"deleteOwn", "generate", "writeFirst", "writeSecond"}

LEMMA StoreInit == Init => StoreInv
<1> SUFFICES ASSUME Init PROVE StoreInv
  OBVIOUS
<1>1. OwnTypeOK
  <2>1. own \in [first : 0..MaxKeys, second : 0..MaxKeys] /\ made \in 0..MaxKeys
    BY KeysAssumption DEF Init, Blank
  <2>2. kept \in BOOLEAN
    BY DEF Init
  <2> QED BY <2>1, <2>2 DEF OwnTypeOK
<1> QED
  BY <1>1, IndexAssumption, BoundAssumption
  DEF Init, StoreInv, TypeOK, PairingInv, Pairing, Storing, RowsNeverSwapped, ToolState, Idle,
      Pcs, Row, Indices

LEMMA IdleType == Idle \in ToolState
BY IndexAssumption DEF Idle, ToolState, Pcs

\* A program that ends or is interrupted leaves nothing to show.
LEMMA ToolEnds ==
    ASSUME StoreInv, tool' = Idle, UNCHANGED peerVars, OwnTypeOK',
           failures' \in 0..MaxFailures, crashes' \in 0..MaxCrashes
    PROVE  StoreInv'
BY IdleType
DEF StoreInv, TypeOK, PairingInv, Pairing, Storing, RowsNeverSwapped, Idle, Known, peerVars

\* Nor does the generation of an own key.
LEMMA KeygenMoves ==
    ASSUME StoreInv, tool' \in ToolState, tool'.pc \in KeygenPcs, UNCHANGED peerVars,
           OwnTypeOK', failures' \in 0..MaxFailures, UNCHANGED crashes,
           tool'.pc \in {"deleteOwn", "generate"} => made' < MaxKeys
    PROVE  StoreInv'
BY DEF StoreInv, TypeOK, PairingInv, Pairing, Storing, RowsNeverSwapped, Known, peerVars, KeygenPcs

LEMMA OwnTypeStays == ASSUME OwnTypeOK, UNCHANGED ownVars PROVE OwnTypeOK'
BY DEF OwnTypeOK, ownVars

LEMMA StoreNext == StoreInv /\ [Next]_vars => StoreInv'
<1> SUFFICES ASSUME StoreInv, [Next]_vars PROVE StoreInv'
  OBVIOUS
<1> USE IndexAssumption, BoundAssumption
<1>0. TypeOK /\ tool \in ToolState /\ OwnTypeOK
  BY DEF StoreInv, TypeOK
<1>00. UNCHANGED ownVars => OwnTypeOK'
  BY <1>0, OwnTypeStays
<1>1. CASE UNCHANGED vars
  <2>1. UNCHANGED <<rows, nv, paired, tool, made, failures, crashes>> /\ UNCHANGED ownVars
    BY <1>1 DEF vars, peerVars, ownVars
  <2> QED
    BY <1>00, <2>1
    DEF StoreInv, TypeOK, PairingInv, Pairing, Storing, RowsNeverSwapped, Known
<1>2. ASSUME NEW k \in PubKeys, Confirm(k) PROVE StoreInv'
  <2>1. tool' \in ToolState /\ tool'.pc = "scan" /\ tool'.key = k
    BY <1>2, IdleType DEF Confirm, Idle, ToolState, Pcs
  <2> QED
    BY <1>00, <1>2, <2>1
    DEF Confirm, StoreInv, TypeOK, PairingInv, Pairing, Storing, RowsNeverSwapped
<1>3. CASE Scan
  <2>1. CASE Known(tool.key)
    BY <1>00, <1>3, <2>1, ToolEnds DEF Scan, peerVars, StoreInv, TypeOK
  <2>2. CASE ~Known(tool.key)
    <3>1. NewID \in 1..(MaxIndex + 1) /\ \A r \in rows : r.id < NewID
      BY <1>0, NewIDIsFree DEF TypeOK
    <3>2. /\ tool' \in ToolState /\ tool'.pc = "create"
          /\ tool'.key = tool.key /\ tool'.id = NewID
      <4>1. NewID \in 0..(MaxIndex + 1)
        BY <3>1
      <4>2. tool' = [tool EXCEPT !.pc = "create", !.id = NewID]
        BY <1>3, <2>2 DEF Scan
      <4> QED BY <1>0, <4>1, <4>2 DEF ToolState, Pcs
    <3> QED
      BY <1>00, <1>3, <2>2, <3>1, <3>2
      DEF Scan, StoreInv, TypeOK, PairingInv, Pairing, Storing, RowsNeverSwapped, Known
  <2> QED BY <2>1, <2>2
<1>4. CASE NVCreate
  <2>1. CASE tool.id \in Indices
    <3>1. /\ tool' \in ToolState /\ tool'.pc = "write"
          /\ tool'.key = tool.key /\ tool'.id = tool.id
      BY <1>0, <1>4, <2>1 DEF NVCreate, ToolState, Pcs
    <3>2. nv' \in [Indices -> PubKeys \cup {Undefined, Unwritten}]
          /\ \A i \in Indices : i # tool.id => nv'[i] = nv[i]
      BY <1>0, <1>4, <2>1 DEF NVCreate, TypeOK
    <3>3. \A r \in rows : r.id \in Indices /\ r.id # tool.id
      BY <1>0, <1>4, <2>1 DEF NVCreate, StoreInv, PairingInv, Storing, TypeOK, Row, Indices
    <3> QED
      BY <1>00, <1>4, <2>1, <3>1, <3>2, <3>3
      DEF NVCreate, StoreInv, TypeOK, PairingInv, Pairing, Storing, RowsNeverSwapped, Known
  <2>2. CASE tool.id \notin Indices
    BY <1>00, <1>4, <2>2, ToolEnds DEF NVCreate, peerVars, StoreInv, TypeOK
  <2> QED BY <2>1, <2>2
<1>5. CASE NVWrite
  <2>1. /\ tool' \in ToolState /\ tool'.pc = "append"
        /\ tool'.key = tool.key /\ tool'.id = tool.id
    BY <1>0, <1>5 DEF NVWrite, ToolState, Pcs
  <2>2. tool.id \in Indices /\ tool.key \in PubKeys
    BY <1>0, <1>5 DEF NVWrite, StoreInv, PairingInv, Pairing, TypeOK
  <2>3. /\ nv' \in [Indices -> PubKeys \cup {Undefined, Unwritten}]
        /\ nv'[tool.id] = tool.key
        /\ \A i \in Indices : i # tool.id => nv'[i] = nv[i]
    BY <1>0, <1>5, <2>2 DEF NVWrite, TypeOK
  <2>4. \A r \in rows : r.id \in Indices /\ r.id # tool.id
    BY <1>0, <1>5, <2>2 DEF NVWrite, StoreInv, PairingInv, Storing, TypeOK, Row, Indices
  <2> QED
    BY <1>00, <1>5, <2>1, <2>2, <2>3, <2>4
    DEF NVWrite, StoreInv, TypeOK, PairingInv, Pairing, Storing, RowsNeverSwapped, Known
<1>6. CASE StoreFails
  <2>1. failures' \in 0..MaxFailures
    BY <1>0, <1>6 DEF StoreFails, TypeOK, ownVars
  <2> QED BY <1>0, <1>00, <1>6, <2>1, ToolEnds DEF StoreFails, peerVars, TypeOK
<1>7. CASE AppendRow
  <2> DEFINE row == [key |-> tool.key, id |-> tool.id]
  <2>1. /\ tool.id \in Indices /\ tool.key \in paired /\ tool.key \in PubKeys
        /\ nv[tool.id] = tool.key /\ \A r \in rows : r.id < tool.id
    BY <1>0, <1>7 DEF AppendRow, StoreInv, PairingInv, Pairing, Storing, TypeOK
  <2>2. row \in Row /\ row.id = tool.id /\ row.key = tool.key
    BY <2>1 DEF Row
  <2>3. \A r \in rows : r.id # row.id
    BY <1>0, <2>1, <2>2 DEF TypeOK, Row, Indices
  <2>4. /\ rows' = rows \cup {row} /\ tool' = Idle
        /\ UNCHANGED <<nv, paired, failures, crashes>> /\ UNCHANGED ownVars
    BY <1>7 DEF AppendRow
  <2> HIDE DEF row
  <2> QED
    BY <1>0, <1>00, <2>1, <2>2, <2>3, <2>4, IdleType
    DEF StoreInv, TypeOK, PairingInv, Pairing, Storing, RowsNeverSwapped, Idle
<1>8. CASE StartReset
  <2>1. /\ tool' \in ToolState /\ tool'.pc \in {"delete", "purge"}
        /\ tool'.pc = "purge" => rows = {}
    <3>1. {r.id : r \in rows} \in SUBSET Indices
      BY <1>0 DEF TypeOK, Row
    <3>2. \A S \in SUBSET Indices :
            /\ [Idle EXCEPT !.pc = "delete", !.todo = S] \in ToolState
            /\ [Idle EXCEPT !.pc = "purge", !.todo = S] \in ToolState
      BY IdleType DEF ToolState, Pcs
    <3>3. \A S : /\ [Idle EXCEPT !.pc = "delete", !.todo = S].pc = "delete"
                /\ [Idle EXCEPT !.pc = "purge", !.todo = S].pc = "purge"
      BY DEF Idle
    <3> QED BY <1>8, <3>1, <3>2, <3>3 DEF StartReset
  <2> QED
    BY <1>00, <1>8, <2>1
    DEF StartReset, StoreInv, TypeOK, PairingInv, Pairing, Storing, RowsNeverSwapped
\* A key of the reset taken off its list, deleted or not.
<1>9. ASSUME NEW i \in tool.todo, tool.pc \in {"delete", "purge"},
             tool' = [tool EXCEPT !.todo = @ \ {i}],
             nv' = nv \/ nv' = [nv EXCEPT ![i] = Undefined],
             UNCHANGED <<rows, paired, crashes>>, UNCHANGED ownVars, failures' \in 0..MaxFailures
      PROVE  StoreInv'
  <2>1. tool' \in ToolState /\ tool'.pc = tool.pc
    BY <1>0, <1>9 DEF ToolState
  <2>2. nv' \in [Indices -> PubKeys \cup {Undefined, Unwritten}]
        /\ \A j \in Indices : nv'[j] \in {nv[j], Undefined}
    BY <1>0, <1>9 DEF TypeOK
  <2>3. \A r \in rows : r.id \in Indices
    BY <1>0 DEF TypeOK, Row
  <2> QED
    BY <1>00, <1>9, <2>1, <2>2, <2>3
    DEF StoreInv, TypeOK, PairingInv, Pairing, Storing, RowsNeverSwapped
<1>10. ASSUME tool.todo # {} PROVE Min(tool.todo) \in tool.todo
  <2>1. tool.todo \in SUBSET Nat
    BY <1>0 DEF ToolState, Indices
  <2> QED BY <1>10, <2>1, MinOfNaturals
<1>11. CASE DeleteNV
  BY <1>9, <1>10, <1>11 DEF DeleteNV, StoreInv, TypeOK
<1>12. CASE DeleteFails
  <2>1. failures' \in 0..MaxFailures
    BY <1>0, <1>12 DEF DeleteFails, TypeOK
  <2> QED BY <1>9, <1>10, <1>12, <2>1 DEF DeleteFails
<1>13. CASE EndReset
  BY <1>00, <1>13, IdleType
  DEF EndReset, StoreInv, TypeOK, PairingInv, Pairing, Storing, RowsNeverSwapped, Idle, Known
<1>14. CASE Crash
  <2>1. crashes' \in 0..MaxCrashes
    BY <1>0, <1>14 DEF Crash, TypeOK
  <2> QED BY <1>0, <1>00, <1>14, <2>1, ToolEnds DEF Crash, peerVars, TypeOK
\* The steps of rsa_keygen.py.
<1>15. \A pc \in KeygenPcs : /\ [tool EXCEPT !.pc = pc] \in ToolState
                             /\ [tool EXCEPT !.pc = pc].pc = pc
  BY <1>0 DEF KeygenPcs, ToolState, Pcs
<1>16. CASE StartKeygen
  <2>1. tool' \in ToolState /\ tool'.pc = "deleteOwn"
    BY <1>16, IdleType DEF StartKeygen, Idle, ToolState, Pcs
  <2> QED BY <1>0, <1>00, <1>16, <2>1, KeygenMoves DEF StartKeygen, KeygenPcs, TypeOK, ownVars
<1>17. CASE DeleteOwn \/ DeleteOwnFails
  <2>1. OwnTypeOK'
    <3>1. own' \in [first : 0..MaxKeys, second : 0..MaxKeys] /\ made' \in 0..MaxKeys
      BY <1>0, <1>17, KeysAssumption DEF DeleteOwn, DeleteOwnFails, OwnTypeOK, Blank
    <3>2. kept' \in BOOLEAN
      BY <1>17 DEF DeleteOwn, DeleteOwnFails
    <3> QED BY <3>1, <3>2 DEF OwnTypeOK
  <2>3. failures' \in 0..MaxFailures
    BY <1>0, <1>17 DEF DeleteOwn, DeleteOwnFails, TypeOK
  <2>2. tool' \in ToolState /\ tool'.pc = "generate"
    BY <1>15, <1>17 DEF DeleteOwn, DeleteOwnFails, KeygenPcs
  <2> QED BY <1>17, <2>1, <2>2, <2>3, KeygenMoves DEF DeleteOwn, DeleteOwnFails, KeygenPcs, StoreInv
<1>18. CASE Generate
  <2>1. OwnTypeOK'
    <3>1. made < MaxKeys
      BY <1>18 DEF Generate, StoreInv
    <3> QED BY <1>0, <1>18, <3>1, KeysAssumption DEF Generate, OwnTypeOK, ownVars
  <2>2. tool' \in ToolState /\ tool'.pc = "writeFirst"
    BY <1>15, <1>18 DEF Generate, KeygenPcs
  <2> QED BY <1>0, <1>18, <2>1, <2>2, KeygenMoves DEF Generate, KeygenPcs, TypeOK
<1>19. CASE WriteFirst
  <2>1. OwnTypeOK'
    BY <1>0, <1>19 DEF WriteFirst, OwnTypeOK
  <2>2. tool' \in ToolState /\ tool'.pc = "writeSecond"
    BY <1>15, <1>19 DEF WriteFirst, KeygenPcs
  <2> QED BY <1>0, <1>19, <2>1, <2>2, KeygenMoves DEF WriteFirst, KeygenPcs, TypeOK
<1>20. CASE WriteSecond
  <2>1. OwnTypeOK'
    BY <1>0, <1>20 DEF WriteSecond, OwnTypeOK
  <2> QED BY <1>0, <1>20, <2>1, ToolEnds DEF WriteSecond, TypeOK
<1>21. CASE GenerateFails
  <2>1. failures' \in 0..MaxFailures
    BY <1>0, <1>21 DEF GenerateFails, TypeOK
  <2> QED BY <1>0, <1>00, <1>21, <2>1, ToolEnds DEF GenerateFails, TypeOK
<1> QED
  BY <1>1, <1>2, <1>3, <1>4, <1>5, <1>6, <1>7, <1>8, <1>11, <1>12, <1>13, <1>14,
     <1>16, <1>17, <1>18, <1>19, <1>20, <1>21
  DEF Next, Step, Keygen

LEMMA StoreInvariant == SafetySpec => []StoreInv
BY StoreInit, StoreNext, PTL DEF SafetySpec

LEMMA OwnInit == Init => OwnInv
BY DEF Init, OwnInv, KeyOfOneRun, Blank, Idle

LEMMA OwnNext == StoreInv /\ OwnInv /\ [Next]_vars => OwnInv'
<1> SUFFICES ASSUME StoreInv, OwnInv, [Next]_vars PROVE OwnInv'
  OBVIOUS
<1> USE KeysAssumption DEF OwnInv, KeyOfOneRun
<1>1. tool \in ToolState /\ OwnTypeOK
  BY DEF StoreInv, TypeOK
<1>2. ASSUME UNCHANGED ownVars, tool'.pc \in {tool.pc} \cup {"idle", "deleteOwn"}
             \/ tool'.pc \notin KeygenPcs
      PROVE  OwnInv'
  BY <1>2 DEF ownVars, KeygenPcs
<1>3. CASE UNCHANGED vars
  BY <1>2, <1>3 DEF vars
<1>4. CASE DeleteOwn
  BY <1>1, <1>4 DEF DeleteOwn, Blank, ToolState
<1>5. CASE DeleteOwnFails
  BY <1>1, <1>5 DEF DeleteOwnFails, ToolState
<1>6. CASE Generate
  BY <1>1, <1>6 DEF Generate, ToolState, OwnTypeOK
<1>7. CASE WriteFirst
  BY <1>1, <1>7 DEF WriteFirst, ToolState, OwnTypeOK, Blank
<1>8. CASE WriteSecond
  BY <1>1, <1>8 DEF WriteSecond, ToolState, OwnTypeOK, Idle
<1>9. CASE StartKeygen \/ GenerateFails
  <2>1. UNCHANGED ownVars /\ tool'.pc \in {"deleteOwn", "idle"}
    BY <1>9 DEF StartKeygen, GenerateFails, Idle
  <2> QED BY <1>2, <2>1
<1>10. ASSUME \/ \E k \in PubKeys : Confirm(k)
              \/ StartReset \/ Scan \/ NVCreate \/ NVWrite \/ AppendRow \/ DeleteNV
              \/ EndReset \/ StoreFails \/ DeleteFails \/ Crash
       PROVE  OwnInv'
  <2>1. UNCHANGED ownVars
    BY <1>10
    DEF Confirm, StartReset, Scan, NVCreate, NVWrite, AppendRow, DeleteNV, EndReset,
        StoreFails, DeleteFails, Crash
  <2>2. tool'.pc \notin KeygenPcs
    <3> Idle.pc = "idle"
      BY DEF Idle
    <3>1. ASSUME NEW k \in PubKeys, Confirm(k) PROVE tool'.pc \notin KeygenPcs
      <4>1. tool'.pc = "scan"
        BY <3>1 DEF Confirm, Idle
      <4> QED BY <4>1 DEF KeygenPcs
    <3>2. CASE AppendRow \/ EndReset \/ StoreFails \/ Crash
      BY <3>2 DEF AppendRow, EndReset, StoreFails, Crash, KeygenPcs
    <3>5. CASE StartReset
      <4>1. tool'.pc \in {"delete", "purge"}
        BY <3>5 DEF StartReset, Idle
      <4> QED BY <4>1 DEF KeygenPcs
    <3>3. CASE Scan \/ NVCreate \/ NVWrite
      BY <1>1, <3>3 DEF Scan, NVCreate, NVWrite, Idle, ToolState, KeygenPcs
    <3>4. CASE DeleteNV \/ DeleteFails
      BY <1>1, <3>4 DEF DeleteNV, DeleteFails, ToolState, KeygenPcs
    <3> QED BY <1>10, <3>1, <3>2, <3>3, <3>4, <3>5
  <2> QED BY <1>2, <2>1, <2>2
<1> QED
  BY <1>3, <1>4, <1>5, <1>6, <1>7, <1>8, <1>9, <1>10 DEF Next, Step, Keygen

\* The programs' variables keep their types, for any number of peers,
\* indexes, generations, failures and interruptions.
THEOREM StoreTypeCorrect == SafetySpec => []TypeOK
BY StoreInvariant, PTL DEF StoreInv

\* A half of an old key beside a half of the new one means that the TPM
\* refused to delete the old one, however often rsa_keygen.py was cut short.
THEOREM HalvesMatch == SafetySpec => []KeyOfOneRun
<1>1. OwnInv => KeyOfOneRun
  BY DEF OwnInv
<1> QED BY <1>1, OwnInit, OwnNext, StoreInvariant, PTL DEF SafetySpec

\* As long as no keyvault_reset.py runs, a key that pairing takes for known
\* is one a gateway accepts, however often pairing was cut short.
THEOREM KnownWithoutResets ==
    ASSUME Resets = FALSE
    PROVE  SafetySpec => []KnownIsAuthorized
<1> DEFINE Led == /\ tool.pc \notin {"delete", "purge"}
                  /\ \A r \in rows : nv[r.id] = r.key
<1>1. Init => Led
  BY DEF Init, Idle
<1>2. StoreInv /\ Led /\ [Next]_vars => Led'
  <2> SUFFICES ASSUME StoreInv, Led, [Next]_vars PROVE Led'
    OBVIOUS
  <2>1. tool \in ToolState /\ \A r \in rows : r.id \in Indices
    BY DEF StoreInv, TypeOK, Row
  <2>2. CASE UNCHANGED <<rows, nv>> /\ tool'.pc \notin {"delete", "purge"}
    BY <2>2
  <2>3. CASE NVCreate \/ NVWrite
    <3>1. \A r \in rows : nv'[r.id] = nv[r.id]
      <4>1. \A r \in rows : r.id # tool.id
        BY <2>1, <2>3 DEF NVCreate, NVWrite, StoreInv, PairingInv, Storing, ToolState, Indices
      <4> QED BY <2>1, <2>3, <4>1 DEF NVCreate, NVWrite, StoreInv, TypeOK
    <3>2. rows' = rows /\ tool'.pc \notin {"delete", "purge"}
      BY <2>1, <2>3 DEF NVCreate, NVWrite, Idle, ToolState
    <3> QED BY <3>1, <3>2
  <2>4. CASE AppendRow
    <3>1. nv[tool.id] = tool.key
      BY <2>4 DEF AppendRow, StoreInv, PairingInv
    <3>2. tool'.pc = "idle" /\ nv' = nv
      BY <2>4 DEF AppendRow, Idle
    <3> QED BY <2>4, <3>1, <3>2 DEF AppendRow
  <2>5. ASSUME NEW k \in PubKeys, Confirm(k) PROVE Led'
    <3>1. tool'.pc = "scan" /\ UNCHANGED <<rows, nv>>
      BY <2>5 DEF Confirm, Idle
    <3> QED BY <2>2, <3>1
  <2>6. CASE Scan \/ StoreFails \/ Crash
    <3>1. UNCHANGED <<rows, nv>>
      BY <2>6 DEF Scan, StoreFails, Crash
    <3>2. tool' \in {Idle, [tool EXCEPT !.pc = "create", !.id = NewID]}
      BY <2>6 DEF Scan, StoreFails, Crash
    <3>3. Idle.pc = "idle" /\ [tool EXCEPT !.pc = "create", !.id = NewID].pc = "create"
      BY <2>1 DEF Idle, ToolState
    <3> QED BY <2>2, <3>1, <3>2, <3>3
  <2>7. CASE StartKeygen \/ Keygen \/ DeleteOwnFails \/ GenerateFails
    <3>1. UNCHANGED <<rows, nv>>
      BY <2>7
      DEF StartKeygen, Keygen, DeleteOwn, Generate, WriteFirst, WriteSecond, DeleteOwnFails,
          GenerateFails, peerVars
    <3>2. tool'.pc \in KeygenPcs \cup {"idle"}
      BY <2>1, <2>7
      DEF StartKeygen, Keygen, DeleteOwn, Generate, WriteFirst, WriteSecond, DeleteOwnFails,
          GenerateFails, Idle, ToolState, KeygenPcs
    <3> QED BY <2>2, <3>1, <3>2 DEF KeygenPcs
  <2>8. CASE UNCHANGED vars
    BY <2>2, <2>8 DEF vars, peerVars
  <2>9. ~StartReset /\ ~DeleteNV /\ ~EndReset /\ ~DeleteFails
    BY DEF StartReset, DeleteNV, EndReset, DeleteFails
  <2> QED BY <2>3, <2>4, <2>5, <2>6, <2>7, <2>8, <2>9 DEF Next, Step
<1>3. Led => KnownIsAuthorized
  BY DEF KnownIsAuthorized, Known, Authorized
<1> QED BY <1>1, <1>2, <1>3, StoreInvariant, PTL DEF SafetySpec

\* However pairing and reset are interrupted or refused by the TPM, a row of
\* peers.csv never leads to another peer's key.
THEOREM RowsKeepTheirKeys == SafetySpec => []RowsNeverSwapped
BY StoreInvariant, PTL DEF StoreInv

\* A gateway only accepts a peer that the operator confirmed after the last
\* complete reset.
THEOREM OnlyPairedAreAuthorized == SafetySpec => []AuthorizedWasPaired
<1>1. StoreInv => AuthorizedWasPaired
  BY DEF StoreInv, AuthorizedWasPaired, Authorized
<1> QED BY <1>1, StoreInvariant, PTL

\* Nothing but the deletions of a reset takes an accepted peer away.
THEOREM PairingRevokesNothing == SafetySpec => OnlyResetRevokes
<1> DEFINE Kept == \A k \in PubKeys :
                      Authorized(k) /\ ~Authorized(k)' => tool.pc = "delete"
<1>1. StoreInv /\ StoreInv' /\ [Next]_vars => [Kept]_vars
  <2> SUFFICES ASSUME StoreInv, StoreInv', Next,
                      NEW k \in PubKeys, Authorized(k), tool.pc # "delete"
               PROVE  Authorized(k)'
    OBVIOUS
  <2>1. PICK r \in rows : r.key = k /\ nv[r.id] = k
    BY DEF Authorized
  <2>2. r.id \in Indices /\ tool.pc # "purge"
    BY <2>1 DEF StoreInv, TypeOK, Row
  <2>3. r \in rows'
    BY <2>1, <2>2
    DEF Next, Step, Confirm, StartReset, Scan, NVCreate, NVWrite, AppendRow, DeleteNV, EndReset,
        StoreFails, DeleteFails, Crash, StartKeygen, Keygen, DeleteOwn, Generate, WriteFirst,
        WriteSecond, DeleteOwnFails, GenerateFails, peerVars
  <2>4. nv'[r.id] = nv[r.id]
    <3>1. tool.pc \in {"create", "write"} => tool.id # r.id
      BY <2>1, <2>2 DEF StoreInv, PairingInv, Storing, TypeOK, ToolState, Indices
    <3> QED
      BY <2>2, <3>1
      DEF Next, Step, Confirm, StartReset, Scan, NVCreate, NVWrite, AppendRow, DeleteNV, EndReset,
          StoreFails, DeleteFails, Crash, StartKeygen, Keygen, DeleteOwn, Generate, WriteFirst,
          WriteSecond, DeleteOwnFails, GenerateFails, peerVars, StoreInv, TypeOK
  <2> QED BY <2>1, <2>3, <2>4 DEF Authorized
<1> QED BY <1>1, StoreInvariant, PTL DEF SafetySpec, OnlyResetRevokes
=============================================================================
