-------------------------- MODULE Controls_proofs ---------------------------
(***************************************************************************)
(* Proofs about what guards an adapter and a Git connection: the signing   *)
(* keys, the status connector and the OAuth credential, each for any number*)
(* of calls that cross.  They share no variable with one another or with   *)
(* the reservations they are checked beside.                               *)
(***************************************************************************)
EXTENDS MCControls, HarnessReservations_proofs


-----------------------------------------------------------------------------
(***************************************************************************)
(* The signing keys of an adapter, for any overlaps and lifetimes: the     *)
(* type, the order of the keys, and that a barred key never verifies.      *)
(***************************************************************************)
Rotations == [at : {"idle", "reading"}, read : KeyTimes, version : Versions,
              grace : Graces \cup {0}, key : KeyRows]
KeyLookups == [at : {"idle", "reading", "fetching"}, read : KeyTimes,
               barred : SUBSET Versions, found : SUBSET Versions]

LEMMA Numbers ==
  /\ Horizon \in Nat /\ Never = Horizon + 1 /\ MaxVersion \in Nat \ {0}
  /\ Graces \cup {0} \subseteq Nat /\ Lifetimes \subseteq Nat
  /\ 0 \in KeyTimes /\ 1 \in Versions /\ KeyTimes \subseteq Nat /\ Versions \subseteq Nat
BY SigningAssumption DEF Never, KeyTimes, Versions

LEMMA EarlierType == \A s, t \in Nat : Earlier(s, t) \in Nat /\ Earlier(s, t) <= s /\ Earlier(s, t) <= t
BY DEF Earlier

LEMMA EmptyRows == NoKey \in KeyRows /\ NoRotation \in Rotations /\ NoLookup \in KeyLookups
<1>1. NoKey \in KeyRows
  BY Numbers DEF NoKey, KeyRows
<1> QED
  BY <1>1, Numbers DEF NoRotation, Rotations, NoLookup, KeyLookups

LEMMA KeysTypeInit == KeysInit => KeysTypeOK
BY Numbers, EmptyRows DEF KeysInit, KeysTypeOK, Rotations, KeyLookups

(* The row of a replaced key is a key row, not later than it was. *)
LEMMA RetiredType ==
  ASSUME NEW key \in KeyRows, NEW at \in KeyTimes, NEW grace \in Graces \cup {0}
  PROVE  /\ Retired(key, at, grace) \in KeyRows
         /\ Retired(key, at, grace).status \in {"retiring", "revoked"}
         /\ Retired(key, at, grace).status = "retiring" =>
              /\ Retired(key, at, grace).expires <= key.expires
              /\ Retired(key, at, grace).expires <= at + grace
<1>1. key.expires \in Nat /\ at + grace \in Nat
  BY Numbers DEF KeyRows
<1>2. CASE grace = 0
  BY <1>2 DEF Retired, KeyRows
<1>3. CASE grace # 0
  <2> DEFINE s == IF key.expires > at THEN "retiring" ELSE "revoked"
             x == Earlier(key.expires, at + grace)
  <2>1. x \in Nat /\ x <= key.expires /\ x <= at + grace
    BY <1>1, EarlierType
  <2>2. Retired(key, at, grace) = [key EXCEPT !.status = s, !.expires = x]
    BY <1>3 DEF Retired
  <2>3. s \in {"retiring", "revoked"}
    OBVIOUS
  <2> HIDE DEF s, x
  <2> QED
    BY <2>1, <2>2, <2>3 DEF KeyRows
<1> QED
  BY <1>2, <1>3

(* The rows after a rotation, one version at a time. *)
LEMMA RotationRows ==
  ASSUME KeysTypeOK, NEW a \in KeyAdmins, NEW v \in Versions
  PROVE  LET call == rotation[a] IN
         /\ AfterRotation(call)[v] \in KeyRows
         /\ v = call.version => AfterRotation(call)[v] = call.key
         /\ v # call.version /\ keys[v].status = "active" =>
              AfterRotation(call)[v] = Retired(keys[v], call.read, call.grace)
         /\ v # call.version /\ keys[v].status # "active" =>
              AfterRotation(call)[v].status \in {"none", "revoked"} 
         /\ v # call.version => (AfterRotation(call)[v].status = "none" <=> keys[v].status = "none")
<1> DEFINE call == rotation[a]
<1>1. call \in Rotations /\ keys[v] \in KeyRows
  BY DEF KeysTypeOK, Rotations
<1>2. /\ call.read \in KeyTimes /\ call.grace \in Graces \cup {0} /\ call.key \in KeyRows
  BY <1>1 DEF Rotations
<1>3. AfterRotation(call)[v] =
        IF v = call.version THEN call.key
        ELSE CASE keys[v].status = "retiring" -> [keys[v] EXCEPT !.status = "revoked"]
               [] keys[v].status = "active" -> Retired(keys[v], call.read, call.grace)
               [] OTHER -> keys[v]
  BY DEF AfterRotation
<1>4. /\ Retired(keys[v], call.read, call.grace) \in KeyRows
      /\ Retired(keys[v], call.read, call.grace).status \in {"retiring", "revoked"}
  BY <1>1, <1>2, RetiredType
<1>5. /\ [keys[v] EXCEPT !.status = "revoked"] \in KeyRows
      /\ [keys[v] EXCEPT !.status = "revoked"].status = "revoked"
  BY <1>1 DEF KeyRows
<1>6. keys[v].status \in {"none", "active", "retiring", "revoked"}
  BY <1>1 DEF KeyRows
<1>7. CASE v = call.version
  BY <1>2, <1>3, <1>7
<1>8. CASE v # call.version /\ keys[v].status = "active"
  BY <1>3, <1>4, <1>8
<1>9. CASE v # call.version /\ keys[v].status = "retiring"
  BY <1>3, <1>5, <1>9
<1>10. CASE v # call.version /\ keys[v].status \in {"none", "revoked"}
  BY <1>1, <1>3, <1>10
<1> QED
  BY <1>6, <1>7, <1>8, <1>9, <1>10

(* From when the keys must not verify, after a rotation. *)
LEMMA RotationUntil ==
  ASSUME KeysTypeOK, NEW a \in KeyAdmins, CommitActivate(a), NEW v \in Versions
  PROVE  /\ until'[v] \in Nat /\ until'[v] <= until[v]
         /\ keys[v].status \notin {"active", "retiring"} => until'[v] = until[v]
         /\ keys[v].status = "active" => until'[v] = Earlier(until[v], keyClock + rotation[a].grace)
<1>1. /\ until[v] \in Nat /\ keyClock \in Nat /\ keyClock + rotation[a].grace \in Nat
      /\ keys[v].status \in {"none", "active", "retiring", "revoked"}
  BY Numbers DEF KeysTypeOK, KeyRows
<1>2. until'[v] = CASE keys[v].status = "retiring" -> Earlier(until[v], keyClock)
                    [] keys[v].status = "active" -> Earlier(until[v], keyClock + rotation[a].grace)
                    [] OTHER -> until[v]
  BY DEF CommitActivate
<1>3. CASE keys[v].status = "retiring"
  BY <1>1, <1>2, <1>3, EarlierType
<1>4. CASE keys[v].status = "active"
  BY <1>1, <1>2, <1>4, EarlierType
<1>5. CASE keys[v].status \in {"none", "revoked"}
  BY <1>1, <1>2, <1>5
<1> QED
  BY <1>1, <1>3, <1>4, <1>5

LEMMA CommitType ==
  ASSUME KeysTypeOK, NEW a \in KeyAdmins, CommitActivate(a)
  PROVE  KeysTypeOK'
<1>1. keys' = AfterRotation(rotation[a]) /\ UNCHANGED <<keyClock, lookup>>
  BY DEF CommitActivate
<1>2. \A v \in Versions : AfterRotation(rotation[a])[v] \in KeyRows
  BY RotationRows
<1>3. keys' \in [Versions -> KeyRows]
  BY <1>1, <1>2 DEF AfterRotation
<1>4. until' \in [Versions -> Nat]
  <2>1. \A v \in Versions : until'[v] \in Nat
    BY RotationUntil
  <2> QED
    BY <2>1 DEF CommitActivate
<1>5. rotation' \in [KeyAdmins -> Rotations]
  BY EmptyRows DEF CommitActivate, KeysTypeOK, Rotations
<1> QED
  BY <1>1, <1>3, <1>4, <1>5 DEF KeysTypeOK, Rotations

LEMMA BeginActivateType ==
  ASSUME KeysTypeOK, NEW a \in KeyAdmins, BeginActivate(a)
  PROVE  KeysTypeOK' /\ rotation'[a].read = keyClock
         /\ \A b \in KeyAdmins : b # a => rotation'[b] = rotation[b]
<1>1. PICK v \in Versions, grace \in Graces, life \in Lifetimes, early \in Antedates :
        /\ early <= keyClock
        /\ rotation' = [rotation EXCEPT ![a] =
             [at |-> "reading", read |-> keyClock, version |-> v, grace |-> grace,
              key |-> [status |-> "active", notBefore |-> keyClock - early,
                       expires |-> keyClock + life]]]
  BY Zenon DEF BeginActivate
<1> DEFINE from == keyClock - early
<1>2. keyClock \in KeyTimes /\ from \in KeyTimes /\ keyClock + life \in Nat
  BY <1>1, SigningAssumption, Numbers DEF KeysTypeOK, KeyTimes
<1> HIDE DEF from
<1>3. [status |-> "active", notBefore |-> from, expires |-> keyClock + life] \in KeyRows
  BY <1>2 DEF KeyRows
<1>4. [at |-> "reading", read |-> keyClock, version |-> v, grace |-> grace,
       key |-> [status |-> "active", notBefore |-> from, expires |-> keyClock + life]] \in Rotations
  BY <1>2, <1>3 DEF Rotations
<1>5. rotation \in [KeyAdmins -> Rotations]
  BY DEF KeysTypeOK, Rotations
<1>6. rotation' = [rotation EXCEPT ![a] =
         [at |-> "reading", read |-> keyClock, version |-> v, grace |-> grace,
          key |-> [status |-> "active", notBefore |-> from, expires |-> keyClock + life]]]
  BY <1>1 DEF from
<1>7. rotation' \in [KeyAdmins -> Rotations]
  BY <1>4, <1>5, <1>6
<1> QED
  BY <1>5, <1>6, <1>7, Zenon DEF BeginActivate, KeysTypeOK, Rotations

LEMMA RevokeType ==
  ASSUME KeysTypeOK, NEW v \in Versions, Revoke(v)
  PROVE  /\ KeysTypeOK'
         /\ keys'[v].status = "revoked" /\ \A u \in Versions : u # v => keys'[u] = keys[u]
         /\ \A u \in Versions : until'[u] <= until[u] /\ (u # v => until'[u] = until[u])
<1> DEFINE row == [keys[v] EXCEPT !.status = "revoked"]
<1>1. row \in KeyRows /\ row.status = "revoked"
  BY DEF KeysTypeOK, KeyRows
<1>2. keys' = [keys EXCEPT ![v] = row]
  BY DEF Revoke, KeysTypeOK
<1> HIDE DEF row
<1>3. /\ keys' \in [Versions -> KeyRows] /\ keys'[v].status = "revoked"
      /\ \A u \in Versions : u # v => keys'[u] = keys[u]
  BY <1>1, <1>2 DEF KeysTypeOK
<1>4. /\ until[v] \in Nat /\ keyClock \in Nat
      /\ Earlier(until[v], keyClock) \in Nat /\ Earlier(until[v], keyClock) <= until[v]
  BY Numbers, EarlierType DEF KeysTypeOK
<1>5. until' = [until EXCEPT ![v] = Earlier(until[v], keyClock)]
  BY DEF Revoke, KeysTypeOK
<1>6. /\ until' \in [Versions -> Nat]
      /\ \A u \in Versions : until'[u] <= until[u] /\ (u # v => until'[u] = until[u])
  BY <1>4, <1>5 DEF KeysTypeOK
<1> QED
  BY <1>3, <1>6 DEF Revoke, KeysTypeOK

(* What a lookup's call becomes. *)
LEMMA LookupTypes ==
  ASSUME KeysTypeOK, NEW c \in Verifiers, BeginResolve(c) \/ ReadKeys(c) \/ ResolveEnds(c)
  PROVE  /\ KeysTypeOK'
         /\ \A d \in Verifiers : d # c => lookup'[d] = lookup[d]
<1>1. lookup \in [Verifiers -> KeyLookups]
  BY DEF KeysTypeOK, KeyLookups
<1>2. lookup[c] \in KeyLookups
  BY <1>1
<1>3. PICK row : lookup' = [lookup EXCEPT ![c] = row] /\ row \in KeyLookups
  <2>1. CASE BeginResolve(c)
    <3>1. [NoLookup EXCEPT !.at = "reading", !.read = keyClock, !.barred = Barred] \in KeyLookups
      BY DEF NoLookup, KeyLookups, KeysTypeOK, Barred
    <3> QED
      BY <2>1, <3>1 DEF BeginResolve
  <2>2. CASE ReadKeys(c)
    <3> DEFINE found == {v \in Versions : Usable(v, lookup[c].read)}
    <3>1. [lookup[c] EXCEPT !.at = "fetching", !.found = found] \in KeyLookups
      BY <1>2 DEF KeyLookups
    <3> QED
      BY <2>2, <3>1, EmptyRows DEF ReadKeys
  <2>3. CASE ResolveEnds(c)
    BY <2>3, EmptyRows DEF ResolveEnds
  <2> QED
    BY <2>1, <2>2, <2>3
<1>4. lookup' \in [Verifiers -> KeyLookups] /\ \A d \in Verifiers : d # c => lookup'[d] = lookup[d]
  BY <1>1, <1>3
<1>5. UNCHANGED <<keys, keyClock, rotation, until>>
  BY DEF BeginResolve, ReadKeys, ResolveEnds
<1> QED
  BY <1>4, <1>5 DEF KeysTypeOK, KeyLookups

LEMMA KeysTypeStep == KeysTypeOK /\ [KeysNext]_keyVars => KeysTypeOK'
<1> SUFFICES ASSUME KeysTypeOK, [KeysNext]_keyVars PROVE KeysTypeOK'
  OBVIOUS
<1>1. ASSUME NEW a \in KeyAdmins, BeginActivate(a) PROVE KeysTypeOK'
  BY <1>1, BeginActivateType
<1>2. ASSUME NEW a \in KeyAdmins, CommitActivate(a) PROVE KeysTypeOK'
  BY <1>2, CommitType
<1>3. ASSUME NEW a \in KeyAdmins, ActivateFails(a) PROVE KeysTypeOK'
  BY <1>3, EmptyRows DEF ActivateFails, KeysTypeOK, Rotations
<1>4. ASSUME NEW v \in Versions, Revoke(v) PROVE KeysTypeOK'
  BY <1>4, RevokeType
<1>5. ASSUME NEW c \in Verifiers, BeginResolve(c) \/ ReadKeys(c) \/ ResolveEnds(c) PROVE KeysTypeOK'
  BY <1>5, LookupTypes
<1>6. CASE KeyTick
  <2>1. keyClock + 1 \in KeyTimes
    BY <1>6, Numbers DEF KeyTick, KeysTypeOK, KeyTimes
  <2> QED
    BY <1>6, <2>1 DEF KeyTick, KeysTypeOK
<1>7. CASE UNCHANGED keyVars
  BY <1>7 DEF keyVars, KeysTypeOK
<1> QED
  BY <1>1, <1>2, <1>3, <1>4, <1>5, <1>6, <1>7 DEF KeysNext

(* Keys, rotations and lookups have their shapes. *)
THEOREM KeysTyped == KeysSpec => []KeysTypeOK
BY KeysTypeInit, KeysTypeStep, PTL DEF KeysSpec

-----------------------------------------------------------------------------
(* A key that is to be barred expires by then, or is out of use; a rotation  *)
(* goes by a clock that is not ahead; and what was barred when a lookup     *)
(* began was so by the clock the lookup goes by.                            *)
ExpiryBoundsUse ==
  \A v \in Versions :
    /\ keys[v].status \in {"active", "retiring"} /\ until[v] <= Horizon => keys[v].expires <= until[v]
    /\ keys[v].status = "none" => until[v] = Never

CallsGoBy ==
  /\ \A a \in KeyAdmins : rotation[a].read <= keyClock
  /\ \A c \in Verifiers :
       /\ lookup[c].at = "reading" =>
            lookup[c].found = {} /\ \A v \in lookup[c].barred : until[v] <= lookup[c].read
       /\ lookup[c].at = "idle" => lookup[c].found = {}

KeysInv == KeysTypeOK /\ ExpiryBoundsUse /\ CallsGoBy /\ BarredNeverVerifies

LEMMA KeysInvInit == KeysInit => KeysInv
<1> SUFFICES ASSUME KeysInit PROVE KeysInv
  OBVIOUS
<1>1. ExpiryBoundsUse
  BY Numbers DEF KeysInit, ExpiryBoundsUse, NoKey
<1>2. CallsGoBy /\ BarredNeverVerifies
  BY Numbers DEF KeysInit, CallsGoBy, BarredNeverVerifies, NoRotation, NoLookup
<1> QED
  BY <1>1, <1>2, KeysTypeInit DEF KeysInv

(* The key that replaces another is new, and the replaced one expires no     *)
(* later than its grace allows, by a clock that was not ahead.              *)
LEMMA CommitKeepsExpiry ==
  ASSUME KeysInv, NEW a \in KeyAdmins, CommitActivate(a)
  PROVE  ExpiryBoundsUse'
<1> DEFINE call == rotation[a]
<1>1. /\ KeysTypeOK /\ ExpiryBoundsUse /\ CallsGoBy
      /\ call \in Rotations /\ call.read <= keyClock
  BY DEF KeysInv, CallsGoBy, KeysTypeOK, Rotations
<1>2. /\ call.version \in Versions /\ call.read \in KeyTimes /\ call.grace \in Graces \cup {0}
      /\ call.version \notin Present /\ keys' = AfterRotation(call)
  BY <1>1, Numbers DEF CommitActivate, Rotations
<1> SUFFICES ASSUME NEW v \in Versions
             PROVE  /\ keys'[v].status \in {"active", "retiring"} /\ until'[v] <= Horizon =>
                         keys'[v].expires <= until'[v]
                    /\ keys'[v].status = "none" => until'[v] = Never
  BY DEF ExpiryBoundsUse
<1>3. /\ keys[v] \in KeyRows /\ until[v] \in Nat /\ until'[v] \in Nat /\ until'[v] <= until[v]
      /\ keyClock \in Nat /\ call.read \in Nat /\ call.grace \in Nat
  BY <1>1, <1>2, RotationUntil, Numbers DEF KeysTypeOK
<1>4. CASE v = call.version
  <2>1. keys[v].status = "none"
    BY <1>2, <1>4 DEF Present
  <2>2. until'[v] = Never
    BY <1>1, <2>1, RotationUntil DEF ExpiryBoundsUse
  <2> QED
    BY <2>2, Numbers
<1>5. CASE v # call.version /\ keys[v].status = "active"
  <2>1. keys'[v] = Retired(keys[v], call.read, call.grace)
    BY <1>1, <1>2, <1>5, RotationRows
  <2>2. until'[v] = Earlier(until[v], keyClock + call.grace)
    BY <1>1, <1>5, RotationUntil
  <2> DEFINE replaced == Retired(keys[v], call.read, call.grace)
  <2>3. /\ replaced \in KeyRows /\ replaced.status \in {"retiring", "revoked"}
        /\ replaced.status = "retiring" =>
             replaced.expires <= keys[v].expires /\ replaced.expires <= call.read + call.grace
    BY <1>2, <1>3, RetiredType
  <2>4. replaced.expires \in Nat
    BY <2>3 DEF KeyRows
  <2>5. /\ keys'[v].status \in {"retiring", "revoked"} /\ keys'[v].expires \in Nat
        /\ keys'[v].status = "retiring" =>
             keys'[v].expires <= keys[v].expires /\ keys'[v].expires <= call.read + call.grace
    <3> HIDE DEF replaced
    <3>1. keys'[v] = replaced
      BY <2>1 DEF replaced
    <3> QED
      BY <2>3, <2>4, <3>1
  <2>6. keys[v].expires \in Nat
    BY <1>3 DEF KeyRows
  <2>7. ASSUME keys'[v].status = "retiring", until'[v] <= Horizon PROVE keys'[v].expires <= until'[v]
    <3>1. CASE until'[v] = until[v]
      <4>1. keys[v].expires <= until[v]
        BY <1>1, <1>5, <2>7, <3>1 DEF ExpiryBoundsUse
      <4> QED
        BY <1>3, <2>5, <2>6, <2>7, <3>1, <4>1
    <3>2. CASE until'[v] = keyClock + call.grace
      BY <1>1, <1>3, <2>5, <2>7, <3>2
    <3> QED
      BY <2>2, <3>1, <3>2 DEF Earlier
  <2> QED
    BY <2>5, <2>7
<1>6. CASE v # call.version /\ keys[v].status # "active"
  <2>1. keys'[v].status \in {"none", "revoked"} /\ (keys'[v].status = "none" <=> keys[v].status = "none")
    BY <1>1, <1>2, <1>6, RotationRows
  <2> QED
    BY <1>1, <2>1, RotationUntil DEF ExpiryBoundsUse
<1> QED
  BY <1>4, <1>5, <1>6

(* A bar only comes earlier, so a lookup that goes on keeps what it knew. *)
LEMMA CallsKept ==
  ASSUME KeysInv, KeysTypeOK', lookup' = lookup, keyClock <= keyClock',
         \A v \in Versions : until'[v] <= until[v],
         \A a \in KeyAdmins : rotation'[a].read <= keyClock'
  PROVE  CallsGoBy' /\ BarredNeverVerifies'
<1>1. BarredNeverVerifies'
  BY DEF KeysInv, BarredNeverVerifies
<1>2. ASSUME NEW c \in Verifiers, lookup[c].at = "reading", NEW v \in lookup[c].barred
      PROVE  until'[v] <= lookup[c].read
  <2>1. /\ v \in Versions /\ until[v] \in Nat /\ until'[v] \in Nat /\ lookup[c].read \in Nat
    BY <1>2, Numbers DEF KeysInv, KeysTypeOK
  <2>2. until[v] <= lookup[c].read /\ until'[v] <= until[v]
    BY <1>2, <2>1 DEF KeysInv, CallsGoBy
  <2> QED
    BY <2>1, <2>2
<1> QED
  BY <1>1, <1>2 DEF KeysInv, CallsGoBy

(* A key that was barred when the lookup began had expired by its clock, or  *)
(* is out of use.                                                           *)
LEMMA ReadKeysAvoidsBarred ==
  ASSUME KeysInv, NEW c \in Verifiers, ReadKeys(c)
  PROVE  CallsGoBy' /\ BarredNeverVerifies'
<1>1. KeysTypeOK' /\ \A d \in Verifiers : d # c => lookup'[d] = lookup[d]
  BY LookupTypes DEF KeysInv
<1> DEFINE found == {v \in Versions : Usable(v, lookup[c].read)}
<1>2. ASSUME NEW v \in lookup[c].barred PROVE v \notin found
  <2>1. /\ v \in Versions /\ until[v] \in Nat /\ lookup[c].read \in Nat /\ lookup[c].read <= Horizon
        /\ keys[v].expires \in Nat /\ lookup[c].at = "reading"
    BY <1>2, Numbers DEF KeysInv, KeysTypeOK, KeyTimes, KeyRows, ReadKeys
  <2>2. until[v] <= lookup[c].read
    BY <1>2, <2>1 DEF KeysInv, CallsGoBy
  <2>3. until[v] <= Horizon
    BY <2>1, <2>2, Numbers
  <2>4. keys[v].status \in {"active", "retiring"} => keys[v].expires <= until[v]
    BY <2>1, <2>3 DEF KeysInv, ExpiryBoundsUse
  <2> QED
    BY <2>1, <2>2, <2>4 DEF Usable
<1>3. lookup \in [Verifiers -> KeyLookups] /\ lookup[c] \in KeyLookups
  BY DEF KeysInv, KeysTypeOK, KeyLookups
<1>4. \/ lookup'[c] = NoLookup
      \/ lookup'[c] = [lookup[c] EXCEPT !.at = "fetching", !.found = found]
  BY <1>3 DEF ReadKeys
<1>5. /\ lookup'[c].found \cap lookup'[c].barred = {}
      /\ lookup'[c].at # "reading"
      /\ lookup'[c].at = "idle" => lookup'[c].found = {}
  <2>1. CASE lookup'[c] = NoLookup
    BY <2>1 DEF NoLookup
  <2>2. CASE lookup'[c] = [lookup[c] EXCEPT !.at = "fetching", !.found = found]
    <3> HIDE DEF found
    <3>1. lookup'[c].at = "fetching" /\ lookup'[c].found = found /\ lookup'[c].barred = lookup[c].barred
      BY <1>3, <2>2 DEF KeyLookups
    <3> QED
      BY <1>2, <3>1
  <2> QED
    BY <1>4, <2>1, <2>2
<1>6. UNCHANGED <<keyClock, rotation, until>>
  BY DEF ReadKeys
<1> QED
  BY <1>1, <1>5, <1>6 DEF KeysInv, CallsGoBy, BarredNeverVerifies

(* What is barred now is barred by the reading a lookup begins with. *)
LEMMA LookupBegins ==
  ASSUME KeysInv, NEW c \in Verifiers, BeginResolve(c) \/ ResolveEnds(c)
  PROVE  CallsGoBy' /\ BarredNeverVerifies'
<1>1. /\ \A d \in Verifiers : d # c => lookup'[d] = lookup[d]
      /\ lookup \in [Verifiers -> KeyLookups]
      /\ UNCHANGED <<keyClock, rotation, until>>
  BY LookupTypes DEF KeysInv, KeysTypeOK, KeyLookups, BeginResolve, ResolveEnds
<1>2. CASE ResolveEnds(c)
  <2>1. lookup'[c].found = {} /\ lookup'[c].at = "idle"
    BY <1>1, <1>2 DEF ResolveEnds, NoLookup
  <2> QED
    BY <1>1, <2>1 DEF KeysInv, CallsGoBy, BarredNeverVerifies
<1>3. CASE BeginResolve(c)
  <2>1. /\ lookup'[c].found = {} /\ lookup'[c].at = "reading"
        /\ lookup'[c].read = keyClock /\ lookup'[c].barred = Barred
    BY <1>1, <1>3 DEF BeginResolve, NoLookup
  <2>2. \A v \in Barred : until'[v] <= keyClock
    BY <1>1 DEF Barred
  <2> QED
    BY <1>1, <2>1, <2>2 DEF KeysInv, CallsGoBy, BarredNeverVerifies
<1> QED
  BY <1>2, <1>3

LEMMA KeysInvStep == KeysInv /\ [KeysNext]_keyVars => KeysInv'
<1> SUFFICES ASSUME KeysInv, [KeysNext]_keyVars
             PROVE  ExpiryBoundsUse' /\ CallsGoBy' /\ BarredNeverVerifies'
  BY KeysTypeStep DEF KeysInv
<1>0. /\ KeysTypeOK /\ KeysTypeOK' /\ keyClock \in Nat
      /\ \A v \in Versions : until[v] \in Nat
      /\ \A a \in KeyAdmins : rotation[a].read <= keyClock
  BY KeysTypeStep, Numbers DEF KeysInv, KeysTypeOK, CallsGoBy
<1>1. ASSUME NEW a \in KeyAdmins, BeginActivate(a)
      PROVE  ExpiryBoundsUse' /\ CallsGoBy' /\ BarredNeverVerifies'
  <2>1. UNCHANGED <<keys, keyClock, lookup, until>>
    BY <1>1 DEF BeginActivate
  <2>2. \A b \in KeyAdmins : rotation'[b].read <= keyClock
    BY <1>0, <1>1, BeginActivateType
  <2> QED
    BY <1>0, <2>1, <2>2, CallsKept DEF KeysInv, ExpiryBoundsUse
<1>2. ASSUME NEW a \in KeyAdmins, CommitActivate(a)
      PROVE  ExpiryBoundsUse' /\ CallsGoBy' /\ BarredNeverVerifies'
  <2>1. lookup' = lookup /\ keyClock' = keyClock /\ \A v \in Versions : until'[v] <= until[v]
    BY <1>0, <1>2, RotationUntil DEF CommitActivate
  <2>2. \A b \in KeyAdmins : rotation'[b].read <= keyClock'
    BY <1>0, <1>2, <2>1, Numbers DEF CommitActivate, NoRotation, KeysTypeOK
  <2> QED
    BY <1>0, <1>2, <2>1, <2>2, CommitKeepsExpiry, CallsKept
<1>3. ASSUME NEW a \in KeyAdmins, ActivateFails(a)
      PROVE  ExpiryBoundsUse' /\ CallsGoBy' /\ BarredNeverVerifies'
  <2>1. UNCHANGED <<keys, keyClock, lookup, until>>
    BY <1>3 DEF ActivateFails
  <2>2. \A b \in KeyAdmins : rotation'[b].read <= keyClock'
    BY <1>0, <1>3, <2>1, Numbers DEF ActivateFails, NoRotation, KeysTypeOK
  <2> QED
    BY <1>0, <2>1, <2>2, CallsKept DEF KeysInv, ExpiryBoundsUse
<1>4. ASSUME NEW v \in Versions, Revoke(v)
      PROVE  ExpiryBoundsUse' /\ CallsGoBy' /\ BarredNeverVerifies'
  <2>1. UNCHANGED <<keyClock, rotation, lookup>> /\ keys[v].status # "none"
    BY <1>4 DEF Revoke
  <2>2. ExpiryBoundsUse'
    BY <1>0, <1>4, RevokeType DEF KeysInv, ExpiryBoundsUse
  <2> QED
    BY <1>0, <1>4, <2>1, <2>2, RevokeType, CallsKept
<1>5. ASSUME NEW c \in Verifiers, BeginResolve(c) \/ ReadKeys(c) \/ ResolveEnds(c)
      PROVE  ExpiryBoundsUse' /\ CallsGoBy' /\ BarredNeverVerifies'
  <2>1. ExpiryBoundsUse'
    BY <1>5 DEF BeginResolve, ReadKeys, ResolveEnds, KeysInv, ExpiryBoundsUse
  <2> QED
    BY <1>5, <2>1, LookupBegins, ReadKeysAvoidsBarred
<1>6. CASE KeyTick
  <2>1. UNCHANGED <<keys, rotation, lookup, until>> /\ keyClock' = keyClock + 1
    BY <1>6 DEF KeyTick
  <2>2. \A b \in KeyAdmins : rotation[b].read \in Nat
    BY <1>0, Numbers DEF KeysTypeOK
  <2>3. \A b \in KeyAdmins : rotation'[b].read <= keyClock'
    BY <1>0, <2>1, <2>2
  <2> QED
    BY <1>0, <2>1, <2>3, CallsKept DEF KeysInv, ExpiryBoundsUse
<1>7. CASE UNCHANGED keyVars
  BY <1>0, <1>7, CallsKept DEF keyVars, KeysInv, ExpiryBoundsUse
<1> QED
  BY <1>1, <1>2, <1>3, <1>4, <1>5, <1>6, <1>7 DEF KeysNext

(* A lookup of resolveSecrets that began after a key was revoked, or after   *)
(* the grace of its replacement ran out, never answers with it.             *)
THEOREM BarredKeysNeverVerify == KeysSpec => []BarredNeverVerifies
<1>1. KeysInv => BarredNeverVerifies
  BY DEF KeysInv
<1> QED
  BY <1>1, KeysInvInit, KeysInvStep, PTL DEF KeysSpec

-----------------------------------------------------------------------------
(* A key that is being activated is active. *)
OrderInv ==
  /\ KeysInOrder
  /\ \A a \in KeyAdmins : rotation[a].at = "reading" => rotation[a].key.status = "active"

LEMMA CommitKeepsOrder ==
  ASSUME KeysTypeOK, OrderInv, NEW a \in KeyAdmins, CommitActivate(a)
  PROVE  KeysInOrder'
<1> DEFINE call == rotation[a]
<1>1. /\ keys' = AfterRotation(call) /\ \A v \in Present : v < call.version
      /\ call.version \in Versions /\ call.key.status = "active"
      /\ call.read \in KeyTimes /\ call.grace \in Graces \cup {0}
  BY DEF CommitActivate, KeysTypeOK, OrderInv
<1>2. ASSUME NEW v \in Versions, v # call.version
      PROVE  /\ keys'[v].status # "active"
             /\ keys'[v].status = "retiring" => keys[v].status = "active"
             /\ keys'[v].status # "none" => v \in Present
  <2>1. CASE keys[v].status = "active"
    <3>1. keys'[v] = Retired(keys[v], call.read, call.grace)
      BY <1>1, <1>2, <2>1, RotationRows
    <3>2. keys[v] \in KeyRows
      BY DEF KeysTypeOK
    <3>3. keys'[v].status \in {"retiring", "revoked"}
      BY <1>1, <3>1, <3>2, RetiredType
    <3> QED
      BY <2>1, <3>3 DEF Present
  <2>2. CASE keys[v].status # "active"
    <3>1. /\ keys'[v].status \in {"none", "revoked"}
          /\ keys'[v].status = "none" <=> keys[v].status = "none"
      BY <1>1, <1>2, <2>2, RotationRows
    <3> QED
      BY <3>1 DEF Present
  <2> QED
    BY <2>1, <2>2
<1>3. keys'[call.version].status = "active"
  BY <1>1, RotationRows
<1> SUFFICES ASSUME NEW v \in Versions, NEW u \in Versions
             PROVE  /\ keys'[v].status = keys'[u].status
                         /\ keys'[v].status \in {"active", "retiring"} => v = u
                    /\ keys'[v].status = "active" /\ keys'[u].status # "none" => u <= v
  BY DEF KeysInOrder
<1>4. /\ keys'[v].status = "active" => v = call.version
      /\ keys'[u].status = "active" => u = call.version
  BY <1>2
<1>5. keys'[u].status # "none" => u <= call.version
  <2>1. u \in Nat /\ call.version \in Nat
    BY <1>1, Numbers
  <2>2. CASE u = call.version
    BY <2>1, <2>2
  <2>3. ASSUME u # call.version, keys'[u].status # "none" PROVE u < call.version
    BY <1>1, <1>2, <2>3
  <2> QED
    BY <2>1, <2>2, <2>3
<1>6. keys'[v].status = "retiring" /\ keys'[u].status = "retiring" =>
        keys[v].status = "active" /\ keys[u].status = "active"
  BY <1>2, <1>3
<1>7. keys[v].status = "active" /\ keys[u].status = "active" => v = u
  BY DEF OrderInv, KeysInOrder
<1>8. keys'[v].status = keys'[u].status /\ keys'[v].status \in {"active", "retiring"} => v = u
  BY <1>4, <1>6, <1>7
<1>9. ASSUME keys'[v].status = "active", keys'[u].status # "none" PROVE u <= v
  <2>1. v = call.version /\ u <= call.version
    BY <1>4, <1>5, <1>9
  <2> QED
    BY <2>1, Zenon
<1> QED
  BY <1>8, <1>9

(* At most one key is active and one retiring, and the active one is the     *)
(* newest: activate never runs into the table's unique indexes.             *)
THEOREM KeysStayInOrder == KeysSpec => []KeysInOrder
<1>1. KeysInit => OrderInv
  BY DEF KeysInit, OrderInv, KeysInOrder, NoKey, NoRotation
<1>2. KeysTypeOK /\ OrderInv /\ [KeysNext]_keyVars => OrderInv'
  <2> SUFFICES ASSUME KeysTypeOK, OrderInv, [KeysNext]_keyVars PROVE OrderInv'
    OBVIOUS
  <2>1. ASSUME NEW a \in KeyAdmins, CommitActivate(a) PROVE OrderInv'
    BY <2>1, CommitKeepsOrder DEF CommitActivate, OrderInv, NoRotation, KeysTypeOK
  <2>2. ASSUME NEW a \in KeyAdmins, BeginActivate(a) PROVE OrderInv'
    BY <2>2 DEF BeginActivate, OrderInv, KeysInOrder, KeysTypeOK
  <2>3. ASSUME NEW a \in KeyAdmins, ActivateFails(a) PROVE OrderInv'
    BY <2>3 DEF ActivateFails, OrderInv, KeysInOrder, NoRotation, KeysTypeOK
  <2>4. ASSUME NEW v \in Versions, Revoke(v) PROVE OrderInv'
    <3>1. \A u \in Versions : keys'[u].status \in {keys[u].status, "revoked"} /\ keys[v].status # "none"
      BY <2>4, RevokeType DEF Revoke
    <3>2. \A u \in Versions : keys'[u].status # "none" => keys[u].status # "none"
      BY <2>4, RevokeType DEF Revoke
    <3>3. KeysInOrder'
      BY <3>1, <3>2 DEF OrderInv, KeysInOrder
    <3> QED
      BY <2>4, <3>3 DEF Revoke, OrderInv
  <2>5. CASE UNCHANGED <<keys, rotation>>
    BY <2>5 DEF OrderInv, KeysInOrder
  <2> QED
    BY <2>1, <2>2, <2>3, <2>4, <2>5
    DEF KeysNext, BeginResolve, ReadKeys, ResolveEnds, KeyTick, keyVars
<1>3. OrderInv => KeysInOrder
  BY DEF OrderInv
<1> QED
  BY <1>1, <1>2, <1>3, KeysTypeInit, KeysTypeStep, PTL DEF KeysSpec

-----------------------------------------------------------------------------
(***************************************************************************)
(* The status connector, for any number of administrators, lookups and     *)
(* targets: its type, and that what is active or in use was checked as it  *)
(* stands.                                                                 *)
(***************************************************************************)
(* What an activation carries from its snapshot to the comparison: the row  *)
(* was disabled, and it is on the record of checks once they have passed.   *)
SnapshotsHold ==
  \A s \in Securers :
    /\ enabling[s].at # "idle" => enabling[s].row.status = "disabled"
    /\ enabling[s].at = "checked" => enabling[s].row \in checked

ConnectorInv == ConnectorTypeOK /\ SnapshotsHold /\ ActiveWasChecked

LEMMA ConnectorTypeInit == ConnectorInit => ConnectorTypeOK
BY ConnectorAssumption
DEF ConnectorInit, ConnectorTypeOK, NoConfig, Configs, NotEnabling, ConfigRevisions

(* A row that is written moves to the next revision and stays a row. *)
LEMMA ReplaceType ==
  ASSUME ConnectorTypeOK, NEW row \in Configs, Replace(row)
  PROVE  /\ config' \in Configs
         /\ config' = [row EXCEPT !.revision = config.revision + 1]
BY ConnectorAssumption DEF ConnectorTypeOK, Replace, Configs, ConfigRevisions

LEMMA ConnectorTypeStep == ConnectorTypeOK /\ [ConnectorNext]_connectorVars => ConnectorTypeOK'
<1> SUFFICES ASSUME ConnectorTypeOK, [ConnectorNext]_connectorVars PROVE ConnectorTypeOK'
  OBVIOUS
<1> USE DEF ConnectorTypeOK
<1>1. ASSUME NEW known \in ConfigRevisions, NEW t \in Targets, SaveConfig(known, t)
      PROVE  ConnectorTypeOK'
  <2>1. [config EXCEPT !.status = "disabled", !.target = t] \in Configs
    BY DEF Configs
  <2> QED
    BY <1>1, <2>1, ReplaceType DEF SaveConfig
<1>2. ASSUME NEW known \in ConfigRevisions, DisableConfig(known) PROVE ConnectorTypeOK'
  <2>1. [config EXCEPT !.status = "disabled"] \in Configs
    BY DEF Configs
  <2> QED
    BY <1>2, <2>1, ReplaceType DEF DisableConfig
<1>3. ASSUME NEW known \in ConfigRevisions, NEW s \in Securers, SnapshotConfig(s, known)
      PROVE  ConnectorTypeOK'
  BY <1>3 DEF SnapshotConfig
<1>4. ASSUME NEW s \in Securers, ChecksPass(s) PROVE ConnectorTypeOK'
  BY <1>4 DEF ChecksPass
<1>5. ASSUME NEW s \in Securers, EnableConfig(s) PROVE ConnectorTypeOK'
  <2>1. [config EXCEPT !.status = "active"] \in Configs
    BY DEF Configs
  <2>2. NotEnabling \in [at : {"idle", "checking", "checked"}, row : Configs]
    BY ConnectorAssumption DEF NotEnabling, NoConfig, Configs, ConfigRevisions
  <2> QED
    BY <1>5, <2>1, <2>2, ReplaceType DEF EnableConfig
<1>6. ASSUME NEW s \in Securers, EnableRefused(s) PROVE ConnectorTypeOK'
  <2>1. NotEnabling \in [at : {"idle", "checking", "checked"}, row : Configs]
    BY ConnectorAssumption DEF NotEnabling, NoConfig, Configs, ConfigRevisions
  <2> QED
    BY <1>6, <2>1 DEF EnableRefused
<1>7. ASSUME NEW u \in Lookups, ResolveActive(u) PROVE ConnectorTypeOK'
  BY <1>7 DEF ResolveActive
<1>8. ASSUME NEW u \in Lookups, UseEnds(u) PROVE ConnectorTypeOK'
  <2>1. NoConfig \in Configs
    BY ConnectorAssumption DEF NoConfig, Configs, ConfigRevisions
  <2> QED
    BY <1>8, <2>1 DEF UseEnds
<1>9. CASE UNCHANGED connectorVars
  BY <1>9 DEF connectorVars
<1> QED
  BY <1>1, <1>2, <1>3, <1>4, <1>5, <1>6, <1>7, <1>8, <1>9 DEF ConnectorNext

(* Every row, call and check has its shape: the type invariant of            *)
(* status-connector-config.ts and its table.                                *)
THEOREM ConnectorTyped == ConnectorSpec => []ConnectorTypeOK
BY ConnectorTypeInit, ConnectorTypeStep, PTL DEF ConnectorSpec

LEMMA ConnectorInvInit == ConnectorInit => ConnectorInv
BY ConnectorTypeInit
DEF ConnectorInit, ConnectorInv, SnapshotsHold, ActiveWasChecked, NoConfig, NotEnabling

(* Writing a row that is not active keeps the promise about the active ones. *)
LEMMA WrittenInactive ==
  ASSUME ConnectorInv, config'.status # "active", UNCHANGED <<enabling, using, checked>>
  PROVE  SnapshotsHold' /\ ActiveWasChecked'
BY DEF ConnectorInv, SnapshotsHold, ActiveWasChecked

(* The comparison under the row's lock ties the enabling to the very row    *)
(* that was checked.                                                        *)
LEMMA EnablingWasChecked ==
  ASSUME ConnectorInv, NEW s \in Securers, EnableConfig(s)
  PROVE  SnapshotsHold' /\ ActiveWasChecked'
<1> USE DEF ConnectorInv, ConnectorTypeOK
<1> DEFINE row == enabling[s].row
<1> HIDE DEF row
<1>1. config = row /\ row \in checked /\ row.status = "disabled" /\ row \in Configs
  BY DEF EnableConfig, Unchanged, SnapshotsHold, row
<1>2. row = [status |-> "disabled", target |-> row.target, revision |-> row.revision]
  BY <1>1 DEF Configs
<1>3. config' = [[config EXCEPT !.status = "active"] EXCEPT !.revision = config.revision + 1]
  BY DEF EnableConfig, Replace
<1>4. config'.target = row.target /\ config'.revision = row.revision + 1
  BY <1>1, <1>3 DEF Configs
<1>5. row.revision \in Nat
  BY <1>1 DEF Configs, ConfigRevisions
<1>6. using' = using /\ checked' = checked
  BY DEF EnableConfig
<1>7. [status |-> "disabled", target |-> config'.target, revision |-> config'.revision - 1] \in checked'
  <2>1. config'.revision - 1 = row.revision
    BY <1>4, <1>5
  <2>2. [status |-> "disabled", target |-> config'.target, revision |-> config'.revision - 1] = row
    BY <1>2, <1>4, <2>1
  <2> QED
    BY <1>1, <1>6, <2>2
<1>8. ActiveWasChecked'
  BY <1>6, <1>7 DEF ActiveWasChecked
<1>9. SnapshotsHold'
  BY <1>6 DEF EnableConfig, SnapshotsHold, NotEnabling
<1> QED
  BY <1>8, <1>9

LEMMA ConnectorInvStep == ConnectorInv /\ [ConnectorNext]_connectorVars => ConnectorInv'
<1> SUFFICES ASSUME ConnectorInv, [ConnectorNext]_connectorVars
             PROVE  SnapshotsHold' /\ ActiveWasChecked'
  BY ConnectorTypeStep DEF ConnectorInv
<1>1. ASSUME NEW known \in ConfigRevisions, NEW t \in Targets, SaveConfig(known, t)
      PROVE  SnapshotsHold' /\ ActiveWasChecked'
  <2>1. config'.status # "active"
    BY <1>1 DEF SaveConfig, Replace, ConnectorInv, ConnectorTypeOK, Configs
  <2> QED
    BY <1>1, <2>1, WrittenInactive DEF SaveConfig
<1>2. ASSUME NEW known \in ConfigRevisions, DisableConfig(known)
      PROVE  SnapshotsHold' /\ ActiveWasChecked'
  <2>1. config'.status # "active"
    BY <1>2 DEF DisableConfig, Replace, ConnectorInv, ConnectorTypeOK, Configs
  <2> QED
    BY <1>2, <2>1, WrittenInactive DEF DisableConfig
<1>3. ASSUME NEW known \in ConfigRevisions, NEW s \in Securers, SnapshotConfig(s, known)
      PROVE  SnapshotsHold' /\ ActiveWasChecked'
  BY <1>3 DEF SnapshotConfig, ConnectorInv, ConnectorTypeOK, SnapshotsHold, ActiveWasChecked
<1>4. ASSUME NEW s \in Securers, ChecksPass(s) PROVE SnapshotsHold' /\ ActiveWasChecked'
  BY <1>4 DEF ChecksPass, ConnectorInv, ConnectorTypeOK, SnapshotsHold, ActiveWasChecked
<1>5. ASSUME NEW s \in Securers, EnableConfig(s) PROVE SnapshotsHold' /\ ActiveWasChecked'
  BY <1>5, EnablingWasChecked
<1>6. ASSUME NEW s \in Securers, EnableRefused(s) PROVE SnapshotsHold' /\ ActiveWasChecked'
  BY <1>6 DEF EnableRefused, NotEnabling, ConnectorInv, ConnectorTypeOK, SnapshotsHold, ActiveWasChecked
<1>7. ASSUME NEW u \in Lookups, ResolveActive(u) PROVE SnapshotsHold' /\ ActiveWasChecked'
  BY <1>7 DEF ResolveActive, ConnectorInv, ConnectorTypeOK, SnapshotsHold, ActiveWasChecked
<1>8. ASSUME NEW u \in Lookups, UseEnds(u) PROVE SnapshotsHold' /\ ActiveWasChecked'
  BY <1>8 DEF UseEnds, NoConfig, ConnectorInv, ConnectorTypeOK, SnapshotsHold, ActiveWasChecked
<1>9. CASE UNCHANGED connectorVars
  BY <1>9 DEF connectorVars, ConnectorInv, SnapshotsHold, ActiveWasChecked
<1> QED
  BY <1>1, <1>2, <1>3, <1>4, <1>5, <1>6, <1>7, <1>8, <1>9 DEF ConnectorNext

(* A connector that is active, or that a lookup is using, is the row whose   *)
(* target passed the checks of activate, with no other write in between.    *)
THEOREM ActiveConnectorsChecked == ConnectorSpec => []ActiveWasChecked
<1>1. ConnectorInv => ActiveWasChecked
  BY DEF ConnectorInv
<1> QED
  BY <1>1, ConnectorInvInit, ConnectorInvStep, PTL DEF ConnectorSpec

-----------------------------------------------------------------------------
(***************************************************************************)
(* The Git connection, for any number of resolvers, authorizations and     *)
(* tokens: its type, and that a spent refresh token is not presented again.*)
(***************************************************************************)
Resolutions == [at : {"idle", "asked", "reading", "refreshing", "locked", "storing",
                      "resolved", "failing", "confirming", "recording"},
                validates : BOOLEAN, saw : ConnectionStatuses, token : Tokens \cup {NoToken}]
Authorizations == [at : {"idle", "upserting", "saving"}, token : Tokens \cup {NoToken}]

Holding(p) == resolver[p].at \in {"locked", "storing"}

(* Tokens are among those issued; one is not both accepted and spent; a     *)
(* call that is about to refresh has one.                                   *)
TokensIssued ==
  /\ secret \in 0..minted /\ spent \subseteq 1..minted /\ accepted \cap spent = {}
  /\ \A p \in Resolvers : resolver[p].token \in 0..minted
  /\ \A p \in Resolvers : resolver[p].at = "refreshing" => resolver[p].token # NoToken

(* Nobody else has a token that an authorization has not saved.             *)
UnsavedIsFresh ==
  \A a \in Authorizers : authorizer[a].at # "idle" =>
    /\ authorizer[a].token \in 1..minted /\ authorizer[a].token \notin spent
    /\ authorizer[a].token # secret
    /\ \A p \in Resolvers : resolver[p].token # authorizer[a].token
    /\ \A b \in Authorizers \ {a} :
         authorizer[b].at # "idle" => authorizer[b].token # authorizer[a].token

LockIsHeldOnce == \A p, q \in Resolvers : Holding(p) /\ Holding(q) => p = q

(* What the holder of the lock presents is unspent or a stray, and what it  *)
(* is about to store is unspent.                                            *)
HeldTokens ==
  \A p \in Resolvers :
    /\ resolver[p].at = "locked" => resolver[p].token \notin spent \ strays
    /\ resolver[p].at = "storing" => resolver[p].token \notin spent

(* The stored token is spent only while its successor is about to be stored. *)
StoredIsUnspent ==
  secret \in spent \ strays => \E p \in Resolvers : resolver[p].at = "storing"

TokenInv ==
  /\ TokensIssued /\ UnsavedIsFresh /\ LockIsHeldOnce /\ HeldTokens
  /\ StoredIsUnspent /\ TokensUsedOnce

LEMMA TokenNumbers == MaxTokens \in Nat /\ MaxTokens >= 1 /\ MaxGitMishaps \in Nat
                      /\ 1 \in Tokens /\ Tokens \subseteq Nat /\ NoToken = 0
BY GitAssumption DEF Tokens, NoToken

LEMMA GitRows == NotResolving \in Resolutions /\ NotAuthorizing \in Authorizations
BY DEF NotResolving, NotAuthorizing, Resolutions, Authorizations, ConnectionStatuses

LEMMA GitTypeInit == GitInit => GitTypeOK
BY TokenNumbers, GitRows
DEF GitInit, GitTypeOK, Resolutions, Authorizations, NotRemoving, ConnectionStatuses

LEMMA GitTypeStep == GitTypeOK /\ TokensIssued /\ [GitNext]_gitVars => GitTypeOK'
<1> SUFFICES ASSUME GitTypeOK, TokensIssued, [GitNext]_gitVars PROVE GitTypeOK'
  OBVIOUS
<1> USE TokenNumbers DEF GitTypeOK, provider, calls
<1>0. /\ resolver \in [Resolvers -> Resolutions] /\ authorizer \in [Authorizers -> Authorizations]
      /\ NotResolving \in Resolutions /\ NotAuthorizing \in Authorizations
  BY GitRows DEF Resolutions, Authorizations
<1>a. ASSUME NEW p \in Resolvers, NEW r \in Resolutions, resolver' = [resolver EXCEPT ![p] = r]
      PROVE  resolver' \in [Resolvers -> Resolutions]
  BY <1>a, <1>0
<1>b. ASSUME NEW p \in Resolvers, ResolveDone(p) PROVE resolver' \in [Resolvers -> Resolutions]
  BY <1>b, <1>0 DEF ResolveDone
<1>c. ASSUME NEW p \in Resolvers, NEW at, NEW token \in Tokens \cup {NoToken}, Resolving(p, at, token),
             at \in {"reading", "refreshing", "locked", "storing", "resolved", "failing",
                     "confirming", "recording"}
      PROVE  resolver' \in [Resolvers -> Resolutions]
  <2>1. [[resolver[p] EXCEPT !.at = at] EXCEPT !.token = token] \in Resolutions
    BY <1>c, <1>0 DEF Resolutions
  <2>2. resolver' = [resolver EXCEPT ![p] = [[resolver[p] EXCEPT !.at = at] EXCEPT !.token = token]]
    BY <1>c, <1>0 DEF Resolving
  <2> QED
    BY <2>1, <2>2, <1>0
<1>d. \A p \in Resolvers : resolver[p].token \in Tokens \cup {NoToken} /\ resolver[p].saw \in ConnectionStatuses
  OBVIOUS
<1>e. /\ 1 .. minted \subseteq Tokens
      /\ minted < MaxTokens => minted + 1 \in Tokens /\ 1 .. minted \subseteq 1 .. (minted + 1)
                               /\ 0 .. minted \subseteq 0 .. (minted + 1)
  BY DEF Tokens
<1>f. Slip => gitMishaps' \in 0 .. MaxGitMishaps
  BY DEF Slip
<1>1. ASSUME NEW p \in Resolvers, BeginCredential(p) PROVE GitTypeOK'
  <2>1. PICK validates \in BOOLEAN : resolver' = [resolver EXCEPT ![p] =
          [NotResolving EXCEPT !.at = "asked", !.validates = validates,
                               !.saw = IF validates THEN connection ELSE @]]
    BY <1>1 DEF BeginCredential
  <2>2. [NotResolving EXCEPT !.at = "asked", !.validates = validates,
                             !.saw = IF validates THEN connection ELSE @] \in Resolutions
    BY <1>0 DEF Resolutions
  <2> QED
    BY <1>1, <1>a, <2>1, <2>2 DEF BeginCredential, Resolutions
<1>2. ASSUME NEW p \in Resolvers, ReadConnection(p) PROVE GitTypeOK'
  <2>1. resolver' \in [Resolvers -> Resolutions]
    BY <1>2, <1>b, <1>c DEF ReadConnection
  <2> QED
    BY <1>2, <2>1 DEF ReadConnection, Resolutions
<1>3. ASSUME NEW p \in Resolvers, ReadStored(p) PROVE GitTypeOK'
  <2>1. resolver' \in [Resolvers -> Resolutions]
    BY <1>3, <1>c DEF ReadStored
  <2> QED
    BY <1>3, <2>1 DEF ReadStored, Resolutions
<1>4. ASSUME NEW p \in Resolvers, LockSecret(p) PROVE GitTypeOK'
  <2> DEFINE current == IF secret = NoToken THEN resolver[p].token ELSE secret
  <2>1. current \in Tokens
    BY <1>4, <1>d DEF LockSecret, TokensIssued
  <2>2. resolver' \in [Resolvers -> Resolutions]
    BY <1>4, <1>c, <2>1 DEF LockSecret
  <2> QED
    BY <1>4, <2>1, <2>2 DEF LockSecret, Resolutions
<1>5. ASSUME NEW p \in Resolvers, Refresh(p) PROVE GitTypeOK'
  <2>1. CASE resolver[p].token \in accepted
    <3>1. resolver' \in [Resolvers -> Resolutions]
      <4>1. minted + 1 \in Tokens
        BY <1>5, <2>1, <1>e DEF Refresh
      <4>2. Resolving(p, "storing", minted + 1) \/ ResolveDone(p)
        BY <1>5, <2>1 DEF Refresh
      <4> QED
        BY <4>1, <4>2, <1>b, <1>c
    <3>2. minted' \in Tokens /\ accepted' \subseteq 1 .. minted' /\ due' \in 0 .. minted'
      <4>1. minted < MaxTokens /\ minted' = minted + 1 /\ due' = due
            /\ accepted' = (accepted \ {resolver[p].token}) \cup {minted + 1}
        BY <1>5, <2>1 DEF Refresh
      <4>2. minted + 1 \in 1 .. (minted + 1)
        BY <1>e
      <4> QED
        BY <4>1, <4>2, <1>e
    <3>3. spent' \subseteq Tokens /\ replayed' \subseteq Tokens /\ strays' \subseteq Tokens
      BY <1>5, <2>1, <1>e DEF Refresh
    <3>4. gitMishaps' \in 0 .. MaxGitMishaps
      BY <1>5, <2>1, <1>f DEF Refresh
    <3> QED
      BY <1>5, <3>1, <3>2, <3>3, <3>4 DEF Refresh, Resolutions
  <2>2. CASE resolver[p].token \notin accepted
    <3>1. resolver' \in [Resolvers -> Resolutions]
      BY <1>5, <2>2, <1>c, <1>d DEF Refresh
    <3> QED
      BY <1>5, <2>2, <3>1 DEF Refresh, Resolutions
  <2> QED
    BY <2>1, <2>2
<1>6. ASSUME NEW p \in Resolvers, StoreRefreshed(p) PROVE GitTypeOK'
  <2>1. resolver' \in [Resolvers -> Resolutions]
    BY <1>6, <1>c, <1>d DEF StoreRefreshed
  <2> QED
    BY <1>6, <1>d, <2>1 DEF StoreRefreshed, Resolutions
<1>7. ASSUME NEW p \in Resolvers, RefreshLost(p) PROVE GitTypeOK'
  <2>1. resolver' \in [Resolvers -> Resolutions]
    BY <1>7, <1>b DEF RefreshLost
  <2> QED
    BY <1>7, <1>f, <2>1 DEF RefreshLost, Resolutions
<1>8. ASSUME NEW p \in Resolvers, UseCredential(p) PROVE GitTypeOK'
  <2>1. resolver' \in [Resolvers -> Resolutions]
    BY <1>8, <1>b, <1>c, <1>d DEF UseCredential
  <2> QED
    BY <1>8, <2>1 DEF UseCredential, Resolutions
<1>9. ASSUME NEW p \in Resolvers, MarkAuthFailure(p) PROVE GitTypeOK'
  <2>1. resolver' \in [Resolvers -> Resolutions]
    BY <1>9, <1>b, <1>c DEF MarkAuthFailure
  <2> QED
    BY <1>9, <2>1 DEF MarkAuthFailure, Resolutions, ConnectionStatuses
<1>10. ASSUME NEW p \in Resolvers, RecordValidation(p) PROVE GitTypeOK'
  <2>1. resolver' \in [Resolvers -> Resolutions]
    BY <1>10, <1>b DEF RecordValidation
  <2>2. connection' \in ConnectionStatuses
    BY <1>10, <1>d DEF RecordValidation, ConnectionStatuses
  <2> QED
    BY <1>10, <2>1, <2>2 DEF RecordValidation, Resolutions
<1>11. ASSUME NEW a \in Authorizers, AuthorizerStep(a) PROVE GitTypeOK'
  <2>1. ASSUME NEW s \in OAuthStates, Authorize(a, s) PROVE GitTypeOK'
    <3>1. oauthStates' \in [OAuthStates -> {"none", "open", "consumed"}]
      BY <2>1 DEF Authorize
    <3>2. CASE CodeExchanged(a)
      <4>1. authorizer' \in [Authorizers -> Authorizations]
        BY <3>2, <1>0, <1>e DEF CodeExchanged, Authorizations
      <4>2. minted' \in Tokens /\ accepted' \subseteq 1 .. minted' /\ due' \in 0 .. minted'
        BY <2>1, <3>2, <1>e DEF Authorize, CodeExchanged
      <4> QED
        BY <2>1, <3>1, <4>1, <4>2 DEF Authorize, Authorizations
    <3> QED
      BY <2>1, <3>1, <3>2 DEF Authorize
  <2>2. CASE UpsertConnection(a)
    BY <2>2 DEF UpsertConnection, ConnectionStatuses
  <2>3. CASE PersistCredential(a)
    BY <2>3 DEF PersistCredential, NotAuthorizing
  <2>4. CASE AuthorizationFails(a)
    BY <2>4 DEF AuthorizationFails, NotAuthorizing
  <2> QED
    BY <1>11, <2>1, <2>2, <2>3, <2>4 DEF AuthorizerStep
<1>12. ASSUME NEW s \in OAuthStates, StartAuthorization(s) PROVE GitTypeOK'
  BY <1>12 DEF StartAuthorization
<1>13. CASE BeginDisconnect \/ RevokeRemotely \/ DetachSecret \/ DeleteSecret \/ Disconnect
  BY <1>13 DEF BeginDisconnect, RevokeRemotely, DetachSecret, DeleteSecret, Disconnect, Removing,
               NotRemoving, ConnectionStatuses
<1>14. CASE ExpiryNears
  BY <1>14 DEF ExpiryNears
<1>15. CASE UNCHANGED gitVars
  BY <1>15 DEF gitVars
<1> QED
  BY <1>1, <1>2, <1>3, <1>4, <1>5, <1>6, <1>7, <1>8, <1>9, <1>10, <1>11, <1>12, <1>13, <1>14, <1>15
  DEF GitNext, ResolverStep

LEMMA TokenInvInit == GitInit => TokenInv
BY TokenNumbers
DEF GitInit, TokenInv, TokensIssued, UnsavedIsFresh, LockIsHeldOnce, Holding, HeldTokens,
    StoredIsUnspent, TokensUsedOnce, NotResolving, NotAuthorizing

(* A resolver that has let the lock go, or never had it, carries nothing new: *)
(* its token is the one it had, the stored one or none, and a successor it   *)
(* did not store makes the stored token a stray.                            *)
LEMMA ResolverOutside ==
  ASSUME TokenInv, GitTypeOK, NEW p \in Resolvers, NEW r \in Resolutions,
         resolver' = [resolver EXCEPT ![p] = r], ~(r.at \in {"locked", "storing"}),
         r.token \in {resolver[p].token, secret, NoToken},
         r.at = "refreshing" => r.token # NoToken,
         strays \subseteq strays',
         resolver[p].at = "storing" /\ secret # NoToken => secret \in strays',
         UNCHANGED <<secret, authorizer, minted, accepted, spent, replayed>>
  PROVE  TokenInv'
<1> USE TokenNumbers
<1>1. \A q \in Resolvers : resolver'[q] = IF q = p THEN r ELSE resolver[q]
  BY DEF GitTypeOK
<1>2. TokensIssued'
  BY <1>1 DEF TokenInv, TokensIssued, GitTypeOK
<1>3. UnsavedIsFresh'
  BY <1>1 DEF TokenInv, UnsavedIsFresh
<1>4. LockIsHeldOnce' /\ HeldTokens'
  BY <1>1 DEF TokenInv, LockIsHeldOnce, Holding, HeldTokens
<1>5. StoredIsUnspent'
  <2>1. secret # NoToken \/ secret \notin spent
    BY DEF TokenInv, TokensIssued
  <2> QED
    BY <1>1, <2>1 DEF TokenInv, StoredIsUnspent
<1> QED
  BY <1>2, <1>3, <1>4, <1>5 DEF TokenInv, TokensUsedOnce

(* Steps that leave the resolvers, the secret and what was spent alone.     *)
LEMMA OutsideResolvers ==
  ASSUME TokenInv, GitTypeOK, UNCHANGED <<secret, resolver, minted, spent, replayed, strays>>,
         accepted' \subseteq accepted,
         \A a \in Authorizers : authorizer'[a].at # "idle" =>
           authorizer[a].at # "idle" /\ authorizer'[a].token = authorizer[a].token
  PROVE  TokenInv'
BY DEF TokenInv, TokensIssued, UnsavedIsFresh, LockIsHeldOnce, Holding, HeldTokens,
       StoredIsUnspent, TokensUsedOnce

(* The lock is taken with the stored token, which is unspent because nobody *)
(* else is about to replace it, or with a copy that becomes a stray.        *)
LEMMA LockKeepsTokens ==
  ASSUME TokenInv, GitTypeOK, NEW p \in Resolvers, LockSecret(p)
  PROVE  TokenInv'
<1> USE TokenNumbers
<1> DEFINE current == IF secret = NoToken THEN resolver[p].token ELSE secret
<1> DEFINE at == IF current <= due THEN "locked" ELSE "resolved"
<1>1. \A q \in Resolvers :
        /\ resolver'[q].at = IF q = p THEN at ELSE resolver[q].at
        /\ resolver'[q].token = IF q = p THEN current ELSE resolver[q].token
  BY DEF GitTypeOK, LockSecret, Resolving
<1>2. /\ \A q \in Resolvers : resolver[q].at \notin {"locked", "storing"}
      /\ strays' = IF secret = NoToken THEN strays \cup {current} ELSE strays
      /\ UNCHANGED <<secret, authorizer, minted, accepted, spent, replayed>>
  BY DEF LockSecret, Locked, provider
<1>3. current \notin spent \ strays'
  BY <1>2 DEF TokenInv, StoredIsUnspent
<1> HIDE DEF current
<1>4. current \in {resolver[p].token, secret}
  BY DEF current
<1>5. TokensIssued'
  BY <1>1, <1>2, <1>4 DEF TokenInv, TokensIssued, GitTypeOK
<1>6. UnsavedIsFresh'
  BY <1>1, <1>2, <1>4 DEF TokenInv, UnsavedIsFresh
<1>7. LockIsHeldOnce' /\ HeldTokens'
  BY <1>1, <1>2, <1>3 DEF TokenInv, LockIsHeldOnce, Holding, HeldTokens
<1>8. StoredIsUnspent' /\ TokensUsedOnce'
  BY <1>1, <1>2 DEF TokenInv, StoredIsUnspent, TokensUsedOnce
<1> QED
  BY <1>5, <1>6, <1>7, <1>8 DEF TokenInv

(* The holder's token is spent for a fresh one, which it alone holds, or    *)
(* becomes a stray; what it presents again is a stray already.              *)
LEMMA RefreshKeepsTokens ==
  ASSUME TokenInv, GitTypeOK, NEW p \in Resolvers, Refresh(p)
  PROVE  TokenInv'
<1> USE TokenNumbers
<1> DEFINE token == resolver[p].token
<1>1. /\ resolver[p].at = "locked" /\ UNCHANGED <<secret, authorizer>>
      /\ replayed' = IF token \in spent THEN replayed \cup {token} ELSE replayed
  BY DEF Refresh
<1>2. \A q \in Resolvers \ {p} : resolver[q].at \notin {"locked", "storing"}
  BY <1>1 DEF TokenInv, LockIsHeldOnce, Holding
<1>3. TokensUsedOnce' \/ ~(strays \subseteq strays')
  BY <1>1 DEF TokenInv, HeldTokens, TokensUsedOnce
<1>4. CASE token \notin accepted
  <2>1. /\ \A q \in Resolvers : resolver'[q].at = (IF q = p THEN "failing" ELSE resolver[q].at)
                                /\ resolver'[q].token = resolver[q].token
        /\ UNCHANGED <<minted, accepted, spent, strays>>
    BY <1>4 DEF Refresh, Resolving, GitTypeOK
  <2>2. TokensIssued' /\ UnsavedIsFresh'
    BY <1>1, <2>1 DEF TokenInv, TokensIssued, UnsavedIsFresh
  <2>3. LockIsHeldOnce' /\ HeldTokens' /\ StoredIsUnspent'
    BY <1>1, <2>1 DEF TokenInv, LockIsHeldOnce, Holding, HeldTokens, StoredIsUnspent
  <2> QED
    BY <1>3, <2>1, <2>2, <2>3 DEF TokenInv
<1>5. CASE token \in accepted
  <2>1. /\ minted' = minted + 1 /\ spent' = spent \cup {token}
        /\ accepted' = (accepted \ {token}) \cup {minted + 1}
        /\ token \notin spent /\ token \in 1 .. minted /\ minted \in Nat
    BY <1>5 DEF Refresh, TokenInv, TokensIssued, GitTypeOK, Tokens
  <2>2. \/ /\ \A q \in Resolvers : resolver'[q].at = (IF q = p THEN "storing" ELSE resolver[q].at)
                     /\ resolver'[q].token = IF q = p THEN minted + 1 ELSE resolver[q].token
           /\ strays' = strays
        \/ /\ \A q \in Resolvers : resolver'[q].at = (IF q = p THEN "idle" ELSE resolver[q].at)
                     /\ resolver'[q].token = IF q = p THEN NoToken ELSE resolver[q].token
           /\ strays' = strays \cup {token}
    BY <1>5 DEF Refresh, Resolving, ResolveDone, NotResolving, GitTypeOK
  <2>3. TokensIssued'
    <3>1. secret' \in 0 .. minted' /\ spent' \subseteq 1 .. minted'
      <4>1. 0 .. minted \subseteq 0 .. minted' /\ 1 .. minted \subseteq 1 .. minted'
        BY <2>1
      <4> QED
        BY <1>1, <2>1, <4>1 DEF TokenInv, TokensIssued
    <3>2. accepted' \cap spent' = {}
      <4>1. minted + 1 \notin spent'
        BY <2>1 DEF TokenInv, TokensIssued
      <4> QED
        BY <2>1, <4>1 DEF TokenInv, TokensIssued
    <3>3. \A q \in Resolvers : resolver'[q].token \in 0 .. minted'
      BY <2>1, <2>2 DEF TokenInv, TokensIssued
    <3>4. \A q \in Resolvers : resolver'[q].at = "refreshing" => resolver'[q].token # NoToken
      BY <2>2 DEF TokenInv, TokensIssued
    <3> QED
      BY <3>1, <3>2, <3>3, <3>4 DEF TokensIssued
  <2>4. UnsavedIsFresh'
    BY <1>1, <2>1, <2>2 DEF TokenInv, UnsavedIsFresh
  <2>5. LockIsHeldOnce' /\ HeldTokens'
    <3>1. minted + 1 \notin spent'
      BY <2>1 DEF TokenInv, TokensIssued
    <3> QED
      BY <1>2, <2>2, <3>1 DEF LockIsHeldOnce, Holding, HeldTokens
  <2>6. StoredIsUnspent'
    BY <1>1, <1>2, <2>1, <2>2 DEF TokenInv, StoredIsUnspent
  <2> QED
    BY <1>3, <2>2, <2>3, <2>4, <2>5, <2>6 DEF TokenInv
<1> QED
  BY <1>4, <1>5

(* What is stored is the unspent token of the holder, or of an authorization. *)
LEMMA SecretIsReplaced ==
  ASSUME TokenInv, GitTypeOK, UNCHANGED <<minted, accepted, spent, replayed, strays>>,
         \/ \E p \in Resolvers : StoreRefreshed(p)
         \/ \E a \in Authorizers : PersistCredential(a)
         \/ DeleteSecret
  PROVE  TokenInv'
<1> USE TokenNumbers
<1>1. ASSUME NEW p \in Resolvers, StoreRefreshed(p) PROVE TokenInv'
  <2>1. /\ resolver[p].at = "storing" /\ secret' = resolver[p].token /\ authorizer' = authorizer
        /\ \A q \in Resolvers : resolver'[q].at = (IF q = p THEN "resolved" ELSE resolver[q].at)
                                /\ resolver'[q].token = resolver[q].token
    BY <1>1 DEF StoreRefreshed, Resolving, GitTypeOK
  <2>2. TokensIssued' /\ UnsavedIsFresh' /\ StoredIsUnspent'
    BY <2>1 DEF TokenInv, TokensIssued, UnsavedIsFresh, HeldTokens, StoredIsUnspent
  <2>3. LockIsHeldOnce' /\ HeldTokens' /\ TokensUsedOnce'
    BY <2>1 DEF TokenInv, LockIsHeldOnce, Holding, HeldTokens, TokensUsedOnce
  <2> QED
    BY <2>2, <2>3 DEF TokenInv
<1>2. ASSUME NEW a \in Authorizers, PersistCredential(a) PROVE TokenInv'
  <2>1. /\ authorizer[a].at = "saving" /\ secret' = authorizer[a].token /\ resolver' = resolver
        /\ \A b \in Authorizers : authorizer'[b] = IF b = a THEN NotAuthorizing ELSE authorizer[b]
    BY <1>2 DEF PersistCredential, GitTypeOK
  <2>2. TokensIssued' /\ StoredIsUnspent'
    <3>1. authorizer[a].token \in 1 .. minted /\ authorizer[a].token \notin spent
      BY <2>1 DEF TokenInv, UnsavedIsFresh
    <3>2. minted \in Nat /\ 1 .. minted \subseteq 0 .. minted
      BY DEF GitTypeOK, Tokens
    <3> QED
      BY <2>1, <3>1, <3>2 DEF TokenInv, TokensIssued, StoredIsUnspent
  <2>3. UnsavedIsFresh'
    BY <2>1 DEF TokenInv, UnsavedIsFresh, NotAuthorizing
  <2>4. LockIsHeldOnce' /\ HeldTokens' /\ TokensUsedOnce'
    BY <2>1 DEF TokenInv, LockIsHeldOnce, Holding, HeldTokens, TokensUsedOnce
  <2> QED
    BY <2>2, <2>3, <2>4 DEF TokenInv
<1>3. ASSUME DeleteSecret PROVE TokenInv'
  <2>1. secret' = NoToken /\ UNCHANGED <<resolver, authorizer>>
    BY <1>3 DEF DeleteSecret
  <2> QED
    BY <2>1 DEF TokenInv, TokensIssued, UnsavedIsFresh, LockIsHeldOnce, Holding, HeldTokens,
                StoredIsUnspent, TokensUsedOnce, GitTypeOK, Tokens
<1> QED
  BY <1>1, <1>2, <1>3

LEMMA TokenInvStep == GitTypeOK /\ TokenInv /\ [GitNext]_gitVars => TokenInv'
<1> SUFFICES ASSUME GitTypeOK, TokenInv, [GitNext]_gitVars PROVE TokenInv'
  OBVIOUS
<1> USE TokenNumbers DEF provider, calls
<1>0. /\ resolver \in [Resolvers -> Resolutions] /\ NotResolving \in Resolutions
      /\ NotResolving.at = "idle" /\ NotResolving.token = NoToken
  BY GitRows DEF GitTypeOK, Resolutions, NotResolving
<1>a. ASSUME NEW p \in Resolvers, NEW token \in {resolver[p].token, secret, NoToken}, NEW at,
             Resolving(p, at, token), at \in {"reading", "refreshing", "resolved", "failing",
                                              "confirming", "recording"},
             at = "refreshing" => token # NoToken, resolver[p].at # "storing",
             UNCHANGED <<secret, authorizer, minted, accepted, spent, replayed, strays>>
      PROVE  TokenInv'
  <2> DEFINE r == [[resolver[p] EXCEPT !.at = at] EXCEPT !.token = token]
  <2>1. r \in Resolutions /\ r.at = at /\ r.token = token
    BY <1>a, <1>0 DEF Resolutions, GitTypeOK
  <2>2. resolver' = [resolver EXCEPT ![p] = r]
    BY <1>a, <1>0 DEF Resolving
  <2> HIDE DEF r
  <2> QED
    BY <1>a, <2>1, <2>2, ResolverOutside
<1>b. ASSUME NEW p \in Resolvers, ResolveDone(p), strays \subseteq strays',
             resolver[p].at = "storing" /\ secret # NoToken => secret \in strays',
             UNCHANGED <<secret, authorizer, minted, accepted, spent, replayed>>
      PROVE  TokenInv'
  BY <1>b, <1>0, ResolverOutside DEF ResolveDone
<1>1. ASSUME NEW p \in Resolvers, BeginCredential(p) PROVE TokenInv'
  <2>1. PICK validates \in BOOLEAN : resolver' = [resolver EXCEPT ![p] =
          [NotResolving EXCEPT !.at = "asked", !.validates = validates,
                               !.saw = IF validates THEN connection ELSE @]]
    BY <1>1 DEF BeginCredential
  <2> DEFINE r == [NotResolving EXCEPT !.at = "asked", !.validates = validates,
                                       !.saw = IF validates THEN connection ELSE @]
  <2>2. r \in Resolutions /\ r.at = "asked" /\ r.token = NoToken
    BY <1>0 DEF Resolutions, GitTypeOK
  <2>3. resolver' = [resolver EXCEPT ![p] = r]
    BY <2>1
  <2> HIDE DEF r
  <2> QED
    BY <1>1, <2>2, <2>3, ResolverOutside DEF BeginCredential
<1>2. ASSUME NEW p \in Resolvers, ReadConnection(p) PROVE TokenInv'
  BY <1>2, <1>a, <1>b DEF ReadConnection
<1>3. ASSUME NEW p \in Resolvers, ReadStored(p) PROVE TokenInv'
  BY <1>3, <1>a DEF ReadStored
<1>4. ASSUME NEW p \in Resolvers, LockSecret(p) PROVE TokenInv'
  BY <1>4, LockKeepsTokens
<1>5. ASSUME NEW p \in Resolvers, Refresh(p) PROVE TokenInv'
  BY <1>5, RefreshKeepsTokens
<1>6. CASE \/ \E p \in Resolvers : StoreRefreshed(p)
           \/ \E a \in Authorizers : PersistCredential(a)
           \/ DeleteSecret
  <2>1. UNCHANGED <<minted, accepted, spent, replayed, strays>>
    BY <1>6 DEF StoreRefreshed, PersistCredential, DeleteSecret
  <2> QED
    BY <1>6, <2>1, SecretIsReplaced
<1>7. ASSUME NEW p \in Resolvers, RefreshLost(p) PROVE TokenInv'
  BY <1>7, <1>b DEF RefreshLost
<1>8. ASSUME NEW p \in Resolvers, UseCredential(p) PROVE TokenInv'
  BY <1>8, <1>a, <1>b DEF UseCredential
<1>9. ASSUME NEW p \in Resolvers, MarkAuthFailure(p) PROVE TokenInv'
  BY <1>9, <1>a, <1>b DEF MarkAuthFailure
<1>10. ASSUME NEW p \in Resolvers, RecordValidation(p) PROVE TokenInv'
  BY <1>10, <1>b DEF RecordValidation
<1>11. ASSUME NEW a \in Authorizers, NEW s \in OAuthStates, Authorize(a, s) PROVE TokenInv'
  <2>1. CASE UNCHANGED <<authorizer, minted, accepted>>
    BY <1>11, <2>1, OutsideResolvers DEF Authorize
  <2>2. CASE CodeExchanged(a)
    <3>1. /\ minted \in Nat /\ minted' = minted + 1 /\ accepted' = accepted \cup {minted + 1}
          /\ UNCHANGED <<secret, resolver, spent, replayed, strays>>
          /\ \A b \in Authorizers :
               authorizer'[b] = IF b = a THEN [at |-> "upserting", token |-> minted + 1]
                                ELSE authorizer[b]
      BY <1>11, <2>2 DEF Authorize, CodeExchanged, GitTypeOK, Tokens
    <3>2. TokensIssued'
      BY <3>1 DEF TokenInv, TokensIssued
    <3>3. UnsavedIsFresh'
      BY <3>1 DEF TokenInv, TokensIssued, UnsavedIsFresh
    <3>4. LockIsHeldOnce' /\ HeldTokens' /\ StoredIsUnspent' /\ TokensUsedOnce'
      BY <3>1 DEF TokenInv, LockIsHeldOnce, Holding, HeldTokens, StoredIsUnspent, TokensUsedOnce
    <3> QED
      BY <3>2, <3>3, <3>4 DEF TokenInv
  <2> QED
    BY <1>11, <2>1, <2>2 DEF Authorize
<1>12. ASSUME NEW a \in Authorizers, UpsertConnection(a) \/ AuthorizationFails(a) PROVE TokenInv'
  BY <1>12, OutsideResolvers DEF UpsertConnection, AuthorizationFails, NotAuthorizing, GitTypeOK
<1>13. ASSUME NEW s \in OAuthStates, StartAuthorization(s) PROVE TokenInv'
  BY <1>13, OutsideResolvers DEF StartAuthorization
<1>14. CASE BeginDisconnect \/ RevokeRemotely \/ DetachSecret \/ Disconnect \/ ExpiryNears
  BY <1>14, OutsideResolvers DEF BeginDisconnect, RevokeRemotely, DetachSecret, Disconnect, ExpiryNears
<1>15. CASE UNCHANGED gitVars
  BY <1>15, OutsideResolvers DEF gitVars
<1> QED
  BY <1>1, <1>2, <1>3, <1>4, <1>5, <1>6, <1>7, <1>8, <1>9, <1>10, <1>11, <1>12, <1>13, <1>14, <1>15
  DEF GitNext, ResolverStep, AuthorizerStep

(* The connection, its secret, states and calls keep their shapes: the type  *)
(* invariant of server/git.                                                 *)
THEOREM GitTyped == GitSpec => []GitTypeOK
<1>1. GitTypeOK /\ TokenInv /\ [GitNext]_gitVars => (GitTypeOK /\ TokenInv)'
  BY GitTypeStep, TokenInvStep DEF TokenInv
<1> QED
  BY <1>1, GitTypeInit, TokenInvInit, PTL DEF GitSpec

(* A refresh token that was answered is presented again only when its        *)
(* successor was lost or the row was deleted under the one who waited: the  *)
(* second read under the row's lock suffices, for any number of callers.    *)
THEOREM RefreshTokensUsedOnce == GitSpec => []TokensUsedOnce
<1>1. GitTypeOK /\ TokenInv /\ [GitNext]_gitVars => (GitTypeOK /\ TokenInv)'
  BY GitTypeStep, TokenInvStep DEF TokenInv
<1>2. TokenInv => TokensUsedOnce
  BY DEF TokenInv
<1> QED
  BY <1>1, <1>2, GitTypeInit, TokenInvInit, PTL DEF GitSpec

-----------------------------------------------------------------------------
(* The run controls starts any of four components, the quota of the          *)
(* reservation store among them; a step of one is a stutter of the others,   *)
(* so its specification implements each, and what is proved of a component   *)
(* holds of it.                                                             *)
THEOREM ControlsImplementEach == ControlsSpec => Spec /\ KeysSpec /\ ConnectorSpec /\ GitSpec
<1>1. ControlsInit => Init /\ KeysInit /\ ConnectorInit /\ GitInit
  BY DEF ControlsInit
<1>2. [ControlsNext]_<<part, vars, keyVars, connectorVars, gitVars>>
      => [Next]_vars /\ [KeysNext]_keyVars /\ [ConnectorNext]_connectorVars /\ [GitNext]_gitVars
  BY DEF ControlsNext
<1> QED
  BY <1>1, <1>2, PTL DEF ControlsSpec, Spec, KeysSpec, ConnectorSpec, GitSpec

(* Every row and call of the four keeps its shape.                          *)
THEOREM ControlsTyped == ControlsSpec => []ControlsTypeOK
<1>1. TypeOK /\ KeysTypeOK /\ ConnectorTypeOK /\ GitTypeOK => ControlsTypeOK
  BY DEF ControlsTypeOK
<1> QED
  BY <1>1, ControlsImplementEach, ReservationsTyped, KeysTyped, ConnectorTyped, GitTyped, PTL
=============================================================================
