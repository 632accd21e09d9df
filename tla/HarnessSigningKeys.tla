-------------------------- MODULE HarnessSigningKeys --------------------------
(***************************************************************************)
(* The signing keys of one harness adapter                                 *)
(* (server/harness/signing-key-registry.ts): rotation with an overlap,     *)
(* revocation, and the lookup that verifies a signed event.  Rotations and *)
(* lookups read the clock, then wait for the vault, then act.              *)
(***************************************************************************)
EXTENDS Naturals, FiniteSets

CONSTANTS MaxVersion, KeyAdmins, Verifiers, Horizon,
          Lifetimes,   \* how long a submitted key may be valid
          Antedates,   \* how long before its submission it may have begun
          Graces       \* the overlaps an administrator asks for

ASSUME SigningAssumption ==
    /\ MaxVersion \in Nat \ {0} /\ Horizon \in Nat
    /\ Lifetimes \subseteq Nat \ {0} /\ Antedates \subseteq Nat /\ Graces \subseteq Nat

VARIABLES keys,        \* harness_adapter_signing_keys, by key_version
          keyClock,
          rotation,    \* each administrator's call of activate
          lookup,      \* each verifier's call of resolveSecrets
          until        \* from when a key must not verify: replaced with its grace, or revoked

keyVars == <<keys, keyClock, rotation, lookup, until>>

Versions == 1..MaxVersion
KeyTimes == 0..Horizon
NoKey == [status |-> "none", notBefore |-> 0, expires |-> 0]
KeyRows == [status : {"none", "active", "retiring", "revoked"}, notBefore : KeyTimes, expires : Nat]
NoRotation == [at |-> "idle", read |-> 0, version |-> 1, grace |-> 0, key |-> NoKey]
NoLookup == [at |-> "idle", read |-> 0, barred |-> {}, found |-> {}]
Never == Horizon + 1

KeysInit ==
    /\ keys = [v \in Versions |-> NoKey]
    /\ keyClock = 0
    /\ rotation = [a \in KeyAdmins |-> NoRotation]
    /\ lookup = [c \in Verifiers |-> NoLookup]
    /\ until = [v \in Versions |-> Never]

Earlier(s, t) == IF s < t THEN s ELSE t
Present == {v \in Versions : keys[v].status # "none"}
Barred == {v \in Versions : until[v] <= keyClock}

\* The key may be valid from any time up to the reading, and runs out after it.
BeginActivate(a) ==
    /\ rotation[a].at = "idle"
    /\ \E v \in Versions, grace \in Graces, life \in Lifetimes, early \in Antedates :
         /\ early <= keyClock
         /\ rotation' = [rotation EXCEPT ![a] =
              [at |-> "reading", read |-> keyClock, version |-> v, grace |-> grace,
               key |-> [status |-> "active", notBefore |-> keyClock - early,
                        expires |-> keyClock + life]]]
    /\ UNCHANGED <<keys, keyClock, lookup, until>>

\* Mutant: the replaced key keeps its own expiry.
RetiredAsItIs(key, at, grace) ==
    IF grace = 0 THEN [key EXCEPT !.status = "revoked"]
    ELSE [key EXCEPT !.status = IF key.expires > at THEN "retiring" ELSE "revoked"]

\* The row of the key being replaced, by the clock read before the vault answered.
Retired(key, at, grace) ==
    IF grace = 0 THEN [key EXCEPT !.status = "revoked"]
    ELSE [key EXCEPT !.status = IF key.expires > at THEN "retiring" ELSE "revoked",
                     !.expires = Earlier(key.expires, at + grace)]

AfterRotation(call) ==
    [v \in Versions |->
       IF v = call.version THEN call.key
       ELSE CASE keys[v].status = "retiring" -> [keys[v] EXCEPT !.status = "revoked"]
              [] keys[v].status = "active" -> Retired(keys[v], call.read, call.grace)
              [] OTHER -> keys[v]]

WellFormed(rows) == \A v \in Versions : rows[v].status # "none" => rows[v].expires > rows[v].notBefore

CommitActivate(a) ==
    LET call == rotation[a]
    IN  /\ call.at = "reading"
        /\ \A v \in Present : v < call.version
        /\ WellFormed(AfterRotation(call))
        /\ keys' = AfterRotation(call)
        /\ until' = [v \in Versions |->
             CASE keys[v].status = "retiring" -> Earlier(until[v], keyClock)
               [] keys[v].status = "active" -> Earlier(until[v], keyClock + call.grace)
               [] OTHER -> until[v]]
        /\ rotation' = [rotation EXCEPT ![a] = NoRotation]
        /\ UNCHANGED <<keyClock, lookup>>

ActivateFails(a) ==
    /\ rotation[a].at = "reading"
    /\ rotation' = [rotation EXCEPT ![a] = NoRotation]
    /\ UNCHANGED <<keys, keyClock, lookup, until>>

Revoke(v) ==
    /\ keys[v].status # "none"
    /\ keys' = [keys EXCEPT ![v].status = "revoked"]
    /\ until' = [until EXCEPT ![v] = Earlier(until[v], keyClock)]
    /\ UNCHANGED <<keyClock, rotation, lookup>>

BeginResolve(c) ==
    /\ lookup[c].at = "idle"
    /\ lookup' = [lookup EXCEPT ![c] = [NoLookup EXCEPT !.at = "reading", !.read = keyClock,
                                                        !.barred = Barred]]
    /\ UNCHANGED <<keys, keyClock, rotation, until>>

Usable(v, at) ==
    /\ keys[v].status \in {"active", "retiring"}
    /\ keys[v].notBefore <= at /\ keys[v].expires > at

\* No answer without the active key; the secrets then come one by one.
ReadKeys(c) ==
    LET found == {v \in Versions : Usable(v, lookup[c].read)}
    IN  /\ lookup[c].at = "reading"
        /\ lookup' = [lookup EXCEPT ![c] =
             IF \E v \in found : keys[v].status = "active"
               THEN [lookup[c] EXCEPT !.at = "fetching", !.found = found]
               ELSE NoLookup]
        /\ UNCHANGED <<keys, keyClock, rotation, until>>

ResolveEnds(c) ==
    /\ lookup[c].at = "fetching"
    /\ lookup' = [lookup EXCEPT ![c] = NoLookup]
    /\ UNCHANGED <<keys, keyClock, rotation, until>>

KeyTick ==
    /\ keyClock < Horizon
    /\ keyClock' = keyClock + 1
    /\ UNCHANGED <<keys, rotation, lookup, until>>

KeysNext ==
    \/ \E a \in KeyAdmins : BeginActivate(a) \/ CommitActivate(a) \/ ActivateFails(a)
    \/ \E v \in Versions : Revoke(v)
    \/ \E c \in Verifiers : BeginResolve(c) \/ ReadKeys(c) \/ ResolveEnds(c)
    \/ KeyTick

KeysSpec == KeysInit /\ [][KeysNext]_keyVars

-----------------------------------------------------------------------------
\* Every key row and every call has its shape.
KeysTypeOK ==
    /\ keys \in [Versions -> KeyRows]
    /\ keyClock \in KeyTimes
    /\ rotation \in [KeyAdmins -> [at : {"idle", "reading"}, read : KeyTimes, version : Versions,
                                   grace : Graces \cup {0}, key : KeyRows]]
    /\ lookup \in [Verifiers -> [at : {"idle", "reading", "fetching"}, read : KeyTimes,
                                 barred : SUBSET Versions, found : SUBSET Versions]]
    /\ until \in [Versions -> Nat]

\* A lookup that began after a key was revoked, or after the grace of its
\* replacement ran out, never answers with that key, whatever clock the
\* replacement went by and however many rotations crossed.
BarredNeverVerifies == \A c \in Verifiers : lookup[c].found \cap lookup[c].barred = {}

\* At most one active and one retiring key, and an active one is the newest ever
\* issued: the unique indexes are never what stops a rotation.
KeysInOrder ==
    \A v, u \in Versions :
      /\ keys[v].status = keys[u].status /\ keys[v].status \in {"active", "retiring"} => v = u
      /\ keys[v].status = "active" /\ keys[u].status # "none" => u <= v
=============================================================================
