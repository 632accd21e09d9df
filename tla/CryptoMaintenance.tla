-------------------------- MODULE CryptoMaintenance --------------------------
(***************************************************************************)
(* The encrypted test-bench definitions of one tenant, and the approved    *)
(* maintenance that rewraps them under the new key                         *)
(* (server/test-bench/definition-store.ts,                                 *)
(* server/security/managed-ciphertext-rewrap.ts and                        *)
(* crypto-maintenance-executor.ts).  A ciphertext opens only under the     *)
(* revision it was sealed for; editors and the rewrap hold the row lock    *)
(* for their whole transaction, so each is one step.                       *)
(***************************************************************************)
EXTENDS Naturals, FiniteSets

CONSTANTS BenchDefinitions, Approvals, Executors, MaxRevision, MaxRows, NoApproval

ASSUME MaintenanceAssumption ==
    /\ MaxRevision \in Nat \ {0, 1} /\ MaxRows \in Nat \ {0}
    /\ NoApproval \notin Approvals

VARIABLES definition,   \* test_bench_definitions
          written,      \* the content each definition's last accepted write meant
          keyed,        \* the servers' keyring has a v2 key
          operation,    \* crypto_maintenance_operations, by approval
          executor,     \* each execution of an approval
          rewraps       \* committed batches, by approval

maintenanceVars == <<definition, written, keyed, operation, executor, rewraps>>

Revisions == 0..MaxRevision
NoDefinition == [state |-> "none", revision |-> 0, version |-> 1, sealed |-> 0, cases |-> 0]
DefinitionRows == [state : {"none", "live", "archived"}, revision : Revisions,
                   version : {1, 2}, sealed : Revisions, cases : Revisions]
ExecutorIdle == [at |-> "idle", approval |-> NoApproval]

MaintenanceInit ==
    /\ definition = [d \in BenchDefinitions |-> NoDefinition]
    /\ written = [d \in BenchDefinitions |-> 0]
    /\ keyed = FALSE
    /\ operation = [a \in Approvals |-> "none"]
    /\ executor = [e \in Executors |-> ExecutorIdle]
    /\ rewraps = [a \in Approvals |-> 0]

-----------------------------------------------------------------------------
KeyVersion == IF keyed THEN 2 ELSE 1

CreateDefinition(d) ==
    /\ definition[d].state = "none"
    /\ definition' = [definition EXCEPT ![d] =
         [state |-> "live", revision |-> 1, version |-> KeyVersion, sealed |-> 1, cases |-> 1]]
    /\ written' = [written EXCEPT ![d] = 1]
    /\ UNCHANGED <<keyed, operation, executor, rewraps>>

\* Mutant: archiving seals the ciphertext of the new revision's number.
ArchiveUnderNextRevision(d, expected) ==
    /\ definition[d].state = "live" /\ definition[d].revision = expected
    /\ definition' = [definition EXCEPT ![d].state = "archived", ![d].revision = @ + 1, ![d].sealed = @ + 1]
    /\ UNCHANGED <<written, keyed, operation, executor, rewraps>>

\* The editor names the revision it saw; the new content is numbered by its revision.
UpdateDefinition(d, expected) ==
    LET next == definition[d].revision + 1
    IN  /\ definition[d].state = "live" /\ definition[d].revision = expected
        /\ next < MaxRevision
        /\ definition' = [definition EXCEPT ![d] =
             [@ EXCEPT !.revision = next, !.version = KeyVersion, !.sealed = next, !.cases = next]]
        /\ written' = [written EXCEPT ![d] = next]
        /\ UNCHANGED <<keyed, operation, executor, rewraps>>

\* Archiving moves the revision on and leaves the ciphertext as it was sealed.
ArchiveDefinition(d, expected) ==
    /\ definition[d].state = "live" /\ definition[d].revision = expected
    /\ definition' = [definition EXCEPT ![d].state = "archived", ![d].revision = @ + 1]
    /\ UNCHANGED <<written, keyed, operation, executor, rewraps>>

ConfigureKey ==
    /\ ~keyed /\ keyed' = TRUE
    /\ UNCHANGED <<definition, written, operation, executor, rewraps>>

-----------------------------------------------------------------------------
\* Mutant: only an admitted operation holds the target.
UnfinishedIfAdmitted == {a \in Approvals : operation[a] = "admitted"}

Unfinished == {a \in Approvals : operation[a] \in {"admitted", "running", "uncertain"}}
At(e, at) == executor' = [executor EXCEPT ![e].at = at]
ExecutionEnds(e) == executor' = [executor EXCEPT ![e] = ExecutorIdle]

\* Admission: the approval was never used and nothing unfinished holds the target.
ReserveOperation(e, a) ==
    /\ executor[e].at = "idle" /\ keyed
    /\ operation[a] = "none" /\ Unfinished = {}
    /\ operation' = [operation EXCEPT ![a] = "admitted"]
    /\ executor' = [executor EXCEPT ![e] = [at |-> "reserved", approval |-> a]]
    /\ UNCHANGED <<definition, written, keyed, rewraps>>

StartOperation(e) ==
    /\ executor[e].at = "reserved" /\ operation[executor[e].approval] = "admitted"
    /\ operation' = [operation EXCEPT ![executor[e].approval] = "running"]
    /\ At(e, "started")
    /\ UNCHANGED <<definition, written, keyed, rewraps>>

\* The reply is lost after the commit: nothing is executed and nothing retried.
StartUncertain(e) ==
    /\ executor[e].at = "reserved" /\ operation[executor[e].approval] = "admitted"
    /\ operation' = [operation EXCEPT ![executor[e].approval] = "running"]
    /\ ExecutionEnds(e)
    /\ UNCHANGED <<definition, written, keyed, rewraps>>

SealedRevision(row) == IF row.state = "archived" THEN row.revision - 1 ELSE row.revision

\* A wrong revision does not open the old ciphertext and the whole batch rolls back.
Opens(row) == row.sealed = SealedRevision(row)
Rewrapped(row) == [row EXCEPT !.version = 2, !.sealed = SealedRevision(row)]

\* A batch takes the v1 rows nobody holds a lock on.
RewrapNext(e) ==
    /\ executor[e].at = "started"
    /\ \E batch \in SUBSET {d \in BenchDefinitions :
                               definition[d].state # "none" /\ definition[d].version = 1} :
         /\ Cardinality(batch) <= MaxRows
         /\ \A d \in batch : Opens(definition[d])
         /\ definition' = [d \in BenchDefinitions |->
                             IF d \in batch THEN Rewrapped(definition[d]) ELSE definition[d]]
    /\ rewraps' = [rewraps EXCEPT ![executor[e].approval] = @ + 1]
    /\ At(e, "completing") \/ At(e, "uncertain")
    /\ UNCHANGED <<written, keyed, operation>>

RewrapFails(e) ==
    /\ executor[e].at = "started"
    /\ At(e, "uncertain")
    /\ UNCHANGED <<definition, written, keyed, operation, rewraps>>

CompleteOperation(e) ==
    LET a == executor[e].approval
    IN  /\ executor[e].at = "completing"
        /\ \/ /\ operation[a] = "running"
              /\ operation' = [operation EXCEPT ![a] = "completed"]
              /\ ExecutionEnds(e) \/ At(e, "uncertain")
           \/ UNCHANGED operation /\ At(e, "uncertain")
        /\ UNCHANGED <<definition, written, keyed, rewraps>>

MarkUncertain(e) ==
    LET a == executor[e].approval
    IN  /\ executor[e].at = "uncertain"
        /\ IF operation[a] \in {"admitted", "running"}
             THEN operation' = [operation EXCEPT ![a] = "uncertain"]
             ELSE UNCHANGED operation
        /\ ExecutionEnds(e)
        /\ UNCHANGED <<definition, written, keyed, rewraps>>

ExecutorDies(e) ==
    /\ executor[e].at # "idle"
    /\ ExecutionEnds(e)
    /\ UNCHANGED <<definition, written, keyed, operation, rewraps>>

-----------------------------------------------------------------------------
Edit(d) ==
    \/ CreateDefinition(d)
    \/ \E expected \in Revisions : UpdateDefinition(d, expected) \/ ArchiveDefinition(d, expected)

Execution(e) ==
    \/ \E a \in Approvals : ReserveOperation(e, a)
    \/ StartOperation(e) \/ StartUncertain(e) \/ RewrapNext(e) \/ RewrapFails(e)
    \/ CompleteOperation(e) \/ MarkUncertain(e) \/ ExecutorDies(e)

MaintenanceNext ==
    \/ ConfigureKey
    \/ \E d \in BenchDefinitions : Edit(d)
    \/ \E e \in Executors : Execution(e)

MaintenanceSpec == MaintenanceInit /\ [][MaintenanceNext]_maintenanceVars

-----------------------------------------------------------------------------
\* Every definition, operation and execution has its shape.
MaintenanceTypeOK ==
    /\ definition \in [BenchDefinitions -> DefinitionRows]
    /\ written \in [BenchDefinitions -> Revisions]
    /\ keyed \in BOOLEAN
    /\ operation \in [Approvals -> {"none", "admitted", "running", "completed", "uncertain"}]
    /\ executor \in [Executors -> [at : {"idle", "reserved", "started", "completing", "uncertain"},
                                   approval : Approvals \cup {NoApproval}]]
    /\ rewraps \in [Approvals -> Nat]

\* Whatever edits, archivings and rewraps cross, every stored ciphertext opens
\* under the revision its reader will use and holds the last accepted content.
DefinitionsReadable ==
    \A d \in BenchDefinitions :
      definition[d].state # "none" => Opens(definition[d]) /\ definition[d].cases = written[d]

\* An approval rewraps at most once, a completed one did, an uncertain or
\* stopped one is never taken up again, and no two executions are ever at it together.
MaintenanceRunsOnce ==
    /\ \A a \in Approvals :
         /\ rewraps[a] <= 1
         /\ operation[a] = "completed" => rewraps[a] = 1
    /\ \A e, f \in Executors :
         executor[e].at # "idle" /\ executor[f].at # "idle"
           /\ operation[executor[e].approval] # "completed"
           /\ operation[executor[f].approval] # "completed" => e = f
=============================================================================
