---------------------------- MODULE DispatchOnce ----------------------------
(***************************************************************************)
(* What the dispatch queue and its workers promise together, without       *)
(* leases, clocks, tokens or workers (adr-0012): a run is either closed    *)
(* before anything is sent, or committed to exactly one dispatch, and a    *)
(* committed run is called at most once and then confirmed or held for an  *)
(* operator.  Nothing leads back.                                          *)
(***************************************************************************)
EXTENDS Naturals

CONSTANT Runs

VARIABLES phase, calls

onceVars == <<phase, calls>>

Init == phase = [r \in Runs |-> "open"] /\ calls = [r \in Runs |-> 0]

Move(r, from, to) == phase[r] = from /\ phase' = [phase EXCEPT ![r] = to]

Commit(r)  == Move(r, "open", "committed") /\ UNCHANGED calls
Confirm(r) == calls[r] = 1 /\ Move(r, "committed", "confirmed") /\ UNCHANGED calls
Hold(r)    == Move(r, "committed", "held") /\ UNCHANGED calls

(* The harness is called while the commitment is the last thing recorded. *)
Call(r) ==
  /\ phase[r] = "committed" /\ calls[r] = 0
  /\ calls' = [calls EXCEPT ![r] = 1]
  /\ UNCHANGED phase

(* Any number of runs may close together: one sweep expires all that are due. *)
Close ==
  /\ \E S \in SUBSET {r \in Runs : phase[r] = "open"} :
       phase' = [r \in Runs |-> IF r \in S THEN "closed" ELSE phase[r]]
  /\ UNCHANGED calls

Next == Close \/ \E r \in Runs : Commit(r) \/ Call(r) \/ Confirm(r) \/ Hold(r)

Spec == Init /\ [][Next]_onceVars
=============================================================================
