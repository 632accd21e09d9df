--------------------------- MODULE DispatchMarked ---------------------------
(***************************************************************************)
(* What the dispatch queue and its workers promise together however old    *)
(* the clock readings of their transactions are: DispatchOnce, but for one *)
(* step more.  A claim that chose a run before its marker was committed    *)
(* may overtake the marker and open the run again.  Each call still has a  *)
(* marker of its own, the markers are bounded, a confirmed or held run is  *)
(* never opened again, and only a call whose marker was overtaken can      *)
(* leave a run that is no longer committed.                                *)
(***************************************************************************)
EXTENDS Integers

CONSTANTS Runs, MaxMarks

VARIABLES phase, marks, calls

markedVars == <<phase, marks, calls>>

Init ==
  /\ phase = [r \in Runs |-> "open"]
  /\ marks = [r \in Runs |-> 0]
  /\ calls = [r \in Runs |-> 0]

(* The markers that a claim overtook: all but the one that stands, if any. *)
Standing     == {"committed", "confirmed", "held"}
Overtaken(r) == marks[r] - IF phase[r] \in Standing THEN 1 ELSE 0

Move(r, from, to) == phase[r] = from /\ phase' = [phase EXCEPT ![r] = to]

Commit(r) ==
  /\ marks[r] < MaxMarks
  /\ Move(r, "open", "committed")
  /\ marks' = [marks EXCEPT ![r] = @ + 1]
  /\ UNCHANGED calls

Overtake(r) == marks[r] < MaxMarks /\ Move(r, "committed", "open") /\ UNCHANGED <<marks, calls>>
Confirm(r)  == calls[r] > 0 /\ Move(r, "committed", "confirmed") /\ UNCHANGED <<marks, calls>>
Hold(r)     == Move(r, "committed", "held") /\ UNCHANGED <<marks, calls>>

(* The harness is called under the marker that stands or one overtaken. *)
Call(r) ==
  /\ calls[r] < marks[r]
  /\ phase[r] = "committed" \/ Overtaken(r) > 0
  /\ calls' = [calls EXCEPT ![r] = @ + 1]
  /\ UNCHANGED <<phase, marks>>

(* Any number of runs may close together: one sweep expires all that are due. *)
Close ==
  /\ \E S \in SUBSET {r \in Runs : phase[r] = "open"} :
       phase' = [r \in Runs |-> IF r \in S THEN "closed" ELSE phase[r]]
  /\ UNCHANGED <<marks, calls>>

Next ==
  \/ Close
  \/ \E r \in Runs : Commit(r) \/ Overtake(r) \/ Call(r) \/ Confirm(r) \/ Hold(r)

Spec == Init /\ [][Next]_markedVars
=============================================================================
