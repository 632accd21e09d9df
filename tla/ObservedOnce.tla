---------------------------- MODULE ObservedOnce ----------------------------
(***************************************************************************)
(* What an observed test-bench run promises about the provider calls it    *)
(* pays for (adr-0022 and adr-0023), whatever its workers go through: each *)
(* call is announced before it leaves, leaves at most once and only after  *)
(* all earlier ones were confirmed; a score rests on every call; and once  *)
(* a run is over no further call is announced.                             *)
(***************************************************************************)
EXTENDS Naturals

CONSTANTS Runs,   \* runs that may be started
          Total   \* the provider calls of a run

VARIABLE book     \* what is known of each run and its calls

Calls == 1 .. Total

OnceInit ==
  book = [r \in Runs |-> [phase |-> "none", announced |-> {}, sent |-> {}, confirmed |-> {}]]

Over == {"complete", "failed", "canceled"}

Start(r) ==
  /\ book[r].phase = "none"
  /\ book' = [book EXCEPT ![r].phase = "open"]

Announce(r, c) ==
  /\ book[r].phase = "open"
  /\ book[r].announced = 1 .. c - 1 /\ book[r].confirmed = 1 .. c - 1
  /\ book' = [book EXCEPT ![r].announced = @ \cup {c}]

Send(r, c) ==
  /\ c \in book[r].announced \ book[r].sent
  /\ book' = [book EXCEPT ![r].sent = @ \cup {c}]

(* The answer of a call that was on its way when the run was canceled still *)
(* counts as evidence.                                                      *)
Confirm(r, c) ==
  /\ book[r].phase \in {"open", "canceled"}
  /\ c \in book[r].sent \ book[r].confirmed
  /\ book' = [book EXCEPT ![r].confirmed = @ \cup {c}]

Finish(r, phase) ==
  /\ book[r].phase = "open"
  /\ phase = "complete" => book[r].confirmed = Calls
  /\ book' = [book EXCEPT ![r].phase = phase]

OnceNext ==
  \E r \in Runs :
    \/ Start(r)
    \/ \E c \in Calls : Announce(r, c) \/ Send(r, c) \/ Confirm(r, c)
    \/ \E phase \in Over : Finish(r, phase)

OnceSpec == OnceInit /\ [][OnceNext]_book
=============================================================================
