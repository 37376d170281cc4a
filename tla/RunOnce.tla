-------------------------------- MODULE RunOnce --------------------------------
(***************************************************************************)
(* What the server promises an agent about its writes, with no word of     *)
(* connections, retries, keys or stores: a call asks for an operation, an  *)
(* operation runs at most once, and a call is told either of a failure or  *)
(* of the one run of exactly what it asked for.                            *)
(*                                                                         *)
(* A failure promises nothing about the operation, which may run later: a  *)
(* request given up by the client can still arrive.                        *)
(***************************************************************************)
CONSTANTS
  Calls,
  Operations,   \* what runs at most once
  Requests,     \* what a call may ask for
  Runs,         \* names of runs
  Nothing       \* not asked yet, not told yet

VARIABLES
  asked,        \* the operation and request of each call
  performed,    \* the operations that have run, each with its request and run
  told          \* what each call has been told

vars == <<asked, performed, told>>

\* "first": the run is yours.  "again": it is the run of an earlier identical request.
\* "silent": the answer has no body and does not say which.
Tellings == {"first", "again", "silent"}

Init ==
  /\ asked = [c \in Calls |-> Nothing]
  /\ performed = {}
  /\ told = [c \in Calls |-> Nothing]

Ask(c, operation, request) ==
  /\ asked[c] = Nothing /\ told[c] = Nothing
  /\ asked' = [asked EXCEPT ![c] = [operation |-> operation, request |-> request]]
  /\ UNCHANGED <<performed, told>>

Perform(c, run) ==
  /\ asked[c] # Nothing
  /\ \A p \in performed : p.operation # asked[c].operation
  /\ performed' = performed \cup
       {[operation |-> asked[c].operation, request |-> asked[c].request, run |-> run]}
  /\ UNCHANGED <<asked, told>>

Fail(c) ==
  /\ told[c] = Nothing
  /\ told' = [told EXCEPT ![c] = [how |-> "failed", run |-> Nothing]]
  /\ UNCHANGED <<asked, performed>>

\* Of the calls told of a run, at most one is told that the run is its own.
Tell(c, p, how) ==
  /\ told[c] = Nothing
  /\ asked[c] = [operation |-> p.operation, request |-> p.request]
  /\ how = "first" => \A d \in Calls : told[d] # [how |-> "first", run |-> p.run]
  /\ told' = [told EXCEPT ![c] = [how |-> how, run |-> p.run]]
  /\ UNCHANGED <<asked, performed>>

Next ==
  \E c \in Calls :
    \/ \E o \in Operations, r \in Requests : Ask(c, o, r)
    \/ \E run \in Runs : Perform(c, run)
    \/ Fail(c)
    \/ \E p \in performed, how \in Tellings : Tell(c, p, how)

Spec == Init /\ [][Next]_vars
===============================================================================
