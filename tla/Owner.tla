-------------------------------- MODULE Owner -------------------------------
(***************************************************************************)
(* The owner of one device: a program of theirs that uses the GPU, the     *)
(* button with which they take the device back by hand, and the monitor of *)
(* pool/owner.py that notices the program. Both reach the daemon through   *)
(* set_owner_busy, from threads of their own.                              *)
(*                                                                         *)
(* A reading that fails (no nvidia-smi) changes nothing and is left out.   *)
(***************************************************************************)
EXTENDS Naturals

CONSTANTS
  BusyAfter,   \* readings over the line before backing off
  IdleAfter,   \* readings under it before coming back
  Buttons      \* which buttons the owner presses: TRUE takes back, FALSE lends

ASSUME OwnerAssumption ==
  /\ BusyAfter \in Nat \ {0}
  /\ IdleAfter \in Nat \ {0}
  /\ Buttons \subseteq BOOLEAN

VARIABLES
  inUse,      \* a program of the owner's is over the line right now
  over,       \* OwnerMonitor._over, _under: counted no further than they matter
  under,
  triggered,  \* OwnerMonitor.triggered
  calling,    \* the set_busy call the monitor is about to make, if any
  state,      \* the daemon's _state
  byHand,     \* history: the owner started this drain by hand, and has not ended it
  overruled,  \* history: ... lent by hand what the monitor holds to be in use
  quiet       \* history: how many readings in a row, up to now, saw no use

vars == <<inUse, over, under, triggered, calling, state, byHand, overruled, quiet>>

Calls == {"none", "busy", "idle"}

TypeOK ==
  /\ inUse \in BOOLEAN
  /\ over \in 0..BusyAfter
  /\ under \in 0..IdleAfter
  /\ triggered \in BOOLEAN
  /\ calling \in Calls
  /\ state \in {"active", "draining", "away"}
  /\ byHand \in BOOLEAN
  /\ overruled \in BOOLEAN
  /\ quiet \in 0..IdleAfter

Init ==
  /\ inUse = FALSE
  /\ over = 0
  /\ under = 0
  /\ triggered = FALSE
  /\ calling = "none"
  /\ state = "active"
  /\ byHand = FALSE
  /\ overruled = FALSE
  /\ quiet = 0

UpTo(n, bound) == IF n < bound THEN n + 1 ELSE bound

\* Mutant: only a drain that is still going on is called off.
SetOwnerBusyNoReturn(busy) ==
  state' = CASE busy /\ state = "active" -> "draining"
             [] ~busy /\ state = "draining" -> "active"
             [] OTHER -> state

\* Daemon.set_owner_busy
SetOwnerBusy(busy) ==
  state' = CASE busy /\ state = "active" -> "draining"
             [] ~busy /\ state # "active" -> "active"
             [] OTHER -> state

ProgramStarts ==
  /\ ~inUse
  /\ inUse' = TRUE
  /\ UNCHANGED <<over, under, triggered, calling, state, byHand, overruled, quiet>>

ProgramEnds ==
  /\ inUse
  /\ inUse' = FALSE
  /\ UNCHANGED <<over, under, triggered, calling, state, byHand, overruled, quiet>>

\* Mutants: quiet readings are counted through; having come down is forgotten.
SampleInUseKeepsCount ==
  /\ calling = "none"
  /\ inUse
  /\ over' = UpTo(over, BusyAfter)
  /\ IF over' >= BusyAfter /\ ~triggered
     THEN triggered' = TRUE /\ calling' = "busy"
     ELSE UNCHANGED <<triggered, calling>>
  /\ quiet' = 0
  /\ UNCHANGED <<inUse, under, state, byHand, overruled>>

SampleQuietStaysUp ==
  /\ calling = "none"
  /\ ~inUse
  /\ under' = UpTo(under, IdleAfter)
  /\ over' = 0
  /\ calling' = IF under' >= IdleAfter /\ triggered THEN "idle" ELSE "none"
  /\ quiet' = UpTo(quiet, IdleAfter)
  /\ UNCHANGED <<inUse, triggered, state, byHand, overruled>>

\* OwnerMonitor.sample, up to the call it makes.
SampleInUse ==
  /\ calling = "none"
  /\ inUse
  /\ over' = UpTo(over, BusyAfter)
  /\ under' = 0
  /\ IF over' >= BusyAfter /\ ~triggered
     THEN triggered' = TRUE /\ calling' = "busy"
     ELSE UNCHANGED <<triggered, calling>>
  /\ quiet' = 0
  /\ UNCHANGED <<inUse, state, byHand, overruled>>

SampleQuiet ==
  /\ calling = "none"
  /\ ~inUse
  /\ under' = UpTo(under, IdleAfter)
  /\ over' = 0
  /\ IF under' >= IdleAfter /\ triggered
     THEN triggered' = FALSE /\ calling' = "idle"
     ELSE UNCHANGED <<triggered, calling>>
  /\ overruled' = (overruled /\ triggered')
  /\ quiet' = UpTo(quiet, IdleAfter)
  /\ UNCHANGED <<inUse, state, byHand>>

\* ... and the call.
Tell ==
  /\ calling # "none"
  /\ SetOwnerBusy(calling = "busy")
  /\ calling' = "none"
  /\ UNCHANGED <<inUse, over, under, triggered, byHand, overruled, quiet>>

\* POST /admin/owner
Press(busy) ==
  /\ busy \in Buttons
  /\ SetOwnerBusy(busy)
  /\ byHand' = (busy /\ (byHand \/ state = "active"))
  /\ overruled' = (~busy /\ triggered)
  /\ UNCHANGED <<inUse, over, under, triggered, calling, quiet>>

\* Mutant: a device that is given back says that it left.
DrainEndsForGood ==
  /\ state = "draining"
  /\ state' = "left"
  /\ UNCHANGED <<inUse, over, under, triggered, calling, byHand, overruled, quiet>>

\* The beat finds nothing held any more (Daemon).
DrainEnds ==
  /\ state = "draining"
  /\ state' = "away"
  /\ UNCHANGED <<inUse, over, under, triggered, calling, byHand, overruled, quiet>>

Next ==
  \/ ProgramStarts
  \/ ProgramEnds
  \/ SampleInUse
  \/ SampleQuiet
  \/ Tell
  \/ \E busy \in BOOLEAN : Press(busy)
  \/ DrainEnds

Spec == Init /\ [][Next]_vars

\* The monitor's thread goes on reading.
Fairness == WF_vars(SampleInUse) /\ WF_vars(SampleQuiet) /\ WF_vars(Tell)

FairSpec == Spec /\ Fairness

-----------------------------------------------------------------------------

\* The monitor never undoes a drain the owner started by hand (pool.md: "it never
\* undoes a drain the owner started by hand").
HandStands ==
  [][Tell /\ byHand => (state # "active" => state' # "active")]_vars

\* A device comes back on its own only after idle_after quiet readings in a row,
\* so a pause in the owner's program does not make it flap.
NoFlapping ==
  [][(Tell /\ state # "active" /\ state' = "active") => quiet >= IdleAfter]_vars

\* When the owner's program goes on, the device is given up and stays given up,
\* unless the owner lends it by hand all the same.
GivesWay == <>[](inUse /\ ~overruled) => <>[](state # "active")

\* When neither a program nor the owner wants the device, it is lent again.
LendsAgain == <>[](~inUse /\ ~byHand) => <>[](state = "active")
=============================================================================
