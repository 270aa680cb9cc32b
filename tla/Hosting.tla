------------------------------- MODULE Hosting ------------------------------
(***************************************************************************)
(* ShardHost (pool/hosting.py) step by step: the beat that starts and stops  *)
(* stages, the close of a device that does not wait for the beat for ever,   *)
(* and the threads that load.  Daemon takes each of these calls as one step; *)
(* here they are the steps between which another thread may run.             *)
(*                                                                         *)
(* The host's lock guards the table of what is held.  stop() lets go of it   *)
(* before it marks the copy cancelled and looks for a server to stop, while  *)
(* a load holds it from its last check until the copy is ready.              *)
(***************************************************************************)
EXTENDS Naturals, FiniteSets

CONSTANTS
  Stage,     \* the stages of the model
  Copy,      \* the _Held objects there may be: bound on the number of loads
  None

VARIABLES
  held,      \* per stage, the copy the table has
  stageOf,   \* per copy, its stage, None before it is made,
  status,    \* and its status,
  cancelled, \* whether it is to go,
  server,    \* and whether it has been given its server
  listening, \* the copies whose server is running
  thread,    \* where the thread of each load is
  lock,      \* the copy whose load holds the lock, None when it is free
  stopping,  \* per caller of stop(), where it is,
  popped,    \* the copy it took from the table,
  toClose    \* and the stages that are still to be stopped

tables == <<held, stageOf, status, cancelled, server>>
loads == <<listening, thread, lock>>
stops == <<stopping, popped, toClose>>
vars == <<tables, loads, stops>>

\* stop() is called by the beat, and by close() on another thread, which waits
\* two seconds for the beat and no longer.
Caller == {"beat", "close"}

TypeOK ==
  /\ held \in [Stage -> Copy \cup {None}]
  /\ stageOf \in [Copy -> Stage \cup {None}]
  /\ status \in [Copy -> {"loading", "ready", "failed"}]
  /\ cancelled \in [Copy -> BOOLEAN]
  /\ server \in [Copy -> BOOLEAN]
  /\ listening \subseteq Copy
  /\ thread \in [Copy -> {"none", "loading", "serving", "served", "keeping", "failing", "over"}]
  /\ lock \in Copy \cup {None}
  /\ stopping \in [Caller -> {"idle", "cancel", "look", "stop", "clear"}]
  /\ popped \in [Caller -> Copy \cup {None}]
  /\ toClose \in SUBSET Stage

-----------------------------------------------------------------------------
\* start(): a copy is made and its load begins, unless the stage is held.
Start(s) ==
  /\ stopping["beat"] = "idle"
  /\ lock = None
  /\ held[s] # None => status[held[s]] = "failed"
  /\ \E c \in Copy :
       /\ stageOf[c] = None
       /\ stageOf' = [stageOf EXCEPT ![c] = s]
       /\ held' = [held EXCEPT ![s] = c]
       /\ thread' = [thread EXCEPT ![c] = "loading"]
  /\ UNCHANGED <<status, cancelled, server, listening, lock, stops>>

\* forget_old_failures().
Forget(s) ==
  /\ stopping["beat"] = "idle"
  /\ lock = None
  /\ held[s] # None
  /\ status[held[s]] = "failed"
  /\ held' = [held EXCEPT ![s] = None]
  /\ UNCHANGED <<stageOf, status, cancelled, server, loads, stops>>

-----------------------------------------------------------------------------
\* stop(): the copy is taken from the table under the lock, ...
Pop(k, s) ==
  /\ stopping[k] = "idle"
  /\ lock = None
  /\ held[s] # None
  /\ held' = [held EXCEPT ![s] = None]
  /\ popped' = [popped EXCEPT ![k] = held[s]]
  /\ stopping' = [stopping EXCEPT ![k] = "cancel"]
  /\ UNCHANGED <<stageOf, status, cancelled, server, loads>>

StopStage(s) == Pop("beat", s) /\ UNCHANGED toClose

\* ... marked without it, ...
Cancel(k) ==
  /\ stopping[k] = "cancel"
  /\ cancelled' = [cancelled EXCEPT ![popped[k]] = TRUE]
  /\ stopping' = [stopping EXCEPT ![k] = "look"]
  /\ UNCHANGED <<held, stageOf, status, server, loads, popped, toClose>>

\* ... its server stopped if it has one by now, ...
Look(k) ==
  /\ stopping[k] = "look"
  /\ stopping' = [stopping EXCEPT ![k] = IF server[popped[k]] THEN "stop" ELSE "clear"]
  /\ UNCHANGED <<tables, loads, popped, toClose>>

StopServer(k) ==
  /\ stopping[k] = "stop"
  /\ listening' = listening \ {popped[k]}
  /\ stopping' = [stopping EXCEPT ![k] = "clear"]
  /\ UNCHANGED <<tables, thread, lock, popped, toClose>>

\* ... and what it had let go of.
Clear(k) ==
  /\ stopping[k] = "clear"
  /\ server' = [server EXCEPT ![popped[k]] = FALSE]
  /\ stopping' = [stopping EXCEPT ![k] = "idle"]
  /\ popped' = [popped EXCEPT ![k] = None]
  /\ UNCHANGED <<held, stageOf, status, cancelled, loads, toClose>>

\* close(): the stages held when it is called, one after the other; one that
\* the beat stopped meanwhile is passed over.
Close ==
  /\ stopping["close"] = "idle"
  /\ toClose = {}
  /\ toClose' = {s \in Stage : held[s] # None}
  /\ UNCHANGED <<tables, loads, stopping, popped>>

CloseStage(s) ==
  /\ s \in toClose
  /\ Pop("close", s)
  /\ toClose' = toClose \ {s}

CloseNothing(s) ==
  /\ s \in toClose
  /\ stopping["close"] = "idle"
  /\ held[s] = None
  /\ toClose' = toClose \ {s}
  /\ UNCHANGED <<tables, loads, stopping, popped>>

-----------------------------------------------------------------------------
\* _load(): the runtime is there or the loader failed; a copy that is to go by
\* now is given up.
Loaded(c) ==
  /\ thread[c] = "loading"
  /\ \/ thread' = [thread EXCEPT ![c] = IF cancelled[c] THEN "over" ELSE "serving"]
     \/ thread' = [thread EXCEPT ![c] = "failing"]
  /\ UNCHANGED <<tables, listening, lock, stops>>

\* serve(): its server listens, or could not.
Serve(c) ==
  /\ thread[c] = "serving"
  /\ \/ /\ listening' = listening \cup {c}
        /\ thread' = [thread EXCEPT ![c] = "served"]
     \/ /\ thread' = [thread EXCEPT ![c] = "failing"]
        /\ UNCHANGED listening
  /\ UNCHANGED <<tables, lock, stops>>

LoadFails(c) ==
  /\ thread[c] = "failing"
  /\ lock = None
  /\ status' = [status EXCEPT ![c] = "failed"]
  /\ thread' = [thread EXCEPT ![c] = "over"]
  /\ UNCHANGED <<held, stageOf, cancelled, server, listening, lock, stops>>

\* The last check, under the lock: the server goes again, ...
GiveUp(c) ==
  /\ thread[c] = "served"
  /\ lock = None
  /\ cancelled[c]
  /\ listening' = listening \ {c}
  /\ thread' = [thread EXCEPT ![c] = "over"]
  /\ UNCHANGED <<tables, lock, stops>>

\* ... or the copy is kept: it is given its server, and is ready.
Keep(c) ==
  /\ thread[c] = "served"
  /\ lock = None
  /\ ~cancelled[c]
  /\ lock' = c
  /\ thread' = [thread EXCEPT ![c] = "keeping"]
  /\ UNCHANGED <<tables, listening, stops>>

Ready(c) ==
  /\ thread[c] = "keeping"
  /\ server' = [server EXCEPT ![c] = TRUE]
  /\ status' = [status EXCEPT ![c] = "ready"]
  /\ thread' = [thread EXCEPT ![c] = "over"]
  /\ lock' = None
  /\ UNCHANGED <<held, stageOf, cancelled, listening, stops>>

-----------------------------------------------------------------------------
Init ==
  /\ held = [s \in Stage |-> None]
  /\ stageOf = [c \in Copy |-> None]
  /\ status = [c \in Copy |-> "loading"]
  /\ cancelled = [c \in Copy |-> FALSE]
  /\ server = [c \in Copy |-> FALSE]
  /\ listening = {}
  /\ thread = [c \in Copy |-> "none"]
  /\ lock = None
  /\ stopping = [k \in Caller |-> "idle"]
  /\ popped = [k \in Caller |-> None]
  /\ toClose = {}

LoadStep(c) == Loaded(c) \/ Serve(c) \/ LoadFails(c) \/ GiveUp(c) \/ Keep(c) \/ Ready(c)

StopStep(k) == Cancel(k) \/ Look(k) \/ StopServer(k) \/ Clear(k)

Next ==
  \/ \E s \in Stage : Start(s) \/ Forget(s) \/ StopStage(s) \/ CloseStage(s) \/ CloseNothing(s)
  \/ Close
  \/ \E k \in Caller : StopStep(k)
  \/ \E c \in Copy : LoadStep(c)

Spec == Init /\ [][Next]_vars

-----------------------------------------------------------------------------
\* What the table advertises as ready can be asked: its server is running and
\* is that of the copy the table has, and no copy stands for two stages.  No
\* caller of stop() ever breaks that, whatever the loads are doing.
AdvertisedServes ==
  \A s \in Stage :
    held[s] # None =>
      /\ stageOf[held[s]] = s
      /\ status[held[s]] = "ready" => held[s] \in listening /\ server[held[s]]

\* Two callers never stop the same copy.
StoppedOnce ==
  popped["beat"] # None => popped["beat"] # popped["close"]

\* A stage that was asked to go does not come up afterwards ("a load still in
\* progress gives up instead of coming up after it was wanted gone",
\* pool/hosting.py:121): once the stop and the load are over, no server is left
\* running that the table does not know of.
NoServerForgotten ==
  \A c \in listening :
    thread[c] = "over" /\ (\A k \in Caller : popped[k] # c) => held[stageOf[c]] = c
=============================================================================
