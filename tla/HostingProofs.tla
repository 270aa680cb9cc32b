---------------------------- MODULE HostingProofs ---------------------------
(***************************************************************************)
(* What stop() and the loads can be relied on for, for any number of stages  *)
(* and of loads, however their steps fall between one another.               *)
(***************************************************************************)
EXTENDS Hosting, TLAPS

\* A copy that was not made yet has no past.
Unmade ==
  \A c \in Copy : stageOf[c] = None =>
    /\ thread[c] = "none"
    /\ status[c] = "loading"
    /\ cancelled[c] = FALSE
    /\ \A k \in Caller : popped[k] # c

\* What the table has is for its stage, is not to go, and nobody stops it.
HeldIsWanted ==
  \A s \in Stage : held[s] # None =>
    /\ stageOf[held[s]] = s
    /\ cancelled[held[s]] = FALSE
    /\ \A k \in Caller : popped[k] # held[s]

\* Whoever is past the mark has marked his copy.
Marked ==
  \A k \in Caller : stopping[k] # "idle" =>
    /\ popped[k] \in Copy
    /\ stopping[k] # "cancel" => cancelled[popped[k]] = TRUE

\* A load that has its server and is not to go still has it, ...
ServedListens ==
  \A c \in Copy :
    thread[c] \in {"served", "keeping"} /\ cancelled[c] = FALSE => c \in listening

\* ... and so has a copy that is ready.
ReadyServes ==
  \A c \in Copy :
    status[c] = "ready" /\ cancelled[c] = FALSE => c \in listening /\ server[c] = TRUE

IInv ==
  /\ TypeOK
  /\ Unmade /\ HeldIsWanted /\ Marked
  /\ StoppedOnce
  /\ ServedListens /\ ReadyServes

-----------------------------------------------------------------------------
\* Every variable of Hosting keeps its type, for any stages and copies.
LEMMA TypePreserved == TypeOK /\ [Next]_vars => TypeOK'
<1> SUFFICES ASSUME TypeOK, [Next]_vars PROVE TypeOK'
  OBVIOUS
<1> USE DEF TypeOK, tables, loads, stops
<1>1. ASSUME NEW s \in Stage, Start(s) PROVE TypeOK'
  BY <1>1 DEF Start
<1>2. ASSUME NEW s \in Stage, Forget(s) PROVE TypeOK'
  BY <1>2 DEF Forget
<1>3. ASSUME NEW s \in Stage, StopStage(s) PROVE TypeOK'
  BY <1>3 DEF StopStage, Pop, Caller
<1>4. ASSUME NEW s \in Stage, CloseStage(s) PROVE TypeOK'
  BY <1>4 DEF CloseStage, Pop, Caller
<1>5. ASSUME NEW s \in Stage, CloseNothing(s) PROVE TypeOK'
  BY <1>5 DEF CloseNothing
<1>6. CASE Close
  BY <1>6 DEF Close
<1>7. ASSUME NEW k \in Caller, Cancel(k) PROVE TypeOK'
  BY <1>7 DEF Cancel
<1>8. ASSUME NEW k \in Caller, Look(k) \/ StopServer(k) PROVE TypeOK'
  BY <1>8 DEF Look, StopServer
<1>9. ASSUME NEW k \in Caller, Clear(k) PROVE TypeOK'
  BY <1>9 DEF Clear
<1>10. ASSUME NEW c \in Copy, Loaded(c) \/ Serve(c) \/ LoadFails(c) PROVE TypeOK'
  BY <1>10 DEF Loaded, Serve, LoadFails
<1>11. ASSUME NEW c \in Copy, GiveUp(c) \/ Keep(c) \/ Ready(c) PROVE TypeOK'
  BY <1>11 DEF GiveUp, Keep, Ready
<1>12. CASE UNCHANGED vars
  BY <1>12 DEF vars
<1> QED
  BY <1>1, <1>2, <1>3, <1>4, <1>5, <1>6, <1>7, <1>8, <1>9, <1>10, <1>11, <1>12
     DEF Next, StopStep, LoadStep

-----------------------------------------------------------------------------
\* Taking a copy from the table, by whichever caller, keeps the invariant.
LEMMA PopPreserves ==
  ASSUME None \notin Copy \cup Stage, IInv, TypeOK',
         NEW k \in Caller, NEW s \in Stage, Pop(k, s)
  PROVE  IInv'
<1> USE DEF Pop, TypeOK, tables, loads
<1>1. /\ held[s] \in Copy
      /\ stageOf[held[s]] = s
      /\ \A j \in Caller : popped[j] # held[s]
  BY DEF IInv, HeldIsWanted
<1>2. \A j \in Caller : popped'[j] = IF j = k THEN held[s] ELSE popped[j]
  OBVIOUS
<1>3. \A t \in Stage : held'[t] = IF t = s THEN None ELSE held[t]
  OBVIOUS
<1>4. Unmade'
  BY <1>1, <1>2 DEF IInv, Unmade
<1>5. HeldIsWanted'
  BY <1>1, <1>2, <1>3 DEF IInv, HeldIsWanted
<1>6. Marked'
  BY <1>1, <1>2 DEF IInv, Marked
<1>7. StoppedOnce'
  BY <1>1, <1>2 DEF IInv, StoppedOnce, Caller
<1>8. ServedListens' /\ ReadyServes'
  BY DEF IInv, ServedListens, ReadyServes
<1> QED
  BY <1>4, <1>5, <1>6, <1>7, <1>8 DEF IInv

\* So does every step of stop() after that: what it does, it does to a copy
\* that the table no longer has.
LEMMA StopPreserves ==
  ASSUME None \notin Copy \cup Stage, IInv, TypeOK', NEW k \in Caller, StopStep(k)
  PROVE  IInv'
<1> USE DEF TypeOK, tables, loads
<1>1. stopping[k] # "idle" /\ popped[k] \in Copy
  BY DEF StopStep, Cancel, Look, StopServer, Clear, IInv, Marked
<1>2. CASE Cancel(k)
  <2>1. \A c \in Copy : cancelled'[c] = IF c = popped[k] THEN TRUE ELSE cancelled[c]
    BY <1>1, <1>2 DEF Cancel
  <2>2. Unmade' /\ HeldIsWanted'
    BY <1>2, <1>1, <2>1 DEF Cancel, IInv, Unmade, HeldIsWanted
  <2>3. Marked'
    BY <1>2, <1>1, <2>1 DEF Cancel, IInv, Marked
  <2>4. StoppedOnce' /\ ServedListens' /\ ReadyServes'
    BY <1>2, <2>1 DEF Cancel, IInv, StoppedOnce, ServedListens, ReadyServes
  <2> QED
    BY <2>2, <2>3, <2>4 DEF IInv
<1>3. CASE Look(k)
  <2>1. Unmade' /\ HeldIsWanted' /\ StoppedOnce' /\ ServedListens' /\ ReadyServes'
    BY <1>3 DEF Look, IInv, Unmade, HeldIsWanted, StoppedOnce, ServedListens, ReadyServes
  <2>2. Marked'
    BY <1>3 DEF Look, IInv, Marked
  <2> QED
    BY <2>1, <2>2 DEF IInv
<1>4. CASE StopServer(k)
  <2>1. cancelled[popped[k]] = TRUE
    BY <1>4 DEF StopServer, IInv, Marked
  <2>2. Unmade' /\ HeldIsWanted' /\ StoppedOnce'
    BY <1>4 DEF StopServer, IInv, Unmade, HeldIsWanted, StoppedOnce
  <2>3. Marked'
    BY <1>4 DEF StopServer, IInv, Marked
  <2>4. ServedListens' /\ ReadyServes'
    BY <1>4, <2>1 DEF StopServer, IInv, ServedListens, ReadyServes
  <2> QED
    BY <2>2, <2>3, <2>4 DEF IInv
<1>5. CASE Clear(k)
  <2>1. cancelled[popped[k]] = TRUE
    BY <1>5 DEF Clear, IInv, Marked
  <2>2. \A j \in Caller : popped'[j] = IF j = k THEN None ELSE popped[j]
    BY <1>5 DEF Clear
  <2>3. \A c \in Copy : server'[c] = IF c = popped[k] THEN FALSE ELSE server[c]
    BY <1>5, <1>1 DEF Clear
  <2>4. Unmade' /\ HeldIsWanted' /\ StoppedOnce'
    BY <1>5, <2>2 DEF Clear, IInv, Unmade, HeldIsWanted, StoppedOnce, Caller
  <2>5. Marked'
    BY <1>5, <2>2 DEF Clear, IInv, Marked
  <2>6. ServedListens' /\ ReadyServes'
    BY <1>5, <2>1, <2>3 DEF Clear, IInv, ServedListens, ReadyServes
  <2> QED
    BY <2>4, <2>5, <2>6 DEF IInv
<1> QED
  BY <1>2, <1>3, <1>4, <1>5 DEF StopStep

\* And every step of a load.
LEMMA LoadPreserves ==
  ASSUME None \notin Copy \cup Stage, IInv, TypeOK', NEW c \in Copy, LoadStep(c)
  PROVE  IInv'
<1> USE DEF TypeOK, tables, stops
<1>1. thread[c] # "none"
  BY DEF LoadStep, Loaded, Serve, LoadFails, GiveUp, Keep, Ready
<1>2. stageOf[c] # None
  BY <1>1 DEF IInv, Unmade
<1>3. \A d \in Copy : d # c => thread'[d] = thread[d] /\ status'[d] = status[d] /\ server'[d] = server[d]
  BY DEF LoadStep, Loaded, Serve, LoadFails, GiveUp, Keep, Ready
<1>4. UNCHANGED <<held, stageOf, cancelled, stops>>
  BY DEF LoadStep, Loaded, Serve, LoadFails, GiveUp, Keep, Ready
<1>5. Unmade'
  BY <1>2, <1>3, <1>4 DEF IInv, Unmade
<1>6. HeldIsWanted' /\ Marked' /\ StoppedOnce'
  BY <1>4 DEF IInv, HeldIsWanted, Marked, StoppedOnce
<1>7. \A d \in listening : d \in listening' \/ (d = c /\ cancelled[c])
  BY DEF LoadStep, Loaded, Serve, LoadFails, GiveUp, Keep, Ready, loads
<1>8. thread'[c] \in {"served", "keeping"} => c \in listening' \/ thread[c] = "served"
  BY DEF LoadStep, Loaded, Serve, LoadFails, GiveUp, Keep, Ready, loads
<1>9. ServedListens'
  BY <1>3, <1>4, <1>7, <1>8 DEF IInv, ServedListens
<1>10. status'[c] = "ready" =>
         \/ status[c] = "ready" /\ server'[c] = server[c]
         \/ thread[c] = "keeping" /\ server'[c] = TRUE
  BY DEF LoadStep, Loaded, Serve, LoadFails, GiveUp, Keep, Ready
<1>11. ReadyServes'
  BY <1>3, <1>4, <1>7, <1>10 DEF IInv, ReadyServes, ServedListens
<1> QED
  BY <1>5, <1>6, <1>9, <1>11 DEF IInv

\* A new load takes a copy without a past, and a forgotten one leaves nothing.
LEMMA TablePreserves ==
  ASSUME None \notin Copy \cup Stage, IInv, TypeOK', NEW s \in Stage,
         Start(s) \/ Forget(s) \/ CloseNothing(s)
  PROVE  IInv'
<1> USE DEF TypeOK, tables, loads, stops
<1>1. CASE Start(s)
  <2>1. PICK c \in Copy :
          /\ stageOf[c] = None
          /\ stageOf' = [stageOf EXCEPT ![c] = s]
          /\ held' = [held EXCEPT ![s] = c]
          /\ thread' = [thread EXCEPT ![c] = "loading"]
    BY <1>1 DEF Start
  <2>2. /\ cancelled[c] = FALSE
        /\ \A k \in Caller : popped[k] # c
    BY <2>1 DEF IInv, Unmade
  <2>3. UNCHANGED <<status, cancelled, server, listening, stops>>
    BY <1>1 DEF Start
  <2>4. Unmade'
    BY <2>1, <2>3 DEF IInv, Unmade
  <2>5. HeldIsWanted'
    BY <2>1, <2>2, <2>3 DEF IInv, HeldIsWanted
  <2>6. Marked' /\ StoppedOnce'
    BY <2>3 DEF IInv, Marked, StoppedOnce
  <2>7. ServedListens' /\ ReadyServes'
    BY <2>1, <2>3 DEF IInv, ServedListens, ReadyServes
  <2> QED
    BY <2>4, <2>5, <2>6, <2>7 DEF IInv
<1>2. CASE Forget(s)
  <2>1. Unmade' /\ Marked' /\ StoppedOnce'
    BY <1>2 DEF Forget, IInv, Unmade, Marked, StoppedOnce
  <2>2. HeldIsWanted'
    BY <1>2 DEF Forget, IInv, HeldIsWanted
  <2>3. ServedListens' /\ ReadyServes'
    BY <1>2 DEF Forget, IInv, ServedListens, ReadyServes
  <2> QED
    BY <2>1, <2>2, <2>3 DEF IInv
<1>3. CASE CloseNothing(s)
  <2>1. UNCHANGED <<tables, loads, stopping, popped>>
    BY <1>3 DEF CloseNothing
  <2> QED
    BY <2>1 DEF IInv, Unmade, HeldIsWanted, Marked, StoppedOnce, ServedListens, ReadyServes
<1> QED
  BY <1>1, <1>2, <1>3

-----------------------------------------------------------------------------
LEMMA Inductive ==
  ASSUME None \notin Copy \cup Stage
  PROVE  IInv /\ [Next]_vars => IInv'
<1> SUFFICES ASSUME IInv, [Next]_vars PROVE IInv'
  OBVIOUS
<1>1. TypeOK'
  BY TypePreserved DEF IInv
<1>2. ASSUME NEW s \in Stage, Start(s) \/ Forget(s) \/ CloseNothing(s) PROVE IInv'
  BY <1>1, <1>2, TablePreserves
<1>3. ASSUME NEW s \in Stage, StopStage(s) PROVE IInv'
  BY <1>1, <1>3, PopPreserves DEF StopStage, Caller
<1>4. ASSUME NEW s \in Stage, CloseStage(s) PROVE IInv'
  BY <1>1, <1>4, PopPreserves DEF CloseStage, Caller
<1>5. CASE Close
  BY <1>1, <1>5 DEF Close, tables, loads, IInv, Unmade, HeldIsWanted, Marked,
                    StoppedOnce, ServedListens, ReadyServes
<1>6. ASSUME NEW k \in Caller, StopStep(k) PROVE IInv'
  BY <1>1, <1>6, StopPreserves
<1>7. ASSUME NEW c \in Copy, LoadStep(c) PROVE IInv'
  BY <1>1, <1>7, LoadPreserves
<1>8. CASE UNCHANGED vars
  BY <1>1, <1>8 DEF vars, tables, loads, stops, IInv, Unmade, HeldIsWanted, Marked,
                    StoppedOnce, ServedListens, ReadyServes
<1> QED
  BY <1>2, <1>3, <1>4, <1>5, <1>6, <1>7, <1>8 DEF Next

LEMMA Initially ==
  ASSUME None \notin Copy \cup Stage
  PROVE  Init => IInv
BY DEF Init, IInv, TypeOK, Unmade, HeldIsWanted, Marked, StoppedOnce, ServedListens,
       ReadyServes, Caller

\* What the table advertises as ready is served by the copy the table has, at
\* every moment of every stop, load, failure and close (ShardHost, hosting.py).
THEOREM AdvertisedIsServed ==
  ASSUME None \notin Copy \cup Stage
  PROVE  Spec => []AdvertisedServes
<1>1. IInv => AdvertisedServes
  BY DEF IInv, TypeOK, HeldIsWanted, ReadyServes, AdvertisedServes
<1> QED
  BY <1>1, Initially, Inductive, PTL DEF Spec

\* The beat and close(), which wait for one another two seconds at most
\* (Daemon.stop), never stop the same copy.
THEOREM NobodyStopsTwice ==
  ASSUME None \notin Copy \cup Stage
  PROVE  Spec => []StoppedOnce
<1>1. IInv => StoppedOnce
  BY DEF IInv
<1> QED
  BY <1>1, Initially, Inductive, PTL DEF Spec
=============================================================================
