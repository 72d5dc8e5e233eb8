----------------------- MODULE ControlRegistryProofs -----------------------
(***************************************************************************)
(* Proofs about ControlRegistry, for any set of connections and of ids.    *)
(* The safety properties are proved together, from one inductive           *)
(* invariant.                                                              *)
(***************************************************************************)
EXTENDS ControlRegistry, TLAPS

\* A connection that has not reached Add has no id, has replaced nobody and
\* has nothing to shut down.
NotYetAdded ==
    \A c \in Ctls : nc[c] \in {"auth", "rejected"} =>
        ctlId[c] = NoId /\ replaced[c] = NoCtl /\ c \notin begun

\* A replaced Control has lost its id and is shutting down.
ReplacedBlank ==
    \A c \in Ctls : replaced[c] # NoCtl =>
        ctlId[replaced[c]] = NoId /\ replaced[c] \in begun

\* stopper runs only for a started Control, past WaitBegin only for one whose
\* shutdown has begun, and only stopper completes a shutdown.
StopperState ==
    \A c \in Ctls : /\ stp[c] # "off" => nc[c] = "running"
                    /\ stp[c] \in {"del", "closing", "done"} => c \in begun
                    /\ c \in complete => stp[c] = "done"

IInv ==
    /\ TypeOK
    /\ LookupLive
    /\ PredecessorsDone
    /\ ReplacedOnce
    /\ ToldTheEntry
    /\ NotYetAdded
    /\ ReplacedBlank
    /\ StopperState

USE NoCtlAssumption, NoIdAssumption

-----------------------------------------------------------------------------
\* The initial states satisfy the inductive invariant.
LEMMA InitIInv == Init => IInv
  BY DEF Init, IInv, TypeOK, LookupLive, PredecessorsDone, ReplacedOnce,
         ToldTheEntry,         NotYetAdded, ReplacedBlank, StopperState, NCStates, StpStates

\* Each step keeps the types of the variables.
LEMMA NextTypeOK == TypeOK /\ [Next]_regVars => TypeOK'
<1> SUFFICES ASSUME TypeOK, [Next]_regVars PROVE TypeOK'
    OBVIOUS
<1> USE DEF TypeOK, NCStates, StpStates
<1>1. CASE UNCHANGED regVars
    BY <1>1 DEF regVars
<1>2. ASSUME NEW c \in Ctls, FailAuth(c) PROVE TypeOK'
    BY <1>2 DEF FailAuth
<1>3. ASSUME NEW c \in Ctls, NEW i \in Ids, Add(c, i) PROVE TypeOK'
    BY <1>3 DEF Add, Enter, TakeId
<1>4. ASSUME NEW c \in Ctls, Begin(c) PROVE TypeOK'
    BY <1>4 DEF Begin
<1>5. ASSUME NEW c \in Ctls, Waited(c) PROVE TypeOK'
    BY <1>5 DEF Waited
<1>6. ASSUME NEW c \in Ctls, Answer(c) PROVE TypeOK'
    BY <1>6 DEF Answer
<1>7. ASSUME NEW c \in Ctls, Started(c) PROVE TypeOK'
    BY <1>7 DEF Started
<1>8. ASSUME NEW c \in Ctls, StopBegin(c) PROVE TypeOK'
    BY <1>8 DEF StopBegin
<1>9. ASSUME NEW c \in Ctls, Del(c) PROVE TypeOK'
    BY <1>9 DEF Del
<1>10. ASSUME NEW c \in Ctls, Complete(c) PROVE TypeOK'
    BY <1>10 DEF Complete
<1>11. QED
    BY <1>1, <1>2, <1>3, <1>4, <1>5, <1>6, <1>7, <1>8, <1>9, <1>10 DEF Next, Step

-----------------------------------------------------------------------------
\* Add keeps the invariant: the one step that touches two Controls at once.
LEMMA AddIInv ==
    ASSUME IInv, TypeOK', NEW c \in Ctls, NEW i \in Ids, Add(c, i)
    PROVE  IInv'
<1> DEFINE old == controls[i]
<1>1. /\ nc[c] = "auth" /\ ctlId[c] = NoId /\ replaced[c] = NoCtl
      /\ old \in Ctls \cup {NoCtl} /\ old # c
    BY DEF Add, Enter, IInv, NotYetAdded, TypeOK, LookupLive
<1>2. old # NoCtl => ctlId[old] = i /\ \A d \in Ctls : replaced[d] # old
    BY DEF IInv, LookupLive, ReplacedBlank, TypeOK
<1>3. \A d \in Ctls : replaced[d] # c
    BY <1>1 DEF IInv, ReplacedBlank, NotYetAdded, TypeOK
<1>4. stp[c] = "off"
    BY <1>1 DEF IInv, StopperState, TypeOK
<1>5. /\ \A d \in Ctls \ {c} : /\ nc'[d] = nc[d]
                               /\ replaced'[d] = replaced[d]
                               /\ ctlId'[d] = IF d = old THEN NoId ELSE ctlId[d]
      /\ nc'[c] \in {"answering", "waiting"}
      /\ nc'[c] = "answering" => old = NoCtl
      /\ replaced'[c] = old /\ ctlId'[c] = i
      /\ controls' = [controls EXCEPT ![i] = c]
      /\ begun' = begun \cup ({old} \ {NoCtl})
      /\ UNCHANGED <<told, complete, stp, delArg>>
    BY DEF Add, Enter, TakeId, IInv, TypeOK
<1>6. LookupLive'
    <2> SUFFICES ASSUME NEW j \in Ids, NEW d \in Ctls, controls'[j] = d
                 PROVE  /\ ctlId'[d] = j
                        /\ \/ stp'[d] \in {"off", "waitBegin"}
                           \/ stp'[d] = "del" /\ delArg'[d] = j
        BY DEF LookupLive
    <2>1. CASE j = i
        BY <2>1, <1>4, <1>5 DEF IInv, TypeOK
    <2>2. CASE j # i
        <3>1. controls[j] = d
            BY <2>2, <1>5 DEF IInv, TypeOK
        <3>2. d # c /\ d # old
            BY <3>1, <2>2, <1>1, <1>2 DEF IInv, LookupLive
        <3>3. QED
            BY <3>1, <3>2, <1>5 DEF IInv, LookupLive
    <2>3. QED
        BY <2>1, <2>2
<1>7. PredecessorsDone'
    BY <1>1, <1>5 DEF IInv, PredecessorsDone
<1>8. ReplacedBlank'
    BY <1>1, <1>3, <1>5 DEF IInv, ReplacedBlank, TypeOK
<1>9. ReplacedOnce'
    <2>1. \A d, e \in Ctls : replaced'[d] = replaced'[e] /\ replaced'[d] # NoCtl => d = e
        BY <1>2, <1>5 DEF IInv, ReplacedOnce
    <2>2. \A j \in Ids, d \in Ctls : replaced'[d] # NoCtl => controls'[j] # replaced'[d]
        BY <1>6, <1>8 DEF LookupLive, ReplacedBlank, IInv, TypeOK
    <2>3. QED
        BY <2>1, <2>2 DEF ReplacedOnce
<1>10. NotYetAdded'
    <2> SUFFICES ASSUME NEW d \in Ctls, nc'[d] \in {"auth", "rejected"}
                 PROVE  ctlId'[d] = NoId /\ replaced'[d] = NoCtl /\ d \notin begun'
        BY DEF NotYetAdded
    <2>1. d # c /\ nc[d] \in {"auth", "rejected"}
        BY <1>5
    <2>2. d # old
        BY <2>1, <1>2 DEF IInv, NotYetAdded
    <2>3. QED
        BY <2>1, <2>2, <1>5 DEF IInv, NotYetAdded
<1>11. StopperState'
    BY <1>1, <1>4, <1>5 DEF IInv, StopperState
<1>12. ToldTheEntry'
    BY <1>1, <1>5, NoCtlAssumption DEF IInv, ToldTheEntry, TypeOK
<1>13. QED
    BY <1>6, <1>7, <1>8, <1>9, <1>10, <1>11, <1>12 DEF IInv

\* Every step keeps the inductive invariant.
LEMMA NextIInv == IInv /\ [Next]_regVars => IInv'
<1> SUFFICES ASSUME IInv, [Next]_regVars PROVE IInv'
    OBVIOUS
<1>0. TypeOK'
    BY NextTypeOK DEF IInv
<1> USE <1>0 DEF IInv, TypeOK, LookupLive, PredecessorsDone, ReplacedOnce,
                 ToldTheEntry, NotYetAdded, ReplacedBlank, StopperState
<1>1. CASE UNCHANGED regVars
    BY <1>1 DEF regVars
<1>2. ASSUME NEW c \in Ctls, FailAuth(c) PROVE IInv'
    BY <1>2 DEF FailAuth
<1>3. ASSUME NEW c \in Ctls, NEW i \in Ids, Add(c, i) PROVE IInv'
    BY <1>3, AddIInv
<1>4. ASSUME NEW c \in Ctls, Begin(c) PROVE IInv'
    BY <1>4 DEF Begin
<1>5. ASSUME NEW c \in Ctls, Waited(c) PROVE IInv'
    BY <1>5 DEF Waited
<1>6. ASSUME NEW c \in Ctls, Answer(c) PROVE IInv'
    BY <1>6 DEF Answer
<1>7. ASSUME NEW c \in Ctls, Started(c) PROVE IInv'
    BY <1>7 DEF Started
<1>8. ASSUME NEW c \in Ctls, StopBegin(c) PROVE IInv'
    BY <1>8 DEF StopBegin
<1>9. ASSUME NEW c \in Ctls, Del(c) PROVE IInv'
    BY <1>9 DEF Del
<1>10. ASSUME NEW c \in Ctls, Complete(c) PROVE IInv'
    BY <1>10 DEF Complete
<1>11. QED
    BY <1>1, <1>2, <1>3, <1>4, <1>5, <1>6, <1>7, <1>8, <1>9, <1>10 DEF Next, Step

\* The inductive invariant holds in every reachable state.
THEOREM RegistryInvariant == Spec => []IInv
  BY InitIInv, NextIInv, PTL DEF Spec

\* What the registry yields is never past its own Del.
THEOREM RegisteredIsLive == Spec => []LookupLive
  BY RegistryInvariant, PTL DEF IInv

\* A Control answers its client only when its predecessors are shut down.
THEOREM ReplacementsAreOrdered == Spec => []ReplacementsWait
<1>1. IInv => ReplacementsWait
    BY DEF IInv, TypeOK, ReplacementsWait, CompletedHadStarted, StopperState
<1>2. QED
    BY <1>1, RegistryInvariant, PTL

\* No Control is replaced twice, and a replaced one is never entered again.
THEOREM ReplacementChain == Spec => []ReplacedOnce
  BY RegistryInvariant, PTL DEF IInv

\* A Control entered under an id has told its client that id.
THEOREM AnsweredWithEntry == Spec => []ToldTheEntry
  BY RegistryInvariant, PTL DEF IInv

\* Every variable keeps its type.
THEOREM TypeCorrect == Spec => []TypeOK
  BY RegistryInvariant, PTL DEF IInv
=============================================================================
