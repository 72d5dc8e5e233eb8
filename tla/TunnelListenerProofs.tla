------------------------ MODULE TunnelListenerProofs ------------------------
(***************************************************************************)
(* Proofs about TunnelListener, for any set of connections and of ids.     *)
(* The listener implements ControlRegistry, whose theorems it thereby      *)
(* inherits; then the error variable that the handlers share: what can     *)
(* have happened to it between one handler's ReadMsg and its test.         *)
(***************************************************************************)
EXTENDS TunnelListener, ControlRegistryProofs

\* The error a handler may see is its own, or another ReadMsg has returned that
\* one since.
ErrTraced == \A c \in Ctls : tun[c] \in Checks =>
                 readErr = (tun[c] \notin Whole) \/ <<c, readErr>> \in crossed

\* What the accepting goroutine sends on Conns is a connection nobody handles yet.
Handed == \A c \in Ctls : handing = c => tun[c] = "accepted"

\* The inductive invariant: the registry's, the types, and the trace of err.
LInv ==
    /\ IInv
    /\ ListenerTypeOK
    /\ ErrTraced
    /\ Handed

-----------------------------------------------------------------------------
(* The listener implements ControlRegistry *)

\* Every step of the listener is one of the registry or leaves it alone.
LEMMA ListenerStep == [ListenerNext]_vars => [Next]_regVars
<1> SUFFICES ASSUME [ListenerNext]_vars PROVE [Next]_regVars
    OBVIOUS
<1>1. CASE UNCHANGED vars
    BY <1>1 DEF vars
<1>2. CASE AcceptFails \/ Return
    BY <1>2 DEF AcceptFails, Return
<1>3. ASSUME NEW c \in Ctls, Arrive(c) \/ Accept(c) \/ Handle(c) PROVE [Next]_regVars
    BY <1>3 DEF Arrive, Accept, Handle
<1>4. ASSUME NEW c \in Ctls, Read(c) \/ Deadline(c) \/ BadLength(c) PROVE [Next]_regVars
    BY <1>4 DEF Read, Deadline, ReadReturns, BadLength
<1>5. ASSUME NEW c \in Ctls, Handler(c) PROVE [Next]_regVars
    BY <1>5 DEF Handler, Refuse, Dispatch, EnterControl, LookUp, RegisterProxy, Next
<1>6. ASSUME NEW c \in Ctls, Begin(c) \/ Step(c) PROVE [Next]_regVars
    BY <1>6 DEF Next
<1>7. QED
    BY <1>1, <1>2, <1>3, <1>4, <1>5, <1>6 DEF ListenerNext

\* The listener implements ControlRegistry: only a handler that has read an Auth
\* enters a Control, and it does so by the registry's protocol.
THEOREM ListenerImplementsRegistry == ListenerSpec => Spec
<1>1. ListenerInit => Init
    BY DEF ListenerInit
<1>2. QED
    BY <1>1, ListenerStep, PTL DEF ListenerSpec, Spec

\* So whatever arrives at the port: what the registry yields to NewProxy and to
\* Add is never past its own Del, a Control answers only when those before it
\* are shut down, none is replaced twice, and its client knows its id.
THEOREM ListenerKeepsRegistry ==
    ListenerSpec => [](LookupLive /\ ReplacementsWait /\ ReplacedOnce /\ ToldTheEntry)
  BY ListenerImplementsRegistry, RegisteredIsLive, ReplacementsAreOrdered, ReplacementChain,
     AnsweredWithEntry, PTL

-----------------------------------------------------------------------------
(* The inductive invariant *)

\* The initial states satisfy it.
LEMMA InitLInv == ListenerInit => LInv
<1> SUFFICES ASSUME ListenerInit PROVE LInv
    OBVIOUS
<1>1. IInv /\ TypeOK
    BY InitIInv DEF ListenerInit, IInv
<1>2. QED
    BY <1>1, NoCtlAssumption DEF ListenerInit, LInv, ListenerTypeOK, ErrTraced, Handed,
                                 Checks, Whole, Part

\* The listener's own steps keep the types.
LEMMA ListenerTypeStep ==
    ASSUME ListenerTypeOK, Handed, TypeOK', [ListenerNext]_vars
    PROVE  ListenerTypeOK'
<1> USE DEF ListenerTypeOK, Handed, Goto
<1>1. CASE UNCHANGED tunVars
    BY <1>1 DEF tunVars
<1>2. CASE UNCHANGED vars
    BY <1>2, <1>1 DEF vars
<1>3. CASE AcceptFails \/ Return
    BY <1>3 DEF AcceptFails, Return
<1>4. ASSUME NEW c \in Ctls, Arrive(c) \/ Accept(c) \/ Handle(c) PROVE ListenerTypeOK'
    <2>1. tun' \in [Ctls -> {"away", "arrived", "accepted", "reading"}
                               \cup Checks \cup Running \cup Ends]
        BY <1>4 DEF Arrive, Accept, Handle
    <2>2. crossed' \subseteq {d \in Ctls : tun'[d] \in Checks} \X BOOLEAN
        <3>1. \A d \in Ctls : tun[d] \in Checks => tun'[d] = tun[d]
            BY <1>4 DEF Arrive, Accept, Handle, Checks, Whole, Part
        <3>2. crossed' = crossed
            BY <1>4 DEF Arrive, Accept, Handle
        <3>3. QED
            BY <3>1, <3>2
    <2>3. QED
        BY <1>4, <2>1, <2>2 DEF Arrive, Accept, Handle
<1>5. ASSUME NEW c \in Ctls, NEW result \in Checks, ReadReturns(c, result)
      PROVE  ListenerTypeOK'
    <2>1. readErr' \in BOOLEAN
        BY <1>5 DEF ReadReturns
    <2>2. tun' \in [Ctls -> {"away", "arrived", "accepted", "reading"}
                               \cup Checks \cup Running \cup Ends]
        BY <1>5 DEF ReadReturns
    <2>3. crossed' \subseteq {d \in Ctls : tun'[d] \in Checks} \X BOOLEAN
        BY <1>5 DEF ReadReturns
    <2>4. QED
        BY <1>5, <2>1, <2>2, <2>3 DEF ReadReturns
<1>6. ASSUME NEW c \in Ctls, BadLength(c) PROVE ListenerTypeOK'
    BY <1>6 DEF BadLength, Ends, Checks, Whole, Part
<1>7. ASSUME NEW c \in Ctls, Refuse(c) \/ Dispatch(c) PROVE ListenerTypeOK'
    BY <1>7 DEF Refuse, Dispatch, Running, Ends, Checks, Whole, Part
<1>8. ASSUME NEW c \in Ctls, LookUp(c) PROVE ListenerTypeOK'
    BY <1>8 DEF LookUp, Running, Ends, Checks, Whole, Part, TypeOK
<1>9. ASSUME NEW c \in Ctls, RegisterProxy(c) PROVE ListenerTypeOK'
    BY <1>9 DEF RegisterProxy, Running, Ends, Checks, Whole, Part
<1>10. QED
    BY <1>1, <1>2, <1>3, <1>4, <1>5, <1>6, <1>7, <1>8, <1>9
       DEF ListenerNext, Read, Deadline, Checks, Handler, EnterControl

\* The trace of err is kept: a ReadMsg that returns is crossed with every
\* handler that has yet to test err, and starts its own handler's trace anew.
LEMMA ErrTracedStep ==
    ASSUME ListenerTypeOK, Handed, ErrTraced, [ListenerNext]_vars
    PROVE  ErrTraced'
<1> USE DEF ListenerTypeOK, Handed, ErrTraced, Goto
<1>1. CASE UNCHANGED tunVars
    BY <1>1 DEF tunVars
<1>2. CASE UNCHANGED vars
    BY <1>2, <1>1 DEF vars
<1>3. CASE AcceptFails \/ Return
    BY <1>3 DEF AcceptFails, Return
<1>4. ASSUME NEW c \in Ctls, Arrive(c) \/ Accept(c) \/ Handle(c) \/ BadLength(c)
      PROVE  ErrTraced'
    BY <1>4 DEF Arrive, Accept, Handle, BadLength, Checks, Whole, Part
<1>5. ASSUME NEW c \in Ctls, NEW result \in Checks, ReadReturns(c, result)
      PROVE  ErrTraced'
    <2> SUFFICES ASSUME NEW d \in Ctls, tun'[d] \in Checks
                 PROVE  readErr' = (tun'[d] \notin Whole) \/ <<d, readErr'>> \in crossed'
        OBVIOUS
    <2>1. CASE d = c
        BY <2>1, <1>5 DEF ReadReturns
    <2>2. CASE d # c
        <3>1. tun[d] \in Checks
            BY <2>2, <1>5 DEF ReadReturns
        <3>2. <<d, readErr'>> \in {e \in Ctls : tun[e] \in Checks} \X {result \notin Whole}
            BY <3>1, <1>5 DEF ReadReturns
        <3>3. QED
            BY <3>2, <1>5 DEF ReadReturns
    <2>3. QED
        BY <2>1, <2>2
<1>6. ASSUME NEW c \in Ctls, Refuse(c) \/ Dispatch(c) \/ LookUp(c) \/ RegisterProxy(c)
      PROVE  ErrTraced'
    BY <1>6 DEF Refuse, Dispatch, LookUp, RegisterProxy, Checks, Whole, Part
<1>7. QED
    BY <1>1, <1>2, <1>3, <1>4, <1>5, <1>6
       DEF ListenerNext, Read, Deadline, Checks, Handler, EnterControl

\* A connection is handed over once: only Handle takes it on, and with that the
\* accepting goroutine has none.
LEMMA HandedStep ==
    ASSUME ListenerTypeOK, Handed, [ListenerNext]_vars
    PROVE  Handed'
<1> USE DEF ListenerTypeOK, Handed, Goto
<1>1. CASE UNCHANGED tunVars
    BY <1>1 DEF tunVars
<1>2. CASE UNCHANGED vars
    BY <1>2, <1>1 DEF vars
<1>3. CASE AcceptFails \/ Return
    BY <1>3 DEF AcceptFails, Return
<1>4. ASSUME NEW c \in Ctls, Arrive(c) \/ Accept(c) \/ Handle(c) PROVE Handed'
    BY <1>4, NoCtlAssumption DEF Arrive, Accept, Handle
<1>5. ASSUME NEW c \in Ctls, NEW result \in Checks, ReadReturns(c, result) PROVE Handed'
    BY <1>5 DEF ReadReturns
<1>6. ASSUME NEW c \in Ctls,
             BadLength(c) \/ Refuse(c) \/ Dispatch(c) \/ LookUp(c) \/ RegisterProxy(c)
      PROVE  Handed'
    BY <1>6 DEF BadLength, Refuse, Dispatch, LookUp, RegisterProxy, Checks, Whole, Part
<1>7. QED
    BY <1>1, <1>2, <1>3, <1>4, <1>5, <1>6
       DEF ListenerNext, Read, Deadline, Checks, Handler, EnterControl

\* The inductive invariant holds in every reachable state.
LEMMA ListenerInvariant == ListenerSpec => []LInv
<1>1. LInv /\ [ListenerNext]_vars => LInv'
    <2> SUFFICES ASSUME LInv, [ListenerNext]_vars PROVE LInv'
        OBVIOUS
    <2>1. IInv' /\ TypeOK'
        BY ListenerStep, NextIInv DEF LInv, IInv
    <2>2. ListenerTypeOK'
        BY <2>1, ListenerTypeStep DEF LInv
    <2>3. ErrTraced'
        BY ErrTracedStep DEF LInv
    <2>4. Handed'
        BY HandedStep DEF LInv
    <2>5. QED
        BY <2>1, <2>2, <2>3, <2>4 DEF LInv
<1>2. QED
    BY <1>1, InitLInv, PTL DEF ListenerSpec

\* Every variable keeps its type; and only a connection between its ReadMsg and
\* its test of err has a trace of others' reads.
THEOREM ListenerTypeCorrect == ListenerSpec => []ListenerTypeOK
  BY ListenerInvariant, PTL DEF LInv

\* A connection is turned away, or let in, by another one's error only if a
\* ReadMsg of another one has returned that error between its own ReadMsg and
\* its test.
THEOREM OthersErrorsNeedARace == ListenerSpec => OwnErrorDecides
<1> DEFINE Own == \A c \in Ctls :
               /\ tun[c] \in {"auth", "regProxy"} /\ tun'[c] = "closed" => <<c, TRUE>> \in crossed
               /\ tun[c] \in Part /\ tun'[c] \in Running => <<c, FALSE>> \in crossed
<1>1. ASSUME LInv, [ListenerNext]_vars PROVE Own
    <2> SUFFICES ASSUME NEW c \in Ctls, tun[c] \in Checks, tun'[c] \in Running \cup Ends
                 PROVE  /\ tun[c] \in {"auth", "regProxy"} /\ tun'[c] = "closed"
                              => <<c, TRUE>> \in crossed
                        /\ tun[c] \in Part /\ tun'[c] \in Running => <<c, FALSE>> \in crossed
        BY DEF Checks, Whole, Part, Ends
    <2>1. Refuse(c) \/ Dispatch(c)
        <3>1. tun'[c] # tun[c]
            BY DEF Checks, Whole, Part, Running, Ends
        <3>2. PICK d \in Ctls : \/ Arrive(d) \/ Accept(d) \/ Handle(d) \/ Read(d) \/ Deadline(d)
                               \/ BadLength(d) \/ Handler(d)
            BY <1>1, <3>1 DEF ListenerNext, vars, tunVars, AcceptFails, Return
        <3>3. ~(Arrive(d) \/ Accept(d) \/ Handle(d) \/ BadLength(d) \/ LookUp(d) \/ RegisterProxy(d))
            <4> USE <1>1, <3>1 DEF LInv, ListenerTypeOK, Handed, Goto, Checks, Whole, Part
            <4>1. ~Arrive(d) /\ ~Accept(d)
                BY DEF Arrive, Accept
            <4>2. ~Handle(d) /\ ~BadLength(d)
                BY DEF Handle, BadLength
            <4>3. ~LookUp(d) /\ ~RegisterProxy(d)
                BY DEF LookUp, RegisterProxy
            <4>4. QED
                BY <4>1, <4>2, <4>3
        <3>4. ~(Read(d) \/ Deadline(d)) /\ ~EnterControl(d)
            BY <1>1, <3>1 DEF LInv, ListenerTypeOK, Read, Deadline, ReadReturns, Goto, Checks, Whole,
                              Part, EnterControl, tunVars
        <3>5. d = c
            BY <1>1, <3>1, <3>2, <3>3, <3>4 DEF LInv, ListenerTypeOK, Handler, Refuse, Dispatch, Goto
        <3>6. QED
            BY <3>2, <3>3, <3>4, <3>5 DEF Handler
    <2>2. CASE Refuse(c)
        BY <2>2, <1>1 DEF Refuse, Sees, Goto, LInv, ListenerTypeOK, ErrTraced, Checks, Whole,
                          Part, Running
    <2>3. CASE Dispatch(c)
        BY <2>3, <1>1 DEF Dispatch, Sees, Goto, LInv, ListenerTypeOK, ErrTraced, Checks, Whole,
                          Part, Running
    <2>4. QED
        BY <2>1, <2>2, <2>3
<1>2. QED
    BY <1>1, ListenerInvariant, PTL DEF ListenerSpec, OwnErrorDecides
=============================================================================
