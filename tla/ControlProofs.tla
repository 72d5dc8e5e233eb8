---------------------------- MODULE ControlProofs ----------------------------
(***************************************************************************)
(* Proofs about Control, for any number of control connections, proxy      *)
(* connections, visitors and URLs, any capacity of the pool and any number *)
(* of attempts.  First that Control implements ControlRegistry, which      *)
(* gives it what ControlRegistryProofs proves; then, with that, the        *)
(* invariants of the teardown and of the pool.                             *)
(***************************************************************************)
EXTENDS Control, TLAPS

Lib == INSTANCE ControlRegistryProofs

\* shut says how far stopper has got once it has called Del, and is "off" before.
StageOfStopper ==
    \A c \in Ctls : /\ shut[c] = "off" <=> stp[c] \notin {"closing", "done"}
                    /\ shut[c] = "done" <=> stp[c] = "done"

\* What stopper has waited for before each of its stages stays so.
StagesPassed ==
    \A c \in Ctls : /\ OutClosed(c) => mg[c] = "done"
                    /\ ConnClosed(c) => wr[c] = "done"
                    /\ ProxiesClosed(c) => tunnels[c] = {}
                    /\ shut[c] = "done" => Pool(c) = {}

\* A manager about to open a tunnel has a protocol left to serve.
ProtosLeft == \A c \in Ctls : mg[c] = "tunnel" => left[c] > 0

\* A handler that has not given up has an attempt left.
AttemptsLeft == \A h \in Pubs : hs[h] # "done" => tries[h] < MaxTries

\* The invariants of the teardown, which support each other.
Teardown == StageOfStopper /\ StagesPassed /\ TunnelsOwned /\ ProtosLeft

\* The inductive invariant: types, the registry's own, the teardown's, the pool's.
IInv ==
    /\ TypeOK
    /\ Lib!IInv
    /\ Teardown
    /\ AttemptsLeft
    /\ ProxyExclusive

USE NoCtlAssumption, NoIdAssumption, NoPxyAssumption, BoundAssumption

-----------------------------------------------------------------------------
(* Control implements ControlRegistry *)

\* Only the first Begin of a shutdown does anything.
LEMMA BeginStep ==
    ASSUME NEW c \in Ctls, BeginShutdown(c)
    PROVE  [Reg!Next]_(Reg!regVars)
  BY DEF BeginShutdown, regVars, Reg!regVars, Reg!Next

\* Every step of the goroutines is a step of the registry's protocol, or
\* leaves the registry alone.
LEMMA RegistryStep == [Next]_vars => [Reg!Next]_(Reg!regVars)
<1> SUFFICES ASSUME [Next]_vars PROVE [Reg!Next]_(Reg!regVars)
    OBVIOUS
<1>1. CASE UNCHANGED regVars
    BY <1>1 DEF regVars, Reg!regVars
<1>2. CASE UNCHANGED vars
    BY <1>2, <1>1 DEF vars
<1>3. ASSUME NEW c \in Ctls, Connect(c) PROVE [Reg!Next]_(Reg!regVars)
    BY <1>3 DEF Connect, Waited, Reg!Next, Reg!Step
<1>4. ASSUME NEW c \in Ctls, Boot(c) PROVE [Reg!Next]_(Reg!regVars)
    BY <1>4, <1>1 DEF Boot, Answer, BootSend, Started, Reg!Next, Reg!Step
<1>5. ASSUME NEW c \in Ctls, Writer(c) PROVE [Reg!Next]_(Reg!regVars)
    BY <1>5, <1>1, BeginStep DEF Writer, WriteOk, WriterExit
<1>6. ASSUME NEW c \in Ctls, Reader(c) PROVE [Reg!Next]_(Reg!regVars)
    BY <1>6, <1>1, BeginStep DEF Reader, Read, ReadError, ReaderStopped, ReaderExit
<1>7. ASSUME NEW c \in Ctls, Manager(c) PROVE [Reg!Next]_(Reg!regVars)
    <2>1. CASE ManagerSend(c) \/ ManagerExit(c)
        BY <2>1, <1>1, BeginStep DEF ManagerSend, ManagerExit
    <2>2. CASE Reap(c)
        BY <2>2 DEF Reap, Reg!Next
    <2>3. CASE Receive(c) \/ TunnelError(c) \/ \E u \in Urls : OpenTunnel(c, u)
        BY <2>3, <1>1 DEF Receive, TunnelError, OpenTunnel
    <2>4. QED
        BY <1>7, <2>1, <2>2, <2>3 DEF Manager
<1>8. ASSUME NEW c \in Ctls, Stopper(c) \/ Reported(c) PROVE [Reg!Next]_(Reg!regVars)
    <2>1. CASE StopBegin(c) \/ Del(c) \/ Complete(c)
        BY <2>1 DEF StopBegin, Del, Complete, Reg!Next, Reg!Step
    <2>2. CASE CloseIn(c) \/ CloseOut(c) \/ CloseConn(c) \/ CloseProxies(c) \/ Reported(c)
        BY <2>2, <1>1 DEF CloseIn, CloseOut, CloseConn, CloseProxies, Reported, Advance
    <2>3. CASE (\E u \in Urls : ShutTunnel(c, u)) \/ (\E p \in Pxys : DrainProxy(c, p))
        BY <2>3, <1>1 DEF ShutTunnel, DrainProxy, Advance
    <2>4. QED
        BY <1>8, <2>1, <2>2, <2>3 DEF Stopper
<1>9. ASSUME NEW c \in Ctls, ClientDies(c) \/ HeartbeatLost(c)
      PROVE  [Reg!Next]_(Reg!regVars)
    BY <1>9, <1>1 DEF ClientDies, HeartbeatLost
<1>10. ASSUME NEW p \in Pxys, RegisterProxy(p) \/ \E i \in Ids : LookupControl(p, i)
       PROVE  [Reg!Next]_(Reg!regVars)
    BY <1>10, <1>1 DEF RegisterProxy, LookupControl
<1>11. ASSUME NEW h \in Pubs, Handler(h) PROVE [Reg!Next]_(Reg!regVars)
    BY <1>11, <1>1 DEF Handler, TakeProxy, PoolEmpty, AskProxy, GetProxyError, StartProxy,
                       StartFails, ReplaceProxy
<1>12. ASSUME NEW h \in Pubs, JoinEnds(h) \/ \E u \in Urls : Arrive(h, u)
       PROVE  [Reg!Next]_(Reg!regVars)
    BY <1>12, <1>1 DEF JoinEnds, Arrive
<1>13. QED
    BY <1>2, <1>3, <1>4, <1>5, <1>6, <1>7, <1>8, <1>9, <1>10, <1>11, <1>12 DEF Next

\* Control implements ControlRegistry: whatever its goroutines do, incarnations
\* of a client follow each other as specified there.
THEOREM ImplementsRegistry == Spec => RegistrySpec
<1>1. Init => Reg!Init
    BY DEF Init
<1>2. QED
    BY <1>1, RegistryStep, PTL DEF Spec, RegistrySpec, Reg!Spec

\* The two instances of ControlRegistry, of which one brings the proofs, have the
\* same steps.
LEMMA SameStep == [Reg!Next]_(Reg!regVars) => [Lib!Next]_(Lib!regVars)
  BY DEF Reg!Next, Reg!regVars, Reg!FailAuth, Reg!Add, Reg!Enter, Reg!TakeId, Reg!Begin,
         Reg!Step, Reg!Waited, Reg!Answer, Reg!Started, Reg!StopBegin, Reg!Del, Reg!Complete,
         Lib!Next, Lib!regVars, Lib!FailAuth, Lib!Add, Lib!Enter, Lib!TakeId, Lib!Begin,
         Lib!Step, Lib!Waited, Lib!Answer, Lib!Started, Lib!StopBegin, Lib!Del, Lib!Complete

\* So Control inherits the invariant of ControlRegistry, and the types.
LEMMA RegistryIInv == Lib!IInv /\ [Next]_vars => Lib!IInv' /\ Reg!TypeOK'
<1> SUFFICES ASSUME Lib!IInv, [Next]_vars PROVE Lib!IInv' /\ Reg!TypeOK'
    OBVIOUS
<1>1. Lib!IInv'
    BY RegistryStep, SameStep, Lib!NextIInv
<1>2. Reg!TypeOK'
    BY <1>1 DEF Lib!IInv, Lib!TypeOK, Lib!NCStates, Lib!StpStates,
                Reg!TypeOK, Reg!NCStates, Reg!StpStates
<1>3. QED
    BY <1>1, <1>2

-----------------------------------------------------------------------------
(* Types *)

\* The initial states satisfy the inductive invariant.
LEMMA InitIInv == Init => IInv
<1> SUFFICES ASSUME Init PROVE IInv
    OBVIOUS
<1>1. Lib!IInv
    BY Lib!InitIInv DEF Init, Reg!Init, Lib!Init
<1>2. TypeOK
    BY DEF Init, TypeOK, Reg!Init, Reg!TypeOK, Reg!NCStates, Reg!StpStates, MsgKinds
<1>3. StageOfStopper /\ StagesPassed
    BY DEF Init, Reg!Init, StageOfStopper, StagesPassed, OutClosed, ConnClosed, ProxiesClosed,
           Pool
<1>4. TunnelsOwned /\ ProtosLeft /\ AttemptsLeft
    BY DEF Init, TunnelsOwned, ProtosLeft, AttemptsLeft
<1>5. ProxyExclusive
    BY DEF Init, ProxyExclusive
<1>6. QED
    BY <1>1, <1>2, <1>3, <1>4, <1>5 DEF IInv, Teardown

\* Each step keeps the types: left is not counted below zero, since ProtosLeft,
\* and tries not beyond MaxTries, since AttemptsLeft.
LEMMA TypeStep ==
    ASSUME TypeOK, ProtosLeft, AttemptsLeft, Reg!TypeOK', [Next]_vars
    PROVE  TypeOK'
<1> USE DEF TypeOK, MsgKinds
<1>1. CASE UNCHANGED vars
    BY <1>1 DEF vars, ctlVars, cliVars, tunVars, pxVars, pubVars
<1> USE DEF ctlVars, cliVars, tunVars, pxVars, pubVars
<1>3. ASSUME NEW c \in Ctls, Connect(c) PROVE TypeOK'
    BY <1>3 DEF Connect
<1>4. ASSUME NEW c \in Ctls, Boot(c) PROVE TypeOK'
    BY <1>4 DEF Boot, Answer, BootSend, Started, Out
<1>5. ASSUME NEW c \in Ctls, Writer(c) PROVE TypeOK'
    BY <1>5 DEF Writer, WriteOk, WriterExit
<1>6. ASSUME NEW c \in Ctls, Reader(c) PROVE TypeOK'
    <2>1. CASE Read(c)
        BY <2>1 DEF Read
    <2>2. CASE ReadError(c) \/ ReaderStopped(c)
        BY <2>2 DEF ReadError, ReaderStopped, ReaderExit
    <2>3. QED
        BY <1>6, <2>1, <2>2 DEF Reader
<1>7. ASSUME NEW c \in Ctls, Manager(c) PROVE TypeOK'
    <2>1. CASE Receive(c)
        <3>1. stale' \in [Ctls -> BOOLEAN]
            BY <2>1 DEF Receive
        <3>2. /\ mg' \in [Ctls -> {"off", "select", "tunnel", "ack", "nack", "pong", "done"}]
              /\ left' \in [Ctls -> 0..MaxProtos]
              /\ rd' \in [Ctls -> {"off", "read", "done"} \cup MsgKinds]
            BY <2>1 DEF Receive
        <3>3. UNCHANGED <<boot, wr, shut, gone, msgs, tunVars, pxVars, pubVars>>
            BY <2>1 DEF Receive
        <3>4. QED
            BY <3>1, <3>2, <3>3
    <2>2. CASE \E u \in Urls : OpenTunnel(c, u)
        BY <2>2 DEF OpenTunnel, ProtosLeft
    <2>3. CASE TunnelError(c) \/ ManagerSend(c) \/ Reap(c) \/ ManagerExit(c)
        BY <2>3 DEF TunnelError, ManagerSend, Reap, ManagerExit, Out
    <2>4. QED
        BY <1>7, <2>1, <2>2, <2>3 DEF Manager
<1>8. ASSUME NEW c \in Ctls, Stopper(c) \/ Reported(c) PROVE TypeOK'
    <2>1. CASE StopBegin(c) \/ Del(c) \/ Complete(c)
        BY <2>1 DEF StopBegin, Del, Complete
    <2>2. CASE CloseIn(c) \/ CloseOut(c) \/ CloseConn(c) \/ CloseProxies(c) \/ Reported(c)
        BY <2>2 DEF CloseIn, CloseOut, CloseConn, CloseProxies, Reported, Advance
    <2>3. CASE (\E u \in Urls : ShutTunnel(c, u)) \/ (\E p \in Pxys : DrainProxy(c, p))
        BY <2>3 DEF ShutTunnel, DrainProxy, Advance
    <2>4. QED
        BY <1>8, <2>1, <2>2, <2>3 DEF Stopper
<1>9. ASSUME NEW c \in Ctls, ClientDies(c) \/ HeartbeatLost(c) PROVE TypeOK'
    <2>1. CASE ClientDies(c)
        BY <2>1 DEF ClientDies
    <2>2. CASE HeartbeatLost(c)
        <3>1. stale' \in [Ctls -> BOOLEAN]
            BY <2>2 DEF HeartbeatLost
        <3>2. UNCHANGED <<ctlVars, gone, msgs, tunVars, pxVars, pubVars>>
            BY <2>2 DEF HeartbeatLost
        <3>3. QED
            BY <3>1, <3>2
    <2>3. QED
        BY <1>9, <2>1, <2>2
<1>10. ASSUME NEW p \in Pxys, RegisterProxy(p) \/ \E i \in Ids : LookupControl(p, i)
       PROVE  TypeOK'
    <2>1. CASE RegisterProxy(p)
        BY <2>1 DEF RegisterProxy
    <2>2. CASE \E i \in Ids : LookupControl(p, i)
        <3>1. /\ px' \in [Pxys -> {"client", "lookedUp", "pooled", "held", "closed"}]
              /\ pxCtl' \in [Pxys -> Ctls \cup {NoCtl}]
            BY <2>2 DEF LookupControl, Reg!TypeOK
        <3>2. UNCHANGED <<ctlVars, cliVars, tunVars, pubVars>>
            BY <2>2 DEF LookupControl
        <3>3. QED
            BY <3>1, <3>2
    <2>3. QED
        BY <1>10, <2>1, <2>2
<1>11. ASSUME NEW h \in Pubs, Handler(h) PROVE TypeOK'
    <2>1. CASE \E p \in Pxys : TakeProxy(h, p)
        BY <2>1 DEF TakeProxy, Received
    <2>2. CASE StartFails(h)
        <3>1. tries' \in [Pubs -> 0..MaxTries]
            BY <2>2 DEF StartFails, AttemptsLeft
        <3>2. /\ px' \in [Pxys -> {"client", "lookedUp", "pooled", "held", "closed"}]
              /\ hp' \in [Pubs -> Pxys \cup {NoPxy}]
              /\ hs' \in [Pubs -> {"idle", "get", "ask", "await", "start", "replace",
                                   "joined", "done"}]
            BY <2>2 DEF StartFails
        <3>3. UNCHANGED <<ctlVars, cliVars, tunVars, pxCtl, hctl>>
            BY <2>2 DEF StartFails
        <3>4. QED
            BY <3>1, <3>2, <3>3
    <2>3. CASE PoolEmpty(h) \/ AskProxy(h) \/ GetProxyError(h) \/ StartProxy(h) \/ ReplaceProxy(h)
        BY <2>3 DEF PoolEmpty, AskProxy, GetProxyError, StartProxy, ReplaceProxy, Out
    <2>4. QED
        BY <1>11, <2>1, <2>2, <2>3 DEF Handler
<1>12. ASSUME NEW h \in Pubs, JoinEnds(h) \/ \E u \in Urls : Arrive(h, u) PROVE TypeOK'
    BY <1>12 DEF JoinEnds, Arrive
<1>13. QED
    BY <1>1, <1>3, <1>4, <1>5, <1>6, <1>7, <1>8, <1>9, <1>10, <1>11, <1>12 DEF Next

-----------------------------------------------------------------------------
(* The teardown *)

\* A call of Begin moves neither NewControl nor stopper.
LEMMA BeginKeeps ==
    ASSUME NEW c \in Ctls, BeginShutdown(c)
    PROVE  UNCHANGED <<controls, ctlId, nc, replaced, told, complete, stp, delArg>>
  BY DEF BeginShutdown, regVars, Reg!Begin

\* What the teardown is about.
tdVars == <<stp, mg, left, wr, shut, tunVars, pxVars>>

\* Every step keeps the invariants of the teardown.  Those of the registry say
\* when stopper can run at all; only one of the actions under Stopper moves it.
LEMMA TeardownStep ==
    ASSUME TypeOK, TypeOK', Lib!IInv, Teardown, [Next]_vars
    PROVE  Teardown'
<1> USE DEF Teardown, StageOfStopper, StagesPassed, TunnelsOwned, ProtosLeft,
            OutClosed, ConnClosed, ProxiesClosed, Pool
<1>0. CASE UNCHANGED tdVars
    BY <1>0 DEF tdVars, tunVars, pxVars
<1>1. CASE UNCHANGED vars
    BY <1>1, <1>0 DEF vars, regVars, ctlVars, tdVars
<1>2. ASSUME NEW c \in Ctls, Connect(c) PROVE Teardown'
    BY <1>2, <1>0 DEF Connect, Waited, Reg!FailAuth, Reg!Add, Reg!Enter, Reg!Waited,
                      ctlVars, tdVars
<1>3. ASSUME NEW c \in Ctls, Boot(c) PROVE Teardown'
    <2>1. nc[c] # "running" => shut[c] = "off"
        BY DEF Lib!IInv, Lib!StopperState, TypeOK
    <2>2. CASE Answer(c)
        BY <2>1, <2>2 DEF Answer, Reg!Answer, TypeOK, tunVars, pxVars
    <2>3. CASE BootSend(c)
        BY <2>3 DEF BootSend, Out, regVars, TypeOK, tunVars, pxVars
    <2>4. CASE Started(c)
        BY <2>1, <2>4 DEF Started, Reg!Started, TypeOK, tunVars, pxVars
    <2>5. QED
        BY <1>3, <2>2, <2>3, <2>4 DEF Boot
<1>4. ASSUME NEW c \in Ctls, Writer(c) PROVE Teardown'
    BY <1>4, BeginKeeps DEF Writer, WriteOk, WriterExit, regVars, TypeOK, tunVars, pxVars
<1>5. ASSUME NEW c \in Ctls, Reader(c) PROVE Teardown'
    BY <1>5, <1>0, BeginKeeps DEF Reader, Read, ReadError, ReaderStopped, ReaderExit, regVars,
                                  tdVars
<1>6. ASSUME NEW c \in Ctls, Manager(c) PROVE Teardown'
    <2>1. CASE Receive(c)
        BY <2>1 DEF Receive, regVars, TypeOK, tunVars, pxVars
    <2>2. ASSUME NEW u \in Urls, OpenTunnel(c, u) PROVE Teardown'
        BY <2>2 DEF OpenTunnel, Free, regVars, TypeOK, pxVars
    <2>3. CASE TunnelError(c)
        BY <2>3 DEF TunnelError, regVars, TypeOK, tunVars, pxVars
    <2>4. CASE ManagerSend(c)
        BY <2>4, BeginKeeps DEF ManagerSend, MoreProtos, Out, regVars, TypeOK, tunVars, pxVars
    <2>5. CASE Reap(c)
        BY <2>5, <1>0 DEF Reap, Reg!Begin, ctlVars, tdVars
    <2>6. CASE ManagerExit(c)
        BY <2>6, BeginKeeps DEF ManagerExit, InClosed, TypeOK, tunVars, pxVars
    <2>7. QED
        BY <1>6, <2>1, <2>2, <2>3, <2>4, <2>5, <2>6 DEF Manager
<1>7. ASSUME NEW c \in Ctls, Stopper(c) \/ Reported(c) PROVE Teardown'
    <2>1. CASE StopBegin(c)
        BY <2>1 DEF StopBegin, Reg!StopBegin, ctlVars, Reg!TypeOK, TypeOK, tunVars, pxVars
    <2>2. CASE Del(c)
        BY <2>2 DEF Del, Reg!Del, Reg!TypeOK, TypeOK, tunVars, pxVars
    <2>3. CASE CloseIn(c)
        BY <2>3 DEF CloseIn, Advance, regVars, TypeOK, tunVars, pxVars
    <2>4. CASE CloseOut(c)
        BY <2>4 DEF CloseOut, Advance, regVars, TypeOK, tunVars, pxVars
    <2>5. CASE CloseConn(c)
        BY <2>5 DEF CloseConn, Advance, regVars, TypeOK, tunVars, pxVars
    <2>6. CASE CloseProxies(c)
        BY <2>6 DEF CloseProxies, Advance, regVars, TypeOK, tunVars, pxVars
    <2>7. ASSUME NEW u \in Urls, ShutTunnel(c, u) PROVE Teardown'
        BY <2>7 DEF ShutTunnel, Advance, regVars, TypeOK, pxVars
    <2>8. ASSUME NEW p \in Pxys, DrainProxy(c, p) PROVE Teardown'
        BY <2>8 DEF DrainProxy, regVars, ctlVars, TypeOK, tunVars
    <2>9. CASE Complete(c)
        BY <2>9 DEF Complete, Reg!Complete, Reg!TypeOK, TypeOK, tunVars, pxVars
    <2>10. CASE Reported(c)
        BY <2>10 DEF Reported, Advance, regVars, TypeOK, tunVars, pxVars
    <2>11. QED
        BY <1>7, <2>1, <2>2, <2>3, <2>4, <2>5, <2>6, <2>7, <2>8, <2>9, <2>10 DEF Stopper
<1>8. ASSUME NEW c \in Ctls, ClientDies(c) \/ HeartbeatLost(c) PROVE Teardown'
    BY <1>8, <1>0 DEF ClientDies, HeartbeatLost, regVars, ctlVars, tdVars
<1>9. ASSUME NEW p \in Pxys, RegisterProxy(p) \/ \E i \in Ids : LookupControl(p, i)
      PROVE  Teardown'
    BY <1>9 DEF RegisterProxy, LookupControl, regVars, ctlVars, TypeOK, tunVars
<1>10. ASSUME NEW h \in Pubs, Handler(h) PROVE Teardown'
    <2>1. ASSUME NEW p \in Pxys, TakeProxy(h, p) PROVE Teardown'
        BY <2>1 DEF TakeProxy, Received, regVars, ctlVars, TypeOK, tunVars
    <2>2. CASE PoolEmpty(h) \/ GetProxyError(h) \/ StartProxy(h)
        BY <2>2, <1>0 DEF PoolEmpty, GetProxyError, StartProxy, regVars, ctlVars, tdVars
    <2>3. CASE AskProxy(h) \/ ReplaceProxy(h)
        BY <2>3 DEF AskProxy, ReplaceProxy, Out, regVars, TypeOK, tunVars, pxVars
    <2>4. CASE StartFails(h)
        BY <2>4 DEF StartFails, regVars, ctlVars, TypeOK, tunVars
    <2>5. QED
        BY <1>10, <2>1, <2>2, <2>3, <2>4 DEF Handler
<1>11. ASSUME NEW h \in Pubs, JoinEnds(h) \/ \E u \in Urls : Arrive(h, u) PROVE Teardown'
    BY <1>11 DEF JoinEnds, Arrive, regVars, ctlVars, TypeOK, tunVars, pxVars
<1>12. QED
    BY <1>1, <1>2, <1>3, <1>4, <1>5, <1>6, <1>7, <1>8, <1>9, <1>10, <1>11 DEF Next

-----------------------------------------------------------------------------
(* The pool *)

\* Every step keeps a proxy connection with one handler at most, and tries
\* below MaxTries: a handler gives the proxy up in the step in which it counts.
LEMMA PoolStep ==
    ASSUME TypeOK, TypeOK', AttemptsLeft, ProxyExclusive, [Next]_vars
    PROVE  AttemptsLeft' /\ ProxyExclusive'
<1> DEFINE Sound == AttemptsLeft /\ ProxyExclusive
<1> USE DEF AttemptsLeft, ProxyExclusive
<1>0. CASE UNCHANGED <<pxVars, pubVars>>
    BY <1>0 DEF pxVars, pubVars
<1>1. CASE UNCHANGED vars
    BY <1>1, <1>0 DEF vars
<1>2. ASSUME NEW c \in Ctls, \/ Connect(c) \/ Boot(c) \/ Writer(c) \/ Reader(c) \/ Manager(c)
                             \/ ClientDies(c) \/ HeartbeatLost(c)
      PROVE  Sound'
    BY <1>2, <1>0 DEF Connect, Boot, Answer, BootSend, Started, Writer, WriteOk, WriterExit,
                      Reader, Read, ReadError, ReaderStopped, ReaderExit, Manager, Receive,
                      OpenTunnel, TunnelError, ManagerSend, Reap, ManagerExit, ClientDies,
                      HeartbeatLost
<1>3. ASSUME NEW c \in Ctls, Stopper(c) \/ Reported(c) PROVE Sound'
    <2>1. ASSUME NEW p \in Pxys, DrainProxy(c, p) PROVE Sound'
        BY <2>1 DEF DrainProxy, Pool, TypeOK, pubVars
    <2>2. CASE \A p \in Pxys : ~DrainProxy(c, p)
        BY <2>2, <1>3, <1>0 DEF Stopper, StopBegin, Del, CloseIn, CloseOut, CloseConn,
                                CloseProxies, Advance, ShutTunnel, Reported, Complete
    <2>3. QED
        BY <2>1, <2>2
<1>4. ASSUME NEW p \in Pxys, RegisterProxy(p) \/ \E i \in Ids : LookupControl(p, i)
      PROVE  Sound'
    BY <1>4 DEF RegisterProxy, LookupControl, TypeOK, pubVars
<1>5. ASSUME NEW h \in Pubs, NEW p \in Pxys, TakeProxy(h, p) PROVE Sound'
    BY <1>5 DEF TakeProxy, Received, Pool, TypeOK
<1>6. ASSUME NEW h \in Pubs, PoolEmpty(h) \/ AskProxy(h) \/ GetProxyError(h)
      PROVE  Sound'
    BY <1>6 DEF PoolEmpty, AskProxy, GetProxyError, TimesOut, TypeOK, pxVars
<1>7. ASSUME NEW h \in Pubs, StartProxy(h) \/ ReplaceProxy(h) PROVE Sound'
    <2>1. /\ UNCHANGED <<px, pxCtl, hctl, hp, tries>>
          /\ hs[h] \in {"start", "replace"}
          /\ hs' = [hs EXCEPT ![h] = IF hs[h] = "start" THEN "replace" ELSE "joined"]
        BY <1>7 DEF StartProxy, ReplaceProxy, pxVars
    <2>2. QED
        BY <2>1 DEF TypeOK
<1>8. ASSUME NEW h \in Pubs, StartFails(h) PROVE Sound'
    BY <1>8 DEF StartFails, TriesLeft, TypeOK
<1>9. ASSUME NEW h \in Pubs, JoinEnds(h) PROVE Sound'
    BY <1>9 DEF JoinEnds, TypeOK
<1>10. ASSUME NEW h \in Pubs, NEW u \in Urls, Arrive(h, u) PROVE Sound'
    BY <1>10 DEF Arrive, TypeOK, pxVars
<1>11. QED
    BY <1>1, <1>2, <1>3, <1>4, <1>5, <1>6, <1>7, <1>8, <1>9, <1>10 DEF Next, Handler

-----------------------------------------------------------------------------
(* Theorems *)

\* The inductive invariant holds in every reachable state.
LEMMA ControlInvariant == Spec => []IInv
<1>1. IInv /\ [Next]_vars => IInv'
    <2> SUFFICES ASSUME IInv, [Next]_vars PROVE IInv'
        OBVIOUS
    <2>1. Lib!IInv' /\ Reg!TypeOK'
        BY RegistryIInv DEF IInv
    <2>2. TypeOK'
        BY <2>1, TypeStep DEF IInv, Teardown
    <2>3. Teardown'
        BY <2>2, TeardownStep DEF IInv
    <2>4. AttemptsLeft' /\ ProxyExclusive'
        BY <2>2, PoolStep DEF IInv
    <2>5. QED
        BY <2>1, <2>2, <2>3, <2>4 DEF IInv
<1>2. QED
    BY <1>1, InitIInv, PTL DEF Spec

\* Every variable keeps its type.
THEOREM TypeCorrect == Spec => []TypeOK
  BY ControlInvariant, PTL DEF IInv

\* A proxy connection serves one public connection, and is in the pool, with a
\* handler, or closed.
THEOREM ProxiesAreExclusive == Spec => []ProxyExclusive
  BY ControlInvariant, PTL DEF IInv

\* The registry of tunnels and the Controls' own lists agree, so a Control that
\* shuts down never unregisters a tunnel of another one.
THEOREM RegisteredTunnelsAreOwned == Spec => []TunnelsOwned
  BY ControlInvariant, PTL DEF IInv, Teardown

\* A Control whose shutdown is complete holds nothing any more.
LEMMA CompleteIsEmpty == IInv => NothingLeftBehind
<1> SUFFICES ASSUME IInv, NEW c \in complete
             PROVE  /\ \A u \in Urls : tunnelReg[u] # c
                    /\ Pool(c) = {}
                    /\ mg[c] = "done" /\ wr[c] = "done"
                    /\ InClosed(c) /\ ConnClosed(c)
    BY DEF NothingLeftBehind
<1>1. c \in Ctls /\ stp[c] = "done"
    BY DEF IInv, TypeOK, Reg!TypeOK, Lib!IInv, Lib!StopperState
<1>2. shut[c] = "done"
    BY <1>1 DEF IInv, Teardown, StageOfStopper
<1>3. mg[c] = "done" /\ wr[c] = "done" /\ tunnels[c] = {} /\ Pool(c) = {}
    BY <1>1, <1>2 DEF IInv, Teardown, StagesPassed, OutClosed, ConnClosed, ProxiesClosed
<1>4. \A u \in Urls : tunnelReg[u] # c
    BY <1>1, <1>3 DEF IInv, Teardown, TunnelsOwned
<1>5. InClosed(c) /\ ConnClosed(c)
    BY <1>2 DEF InClosed, ConnClosed
<1>6. QED
    BY <1>3, <1>4, <1>5

\* So a shutdown that is complete (control.go's WaitComplete returns) has left
\* no tunnel in the registry and no proxy in the pool; manager and writer have
\* ended, and the reader, which stopper does not wait for, can hand its message
\* to nobody and read no other.
THEOREM ShutdownIsComplete == Spec => []NothingLeftBehind
  BY ControlInvariant, CompleteIsEmpty, PTL

\* A client that reconnects finds its URLs free: its new Control answers only
\* when the one it replaced is complete, which then holds no URL.
THEOREM ReconnectingFindsUrlsFree == Spec => []PredecessorUrlsFree
<1>1. IInv => PredecessorUrlsFree
    BY CompleteIsEmpty DEF IInv, Lib!IInv, Lib!PredecessorsDone, PredecessorUrlsFree,
                           NothingLeftBehind
<1>2. QED
    BY <1>1, ControlInvariant, PTL

\* Stopper tears down in order: when out is closed NewControl and the manager,
\* the senders that would not survive it, have sent their last; and a tunnel
\* goes away only behind the manager and the writer of its Control.
THEOREM TeardownIsOrdered == Spec => TeardownInOrder
<1> DEFINE ClosedBehind == \A c \in Ctls : OutClosed(c) => nc[c] = "running" /\ mg[c] = "done"
           Behind == \A u \in Urls, c \in Ctls :
                         tunnelReg[u] = c /\ tunnelReg'[u] # c =>
                             c \in begun /\ mg[c] = "done" /\ wr[c] = "done"
<1>1. IInv => ClosedBehind
    BY DEF IInv, Lib!IInv, Lib!StopperState, Teardown, StageOfStopper, StagesPassed, OutClosed,
           TypeOK
<1>2. ASSUME IInv, [Next]_vars PROVE [Behind]_vars
    <2> SUFFICES ASSUME NEW u \in Urls, NEW c \in Ctls, tunnelReg[u] = c, tunnelReg'[u] # c
                 PROVE  c \in begun /\ mg[c] = "done" /\ wr[c] = "done"
        OBVIOUS
    <2>1. \/ \E d \in Ctls, v \in Urls : OpenTunnel(d, v) \/ ShutTunnel(d, v)
          \/ UNCHANGED tunnelReg
        BY <1>2 DEF Next, vars, tunVars, Connect, Boot, Answer, BootSend, Started,
               Writer, WriteOk, WriterExit, Reader, Read, ReadError, ReaderStopped, ReaderExit,
               Manager, Receive, TunnelError, ManagerSend, Reap, ManagerExit, ClientDies,
               HeartbeatLost, Stopper, StopBegin, Del, CloseIn, CloseOut, CloseConn,
               CloseProxies, Reported, Advance, DrainProxy, Complete, RegisterProxy, LookupControl,
               Handler, TakeProxy, PoolEmpty, AskProxy, GetProxyError, StartProxy, StartFails,
               ReplaceProxy, JoinEnds, Arrive
    <2>2. PICK d \in Ctls, v \in Urls : OpenTunnel(d, v) \/ ShutTunnel(d, v)
        BY <2>1
    <2>3. ~OpenTunnel(d, v)
        BY <1>2, NoCtlAssumption DEF OpenTunnel, Free, IInv, TypeOK
    <2>4. ShutTunnel(d, v) /\ v = u
        BY <2>2, <2>3, <1>2 DEF ShutTunnel, IInv, TypeOK
    <2>5. shut[c] = "tunnels"
        BY <2>4, <1>2 DEF ShutTunnel, Advance, IInv, Teardown, TunnelsOwned
    <2>6. mg[c] = "done" /\ wr[c] = "done" /\ stp[c] = "closing"
        BY <2>5, <1>2 DEF IInv, Teardown, StageOfStopper, StagesPassed, OutClosed, ConnClosed,
                          TypeOK, Reg!TypeOK, Reg!StpStates
    <2>7. c \in begun
        BY <2>6, <1>2 DEF IInv, Lib!IInv, Lib!StopperState
    <2>8. QED
        BY <2>6, <2>7
<1>3. QED
    BY <1>1, <1>2, ControlInvariant, PTL DEF Spec, TeardownInOrder
=============================================================================
