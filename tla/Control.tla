------------------------------ MODULE Control ------------------------------
(***************************************************************************)
(* The server's Control (server/control.go): for each control connection   *)
(* the goroutines NewControl, writer, manager, reader and stopper, and the *)
(* goroutines of others that use it: NewProxy putting proxy connections    *)
(* into its pool (server/main.go) and HandlePublicConnection taking them   *)
(* out again (server/tunnel.go).  The registry and the order in which      *)
(* Controls of one client follow each other are those of ControlRegistry:  *)
(* every step here that touches them conjoins that module's action.        *)
(*                                                                         *)
(* Go channels: in and out are unbuffered, so a send is a rendezvous and   *)
(* one step of both goroutines; proxies is a bounded pool.  A closed       *)
(* channel fails its senders with a panic: each sender's panic path is an  *)
(* action.  Timers fire at any moment.                                     *)
(***************************************************************************)
EXTENDS Naturals, FiniteSets

CONSTANTS Ctls, Ids, NoCtl, NoId,   \* as in ControlRegistry
          Urls,        \* public URLs tunnels can be opened under
          Pxys, NoPxy, \* proxy connections, and the nil one
          Pubs,        \* public connections, each with its handler
          PoolCap,     \* capacity of Control.proxies
          MaxTries,    \* attempts of a handler to start a proxy
          MaxMsgs,     \* bound: messages a client sends on one connection
          MaxProtos    \* bound: protocols named in one ReqTunnel

ASSUME NoCtlAssumption == NoCtl \notin Ctls
ASSUME NoIdAssumption == NoId \notin Ids
ASSUME NoPxyAssumption == NoPxy \notin Pxys
ASSUME BoundAssumption ==
    /\ PoolCap \in Nat /\ MaxTries \in Nat \ {0}
    /\ MaxMsgs \in Nat /\ MaxProtos \in Nat \ {0}

VARIABLES
    controls, ctlId, nc, replaced, told, begun, complete, stp, delArg,
    boot,      \* what NewControl sends next: "auth", "reqProxy", or "none"
    wr,        \* writer
    mg, left,  \* manager, and the protocols left of the ReqTunnel it serves
    rd,        \* reader: the kind of message it holds, or where it is
    shut,      \* what stopper does next once it has called Del
    stale,     \* has lastPing become older than pingTimeoutInterval?
    gone,      \* control connections whose client is dead
    msgs,      \* messages the client has sent
    tunnelReg, \* TunnelRegistry.tunnels: the Control owning each URL
    tunnels,   \* Control.tunnels, by URL
    px, pxCtl, \* proxy connections: where each one is, and with which Control
    hs, hctl, hp, tries \* handlers: state, Control, proxy held, attempts

regVars == <<controls, ctlId, nc, replaced, told, begun, complete, stp, delArg>>
ctlVars == <<boot, wr, mg, left, rd, shut>>
cliVars == <<stale, gone, msgs>>
tunVars == <<tunnelReg, tunnels>>
pxVars == <<px, pxCtl>>
pubVars == <<hs, hctl, hp, tries>>
vars == <<regVars, ctlVars, cliVars, tunVars, pxVars, pubVars>>

Reg == INSTANCE ControlRegistry

MsgKinds == {"ping", "reqTunnel", "other"}

TypeOK ==
    /\ Reg!TypeOK
    /\ boot \in [Ctls -> {"none", "auth", "reqProxy"}]
    /\ wr \in [Ctls -> {"off", "recv", "write", "done"}]
    /\ mg \in [Ctls -> {"off", "select", "tunnel", "ack", "nack", "pong", "done"}]
    /\ left \in [Ctls -> 0..MaxProtos]
    /\ rd \in [Ctls -> {"off", "read", "done"} \cup MsgKinds]
    /\ shut \in [Ctls -> {"off", "in", "manager", "writer", "tunnels", "report", "drain", "done"}]
    /\ stale \in [Ctls -> BOOLEAN]
    /\ gone \subseteq Ctls
    /\ msgs \in [Ctls -> 0..MaxMsgs]
    /\ tunnelReg \in [Urls -> Ctls \cup {NoCtl}]
    /\ tunnels \in [Ctls -> SUBSET Urls]
    /\ px \in [Pxys -> {"client", "lookedUp", "pooled", "held", "closed"}]
    /\ pxCtl \in [Pxys -> Ctls \cup {NoCtl}]
    /\ hs \in [Pubs -> {"idle", "get", "ask", "await", "start", "replace",
                        "joined", "done"}]
    /\ hctl \in [Pubs -> Ctls \cup {NoCtl}]
    /\ hp \in [Pubs -> Pxys \cup {NoPxy}]
    /\ tries \in [Pubs -> 0..MaxTries]

Init ==
    /\ Reg!Init
    /\ boot = [c \in Ctls |-> "none"]
    /\ wr = [c \in Ctls |-> "off"]
    /\ mg = [c \in Ctls |-> "off"] /\ left = [c \in Ctls |-> 0]
    /\ rd = [c \in Ctls |-> "off"]
    /\ shut = [c \in Ctls |-> "off"]
    /\ stale = [c \in Ctls |-> FALSE]
    /\ gone = {} /\ msgs = [c \in Ctls |-> 0]
    /\ tunnelReg = [u \in Urls |-> NoCtl]
    /\ tunnels = [c \in Ctls |-> {}]
    /\ px = [p \in Pxys |-> "client"] /\ pxCtl = [p \in Pxys |-> NoCtl]
    /\ hs = [h \in Pubs |-> "idle"] /\ hctl = [h \in Pubs |-> NoCtl]
    /\ hp = [h \in Pubs |-> NoPxy] /\ tries = [h \in Pubs |-> 0]

-----------------------------------------------------------------------------
(* Channels and shutdown *)

InClosed(c) == shut[c] \in {"manager", "writer", "tunnels", "report", "drain", "done"}
OutClosed(c) == shut[c] \in {"writer", "tunnels", "report", "drain", "done"}
ConnClosed(c) == shut[c] \in {"tunnels", "report", "drain", "done"}

\* Mutant: the pool is never closed.
ProxiesOpen(c) == FALSE

ProxiesClosed(c) == shut[c] \in {"drain", "done"}

\* Hand a message to the writer: a send on c.out.
Out(c) ==
    /\ ~OutClosed(c)
    /\ wr[c] = "recv"
    /\ wr' = [wr EXCEPT ![c] = "write"]

\* c.shutdown.Begin(): only the first call does anything.
BeginShutdown(c) == IF c \in begun THEN UNCHANGED regVars ELSE Reg!Begin(c)

-----------------------------------------------------------------------------
(* NewControl *)

\* Mutant: NewControl does not wait for the Control it replaced.
WaitedNot(c) ==
    /\ nc[c] = "waiting"
    /\ nc' = [nc EXCEPT ![c] = "answering"]
    /\ UNCHANGED <<controls, ctlId, replaced, told, begun, complete, stp, delArg>>

Waited(c) == Reg!Waited(c)

\* The part of NewControl up to and including the wait.
Connect(c) ==
    /\ \/ Reg!FailAuth(c)
       \/ \E i \in Ids : Reg!Add(c, i)
       \/ Waited(c)
    /\ UNCHANGED <<ctlVars, cliVars, tunVars, pxVars, pubVars>>

\* The writer is started and the AuthResp put together.
Answer(c) ==
    /\ Reg!Answer(c)
    /\ wr' = [wr EXCEPT ![c] = "recv"]
    /\ boot' = [boot EXCEPT ![c] = "auth"]
    /\ UNCHANGED <<mg, left, rd, shut, cliVars, tunVars, pxVars, pubVars>>

\* c.out <- AuthResp, then c.out <- ReqProxy.
BootSend(c) ==
    /\ boot[c] # "none"
    /\ Out(c)
    /\ boot' = [boot EXCEPT ![c] = IF @ = "auth" THEN "reqProxy" ELSE "none"]
    /\ UNCHANGED <<regVars, mg, left, rd, shut, cliVars, tunVars, pxVars, pubVars>>

\* Manager, reader and stopper are started.
Started(c) ==
    /\ boot[c] = "none"
    /\ Reg!Started(c)
    /\ mg' = [mg EXCEPT ![c] = "select"]
    /\ rd' = [rd EXCEPT ![c] = "read"]
    /\ UNCHANGED <<boot, wr, left, shut, cliVars, tunVars, pxVars, pubVars>>

-----------------------------------------------------------------------------
(* writer *)

WriteOk(c) ==
    /\ wr[c] = "write"
    /\ wr' = [wr EXCEPT ![c] = "recv"]
    /\ UNCHANGED <<regVars, boot, mg, left, rd, shut, cliVars, tunVars, pxVars, pubVars>>

\* The writer leaves its loop, because a write failed or out is closed:
\* writerShutdown.Complete() and shutdown.Begin().
WriterExit(c) ==
    /\ \/ wr[c] = "write"
       \/ wr[c] = "recv" /\ OutClosed(c)
    /\ wr' = [wr EXCEPT ![c] = "done"]
    /\ BeginShutdown(c)
    /\ UNCHANGED <<boot, mg, left, rd, shut, cliVars, tunVars, pxVars, pubVars>>

-----------------------------------------------------------------------------
(* reader *)

\* A message of the client arrives; until the manager takes it the reader
\* reads nothing more.
Read(c) ==
    /\ rd[c] = "read" /\ c \notin gone /\ ~ConnClosed(c)
    /\ msgs[c] < MaxMsgs
    /\ msgs' = [msgs EXCEPT ![c] = @ + 1]
    /\ \E m \in MsgKinds : rd' = [rd EXCEPT ![c] = m]
    /\ UNCHANGED <<regVars, boot, wr, mg, left, shut, stale, gone, tunVars, pxVars, pubVars>>

ReaderExit(c) ==
    /\ rd' = [rd EXCEPT ![c] = "done"]
    /\ BeginShutdown(c)
    /\ UNCHANGED <<boot, wr, mg, left, shut, cliVars, tunVars, pxVars, pubVars>>

\* ReadMsg fails: the client hung up, or the network did.
ReadError(c) == rd[c] = "read" /\ ~ConnClosed(c) /\ ReaderExit(c)

\* The reader finds its connection or c.in closed by stopper.
ReaderStopped(c) ==
    /\ \/ rd[c] = "read" /\ ConnClosed(c)
       \/ rd[c] \in MsgKinds /\ InClosed(c)
    /\ ReaderExit(c)

-----------------------------------------------------------------------------
(* manager *)

\* c.in hands the reader's message to the manager, which starts on it.
Receive(c) ==
    /\ mg[c] = "select" /\ rd[c] \in MsgKinds /\ ~InClosed(c)
    /\ rd' = [rd EXCEPT ![c] = "read"]
    /\ \/ /\ rd[c] = "reqTunnel"
          /\ mg' = [mg EXCEPT ![c] = "tunnel"]
          /\ \E n \in 1..MaxProtos : left' = [left EXCEPT ![c] = n]
          /\ UNCHANGED stale
       \/ /\ rd[c] = "ping"
          /\ mg' = [mg EXCEPT ![c] = "pong"]
          /\ stale' = [stale EXCEPT ![c] = FALSE]
          /\ UNCHANGED left
       \/ /\ rd[c] = "other"
          /\ UNCHANGED <<mg, left, stale>>
    /\ UNCHANGED <<regVars, boot, wr, shut, gone, msgs, tunVars, pxVars, pubVars>>

\* Mutant: Register does not look whether the URL is taken.
FreeUnchecked(u) == TRUE

Free(u) == tunnelReg[u] = NoCtl

\* NewTunnel for the next protocol: the URL u is entered in the tunnel
\* registry if it is free, and the tunnel is added to the Control's.
OpenTunnel(c, u) ==
    /\ mg[c] = "tunnel"
    /\ Free(u)
    /\ tunnelReg' = [tunnelReg EXCEPT ![u] = c]
    /\ tunnels' = [tunnels EXCEPT ![c] = @ \cup {u}]
    /\ mg' = [mg EXCEPT ![c] = "ack"]
    /\ left' = [left EXCEPT ![c] = @ - 1]
    /\ UNCHANGED <<regVars, boot, wr, rd, shut, cliVars, pxVars, pubVars>>

\* NewTunnel returns an error: the URL is taken, the port is in use, the
\* protocol is not served.
TunnelError(c) ==
    /\ mg[c] = "tunnel"
    /\ mg' = [mg EXCEPT ![c] = "nack"]
    /\ left' = [left EXCEPT ![c] = 0]
    /\ UNCHANGED <<regVars, boot, wr, rd, shut, cliVars, tunVars, pxVars, pubVars>>

MoreProtos(c) == mg[c] = "ack" /\ left[c] > 0

\* The manager's own sends on c.out.  After a failed request a Control
\* without a tunnel shuts down.
ManagerSend(c) ==
    /\ mg[c] \in {"ack", "nack", "pong"}
    /\ Out(c)
    /\ mg' = [mg EXCEPT ![c] = IF MoreProtos(c) THEN "tunnel" ELSE "select"]
    /\ IF mg[c] = "nack" /\ tunnels[c] = {} THEN BeginShutdown(c) ELSE UNCHANGED regVars
    /\ UNCHANGED <<boot, left, rd, shut, cliVars, tunVars, pxVars, pubVars>>

\* Mutant: a Control with open tunnels is not reaped.
LostIfIdle(c) == stale[c] /\ tunnels[c] = {}

Lost(c) == stale[c]

\* The reap ticker fires and finds the heartbeat lost.
Reap(c) ==
    /\ mg[c] = "select" /\ Lost(c) /\ c \notin begun
    /\ Reg!Begin(c)
    /\ UNCHANGED <<ctlVars, cliVars, tunVars, pxVars, pubVars>>

\* Mutant: the manager first waits for the reader.
ManagerExitAfterReader(c) ==
    /\ mg[c] = "select" /\ InClosed(c) /\ rd[c] = "done"
    /\ mg' = [mg EXCEPT ![c] = "done"]
    /\ BeginShutdown(c)
    /\ UNCHANGED <<boot, wr, left, rd, shut, cliVars, tunVars, pxVars, pubVars>>

\* c.in is closed: managerShutdown.Complete() and shutdown.Begin().
ManagerExit(c) ==
    /\ mg[c] = "select" /\ InClosed(c)
    /\ mg' = [mg EXCEPT ![c] = "done"]
    /\ BeginShutdown(c)
    /\ UNCHANGED <<boot, wr, left, rd, shut, cliVars, tunVars, pxVars, pubVars>>

-----------------------------------------------------------------------------
(* stopper *)

StopBegin(c) ==
    /\ Reg!StopBegin(c)
    /\ UNCHANGED <<ctlVars, cliVars, tunVars, pxVars, pubVars>>

Del(c) ==
    /\ Reg!Del(c)
    /\ shut' = [shut EXCEPT ![c] = "in"]
    /\ UNCHANGED <<boot, wr, mg, left, rd, cliVars, tunVars, pxVars, pubVars>>

\* The teardown, stage by stage: stopper waits at shut[c] and goes on.
Advance(c, from, to) ==
    /\ shut[c] = from
    /\ shut' = [shut EXCEPT ![c] = to]
    /\ UNCHANGED <<regVars, boot, wr, mg, left, rd, cliVars, pxVars, pubVars>>

CloseIn(c) == Advance(c, "in", "manager") /\ UNCHANGED tunVars

\* Mutant: out is closed without waiting for the manager.
CloseOutAtOnce(c) == Advance(c, "manager", "writer") /\ UNCHANGED tunVars

CloseOut(c) == mg[c] = "done" /\ Advance(c, "manager", "writer") /\ UNCHANGED tunVars
CloseConn(c) == wr[c] = "done" /\ Advance(c, "writer", "tunnels") /\ UNCHANGED tunVars
CloseProxies(c) == tunnels[c] = {} /\ Advance(c, "tunnels", "drain") /\ UNCHANGED tunVars

\* Tunnel.Shutdown: TunnelRegistry.Del removes whatever the URL maps to, then
\* metrics.CloseTunnel is called.
ShutTunnel(c, u) ==
    /\ Advance(c, "tunnels", "report") /\ u \in tunnels[c]
    /\ tunnels' = [tunnels EXCEPT ![c] = @ \ {u}]
    /\ tunnelReg' = [tunnelReg EXCEPT ![u] = NoCtl]

\* CloseTunnel returns.  LocalMetrics counts; KeenIoMetrics sends on a bounded
\* channel and waits for room in it (module PublicHttp has the channel).
Reported(c) == Advance(c, "report", "tunnels") /\ UNCHANGED tunVars

Pool(c) == {p \in Pxys : px[p] = "pooled" /\ pxCtl[p] = c}

\* range over the closed pool: close what is left in it.
DrainProxy(c, p) ==
    /\ shut[c] = "drain" /\ p \in Pool(c)
    /\ px' = [px EXCEPT ![p] = "closed"]
    /\ UNCHANGED <<regVars, ctlVars, cliVars, tunVars, pxCtl, pubVars>>

Complete(c) ==
    /\ shut[c] = "drain" /\ Pool(c) = {}
    /\ Reg!Complete(c)
    /\ shut' = [shut EXCEPT ![c] = "done"]
    /\ UNCHANGED <<boot, wr, mg, left, rd, cliVars, tunVars, pxVars, pubVars>>

-----------------------------------------------------------------------------
(* NewProxy, in the goroutine of the proxy connection p *)

\* The RegProxy's id is looked up; without a Control p is closed.
LookupControl(p, i) ==
    /\ px[p] = "client"
    /\ px' = [px EXCEPT ![p] = IF controls[i] = NoCtl THEN "closed" ELSE "lookedUp"]
    /\ pxCtl' = [pxCtl EXCEPT ![p] = controls[i]]
    /\ UNCHANGED <<regVars, ctlVars, cliVars, tunVars, pubVars>>

\* RegisterProxy: p enters the pool of the Control found before, or is closed
\* because the pool is full or, by the recovered panic, because it is closed.
RegisterProxy(p) ==
    LET c == pxCtl[p] IN
    /\ px[p] = "lookedUp"
    /\ px' = [px EXCEPT ![p] = IF ~ProxiesClosed(c) /\ Cardinality(Pool(c)) < PoolCap
                               THEN "pooled" ELSE "closed"]
    /\ UNCHANGED <<regVars, ctlVars, cliVars, tunVars, pxCtl, pubVars>>

-----------------------------------------------------------------------------
(* HandlePublicConnection, in the goroutine of the public connection h *)

\* h arrives for a URL that is registered.
Arrive(h, u) ==
    /\ hs[h] = "idle" /\ tunnelReg[u] # NoCtl
    /\ hs' = [hs EXCEPT ![h] = "get"]
    /\ hctl' = [hctl EXCEPT ![h] = tunnelReg[u]]
    /\ UNCHANGED <<regVars, ctlVars, cliVars, tunVars, pxVars, hp, tries>>

\* Mutant: GetProxy leaves the proxy it returns in the pool.
PeekProxy(p) == px

Received(p) == [px EXCEPT ![p] = "held"]

\* GetProxy takes p from the pool, at once or after asking for it.
TakeProxy(h, p) ==
    /\ hs[h] \in {"get", "await"} /\ p \in Pool(hctl[h])
    /\ px' = Received(p)
    /\ hp' = [hp EXCEPT ![h] = p]
    /\ hs' = [hs EXCEPT ![h] = "start"]
    /\ UNCHANGED <<regVars, ctlVars, cliVars, tunVars, pxCtl, hctl, tries>>

\* GetProxy finds the pool empty and asks the client for a proxy: the send on
\* c.out has no timeout.
PoolEmpty(h) ==
    /\ hs[h] = "get" /\ Pool(hctl[h]) = {} /\ ~ProxiesClosed(hctl[h])
    /\ hs' = [hs EXCEPT ![h] = "ask"]
    /\ UNCHANGED <<regVars, ctlVars, cliVars, tunVars, pxVars, hctl, hp, tries>>

AskProxy(h) ==
    /\ hs[h] = "ask" /\ Out(hctl[h])
    /\ hs' = [hs EXCEPT ![h] = "await"]
    /\ UNCHANGED <<regVars, boot, mg, left, rd, shut, cliVars, tunVars, pxVars, hctl, hp, tries>>

\* Mutant: GetProxy waits without a timeout.
NeverTimesOut(h) == FALSE

TimesOut(h) == hs[h] = "await"

\* GetProxy fails: the pool is closed and empty, out is closed, or no proxy
\* came in time.
GetProxyError(h) ==
    /\ \/ hs[h] \in {"get", "await"} /\ ProxiesClosed(hctl[h]) /\ Pool(hctl[h]) = {}
       \/ hs[h] = "ask" /\ OutClosed(hctl[h])
       \/ TimesOut(h)
    /\ hs' = [hs EXCEPT ![h] = "done"]
    /\ UNCHANGED <<regVars, ctlVars, cliVars, tunVars, pxVars, hctl, hp, tries>>

\* The StartProxy message is written.
StartProxy(h) ==
    /\ hs[h] = "start"
    /\ hs' = [hs EXCEPT ![h] = "replace"]
    /\ UNCHANGED <<regVars, ctlVars, cliVars, tunVars, pxVars, hctl, hp, tries>>

\* Mutant: one attempt too many.
TriesOneMore(h) == tries[h] < MaxTries

TriesLeft(h) == tries[h] + 1 < MaxTries

\* It cannot be written, the proxy is dead or has gone stale in the pool: it
\* is closed and another one tried, up to MaxTries times.
StartFails(h) ==
    /\ hs[h] = "start"
    /\ px' = [px EXCEPT ![hp[h]] = "closed"]
    /\ hp' = [hp EXCEPT ![h] = NoPxy]
    /\ tries' = [tries EXCEPT ![h] = @ + 1]
    /\ hs' = [hs EXCEPT ![h] = IF TriesLeft(h) THEN "get" ELSE "done"]
    /\ UNCHANGED <<regVars, ctlVars, cliVars, tunVars, pxCtl, hctl>>

\* A new proxy is asked for in place of the one taken, then the connections
\* are joined; if out is closed the panic is swallowed.
ReplaceProxy(h) ==
    /\ hs[h] = "replace"
    /\ \/ Out(hctl[h])
       \/ OutClosed(hctl[h]) /\ UNCHANGED wr
    /\ hs' = [hs EXCEPT ![h] = "joined"]
    /\ UNCHANGED <<regVars, boot, mg, left, rd, shut, cliVars, tunVars, pxVars, hctl, hp, tries>>

\* Join returns when either side hangs up, and both are closed.
JoinEnds(h) ==
    /\ hs[h] = "joined"
    /\ hs' = [hs EXCEPT ![h] = "done"]
    /\ px' = [px EXCEPT ![hp[h]] = "closed"]
    /\ hp' = [hp EXCEPT ![h] = NoPxy]
    /\ UNCHANGED <<regVars, ctlVars, cliVars, tunVars, pxCtl, hctl, tries>>

-----------------------------------------------------------------------------
(* The client's side of a control connection, and time *)

ClientDies(c) ==
    /\ c \notin gone
    /\ gone' = gone \cup {c}
    /\ UNCHANGED <<regVars, ctlVars, stale, msgs, tunVars, pxVars, pubVars>>

\* pingTimeoutInterval passes without a Ping being handled.
HeartbeatLost(c) ==
    /\ nc[c] \notin {"auth", "rejected"} /\ ~stale[c]
    /\ stale' = [stale EXCEPT ![c] = TRUE]
    /\ UNCHANGED <<regVars, ctlVars, gone, msgs, tunVars, pxVars, pubVars>>

-----------------------------------------------------------------------------
Writer(c) == WriteOk(c) \/ WriterExit(c)
Reader(c) == Read(c) \/ ReadError(c) \/ ReaderStopped(c)
Manager(c) ==
    \/ Receive(c) \/ (\E u \in Urls : OpenTunnel(c, u)) \/ TunnelError(c)
    \/ ManagerSend(c) \/ Reap(c) \/ ManagerExit(c)
Boot(c) == Answer(c) \/ BootSend(c) \/ Started(c)
Stopper(c) ==
    \/ StopBegin(c) \/ Del(c)
    \/ CloseIn(c) \/ CloseOut(c) \/ CloseConn(c) \/ CloseProxies(c)
    \/ (\E u \in Urls : ShutTunnel(c, u)) \/ (\E p \in Pxys : DrainProxy(c, p))
    \/ Complete(c)
Handler(h) ==
    \/ (\E p \in Pxys : TakeProxy(h, p)) \/ PoolEmpty(h) \/ AskProxy(h)
    \/ GetProxyError(h) \/ StartProxy(h) \/ StartFails(h) \/ ReplaceProxy(h)

Next ==
    \/ \E c \in Ctls : \/ Connect(c) \/ Boot(c) \/ Writer(c) \/ Reader(c)
                       \/ Manager(c) \/ Stopper(c) \/ Reported(c)
                       \/ ClientDies(c) \/ HeartbeatLost(c)
    \/ \E p \in Pxys : RegisterProxy(p) \/ \E i \in Ids : LookupControl(p, i)
    \/ \E h \in Pubs : Handler(h) \/ JoinEnds(h) \/ \E u \in Urls : Arrive(h, u)

Spec == Init /\ [][Next]_vars

\* Every goroutine that can go on does, and timers fire.  Nothing is assumed
\* of clients: messages, hang-ups and connections may come or not.  Nor is it
\* of Keen: whether metrics.CloseTunnel returns is up to it.
Fairness ==
    /\ \A c \in Ctls :
         /\ WF_vars((Connect(c) /\ nc[c] = "waiting") \/ Boot(c))
         /\ WF_vars(Writer(c)) /\ WF_vars(ReaderStopped(c))
         /\ WF_vars(Manager(c)) /\ WF_vars(Stopper(c))
         /\ WF_vars(HeartbeatLost(c) /\ c \in gone)
    /\ \A p \in Pxys : WF_vars(RegisterProxy(p))
    /\ \A h \in Pubs : WF_vars(Handler(h))

FairSpec == Spec /\ Fairness
-----------------------------------------------------------------------------
(* Properties *)

\* Control implements ControlRegistry: whatever its goroutines do, seen from
\* the registry one incarnation of a client follows the other as specified
\* there.
RegistrySpec == Reg!Spec

\* When a shutdown is complete the Control holds nothing any more: no URL, no
\* pooled connection, and neither manager nor writer, who alone open tunnels
\* and send to the client; not even if a proxy or a request arrived during the
\* shutdown.  stopper does not wait for the reader, which may still have to
\* find that its connection and c.in are closed: nobody takes its message.
NothingLeftBehind ==
    \A c \in complete :
        /\ \A u \in Urls : tunnelReg[u] # c
        /\ Pool(c) = {}
        /\ mg[c] = "done" /\ wr[c] = "done"
        /\ InClosed(c) /\ ConnClosed(c)

\* The registry entry of a URL and the Control's own list agree at all times.
\* TunnelRegistry.Del is unconditional, so this is what keeps a Control that
\* shuts down from unregistering a tunnel that belongs to another one.
TunnelsOwned ==
    \A u \in Urls, c \in Ctls : u \in tunnels[c] <=> tunnelReg[u] = c

\* A client that reconnects and is answered finds none of its URLs held by
\* the Control it replaced.
PredecessorUrlsFree ==
    \A c \in Ctls, u \in Urls :
        nc[c] \in {"answering", "starting", "running"} /\ replaced[c] # NoCtl =>
            tunnelReg[u] # replaced[c]

\* A proxy connection serves one public connection: the handlers holding one
\* hold different ones, each of its own Control and out of the pool, and
\* nobody but its handler has it.
ProxyExclusive ==
    /\ \A h \in Pubs : hp[h] # NoPxy =>
          /\ hs[h] \in {"start", "replace", "joined"}
          /\ px[hp[h]] = "held" /\ pxCtl[hp[h]] = hctl[h]
          /\ \A k \in Pubs \ {h} : hp[k] # hp[h]
    /\ \A p \in Pxys : px[p] = "held" => \E h \in Pubs : hp[h] = p

\* stopper's order keeps the manager and NewControl from being left in the
\* middle: neither finds out closed, for they have no recovery that would let
\* the request be finished.  (The handlers do find it closed, and the reader
\* finds in closed: they recover.)  And a tunnel goes away only after its
\* Control's manager has stopped opening tunnels and its writer has sent
\* everything or given up.
TeardownInOrder ==
    /\ [](\A c \in Ctls : OutClosed(c) => nc[c] = "running" /\ mg[c] = "done")
    /\ [][\A u \in Urls, c \in Ctls :
             tunnelReg[u] = c /\ tunnelReg'[u] # c =>
                 c \in begun /\ mg[c] = "done" /\ wr[c] = "done"]_vars

\* A Control is wedged if its writer has died while NewControl or the manager
\* was about to send to it: that send has no timeout and no receiver left, and
\* the "kill everything if the writer() stops" of control.go:211 does not happen.
Wedged(c) ==
    c \in Ctls /\ wr[c] = "done" /\ (boot[c] # "none" \/ mg[c] \in {"ack", "nack", "pong"})

\* A Control is held up if it is wedged, if its stopper is in CloseTunnel, or if
\* its NewControl waits for a Control that is held up: the least set with these.
HeldUp(c) ==
    LET Closed(S) == {d \in Ctls : \/ Wedged(d)
                                   \/ shut[d] = "report"
                                   \/ nc[d] = "waiting" /\ replaced[d] \in S} \subseteq S
    IN  \A S \in SUBSET Ctls : Closed(S) => c \in S

\* In the end (there are finitely many connections and messages) a shutdown
\* that has begun is complete, unless the Control is held up for good; so is
\* that of a Control whose client has died silently, through the heartbeat, even
\* if its connection never reports an error; and every handler has got a proxy,
\* or an error, and has come back, except from a wedged Control.
CompletesOrWedged ==
    <>[](\A c \in Ctls : c \in begun => c \in complete \/ HeldUp(c))
DeadClientsReaped ==
    <>[](\A c \in Ctls : c \in gone /\ nc[c] \notin {"auth", "rejected"} =>
                            c \in complete \/ HeldUp(c))
HandlersReturn ==
    <>[](\A h \in Pubs : hs[h] \in {"idle", "joined", "done"} \/ Wedged(hctl[h]))
=============================================================================
