---------------------------- MODULE ClientSession ----------------------------
(***************************************************************************)
(* A client's session with the server (client/model.go): the reconnecting  *)
(* loop of Run and control, the goroutines proxy and heartbeat, and the    *)
(* table of tunnels they share, composed with the server's side of each    *)
(* control connection.  The registry protocol of the server is that of     *)
(* ControlRegistry; the other steps of a Control are here only as far as   *)
(* the client can tell: messages leave it in order, the manager opens      *)
(* tunnels, stopper shuts them.                                            *)
(*                                                                         *)
(* A control connection delivers in order until it is lost, which neither  *)
(* side need notice.  What is written to it later goes nowhere.  Either    *)
(* side may get an error from it at any time.                              *)
(***************************************************************************)
EXTENDS Naturals, Sequences, FiniteSets, Functions

CONSTANTS Ctls, Ids, NoCtl, NoId,  \* as in ControlRegistry
          FreshId,     \* the random id drawn for each connection
          Cfgs, NoCfg, \* the tunnels in the client's configuration
          Asked,       \* URLs each may get: all, or the one asked for by name
          Urls,
          Pxys,        \* bound: proxy connections at a time
          MaxPings     \* bound: pings and pongs under way at a time

ASSUME NoCtlAssumption == NoCtl \notin Ctls
ASSUME NoIdAssumption == NoId \notin Ids
ASSUME FreshAssumption == FreshId \in [Ctls -> Ids] /\ IsInjective(FreshId)
ASSUME AskedAssumption == Asked \in [Cfgs -> SUBSET Urls] /\ NoCfg \notin Cfgs
ASSUME PingsAssumption == MaxPings \in Nat

VARIABLES
    controls, ctlId, nc, replaced, told, begun, complete, stp, delArg,
    run,       \* where the goroutine of Run and control is
    cur,       \* the control connection it uses
    id,        \* ClientModel.id
    table,     \* ClientModel.tunnels: what each URL is forwarded to
    hb,        \* heartbeat of cur; "fresh" until lastPing is set
    needPong,  \* lastPong < lastPing
    overtaken, \* history: a Pong was handled before its lastPing was set
    quitting,  \* Controller.Shutdown has been called
    presented, \* the ClientId in each connection's Auth
    dialled, lost,
    reqs, pings, \* ReqTunnels and Pings the server has yet to handle
    toClient,  \* messages under way to the client
    sealed,    \* Controls whose manager and writer have ended
    holder, opened, \* Control and request each registered URL belongs to
    px, pid, pctl, purl, pcfg \* proxy connections

regVars == <<controls, ctlId, nc, replaced, told, begun, complete, stp, delArg>>
runVars == <<run, cur, id, table, quitting, presented, dialled>>
hbVars == <<hb, needPong, overtaken>>
netVars == <<lost, reqs, pings, toClient>>
tunVars == <<sealed, holder, opened>>
pxVars == <<px, pid, pctl, purl, pcfg>>
vars == <<regVars, runVars, hbVars, netVars, tunVars, pxVars>>

Reg == INSTANCE ControlRegistry

Messages ==
    [type : {"authResp"}, id : Ids \cup {NoId}] \cup
    [type : {"newTunnel"}, url : Urls, cfg : Cfgs] \cup
    [type : {"refused", "reqProxy", "pong"}]

TypeOK ==
    /\ Reg!TypeOK
    /\ run \in {"dial", "auth", "loop", "sleep", "exited"}
    /\ cur \in Ctls \cup {NoCtl} /\ id \in Ids \cup {NoId}
    /\ table \in [Urls -> Cfgs \cup {NoCfg}]
    /\ hb \in {"off", "fresh", "pinging", "waiting", "closed"}
    /\ needPong \in BOOLEAN /\ overtaken \in BOOLEAN /\ quitting \in BOOLEAN
    /\ presented \in [Ctls -> Ids \cup {NoId}]
    /\ dialled \subseteq Ctls /\ lost \subseteq Ctls /\ sealed \subseteq Ctls
    /\ reqs \in [Ctls -> SUBSET Cfgs] /\ pings \in [Ctls -> 0..MaxPings]
    /\ toClient \in [Ctls -> Seq(Messages)]
    /\ holder \in [Urls -> Ctls \cup {NoCtl}] /\ opened \in [Urls -> Cfgs \cup {NoCfg}]
    /\ px \in [Pxys -> {"idle", "dial", "sent", "pooled", "started"}]
    /\ pid \in [Pxys -> Ids \cup {NoId}] /\ pctl \in [Pxys -> Ctls \cup {NoCtl}]
    /\ purl \in [Pxys -> Urls \cup {"none"}] /\ pcfg \in [Pxys -> Cfgs \cup {NoCfg}]

Init ==
    /\ Reg!Init
    /\ run = "dial" /\ cur = NoCtl /\ id = NoId
    /\ table = [u \in Urls |-> NoCfg]
    /\ hb = "off" /\ needPong = FALSE /\ overtaken = FALSE /\ quitting = FALSE
    /\ presented = [c \in Ctls |-> NoId] /\ dialled = {} /\ lost = {}
    /\ reqs = [c \in Ctls |-> {}] /\ pings = [c \in Ctls |-> 0]
    /\ toClient = [c \in Ctls |-> <<>>]
    /\ sealed = {}
    /\ holder = [u \in Urls |-> NoCtl] /\ opened = [u \in Urls |-> NoCfg]
    /\ px = [p \in Pxys |-> "idle"] /\ pid = [p \in Pxys |-> NoId]
    /\ pctl = [p \in Pxys |-> NoCtl] /\ purl = [p \in Pxys |-> "none"]
    /\ pcfg = [p \in Pxys |-> NoCfg]

\* The server writes messages to c.
Send(c, ms) ==
    toClient' = IF c \in lost THEN toClient ELSE [toClient EXCEPT ![c] = @ \o ms]

-----------------------------------------------------------------------------
(* Run and control *)

\* control connects and sends its Auth, with the id of the session if it has
\* one.  (If it cannot connect it is as if it slept on.)
Dial(c) ==
    /\ run = "dial" /\ c \notin dialled
    /\ run' = "auth" /\ cur' = c
    /\ dialled' = dialled \cup {c}
    /\ presented' = [presented EXCEPT ![c] = id]
    /\ UNCHANGED <<regVars, id, table, quitting, hbVars, netVars, tunVars, pxVars>>

\* control returns, its deferred Close done.
Return ==
    /\ run' = "sleep"
    /\ hb' = "off" /\ needPong' = FALSE /\ overtaken' = FALSE
    /\ lost' = lost \cup {cur}
    /\ toClient' = [toClient EXCEPT ![cur] = <<>>]

\* A read or write fails, or heartbeat has closed the connection.
ControlFails ==
    /\ run \in {"auth", "loop"}
    /\ Return
    /\ UNCHANGED <<regVars, cur, id, table, quitting, presented, dialled, reqs, pings,
                   tunVars, pxVars>>

\* Run sleeps before it reconnects, ever longer; how long is left out, and with
\* it the connection's status, which only resets it.
Sleep ==
    /\ run = "sleep"
    /\ run' = "dial"
    /\ UNCHANGED <<regVars, cur, id, table, quitting, presented, dialled, hbVars, netVars,
                   tunVars, pxVars>>

Reads(type) ==
    /\ toClient[cur] # <<>> /\ Head(toClient[cur]).type = type
    /\ hb # "closed"
Consume == toClient' = [toClient EXCEPT ![cur] = Tail(@)]

\* Mutant: control goes on with the id it sent.
SentId(m) == id

SessionId(m) == m.id

\* The AuthResp is read; all tunnels are requested and the heartbeat started.
Authenticated ==
    /\ run = "auth" /\ Reads("authResp")
    /\ Consume
    /\ id' = SessionId(Head(toClient[cur]))
    /\ reqs' = IF cur \in lost THEN reqs ELSE [reqs EXCEPT ![cur] = Cfgs]
    /\ run' = "loop"
    /\ hb' = "fresh" /\ needPong' = TRUE
    /\ UNCHANGED <<regVars, cur, table, quitting, presented, dialled, overtaken, lost, pings,
                   tunVars, pxVars>>

\* A write of one of the ReqTunnels fails.
RequestFails ==
    /\ run = "auth" /\ Reads("authResp")
    /\ id' = SessionId(Head(toClient[cur]))
    /\ \E sent \in SUBSET Cfgs :
          reqs' = IF cur \in lost THEN reqs ELSE [reqs EXCEPT ![cur] = sent]
    /\ Return
    /\ UNCHANGED <<regVars, cur, table, quitting, presented, dialled, pings, tunVars, pxVars>>

\* The Auth is answered with an error: control asks the Controller to shut
\* down and returns.
AuthError ==
    /\ run = "auth" /\ Reads("refused")
    /\ quitting' = TRUE
    /\ Return
    /\ UNCHANGED <<regVars, cur, id, table, presented, dialled, reqs, pings, tunVars, pxVars>>

Unmoved == UNCHANGED <<regVars, run, cur, id, presented, dialled, lost, reqs, pings, tunVars>>

\* Mutant: an entry of an earlier session is left as it is.
FirstForward(m) == IF table[m.url] = NoCfg THEN [table EXCEPT ![m.url] = m.cfg] ELSE table

Forward(m) == [table EXCEPT ![m.url] = m.cfg]

\* NewTunnel: the URL is forwarded to what the request with its ReqId was for.
HandleNewTunnel ==
    /\ run = "loop" /\ Reads("newTunnel")
    /\ Consume
    /\ table' = Forward(Head(toClient[cur]))
    /\ Unmoved /\ UNCHANGED <<quitting, hbVars, pxVars>>

\* NewTunnel with an Error.
HandleRefused ==
    /\ run = "loop" /\ Reads("refused")
    /\ Consume
    /\ quitting' = TRUE
    /\ Unmoved /\ UNCHANGED <<table, hbVars, pxVars>>

\* ReqProxy: proxy is started.
HandleReqProxy ==
    /\ run = "loop" /\ Reads("reqProxy")
    /\ Consume
    /\ \/ \E p \in Pxys : px[p] = "idle" /\ px' = [px EXCEPT ![p] = "dial"]
       \/ (\A p \in Pxys : px[p] # "idle") /\ UNCHANGED px
    /\ Unmoved /\ UNCHANGED <<table, quitting, hbVars, pid, pctl, purl, pcfg>>

\* Pong: lastPong is set, which means nothing before the first lastPing.
HandlePong ==
    /\ run = "loop" /\ Reads("pong")
    /\ Consume
    /\ needPong' = FALSE
    /\ overtaken' = (hb = "pinging")
    /\ Unmoved /\ UNCHANGED <<table, quitting, hb, pxVars>>

-----------------------------------------------------------------------------
(* heartbeat *)

Pongs(c) == {n \in DOMAIN toClient[c] : toClient[c][n].type = "pong"}
Underway == pings[cur] + Cardinality(Pongs(cur))

\* The ping ticker fires and the Ping is written; setting lastPing is another
\* step, by which the Pong may already have been handled.
WritePing ==
    /\ run = "loop" /\ hb \in {"fresh", "waiting"}
    /\ Underway < MaxPings
    /\ hb' = "pinging" /\ overtaken' = FALSE
    /\ pings' = IF cur \in lost THEN pings ELSE [pings EXCEPT ![cur] = @ + 1]
    /\ UNCHANGED <<regVars, runVars, needPong, lost, reqs, toClient, tunVars, pxVars>>

SetLastPing ==
    /\ run = "loop" /\ hb = "pinging"
    /\ hb' = "waiting" /\ needPong' = TRUE
    /\ UNCHANGED <<regVars, runVars, overtaken, netVars, tunVars, pxVars>>

\* Mutant: the check does not look at lastPong.
AlwaysStale == TRUE

NoPong == needPong

\* heartbeat returns and closes the connection:
CloseConn ==
    /\ run = "loop"
    /\ hb' = "closed"
    /\ lost' = lost \cup {cur}
    /\ UNCHANGED <<regVars, runVars, needPong, overtaken, reqs, pings, toClient, tunVars, pxVars>>

\* maxPongLatency after lastPing there is no later lastPong, by a wall clock that
\* is not stepped,
Stale == hb = "waiting" /\ NoPong /\ CloseConn

\* or a Ping cannot be written.
PingFails == hb \in {"fresh", "waiting"} /\ CloseConn

-----------------------------------------------------------------------------
(* proxy *)

\* p is gone.  Both sides are taken to notice: that a dead connection stays in
\* the server's pool until it is tried is in module Control.
Gone(p) ==
    /\ px' = [px EXCEPT ![p] = "idle"]
    /\ pid' = [pid EXCEPT ![p] = NoId] /\ pctl' = [pctl EXCEPT ![p] = NoCtl]
    /\ purl' = [purl EXCEPT ![p] = "none"] /\ pcfg' = [pcfg EXCEPT ![p] = NoCfg]
PxyOnly == UNCHANGED <<regVars, runVars, hbVars, netVars, tunVars>>

\* p connects and sends a RegProxy with the id of that moment.
RegProxy(p) ==
    /\ px[p] = "dial"
    /\ px' = [px EXCEPT ![p] = "sent"]
    /\ pid' = [pid EXCEPT ![p] = id]
    /\ PxyOnly /\ UNCHANGED <<pctl, purl, pcfg>>

\* Dialling, writing or reading fails.
ProxyFails(p) == px[p] # "idle" /\ Gone(p) /\ PxyOnly

\* The StartProxy is read and the URL looked up: without an entry p is closed,
\* with one it is joined with a connection to the local address.
Lookup(p) == px[p] = "started" /\ Gone(p) /\ PxyOnly

Exit ==
    /\ run' = "exited" /\ hb' = "off" /\ needPong' = FALSE /\ overtaken' = FALSE
    /\ lost' = Ctls
    /\ toClient' = [c \in Ctls |-> <<>>]
    /\ px' = [p \in Pxys |-> "idle"] /\ pid' = [p \in Pxys |-> NoId]
    /\ pctl' = [p \in Pxys |-> NoCtl] /\ purl' = [p \in Pxys |-> "none"]
    /\ pcfg' = [p \in Pxys |-> NoCfg]
    /\ UNCHANGED <<regVars, cur, id, table, quitting, presented, dialled, reqs, pings, tunVars>>

\* ClientModel.tunnels is a map read by proxy and written by control with no
\* lock: the runtime may end the process if it sees both at once.
MapRace ==
    /\ run = "loop" /\ Reads("newTunnel")
    /\ \E p \in Pxys : px[p] = "started"
    /\ Exit

\* The Controller has shut the program down.
Quit == quitting /\ run # "exited" /\ Exit

-----------------------------------------------------------------------------
(* The server *)

ServerOnly == UNCHANGED <<runVars, hbVars>>

IdFor(c) == IF presented[c] = NoId THEN FreshId[c] ELSE presented[c]

\* NewControl: the Auth is refused, or c is entered and waits.
Accept(c) ==
    /\ c \in dialled
    /\ \/ Reg!FailAuth(c) /\ Send(c, <<[type |-> "refused"]>>)
       \/ Reg!Add(c, IdFor(c)) /\ UNCHANGED toClient
       \/ Reg!Waited(c) /\ UNCHANGED toClient
    /\ ServerOnly /\ UNCHANGED <<lost, reqs, pings, tunVars, pxVars>>

\* AuthResp and the first ReqProxy.
Answer(c) ==
    /\ Reg!Answer(c)
    /\ Send(c, <<[type |-> "authResp", id |-> ctlId[c]], [type |-> "reqProxy"]>>)
    /\ ServerOnly /\ UNCHANGED <<lost, reqs, pings, tunVars, pxVars>>

\* Start, begin of the shutdown, and what stopper does up to Del.
Lifecycle(c) ==
    /\ Reg!Started(c) \/ Reg!Begin(c) \/ Reg!StopBegin(c) \/ Reg!Del(c)
    /\ ServerOnly /\ UNCHANGED <<netVars, tunVars, pxVars>>

Serving(c) == nc[c] = "running" /\ c \notin sealed

\* manager: a ReqTunnel is granted a free URL or refused, because all are taken
\* or for a reason of its own; the tunnel is registered before the client is told.
OpenTunnel(c, k) ==
    /\ Serving(c) /\ k \in reqs[c]
    /\ reqs' = [reqs EXCEPT ![c] = @ \ {k}]
    /\ \/ \E u \in Asked[k] :
             /\ holder[u] = NoCtl
             /\ holder' = [holder EXCEPT ![u] = c]
             /\ opened' = [opened EXCEPT ![u] = k]
             /\ Send(c, <<[type |-> "newTunnel", url |-> u, cfg |-> k]>>)
       \/ Send(c, <<[type |-> "refused"]>>) /\ UNCHANGED <<holder, opened>>
    /\ ServerOnly /\ UNCHANGED <<regVars, lost, pings, sealed, pxVars>>

\* Mutant: Pongs are sent unasked.
PongUnasked(c) == TRUE

Pinged(c) == pings[c] > 0

\* manager: Pings come after the ReqTunnels.
AnswerPing(c) ==
    /\ Serving(c) /\ reqs[c] = {} /\ Pinged(c)
    /\ pings' = [pings EXCEPT ![c] = @ - 1]
    /\ Send(c, <<[type |-> "pong"]>>)
    /\ ServerOnly /\ UNCHANGED <<regVars, lost, reqs, tunVars, pxVars>>

\* NewProxy: p enters the pool of the Control registered for its id.
Register(p) ==
    /\ px[p] = "sent"
    /\ \/ /\ pid[p] \in Ids /\ controls[pid[p]] # NoCtl
          /\ px' = [px EXCEPT ![p] = "pooled"]
          /\ pctl' = [pctl EXCEPT ![p] = controls[pid[p]]]
          /\ pid' = [pid EXCEPT ![p] = NoId]
          /\ UNCHANGED <<purl, pcfg>>
       \/ (pid[p] \in Ids => controls[pid[p]] = NoCtl) /\ Gone(p)
    /\ PxyOnly

\* A visitor of u takes p from the pool: StartProxy, and a ReqProxy for the
\* next one; with the pool empty only the latter (bound: one at a time).
Visit(u, p) ==
    /\ holder[u] # NoCtl /\ px[p] = "pooled" /\ pctl[p] = holder[u]
    /\ px' = [px EXCEPT ![p] = "started"]
    /\ purl' = [purl EXCEPT ![p] = u] /\ pcfg' = [pcfg EXCEPT ![p] = opened[u]]
    /\ IF holder[u] \in sealed THEN UNCHANGED toClient
       ELSE Send(holder[u], <<[type |-> "reqProxy"]>>)
    /\ ServerOnly /\ UNCHANGED <<regVars, lost, reqs, pings, tunVars, pid, pctl>>
AskProxy(u) ==
    LET c == holder[u] IN
    /\ c # NoCtl /\ c \notin sealed
    /\ \A p \in Pxys : px[p] # "idle" => pctl[p] # c /\ px[p] # "dial"
    /\ \A n \in DOMAIN toClient[c] : toClient[c][n].type # "reqProxy"
    /\ Send(c, <<[type |-> "reqProxy"]>>)
    /\ ServerOnly /\ UNCHANGED <<regVars, lost, reqs, pings, tunVars, pxVars>>

\* stopper: manager and writer have ended and the connection is closed; then
\* the tunnels are shut; then the pool is drained (ProxyFails).
Seal(c) ==
    /\ stp[c] = "closing" /\ c \notin sealed
    /\ sealed' = sealed \cup {c}
    /\ lost' = lost \cup {c}
    /\ reqs' = [reqs EXCEPT ![c] = {}] /\ pings' = [pings EXCEPT ![c] = 0]
    /\ ServerOnly /\ UNCHANGED <<regVars, toClient, holder, opened, pxVars>>
ShutTunnel(u) ==
    /\ holder[u] \in sealed
    /\ holder' = [holder EXCEPT ![u] = NoCtl] /\ opened' = [opened EXCEPT ![u] = NoCfg]
    /\ ServerOnly /\ UNCHANGED <<regVars, netVars, sealed, pxVars>>
Complete(c) ==
    /\ c \in sealed /\ \A u \in Urls : holder[u] # c
    /\ \A p \in Pxys : px[p] = "pooled" => pctl[p] # c
    /\ Reg!Complete(c)
    /\ ServerOnly /\ UNCHANGED <<netVars, tunVars, pxVars>>

\* The network stops carrying c.
Lose(c) ==
    /\ c \in dialled \ lost
    /\ lost' = lost \cup {c}
    /\ UNCHANGED <<regVars, runVars, hbVars, reqs, pings, toClient, tunVars, pxVars>>

-----------------------------------------------------------------------------
Control == \/ Authenticated \/ RequestFails \/ AuthError \/ HandleNewTunnel \/ HandleRefused
           \/ HandleReqProxy \/ HandlePong
Heartbeat == WritePing \/ SetLastPing \/ Stale \/ PingFails

Next ==
    \/ Sleep \/ ControlFails \/ Control \/ Heartbeat \/ MapRace \/ Quit
    \/ \E c \in Ctls : \/ Dial(c) \/ Accept(c) \/ Answer(c) \/ Lifecycle(c) \/ AnswerPing(c)
                       \/ Seal(c) \/ Complete(c) \/ Lose(c)
                       \/ \E k \in Cfgs : OpenTunnel(c, k)
    \/ \E p \in Pxys : \/ RegProxy(p) \/ ProxyFails(p) \/ Lookup(p) \/ Register(p)
                       \/ \E u \in Urls : Visit(u, p)
    \/ \E u \in Urls : ShutTunnel(u) \/ AskProxy(u)

Spec == Init /\ [][Next]_vars

-----------------------------------------------------------------------------
(* Properties *)

\* The RegProxys of a client lead to its own Control: if the connection in use
\* is registered, then under the id the client sends.
ProxiesFindHome ==
    run = "loop" => \A i \in Ids : controls[i] = cur => id = i

\* Once the client has handled everything the server said about a URL, a
\* visitor of it is forwarded to what the client's request was for; until then
\* it may have no entry for the URL, or one of an earlier session, although
\* model.go:300-301 saves the request ids "so we know which local address to
\* proxy to later".
RightTargetOnceTold ==
    \A p \in Pxys :
        /\ px[p] = "started" /\ pctl[p] = cur /\ run = "loop" /\ cur \notin lost
        /\ \A n \in DOMAIN toClient[cur] : toClient[cur][n].type = "newTunnel" =>
               toClient[cur][n].url # purl[p]
        => table[purl[p]] = pcfg[p]

\* A connection that works, on which every Ping has been answered and every
\* Pong handled, is taken for dead for one reason only: a Pong was handled
\* before heartbeat had set the lastPing it belongs to.
StaleForCause ==
    [][Stale /\ cur \notin lost /\ Underway = 0 => overtaken]_vars
=============================================================================
