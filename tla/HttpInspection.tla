---------------------------- MODULE HttpInspection ----------------------------
(***************************************************************************)
(* The inspection of HTTP traffic: a connection to the local server is     *)
(* wrapped in a Tee (conn/tee.go), whose pipes readRequests and            *)
(* readResponses (proto/http.go) consume; each transaction is broadcast to *)
(* the terminal's and the web interface's list (client/views), and         *)
(* answered ones on to the browsers' tabs.  Every hop is a rendezvous, so  *)
(* whoever stops reading stops, in the end, the traffic itself.            *)
(*                                                                         *)
(* Traffic comes in chunks, what one Read returns.  A chunk is a whole     *)
(* message, its head or the rest of it, two messages, something that is    *)
(* not HTTP, or a websocket frame.                                         *)
(***************************************************************************)
EXTENDS Naturals, Sequences, FiniteSets

CONSTANTS Conns,   \* connections to a local server
          Txns,    \* transactions somebody refers to; see TxnsSuffice
          Tabs,    \* browser tabs with a websocket
          MaxOwed  \* bound: requests the local server has yet to answer

NoTxn == 0

\* Each connection's readers hold two at most.
ASSUME TxnsAssumption ==
    /\ IsFiniteSet(Conns) /\ IsFiniteSet(Txns) /\ Txns \subseteq Nat \ {NoTxn}
    /\ Cardinality(Txns) >= 2 * Cardinality(Conns)
ASSUME OwedAssumption == MaxOwed \in Nat

VARIABLES
    replay,       \* connections made by PlayRequest, not for a visitor
    up, dn,       \* the two goroutines of Join, or Write and ReadAll of a replay
    wPipe, rPipe, \* the Tee's pipes: the chunk being written, "", or "closed"
    rq, rqTxn, rs, rsTxn, \* readRequests and readResponses
    resp, user, upgr, \* of a transaction: Resp # nil, UserCtx # nil, asks for a websocket
    vmid, smid,   \* visitor, server: between the head and the rest of a message
    owed, ws,     \* requests to be answered; whether a websocket is spoken
    tl, tp, listed,       \* Txns; what the terminal lists
    web,                  \* updateHttp
    wl, wp, tab,          \* wsMessages; handlers of /_ws
    closed,       \* connections that the client has closed
    left,         \* history: the visitor's end was read, or writing to it failed
    odd           \* history: a chunk was not one message on its own

trafficVars == <<replay, up, dn, vmid, smid, owed, ws, closed, left, odd>>
pipeVars == <<wPipe, rPipe>>
rqVars == <<rq, rqTxn>>
rsVars == <<rs, rsTxn>>
txnVars == <<resp, user, upgr, listed>>
connVars == <<trafficVars, pipeVars, rqVars, rsVars>>
txnsVars == <<tl, tp>>
wsVars == <<wl, wp, tab>>
viewVars == <<txnsVars, web, wsVars>>
vars == <<connVars, txnVars, viewVars>>

Bcast == INSTANCE Broadcast WITH listeners <- tl, pending <- tp,
            Listeners <- {"term", "web"}, Items <- Txns
WsMessages == INSTANCE Broadcast WITH listeners <- wl, pending <- wp,
            Listeners <- Tabs, Items <- {"txn"}

Chunks == {"whole", "upgrade", "interim", "head", "rest", "double", "junk", "frame"}
Pipe == Chunks \cup {"", "closed"}

\* One of the goroutines holds it, or the broadcast.
Used(t) ==
    \/ \E k \in Conns : t \in {rqTxn[k], rsTxn[k]}
    \/ \E n \in DOMAIN tp : tp[n][2] = t

\* What nobody refers to any more is forgotten.
Kept(S) == {t \in S : Used(t)'}

\* The bound on Txns is in nobody's way.
TxnsSuffice == (\E k \in Conns : rq[k] \in {"read", "body"}) => \E t \in Txns : ~Used(t)

\* Types.
TypeOK ==
    /\ replay \subseteq Conns /\ closed \subseteq Conns
    /\ left \subseteq Conns /\ odd \subseteq Conns
    /\ vmid \subseteq Conns /\ smid \subseteq Conns
    /\ up \in [Conns -> {"read", "close", "done"}]
    /\ dn \in [Conns -> {"read", "write", "close", "done"}]
    /\ wPipe \in [Conns -> Pipe] /\ rPipe \in [Conns -> Pipe]
    /\ rq \in [Conns -> {"read", "body", "lastTxn", "txns", "done"}]
    /\ rs \in [Conns -> {"range", "read", "body", "txns", "drain", "done"}]
    /\ rqTxn \in [Conns -> Txns \cup {NoTxn}] /\ rsTxn \in [Conns -> Txns \cup {NoTxn}]
    /\ resp \subseteq Txns /\ user \subseteq Txns /\ upgr \subseteq Txns /\ listed \subseteq Txns
    /\ owed \in [Conns -> 0..MaxOwed] /\ ws \in [Conns -> {"no", "asked", "yes", "refused"}]
    /\ Bcast!TypeOK /\ WsMessages!TypeOK
    /\ web \in {"reg", "recv", "in"}
    /\ tab \in [Tabs -> {"closed", "recv", "write", "unreg"}]
    /\ TxnsSuffice

Init ==
    /\ replay \in SUBSET Conns
    /\ closed = {} /\ left = {} /\ odd = {}
    /\ vmid = {} /\ smid = {}
    /\ up = [k \in Conns |-> "read"] /\ dn = [k \in Conns |-> "read"]
    /\ wPipe = [k \in Conns |-> ""] /\ rPipe = [k \in Conns |-> ""]
    /\ rq = [k \in Conns |-> "read"] /\ rs = [k \in Conns |-> "range"]
    /\ rqTxn = [k \in Conns |-> NoTxn] /\ rsTxn = [k \in Conns |-> NoTxn]
    /\ resp = {} /\ user = {} /\ upgr = {} /\ listed = {}
    /\ owed = [k \in Conns |-> 0] /\ ws = [k \in Conns |-> "no"]
    /\ tl = <<"term">> /\ tp = <<>> /\ web = "reg"
    /\ WsMessages!Init
    /\ tab = [b \in Tabs |-> "closed"]

----------------------------------------------------------------------------
\* The traffic.

\* What a visitor may send: at most one message at a time is regular.
Sendable(k) ==
    CASE ws[k] = "asked" -> {}
      [] ws[k] = "yes" -> {"frame"}
      [] k \in vmid -> {"rest"}
      [] OTHER -> {"whole", "head", "double", "junk"}
                  \cup (IF ws[k] = "no" THEN {"upgrade"} ELSE {})

\* Requests that begin with chunk.
Requests(chunk) ==
    CASE chunk = "double" -> 2 [] chunk \in {"rest", "frame"} -> 0 [] OTHER -> 1

\* PlayRequest writes once and then only reads.
AfterWrite(k) == IF k \in replay /\ k \notin vmid' THEN "done" ELSE "read"

\* ReadFrom reads a chunk, writes it to the local server, and then to the pipe.
UpRead(k) ==
    /\ up[k] = "read" /\ wPipe[k] = "" /\ k \notin closed
    /\ \E chunk \in Sendable(k) :
        /\ owed[k] + Requests(chunk) <= MaxOwed
        /\ owed' = [owed EXCEPT ![k] = @ + Requests(chunk)]
        /\ vmid' = IF chunk = "head" THEN vmid \cup {k} ELSE vmid \ {k}
        /\ ws' = IF chunk = "upgrade" THEN [ws EXCEPT ![k] = "asked"] ELSE ws
        /\ odd' = IF \/ chunk \in {"double", "junk"}
                     \/ k \notin vmid /\ (owed[k] > 0 \/ k \in smid)
                  THEN odd \cup {k} ELSE odd
        /\ wPipe' = [wPipe EXCEPT ![k] = chunk]
    /\ up' = [up EXCEPT ![k] = AfterWrite(k)]
    /\ UNCHANGED <<replay, dn, smid, closed, left, rPipe, rqVars, rsVars, txnVars, viewVars>>

\* The visitor is done: io.Copy returns no error, and the pipe stays open.
UpEOF(k) ==
    /\ up[k] = "read" /\ wPipe[k] = "" /\ k \notin closed \cup replay
    /\ up' = [up EXCEPT ![k] = "close"]
    /\ left' = left \cup {k}
    /\ UNCHANGED <<replay, dn, vmid, smid, owed, ws, closed, odd, pipeVars, rqVars, rsVars,
                   txnVars, viewVars>>

\* The rest of a request will not come.  Only a goroutine of Join closes the
\* connections when it is done.
UpFailed(k) ==
    /\ up' = [up EXCEPT ![k] = IF k \in replay THEN "done" ELSE "close"]
    /\ vmid' = vmid \ {k}

\* Mutant: the pipe is left open on an error too.
UpFailsPipeOpen(k) ==
    /\ up[k] = "read" /\ wPipe[k] = ""
    /\ UpFailed(k)
    /\ UNCHANGED <<replay, dn, smid, owed, ws, closed, left, odd, pipeVars, rqVars, rsVars,
                   txnVars, viewVars>>

\* Reading or writing fails, at the latest when the other goroutine has closed.
UpFails(k) ==
    /\ up[k] = "read" /\ wPipe[k] = ""
    /\ UpFailed(k)
    /\ wPipe' = [wPipe EXCEPT ![k] = "closed"]
    /\ UNCHANGED <<replay, dn, smid, owed, ws, closed, left, odd, rPipe, rqVars, rsVars,
                   txnVars, viewVars>>

\* What the local server may answer, be the request complete or not; "interim" is
\* a 1xx before the answer proper.
Answers(k) ==
    CASE ws[k] = "yes" -> {"frame"}
      [] k \in smid -> {"rest"}
      [] OTHER -> (IF owed[k] > 0 THEN {"whole", "head", "junk", "interim"} ELSE {})
                  \cup (IF owed[k] > 1 THEN {"double"} ELSE {})

Answered(chunk) ==
    CASE chunk = "double" -> 2 [] chunk \in {"head", "frame", "interim"} -> 0 [] OTHER -> 1

\* The goroutine is at a Read; PlayRequest's first comes after its Write.
AtRead(k) == /\ dn[k] = "read" /\ rPipe[k] = ""
             /\ k \in replay => up[k] = "done" /\ wPipe[k] \notin Chunks

\* Tee.Read reads a chunk and writes it to the pipe.
DnRead(k) ==
    /\ AtRead(k) /\ k \notin closed
    /\ \E chunk \in Answers(k) :
        /\ rPipe' = [rPipe EXCEPT ![k] = chunk]
        /\ owed' = [owed EXCEPT ![k] = @ - Answered(chunk)]
        /\ smid' = IF chunk = "head" THEN smid \cup {k} ELSE smid \ {k}
        /\ odd' = IF chunk \in {"double", "junk", "interim"} THEN odd \cup {k} ELSE odd
        /\ \/ ws[k] # "asked" /\ ws' = ws
           \/ /\ ws[k] = "asked"
              /\ \/ chunk \in {"whole", "junk"} /\ ws' = [ws EXCEPT ![k] = "yes"]
                 \/ chunk \in {"whole", "rest", "junk"} /\ ws' = [ws EXCEPT ![k] = "refused"]
                 \/ chunk \in {"head", "interim"} /\ ws' = ws
    /\ dn' = [dn EXCEPT ![k] = "write"]
    /\ UNCHANGED <<replay, up, vmid, closed, left, wPipe, rqVars, rsVars, txnVars, viewVars>>

\* The chunk has been mirrored and goes on to the visitor, unless that fails;
\* ReadAll of a replay just reads on.
DnWrite(k) ==
    /\ dn[k] = "write" /\ rPipe[k] = ""
    /\ \/ dn' = [dn EXCEPT ![k] = "read"] /\ UNCHANGED left
       \/ k \notin replay /\ dn' = [dn EXCEPT ![k] = "close"] /\ left' = left \cup {k}
    /\ UNCHANGED <<replay, up, vmid, smid, owed, ws, closed, odd, pipeVars, rqVars, rsVars,
                   txnVars, viewVars>>

\* EOF or an error from the local server; Tee.Read closes the pipe.
DnEnds(k) ==
    /\ AtRead(k)
    /\ dn' = [dn EXCEPT ![k] = "close"]
    /\ rPipe' = [rPipe EXCEPT ![k] = "closed"]
    /\ UNCHANGED <<replay, up, vmid, smid, owed, ws, closed, left, odd, wPipe, rqVars, rsVars,
                   txnVars, viewVars>>

\* The first goroutine that is done closes both connections.
Close(k) ==
    /\ \/ up[k] = "close" /\ up' = [up EXCEPT ![k] = "done"] /\ UNCHANGED dn
       \/ dn[k] = "close" /\ dn' = [dn EXCEPT ![k] = "done"] /\ UNCHANGED up
    /\ closed' = closed \cup {k}
    /\ smid' = smid \ {k}
    /\ owed' = [owed EXCEPT ![k] = 0]
    /\ UNCHANGED <<replay, vmid, ws, left, odd, pipeVars, rqVars, rsVars, txnVars, viewVars>>

----------------------------------------------------------------------------
\* readRequests and readResponses.

\* What a reader makes of a chunk at the start of a message.
Complete(chunk) == chunk \in {"whole", "upgrade", "interim", "double"}

\* ReadBuffer and WriteBuffer make a new bufio.Reader for each message.  What
\* the last one had buffered is lost; what it had not, is still in the pipe.
Leftover(chunk) ==
    CASE chunk = "closed" -> {"closed"}
      [] chunk \in {"double", "junk"} -> {"", "rest"}
      [] OTHER -> {""}

ConsumeWrite(k) ==
    wPipe[k] # "" /\ \E rest \in Leftover(wPipe[k]) : wPipe' = [wPipe EXCEPT ![k] = rest]
ConsumeRead(k) ==
    rPipe[k] # "" /\ \E rest \in Leftover(rPipe[k]) : rPipe' = [rPipe EXCEPT ![k] = rest]

NewTxn(k, chunk) ==
    LET t == CHOOSE x \in Txns : ~Used(x) IN
    /\ rqTxn' = [rqTxn EXCEPT ![k] = t]
    /\ resp' = resp \ {t} /\ user' = user \ {t}
    /\ upgr' = IF chunk = "upgrade" THEN upgr \cup {t} ELSE upgr \ {t}
    /\ listed' = listed \ {t}

ReadRequest(k) ==
    /\ rq[k] = "read" /\ ConsumeWrite(k)
    /\ \/ /\ Complete(wPipe[k])
          /\ rq' = [rq EXCEPT ![k] = "lastTxn"]
          /\ NewTxn(k, wPipe[k])
       \/ /\ ~Complete(wPipe[k])
          /\ rq' = [rq EXCEPT ![k] = IF wPipe[k] = "head" THEN "body" ELSE "done"]
          /\ UNCHANGED <<rqTxn, txnVars>>
    /\ UNCHANGED <<trafficVars, rPipe, rsVars, viewVars>>

\* Mutant: the body is not read before the transaction is handed on.
BodyNotRead(k) ==
    /\ rq[k] = "body"
    /\ rq' = [rq EXCEPT ![k] = "lastTxn"]
    /\ NewTxn(k, "head")
    /\ UNCHANGED <<trafficVars, pipeVars, rsVars, viewVars>>

\* DumpRequest reads the body, or as much of it as there is.
ReadRequestBody(k) ==
    /\ rq[k] = "body" /\ ConsumeWrite(k)
    /\ rq' = [rq EXCEPT ![k] = "lastTxn"]
    /\ NewTxn(k, "head")
    /\ UNCHANGED <<trafficVars, rPipe, rsVars, viewVars>>

HandTxn(k) ==
    /\ rq[k] = "lastTxn" /\ rs[k] = "range"
    /\ rq' = [rq EXCEPT ![k] = "txns"]
    /\ rs' = [rs EXCEPT ![k] = "read"]
    /\ rsTxn' = [rsTxn EXCEPT ![k] = rqTxn[k]]
    /\ UNCHANGED <<trafficVars, pipeVars, rqTxn, txnVars, viewVars>>

BroadcastRequest(k) ==
    /\ rq[k] = "txns"
    /\ Bcast!In(rqTxn[k])
    /\ rq' = [rq EXCEPT ![k] = "read"]
    /\ rqTxn' = [rqTxn EXCEPT ![k] = NoTxn]
    /\ UNCHANGED <<trafficVars, pipeVars, rsVars, txnVars, web, wsVars>>

ReadResponse(k) ==
    /\ rs[k] = "read" /\ ConsumeRead(k)
    /\ \/ /\ Complete(rPipe[k])
          /\ rs' = [rs EXCEPT ![k] = "txns"]
          /\ resp' = resp \cup {rsTxn[k]}
          /\ UNCHANGED rsTxn
       \/ /\ rPipe[k] = "head"
          /\ rs' = [rs EXCEPT ![k] = "body"]
          /\ UNCHANGED <<rsTxn, resp>>
       \/ /\ rPipe[k] \in {"rest", "junk", "frame", "closed"}
          /\ rs' = [rs EXCEPT ![k] = "done"]
          /\ rsTxn' = [rsTxn EXCEPT ![k] = NoTxn]
          /\ UNCHANGED resp
    /\ UNCHANGED <<trafficVars, wPipe, rqVars, user, upgr, listed, viewVars>>

\* Mutant: Resp is assigned after the transaction has been broadcast.
RespSetLate(k) ==
    /\ rs[k] = "body" /\ ConsumeRead(k)
    /\ rs' = [rs EXCEPT ![k] = "txns"]
    /\ UNCHANGED <<trafficVars, wPipe, rqVars, rsTxn, txnVars, viewVars>>

ReadResponseBody(k) ==
    /\ rs[k] = "body" /\ ConsumeRead(k)
    /\ rs' = [rs EXCEPT ![k] = "txns"]
    /\ resp' = resp \cup {rsTxn[k]}
    /\ UNCHANGED <<trafficVars, wPipe, rqVars, rsTxn, user, upgr, listed, viewVars>>

BroadcastResponse(k) ==
    /\ rs[k] = "txns"
    /\ Bcast!In(rsTxn[k])
    /\ rs' = [rs EXCEPT ![k] = IF rsTxn[k] \in upgr THEN "drain" ELSE "range"]
    /\ rsTxn' = [rsTxn EXCEPT ![k] = NoTxn]
    /\ UNCHANGED <<trafficVars, pipeVars, rqVars, txnVars, web, wsVars>>

\* The shim for websockets: both pipes are read to their ends.
DrainWrites(k) ==
    /\ rs[k] = "drain" /\ wPipe[k] \in Chunks
    /\ wPipe' = [wPipe EXCEPT ![k] = ""]
    /\ UNCHANGED <<trafficVars, rPipe, rqVars, rsVars, txnVars, viewVars>>

DrainReads(k) ==
    /\ rs[k] = "drain" /\ rPipe[k] \in Chunks
    /\ rPipe' = [rPipe EXCEPT ![k] = ""]
    /\ UNCHANGED <<trafficVars, wPipe, rqVars, rsVars, txnVars, viewVars>>

\* lastTxn has been closed, or the shim is done.
ResponsesEnd(k) ==
    /\ \/ rs[k] = "range" /\ rq[k] = "done"
       \/ rs[k] = "drain" /\ wPipe[k] = "closed" /\ rPipe[k] = "closed"
    /\ rs' = [rs EXCEPT ![k] = "done"]
    /\ UNCHANGED <<trafficVars, pipeVars, rqVars, rsTxn, txnVars, viewVars>>

----------------------------------------------------------------------------
\* The terminal's list, the web interface's, and its tabs.

\* HttpView.Run takes a transaction without Resp for a new one.  Render ends
\* with a Flush, which the running TermView answers at once.
TermReceives ==
    /\ UNCHANGED <<connVars, web, wsVars>>
    /\ \E t \in Txns :
        /\ Bcast!Send("term", t)
        /\ listed' = Kept(IF t \in resp THEN listed ELSE listed \cup {t})
    /\ resp' = Kept(resp) /\ user' = Kept(user) /\ upgr' = Kept(upgr)

WebRegisters ==
    /\ web = "reg" /\ Bcast!Reg("web")
    /\ web' = "recv"
    /\ UNCHANGED <<connVars, txnVars, wsVars>>

\* updateHttp takes a transaction without UserCtx for a new one, and uses the
\* Resp of any other.  Either may fail to be dumped and is then skipped.
WebReceives ==
    /\ web = "recv"
    /\ UNCHANGED <<connVars, wsVars>>
    /\ \E t \in Txns :
        /\ Bcast!Send("web", t)
        /\ \/ web' = web /\ user' = Kept(user)
           \/ t \notin user /\ user' = Kept(user \cup {t}) /\ web' = web
           \/ t \in user /\ user' = Kept(user) /\ web' = "in"
    /\ resp' = Kept(resp) /\ upgr' = Kept(upgr) /\ listed' = Kept(listed)

WebBroadcasts ==
    /\ web = "in" /\ WsMessages!In("txn")
    /\ web' = "recv"
    /\ UNCHANGED <<connVars, txnVars, txnsVars, tab>>

TabUnchanged == UNCHANGED <<connVars, txnVars, txnsVars, web>>

TabRegisters(b) ==
    /\ tab[b] = "closed" /\ WsMessages!Reg(b)
    /\ tab' = [tab EXCEPT ![b] = "recv"]
    /\ TabUnchanged

TabReceives(b) ==
    /\ tab[b] = "recv" /\ WsMessages!Send(b, "txn")
    /\ tab' = [tab EXCEPT ![b] = "write"]
    /\ TabUnchanged

\* What it received is written, with no deadline; only a failing write tells that
\* the tab has gone.
TabWrites(b) ==
    /\ tab[b] = "write"
    /\ \E next \in {"recv", "unreg"} : tab' = [tab EXCEPT ![b] = next]
    /\ UNCHANGED <<wl, wp>>
    /\ TabUnchanged

TabUnregisters(b) ==
    /\ tab[b] = "unreg" /\ WsMessages!UnReg(b)
    /\ tab' = [tab EXCEPT ![b] = "closed"]
    /\ TabUnchanged

----------------------------------------------------------------------------
RequestReader(k) ==
    ReadRequest(k) \/ ReadRequestBody(k) \/ HandTxn(k) \/ BroadcastRequest(k)

ResponseReader(k) ==
    ReadResponse(k) \/ ReadResponseBody(k) \/ BroadcastResponse(k) \/ ResponsesEnd(k)

Traffic(k) ==
    UpRead(k) \/ UpEOF(k) \/ UpFails(k) \/ DnRead(k) \/ DnWrite(k) \/ DnEnds(k) \/ Close(k)

Web == WebRegisters \/ WebReceives \/ WebBroadcasts

Next ==
    \/ \E k \in Conns : \/ Traffic(k) \/ RequestReader(k) \/ ResponseReader(k)
                        \/ DrainWrites(k) \/ DrainReads(k)
    \/ TermReceives \/ Web
    \/ \E b \in Tabs : TabRegisters(b) \/ TabReceives(b) \/ TabWrites(b) \/ TabUnregisters(b)

Spec == Init /\ [][Next]_vars

\* Every goroutine that can run does.  Nothing is assumed of visitors, of the
\* local server or of browsers, not that they take what is written to them
\* either; a closed connection yields an error.
FairSpec ==
    /\ Spec
    /\ \A k \in Conns :
        /\ WF_vars(RequestReader(k)) /\ WF_vars(ResponseReader(k))
        /\ WF_vars(DrainWrites(k)) /\ WF_vars(DrainReads(k))
        /\ WF_vars(Close(k))
        /\ WF_vars(k \in closed /\ DnWrite(k))
        /\ WF_vars(k \in closed /\ UpFails(k)) /\ WF_vars(k \in closed /\ DnEnds(k))
    /\ WF_vars(TermReceives) /\ WF_vars(Web)
    /\ \A b \in Tabs : WF_vars(TabReceives(b)) /\ WF_vars(TabUnregisters(b))

----------------------------------------------------------------------------
\* Nobody reads a Resp that is not there, though it is assigned while the
\* views already have the transaction: what updateHttp has seen before has its
\* Resp when it comes again, and the terminal lists nothing twice
\* (web/http.go:153-195, term/http.go:60).
ViewsUnderstand ==
    [][ \A t \in Txns :
        /\ Bcast!Send("web", t) /\ web' = "in" => t \in resp
        /\ Bcast!Send("term", t) /\ t \in listed => t \in resp ]_vars

\* UnReg waits for the broadcast while the broadcast waits for the same tab
\* (broadcast.go:38, :58).  From then on no tab gets anything, then no view,
\* and then no connection.
TabHung == \E b \in Tabs : tab[b] = "unreg" /\ WsMessages!HeldBy(b)

\* No browser stalls for ever, with its connection open.
TabsTake == \A b \in Tabs : []<>(tab[b] # "write")

\* What is mirrored is read, so that the traffic is not held up (http.go:80-82,
\* 117-118; tee.go:19-22), on every connection that carries one message at a
\* time, as long as no tab hangs and no browser stalls.  What is answered before
\* the request is complete waits for the visitor to complete it, for ever if he
\* leaves instead.
TrafficFlows ==
    TabsTake =>
        \A k \in Conns :
            /\ []<>(wPipe[k] \notin Chunks \/ k \in odd \/ TabHung)
            /\ []<>(rPipe[k] \notin Chunks \/ k \in odd \/ k \in vmid \/ TabHung)

\* When a visitor's connection has been closed, readRequests and readResponses
\* end too (http.go:76, 114), unless the visitor left: of its EOF io.Copy makes no
\* error, be it read only in the moment before the local server's end has led to
\* the closing, and the Tee leaves its pipe open (tee.go:72-80); so it does with
\* the other one when a write to the visitor fails (tee.go:61-70).  A replay's
\* pipe is never closed (model.go:170-184).
AnalyzersEnd ==
    TabsTake =>
        \A k \in Conns :
            []<>(\/ k \notin closed \/ k \in replay \cup left \cup odd
                 \/ ws[k] = "refused" \/ TabHung
                 \/ rq[k] = "done" /\ rs[k] = "done")
===============================================================================
