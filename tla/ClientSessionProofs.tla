------------------------ MODULE ClientSessionProofs ------------------------
(***************************************************************************)
(* Proofs about ClientSession, for any configuration of tunnels and any    *)
(* number of connections, ids, URLs and proxies.  The session keeps to the *)
(* server's registry protocol, and so inherits what ControlRegistryProofs  *)
(* proves; with that, its ids, its table of tunnels and its heartbeat.     *)
(***************************************************************************)
EXTENDS ClientSession, FiniteSetTheorems, TLAPS

Lib == INSTANCE ControlRegistryProofs

\* The messages under way on c.
Mail(c) == {toClient[c][n] : n \in DOMAIN toClient[c]}

\* Whatever connection is not lost is the one in use, and has nothing of a
\* Control that is shut down.
OneInUse ==
    /\ run \in {"auth", "loop"} => cur \in dialled /\ dialled \ lost \subseteq {cur}
    /\ run \notin {"auth", "loop"} => dialled \subseteq lost
    /\ run # "loop" => hb = "off"
    /\ \A c \in Ctls : nc[c] # "auth" => c \in dialled
    /\ sealed \subseteq lost
    /\ \A u \in Urls : holder[u] # NoCtl => holder[u] \in dialled

\* The id in an AuthResp, and with it the client's, is the one told for good.
IdTold ==
    /\ \A c \in Ctls : \A m \in Mail(c) :
          m.type = "authResp" => m.id = told[c] /\ nc[c] \in {"starting", "running"}
    /\ run = "loop" => id = told[cur] /\ nc[cur] \in {"starting", "running"}

\* On a connection that is not lost: NewTunnels and StartProxies say what is
\* open, and a URL that is open is in the client's table or about to be.
UrlsTold ==
    \A c \in Ctls \ lost :
        /\ \A m \in Mail(c) : m.type = "newTunnel" => holder[m.url] = c /\ opened[m.url] = m.cfg
        /\ \A u \in Urls : holder[u] = c =>
              \/ table[u] = opened[u]
              \/ \E m \in Mail(c) : m.type = "newTunnel" /\ m.url = u
        /\ \A p \in Pxys : px[p] = "started" /\ pctl[p] = c =>
              purl[p] \in Urls /\ holder[purl[p]] = c /\ opened[purl[p]] = pcfg[p]

\* While heartbeat waits for a Pong there is one, or its Ping, unless that was
\* handled before lastPing was set.
PingsAnswered ==
    hb \in {"pinging", "waiting"} /\ (hb = "waiting" => needPong) /\ ~overtaken /\ cur \notin lost
        => pings[cur] > 0 \/ \E m \in Mail(cur) : m.type = "pong"

\* The inductive invariant.
SInv ==
    /\ TypeOK
    /\ Lib!IInv
    /\ OneInUse
    /\ IdTold
    /\ UrlsTold
    /\ PingsAnswered

USE NoCtlAssumption, NoIdAssumption, FreshAssumption, AskedAssumption, PingsAssumption

-----------------------------------------------------------------------------
(* The registry *)

\* Every step of the client and of the server is one of the registry's or leaves
\* it alone.
LEMMA RegistryStep == TypeOK /\ [Next]_vars => [Reg!Next]_(Reg!regVars)
<1> SUFFICES ASSUME TypeOK, [Next]_vars PROVE [Reg!Next]_(Reg!regVars)
    OBVIOUS
<1>1. CASE UNCHANGED regVars
    BY <1>1 DEF regVars, Reg!regVars
<1>2. CASE UNCHANGED vars
    BY <1>2, <1>1 DEF vars
<1>3. CASE Sleep \/ ControlFails \/ MapRace \/ Quit
    BY <1>3, <1>1 DEF Sleep, ControlFails, MapRace, Quit, Exit
<1>4. CASE Control
    BY <1>4, <1>1 DEF Control, Authenticated, RequestFails, AuthError, HandleNewTunnel,
                      HandleRefused, HandleReqProxy, HandlePong, Unmoved
<1>5. CASE Heartbeat
    BY <1>5, <1>1 DEF Heartbeat, WritePing, SetLastPing, Stale, PingFails, CloseConn
<1>6. ASSUME NEW c \in Ctls, Accept(c) PROVE [Reg!Next]_(Reg!regVars)
    <2>1. IdFor(c) \in Ids
        BY DEF IdFor, TypeOK
    <2>2. QED
        BY <1>6, <2>1 DEF Accept, Reg!Next, Reg!Step
<1>7. ASSUME NEW c \in Ctls, Answer(c) \/ Lifecycle(c) \/ Complete(c)
      PROVE  [Reg!Next]_(Reg!regVars)
    BY <1>7 DEF Answer, Lifecycle, Complete, Reg!Next, Reg!Step
<1>8. ASSUME NEW c \in Ctls, Dial(c) \/ AnswerPing(c) \/ Seal(c) \/ Lose(c)
      PROVE  [Reg!Next]_(Reg!regVars)
    BY <1>8, <1>1 DEF Dial, AnswerPing, Seal, Lose
<1>9. ASSUME NEW c \in Ctls, NEW k \in Cfgs, OpenTunnel(c, k) PROVE [Reg!Next]_(Reg!regVars)
    BY <1>9, <1>1 DEF OpenTunnel
<1>10. ASSUME NEW p \in Pxys, RegProxy(p) \/ ProxyFails(p) \/ Lookup(p) \/ Register(p)
       PROVE  [Reg!Next]_(Reg!regVars)
    BY <1>10, <1>1 DEF RegProxy, ProxyFails, Lookup, Register, PxyOnly
<1>11. ASSUME NEW p \in Pxys, NEW u \in Urls, Visit(u, p) PROVE [Reg!Next]_(Reg!regVars)
    BY <1>11, <1>1 DEF Visit
<1>12. ASSUME NEW u \in Urls, ShutTunnel(u) \/ AskProxy(u) PROVE [Reg!Next]_(Reg!regVars)
    BY <1>12, <1>1 DEF ShutTunnel, AskProxy
<1>13. QED
    BY <1>2, <1>3, <1>4, <1>5, <1>6, <1>7, <1>8, <1>9, <1>10, <1>11, <1>12 DEF Next

\* The two instances of ControlRegistry, of which one brings the proofs, have the
\* same steps.
LEMMA SameStep == [Reg!Next]_(Reg!regVars) => [Lib!Next]_(Lib!regVars)
  BY DEF Reg!Next, Reg!regVars, Reg!FailAuth, Reg!Add, Reg!Enter, Reg!TakeId, Reg!Begin,
         Reg!Step, Reg!Waited, Reg!Answer, Reg!Started, Reg!StopBegin, Reg!Del, Reg!Complete,
         Lib!Next, Lib!regVars, Lib!FailAuth, Lib!Add, Lib!Enter, Lib!TakeId, Lib!Begin,
         Lib!Step, Lib!Waited, Lib!Answer, Lib!Started, Lib!StopBegin, Lib!Del, Lib!Complete

\* So the session inherits the invariant of ControlRegistry, and the types.
LEMMA RegistryIInv == TypeOK /\ Lib!IInv /\ [Next]_vars => Lib!IInv' /\ Reg!TypeOK'
<1> SUFFICES ASSUME TypeOK, Lib!IInv, [Next]_vars PROVE Lib!IInv' /\ Reg!TypeOK'
    OBVIOUS
<1>1. Lib!IInv'
    BY RegistryStep, SameStep, Lib!NextIInv
<1>2. Reg!TypeOK'
    BY <1>1 DEF Lib!IInv, Lib!TypeOK, Lib!NCStates, Lib!StpStates,
                Reg!TypeOK, Reg!NCStates, Reg!StpStates
<1>3. QED
    BY <1>1, <1>2

-----------------------------------------------------------------------------
(* Messages under way *)

\* A message of some type has the fields of that type.
LEMMA Fields ==
    ASSUME NEW m \in Messages
    PROVE  /\ m.type = "authResp" => m.id \in Ids \cup {NoId}
           /\ m.type = "newTunnel" => m.url \in Urls /\ m.cfg \in Cfgs
  BY DEF Messages

\* What is sent is under way, unless the connection is lost.
LEMMA SendMail ==
    ASSUME toClient \in [Ctls -> Seq(Messages)], NEW c \in Ctls, NEW ms \in Seq(Messages),
           Send(c, ms)
    PROVE  /\ toClient' \in [Ctls -> Seq(Messages)]
           /\ \A d \in Ctls : d # c \/ c \in lost => Mail(d)' = Mail(d)
           /\ c \notin lost => Mail(c)' = Mail(c) \cup {ms[n] : n \in DOMAIN ms}
<1>1. CASE c \in lost
    BY <1>1 DEF Send, Mail
<1>2. CASE c \notin lost
    <2> DEFINE s == toClient[c]
               t == s \o ms
    <2>1. toClient' = [toClient EXCEPT ![c] = t]
        BY <1>2 DEF Send
    <2>2. s \in Seq(Messages) /\ t \in Seq(Messages)
        OBVIOUS
    <2>3. /\ DOMAIN t = 1..(Len(s) + Len(ms)) /\ DOMAIN s = 1..Len(s) /\ DOMAIN ms = 1..Len(ms)
          /\ Len(s) \in Nat /\ Len(ms) \in Nat
        BY <2>2
    <2>4. /\ \A n \in DOMAIN s : n \in DOMAIN t /\ t[n] = s[n]
          /\ \A n \in DOMAIN ms : Len(s) + n \in DOMAIN t /\ t[Len(s) + n] = ms[n]
        BY <2>2, <2>3
    <2>5. \A n \in DOMAIN t : n \in DOMAIN s \/ (n - Len(s) \in DOMAIN ms /\ t[n] = ms[n - Len(s)])
        <3> SUFFICES ASSUME NEW n \in DOMAIN t, n \notin DOMAIN s
                     PROVE  n - Len(s) \in DOMAIN ms /\ t[n] = ms[n - Len(s)]
            BY Zenon
        <3> DEFINE k == n - Len(s)
        <3>1. k \in DOMAIN ms /\ Len(s) + k = n
            BY <2>3
        <3>2. t[Len(s) + k] = ms[k]
            BY <3>1, <2>4
        <3>3. QED
            BY <3>1, <3>2
    <2>6. toClient'[c] = t /\ \A d \in Ctls : d # c => toClient'[d] = toClient[d]
        BY <2>1
    <2>7. toClient' \in [Ctls -> Seq(Messages)]
        BY <2>1, <2>2
    <2>8. Mail(c) = {s[n] : n \in DOMAIN s} /\ Mail(c)' = {t[n] : n \in DOMAIN t}
        BY <2>6, Zenon DEF Mail
    <2>9. \A d \in Ctls : d # c => Mail(d)' = Mail(d)
        BY <2>6, Zenon DEF Mail
    <2> HIDE DEF s, t
    <2>10. {t[n] : n \in DOMAIN t} \subseteq {s[n] : n \in DOMAIN s} \cup {ms[n] : n \in DOMAIN ms}
        BY <2>4, <2>5
    <2>11. {s[n] : n \in DOMAIN s} \cup {ms[n] : n \in DOMAIN ms} \subseteq {t[n] : n \in DOMAIN t}
        BY <2>4
    <2>12. QED
        BY <1>2, <2>7, <2>8, <2>9, <2>10, <2>11
<1>3. QED
    BY <1>1, <1>2

\* A message that is consumed is the one read, which was under way.
LEMMA ConsumeMail ==
    ASSUME toClient \in [Ctls -> Seq(Messages)], cur \in Ctls, NEW type, Reads(type), Consume
    PROVE  /\ toClient' \in [Ctls -> Seq(Messages)]
           /\ Head(toClient[cur]) \in Mail(cur) /\ Head(toClient[cur]) \in Messages
           /\ \A d \in Ctls : Mail(d)' \subseteq Mail(d)
           /\ \A d \in Ctls : \A m \in Mail(d) :
                 m \in Mail(d)' \/ (d = cur /\ m = Head(toClient[cur]))
<1> DEFINE s == toClient[cur]
           t == Tail(s)
<1>1. s \in Seq(Messages) /\ s # <<>>
    BY DEF Reads
<1>2. /\ t \in Seq(Messages) /\ Head(s) = s[1] /\ Head(s) \in Messages
      /\ 1 \in DOMAIN s
      /\ DOMAIN s = 1..Len(s) /\ DOMAIN t = 1..(Len(s) - 1) /\ Len(s) \in Nat
    BY <1>1
<1>3. \A n \in DOMAIN t : n + 1 \in DOMAIN s /\ t[n] = s[n + 1]
    BY <1>1, <1>2
<1>4. \A n \in DOMAIN s : n = 1 \/ (n - 1 \in DOMAIN t /\ s[n] = t[n - 1])
    <2> SUFFICES ASSUME NEW n \in DOMAIN s, n # 1
                 PROVE  n - 1 \in DOMAIN t /\ s[n] = t[n - 1]
        BY Zenon
    <2>1. n \in Int /\ n - 1 \in DOMAIN t
        BY <1>2
    <2>2. t[n - 1] = s[(n - 1) + 1] /\ (n - 1) + 1 = n
        BY <1>3, <2>1
    <2>3. QED
        BY <2>1, <2>2
<1>5. toClient' = [toClient EXCEPT ![cur] = t]
    BY DEF Consume
<1>6. toClient'[cur] = t /\ \A d \in Ctls : d # cur => toClient'[d] = toClient[d]
    BY <1>5
<1>7. toClient' \in [Ctls -> Seq(Messages)]
    BY <1>2, <1>5
<1>8. Mail(cur) = {s[n] : n \in DOMAIN s} /\ \A d \in Ctls : d = cur => Mail(d)' = {t[n] : n \in DOMAIN t}
    BY <1>6, Zenon DEF Mail
<1>9. \A d \in Ctls : d # cur => Mail(d)' = Mail(d)
    BY <1>6, Zenon DEF Mail
<1> HIDE DEF s, t
<1>10. {t[n] : n \in DOMAIN t} \subseteq {s[n] : n \in DOMAIN s}
    BY <1>3
<1>11. \A m \in {s[n] : n \in DOMAIN s} : m \in {t[n] : n \in DOMAIN t} \/ m = Head(s)
    <2> SUFFICES ASSUME NEW n \in DOMAIN s PROVE s[n] \in {t[k] : k \in DOMAIN t} \/ s[n] = Head(s)
        OBVIOUS
    <2>1. QED
        BY <1>2, <1>4
<1>12. Head(s) \in {s[n] : n \in DOMAIN s}
    BY <1>2
<1>13. Head(s) \in Mail(cur)
    BY <1>8, <1>12
<1>14. \A d \in Ctls : Mail(d)' \subseteq Mail(d)
    BY <1>8, <1>9, <1>10
<1>15. \A d \in Ctls : \A m \in Mail(d) : m \in Mail(d)' \/ (d = cur /\ m = Head(s))
    BY <1>8, <1>9, <1>11
<1>16. QED
    BY <1>2, <1>7, <1>13, <1>14, <1>15 DEF s

-----------------------------------------------------------------------------
(* Types *)

\* The initial states satisfy the inductive invariant.
LEMMA InitSInv == Init => SInv
<1> SUFFICES ASSUME Init PROVE SInv
    OBVIOUS
<1>1. Lib!IInv
    BY Lib!InitIInv DEF Init, Reg!Init, Lib!Init
<1>2. TypeOK
    <2>1. Reg!TypeOK
        BY DEF Init, Reg!Init, Reg!TypeOK, Reg!NCStates, Reg!StpStates
    <2>2. toClient \in [Ctls -> Seq(Messages)]
        BY DEF Init
    <2>3. reqs \in [Ctls -> SUBSET Cfgs] /\ pings \in [Ctls -> 0..MaxPings]
        BY DEF Init
    <2>4. QED
        BY <2>1, <2>2, <2>3 DEF Init, TypeOK
<1>3. \A c \in Ctls : Mail(c) = {}
    BY DEF Init, Mail
<1>4. OneInUse
    BY DEF Init, Reg!Init, OneInUse
<1>5. IdTold /\ PingsAnswered
    BY <1>3 DEF Init, IdTold, PingsAnswered
<1>6. UrlsTold
    BY <1>3 DEF Init, UrlsTold
<1>7. QED
    BY <1>1, <1>2, <1>4, <1>5, <1>6 DEF SInv

\* As many messages are under way as there are, not more than a bound allows.
LEMMA UnderwayIsNatural ==
    ASSUME toClient \in [Ctls -> Seq(Messages)], pings \in [Ctls -> 0..MaxPings], cur \in Ctls
    PROVE  /\ Cardinality(Pongs(cur)) \in Nat
           /\ Underway < MaxPings => pings[cur] + 1 \in 0..MaxPings
           /\ Underway = 0 => pings[cur] = 0 /\ \A m \in Mail(cur) : m.type # "pong"
<1>1. Len(toClient[cur]) \in Nat /\ DOMAIN toClient[cur] = 1..Len(toClient[cur])
    OBVIOUS
<1>2. IsFiniteSet(Pongs(cur))
    <2>1. IsFiniteSet(1..Len(toClient[cur]))
        BY <1>1, FS_Interval
    <2>2. Pongs(cur) \subseteq 1..Len(toClient[cur])
        BY <1>1 DEF Pongs
    <2>3. QED
        BY <2>1, <2>2, FS_Subset
<1>3. Cardinality(Pongs(cur)) \in Nat
    BY <1>2, FS_CardinalityType
<1>4. Cardinality(Pongs(cur)) = 0 <=> Pongs(cur) = {}
    BY <1>2, FS_EmptySet
<1>5. Pongs(cur) = {} => \A m \in Mail(cur) : m.type # "pong"
    BY DEF Pongs, Mail
<1>6. pings[cur] \in 0..MaxPings
    OBVIOUS
<1>7. QED
    BY <1>3, <1>4, <1>5, <1>6 DEF Underway

\* Every step keeps the types.
LEMMA TypeStep ==
    ASSUME TypeOK, OneInUse, Reg!TypeOK', [Next]_vars
    PROVE  TypeOK'
<1> USE DEF TypeOK
<1>0. toClient \in [Ctls -> Seq(Messages)]
    OBVIOUS
<1>1. run \in {"auth", "loop"} => cur \in Ctls
    BY DEF OneInUse
<1>2. CASE UNCHANGED vars
    BY <1>2 DEF vars, runVars, hbVars, netVars, tunVars, pxVars
<1>3. ASSUME Return, cur \in Ctls
      PROVE  /\ run' \in {"dial", "auth", "loop", "sleep", "exited"}
             /\ hb' \in {"off", "fresh", "pinging", "waiting", "closed"}
             /\ needPong' \in BOOLEAN /\ overtaken' \in BOOLEAN
             /\ lost' \subseteq Ctls /\ toClient' \in [Ctls -> Seq(Messages)]
    <2>1. <<>> \in Seq(Messages)
        OBVIOUS
    <2>2. QED
        BY <1>3, <2>1 DEF Return
<1>4. CASE ControlFails
    BY <1>4, <1>1, <1>3 DEF ControlFails, tunVars, pxVars
<1>5. CASE Sleep
    BY <1>5 DEF Sleep, hbVars, netVars, tunVars, pxVars
<1>6. CASE Authenticated
    <2>1. cur \in Ctls
        BY <1>6, <1>1 DEF Authenticated
    <2>2. toClient' \in [Ctls -> Seq(Messages)] /\ Head(toClient[cur]) \in Messages
        BY <1>6, <1>0, <2>1, ConsumeMail DEF Authenticated
    <2>3. id' \in Ids \cup {NoId}
        BY <1>6, <2>2, Fields DEF Authenticated, Reads, SessionId
    <2>4. reqs' \in [Ctls -> SUBSET Cfgs]
        BY <1>6, <2>1 DEF Authenticated
    <2>5. QED
        BY <1>6, <2>2, <2>3, <2>4 DEF Authenticated, tunVars, pxVars
<1>7. CASE RequestFails
    <2>1. cur \in Ctls
        BY <1>7, <1>1 DEF RequestFails
    <2>2. Head(toClient[cur]) \in Messages
        BY <1>0, <1>7, <2>1 DEF RequestFails, Reads
    <2>3. id' \in Ids \cup {NoId}
        BY <1>7, <2>2, Fields DEF RequestFails, Reads, SessionId
    <2>4. reqs' \in [Ctls -> SUBSET Cfgs]
        BY <1>7, <2>1 DEF RequestFails
    <2>5. QED
        BY <1>7, <1>3, <2>1, <2>3, <2>4 DEF RequestFails, tunVars, pxVars
<1>8. CASE AuthError
    BY <1>8, <1>1, <1>3 DEF AuthError, tunVars, pxVars
<1>9. CASE HandleNewTunnel
    <2>1. cur \in Ctls
        BY <1>9, <1>1 DEF HandleNewTunnel
    <2>2. toClient' \in [Ctls -> Seq(Messages)] /\ Head(toClient[cur]) \in Messages
        BY <1>9, <1>0, <2>1, ConsumeMail DEF HandleNewTunnel
    <2>3. table' \in [Urls -> Cfgs \cup {NoCfg}]
        BY <1>9, <2>2, Fields DEF HandleNewTunnel, Reads, Forward
    <2>4. QED
        BY <1>9, <2>2, <2>3 DEF HandleNewTunnel, Unmoved, tunVars, hbVars, pxVars
<1>10. CASE HandleRefused \/ HandleReqProxy \/ HandlePong
    <2>1. cur \in Ctls
        BY <1>10, <1>1 DEF HandleRefused, HandleReqProxy, HandlePong
    <2>2. toClient' \in [Ctls -> Seq(Messages)]
        BY <1>10, <1>0, <2>1, ConsumeMail DEF HandleRefused, HandleReqProxy, HandlePong
    <2>3. QED
        BY <1>10, <2>2 DEF HandleRefused, HandleReqProxy, HandlePong, Unmoved, tunVars, hbVars,
                           pxVars
<1>11. CASE WritePing
    <2>1. cur \in Ctls
        BY <1>11, <1>1 DEF WritePing
    <2>2. pings' \in [Ctls -> 0..MaxPings]
        BY <1>11, <1>0, <2>1, UnderwayIsNatural DEF WritePing
    <2>3. QED
        BY <1>11, <2>2 DEF WritePing, runVars, tunVars, pxVars
<1>12. CASE SetLastPing
    BY <1>12 DEF SetLastPing, runVars, netVars, tunVars, pxVars
<1>13. CASE Stale \/ PingFails
    BY <1>13, <1>1 DEF Stale, PingFails, CloseConn, runVars, tunVars, pxVars
<1>14. CASE MapRace \/ Quit
    <2>1. Exit
        BY <1>14 DEF MapRace, Quit
    <2>2. toClient' \in [Ctls -> Seq(Messages)]
        BY <2>1 DEF Exit
    <2>3. /\ px' \in [Pxys -> {"idle", "dial", "sent", "pooled", "started"}]
          /\ pid' \in [Pxys -> Ids \cup {NoId}] /\ pctl' \in [Pxys -> Ctls \cup {NoCtl}]
          /\ purl' \in [Pxys -> Urls \cup {"none"}] /\ pcfg' \in [Pxys -> Cfgs \cup {NoCfg}]
        BY <2>1 DEF Exit
    <2>4. QED
        BY <2>1, <2>2, <2>3 DEF Exit, tunVars
<1>15. ASSUME NEW c \in Ctls, Dial(c) PROVE TypeOK'
    BY <1>15 DEF Dial, hbVars, netVars, tunVars, pxVars
<1>16. ASSUME NEW c \in Ctls, Accept(c) PROVE TypeOK'
    <2>1. <<[type |-> "refused"]>> \in Seq(Messages)
        BY DEF Messages
    <2>2. toClient' \in [Ctls -> Seq(Messages)]
        BY <1>16, <1>0, <2>1, SendMail DEF Accept
    <2>3. QED
        BY <1>16, <2>2 DEF Accept, ServerOnly, runVars, hbVars, tunVars, pxVars
<1>17. ASSUME NEW c \in Ctls, Answer(c) PROVE TypeOK'
    <2>1. <<[type |-> "authResp", id |-> ctlId[c]], [type |-> "reqProxy"]>> \in Seq(Messages)
        <3>1. ctlId[c] \in Ids \cup {NoId}
            BY DEF Reg!TypeOK
        <3>2. [type |-> "authResp", id |-> ctlId[c]] \in Messages
            BY <3>1 DEF Messages
        <3>3. [type |-> "reqProxy"] \in Messages
            BY DEF Messages
        <3>4. QED
            BY <3>2, <3>3
    <2>2. toClient' \in [Ctls -> Seq(Messages)]
        BY <1>17, <1>0, <2>1, SendMail DEF Answer
    <2>3. QED
        BY <1>17, <2>2 DEF Answer, ServerOnly, runVars, hbVars, tunVars, pxVars
<1>18. ASSUME NEW c \in Ctls, Lifecycle(c) \/ Complete(c) PROVE TypeOK'
    BY <1>18 DEF Lifecycle, Complete, ServerOnly, runVars, hbVars, netVars, tunVars, pxVars
<1>19. ASSUME NEW c \in Ctls, NEW k \in Cfgs, OpenTunnel(c, k) PROVE TypeOK'
    <2>1. \A u \in Urls : <<[type |-> "newTunnel", url |-> u, cfg |-> k]>> \in Seq(Messages)
        BY DEF Messages
    <2>2. <<[type |-> "refused"]>> \in Seq(Messages)
        BY DEF Messages
    <2>3. \A u \in Asked[k] : u \in Urls
        OBVIOUS
    <2>4. toClient' \in [Ctls -> Seq(Messages)]
        BY <1>19, <1>0, <2>1, <2>2, <2>3, SendMail DEF OpenTunnel
    <2>5. /\ holder' \in [Urls -> Ctls \cup {NoCtl}] /\ opened' \in [Urls -> Cfgs \cup {NoCfg}]
          /\ reqs' \in [Ctls -> SUBSET Cfgs]
        <3>1. reqs' \in [Ctls -> SUBSET Cfgs]
            BY <1>19 DEF OpenTunnel
        <3>2. CASE UNCHANGED <<holder, opened>>
            BY <3>1, <3>2
        <3>3. ASSUME NEW u \in Asked[k], holder' = [holder EXCEPT ![u] = c],
                     opened' = [opened EXCEPT ![u] = k]
              PROVE  /\ holder' \in [Urls -> Ctls \cup {NoCtl}]
                     /\ opened' \in [Urls -> Cfgs \cup {NoCfg}]
            BY <2>3, <3>3
        <3>4. QED
            BY <1>19, <3>1, <3>2, <3>3 DEF OpenTunnel
    <2>6. QED
        BY <1>19, <2>4, <2>5 DEF OpenTunnel, ServerOnly, runVars, hbVars, pxVars
<1>20. ASSUME NEW c \in Ctls, AnswerPing(c) PROVE TypeOK'
    <2>1. <<[type |-> "pong"]>> \in Seq(Messages)
        BY DEF Messages
    <2>2. toClient' \in [Ctls -> Seq(Messages)]
        BY <1>20, <1>0, <2>1, SendMail DEF AnswerPing
    <2>3. pings' \in [Ctls -> 0..MaxPings]
        <3>1. pings[c] \in 0..MaxPings /\ pings[c] > 0
            BY <1>20 DEF AnswerPing, Pinged
        <3>2. pings[c] - 1 \in 0..MaxPings
            BY <3>1
        <3>3. QED
            BY <1>20, <3>2 DEF AnswerPing
    <2>4. QED
        BY <1>20, <2>2, <2>3 DEF AnswerPing, ServerOnly, runVars, hbVars, tunVars, pxVars
<1>21. ASSUME NEW c \in Ctls, Seal(c) PROVE TypeOK'
    BY <1>21 DEF Seal, ServerOnly, runVars, hbVars, pxVars
<1>22. ASSUME NEW c \in Ctls, Lose(c) PROVE TypeOK'
    BY <1>22 DEF Lose, runVars, hbVars, tunVars, pxVars
<1>23. ASSUME NEW p \in Pxys, RegProxy(p) PROVE TypeOK'
    BY <1>23 DEF RegProxy, PxyOnly, runVars, hbVars, netVars, tunVars
<1>24. ASSUME NEW p \in Pxys, ProxyFails(p) \/ Lookup(p) PROVE TypeOK'
    BY <1>24 DEF ProxyFails, Lookup, Gone, PxyOnly, runVars, hbVars, netVars, tunVars
<1>25. ASSUME NEW p \in Pxys, Register(p) PROVE TypeOK'
    <2>1. CASE Gone(p)
        BY <1>25, <2>1 DEF Register, Gone, PxyOnly, runVars, hbVars, netVars, tunVars
    <2>2. CASE ~Gone(p)
        <3>1. controls[pid[p]] \in Ctls \cup {NoCtl}
            BY <1>25, <2>2 DEF Register, Reg!TypeOK
        <3>2. pctl' \in [Pxys -> Ctls \cup {NoCtl}]
            BY <1>25, <2>2, <3>1 DEF Register
        <3>3. QED
            BY <1>25, <2>2, <3>2 DEF Register, PxyOnly, runVars, hbVars, netVars, tunVars
    <2>3. QED
        BY <2>1, <2>2
<1>26. ASSUME NEW u \in Urls, ShutTunnel(u) PROVE TypeOK'
    BY <1>26 DEF ShutTunnel, ServerOnly, runVars, hbVars, netVars, pxVars
<1>27. ASSUME NEW u \in Urls, NEW c \in Ctls, c = holder[u],
              Send(c, <<[type |-> "reqProxy"]>>)
       PROVE  toClient' \in [Ctls -> Seq(Messages)]
    <2>1. <<[type |-> "reqProxy"]>> \in Seq(Messages)
        BY DEF Messages
    <2>2. QED
        BY <1>0, <1>27, <2>1, SendMail
<1>28. ASSUME NEW u \in Urls, NEW p \in Pxys, Visit(u, p) PROVE TypeOK'
    <2>1. PICK c \in Ctls : c = holder[u]
        BY <1>28 DEF Visit
    <2>2. toClient' \in [Ctls -> Seq(Messages)]
        BY <1>0, <1>27, <1>28, <2>1 DEF Visit
    <2>3. QED
        BY <1>28, <2>2 DEF Visit, ServerOnly, runVars, hbVars, tunVars
<1>29. ASSUME NEW u \in Urls, AskProxy(u) PROVE TypeOK'
    <2>1. PICK c \in Ctls : c = holder[u]
        BY <1>29 DEF AskProxy
    <2>2. toClient' \in [Ctls -> Seq(Messages)]
        BY <1>27, <1>29, <2>1 DEF AskProxy
    <2>3. QED
        BY <1>29, <2>2 DEF AskProxy, ServerOnly, runVars, hbVars, tunVars, pxVars
<1>30. QED
    BY <1>2, <1>4, <1>5, <1>6, <1>7, <1>8, <1>9, <1>10, <1>11, <1>12, <1>13, <1>14, <1>15, <1>16,
       <1>17, <1>18, <1>19, <1>20, <1>21, <1>22, <1>23, <1>24, <1>25, <1>26, <1>28, <1>29
       DEF Next, Control, Heartbeat

-----------------------------------------------------------------------------
(* The connection in use *)

\* A new connection is dialled only when the last one is lost; the server knows
\* none that was not dialled.
LEMMA OneInUseStep ==
    ASSUME TypeOK, OneInUse, [Next]_vars
    PROVE  OneInUse'
<1> USE DEF OneInUse
<1>1. CASE UNCHANGED <<run, cur, dialled, lost, hb, nc, sealed, holder>>
    BY <1>1
<1>2. CASE UNCHANGED vars
    BY <1>1, <1>2 DEF vars, regVars, runVars, hbVars, netVars, tunVars
<1>3. CASE ControlFails \/ RequestFails \/ AuthError
    BY <1>3 DEF ControlFails, RequestFails, AuthError, Return, regVars, tunVars
<1>4. CASE Sleep \/ Authenticated
    BY <1>4 DEF Sleep, Authenticated, regVars, hbVars, netVars, tunVars
<1>5. CASE HandleNewTunnel \/ HandleRefused \/ HandleReqProxy \/ HandlePong
    BY <1>5, <1>1 DEF HandleNewTunnel, HandleRefused, HandleReqProxy, HandlePong, Unmoved,
                      regVars, hbVars, tunVars
<1>6. CASE Heartbeat
    BY <1>6 DEF Heartbeat, WritePing, SetLastPing, Stale, PingFails, CloseConn, regVars, runVars,
                netVars, tunVars
<1>7. CASE MapRace \/ Quit
    BY <1>7 DEF MapRace, Quit, Exit, regVars, tunVars, TypeOK, Reg!TypeOK
<1>8. ASSUME NEW c \in Ctls, Dial(c) PROVE OneInUse'
    BY <1>8 DEF Dial, regVars, hbVars, netVars, tunVars
<1>9. ASSUME NEW c \in Ctls, Accept(c) PROVE OneInUse'
    BY <1>9 DEF Accept, Reg!FailAuth, Reg!Add, Reg!Enter, Reg!Waited, ServerOnly, runVars, hbVars,
                tunVars, TypeOK, Reg!TypeOK
<1>10. ASSUME NEW c \in Ctls, Answer(c) PROVE OneInUse'
    BY <1>10 DEF Answer, Reg!Answer, ServerOnly, runVars, hbVars, tunVars, TypeOK, Reg!TypeOK
<1>11. ASSUME NEW c \in Ctls, Lifecycle(c) \/ Complete(c) PROVE OneInUse'
    BY <1>11 DEF Lifecycle, Complete, Reg!Started, Reg!Begin, Reg!StopBegin, Reg!Del,
                 Reg!Complete, ServerOnly, runVars, hbVars, netVars, tunVars, TypeOK, Reg!TypeOK
<1>12. ASSUME NEW c \in Ctls, NEW k \in Cfgs, OpenTunnel(c, k) PROVE OneInUse'
    <2>1. c \in dialled
        BY <1>12 DEF OpenTunnel, Serving
    <2>2. \A u \in Urls : holder'[u] \in {holder[u], c}
        BY <1>12 DEF OpenTunnel, TypeOK
    <2>3. QED
        BY <1>12, <2>1, <2>2 DEF OpenTunnel, ServerOnly, regVars, runVars, hbVars
<1>13. ASSUME NEW c \in Ctls, AnswerPing(c) \/ Lose(c) PROVE OneInUse'
    BY <1>13 DEF AnswerPing, Lose, ServerOnly, regVars, runVars, hbVars, tunVars
<1>14. ASSUME NEW c \in Ctls, Seal(c) PROVE OneInUse'
    BY <1>14 DEF Seal, ServerOnly, regVars, runVars, hbVars
<1>15. ASSUME NEW p \in Pxys, RegProxy(p) \/ ProxyFails(p) \/ Lookup(p) \/ Register(p)
       PROVE  OneInUse'
    BY <1>15, <1>1 DEF RegProxy, ProxyFails, Lookup, Register, PxyOnly, regVars, runVars, hbVars,
                       netVars, tunVars
<1>16. ASSUME NEW p \in Pxys, NEW u \in Urls, Visit(u, p) \/ AskProxy(u) PROVE OneInUse'
    BY <1>16, <1>1 DEF Visit, AskProxy, ServerOnly, regVars, runVars, hbVars, tunVars
<1>17. ASSUME NEW u \in Urls, AskProxy(u) PROVE OneInUse'
    BY <1>17, <1>1 DEF AskProxy, ServerOnly, regVars, runVars, hbVars, tunVars
<1>18. ASSUME NEW u \in Urls, ShutTunnel(u) PROVE OneInUse'
    BY <1>18 DEF ShutTunnel, ServerOnly, regVars, runVars, hbVars, netVars, TypeOK
<1>19. QED
    BY <1>2, <1>3, <1>4, <1>5, <1>6, <1>7, <1>8, <1>9, <1>10, <1>11, <1>12, <1>13, <1>14, <1>15,
       <1>16, <1>17, <1>18 DEF Next, Control

-----------------------------------------------------------------------------
(* The id of the session *)

\* A Control that has answered has told its id for good.
LEMMA ToldForGood ==
    ASSUME TypeOK, [Next]_vars, NEW c \in Ctls, nc[c] \in {"starting", "running"}
    PROVE  told'[c] = told[c] /\ nc'[c] \in {"starting", "running"}
<1>1. [Reg!Next]_(Reg!regVars)
    BY RegistryStep
<1>2. QED
    BY <1>1 DEF TypeOK, Reg!TypeOK, Reg!Next, Reg!regVars, Reg!FailAuth, Reg!Add, Reg!Enter,
                Reg!Begin, Reg!Step, Reg!Waited, Reg!Answer, Reg!Started, Reg!StopBegin, Reg!Del,
                Reg!Complete

\* The server opens a tunnel for c: what m says of it is so.
Opens(c, m) ==
    /\ m.url \in Urls /\ holder[m.url] = NoCtl
    /\ holder' = [holder EXCEPT ![m.url] = c] /\ opened' = [opened EXCEPT ![m.url] = m.cfg]

\* What is under way after a step was so before, or the server has just sent it:
\* an AuthResp when it answers, a NewTunnel when it opens the tunnel.
LEMMA MailStep ==
    ASSUME TypeOK, OneInUse, [Next]_vars, NEW c \in Ctls, NEW m \in Mail(c)', m \notin Mail(c)
    PROVE  /\ m.type = "authResp" => Reg!Answer(c) /\ m.id = ctlId[c]
           /\ m.type = "newTunnel" => Opens(c, m)
<1> DEFINE Sent == /\ m.type = "authResp" => Reg!Answer(c) /\ m.id = ctlId[c]
                   /\ m.type = "newTunnel" => Opens(c, m)
<1> SUFFICES Sent
    OBVIOUS
<1>0. toClient \in [Ctls -> Seq(Messages)]
    BY DEF TypeOK
<1>1. ~UNCHANGED toClient
    BY DEF Mail
<1>2. ASSUME NEW d \in Ctls, NEW msg \in Messages, Send(d, <<msg>>) PROVE m = msg /\ c = d
    <2>1. <<msg>> \in Seq(Messages)
        OBVIOUS
    <2>2. {<<msg>>[n] : n \in DOMAIN <<msg>>} = {msg}
        OBVIOUS
    <2>3. /\ \A e \in Ctls : e # d \/ d \in lost => Mail(e)' = Mail(e)
          /\ d \notin lost => Mail(d)' = Mail(d) \cup {<<msg>>[n] : n \in DOMAIN <<msg>>}
        BY <1>0, <1>2, <2>1, SendMail
    <2>4. c = d /\ d \notin lost
        BY <2>3
    <2>5. m \in Mail(d) \cup {msg}
        BY <2>2, <2>3, <2>4
    <2>6. QED
        BY <2>4, <2>5
<1>3. ASSUME cur \in Ctls, NEW type, Reads(type), Consume PROVE FALSE
    BY <1>0, <1>3, ConsumeMail
<1>4. ASSUME Return, cur \in Ctls PROVE FALSE
    <2>1. \A d \in Ctls : Mail(d)' \subseteq Mail(d)
        BY <1>0, <1>4 DEF Return, Mail
    <2>2. QED
        BY <2>1
<1>5. ASSUME Exit PROVE FALSE
    BY <1>5 DEF Exit, Mail
<1>6. run \in {"auth", "loop"} => cur \in Ctls
    BY DEF OneInUse, TypeOK
<1>7. ASSUME NEW d \in Ctls, Answer(d) PROVE Sent
    <2> DEFINE resp == [type |-> "authResp", id |-> ctlId[d]]
               req == [type |-> "reqProxy"]
    <2>1. resp \in Messages /\ req \in Messages
        BY DEF Messages, TypeOK, Reg!TypeOK
    <2>2. <<resp, req>> \in Seq(Messages)
        BY <2>1
    <2>3. {<<resp, req>>[n] : n \in DOMAIN <<resp, req>>} = {resp, req}
        OBVIOUS
    <2>4. c = d /\ m \in {resp, req}
        BY <1>0, <1>7, <2>2, <2>3, SendMail DEF Answer
    <2>5. QED
        BY <1>7, <2>4 DEF Answer
<1>8. ASSUME NEW d \in Ctls, Accept(d) \/ AnswerPing(d) PROVE Sent
    <2>1. [type |-> "refused"] \in Messages /\ [type |-> "pong"] \in Messages
        BY DEF Messages
    <2>2. m = [type |-> "refused"] \/ m = [type |-> "pong"]
        BY <1>1, <1>2, <1>8, <2>1 DEF Accept, AnswerPing
    <2>3. QED
        BY <2>2
<1>9. ASSUME NEW d \in Ctls, NEW k \in Cfgs, OpenTunnel(d, k) PROVE Sent
    <2>1. CASE Send(d, <<[type |-> "refused"]>>)
        <3>1. [type |-> "refused"] \in Messages
            BY DEF Messages
        <3>2. QED
            BY <1>2, <2>1, <3>1
    <2>2. CASE ~Send(d, <<[type |-> "refused"]>>)
        <3>1. PICK u \in Asked[k] : /\ holder[u] = NoCtl
                                    /\ holder' = [holder EXCEPT ![u] = d]
                                    /\ opened' = [opened EXCEPT ![u] = k]
                                    /\ Send(d, <<[type |-> "newTunnel", url |-> u, cfg |-> k]>>)
            BY <1>9, <2>2 DEF OpenTunnel
        <3>2. u \in Urls /\ [type |-> "newTunnel", url |-> u, cfg |-> k] \in Messages
            BY DEF Messages
        <3>3. c = d /\ m = [type |-> "newTunnel", url |-> u, cfg |-> k]
            BY <1>2, <3>1, <3>2
        <3>4. QED
            BY <3>1, <3>2, <3>3 DEF Opens
    <2>3. QED
        BY <2>1, <2>2
<1>10. ASSUME NEW u \in Urls, AskProxy(u) \/ \E p \in Pxys : Visit(u, p) PROVE Sent
    <2>1. [type |-> "reqProxy"] \in Messages
        BY DEF Messages
    <2>2. PICK d \in Ctls : d = holder[u]
        BY <1>10 DEF AskProxy, Visit, TypeOK
    <2>3. Send(d, <<[type |-> "reqProxy"]>>)
        BY <1>1, <1>10, <2>2 DEF AskProxy, Visit
    <2>4. m = [type |-> "reqProxy"]
        BY <1>2, <2>1, <2>3
    <2>5. QED
        BY <2>4
<1>11. CASE UNCHANGED vars \/ Sleep \/ Heartbeat
    BY <1>1, <1>11 DEF vars, netVars, Sleep, Heartbeat, WritePing, SetLastPing, Stale, PingFails,
                       CloseConn
<1>12. CASE ControlFails \/ RequestFails \/ AuthError
    BY <1>4, <1>6, <1>12 DEF ControlFails, RequestFails, AuthError
<1>13. CASE Authenticated \/ HandleNewTunnel \/ HandleRefused \/ HandleReqProxy \/ HandlePong
    BY <1>3, <1>6, <1>13 DEF Authenticated, HandleNewTunnel, HandleRefused, HandleReqProxy,
                             HandlePong
<1>14. CASE MapRace \/ Quit
    BY <1>5, <1>14 DEF MapRace, Quit
<1>15. ASSUME NEW d \in Ctls, Dial(d) \/ Lifecycle(d) \/ Complete(d) \/ Seal(d) \/ Lose(d)
       PROVE  FALSE
    BY <1>1, <1>15 DEF Dial, Lifecycle, Complete, Seal, Lose, netVars
<1>16. ASSUME NEW p \in Pxys, RegProxy(p) \/ ProxyFails(p) \/ Lookup(p) \/ Register(p)
       PROVE  FALSE
    BY <1>1, <1>16 DEF RegProxy, ProxyFails, Lookup, Register, PxyOnly, netVars
<1>17. ASSUME NEW u \in Urls, ShutTunnel(u) PROVE FALSE
    BY <1>1, <1>17 DEF ShutTunnel, netVars
<1> HIDE DEF Sent
<1>18. QED
    <2>1. CASE Control
        BY <1>13, <1>12, <2>1 DEF Control
    <2>2. CASE \E d \in Ctls : \/ Dial(d) \/ Accept(d) \/ Answer(d) \/ Lifecycle(d) \/ AnswerPing(d)
                               \/ Seal(d) \/ Complete(d) \/ Lose(d)
                               \/ \E k \in Cfgs : OpenTunnel(d, k)
        BY <1>7, <1>8, <1>9, <1>15, <2>2
    <2>3. CASE \/ \E p \in Pxys : \/ RegProxy(p) \/ ProxyFails(p) \/ Lookup(p) \/ Register(p)
                                \/ \E u \in Urls : Visit(u, p)
               \/ \E u \in Urls : ShutTunnel(u) \/ AskProxy(u)
        BY <1>10, <1>16, <1>17, <2>3
    <2>4. QED
        BY <1>11, <1>12, <1>14, <2>1, <2>2, <2>3 DEF Next

\* What the client has of the session's id after a step.
LEMMA IdTaken ==
    ASSUME TypeOK, OneInUse, IdTold, [Next]_vars, run' = "loop"
    PROVE  \/ run = "loop" /\ UNCHANGED <<cur, id>>
           \/ /\ run = "auth" /\ UNCHANGED cur
              /\ id' = told[cur] /\ nc[cur] \in {"starting", "running"}
<1>1. CASE UNCHANGED vars \/ Sleep \/ ControlFails \/ RequestFails \/ AuthError \/ MapRace \/ Quit
    BY <1>1 DEF vars, runVars, Sleep, ControlFails, RequestFails, AuthError, Return, MapRace,
                Quit, Exit
<1>2. CASE Authenticated
    <2>1. cur \in Ctls
        BY <1>2 DEF Authenticated, OneInUse, TypeOK
    <2>2. Head(toClient[cur]) \in Mail(cur) /\ Head(toClient[cur]).type = "authResp"
        BY <1>2, <2>1, ConsumeMail DEF Authenticated, Reads, TypeOK
    <2>3. QED
        BY <1>2, <2>1, <2>2 DEF Authenticated, SessionId, IdTold
<1>3. CASE HandleNewTunnel \/ HandleRefused \/ HandleReqProxy \/ HandlePong \/ Heartbeat
    BY <1>3 DEF HandleNewTunnel, HandleRefused, HandleReqProxy, HandlePong, Unmoved, Heartbeat,
                WritePing, SetLastPing, Stale, PingFails, CloseConn, runVars
<1>4. ASSUME NEW c \in Ctls, Dial(c) PROVE FALSE
    BY <1>4 DEF Dial
<1>5. ASSUME NEW c \in Ctls, \/ Accept(c) \/ Answer(c) \/ Lifecycle(c) \/ AnswerPing(c)
                             \/ Seal(c) \/ Complete(c) \/ Lose(c)
                             \/ \E k \in Cfgs : OpenTunnel(c, k)
      PROVE  run = "loop" /\ UNCHANGED <<cur, id>>
    BY <1>5 DEF Accept, Answer, Lifecycle, AnswerPing, Seal, Complete, Lose, OpenTunnel,
                ServerOnly, runVars
<1>6. ASSUME NEW p \in Pxys, \/ RegProxy(p) \/ ProxyFails(p) \/ Lookup(p) \/ Register(p)
                             \/ \E u \in Urls : Visit(u, p)
      PROVE  run = "loop" /\ UNCHANGED <<cur, id>>
    BY <1>6 DEF RegProxy, ProxyFails, Lookup, Register, Visit, PxyOnly, ServerOnly, runVars
<1>7. ASSUME NEW u \in Urls, ShutTunnel(u) \/ AskProxy(u) PROVE run = "loop" /\ UNCHANGED <<cur, id>>
    BY <1>7 DEF ShutTunnel, AskProxy, ServerOnly, runVars
<1>8. QED
    BY <1>1, <1>2, <1>3, <1>4, <1>5, <1>6, <1>7 DEF Next, Control

\* So the id is the one told.
LEMMA IdToldStep ==
    ASSUME TypeOK, OneInUse, IdTold, [Next]_vars
    PROVE  IdTold'
<1>1. ASSUME NEW c \in Ctls, NEW m \in Mail(c)', m.type = "authResp"
      PROVE  m.id = told'[c] /\ nc'[c] \in {"starting", "running"}
    <2>1. CASE m \in Mail(c)
        BY <1>1, <2>1, ToldForGood DEF IdTold
    <2>2. CASE m \notin Mail(c)
        <3>1. Reg!Answer(c) /\ m.id = ctlId[c]
            BY <1>1, <2>2, MailStep
        <3>2. QED
            BY <3>1 DEF Reg!Answer, TypeOK, Reg!TypeOK
    <2>3. QED
        BY <2>1, <2>2
<1>2. ASSUME run' = "loop" PROVE id' = told'[cur'] /\ nc'[cur'] \in {"starting", "running"}
    <2>1. /\ cur' = cur /\ id' = told[cur] /\ nc[cur] \in {"starting", "running"}
          /\ run \in {"auth", "loop"}
        BY <1>2, IdTaken DEF IdTold
    <2>2. cur \in Ctls
        BY <2>1 DEF OneInUse, TypeOK
    <2>3. QED
        BY <2>1, <2>2, ToldForGood
<1>3. QED
    BY <1>1, <1>2 DEF IdTold

-----------------------------------------------------------------------------
(* What becomes of messages, tunnels and proxies in a step *)

\* A lost connection stays lost.
LEMMA LostStays ==
    ASSUME TypeOK, [Next]_vars
    PROVE  lost \subseteq lost'
<1>1. CASE UNCHANGED vars \/ Sleep \/ Heartbeat \/ ControlFails \/ MapRace \/ Quit
    BY <1>1 DEF vars, netVars, Sleep, Heartbeat, WritePing, SetLastPing, Stale, PingFails,
                CloseConn, ControlFails, Return, MapRace, Quit, Exit, TypeOK
<1>2. CASE Control
    BY <1>2 DEF Control, Authenticated, RequestFails, AuthError, Return, HandleNewTunnel,
                HandleRefused, HandleReqProxy, HandlePong, Unmoved
<1>3. ASSUME NEW c \in Ctls, \/ Dial(c) \/ Accept(c) \/ Answer(c) \/ Lifecycle(c) \/ AnswerPing(c)
                             \/ Seal(c) \/ Complete(c) \/ Lose(c)
                             \/ \E k \in Cfgs : OpenTunnel(c, k)
      PROVE  lost \subseteq lost'
    BY <1>3 DEF Dial, Accept, Answer, Lifecycle, AnswerPing, Seal, Complete, Lose, OpenTunnel,
                netVars
<1>4. ASSUME NEW p \in Pxys, \/ RegProxy(p) \/ ProxyFails(p) \/ Lookup(p) \/ Register(p)
                             \/ \E u \in Urls : Visit(u, p)
      PROVE  lost \subseteq lost'
    BY <1>4 DEF RegProxy, ProxyFails, Lookup, Register, Visit, PxyOnly, netVars
<1>5. ASSUME NEW u \in Urls, ShutTunnel(u) \/ AskProxy(u) PROVE lost \subseteq lost'
    BY <1>5 DEF ShutTunnel, AskProxy, netVars
<1>6. QED
    BY <1>1, <1>2, <1>3, <1>4, <1>5 DEF Next

\* The tunnels of a connection that is not lost stay, and its client has been
\* told of a new one.
LEMMA HolderStep ==
    ASSUME TypeOK, OneInUse, [Next]_vars, NEW c \in Ctls, c \notin lost, NEW u \in Urls
    PROVE  /\ holder[u] = c => holder'[u] = c /\ opened'[u] = opened[u]
           /\ holder'[u] = c /\ holder[u] # c =>
                 \E m \in Mail(c)' : m.type = "newTunnel" /\ m.url = u
<1>1. CASE UNCHANGED <<holder, opened>>
    BY <1>1
<1>2. CASE UNCHANGED vars \/ Sleep \/ Heartbeat \/ ControlFails \/ MapRace \/ Quit
    BY <1>1, <1>2 DEF vars, tunVars, Sleep, Heartbeat, WritePing, SetLastPing, Stale, PingFails,
                CloseConn, ControlFails, MapRace, Quit, Exit
<1>3. CASE Control
    BY <1>1, <1>3 DEF Control, Authenticated, RequestFails, AuthError, HandleNewTunnel,
                HandleRefused, HandleReqProxy, HandlePong, Unmoved, tunVars
<1>4. ASSUME NEW d \in Ctls, \/ Dial(d) \/ Accept(d) \/ Answer(d) \/ Lifecycle(d) \/ AnswerPing(d)
                             \/ Seal(d) \/ Complete(d) \/ Lose(d)
      PROVE  UNCHANGED <<holder, opened>>
    BY <1>4 DEF Dial, Accept, Answer, Lifecycle, AnswerPing, Seal, Complete, Lose, tunVars
<1>5. ASSUME NEW d \in Ctls, NEW k \in Cfgs, OpenTunnel(d, k), ~UNCHANGED <<holder, opened>>
      PROVE  /\ holder[u] = c => holder'[u] = c /\ opened'[u] = opened[u]
             /\ holder'[u] = c /\ holder[u] # c =>
                   \E m \in Mail(c)' : m.type = "newTunnel" /\ m.url = u
    <2>1. PICK v \in Asked[k] : /\ holder[v] = NoCtl
                                /\ holder' = [holder EXCEPT ![v] = d]
                                /\ opened' = [opened EXCEPT ![v] = k]
                                /\ Send(d, <<[type |-> "newTunnel", url |-> v, cfg |-> k]>>)
        BY <1>5 DEF OpenTunnel
    <2>2. v \in Urls
        OBVIOUS
    <2>3. holder[u] = c => holder'[u] = c /\ opened'[u] = opened[u]
        BY <2>1, <2>2 DEF TypeOK
    <2>4. ASSUME holder'[u] = c, holder[u] # c
          PROVE  \E m \in Mail(c)' : m.type = "newTunnel" /\ m.url = u
        <3> DEFINE msg == [type |-> "newTunnel", url |-> v, cfg |-> k]
        <3>1. u = v /\ c = d
            BY <2>1, <2>2, <2>4 DEF TypeOK
        <3>2. msg \in Messages
            BY <2>2 DEF Messages
        <3>3. <<msg>> \in Seq(Messages) /\ <<msg>>[1] = msg /\ 1 \in DOMAIN <<msg>>
            BY <3>2
        <3>4. Send(c, <<msg>>)
            BY <2>1, <3>1
        <3> HIDE DEF msg
        <3>5. Mail(c)' = Mail(c) \cup {<<msg>>[n] : n \in DOMAIN <<msg>>}
            <4>1. toClient \in [Ctls -> Seq(Messages)]
                BY DEF TypeOK
            <4>2. PICK ms \in Seq(Messages) : ms = <<msg>>
                BY <3>3
            <4>3. Mail(c)' = Mail(c) \cup {ms[n] : n \in DOMAIN ms}
                BY <3>4, <4>1, <4>2, SendMail
            <4>4. QED
                BY <4>2, <4>3
        <3>6. msg \in Mail(c)'
            BY <3>3, <3>5
        <3>7. QED
            BY <3>1, <3>6 DEF msg
    <2>5. QED
        BY <2>3, <2>4
<1>6. ASSUME NEW p \in Pxys, \/ RegProxy(p) \/ ProxyFails(p) \/ Lookup(p) \/ Register(p)
                             \/ \E v \in Urls : Visit(v, p)
      PROVE  UNCHANGED <<holder, opened>>
    BY <1>6 DEF RegProxy, ProxyFails, Lookup, Register, Visit, PxyOnly, tunVars
<1>7. ASSUME NEW v \in Urls, AskProxy(v) PROVE UNCHANGED <<holder, opened>>
    BY <1>7 DEF AskProxy, tunVars
<1>8. ASSUME NEW v \in Urls, ShutTunnel(v)
      PROVE  /\ holder[u] = c => holder'[u] = c /\ opened'[u] = opened[u]
             /\ holder'[u] = c => holder[u] = c
    BY <1>8 DEF ShutTunnel, TypeOK, OneInUse
<1>9. QED
    <2>1. CASE \E d \in Ctls : \/ Dial(d) \/ Accept(d) \/ Answer(d) \/ Lifecycle(d) \/ AnswerPing(d)
                               \/ Seal(d) \/ Complete(d) \/ Lose(d)
                               \/ \E k \in Cfgs : OpenTunnel(d, k)
        BY <1>1, <1>4, <1>5, <2>1
    <2>2. CASE \/ \E p \in Pxys : \/ RegProxy(p) \/ ProxyFails(p) \/ Lookup(p) \/ Register(p)
                                \/ \E v \in Urls : Visit(v, p)
               \/ \E v \in Urls : ShutTunnel(v) \/ AskProxy(v)
        BY <1>1, <1>6, <1>7, <1>8, <2>2
    <2>3. QED
        BY <1>2, <1>3, <2>1, <2>2 DEF Next

\* The table changes only by a NewTunnel, read on the connection in use.
LEMMA TableStep ==
    ASSUME TypeOK, OneInUse, [Next]_vars, NEW u \in Urls, table'[u] # table[u]
    PROVE  /\ run = "loop"
           /\ \E m \in Mail(cur) : m.type = "newTunnel" /\ m.url = u /\ table'[u] = m.cfg
<1>1. CASE UNCHANGED table
    BY <1>1
<1>2. CASE UNCHANGED vars \/ Sleep \/ Heartbeat \/ ControlFails \/ MapRace \/ Quit
    BY <1>1, <1>2 DEF vars, runVars, Sleep, Heartbeat, WritePing, SetLastPing, Stale, PingFails,
                CloseConn, ControlFails, MapRace, Quit, Exit
<1>3. CASE Authenticated \/ RequestFails \/ AuthError \/ HandleRefused \/ HandleReqProxy \/ HandlePong
    BY <1>1, <1>3 DEF Authenticated, RequestFails, AuthError, HandleRefused, HandleReqProxy,
                HandlePong
<1>4. CASE HandleNewTunnel
    <2>1. cur \in Ctls
        BY <1>4 DEF HandleNewTunnel, OneInUse, TypeOK
    <2>2. PICK m \in Mail(cur) : m \in Messages /\ m = Head(toClient[cur])
        BY <1>4, <2>1, ConsumeMail DEF HandleNewTunnel, TypeOK
    <2>3. m.type = "newTunnel" /\ table' = [table EXCEPT ![m.url] = m.cfg]
        BY <1>4, <2>2 DEF HandleNewTunnel, Reads, Forward
    <2>4. m.url = u /\ table'[u] = m.cfg
        BY <2>3 DEF TypeOK
    <2>5. QED
        BY <1>4, <2>3, <2>4 DEF HandleNewTunnel
<1>5. ASSUME NEW d \in Ctls, \/ Dial(d) \/ Accept(d) \/ Answer(d) \/ Lifecycle(d) \/ AnswerPing(d)
                             \/ Seal(d) \/ Complete(d) \/ Lose(d)
                             \/ \E k \in Cfgs : OpenTunnel(d, k)
      PROVE  FALSE
    BY <1>5 DEF Dial, Accept, Answer, Lifecycle, AnswerPing, Seal, Complete, Lose, OpenTunnel,
                ServerOnly, runVars
<1>6. ASSUME NEW p \in Pxys, \/ RegProxy(p) \/ ProxyFails(p) \/ Lookup(p) \/ Register(p)
                             \/ \E v \in Urls : Visit(v, p)
      PROVE  FALSE
    BY <1>6 DEF RegProxy, ProxyFails, Lookup, Register, Visit, PxyOnly, ServerOnly, runVars
<1>7. ASSUME NEW v \in Urls, ShutTunnel(v) \/ AskProxy(v) PROVE FALSE
    BY <1>7 DEF ShutTunnel, AskProxy, ServerOnly, runVars
<1>8. QED
    BY <1>2, <1>3, <1>4, <1>5, <1>6, <1>7 DEF Next, Control

\* A message on a connection that is not lost goes only by being read: a
\* NewTunnel into the table, a Pong to say that the server is there.
LEMMA MailGone ==
    ASSUME TypeOK, OneInUse, [Next]_vars, NEW c \in Ctls, c \notin lost',
           NEW m \in Mail(c), m \notin Mail(c)'
    PROVE  /\ c = cur
           /\ m.type = "newTunnel" => table' = [table EXCEPT ![m.url] = m.cfg]
           /\ m.type = "pong" => needPong' = FALSE /\ overtaken' = (hb = "pinging") /\ hb' = hb
<1> DEFINE Gone1 == /\ c = cur
                    /\ m.type = "newTunnel" => table' = [table EXCEPT ![m.url] = m.cfg]
                    /\ m.type = "pong" => /\ needPong' = FALSE
                                          /\ overtaken' = (hb = "pinging") /\ hb' = hb
<1> SUFFICES Gone1
    OBVIOUS
<1>0. toClient \in [Ctls -> Seq(Messages)] /\ c \notin lost
    BY LostStays DEF TypeOK
<1>1. ~UNCHANGED toClient
    BY DEF Mail
<1>2. ASSUME NEW d \in Ctls, NEW ms \in Seq(Messages), Send(d, ms) PROVE FALSE
    BY <1>0, <1>2, SendMail
<1>3. ASSUME NEW msg \in Messages PROVE <<msg>> \in Seq(Messages)
    OBVIOUS
<1>4. run \in {"auth", "loop"} => cur \in Ctls
    BY DEF OneInUse, TypeOK
<1>5. ASSUME NEW type, Reads(type), Consume, run \in {"auth", "loop"}
      PROVE  c = cur /\ m = Head(toClient[cur]) /\ m.type = type
    BY <1>0, <1>4, <1>5, ConsumeMail DEF Reads
<1>6. ASSUME Return, cur \in Ctls PROVE FALSE
    BY <1>0, <1>6 DEF Return, Mail
<1>7. CASE UNCHANGED vars \/ Sleep \/ Heartbeat
    BY <1>1, <1>7 DEF vars, netVars, Sleep, Heartbeat, WritePing, SetLastPing, Stale, PingFails,
                      CloseConn
<1>8. CASE ControlFails \/ RequestFails \/ AuthError
    BY <1>4, <1>6, <1>8 DEF ControlFails, RequestFails, AuthError
<1>9. CASE MapRace \/ Quit
    BY <1>9 DEF MapRace, Quit, Exit
<1>10. CASE Authenticated
    BY <1>5, <1>10 DEF Authenticated
<1>11. CASE HandleNewTunnel
    <2>1. c = cur /\ m = Head(toClient[cur]) /\ m.type = "newTunnel"
        BY <1>5, <1>11 DEF HandleNewTunnel
    <2>2. table' = [table EXCEPT ![m.url] = m.cfg]
        BY <1>11, <2>1 DEF HandleNewTunnel, Forward
    <2>3. QED
        BY <2>1, <2>2
<1>12. CASE HandleRefused \/ HandleReqProxy
    BY <1>5, <1>12 DEF HandleRefused, HandleReqProxy
<1>13. CASE HandlePong
    BY <1>5, <1>13 DEF HandlePong
<1>14. ASSUME NEW d \in Ctls, Dial(d) \/ Lifecycle(d) \/ Complete(d) \/ Seal(d) \/ Lose(d)
       PROVE  FALSE
    BY <1>1, <1>14 DEF Dial, Lifecycle, Complete, Seal, Lose, netVars
<1>15. ASSUME NEW d \in Ctls, Accept(d) \/ AnswerPing(d) PROVE FALSE
    <2>1. [type |-> "refused"] \in Messages /\ [type |-> "pong"] \in Messages
        BY DEF Messages
    <2>2. QED
        BY <1>1, <1>2, <1>3, <1>15, <2>1 DEF Accept, AnswerPing
<1>16. ASSUME NEW d \in Ctls, Answer(d) PROVE FALSE
    <2>1. [type |-> "authResp", id |-> ctlId[d]] \in Messages /\ [type |-> "reqProxy"] \in Messages
        BY DEF Messages, TypeOK, Reg!TypeOK
    <2>2. <<[type |-> "authResp", id |-> ctlId[d]], [type |-> "reqProxy"]>> \in Seq(Messages)
        BY <2>1
    <2>3. QED
        BY <1>2, <1>16, <2>2 DEF Answer
<1>17. ASSUME NEW d \in Ctls, NEW k \in Cfgs, OpenTunnel(d, k) PROVE FALSE
    <2>1. [type |-> "refused"] \in Messages
        BY DEF Messages
    <2>2. \A u \in Asked[k] : [type |-> "newTunnel", url |-> u, cfg |-> k] \in Messages
        BY DEF Messages
    <2>3. QED
        BY <1>2, <1>3, <1>17, <2>1, <2>2 DEF OpenTunnel
<1>18. ASSUME NEW u \in Urls, AskProxy(u) \/ \E p \in Pxys : Visit(u, p) PROVE FALSE
    <2>1. [type |-> "reqProxy"] \in Messages
        BY DEF Messages
    <2>2. PICK d \in Ctls : d = holder[u]
        BY <1>18 DEF AskProxy, Visit, TypeOK
    <2>3. Send(d, <<[type |-> "reqProxy"]>>)
        BY <1>1, <1>18, <2>2 DEF AskProxy, Visit
    <2>4. QED
        BY <1>2, <1>3, <2>1, <2>3
<1>19. ASSUME NEW p \in Pxys, RegProxy(p) \/ ProxyFails(p) \/ Lookup(p) \/ Register(p)
       PROVE  FALSE
    BY <1>1, <1>19 DEF RegProxy, ProxyFails, Lookup, Register, PxyOnly, netVars
<1>20. ASSUME NEW u \in Urls, ShutTunnel(u) PROVE FALSE
    BY <1>1, <1>20 DEF ShutTunnel, netVars
<1> HIDE DEF Gone1
<1>21. QED
    <2>1. CASE Control
        BY <1>8, <1>10, <1>11, <1>12, <1>13, <2>1 DEF Control
    <2>2. CASE \E d \in Ctls : \/ Dial(d) \/ Accept(d) \/ Answer(d) \/ Lifecycle(d) \/ AnswerPing(d)
                               \/ Seal(d) \/ Complete(d) \/ Lose(d)
                               \/ \E k \in Cfgs : OpenTunnel(d, k)
        BY <1>14, <1>15, <1>16, <1>17, <2>2
    <2>3. CASE \/ \E p \in Pxys : \/ RegProxy(p) \/ ProxyFails(p) \/ Lookup(p) \/ Register(p)
                                \/ \E u \in Urls : Visit(u, p)
               \/ \E u \in Urls : ShutTunnel(u) \/ AskProxy(u)
        BY <1>18, <1>19, <1>20, <2>3
    <2>4. QED
        BY <1>7, <1>8, <1>9, <2>1, <2>2, <2>3 DEF Next

\* A proxy that is started was so before, or a visitor has just taken it.
LEMMA ProxyStep ==
    ASSUME TypeOK, [Next]_vars, NEW p \in Pxys, px'[p] = "started"
    PROVE  /\ pctl'[p] = pctl[p]
           /\ \/ px[p] = "started" /\ purl'[p] = purl[p] /\ pcfg'[p] = pcfg[p]
              \/ /\ purl'[p] \in Urls /\ holder[purl'[p]] = pctl[p]
                 /\ pcfg'[p] = opened[purl'[p]] /\ UNCHANGED <<holder, opened>>
<1> USE DEF TypeOK
<1>1. CASE UNCHANGED pxVars
    BY <1>1 DEF pxVars
<1>2. CASE UNCHANGED vars \/ Sleep \/ Heartbeat \/ ControlFails \/ MapRace \/ Quit
    BY <1>1, <1>2 DEF vars, Sleep, Heartbeat, WritePing, SetLastPing, Stale, PingFails,
                CloseConn, ControlFails, MapRace, Quit, Exit
<1>3. CASE Authenticated \/ RequestFails \/ AuthError \/ HandleNewTunnel \/ HandleRefused \/ HandlePong
    BY <1>1, <1>3 DEF Authenticated, RequestFails, AuthError, HandleNewTunnel, HandleRefused,
                HandlePong
<1>4. CASE HandleReqProxy
    BY <1>4 DEF HandleReqProxy
<1>5. ASSUME NEW d \in Ctls, \/ Dial(d) \/ Accept(d) \/ Answer(d) \/ Lifecycle(d) \/ AnswerPing(d)
                             \/ Seal(d) \/ Complete(d) \/ Lose(d)
                             \/ \E k \in Cfgs : OpenTunnel(d, k)
      PROVE  UNCHANGED pxVars
    BY <1>5 DEF Dial, Accept, Answer, Lifecycle, AnswerPing, Seal, Complete, Lose, OpenTunnel
<1>6. ASSUME NEW q \in Pxys, RegProxy(q) \/ ProxyFails(q) \/ Lookup(q)
      PROVE  /\ px[p] = "started" /\ pctl'[p] = pctl[p]
             /\ purl'[p] = purl[p] /\ pcfg'[p] = pcfg[p]
    BY <1>6 DEF RegProxy, ProxyFails, Lookup, Gone
<1>7. ASSUME NEW q \in Pxys, Register(q)
      PROVE  /\ px[p] = "started" /\ pctl'[p] = pctl[p]
             /\ purl'[p] = purl[p] /\ pcfg'[p] = pcfg[p]
    BY <1>7 DEF Register, Gone
<1>8. ASSUME NEW u \in Urls, NEW q \in Pxys, Visit(u, q)
      PROVE  /\ pctl'[p] = pctl[p]
             /\ \/ px[p] = "started" /\ purl'[p] = purl[p] /\ pcfg'[p] = pcfg[p]
                \/ /\ purl'[p] \in Urls /\ holder[purl'[p]] = pctl[p]
                   /\ pcfg'[p] = opened[purl'[p]] /\ UNCHANGED <<holder, opened>>
    BY <1>8 DEF Visit, tunVars
<1>9. ASSUME NEW u \in Urls, ShutTunnel(u) \/ AskProxy(u) PROVE UNCHANGED pxVars
    BY <1>9 DEF ShutTunnel, AskProxy
<1>10. QED
    <2>1. CASE \E d \in Ctls : \/ Dial(d) \/ Accept(d) \/ Answer(d) \/ Lifecycle(d) \/ AnswerPing(d)
                               \/ Seal(d) \/ Complete(d) \/ Lose(d)
                               \/ \E k \in Cfgs : OpenTunnel(d, k)
        BY <1>1, <1>5, <2>1
    <2>2. CASE \/ \E q \in Pxys : \/ RegProxy(q) \/ ProxyFails(q) \/ Lookup(q) \/ Register(q)
                                \/ \E u \in Urls : Visit(u, q)
               \/ \E u \in Urls : ShutTunnel(u) \/ AskProxy(u)
        BY <1>1, <1>6, <1>7, <1>8, <1>9, <2>2
    <2>3. QED
        BY <1>2, <1>3, <1>4, <2>1, <2>2 DEF Next, Control

-----------------------------------------------------------------------------
(* The table of tunnels *)

\* What a message or a proxy of a connection that is not lost says stays so: its
\* tunnels stay, and the table is given what they were opened for.
LEMMA UrlsToldStep ==
    ASSUME TypeOK, OneInUse, UrlsTold, [Next]_vars
    PROVE  UrlsTold'
<1> SUFFICES ASSUME NEW c \in Ctls, c \notin lost'
             PROVE  /\ \A m \in Mail(c)' : m.type = "newTunnel" =>
                          holder'[m.url] = c /\ opened'[m.url] = m.cfg
                    /\ \A u \in Urls : holder'[u] = c =>
                          \/ table'[u] = opened'[u]
                          \/ \E m \in Mail(c)' : m.type = "newTunnel" /\ m.url = u
                    /\ \A p \in Pxys : px'[p] = "started" /\ pctl'[p] = c =>
                          /\ purl'[p] \in Urls /\ holder'[purl'[p]] = c
                          /\ opened'[purl'[p]] = pcfg'[p]
    BY DEF UrlsTold
<1>1. c \notin lost
    BY LostStays
<1>2. \A u \in Urls : holder[u] = c => holder'[u] = c /\ opened'[u] = opened[u]
    BY <1>1, HolderStep
<1>3. \A m \in Mail(c) : m.type = "newTunnel" =>
          m.url \in Urls /\ holder[m.url] = c /\ opened[m.url] = m.cfg
    <2> SUFFICES ASSUME NEW m \in Mail(c), m.type = "newTunnel"
                 PROVE  m.url \in Urls /\ holder[m.url] = c /\ opened[m.url] = m.cfg
        OBVIOUS
    <2>1. m \in Messages
        BY DEF Mail, TypeOK
    <2>2. QED
        BY <1>1, <2>1, Fields DEF UrlsTold
<1>4. ASSUME NEW m \in Mail(c)', m.type = "newTunnel"
      PROVE  holder'[m.url] = c /\ opened'[m.url] = m.cfg
    <2>1. CASE m \in Mail(c)
        BY <1>2, <1>3, <1>4, <2>1
    <2>2. CASE m \notin Mail(c)
        <3>1. Opens(c, m)
            BY <1>4, <2>2, MailStep
        <3>2. QED
            BY <3>1 DEF Opens, TypeOK
    <2>3. QED
        BY <2>1, <2>2
<1>5. ASSUME NEW u \in Urls, holder'[u] = c
      PROVE  \/ table'[u] = opened'[u]
             \/ \E m \in Mail(c)' : m.type = "newTunnel" /\ m.url = u
    <2>1. CASE holder[u] # c
        BY <1>1, <1>5, <2>1, HolderStep
    <2>2. CASE holder[u] = c /\ table[u] = opened[u]
        <3>1. CASE table'[u] = table[u]
            BY <1>2, <2>2, <3>1
        <3>2. CASE table'[u] # table[u]
            <4>1. PICK m \in Mail(cur) : m.type = "newTunnel" /\ m.url = u /\ table'[u] = m.cfg
                BY <3>2, TableStep
            <4>2. run = "loop"
                BY <3>2, TableStep
            <4>3. c = cur
                BY <1>1, <2>2, <4>2 DEF OneInUse, TypeOK
            <4>4. QED
                BY <1>2, <1>3, <2>2, <4>1, <4>3
        <3>3. QED
            BY <3>1, <3>2
    <2>3. ASSUME holder[u] = c, NEW m \in Mail(c), m.type = "newTunnel", m.url = u
          PROVE  \/ table'[u] = opened'[u]
                 \/ \E k \in Mail(c)' : k.type = "newTunnel" /\ k.url = u
        <3>1. CASE m \in Mail(c)'
            BY <2>3, <3>1
        <3>2. CASE m \notin Mail(c)'
            <4>1. table' = [table EXCEPT ![m.url] = m.cfg]
                BY <2>3, <3>2, MailGone
            <4>2. table'[u] = m.cfg
                BY <2>3, <4>1 DEF TypeOK
            <4>3. QED
                BY <1>2, <1>3, <2>3, <4>2
        <3>3. QED
            BY <3>1, <3>2
    <2>4. QED
        BY <1>1, <2>1, <2>2, <2>3 DEF UrlsTold
<1>6. ASSUME NEW p \in Pxys, px'[p] = "started", pctl'[p] = c
      PROVE  purl'[p] \in Urls /\ holder'[purl'[p]] = c /\ opened'[purl'[p]] = pcfg'[p]
    <2>1. pctl[p] = c
        BY <1>6, ProxyStep
    <2>2. CASE px[p] = "started" /\ purl'[p] = purl[p] /\ pcfg'[p] = pcfg[p]
        <3>1. purl[p] \in Urls /\ holder[purl[p]] = c /\ opened[purl[p]] = pcfg[p]
            BY <1>1, <2>1, <2>2 DEF UrlsTold
        <3>2. QED
            BY <1>2, <2>2, <3>1
    <2>3. CASE /\ purl'[p] \in Urls /\ holder[purl'[p]] = pctl[p]
               /\ pcfg'[p] = opened[purl'[p]] /\ UNCHANGED <<holder, opened>>
        BY <2>1, <2>3
    <2>4. QED
        BY <1>6, <2>2, <2>3, ProxyStep
<1>7. QED
    BY <1>4, <1>5, <1>6

-----------------------------------------------------------------------------
(* The heartbeat *)

\* A Ping on a connection that is not lost is answered.
LEMMA PingsStep ==
    ASSUME TypeOK, [Next]_vars, NEW c \in Ctls, c \notin lost', pings[c] > 0
    PROVE  pings'[c] > 0 \/ \E m \in Mail(c)' : m.type = "pong"
<1>0. toClient \in [Ctls -> Seq(Messages)] /\ c \notin lost /\ pings \in [Ctls -> 0..MaxPings]
    BY LostStays DEF TypeOK
<1>1. CASE UNCHANGED pings
    BY <1>1
<1>2. CASE UNCHANGED vars \/ Sleep \/ ControlFails \/ MapRace \/ Quit
    BY <1>1, <1>2 DEF vars, netVars, Sleep, ControlFails, MapRace, Quit, Exit
<1>3. CASE Control
    BY <1>1, <1>3 DEF Control, Authenticated, RequestFails, AuthError, HandleNewTunnel,
                HandleRefused, HandleReqProxy, HandlePong, Unmoved
<1>4. CASE Heartbeat
    <2>1. CASE WritePing
        BY <1>0, <2>1 DEF WritePing
    <2>2. CASE SetLastPing \/ Stale \/ PingFails
        BY <1>1, <2>2 DEF SetLastPing, Stale, PingFails, CloseConn, netVars
    <2>3. QED
        BY <1>4, <2>1, <2>2 DEF Heartbeat
<1>5. ASSUME NEW d \in Ctls, \/ Dial(d) \/ Accept(d) \/ Answer(d) \/ Lifecycle(d) \/ Complete(d)
                             \/ Lose(d) \/ \E k \in Cfgs : OpenTunnel(d, k)
      PROVE  UNCHANGED pings
    BY <1>5 DEF Dial, Accept, Answer, Lifecycle, Complete, Lose, OpenTunnel, netVars
<1>6. ASSUME NEW d \in Ctls, AnswerPing(d)
      PROVE  pings'[c] > 0 \/ \E m \in Mail(c)' : m.type = "pong"
    <2>1. CASE d # c
        BY <1>0, <1>6, <2>1 DEF AnswerPing
    <2>2. CASE d = c
        <3> DEFINE msg == [type |-> "pong"]
        <3>1. msg \in Messages
            BY DEF Messages
        <3>2. PICK ms \in Seq(Messages) : ms = <<msg>> /\ ms[1] = msg /\ 1 \in DOMAIN ms
            <4> HIDE DEF msg
            <4>1. <<msg>> \in Seq(Messages) /\ <<msg>>[1] = msg /\ 1 \in DOMAIN <<msg>>
                BY <3>1
            <4>2. QED
                BY <4>1
        <3>3. Mail(c)' = Mail(c) \cup {ms[n] : n \in DOMAIN ms}
            BY <1>0, <1>6, <2>2, <3>2, SendMail DEF AnswerPing
        <3>4. msg \in Mail(c)'
            BY <3>2, <3>3
        <3>5. QED
            BY <3>4
    <2>3. QED
        BY <2>1, <2>2
<1>7. ASSUME NEW d \in Ctls, Seal(d) PROVE pings'[c] > 0
    BY <1>0, <1>7 DEF Seal
<1>8. ASSUME NEW p \in Pxys, \/ RegProxy(p) \/ ProxyFails(p) \/ Lookup(p) \/ Register(p)
                             \/ \E u \in Urls : Visit(u, p)
      PROVE  UNCHANGED pings
    BY <1>8 DEF RegProxy, ProxyFails, Lookup, Register, Visit, PxyOnly, netVars
<1>9. ASSUME NEW u \in Urls, ShutTunnel(u) \/ AskProxy(u) PROVE UNCHANGED pings
    BY <1>9 DEF ShutTunnel, AskProxy, netVars
<1>10. QED
    <2>1. CASE \E d \in Ctls : \/ Dial(d) \/ Accept(d) \/ Answer(d) \/ Lifecycle(d) \/ AnswerPing(d)
                               \/ Seal(d) \/ Complete(d) \/ Lose(d)
                               \/ \E k \in Cfgs : OpenTunnel(d, k)
        BY <1>1, <1>5, <1>6, <1>7, <2>1
    <2>2. CASE \/ \E p \in Pxys : \/ RegProxy(p) \/ ProxyFails(p) \/ Lookup(p) \/ Register(p)
                                \/ \E u \in Urls : Visit(u, p)
               \/ \E u \in Urls : ShutTunnel(u) \/ AskProxy(u)
        BY <1>1, <1>8, <1>9, <2>2
    <2>3. QED
        BY <1>2, <1>3, <1>4, <2>1, <2>2 DEF Next

\* heartbeat waits for a Pong that has not been overtaken.
Waits == hb \in {"pinging", "waiting"} /\ (hb = "waiting" => needPong) /\ ~overtaken

\* It does so after a step if it did before, or has just written a Ping.
LEMMA HeartbeatStep ==
    ASSUME TypeOK, OneInUse, [Next]_vars, Waits', cur' \notin lost'
    PROVE  cur' = cur /\ cur \in Ctls /\ (Waits \/ pings'[cur] > 0)
<1> USE DEF Waits
<1>0. run # "loop" => hb = "off"
    BY DEF OneInUse
<1>1. CASE UNCHANGED <<cur, hb, needPong, overtaken>>
    BY <1>0, <1>1 DEF OneInUse, TypeOK
<1>2. CASE UNCHANGED vars \/ Sleep
    BY <1>1, <1>2 DEF vars, runVars, hbVars, Sleep
<1>3. CASE ControlFails \/ RequestFails \/ AuthError \/ MapRace \/ Quit
    BY <1>3 DEF ControlFails, RequestFails, AuthError, Return, MapRace, Quit, Exit
<1>4. CASE Authenticated
    BY <1>4 DEF Authenticated
<1>5. CASE HandleNewTunnel \/ HandleRefused \/ HandleReqProxy
    BY <1>1, <1>5 DEF HandleNewTunnel, HandleRefused, HandleReqProxy, Unmoved, hbVars
<1>6. CASE HandlePong
    BY <1>6 DEF HandlePong
<1>7. CASE WritePing
    <2>1. cur' = cur /\ lost' = lost /\ cur \in Ctls
        BY <1>7 DEF WritePing, runVars, OneInUse, TypeOK
    <2>2. pings'[cur] = pings[cur] + 1 /\ pings[cur] \in Nat
        BY <1>7, <2>1 DEF WritePing, TypeOK
    <2>3. QED
        BY <2>1, <2>2
<1>8. CASE SetLastPing
    BY <1>8 DEF SetLastPing, runVars, OneInUse, TypeOK
<1>9. CASE Stale \/ PingFails
    BY <1>9 DEF Stale, PingFails, CloseConn
<1>10. ASSUME NEW d \in Ctls, Dial(d) PROVE FALSE
    BY <1>0, <1>10 DEF Dial, hbVars
<1>11. ASSUME NEW d \in Ctls, \/ Accept(d) \/ Answer(d) \/ Lifecycle(d) \/ AnswerPing(d)
                              \/ Seal(d) \/ Complete(d) \/ Lose(d)
                              \/ \E k \in Cfgs : OpenTunnel(d, k)
       PROVE  UNCHANGED <<cur, hb, needPong, overtaken>>
    BY <1>11 DEF Accept, Answer, Lifecycle, AnswerPing, Seal, Complete, Lose, OpenTunnel,
                 ServerOnly, runVars, hbVars
<1>12. ASSUME NEW p \in Pxys, \/ RegProxy(p) \/ ProxyFails(p) \/ Lookup(p) \/ Register(p)
                              \/ \E u \in Urls : Visit(u, p)
       PROVE  UNCHANGED <<cur, hb, needPong, overtaken>>
    BY <1>12 DEF RegProxy, ProxyFails, Lookup, Register, Visit, PxyOnly, ServerOnly, runVars,
                 hbVars
<1>13. ASSUME NEW u \in Urls, ShutTunnel(u) \/ AskProxy(u)
       PROVE  UNCHANGED <<cur, hb, needPong, overtaken>>
    BY <1>13 DEF ShutTunnel, AskProxy, ServerOnly, runVars, hbVars
<1>14. QED
    <2>1. CASE \E d \in Ctls : \/ Dial(d) \/ Accept(d) \/ Answer(d) \/ Lifecycle(d) \/ AnswerPing(d)
                               \/ Seal(d) \/ Complete(d) \/ Lose(d)
                               \/ \E k \in Cfgs : OpenTunnel(d, k)
        BY <1>1, <1>10, <1>11, <2>1
    <2>2. CASE \/ \E p \in Pxys : \/ RegProxy(p) \/ ProxyFails(p) \/ Lookup(p) \/ Register(p)
                                \/ \E u \in Urls : Visit(u, p)
               \/ \E u \in Urls : ShutTunnel(u) \/ AskProxy(u)
        BY <1>1, <1>12, <1>13, <2>2
    <2>3. QED
        BY <1>2, <1>3, <1>4, <1>5, <1>6, <1>7, <1>8, <1>9, <2>1, <2>2
           DEF Next, Control, Heartbeat

\* As long as it waits there is something to wait for.
LEMMA PingsAnsweredStep ==
    ASSUME TypeOK, OneInUse, PingsAnswered, [Next]_vars
    PROVE  PingsAnswered'
<1>1. SUFFICES ASSUME Waits', cur' \notin lost'
               PROVE  \E c \in Ctls : /\ c = cur'
                                      /\ pings'[c] > 0 \/ \E m \in Mail(c)' : m.type = "pong"
    BY DEF PingsAnswered, Waits, Mail
<1>2. cur' = cur /\ cur \in Ctls /\ (Waits \/ pings'[cur] > 0)
    BY <1>1, HeartbeatStep
<1>3. PICK c \in Ctls : c = cur
    BY <1>2
<1>4. c \notin lost' /\ c \notin lost
    BY <1>1, <1>2, <1>3, LostStays
<1>5. pings'[c] > 0 \/ pings[c] > 0 \/ \E m \in Mail(c) : m.type = "pong"
    BY <1>2, <1>3, <1>4 DEF PingsAnswered, Waits
<1>6. ASSUME NEW m \in Mail(c), m.type = "pong", m \notin Mail(c)' PROVE FALSE
    BY <1>1, <1>4, <1>6, MailGone DEF Waits
<1>7. QED
    BY <1>2, <1>3, <1>4, <1>5, <1>6, PingsStep

-----------------------------------------------------------------------------
(* The theorems *)

\* The inductive invariant is kept.
LEMMA SInvStep == SInv /\ [Next]_vars => SInv'
<1> SUFFICES ASSUME SInv, [Next]_vars PROVE SInv'
    OBVIOUS
<1>1. Lib!IInv' /\ Reg!TypeOK'
    BY RegistryIInv DEF SInv
<1>2. TypeOK'
    BY <1>1, TypeStep DEF SInv
<1>3. OneInUse'
    BY OneInUseStep DEF SInv
<1>4. IdTold'
    BY IdToldStep DEF SInv
<1>5. UrlsTold'
    BY UrlsToldStep DEF SInv
<1>6. PingsAnswered'
    BY PingsAnsweredStep DEF SInv
<1>7. QED
    BY <1>1, <1>2, <1>3, <1>4, <1>5, <1>6 DEF SInv

\* It holds in every reachable state.
LEMMA SessionInvariant == Spec => []SInv
  BY InitSInv, SInvStep, PTL DEF Spec

\* Every variable of the client, its connections and its proxies keeps its type.
THEOREM SessionTypeCorrect == Spec => []TypeOK
  BY SessionInvariant, PTL DEF SInv

\* However often the client reconnects, and whatever is lost, the server's Controls
\* follow each other as specified in ControlRegistry.
THEOREM SessionImplementsRegistry == Spec => Reg!Spec
<1>1. Init => Reg!Init
    BY DEF Init
<1>2. SInv /\ [Next]_vars => [Reg!Next]_(Reg!regVars)
    BY RegistryStep DEF SInv
<1>3. QED
    BY <1>1, <1>2, SessionInvariant, PTL DEF Spec, Reg!Spec

\* The RegProxys of a client lead to its own Control (model.go:369).
THEOREM RegProxysFindHome == Spec => []ProxiesFindHome
<1>1. SInv => ProxiesFindHome
    <2> SUFFICES ASSUME SInv, run = "loop", NEW i \in Ids, controls[i] = cur
                 PROVE  id = i
        BY DEF ProxiesFindHome
    <2>1. cur \in Ctls /\ id = told[cur] /\ nc[cur] \in {"starting", "running"}
        BY DEF SInv, OneInUse, IdTold, TypeOK
    <2>2. told[cur] = i
        BY <2>1 DEF SInv, Lib!IInv, Lib!ToldTheEntry
    <2>3. QED
        BY <2>1, <2>2
<1>2. QED
    BY <1>1, SessionInvariant, PTL

\* A visitor is joined with what the tunnel's request was for, once the client
\* has read every NewTunnel of that URL (model.go:300-301, 331-337, 382).
THEOREM VisitorsReachTheirTarget == Spec => []RightTargetOnceTold
<1>1. SInv => RightTargetOnceTold
    <2> SUFFICES ASSUME SInv, NEW p \in Pxys,
                        px[p] = "started", pctl[p] = cur, run = "loop", cur \notin lost,
                        \A n \in DOMAIN toClient[cur] : toClient[cur][n].type = "newTunnel" =>
                            toClient[cur][n].url # purl[p]
                 PROVE  table[purl[p]] = pcfg[p]
        BY DEF RightTargetOnceTold
    <2>1. cur \in Ctls \ lost
        BY DEF SInv, OneInUse, TypeOK
    <2>2. purl[p] \in Urls /\ holder[purl[p]] = cur /\ opened[purl[p]] = pcfg[p]
        BY <2>1 DEF SInv, UrlsTold
    <2>3. \A m \in Mail(cur) : m.type = "newTunnel" => m.url # purl[p]
        BY DEF Mail
    <2>4. QED
        BY <2>1, <2>2, <2>3 DEF SInv, UrlsTold
<1>2. QED
    BY <1>1, SessionInvariant, PTL

\* A connection that works and owes the client nothing is given up only if a
\* Pong was handled before the lastPing it belongs to was set (model.go:455).
THEOREM WorkingConnectionsAreKept == Spec => StaleForCause
<1>1. SInv /\ [Next]_vars => [Stale /\ cur \notin lost /\ Underway = 0 => overtaken]_vars
    <2> SUFFICES ASSUME SInv, Stale, cur \notin lost, Underway = 0 PROVE overtaken
        OBVIOUS
    <2>1. cur \in Ctls
        BY DEF SInv, OneInUse, TypeOK, Stale, CloseConn
    <2>2. pings[cur] = 0 /\ \A m \in Mail(cur) : m.type # "pong"
        BY <2>1, UnderwayIsNatural DEF SInv, TypeOK
    <2>3. QED
        BY <2>2 DEF SInv, PingsAnswered, Stale, NoPong
<1>2. QED
    BY <1>1, SessionInvariant, PTL DEF Spec, StaleForCause
============================================================================
