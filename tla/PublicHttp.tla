----------------------------- MODULE PublicHttp -----------------------------
(***************************************************************************)
(* Visitors of public URLs on the server: startHttpListener's goroutines   *)
(* and httpHandler (server/http.go), as they meet the tunnels of a Control *)
(* that is being opened (registerTunnel, NewTunnel) or torn down (stopper, *)
(* Tunnel.Shutdown), and what both report to Keen.io.                      *)
(*                                                                         *)
(* One request for a tunnel gives one tunnel per protocol; Tunnels are     *)
(* those of one request, all with the credentials it carries.  What        *)
(* HandlePublicConnection does between its beginning and the end of the    *)
(* joined connections is in module Control.                                *)
(***************************************************************************)
EXTENDS Naturals, Sequences

CONSTANTS Visitors, Tunnels, NoTunnel,
          ChannelCap  \* of KeenMetrics

ASSUME VisitorsAssumption ==
    /\ Visitors \cap Tunnels = {}
    /\ NoTunnel \notin Tunnels
ASSUME ChannelAssumption == ChannelCap \in Nat \ {0}

VARIABLES
    secured,   \* the request asks for credentials
    tunnels,   \* the tunnels that the registry has
    auth,      \* how often HttpAuth of each tunnel's request has been encoded
    life,      \* how far each tunnel has got in NewTunnel and in Shutdown
    dead,      \* the Control's writer has failed
    shut,      \* the Control's shutdown: not begun, begun, stopping, complete
    hs,        \* where each visitor's handler is
    sent,      \* the credentials of each visitor's request
    tunnel,    \* the tunnel each handler has found
    channel, batch, reporter, reports, lost  \* of KeenMetrics

tunnelVars == <<secured, tunnels, auth, life, dead>>
handlerVars == <<hs, sent, tunnel>>
keenVars == <<channel, batch, reporter, reports, lost>>
vars == <<tunnelVars, shut, handlerVars, keenVars>>

Keen == INSTANCE KeenMetrics WITH Events <- Tunnels \cup Visitors

Opening == {"registered", "opened"}
Refusals == {"400", "401", "404"}

\* Those the tunnel asks for, encoded as the client of a visitor does it; their
\* text itself in place of that; others or none.
Credentials == {"right", "raw", "wrong"}

TypeOK ==
    /\ Keen!TypeOK
    /\ secured \in BOOLEAN
    /\ tunnels \subseteq Tunnels
    /\ auth \in [Tunnels -> 0..1]
    /\ life \in [Tunnels -> {"new", "told", "unlisted", "ended"} \cup Opening]
    /\ dead \in BOOLEAN
    /\ shut \in {"no", "begun", "stopping", "complete"}
    /\ hs \in [Visitors -> {"away", "reading", "lookup", "compare", "handed", "joined",
                            "report", "ended", "failed"} \cup Refusals]
    /\ sent \in [Visitors -> Credentials]
    /\ tunnel \in [Visitors -> Tunnels \cup {NoTunnel}]

Init ==
    /\ Keen!Init
    /\ secured \in BOOLEAN
    /\ tunnels = {}
    /\ auth = [t \in Tunnels |-> 0]
    /\ life = [t \in Tunnels |-> "new"]
    /\ dead = FALSE /\ shut = "no"
    /\ hs = [v \in Visitors |-> "away"]
    /\ sent = [v \in Visitors |-> "wrong"]
    /\ tunnel = [v \in Visitors |-> NoTunnel]

-----------------------------------------------------------------------------
(* The manager opens the tunnels of the request *)

ManagerIdle == \A t \in Tunnels : life[t] \notin Opening

\* NewTunnel: the URL is in the registry, the credentials are as they came.
Register(t) ==
    /\ life[t] = "new" /\ ManagerIdle
    /\ shut \in {"no", "begun"}
    /\ tunnels' = tunnels \cup {t}
    /\ life' = [life EXCEPT ![t] = "registered"]
    /\ UNCHANGED <<secured, auth, dead, shut, handlerVars, keenVars>>

\* Mutant: the tunnels of a request share one copy of it.
EncodeShared(t) ==
    /\ life[t] = "registered"
    /\ auth' = [o \in Tunnels |-> auth[t] + 1]
    /\ life' = [life EXCEPT ![t] = "opened"]
    /\ UNCHANGED <<secured, tunnels, dead, shut, handlerVars, keenVars>>

\* The credentials are encoded, in the copy of the request that belongs to
\* this tunnel, and NewTunnel returns.
Encode(t) ==
    /\ life[t] = "registered"
    /\ auth' = [auth EXCEPT ![t] = @ + 1]
    /\ life' = [life EXCEPT ![t] = "opened"]
    /\ UNCHANGED <<secured, tunnels, dead, shut, handlerVars, keenVars>>

\* The client is told its URL: a send on c.out, which only the writer receives.
Tell(t) ==
    /\ life[t] = "opened" /\ ~dead
    /\ life' = [life EXCEPT ![t] = "told"]
    /\ UNCHANGED <<secured, tunnels, auth, dead, shut, handlerVars, keenVars>>

-----------------------------------------------------------------------------
(* The stopper shuts them *)

Begin ==
    /\ shut = "no"
    /\ shut' = "begun"
    /\ UNCHANGED <<tunnelVars, handlerVars, keenVars>>

\* A write to the client fails: the writer ends and the shutdown begins.
WriterDies ==
    /\ ~dead /\ shut \in {"no", "begun"}
    /\ dead' = TRUE
    /\ shut' = "begun"
    /\ UNCHANGED <<secured, tunnels, auth, life, handlerVars, keenVars>>

\* The manager has stopped between two tunnels.
StopTunnels ==
    /\ shut = "begun" /\ ManagerIdle
    /\ shut' = "stopping"
    /\ UNCHANGED <<tunnelVars, handlerVars, keenVars>>

\* Tunnel.Shutdown: the tunnel leaves the registry;
Unlist(t) ==
    /\ shut = "stopping" /\ life[t] = "told"
    /\ \A o \in Tunnels : life[o] # "unlisted"
    /\ tunnels' = tunnels \ {t}
    /\ life' = [life EXCEPT ![t] = "unlisted"]
    /\ UNCHANGED <<secured, auth, dead, shut, handlerVars, keenVars>>

\* then its end is reported.
CloseTunnel(t) ==
    /\ life[t] = "unlisted"
    /\ Keen!Send(t)
    /\ life' = [life EXCEPT ![t] = "ended"]
    /\ UNCHANGED <<secured, tunnels, auth, dead, shut, handlerVars>>

Complete ==
    /\ shut = "stopping"
    /\ \A t \in Tunnels : life[t] \in {"new", "ended"}
    /\ shut' = "complete"
    /\ UNCHANGED <<tunnelVars, handlerVars, keenVars>>

-----------------------------------------------------------------------------
(* A visitor's handler *)

Goto(v, stage) == hs' = [hs EXCEPT ![v] = stage]

Connect(v) ==
    /\ hs[v] = "away"
    /\ Goto(v, "reading")
    /\ UNCHANGED <<tunnelVars, shut, sent, tunnel, keenVars>>

\* The head of a request is read.
ReadRequest(v) ==
    /\ hs[v] = "reading"
    /\ \E k \in Credentials : sent' = [sent EXCEPT ![v] = k]
    /\ Goto(v, "lookup")
    /\ UNCHANGED <<tunnelVars, shut, tunnel, keenVars>>

\* It is none, or has not come by the deadline: 400.
BadRequest(v) ==
    /\ hs[v] = "reading"
    /\ Goto(v, "400")
    /\ UNCHANGED <<tunnelVars, shut, sent, tunnel, keenVars>>

\* The tunnel of the host's URL, if there is one.
LookUp(v) ==
    /\ hs[v] = "lookup"
    /\ \/ \E t \in tunnels : tunnel' = [tunnel EXCEPT ![v] = t] /\ Goto(v, "compare")
       \/ Goto(v, "404") /\ UNCHANGED tunnel
    /\ UNCHANGED <<tunnelVars, shut, sent, keenVars>>

\* The request's credentials, which come encoded, match the tunnel's when those
\* have been encoded (once); until then their text does.
Matches(v) == \/ sent[v] = "right" /\ auth[tunnel[v]] = 1
              \/ sent[v] = "raw" /\ auth[tunnel[v]] = 0

\* HttpAuth is read, with no lock against NewTunnel; half a value matches nothing.
\* The request's own is not used any more.
Compare(v) ==
    /\ hs[v] = "compare"
    /\ Goto(v, IF secured /\ ~Matches(v) THEN "401" ELSE "handed")
    /\ sent' = [sent EXCEPT ![v] = "wrong"]
    /\ UNCHANGED <<tunnelVars, shut, tunnel, keenVars>>

\* HandlePublicConnection gets no proxy connection, or none that works.
GiveUp(v) ==
    /\ hs[v] = "handed"
    /\ Goto(v, "failed")
    /\ UNCHANGED <<tunnelVars, shut, sent, tunnel, keenVars>>

\* It gets one, which the Control has none of any more once it is complete.
Join(v) ==
    /\ hs[v] = "handed" /\ shut # "complete"
    /\ Goto(v, "joined")
    /\ UNCHANGED <<tunnelVars, shut, sent, tunnel, keenVars>>

JoinEnds(v) ==
    /\ hs[v] = "joined"
    /\ Goto(v, "report")
    /\ UNCHANGED <<tunnelVars, shut, sent, tunnel, keenVars>>

CloseConnection(v) ==
    /\ hs[v] = "report"
    /\ Keen!Send(v)
    /\ Goto(v, "ended")
    /\ UNCHANGED <<tunnelVars, shut, sent, tunnel>>

-----------------------------------------------------------------------------
Manager(t) == Register(t) \/ Encode(t) \/ Tell(t)
Stopper == StopTunnels \/ Complete \/ \E t \in Tunnels : Unlist(t) \/ CloseTunnel(t)
Handler(v) == LookUp(v) \/ Compare(v) \/ GiveUp(v) \/ Join(v) \/ CloseConnection(v)
KeenStep(A) == A /\ UNCHANGED <<tunnelVars, shut, handlerVars>>

Next ==
    \/ \E t \in Tunnels : Manager(t)
    \/ Begin \/ WriterDies \/ Stopper
    \/ \E v \in Visitors :
          Connect(v) \/ ReadRequest(v) \/ BadRequest(v) \/ Handler(v) \/ JoinEnds(v)
    \/ KeenStep(Keen!Next)

Spec == Init /\ [][Next]_vars

\* A handler's requests for a proxy are received, or find c.out closed.
Heard == ~dead \/ shut \in {"stopping", "complete"}

\* Goroutines that can go on do, timers fire.  A handler finds a proxy connection
\* or gives up (Control's HandlersReturn) as long as it is heard.  Visitors, and
\* the ends of what is joined, are free, and so is Keen!Post: AuthedRequest has
\* no timeout.
FairSpec ==
    /\ Spec
    /\ WF_vars(Stopper)
    /\ \A t \in Tunnels : WF_vars(Encode(t) \/ Tell(t))
    /\ \A v \in Visitors :
          /\ WF_vars(BadRequest(v))
          /\ WF_vars(LookUp(v) \/ Compare(v) \/ CloseConnection(v))
          /\ WF_vars(Heard /\ (GiveUp(v) \/ Join(v)))
    /\ WF_vars(KeenStep(Keen!Collect)) /\ WF_vars(KeenStep(Keen!Tick))

-----------------------------------------------------------------------------
(* Properties *)

\* A visitor without the credentials never gets to a tunnel that asks for some,
\* and one with them is turned away only in the time between the registration
\* of the URL (tunnel.go:166) and the encoding of the credentials (tunnel.go:177),
\* when nobody has been told the URL yet; only then is their text taken in place
\* of what it encodes to.  That is so for all tunnels of one request, whose
\* credentials come from one message.
CredentialsDecide ==
    [][\A v \in Visitors :
          /\ secured /\ hs[v] # "handed" /\ hs'[v] = "handed" =>
                \/ sent[v] = "right"
                \/ sent[v] = "raw" /\ life[tunnel[v]] = "registered"
          /\ sent[v] = "right" /\ hs[v] # "401" /\ hs'[v] = "401" =>
                life[tunnel[v]] = "registered"]_vars

\* The types; and every tunnel that was shut and every connection whose joining
\* ended is counted once, unless it is still to be counted or was lost with its
\* batch.
CountedOnce ==
    /\ TypeOK
    /\ Keen!CountsOnce({t \in Tunnels : life[t] = "ended"} \cup {v \in Visitors : hs[v] = "ended"})

\* The Control is wedged: its manager is about to tell the client of a tunnel,
\* and nobody receives that any more (module Control has the other ways).
Wedged == dead /\ \E t \in Tunnels : life[t] = "opened"

\* Everybody who reports blocks when the channel is full, the stopper in the
\* middle of a teardown for which a replacement waits.  Yet all go on, and
\* every visitor is answered or joined, unless a request to Keen.io hangs or
\* the Control is wedged; and that keeps nobody from reporting.
WaitsForKeenOrWriter ==
    []<>(reporter # "post") =>
        /\ shut = "begun" ~> shut = "complete" \/ Wedged
        /\ \A v \in Visitors :
              /\ hs[v] = "reading" ~>
                    hs[v] \in Refusals \cup {"joined", "report", "ended", "failed"} \/ Wedged
              /\ hs[v] = "report" ~> hs[v] = "ended"
=============================================================================
