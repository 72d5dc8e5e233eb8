-------------------------- MODULE PublicHttpProofs --------------------------
(***************************************************************************)
(* Proofs about PublicHttp with its KeenMetrics, for any number of         *)
(* visitors and tunnels and any capacity of the channel: what is reported  *)
(* is counted once, and credentials decide who gets to a tunnel.           *)
(***************************************************************************)
EXTENDS PublicHttp, FiniteSets, FiniteSetTheorems, TLAPS

Events == Tunnels \cup Visitors

\* What has been put on the channel so far.
Sent == {t \in Tunnels : life[t] = "ended"} \cup {v \in Visitors : hs[v] = "ended"}

Queued(e) == \E n \in DOMAIN channel : channel[n] = e

\* Nothing is on the channel twice, and what was sent is in one place: on the
\* channel, in the batch, with Keen.io, or lost.
OnePlace ==
    /\ \A m, n \in DOMAIN channel : channel[m] = channel[n] => m = n
    /\ \A e \in Events : /\ Queued(e) => e \notin batch \cup lost /\ reports[e] = 0
                         /\ e \in batch => e \notin lost /\ reports[e] = 0
                         /\ e \in lost => reports[e] = 0
                         /\ e \in Sent <=> Queued(e) \/ e \in batch \cup lost \/ reports[e] = 1

\* The credentials of a tunnel are encoded once, before NewTunnel returns.
EncodedOnce == \A t \in Tunnels : auth[t] = IF life[t] \in {"new", "registered"} THEN 0 ELSE 1

\* A handler that compares has found a tunnel that was registered.
Found ==
    /\ \A t \in tunnels : life[t] # "new"
    /\ \A v \in Visitors : hs[v] = "compare" => tunnel[v] \in Tunnels /\ life[tunnel[v]] # "new"

\* The inductive invariant.
IInv ==
    /\ TypeOK
    /\ OnePlace
    /\ EncodedOnce
    /\ Found

USE VisitorsAssumption, ChannelAssumption

-----------------------------------------------------------------------------
(* The metrics *)

\* What is in one place is counted once.
LEMMA CountedInOnePlace == TypeOK /\ OnePlace => Keen!CountsOnce(Sent)
<1> SUFFICES ASSUME TypeOK, OnePlace, NEW e \in Events
             PROVE  Keen!Places(e) = IF e \in Sent THEN 1 ELSE 0
    BY DEF Keen!CountsOnce, Events
<1> DEFINE At == {n \in DOMAIN channel : channel[n] = e}
<1>1. Cardinality(At) = IF Queued(e) THEN 1 ELSE 0
    <2>1. CASE Queued(e)
        <3>1. PICK n \in DOMAIN channel : channel[n] = e
            BY <2>1 DEF Queued
        <3>2. At = {n}
            BY <3>1 DEF OnePlace
        <3>3. QED
            BY <2>1, <3>2, FS_Singleton
    <2>2. CASE ~Queued(e)
        <3>1. At = {}
            BY <2>2 DEF Queued
        <3>2. QED
            BY <2>2, <3>1, FS_EmptySet
    <2>3. QED
        BY <2>1, <2>2
<1>2. reports[e] \in 0..1
    BY DEF TypeOK, Keen!TypeOK, Events
<1>3. Keen!Places(e) = Cardinality(At) + reports[e] + (IF e \in batch THEN 1 ELSE 0)
                                       + (IF e \in lost THEN 1 ELSE 0)
    BY DEF Keen!Places, Cardinality, Keen!Cardinality
<1> HIDE DEF At
<1>4. QED
    BY <1>1, <1>2, <1>3 DEF OnePlace

\* A send puts what was not sent before on the channel.
LEMMA SendStep ==
    ASSUME TypeOK, OnePlace, NEW e \in Events, e \notin Sent, Keen!Send(e),
           Sent' = Sent \cup {e}
    PROVE  Keen!TypeOK' /\ OnePlace'
<1> USE DEF TypeOK, Keen!TypeOK, Keen!Send, Events
<1>1. /\ channel' \in Seq(Events) /\ Len(channel') = Len(channel) + 1
      /\ channel'[Len(channel) + 1] = e
      /\ \A n \in DOMAIN channel : n \in DOMAIN channel' /\ channel'[n] = channel[n]
      /\ \A n \in DOMAIN channel' : n \in DOMAIN channel \/ n = Len(channel) + 1
    <2>1. channel \in Seq(Events) /\ e \in Events /\ channel' = Append(channel, e)
        OBVIOUS
    <2>2. channel' \in Seq(Events) /\ Len(channel') = Len(channel) + 1
        BY <2>1
    <2>3. \A n \in 1..Len(channel) + 1 :
              channel'[n] = IF n = Len(channel) + 1 THEN e ELSE channel[n]
        BY <2>1
    <2>4. Len(channel) \in Nat /\ DOMAIN channel = 1..Len(channel)
          /\ DOMAIN channel' = 1..(Len(channel) + 1)
        BY <2>1, <2>2
    <2>5. QED
        BY <2>2, <2>3, <2>4
<1>2. Keen!TypeOK'
    BY <1>1
<1>3. ~Queued(e) /\ e \notin batch \cup lost /\ reports[e] # 1
    BY DEF OnePlace
<1>4. \A d \in Events : Queued(d)' <=> Queued(d) \/ d = e
    <2> SUFFICES ASSUME NEW d \in Events PROVE Queued(d)' <=> Queued(d) \/ d = e
        OBVIOUS
    <2>1. Queued(d)' => Queued(d) \/ d = e
        BY <1>1 DEF Queued
    <2>2. Queued(d) => Queued(d)'
        BY <1>1 DEF Queued
    <2>3. Queued(e)'
        BY <1>1 DEF Queued
    <2>4. QED
        BY <2>1, <2>2, <2>3
<1>5. \A m, n \in DOMAIN channel' : channel'[m] = channel'[n] => m = n
    BY <1>1, <1>3 DEF OnePlace, Queued
<1>6. QED
    BY <1>2, <1>3, <1>4, <1>5 DEF OnePlace

\* The reporting goroutine moves what is on the channel to the batch, and the
\* batch to Keen.io or away.
LEMMA KeenKeeps ==
    ASSUME TypeOK, OnePlace, Keen!Next, Sent' = Sent
    PROVE  Keen!TypeOK' /\ OnePlace'
<1> USE DEF TypeOK, Keen!TypeOK, Events
<1>1. CASE Keen!Collect
    <2> USE <1>1 DEF Keen!Collect
    <2>1. /\ channel' \in Seq(Events) /\ Len(channel') = Len(channel) - 1
          /\ Head(channel) = channel[1] /\ 1 \in DOMAIN channel /\ channel[1] \in Events
          /\ \A n \in DOMAIN channel' : n + 1 \in DOMAIN channel /\ channel'[n] = channel[n + 1]
          /\ \A n \in DOMAIN channel : n = 1 \/ n - 1 \in DOMAIN channel'
          /\ \A n \in DOMAIN channel \cup DOMAIN channel' : n \in Nat
        OBVIOUS
    <2>2. Keen!TypeOK'
        BY <2>1
    <2>3. \A m, n \in DOMAIN channel' : channel'[m] = channel'[n] => m = n
        BY <2>1 DEF OnePlace
    <2>4. \A d \in Events : Queued(d)' <=> Queued(d) /\ d # channel[1]
        <3> SUFFICES ASSUME NEW d \in Events PROVE Queued(d)' <=> Queued(d) /\ d # channel[1]
            OBVIOUS
        <3>1. ASSUME NEW n \in DOMAIN channel', channel'[n] = d
              PROVE  Queued(d) /\ d # channel[1]
            BY <2>1, <3>1 DEF Queued, OnePlace
        <3>2. ASSUME NEW n \in DOMAIN channel, channel[n] = d, d # channel[1]
              PROVE  Queued(d)'
            <4>1. n - 1 \in DOMAIN channel' /\ channel'[n - 1] = d
                BY <2>1, <3>2
            <4>2. QED
                BY <4>1 DEF Queued
        <3>3. QED
            BY <3>1, <3>2 DEF Queued
    <2>5. Queued(channel[1])
        BY <2>1 DEF Queued
    <2>6. QED
        BY <2>1, <2>2, <2>3, <2>4, <2>5 DEF OnePlace
<1>2. CASE Keen!Tick
    BY <1>2 DEF Keen!Tick, OnePlace, Queued
<1>3. CASE Keen!Post
    <2>1. /\ \A e \in Events : e \in batch => reports[e] = 0
          /\ UNCHANGED channel /\ batch' = {} /\ reporter' = "select"
          /\ \/ /\ UNCHANGED lost
                /\ reports' = [e \in Events |-> reports[e] + IF e \in batch THEN 1 ELSE 0]
             \/ lost' = lost \cup batch /\ UNCHANGED reports
        BY <1>3 DEF Keen!Post, Keen!Received, OnePlace
    <2>2. Keen!TypeOK'
        BY <2>1
    <2>3. \A e \in Events : Queued(e)' <=> Queued(e)
        BY <2>1 DEF Queued
    <2>4. QED
        BY <2>1, <2>2, <2>3 DEF OnePlace
<1>4. QED
    BY <1>1, <1>2, <1>3 DEF Keen!Next

-----------------------------------------------------------------------------
(* The inductive invariant *)

\* The initial states satisfy it.
LEMMA InitIInv == Init => IInv
<1> SUFFICES ASSUME Init PROVE IInv
    OBVIOUS
<1> USE DEF Init, Keen!Init
<1>1. TypeOK
    <2>1. Keen!TypeOK
        BY DEF Keen!TypeOK
    <2>2. "wrong" \in Credentials
        BY DEF Credentials
    <2>3. sent \in [Visitors -> Credentials]
        BY <2>2
    <2>4. secured \in BOOLEAN /\ dead \in BOOLEAN
        OBVIOUS
    <2>5. /\ tunnels \subseteq Tunnels
          /\ auth \in [Tunnels -> 0..1]
          /\ tunnel \in [Visitors -> Tunnels \cup {NoTunnel}]
          /\ shut \in {"no", "begun", "stopping", "complete"}
          /\ life \in [Tunnels -> {"new", "told", "unlisted", "ended"} \cup Opening]
          /\ hs \in [Visitors -> {"away", "reading", "lookup", "compare", "handed", "joined",
                                  "report", "ended", "failed"} \cup Refusals]
        OBVIOUS
    <2>6. QED
        BY <2>1, <2>3, <2>4, <2>5 DEF TypeOK
<1>2. OnePlace
    BY DEF OnePlace, Queued, Sent, Events
<1>3. EncodedOnce /\ Found
    BY DEF EncodedOnce, Found
<1>4. QED
    BY <1>1, <1>2, <1>3 DEF IInv

\* Only CloseTunnel and CloseConnection, which send, and the reporting goroutine
\* touch the metrics.
LEMMA KeenInv == IInv /\ [Next]_vars => Keen!TypeOK' /\ OnePlace'
<1> SUFFICES ASSUME IInv, [Next]_vars PROVE Keen!TypeOK' /\ OnePlace'
    OBVIOUS
<1> USE DEF IInv
<1>0. CASE UNCHANGED keenVars /\ Sent' = Sent
    BY <1>0 DEF keenVars, TypeOK, Keen!TypeOK, OnePlace, Queued
<1>1. CASE UNCHANGED vars
    BY <1>1, <1>0 DEF vars, tunnelVars, handlerVars, Sent
<1>2. ASSUME NEW t \in Tunnels, Manager(t) \/ Unlist(t) PROVE Keen!TypeOK' /\ OnePlace'
    <2>1. Sent' = Sent /\ UNCHANGED keenVars
        BY <1>2 DEF Manager, Register, Encode, Tell, Unlist, TypeOK, Opening, handlerVars, Sent
    <2>2. QED
        BY <2>1, <1>0
<1>3. CASE Begin \/ WriterDies \/ StopTunnels \/ Complete
    BY <1>3, <1>0 DEF Begin, WriterDies, StopTunnels, Complete, tunnelVars, handlerVars, Sent
<1>4. ASSUME NEW t \in Tunnels, CloseTunnel(t) PROVE Keen!TypeOK' /\ OnePlace'
    <2>1. t \in Events /\ t \notin Sent /\ Sent' = Sent \cup {t} /\ Keen!Send(t)
        BY <1>4 DEF CloseTunnel, TypeOK, handlerVars, Sent, Events
    <2>2. QED
        BY <2>1, SendStep
<1>5. ASSUME NEW v \in Visitors, CloseConnection(v) PROVE Keen!TypeOK' /\ OnePlace'
    <2>1. v \in Events /\ v \notin Sent /\ Sent' = Sent \cup {v} /\ Keen!Send(v)
        BY <1>5 DEF CloseConnection, Goto, TypeOK, tunnelVars, Sent, Events
    <2>2. QED
        BY <2>1, SendStep
<1>6. ASSUME NEW v \in Visitors, \/ Connect(v) \/ ReadRequest(v) \/ BadRequest(v) \/ LookUp(v)
                                  \/ Compare(v) \/ GiveUp(v) \/ Join(v) \/ JoinEnds(v)
      PROVE  Keen!TypeOK' /\ OnePlace'
    <2>1. Sent' = Sent /\ UNCHANGED keenVars
        <3>1. UNCHANGED <<life, keenVars>>
            BY <1>6 DEF Connect, ReadRequest, BadRequest, LookUp, Compare, GiveUp, Join, JoinEnds,
                        tunnelVars
        <3>2. \A w \in Visitors : hs'[w] = "ended" <=> hs[w] = "ended"
            BY <1>6 DEF Connect, ReadRequest, BadRequest, LookUp, Compare, GiveUp, Join, JoinEnds,
                        Goto, TypeOK
        <3>3. QED
            BY <3>1, <3>2 DEF Sent
    <2>2. QED
        BY <2>1, <1>0
<1>7. CASE KeenStep(Keen!Next)
    BY <1>7, KeenKeeps DEF KeenStep, tunnelVars, handlerVars, Sent
<1>8. QED
    BY <1>1, <1>2, <1>3, <1>4, <1>5, <1>6, <1>7 DEF Next, Stopper, Handler

\* The handlers keep what is known of them and of the tunnels.
LEMMA HandlerStep ==
    ASSUME IInv, Keen!TypeOK',
           NEW v \in Visitors,
           Connect(v) \/ ReadRequest(v) \/ BadRequest(v) \/ Handler(v) \/ JoinEnds(v)
    PROVE  TypeOK' /\ EncodedOnce' /\ Found'
<1> USE DEF IInv, TypeOK, Goto, tunnelVars
<1>1. UNCHANGED <<tunnelVars, shut>>
    BY DEF Connect, ReadRequest, BadRequest, Handler, LookUp, Compare, GiveUp, Join, JoinEnds,
           CloseConnection
<1>2. sent' \in [Visitors -> Credentials]
    BY DEF Connect, ReadRequest, BadRequest, Handler, LookUp, Compare, GiveUp, Join, JoinEnds,
           CloseConnection, Credentials
<1>3. hs' \in [Visitors -> {"away", "reading", "lookup", "compare", "handed", "joined",
                            "report", "ended", "failed"} \cup Refusals]
    BY DEF Connect, ReadRequest, BadRequest, Handler, LookUp, Compare, GiveUp, Join, JoinEnds,
           CloseConnection, Refusals
<1>4. tunnel' \in [Visitors -> Tunnels \cup {NoTunnel}]
    BY DEF Connect, ReadRequest, BadRequest, Handler, LookUp, Compare, GiveUp, Join, JoinEnds,
           CloseConnection
<1>5. EncodedOnce'
    BY <1>1 DEF EncodedOnce
<1>6. Found'
    BY <1>1 DEF Found, Connect, ReadRequest, BadRequest, Handler, LookUp, Compare, GiveUp, Join,
           JoinEnds, CloseConnection
<1>7. QED
    BY <1>1, <1>2, <1>3, <1>4, <1>5, <1>6

\* So do the manager and the stopper.
LEMMA TunnelStep ==
    ASSUME IInv, Keen!TypeOK', NEW t \in Tunnels, Manager(t) \/ Unlist(t) \/ CloseTunnel(t)
    PROVE  TypeOK' /\ EncodedOnce' /\ Found'
<1> USE DEF IInv, TypeOK, handlerVars, Opening
<1>1. CASE Register(t)
    BY <1>1 DEF Register, EncodedOnce, Found
<1>2. CASE Encode(t)
    <2>1. auth[t] = 0 /\ life[t] = "registered"
        BY <1>2 DEF Encode, EncodedOnce
    <2>2. auth' = [auth EXCEPT ![t] = 1]
        BY <1>2, <2>1 DEF Encode
    <2>3. TypeOK'
        BY <1>2, <2>2 DEF Encode
    <2>4. EncodedOnce' /\ Found'
        BY <1>2, <2>2 DEF Encode, EncodedOnce, Found
    <2>5. QED
        BY <2>3, <2>4
<1>3. CASE Tell(t)
    BY <1>3 DEF Tell, EncodedOnce, Found
<1>4. CASE Unlist(t)
    BY <1>4 DEF Unlist, EncodedOnce, Found
<1>5. CASE CloseTunnel(t)
    BY <1>5 DEF CloseTunnel, EncodedOnce, Found
<1>6. QED
    BY <1>1, <1>2, <1>3, <1>4, <1>5 DEF Manager

\* The inductive invariant holds in every reachable state.
LEMMA PublicHttpInvariant == Spec => []IInv
<1>1. IInv /\ [Next]_vars => IInv'
    <2> SUFFICES ASSUME IInv, [Next]_vars PROVE IInv'
        OBVIOUS
    <2>1. Keen!TypeOK' /\ OnePlace'
        BY KeenInv
    <2>2. TypeOK' /\ EncodedOnce' /\ Found'
        <3>1. CASE UNCHANGED <<tunnelVars, handlerVars>> /\ shut' \in {"no", "begun", "stopping", "complete"}
            BY <3>1, <2>1 DEF IInv, TypeOK, EncodedOnce, Found, tunnelVars, handlerVars
        <3>2. CASE UNCHANGED vars
            BY <3>1, <3>2 DEF vars, IInv, TypeOK
        <3>3. CASE WriterDies
            BY <3>3, <2>1 DEF WriterDies, handlerVars, IInv, TypeOK, EncodedOnce, Found
        <3>4. CASE Begin \/ StopTunnels \/ Complete \/ KeenStep(Keen!Next)
            BY <3>1, <3>4 DEF Begin, StopTunnels, Complete, KeenStep, IInv, TypeOK
        <3>5. CASE \E t \in Tunnels : Manager(t) \/ Unlist(t) \/ CloseTunnel(t)
            BY <3>5, <2>1, TunnelStep
        <3>6. CASE \E v \in Visitors :
                      Connect(v) \/ ReadRequest(v) \/ BadRequest(v) \/ Handler(v) \/ JoinEnds(v)
            BY <3>6, <2>1, HandlerStep
        <3>7. QED
            BY <3>2, <3>3, <3>4, <3>5, <3>6 DEF Next, Stopper
    <2>3. QED
        BY <2>1, <2>2 DEF IInv
<1>2. QED
    BY <1>1, InitIInv, PTL DEF Spec

-----------------------------------------------------------------------------
(* Theorems *)

\* Every tunnel that was shut and every connection whose joining ended is on its
\* way to Keen.io once, or was counted there once, or was lost with its batch.
THEOREM EventsAreCountedOnce == Spec => []CountedOnce
<1>1. IInv => CountedOnce
    BY CountedInOnePlace DEF IInv, CountedOnce, Sent
<1>2. QED
    BY <1>1, PublicHttpInvariant, PTL

\* Nobody without the credentials gets to a tunnel that asks for some, except
\* with their text while they are not yet encoded, and nobody with them is turned
\* away from a tunnel that its client knows of.
THEOREM OnlyCredentialsDecide == Spec => CredentialsDecide
<1> DEFINE Decide ==
        \A v \in Visitors :
            /\ secured /\ hs[v] # "handed" /\ hs'[v] = "handed" =>
                  \/ sent[v] = "right"
                  \/ sent[v] = "raw" /\ life[tunnel[v]] = "registered"
            /\ sent[v] = "right" /\ hs[v] # "401" /\ hs'[v] = "401" =>
                  life[tunnel[v]] = "registered"
<1>1. ASSUME IInv, [Next]_vars PROVE Decide
    <2> SUFFICES ASSUME NEW v \in Visitors, hs'[v] # hs[v], hs'[v] \in {"handed", "401"}
                 PROVE  /\ secured /\ hs'[v] = "handed" =>
                              \/ sent[v] = "right"
                              \/ sent[v] = "raw" /\ life[tunnel[v]] = "registered"
                        /\ sent[v] = "right" /\ hs'[v] = "401" => life[tunnel[v]] = "registered"
        OBVIOUS
    <2>1. PICK w \in Visitors :
              Connect(w) \/ ReadRequest(w) \/ BadRequest(w) \/ Handler(w) \/ JoinEnds(w)
        BY <1>1 DEF Next, vars, handlerVars, Manager, Register, Encode, Tell, Begin, WriterDies,
                    Stopper, StopTunnels, Complete, Unlist, CloseTunnel, KeenStep
    <2>2. Compare(v)
        BY <1>1, <2>1 DEF IInv, TypeOK, Connect, ReadRequest, BadRequest, Handler, LookUp, Compare,
                          GiveUp, Join, JoinEnds, CloseConnection, Goto
    <2>3. /\ hs'[v] = IF secured /\ ~Matches(v) THEN "401" ELSE "handed"
          /\ tunnel[v] \in Tunnels /\ life[tunnel[v]] # "new"
        BY <1>1, <2>2 DEF IInv, TypeOK, Compare, Goto, Found
    <2>4. QED
        BY <1>1, <2>3 DEF IInv, EncodedOnce, Matches
<1>2. QED
    BY <1>1, PublicHttpInvariant, PTL DEF Spec, CredentialsDecide
=============================================================================
