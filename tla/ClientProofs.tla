---------------------------- MODULE ClientProofs ----------------------------
(***************************************************************************)
(* Proofs about the parts of the client that meet nowhere and therefore    *)
(* share no names: the inspection of HTTP traffic, the Controller with the *)
(* terminal view, and the configuration.  Each part has an invariant of    *)
(* its own, and its theorems are at the end of the part.                   *)
(***************************************************************************)
EXTENDS HttpInspection, ClientViews, ClientConfig, FiniteSetTheorems, SequenceTheorems, TLAPS

-----------------------------------------------------------------------------
(***************************************************************************)
(* The inspection of HTTP traffic.                                         *)
(***************************************************************************)

\* The views are registered in the order in which they are started, and an item
\* is sent to the one and then to the other.
Item(view, t) == <<view, t>>
Sending(t) == {<<Item("term", t)>>, <<Item("web", t)>>, <<Item("term", t), Item("web", t)>>}

InTurn ==
    /\ tl = IF web = "reg" THEN <<"term">> ELSE <<"term", "web">>
    /\ tp # <<>> => \E t \in Txns : tp \in Sending(t)

\* A reader has a transaction exactly while it is working on one.
Holding ==
    \A k \in Conns :
        /\ rqTxn[k] \in IF rq[k] \in {"lastTxn", "txns"} THEN Txns ELSE {NoTxn}
        /\ rsTxn[k] \in IF rs[k] \in {"read", "body", "txns"} THEN Txns ELSE {NoTxn}

\* Each request is a transaction of its own.
OwnTxn ==
    \A j, k \in Conns : rqTxn[k] # NoTxn /\ rqTxn[j] = rqTxn[k] => j = k

\* What readResponses broadcasts has its response.
HasResponse == \A k \in Conns : rs[k] = "txns" => rsTxn[k] \in resp

\* readRequests will broadcast t, or the broadcast has it for the view.
Coming(t) == \E k \in Conns : rqTxn[k] = t
Pending(view, t) == \E n \in DOMAIN tp : tp[n] = Item(view, t)

\* A transaction without a response comes to each view once, as a request.
ComesOnce ==
    \A t \in Txns \ resp :
        /\ Pending("term", t) \/ Pending("web", t) => ~Coming(t)
        /\ t \in user => ~Coming(t) /\ ~Pending("web", t)
        /\ t \in listed => ~Coming(t) /\ ~Pending("term", t)

\* While readRequests broadcasts a request, readResponses has the same or none.
\* So whoever's transaction is being sent holds at most one besides it.
Together ==
    /\ \A k \in Conns : rq[k] = "txns" => rsTxn[k] \in {rqTxn[k], NoTxn}
    /\ \A t \in Txns : tp \in Sending(t) =>
          \E b \in Conns : rsTxn[b] \in {t, NoTxn, rqTxn[b]}

Core == InTurn /\ Holding /\ OwnTxn /\ HasResponse /\ ComesOnce /\ Together

Readers ==
    /\ rq \in [Conns -> {"read", "body", "lastTxn", "txns", "done"}]
    /\ rs \in [Conns -> {"range", "read", "body", "txns", "drain", "done"}]
    /\ rqTxn \in [Conns -> Txns \cup {NoTxn}] /\ rsTxn \in [Conns -> Txns \cup {NoTxn}]
    /\ resp \subseteq Txns /\ user \subseteq Txns /\ upgr \subseteq Txns /\ listed \subseteq Txns

-----------------------------------------------------------------------------
(* There are transactions enough *)

\* All but one of the connections give one transaction, and all of them
\* another: that does not make as many as there are.
LEMMA TooFew ==
    ASSUME NEW k \in Conns, NEW f, NEW g,
           \A t \in Txns : (\E j \in Conns \ {k} : f[j] = t) \/ (\E j \in Conns : g[j] = t)
    PROVE  FALSE
<1> DEFINE Others == Conns \ {k}
           Fs == {f[j] : j \in Others}
           Gs == {g[j] : j \in Conns}
           N == Cardinality(Conns)
<1>1. IsFiniteSet(Conns) /\ IsFiniteSet(Txns) /\ Cardinality(Txns) >= 2 * N /\ N \in Nat
    BY TxnsAssumption, FS_CardinalityType
<1>2. IsFiniteSet(Others) /\ Cardinality(Others) = N - 1
    BY <1>1, FS_RemoveElement
<1>3. [j \in Others |-> f[j]] \in Surjection(Others, Fs)
    BY DEF Surjection
<1>4. [j \in Conns |-> g[j]] \in Surjection(Conns, Gs)
    BY DEF Surjection
<1> HIDE DEF Others, Fs, Gs, N
<1>5. IsFiniteSet(Fs) /\ Cardinality(Fs) <= N - 1
    BY <1>2, <1>3, FS_Surjection
<1>6. IsFiniteSet(Gs) /\ Cardinality(Gs) <= N
    BY <1>1, <1>4, FS_Surjection DEF N
<1>7. /\ IsFiniteSet(Fs \cup Gs)
      /\ Cardinality(Fs \cup Gs) = Cardinality(Fs) + Cardinality(Gs) - Cardinality(Fs \cap Gs)
    BY <1>5, <1>6, FS_Union
<1>8. Cardinality(Fs) \in Nat /\ Cardinality(Gs) \in Nat /\ Cardinality(Fs \cap Gs) \in Nat
    BY <1>5, <1>6, FS_CardinalityType, FS_Intersection
<1>9. Txns \subseteq Fs \cup Gs
    BY DEF Fs, Gs, Others
<1>10. Cardinality(Txns) <= Cardinality(Fs \cup Gs)
    BY <1>7, <1>9, FS_Subset
<1>11. Cardinality(Txns) \in Nat
    BY <1>1, FS_CardinalityType
<1> QED
    BY <1>1, <1>5, <1>6, <1>7, <1>8, <1>10, <1>11

\* What is being sent.
LEMMA Sent ==
    ASSUME NEW t, NEW q, q \in Sending(t)
    PROVE  /\ q # <<>> /\ Head(q) \in {Item("term", t), Item("web", t)}
           /\ \A n \in DOMAIN q : q[n] \in {Item("term", t), Item("web", t)} /\ q[n][2] = t
           /\ 1 \in DOMAIN q /\ q[1] = Head(q)
           /\ \/ Tail(q) = <<>>
              \/ /\ Head(q) = Item("term", t) /\ Tail(q) = <<Item("web", t)>>
                 /\ \E n \in DOMAIN q : q[n] = Item("web", t)
<1>1. CASE q = <<Item("term", t)>>
    BY <1>1 DEF Item
<1>2. CASE q = <<Item("web", t)>>
    BY <1>2 DEF Item
<1>3. CASE q = <<Item("term", t), Item("web", t)>>
    <2>1. q[2] = Item("web", t) /\ 2 \in DOMAIN q
        BY <1>3 DEF Item
    <2> QED
        BY <1>3, <2>1 DEF Item
<1> QED
    BY <1>1, <1>2, <1>3 DEF Sending

\* The bound on Txns is in nobody's way.
LEMMA EnoughTxns ==
    ASSUME InTurn, Holding, Together
    PROVE  TxnsSuffice
<1> SUFFICES ASSUME NEW k \in Conns, rq[k] \in {"read", "body"}, \A t \in Txns : Used(t)
             PROVE  FALSE
    BY DEF TxnsSuffice
<1>1. rqTxn[k] = NoTxn /\ NoTxn \notin Txns
    BY TxnsAssumption DEF Holding
<1>2. CASE tp = <<>>
    <2>1. \A t \in Txns : \E j \in Conns : t \in {rqTxn[j], rsTxn[j]}
        BY <1>2 DEF Used
    <2>2. \A t \in Txns : (\E j \in Conns \ {k} : rqTxn[j] = t) \/ (\E j \in Conns : rsTxn[j] = t)
        BY <1>1, <2>1
    <2> QED
        BY <2>2, TooFew
<1>3. CASE tp # <<>>
    <2>1. PICK s \in Txns : tp \in Sending(s)
        BY <1>3 DEF InTurn
    <2>2. PICK b \in Conns : rsTxn[b] \in {s, NoTxn, rqTxn[b]}
        BY <2>1 DEF Together
    <2> DEFINE g == [j \in Conns |-> IF j = b THEN s ELSE rsTxn[j]]
    <2>3. \A t \in Txns : t = s \/ \E j \in Conns : t \in {rqTxn[j], rsTxn[j]}
        BY <2>1, Sent DEF Used
    <2>4. ASSUME NEW t \in Txns
          PROVE  (\E j \in Conns \ {k} : rqTxn[j] = t) \/ (\E j \in Conns : g[j] = t)
        <3>1. CASE t = s
            BY <3>1
        <3>2. ASSUME NEW j \in Conns, t \in {rqTxn[j], rsTxn[j]}
              PROVE  (\E i \in Conns \ {k} : rqTxn[i] = t) \/ (\E i \in Conns : g[i] = t)
            <4>1. CASE t = rqTxn[j]
                BY <1>1, <4>1
            <4>2. CASE t = rsTxn[j] /\ j # b
                BY <4>2
            <4>3. CASE t = rsTxn[j] /\ j = b
                BY <1>1, <2>2, <3>1, <4>3
            <4> QED
                BY <3>2, <4>1, <4>2, <4>3
        <3> QED
            BY <2>3, <3>1, <3>2
    <2> HIDE DEF g
    <2> QED
        BY <2>4, TooFew
<1> QED
    BY <1>2, <1>3

-----------------------------------------------------------------------------
(* The readers' steps *)

\* An item is taken.
LEMMA Taken ==
    ASSUME InTurn, NEW t, Bcast!In(t)
    PROVE  /\ tl' = tl /\ tp = <<>> /\ tp' \in Sending(t)
           /\ \A view, s : ~Pending(view, s) /\ (Pending(view, s)' => s = t)
<1>1. /\ tp = <<>> /\ tl' = tl /\ tl \in {<<"term">>, <<"term", "web">>}
      /\ tp' = [n \in DOMAIN tl |-> <<tl[n], t>>]
    BY DEF Bcast!In, Bcast!Idle, InTurn
<1>2. tp' \in Sending(t)
    <2>1. CASE tl = <<"term">>
        BY <1>1, <2>1 DEF Sending, Item
    <2>2. CASE tl = <<"term", "web">>
        <3>1. tp' = <<Item("term", t), Item("web", t)>>
            BY <1>1, <2>2 DEF Item
        <3> QED
            BY <3>1 DEF Sending
    <2> QED
        BY <1>1, <2>1, <2>2
<1>3. \A view, s : ~Pending(view, s)
    BY <1>1 DEF Pending
<1>4. ASSUME NEW view, NEW s, Pending(view, s)' PROVE s = t
    <2>1. PICK n \in DOMAIN tp' : tp'[n] = Item(view, s)
        BY <1>4 DEF Pending
    <2>2. tp'[n][2] = t
        BY <1>2, <2>1, Sent
    <2> QED
        BY <2>1, <2>2 DEF Item
<1> QED
    BY <1>1, <1>2, <1>3, <1>4

\* readRequests begins a transaction.
LEMMA TxnBegins ==
    ASSUME Readers, Core, NEW k \in Conns, rq[k] \in {"read", "body"}, NEW chunk, NewTxn(k, chunk),
           rq' = [rq EXCEPT ![k] = "lastTxn"], UNCHANGED <<rs, rsTxn, tl, tp, web>>
    PROVE  Readers' /\ Core'
<1> DEFINE t == CHOOSE x \in Txns : ~Used(x)
<1>1. t \in Txns /\ ~Used(t)
    <2>1. \E x \in Txns : ~Used(x)
        BY EnoughTxns DEF Core, TxnsSuffice
    <2> QED
        BY <2>1
<1>2. /\ rqTxn' = [rqTxn EXCEPT ![k] = t]
      /\ resp' = resp \ {t} /\ user' = user \ {t} /\ listed' = listed \ {t}
      /\ upgr' \subseteq upgr \cup {t}
    BY DEF NewTxn
<1> HIDE DEF t
<1>3. /\ \A j \in Conns : rqTxn'[j] = IF j = k THEN t ELSE rqTxn[j]
      /\ \A j \in Conns : rq'[j] = IF j = k THEN "lastTxn" ELSE rq[j]
    BY <1>2 DEF Readers
<1>4. /\ \A j \in Conns : rqTxn[j] # t /\ rsTxn[j] # t
      /\ tp \notin Sending(t) /\ \A view : ~Pending(view, t)
    <2>1. \A j \in Conns : rqTxn[j] # t /\ rsTxn[j] # t
        BY <1>1 DEF Used
    <2>2. \A n \in DOMAIN tp : tp[n][2] # t
        BY <1>1 DEF Used
    <2>3. tp \notin Sending(t)
        BY <2>2, Sent
    <2>4. \A view : ~Pending(view, t)
        BY <2>2 DEF Pending, Item
    <2> QED
        BY <2>1, <2>3, <2>4
<1>5. Readers'
    BY <1>1, <1>2 DEF Readers
<1>6. InTurn' /\ Holding'
    <2>1. InTurn'
        BY DEF Core, InTurn, Sending
    <2>2. Holding'
        BY <1>1, <1>3 DEF Core, Holding
    <2> QED
        BY <2>1, <2>2
<1>7. OwnTxn'
    BY <1>1, <1>3, <1>4 DEF Core, OwnTxn
<1>8. HasResponse'
    BY <1>2, <1>4 DEF Core, HasResponse
<1>9. ComesOnce'
    <2> SUFFICES ASSUME NEW s \in Txns \ resp'
                 PROVE  /\ Pending("term", s) \/ Pending("web", s) => ~Coming(s)'
                        /\ s \in user' => ~Coming(s)' /\ ~Pending("web", s)
                        /\ s \in listed' => ~Coming(s)' /\ ~Pending("term", s)
        BY DEF ComesOnce, Pending
    <2>1. CASE s = t
        BY <1>2, <1>4, <2>1
    <2>2. CASE s # t
        <3>1. s \in Txns \ resp
            BY <1>2, <2>2
        <3>2. Coming(s)' => Coming(s)
            BY <1>3, <2>2 DEF Coming
        <3> QED
            BY <1>2, <3>1, <3>2 DEF Core, ComesOnce
    <2> QED
        BY <2>1, <2>2
<1>10. Together'
    <2>1. \A j \in Conns : rq'[j] = "txns" => rsTxn'[j] \in {rqTxn'[j], NoTxn}
        BY <1>3 DEF Core, Together
    <2>2. ASSUME NEW s \in Txns, tp' \in Sending(s)
          PROVE  \E b \in Conns : rsTxn'[b] \in {s, NoTxn, rqTxn'[b]}
        <3>1. PICK b \in Conns : rsTxn[b] \in {s, NoTxn, rqTxn[b]}
            BY <2>2 DEF Core, Together
        <3>2. rqTxn[k] = NoTxn
            BY DEF Core, Holding
        <3> QED
            BY <1>3, <3>1, <3>2
    <2> QED
        BY <2>1, <2>2 DEF Together, Sending
<1> QED
    BY <1>5, <1>6, <1>7, <1>8, <1>9, <1>10 DEF Core

\* readResponses goes on, perhaps with a response to what it has, or without it.
LEMMA ResponseGoesOn ==
    ASSUME Readers, Core, NEW k \in Conns,
           NEW x \in {"range", "read", "body", "txns", "drain", "done"}, NEW y,
           rs' = [rs EXCEPT ![k] = x], rsTxn' = [rsTxn EXCEPT ![k] = y],
           y \in {rsTxn[k], NoTxn}, y \in IF x \in {"read", "body", "txns"} THEN Txns ELSE {NoTxn},
           resp' = resp \/ (rsTxn[k] \in Txns /\ resp' = resp \cup {rsTxn[k]}),
           x = "txns" => y \in resp',
           UNCHANGED <<rq, rqTxn, user, upgr, listed, tl, tp, web>>
    PROVE  Readers' /\ Core'
<1>1. /\ \A j \in Conns : rs'[j] = IF j = k THEN x ELSE rs[j]
      /\ \A j \in Conns : rsTxn'[j] = IF j = k THEN y ELSE rsTxn[j]
    BY DEF Readers
<1>2. Readers'
    BY DEF Readers
<1>3. InTurn' /\ Holding' /\ OwnTxn'
    <2>1. InTurn' /\ OwnTxn'
        BY DEF Core, InTurn, OwnTxn, Sending
    <2>2. Holding'
        BY <1>1 DEF Core, Holding
    <2> QED
        BY <2>1, <2>2
<1>4. HasResponse'
    BY <1>1 DEF Core, HasResponse
<1>5. ComesOnce'
    <2>1. \A t \in Txns \ resp' : t \in Txns \ resp
        OBVIOUS
    <2> QED
        BY <2>1 DEF Core, ComesOnce, Pending, Coming
<1>6. Together'
    <2>1. \A j \in Conns : rq'[j] = "txns" => rsTxn'[j] \in {rqTxn'[j], NoTxn}
        BY <1>1 DEF Core, Together
    <2>2. ASSUME NEW s \in Txns, tp' \in Sending(s)
          PROVE  \E b \in Conns : rsTxn'[b] \in {s, NoTxn, rqTxn'[b]}
        <3>1. PICK b \in Conns : rsTxn[b] \in {s, NoTxn, rqTxn[b]}
            BY <2>2 DEF Core, Together
        <3> QED
            BY <1>1, <3>1
    <2> QED
        BY <2>1, <2>2 DEF Together, Sending
<1> QED
    BY <1>2, <1>3, <1>4, <1>5, <1>6 DEF Core

LEMMA ResponseRead ==
    ASSUME Readers, Core, NEW k \in Conns, ReadResponse(k) \/ ReadResponseBody(k) \/ ResponsesEnd(k)
    PROVE  Readers' /\ Core'
<1>1. rsTxn = [rsTxn EXCEPT ![k] = rsTxn[k]]
    BY DEF Readers
<1>2. UNCHANGED <<rq, rqTxn, user, upgr, listed, tl, tp, web>>
    BY DEF ReadResponse, ReadResponseBody, ResponsesEnd, rqVars, txnVars, viewVars, txnsVars
<1>3. CASE ReadResponse(k)
    <2>1. rs[k] = "read" /\ rsTxn[k] \in Txns
        BY <1>3 DEF ReadResponse, Core, Holding
    <2>2. CASE Complete(rPipe[k])
        BY <1>1, <1>2, <1>3, <2>1, <2>2, ResponseGoesOn DEF ReadResponse, Complete
    <2>3. CASE rPipe[k] = "head"
        BY <1>1, <1>2, <1>3, <2>1, <2>3, ResponseGoesOn DEF ReadResponse, Complete
    <2>4. CASE rPipe[k] \in {"rest", "junk", "frame", "closed"}
        BY <1>1, <1>2, <1>3, <2>1, <2>4, ResponseGoesOn DEF ReadResponse, Complete
    <2> QED
        BY <1>3, <2>2, <2>3, <2>4 DEF ReadResponse
<1>4. CASE ReadResponseBody(k)
    <2>1. rsTxn[k] \in Txns
        BY <1>4 DEF ReadResponseBody, Core, Holding
    <2>2. rs' = [rs EXCEPT ![k] = "txns"] /\ rsTxn' = rsTxn /\ resp' = resp \cup {rsTxn[k]}
        BY <1>4 DEF ReadResponseBody
    <2> QED
        BY <1>1, <1>2, <2>1, <2>2, ResponseGoesOn
<1>5. CASE ResponsesEnd(k)
    <2>1. rs[k] \in {"range", "drain"} /\ rsTxn[k] = NoTxn
        BY <1>5 DEF ResponsesEnd, Core, Holding
    <2>2. rs' = [rs EXCEPT ![k] = "done"] /\ rsTxn' = rsTxn /\ resp' = resp
        BY <1>5 DEF ResponsesEnd, txnVars
    <2> QED
        BY <1>1, <1>2, <2>1, <2>2, ResponseGoesOn
<1> QED
    BY <1>3, <1>4, <1>5

LEMMA TxnHanded ==
    ASSUME Readers, Core, NEW k \in Conns, HandTxn(k)
    PROVE  Readers' /\ Core'
<1>1. /\ rq[k] = "lastTxn" /\ rs[k] = "range"
      /\ rq' = [rq EXCEPT ![k] = "txns"] /\ rs' = [rs EXCEPT ![k] = "read"]
      /\ rsTxn' = [rsTxn EXCEPT ![k] = rqTxn[k]]
      /\ UNCHANGED <<rqTxn, resp, user, upgr, listed, tl, tp, web>>
    BY DEF HandTxn, txnVars, viewVars, txnsVars
<1>2. /\ \A j \in Conns : rq'[j] = IF j = k THEN "txns" ELSE rq[j]
      /\ \A j \in Conns : rs'[j] = IF j = k THEN "read" ELSE rs[j]
      /\ \A j \in Conns : rsTxn'[j] = IF j = k THEN rqTxn[k] ELSE rsTxn[j]
    BY <1>1 DEF Readers
<1>3. Readers'
    BY <1>1 DEF Readers
<1>4. InTurn' /\ Holding' /\ OwnTxn' /\ HasResponse' /\ ComesOnce'
    <2>1. InTurn' /\ OwnTxn' /\ ComesOnce'
        BY <1>1 DEF Core, InTurn, OwnTxn, Sending, ComesOnce, Pending, Coming
    <2>2. Holding' /\ HasResponse'
        BY <1>1, <1>2 DEF Core, Holding, HasResponse
    <2> QED
        BY <2>1, <2>2
<1>5. Together'
    <2>1. \A j \in Conns : rq'[j] = "txns" => rsTxn'[j] \in {rqTxn'[j], NoTxn}
        BY <1>1, <1>2 DEF Core, Together
    <2>2. ASSUME NEW s \in Txns, tp' \in Sending(s)
          PROVE  \E b \in Conns : rsTxn'[b] \in {s, NoTxn, rqTxn'[b]}
        <3>1. PICK b \in Conns : rsTxn[b] \in {s, NoTxn, rqTxn[b]}
            BY <1>1, <2>2 DEF Core, Together
        <3> QED
            BY <1>1, <1>2, <3>1
    <2> QED
        BY <2>1, <2>2 DEF Together, Sending
<1> QED
    BY <1>3, <1>4, <1>5 DEF Core

\* A request is handed to the broadcast: it does not come again.
LEMMA RequestBroadcast ==
    ASSUME Readers, Core, NEW k \in Conns, BroadcastRequest(k)
    PROVE  Readers' /\ Core'
<1>0. PICK t \in Txns : t = rqTxn[k] /\ t # NoTxn
    BY TxnsAssumption DEF BroadcastRequest, Core, Holding
<1>1. /\ rq[k] = "txns" /\ Bcast!In(t)
      /\ rq' = [rq EXCEPT ![k] = "read"] /\ rqTxn' = [rqTxn EXCEPT ![k] = NoTxn]
      /\ UNCHANGED <<rs, rsTxn, resp, user, upgr, listed, web>>
    BY <1>0 DEF BroadcastRequest, rsVars, txnVars
<1>3. /\ tl' = tl /\ tp = <<>> /\ tp' \in Sending(t)
      /\ \A view, s : ~Pending(view, s) /\ (Pending(view, s)' => s = t)
    BY <1>1, Taken DEF Core
<1>4. /\ \A j \in Conns : rq'[j] = IF j = k THEN "read" ELSE rq[j]
      /\ \A j \in Conns : rqTxn'[j] = IF j = k THEN NoTxn ELSE rqTxn[j]
    BY <1>1 DEF Readers
<1>5. Readers'
    BY <1>1 DEF Readers
<1>6. InTurn' /\ Holding' /\ OwnTxn' /\ HasResponse'
    <2>1. InTurn'
        BY <1>1, <1>0, <1>3 DEF Core, InTurn, Sending
    <2>2. Holding' /\ HasResponse'
        BY <1>1, <1>4 DEF Core, Holding, HasResponse
    <2>3. OwnTxn'
        BY <1>4 DEF Core, OwnTxn
    <2> QED
        BY <2>1, <2>2, <2>3
<1>7. ComesOnce'
    <2>1. ~Coming(t)'
        <3>1. \A j \in Conns : j # k => rqTxn[j] # t
            BY <1>0 DEF Core, OwnTxn
        <3> QED
            BY <1>0, <1>4, <3>1 DEF Coming
    <2>2. \A s \in Txns : Coming(s)' => Coming(s)
        BY <1>4, TxnsAssumption DEF Coming
    <2>3. Coming(t)
        BY <1>0 DEF Coming
    <2>4. ASSUME NEW s \in Txns \ resp'
          PROVE  /\ Pending("term", s)' \/ Pending("web", s)' => ~Coming(s)'
                 /\ s \in user' => ~Coming(s)' /\ ~Pending("web", s)'
                 /\ s \in listed' => ~Coming(s)' /\ ~Pending("term", s)'
        <3>1. s \in user \/ s \in listed => ~Coming(s)
            BY <1>1 DEF Core, ComesOnce
        <3>2. CASE s = t
            BY <1>1, <2>1, <2>3, <3>1, <3>2
        <3>3. CASE s # t
            <4>1. ~Pending("term", s)' /\ ~Pending("web", s)'
                BY <1>3, <3>3
            <4> QED
                BY <1>1, <2>2, <3>1, <4>1
        <3> QED
            BY <3>2, <3>3
    <2> QED
        BY <2>4 DEF ComesOnce
<1>8. Together'
    <2>1. \A j \in Conns : rq'[j] = "txns" => rsTxn'[j] \in {rqTxn'[j], NoTxn}
        BY <1>1, <1>4 DEF Core, Together
    <2>2. rsTxn'[k] \in {t, NoTxn}
        BY <1>0, <1>1 DEF Core, Together
    <2>3. ASSUME NEW s \in Txns, tp' \in Sending(s) PROVE s = t
        BY <1>3, <2>3, Sent
    <2> QED
        BY <2>1, <2>2, <2>3 DEF Together, Sending
<1> QED
    BY <1>5, <1>6, <1>7, <1>8 DEF Core

LEMMA ResponseBroadcast ==
    ASSUME Readers, Core, NEW k \in Conns, BroadcastResponse(k)
    PROVE  Readers' /\ Core'
<1> DEFINE t == rsTxn[k]
<1>1. /\ rs[k] = "txns" /\ Bcast!In(t)
      /\ rsTxn' = [rsTxn EXCEPT ![k] = NoTxn]
      /\ UNCHANGED <<rq, rqTxn, resp, user, upgr, listed, web>>
    BY DEF BroadcastResponse, rqVars, txnVars
<1>2. t \in Txns /\ t \in resp
    BY <1>1 DEF Core, Holding, HasResponse
<1> HIDE DEF t
<1>3. /\ tl' = tl /\ tp = <<>> /\ tp' \in Sending(t)
      /\ \A view, s : ~Pending(view, s) /\ (Pending(view, s)' => s = t)
    BY <1>1, Taken DEF Core
<1>4. PICK x \in {"drain", "range"} : rs' = [rs EXCEPT ![k] = x]
    BY DEF BroadcastResponse
<1>5. /\ \A j \in Conns : rs'[j] = IF j = k THEN x ELSE rs[j]
      /\ \A j \in Conns : rsTxn'[j] = IF j = k THEN NoTxn ELSE rsTxn[j]
    BY <1>1, <1>4 DEF Readers
<1>6. Readers'
    BY <1>1, <1>4 DEF Readers
<1>7. InTurn' /\ Holding' /\ OwnTxn' /\ HasResponse'
    <2>1. InTurn'
        BY <1>1, <1>2, <1>3 DEF Core, InTurn, Sending
    <2>2. Holding' /\ HasResponse'
        BY <1>1, <1>4, <1>5 DEF Core, Holding, HasResponse
    <2>3. OwnTxn'
        BY <1>1 DEF Core, OwnTxn
    <2> QED
        BY <2>1, <2>2, <2>3
<1>8. ComesOnce'
    <2>1. ASSUME NEW s \in Txns \ resp
          PROVE  /\ ~Pending("term", s)' /\ ~Pending("web", s)'
                 /\ s \in user \/ s \in listed => ~Coming(s)
        BY <1>2, <1>3, <2>1 DEF Core, ComesOnce
    <2> QED
        BY <1>1, <2>1 DEF ComesOnce, Coming
<1>9. Together'
    <2>1. \A j \in Conns : rq'[j] = "txns" => rsTxn'[j] \in {rqTxn'[j], NoTxn}
        BY <1>1, <1>5 DEF Core, Together
    <2>2. rsTxn'[k] = NoTxn
        BY <1>5
    <2> QED
        BY <2>1, <2>2 DEF Together
<1> QED
    BY <1>6, <1>7, <1>8, <1>9 DEF Core

-----------------------------------------------------------------------------
(* The views' steps *)

\* A view receives what has been taken, and the terminal does so first.
LEMMA Received ==
    ASSUME InTurn, NEW view, NEW t, Bcast!Send(view, t)
    PROVE  /\ tl' = tl /\ t \in Txns /\ tp \in Sending(t) /\ view \in {"term", "web"}
           /\ Pending(view, t)
           /\ tp' = <<>> \/ tp' = <<Item("web", t)>>
           /\ \A v, s : Pending(v, s)' =>
                 s = t /\ v = "web" /\ view = "term" /\ Pending("web", t)
<1>1. tl' = tl /\ tp # <<>> /\ Head(tp) = Item(view, t) /\ tp' = Tail(tp)
    BY DEF Bcast!Send, Bcast!Idle, Item
<1>2. PICK q \in Txns : tp \in Sending(q)
    BY <1>1 DEF InTurn
<1>3. q = t /\ view \in {"term", "web"}
    BY <1>1, <1>2, Sent DEF Item
<1>4. Pending(view, t)
    BY <1>1, <1>2, Sent DEF Pending
<1>5. \/ tp' = <<>>
      \/ view = "term" /\ tp' = <<Item("web", t)>> /\ Pending("web", t)
    BY <1>1, <1>2, <1>3, Sent DEF Item, Pending
<1>6. ASSUME NEW v, NEW s, Pending(v, s)'
      PROVE  s = t /\ v = "web" /\ view = "term" /\ Pending("web", t)
    <2>1. tp' # <<>>
        BY <1>6 DEF Pending
    <2>2. view = "term" /\ tp' = <<Item("web", t)>> /\ Pending("web", t)
        BY <1>5, <2>1
    <2> QED
        BY <1>6, <2>2 DEF Pending, Item
<1> QED
    BY <1>1, <1>2, <1>3, <1>4, <1>5, <1>6

\* What is coming or pending is not forgotten.
LEMMA InUse ==
    ASSUME NEW s
    PROVE  /\ Coming(s)' \/ (\E k \in Conns : rsTxn'[k] = s) => Used(s)'
           /\ \A view : Pending(view, s)' => Used(s)'
           /\ \A S : s \in Kept(S) <=> s \in S /\ Used(s)'
<1>1. Coming(s)' \/ (\E k \in Conns : rsTxn'[k] = s) => Used(s)'
    BY DEF Coming, Used
<1>2. ASSUME NEW view, Pending(view, s)' PROVE Used(s)'
    BY <1>2 DEF Pending, Item, Used
<1> QED
    BY <1>1, <1>2 DEF Kept

\* What a view makes of a transaction, which it gets as new while it is.
LEMMA ViewReceives ==
    ASSUME Readers, Core, NEW view, NEW t, Bcast!Send(view, t),
           NEW seen \in SUBSET Txns, NEW shown \in SUBSET Txns,
           \A s \in seen : s \in user \/ (s = t /\ view = "web"),
           \A s \in shown : s \in listed \/ (s = t /\ view = "term"),
           resp' = Kept(resp), upgr' = Kept(upgr), user' = Kept(seen), listed' = Kept(shown),
           UNCHANGED <<rq, rqTxn, rs, rsTxn>>, web' = "reg" <=> web = "reg"
    PROVE  Readers' /\ Core'
<1>1. /\ tl' = tl /\ t \in Txns /\ tp \in Sending(t) /\ view \in {"term", "web"}
      /\ Pending(view, t)
      /\ tp' = <<>> \/ tp' = <<Item("web", t)>>
      /\ \A v, s : Pending(v, s)' =>
            s = t /\ v = "web" /\ view = "term" /\ Pending("web", t)
    BY Received DEF Core
<1>2. Readers'
    BY DEF Readers, Kept
<1>3. InTurn' /\ Holding' /\ OwnTxn'
    <2>1. InTurn'
        BY <1>1 DEF Core, InTurn, Sending
    <2>2. Holding' /\ OwnTxn'
        BY DEF Core, Holding, OwnTxn
    <2> QED
        BY <2>1, <2>2
<1>4. HasResponse'
    <2> SUFFICES ASSUME NEW k \in Conns, rs'[k] = "txns"
                 PROVE  rsTxn'[k] \in resp'
        BY DEF HasResponse
    <2>1. rsTxn[k] \in resp
        BY DEF Core, HasResponse
    <2>2. PICK s : s = rsTxn[k]
        OBVIOUS
    <2> QED
        BY <2>1, <2>2, InUse
<1>5. ComesOnce'
    <2> SUFFICES ASSUME NEW s \in Txns \ resp'
                 PROVE  /\ Pending("term", s)' \/ Pending("web", s)' => ~Coming(s)'
                        /\ s \in user' => ~Coming(s)' /\ ~Pending("web", s)'
                        /\ s \in listed' => ~Coming(s)' /\ ~Pending("term", s)'
        BY DEF ComesOnce
    <2>1. CASE ~Used(s)'
        BY <2>1, InUse
    <2>2. CASE Used(s)'
        <3>1. /\ s \notin resp
              /\ s \in user' => s \in user \/ (s = t /\ view = "web")
              /\ s \in listed' => s \in listed \/ (s = t /\ view = "term")
            BY <2>2, InUse
        <3>2. /\ Pending("term", s) \/ Pending("web", s) => ~Coming(s)
              /\ s \in user => ~Coming(s) /\ ~Pending("web", s)
              /\ s \in listed => ~Coming(s) /\ ~Pending("term", s)
            BY <3>1 DEF Core, ComesOnce
        <3>3. Coming(s)' <=> Coming(s)
            BY DEF Coming
        <3>4. ~Pending("term", s)' /\ (Pending("web", s)' => Pending("web", s) /\ view = "term")
            BY <1>1
        <3>5. s = t => ~Coming(s)
            BY <1>1, <3>2
        <3> QED
            BY <3>1, <3>2, <3>3, <3>4, <3>5
    <2> QED
        BY <2>1, <2>2
<1>6. Together'
    <2>1. \A k \in Conns : rq'[k] = "txns" => rsTxn'[k] \in {rqTxn'[k], NoTxn}
        BY DEF Core, Together
    <2>2. ASSUME NEW s \in Txns, tp' \in Sending(s)
          PROVE  \E b \in Conns : rsTxn'[b] \in {s, NoTxn, rqTxn'[b]}
        <3>1. s = t
            BY <1>1, <2>2, Sent DEF Item
        <3> QED
            BY <1>1, <3>1 DEF Core, Together
    <2> QED
        BY <2>1, <2>2 DEF Together, Sending
<1> QED
    BY <1>2, <1>3, <1>4, <1>5, <1>6 DEF Core

LEMMA ViewsStep ==
    ASSUME Readers, Core, TermReceives \/ WebReceives
    PROVE  Readers' /\ Core'
<1>1. CASE TermReceives
    <2>1. UNCHANGED <<rq, rqTxn, rs, rsTxn, web>>
        BY <1>1 DEF TermReceives, connVars, rqVars, rsVars
    <2>2. PICK t \in Txns :
            /\ Bcast!Send("term", t)
            /\ listed' = Kept(IF t \in resp THEN listed ELSE listed \cup {t})
            /\ resp' = Kept(resp) /\ user' = Kept(user) /\ upgr' = Kept(upgr)
        BY <1>1 DEF TermReceives
    <2> DEFINE shown == IF t \in resp THEN listed ELSE listed \cup {t}
    <2>3. /\ shown \in SUBSET Txns /\ user \in SUBSET Txns
          /\ \A s \in shown : s \in listed \/ s = t
        BY DEF Readers
    <2> HIDE DEF shown
    <2>4. listed' = Kept(shown)
        BY <2>2 DEF shown
    <2> QED
        BY <2>1, <2>2, <2>3, <2>4, ViewReceives
<1>2. CASE WebReceives
    <2>1. UNCHANGED <<rq, rqTxn, rs, rsTxn>> /\ web = "recv"
        BY <1>2 DEF WebReceives, connVars, rqVars, rsVars
    <2>2. PICK t \in Txns, seen \in SUBSET Txns :
            /\ Bcast!Send("web", t) /\ seen \in {user, user \cup {t}}
            /\ user' = Kept(seen) /\ web' \in {"recv", "in"}
            /\ resp' = Kept(resp) /\ upgr' = Kept(upgr) /\ listed' = Kept(listed)
        BY <1>2 DEF WebReceives, Readers
    <2>3. /\ seen \in SUBSET Txns /\ listed \in SUBSET Txns
          /\ \A s \in seen : s \in user \/ s = t
        BY <2>2 DEF Readers
    <2> QED
        BY <2>1, <2>2, <2>3, ViewReceives
<1> QED
    BY <1>1, <1>2

\* The steps that concern neither the readers nor what they have in common.
LEMMA Elsewhere ==
    ASSUME Readers, Core, UNCHANGED <<rqVars, rsVars, txnVars, txnsVars>>,
           web' = "reg" <=> web = "reg"
    PROVE  Readers' /\ Core'
<1>1. UNCHANGED <<rq, rqTxn, rs, rsTxn, resp, user, upgr, listed, tl, tp>>
    BY DEF rqVars, rsVars, txnVars, txnsVars
<1>2. Readers'
    BY <1>1 DEF Readers
<1>3. InTurn' /\ Holding' /\ OwnTxn' /\ HasResponse'
    BY <1>1 DEF Core, InTurn, Sending, Holding, OwnTxn, HasResponse
<1>4. ComesOnce' /\ Together'
    BY <1>1 DEF Core, ComesOnce, Pending, Coming, Together, Sending
<1> QED
    BY <1>2, <1>3, <1>4 DEF Core

\* The second registration with a broadcast.
LEMMA AppendOne == ASSUME NEW x, NEW y PROVE Append(<<x>>, y) = <<x, y>>
<1> DEFINE p == Append(<<x>>, y)
           q == <<x, y>>
<1>1. <<x>> \in Seq({x, y}) /\ Len(<<x>>) = 1
    OBVIOUS
<1>2. p \in Seq({x, y}) /\ Len(p) = 2 /\ p[1] = x /\ p[2] = y
    BY <1>1, AppendProperties
<1>3. q \in Seq({x, y}) /\ Len(q) = 2 /\ q[1] = x /\ q[2] = y
    OBVIOUS
<1> HIDE DEF p, q
<1>4. p = q
    BY <1>2, <1>3, SeqEqual
<1> QED
    BY <1>4 DEF p, q

LEMMA WebRegistered ==
    ASSUME Readers, Core, WebRegisters
    PROVE  Readers' /\ Core'
<1>1. /\ web = "reg" /\ web' = "recv" /\ tp = <<>> /\ tp' = tp /\ tl' = Append(tl, "web")
      /\ UNCHANGED <<rq, rqTxn, rs, rsTxn, resp, user, upgr, listed>>
    BY DEF WebRegisters, Bcast!Reg, Bcast!Idle, connVars, rqVars, rsVars, txnVars
<1>2. Readers'
    BY <1>1 DEF Readers
<1>3. InTurn' /\ Holding' /\ OwnTxn' /\ HasResponse'
    <2>1. tl' = <<"term", "web">>
        BY <1>1, AppendOne DEF Core, InTurn
    <2> QED
        BY <1>1, <2>1 DEF Core, InTurn, Holding, OwnTxn, HasResponse
<1>4. ComesOnce' /\ Together'
    BY <1>1 DEF Core, ComesOnce, Pending, Coming, Together, Sending
<1> QED
    BY <1>2, <1>3, <1>4 DEF Core

\* The invariant of the readers and the views, step by step.
LEMMA CoreStep ==
    ASSUME Readers, Core, [Next]_vars
    PROVE  Readers' /\ Core'
<1>1. CASE UNCHANGED vars
    BY <1>1, Elsewhere DEF vars, connVars, viewVars
<1>2. ASSUME NEW k \in Conns, Traffic(k) \/ DrainWrites(k) \/ DrainReads(k) PROVE Readers' /\ Core'
    <2>1. UNCHANGED <<rqVars, rsVars, txnVars, txnsVars, web>>
        BY <1>2 DEF Traffic, UpRead, UpEOF, UpFails, DnRead, DnWrite, DnEnds, Close,
                    DrainWrites, DrainReads, viewVars
    <2> QED
        BY <2>1, Elsewhere
<1>3. ASSUME NEW k \in Conns, ReadRequest(k) PROVE Readers' /\ Core'
    <2>1. rq[k] = "read" /\ UNCHANGED <<rs, rsTxn, tl, tp, web>>
        BY <1>3 DEF ReadRequest, rsVars, viewVars, txnsVars
    <2>2. CASE Complete(wPipe[k])
        BY <1>3, <2>1, <2>2, TxnBegins DEF ReadRequest
    <2>3. CASE ~Complete(wPipe[k])
        <3>1. PICK x \in {"body", "done"} : rq' = [rq EXCEPT ![k] = x]
            BY <1>3, <2>3 DEF ReadRequest
        <3>2. UNCHANGED <<rqTxn, resp, user, upgr, listed>>
            BY <1>3, <2>3 DEF ReadRequest, txnVars
        <3>3. \A j \in Conns : rq'[j] = IF j = k THEN x ELSE rq[j]
            BY <3>1 DEF Readers
        <3>4. Readers'
            BY <2>1, <3>1, <3>2 DEF Readers
        <3>5. Holding' /\ Together'
            BY <2>1, <3>2, <3>3 DEF Core, Holding, Together, Sending
        <3>6. InTurn' /\ OwnTxn' /\ HasResponse' /\ ComesOnce'
            BY <2>1, <3>2 DEF Core, InTurn, Sending, OwnTxn, HasResponse, ComesOnce, Pending, Coming
        <3> QED
            BY <3>4, <3>5, <3>6 DEF Core
    <2> QED
        BY <2>2, <2>3
<1>4. ASSUME NEW k \in Conns, ReadRequestBody(k) PROVE Readers' /\ Core'
    <2>1. rq[k] = "body" /\ UNCHANGED <<rs, rsTxn, tl, tp, web>>
        BY <1>4 DEF ReadRequestBody, rsVars, viewVars, txnsVars
    <2> QED
        BY <1>4, <2>1, TxnBegins DEF ReadRequestBody
<1>5. ASSUME NEW k \in Conns, HandTxn(k) \/ BroadcastRequest(k) \/ ResponseReader(k)
      PROVE  Readers' /\ Core'
    BY <1>5, TxnHanded, RequestBroadcast, ResponseRead, ResponseBroadcast DEF ResponseReader
<1>6. CASE TermReceives \/ Web
    <2>1. CASE WebBroadcasts
        BY <2>1, Elsewhere DEF WebBroadcasts, connVars
    <2> QED
        BY <1>6, <2>1, ViewsStep, WebRegistered DEF Web
<1>7. ASSUME NEW b \in Tabs, TabRegisters(b) \/ TabReceives(b) \/ TabWrites(b) \/ TabUnregisters(b)
      PROVE  Readers' /\ Core'
    BY <1>7, Elsewhere DEF TabRegisters, TabReceives, TabWrites, TabUnregisters, TabUnchanged, connVars
<1> QED
    BY <1>1, <1>2, <1>3, <1>4, <1>5, <1>6, <1>7 DEF Next, RequestReader

-----------------------------------------------------------------------------
(* Types *)

\* A message that has been begun answers a request.
TrafficOK ==
    /\ replay \subseteq Conns /\ closed \subseteq Conns
    /\ left \subseteq Conns /\ odd \subseteq Conns
    /\ vmid \subseteq Conns /\ smid \subseteq Conns
    /\ up \in [Conns -> {"read", "close", "done"}]
    /\ dn \in [Conns -> {"read", "write", "close", "done"}]
    /\ wPipe \in [Conns -> Pipe] /\ rPipe \in [Conns -> Pipe]
    /\ owed \in [Conns -> 0..MaxOwed] /\ ws \in [Conns -> {"no", "asked", "yes", "refused"}]
    /\ \A k \in smid : owed[k] > 0

TabsOK ==
    /\ WsMessages!TypeOK
    /\ web \in {"reg", "recv", "in"}
    /\ tab \in [Tabs -> {"closed", "recv", "write", "unreg"}]

LEMMA OwedChanges ==
    ASSUME TrafficOK, NEW k \in Conns, NEW n \in 0..MaxOwed, owed' = [owed EXCEPT ![k] = n]
    PROVE  /\ owed' \in [Conns -> 0..MaxOwed]
           /\ \A j \in Conns : owed'[j] = IF j = k THEN n ELSE owed[j]
<1>1. owed \in [Conns -> 0..MaxOwed]
    BY DEF TrafficOK
<1> QED
    BY <1>1

LEMMA CloseTypes ==
    ASSUME TrafficOK, NEW k \in Conns, Close(k)
    PROVE  TrafficOK'
<1>1. /\ owed' = [owed EXCEPT ![k] = 0] /\ smid' = smid \ {k} /\ closed' = closed \cup {k}
      /\ up' \in {up, [up EXCEPT ![k] = "done"]} /\ dn' \in {dn, [dn EXCEPT ![k] = "done"]}
      /\ UNCHANGED <<replay, vmid, ws, left, odd, wPipe, rPipe>>
    BY DEF Close, pipeVars
<1>2. owed' \in [Conns -> 0..MaxOwed] /\ \A j \in Conns : owed'[j] = IF j = k THEN 0 ELSE owed[j]
    <2>1. 0 \in 0..MaxOwed
        BY OwedAssumption
    <2> QED
        BY <1>1, <2>1, OwedChanges
<1>3. \A j \in smid' : owed'[j] > 0
    <2>1. \A j \in smid' : j \in smid /\ j \in Conns /\ owed'[j] = owed[j] /\ owed[j] > 0
        BY <1>1, <1>2 DEF TrafficOK
    <2> QED
        BY <2>1
<1>4. up' \in [Conns -> {"read", "close", "done"}]
    BY <1>1 DEF TrafficOK
<1>5. dn' \in [Conns -> {"read", "write", "close", "done"}]
    BY <1>1 DEF TrafficOK
<1>6. smid' \subseteq Conns /\ closed' \subseteq Conns
    BY <1>1 DEF TrafficOK
<1> QED
    BY <1>1, <1>2, <1>3, <1>4, <1>5, <1>6 DEF TrafficOK

\* The chunks a pipe can hold after each step.
LEMMA Piped ==
    ASSUME NEW k \in Conns, NEW old \in [Conns -> Pipe], NEW x \in Pipe
    PROVE  [old EXCEPT ![k] = x] \in [Conns -> Pipe]
  OBVIOUS

LEMMA TrafficStep ==
    ASSUME TrafficOK, [Next]_vars
    PROVE  TrafficOK'
<1>1. CASE UNCHANGED <<trafficVars, pipeVars>>
    BY <1>1 DEF trafficVars, pipeVars, TrafficOK
<1>2. ASSUME NEW k \in Conns, UpRead(k) PROVE TrafficOK'
    <2>1. PICK chunk \in Sendable(k) :
            /\ owed[k] + Requests(chunk) <= MaxOwed
            /\ owed' = [owed EXCEPT ![k] = owed[k] + Requests(chunk)]
            /\ vmid' = IF chunk = "head" THEN vmid \cup {k} ELSE vmid \ {k}
            /\ ws' = IF chunk = "upgrade" THEN [ws EXCEPT ![k] = "asked"] ELSE ws
            /\ odd' \in {odd, odd \cup {k}}
            /\ wPipe' = [wPipe EXCEPT ![k] = chunk]
        BY <1>2 DEF UpRead, TrafficOK
    <2>2. up' = [up EXCEPT ![k] = AfterWrite(k)] /\ UNCHANGED <<replay, dn, smid, closed, left, rPipe>>
        BY <1>2 DEF UpRead
    <2>3. chunk \in Chunks /\ chunk \in Pipe
        BY <2>1 DEF Sendable, Chunks, Pipe
    <2>4. Requests(chunk) \in Nat
        BY DEF Requests
    <2>5. owed' \in [Conns -> 0..MaxOwed] /\ \A j \in smid' : owed'[j] > 0
        <3>1. owed[k] \in 0..MaxOwed /\ smid' = smid
            BY <2>2 DEF TrafficOK
        <3>2. owed[k] + Requests(chunk) \in 0..MaxOwed
            BY <2>1, <2>4, <3>1, OwedAssumption
        <3>3. /\ owed' \in [Conns -> 0..MaxOwed]
              /\ \A j \in Conns : owed'[j] = IF j = k THEN owed[k] + Requests(chunk) ELSE owed[j]
            BY <2>1, <3>2, OwedChanges
        <3>4. smid \subseteq Conns /\ \A j \in smid : owed[j] > 0
            BY DEF TrafficOK
        <3>5. \A j \in smid : owed'[j] > 0
            BY <2>4, <3>1, <3>3, <3>4
        <3> QED
            BY <3>1, <3>3, <3>5
    <2>6. vmid' \subseteq Conns /\ odd' \subseteq Conns
        BY <2>1 DEF TrafficOK
    <2>7. wPipe' \in [Conns -> Pipe]
        BY <2>1, <2>3, Piped DEF TrafficOK
    <2>8. ws' \in [Conns -> {"no", "asked", "yes", "refused"}]
        BY <2>1 DEF TrafficOK
    <2>9. up' \in [Conns -> {"read", "close", "done"}]
        BY <2>2 DEF AfterWrite, TrafficOK
    <2> QED
        BY <2>2, <2>5, <2>6, <2>7, <2>8, <2>9 DEF TrafficOK
<1>3. ASSUME NEW k \in Conns, UpEOF(k) \/ UpFails(k) PROVE TrafficOK'
    <2>1. /\ UNCHANGED <<replay, dn, smid, owed, ws, closed, odd, rPipe>>
          /\ wPipe' \in {wPipe, [wPipe EXCEPT ![k] = "closed"]}
          /\ vmid' \in {vmid, vmid \ {k}} /\ left' \in {left, left \cup {k}}
        BY <1>3 DEF UpEOF, UpFails, UpFailed, pipeVars
    <2>2. wPipe' \in [Conns -> Pipe]
        BY <2>1, Piped DEF TrafficOK, Pipe
    <2>3. PICK x \in {"close", "done"} : up' = [up EXCEPT ![k] = x]
        BY <1>3 DEF UpEOF, UpFails, UpFailed
    <2>4. up' \in [Conns -> {"read", "close", "done"}]
        BY <2>3 DEF TrafficOK
    <2>5. vmid' \subseteq Conns /\ left' \subseteq Conns
        BY <2>1 DEF TrafficOK
    <2> QED
        BY <2>1, <2>2, <2>4, <2>5 DEF TrafficOK
<1>4. ASSUME NEW k \in Conns, DnRead(k) PROVE TrafficOK'
    <2>1. PICK chunk \in Answers(k) :
            /\ rPipe' = [rPipe EXCEPT ![k] = chunk]
            /\ owed' = [owed EXCEPT ![k] = owed[k] - Answered(chunk)]
            /\ smid' = IF chunk = "head" THEN smid \cup {k} ELSE smid \ {k}
            /\ odd' \in {odd, odd \cup {k}}
            /\ \E x \in {"yes", "refused"} : ws' \in {ws, [ws EXCEPT ![k] = x]}
        BY <1>4 DEF DnRead, TrafficOK
    <2>2. dn' = [dn EXCEPT ![k] = "write"] /\ UNCHANGED <<replay, up, vmid, closed, left, wPipe>>
        BY <1>4 DEF DnRead
    <2>3. chunk \in Pipe
        BY <2>1 DEF Answers, Chunks, Pipe
    <2>4. /\ Answered(chunk) \in Nat /\ owed[k] \in 0..MaxOwed
          /\ owed[k] - Answered(chunk) \in 0..MaxOwed
          /\ chunk = "head" => owed[k] > 0 /\ Answered(chunk) = 0
        <3>1. owed[k] \in 0..MaxOwed /\ (k \in smid => owed[k] > 0)
            BY DEF TrafficOK
        <3>2. CASE chunk = "double"
            BY <2>1, <3>1, <3>2, OwedAssumption DEF Answers, Answered
        <3>3. CASE chunk \in {"head", "frame", "interim"}
            BY <2>1, <3>1, <3>3, OwedAssumption DEF Answers, Answered
        <3>4. CASE chunk \in {"whole", "rest", "junk"}
            BY <2>1, <3>1, <3>4, OwedAssumption DEF Answers, Answered
        <3> QED
            BY <2>1, <3>2, <3>3, <3>4 DEF Answers
    <2>5. owed' \in [Conns -> 0..MaxOwed] /\ \A j \in smid' : owed'[j] > 0
        <3>1. /\ owed' \in [Conns -> 0..MaxOwed]
              /\ \A j \in Conns : owed'[j] = IF j = k THEN owed[k] - Answered(chunk) ELSE owed[j]
            BY <2>1, <2>4, OwedChanges
        <3>2. smid \subseteq Conns /\ \A j \in smid : owed[j] > 0
            BY DEF TrafficOK
        <3>3. \A j \in smid' : j \in Conns /\ (j # k => j \in smid) /\ (j = k => chunk = "head")
            BY <2>1, <3>2
        <3>4. \A j \in smid' : owed'[j] > 0
            BY <2>4, <3>1, <3>2, <3>3
        <3> QED
            BY <3>1, <3>4
    <2>6. smid' \subseteq Conns /\ odd' \subseteq Conns
        BY <2>1 DEF TrafficOK
    <2>7. rPipe' \in [Conns -> Pipe]
        BY <2>1, <2>3, Piped DEF TrafficOK
    <2>8. ws' \in [Conns -> {"no", "asked", "yes", "refused"}]
        BY <2>1 DEF TrafficOK
    <2>9. dn' \in [Conns -> {"read", "write", "close", "done"}]
        BY <2>2 DEF TrafficOK
    <2> QED
        BY <2>2, <2>5, <2>6, <2>7, <2>8, <2>9 DEF TrafficOK
<1>5. ASSUME NEW k \in Conns, DnWrite(k) \/ DnEnds(k) PROVE TrafficOK'
    <2>1. /\ UNCHANGED <<replay, up, vmid, smid, owed, ws, closed, odd, wPipe>>
          /\ rPipe' \in {rPipe, [rPipe EXCEPT ![k] = "closed"]}
          /\ left' \in {left, left \cup {k}}
        BY <1>5 DEF DnWrite, DnEnds, pipeVars
    <2>2. rPipe' \in [Conns -> Pipe]
        BY <2>1, Piped DEF TrafficOK, Pipe
    <2>3. PICK x \in {"read", "close"} : dn' = [dn EXCEPT ![k] = x]
        BY <1>5 DEF DnWrite, DnEnds
    <2>4. dn' \in [Conns -> {"read", "write", "close", "done"}]
        BY <2>3 DEF TrafficOK
    <2>5. left' \subseteq Conns
        BY <2>1 DEF TrafficOK
    <2> QED
        BY <2>1, <2>2, <2>4, <2>5 DEF TrafficOK
<1>6. ASSUME NEW k \in Conns, Close(k) PROVE TrafficOK'
    BY <1>6, CloseTypes
<1>7. ASSUME NEW k \in Conns, NEW x \in Pipe, UNCHANGED trafficVars,
             \/ wPipe' = [wPipe EXCEPT ![k] = x] /\ UNCHANGED rPipe
             \/ rPipe' = [rPipe EXCEPT ![k] = x] /\ UNCHANGED wPipe
      PROVE  TrafficOK'
    <2>1. wPipe' \in [Conns -> Pipe] /\ rPipe' \in [Conns -> Pipe]
        <3>1. wPipe \in [Conns -> Pipe] /\ rPipe \in [Conns -> Pipe]
            BY DEF TrafficOK
        <3> QED
            BY <1>7, <3>1
    <2> QED
        BY <1>7, <2>1 DEF TrafficOK, trafficVars
<1>8. \A chunk : Leftover(chunk) \subseteq Pipe
    BY DEF Leftover, Pipe, Chunks
<1>9. ASSUME NEW k \in Conns, RequestReader(k) PROVE TrafficOK'
    <2>1. CASE ReadRequest(k) \/ ReadRequestBody(k)
        BY <1>7, <1>8, <2>1 DEF ReadRequest, ReadRequestBody, ConsumeWrite
    <2>2. CASE HandTxn(k) \/ BroadcastRequest(k)
        BY <1>1, <2>2 DEF HandTxn, BroadcastRequest
    <2> QED
        BY <1>9, <2>1, <2>2 DEF RequestReader
<1>10. ASSUME NEW k \in Conns, ResponseReader(k) PROVE TrafficOK'
    <2>1. CASE ReadResponse(k) \/ ReadResponseBody(k)
        BY <1>7, <1>8, <2>1 DEF ReadResponse, ReadResponseBody, ConsumeRead
    <2>2. CASE BroadcastResponse(k) \/ ResponsesEnd(k)
        BY <1>1, <2>2 DEF BroadcastResponse, ResponsesEnd
    <2> QED
        BY <1>10, <2>1, <2>2 DEF ResponseReader
<1>11. ASSUME NEW k \in Conns, DrainWrites(k) \/ DrainReads(k) PROVE TrafficOK'
    BY <1>7, <1>11 DEF DrainWrites, DrainReads, Pipe
<1>12. CASE TermReceives \/ Web \/ UNCHANGED vars
    BY <1>1, <1>12 DEF TermReceives, Web, WebRegisters, WebReceives, WebBroadcasts, vars, connVars
<1>13. ASSUME NEW b \in Tabs, TabRegisters(b) \/ TabReceives(b) \/ TabWrites(b) \/ TabUnregisters(b) PROVE TrafficOK'
    BY <1>1, <1>13 DEF TabRegisters, TabReceives, TabWrites, TabUnregisters, TabUnchanged, connVars
<1> QED
    BY <1>2, <1>3, <1>4, <1>5, <1>6, <1>9, <1>10, <1>11, <1>12, <1>13 DEF Next, Traffic

\* What a broadcast does to its listeners and its items.
LEMMA Unlisted ==
    ASSUME NEW S, NEW q \in Seq(S), NEW n \in DOMAIN q
    PROVE  LET rest == SubSeq(q, 1, n - 1) \o SubSeq(q, n + 1, Len(q))
           IN  rest \in Seq(S) /\ Len(rest) = Len(q) - 1
<1>1. n \in 1..Len(q) /\ Len(q) \in Nat
    BY LenProperties
<1>2. /\ SubSeq(q, 1, n - 1) \in Seq(S) /\ Len(SubSeq(q, 1, n - 1)) = n - 1
      /\ SubSeq(q, n + 1, Len(q)) \in Seq(S) /\ Len(SubSeq(q, n + 1, Len(q))) = Len(q) - n
    <2>1. \A j \in 1..(n - 1) : q[j] \in S
        BY <1>1, ElementOfSeq
    <2>2. \A j \in (n + 1)..Len(q) : q[j] \in S
        BY <1>1, ElementOfSeq
    <2>3. /\ SubSeq(q, 1, n - 1) \in Seq(S)
          /\ Len(SubSeq(q, 1, n - 1)) = IF 1 <= n - 1 THEN (n - 1) - 1 + 1 ELSE 0
        BY <1>1, <2>1, SubSeqProperties
    <2>4. /\ SubSeq(q, n + 1, Len(q)) \in Seq(S)
          /\ Len(SubSeq(q, n + 1, Len(q))) =
                IF n + 1 <= Len(q) THEN Len(q) - (n + 1) + 1 ELSE 0
        BY <1>1, <2>2, SubSeqProperties
    <2> QED
        BY <1>1, <2>3, <2>4
<1> DEFINE before == SubSeq(q, 1, n - 1)
           after == SubSeq(q, n + 1, Len(q))
<1> HIDE DEF before, after
<1>3. /\ before \in Seq(S) /\ Len(before) = n - 1
      /\ after \in Seq(S) /\ Len(after) = Len(q) - n
    BY <1>2 DEF before, after
<1>4. before \o after \in Seq(S) /\ Len(before \o after) = Len(before) + Len(after)
    BY <1>3, ConcatProperties
<1>5. before \o after \in Seq(S) /\ Len(before \o after) = Len(q) - 1
    BY <1>1, <1>3, <1>4
<1> QED
    BY <1>5 DEF before, after

LEMMA ToEach ==
    ASSUME NEW S, NEW T, NEW q \in Seq(S), NEW i \in T
    PROVE  LET items == [n \in DOMAIN q |-> <<q[n], i>>]
           IN  items \in Seq(S \X T) /\ Len(items) = Len(q)
<1>1. DOMAIN q = 1..Len(q) /\ Len(q) \in Nat
    BY LenProperties
<1>2. \A n \in 1..Len(q) : <<q[n], i>> \in S \X T
    BY ElementOfSeq
<1>3. [n \in DOMAIN q |-> <<q[n], i>>] \in Seq(S \X T)
    BY <1>1, <1>2, IsASeq
<1> QED
    BY <1>1, <1>3, LenProperties

LEMMA TabsStep ==
    ASSUME TabsOK, [Next]_vars
    PROVE  TabsOK'
<1> DEFINE L == wl \in Seq(Tabs)
           P == wp \in Seq(Tabs \X {"txn"})
<1>1. WsMessages!TypeOK <=> L /\ P
    BY DEF WsMessages!TypeOK
<1>2. WsMessages!TypeOK' <=> L' /\ P'
    BY DEF WsMessages!TypeOK
<1>3. L /\ P
    BY <1>1 DEF TabsOK
<1>4. CASE UNCHANGED <<wsVars, web>>
    BY <1>4 DEF wsVars, TabsOK, WsMessages!TypeOK
<1>5. ASSUME NEW b \in Tabs, TabRegisters(b) PROVE TabsOK'
    <2>1. /\ wl' = Append(wl, b) /\ wp' = wp /\ tab' = [tab EXCEPT ![b] = "recv"] /\ web' = web
        BY <1>5 DEF TabRegisters, WsMessages!Reg, TabUnchanged
    <2>2. L' /\ P'
        BY <1>3, <2>1, AppendProperties
    <2> QED
        BY <1>2, <2>1, <2>2 DEF TabsOK
<1>6. ASSUME NEW b \in Tabs, TabReceives(b) PROVE TabsOK'
    <2>1. /\ wp # <<>> /\ wp' = Tail(wp) /\ wl' = wl /\ web' = web
          /\ tab' = [tab EXCEPT ![b] = "write"]
        BY <1>6 DEF TabReceives, WsMessages!Send, WsMessages!Idle, TabUnchanged
    <2>2. L' /\ P'
        BY <1>3, <2>1, HeadTailProperties
    <2> QED
        BY <1>2, <2>1, <2>2 DEF TabsOK
<1>7. ASSUME NEW b \in Tabs, TabUnregisters(b) PROVE TabsOK'
    <2>1. /\ wp' = wp /\ tab' = [tab EXCEPT ![b] = "closed"] /\ web' = web
        BY <1>7 DEF TabUnregisters, WsMessages!UnReg, TabUnchanged
    <2>2. PICK n \in DOMAIN wl : wl' = SubSeq(wl, 1, n - 1) \o SubSeq(wl, n + 1, Len(wl))
        BY <1>7 DEF TabUnregisters, WsMessages!UnReg, WsMessages!RemoveAt
    <2>3. L' /\ P'
        BY <1>3, <2>1, <2>2, Unlisted
    <2> QED
        BY <1>2, <2>1, <2>3 DEF TabsOK
<1>8. CASE WebBroadcasts
    <2>1. wp' = [n \in DOMAIN wl |-> <<wl[n], "txn">>] /\ wl' = wl /\ tab' = tab /\ web' = "recv"
        BY <1>8 DEF WebBroadcasts, WsMessages!In
    <2>2. L' /\ P'
        BY <1>3, <2>1, ToEach
    <2> QED
        BY <1>2, <2>1, <2>2 DEF TabsOK
<1>9. CASE WebRegisters \/ WebReceives
    <2>1. UNCHANGED wsVars /\ web' \in {"recv", "in"}
        BY <1>9 DEF WebRegisters, WebReceives
    <2> QED
        BY <2>1 DEF wsVars, TabsOK, WsMessages!TypeOK
<1>10. CASE TermReceives \/ UNCHANGED vars
    BY <1>4, <1>10 DEF TermReceives, vars, viewVars
<1>11. ASSUME NEW k \in Conns,
              \/ Traffic(k) \/ RequestReader(k) \/ ResponseReader(k)
              \/ DrainWrites(k) \/ DrainReads(k)
       PROVE  TabsOK'
    <2>1. UNCHANGED <<wsVars, web>>
        BY <1>11 DEF Traffic, UpRead, UpEOF, UpFails, DnRead, DnWrite, DnEnds, Close, RequestReader,
                     ReadRequest, ReadRequestBody, HandTxn, BroadcastRequest, ResponseReader,
                     ReadResponse, ReadResponseBody, BroadcastResponse, ResponsesEnd, DrainWrites,
                     DrainReads, viewVars
    <2> QED
        BY <1>4, <2>1
<1>12. ASSUME NEW b \in Tabs, TabWrites(b) PROVE TabsOK'
    <2>1. PICK next \in {"recv", "unreg"} : tab' = [tab EXCEPT ![b] = next]
        BY <1>12 DEF TabWrites
    <2>2. UNCHANGED <<wl, wp, web>>
        BY <1>12 DEF TabWrites, TabUnchanged
    <2> QED
        BY <1>1, <1>2, <2>1, <2>2 DEF TabsOK
<1> QED
    BY <1>5, <1>6, <1>7, <1>8, <1>9, <1>10, <1>11, <1>12 DEF Next, Web

-----------------------------------------------------------------------------
(* The theorems *)

InspectionInv == Readers /\ Core /\ TrafficOK /\ TabsOK

LEMMA InspectionInit == Init => InspectionInv
<1> SUFFICES ASSUME Init PROVE InspectionInv
    OBVIOUS
<1>1. Readers
    BY DEF Init, Readers
<1>2. Core
    <2>1. /\ tl = <<"term">> /\ tp = <<>> /\ web = "reg" /\ user = {} /\ listed = {}
          /\ rq = [k \in Conns |-> "read"] /\ rs = [k \in Conns |-> "range"]
          /\ rqTxn = [k \in Conns |-> NoTxn] /\ rsTxn = [k \in Conns |-> NoTxn]
        BY DEF Init
    <2>2. InTurn /\ Holding /\ OwnTxn /\ HasResponse
        BY <2>1 DEF InTurn, Holding, OwnTxn, HasResponse
    <2>3. ComesOnce
        BY <2>1 DEF ComesOnce, Pending
    <2>4. Together
        <3>1. \A t : tp \notin Sending(t)
            BY <2>1, Sent
        <3> QED
            BY <2>1, <3>1 DEF Together
    <2> QED
        BY <2>2, <2>3, <2>4 DEF Core
<1>3. TrafficOK
    <2>1. owed = [k \in Conns |-> 0] /\ smid = {}
        BY DEF Init
    <2>2. owed \in [Conns -> 0..MaxOwed] /\ \A k \in smid : owed[k] > 0
        BY <2>1, OwedAssumption
    <2>3. /\ wPipe = [k \in Conns |-> ""] /\ rPipe = [k \in Conns |-> ""] /\ "" \in Pipe
        BY DEF Init, Pipe
    <2>4. wPipe \in [Conns -> Pipe] /\ rPipe \in [Conns -> Pipe]
        BY <2>3
    <2>5. /\ replay \subseteq Conns /\ closed \subseteq Conns
          /\ left \subseteq Conns /\ odd \subseteq Conns
          /\ vmid \subseteq Conns /\ smid \subseteq Conns
          /\ up \in [Conns -> {"read", "close", "done"}]
          /\ dn \in [Conns -> {"read", "write", "close", "done"}]
          /\ ws \in [Conns -> {"no", "asked", "yes", "refused"}]
        BY DEF Init
    <2> QED
        BY <2>2, <2>4, <2>5 DEF TrafficOK
<1>4. TabsOK
    <2>1. wl = <<>> /\ wp = <<>>
        BY DEF Init, WsMessages!Init
    <2>2. web \in {"reg", "recv", "in"} /\ tab \in [Tabs -> {"closed", "recv", "write", "unreg"}]
        BY DEF Init
    <2> QED
        BY <2>1, <2>2, EmptySeq DEF TabsOK, WsMessages!TypeOK
<1> QED
    BY <1>1, <1>2, <1>3, <1>4 DEF InspectionInv

LEMMA OneOrTwo ==
    ASSUME NEW S, NEW x \in S, NEW y \in S
    PROVE  <<x>> \in Seq(S) /\ <<y>> \in Seq(S) /\ <<x, y>> \in Seq(S)
  OBVIOUS

\* The parts of the type invariant, and the bound that never binds.
LEMMA InspectionTypes == InspectionInv => TypeOK
<1> SUFFICES ASSUME InspectionInv PROVE TypeOK
    OBVIOUS
<1>1. Bcast!TypeOK
    <2>1. tl \in Seq({"term", "web"})
        <3>1. tl = <<"term">> \/ tl = <<"term", "web">>
            BY DEF InspectionInv, Core, InTurn
        <3> QED
            BY <3>1, OneOrTwo
    <2>2. tp \in Seq({"term", "web"} \X Txns)
        <3>1. CASE tp = <<>>
            BY <3>1
        <3>2. CASE tp # <<>>
            <4>1. PICK t \in Txns : tp \in Sending(t)
                BY <3>2 DEF InspectionInv, Core, InTurn
            <4> DEFINE S == {"term", "web"} \X Txns
            <4>2. Item("term", t) \in S /\ Item("web", t) \in S
                BY DEF Item
            <4> HIDE DEF S
            <4>3. tp \in Seq(S)
                BY <4>1, <4>2, OneOrTwo DEF Sending
            <4> QED
                BY <4>3 DEF S
        <3> QED
            BY <3>1, <3>2
    <2> QED
        BY <2>1, <2>2 DEF Bcast!TypeOK
<1>2. TxnsSuffice
    BY EnoughTxns DEF InspectionInv, Core
<1> QED
    BY <1>1, <1>2 DEF InspectionInv, Readers, TrafficOK, TabsOK, TypeOK

LEMMA InspectionInvariant == Spec => []InspectionInv
<1>1. InspectionInv /\ [Next]_vars => InspectionInv'
    BY CoreStep, TrafficStep, TabsStep DEF InspectionInv
<1> QED
    BY InspectionInit, <1>1, PTL DEF Spec

\* However many connections there are, each step keeps to the types, and two
\* transactions for each connection are always enough.
THEOREM InspectionTypeCorrect == Spec => []TypeOK
  BY InspectionInvariant, InspectionTypes, PTL

\* No step hands a view a transaction that it takes for answered when it is not.
LEMMA Understood ==
    ASSUME Core, [Next]_vars, NEW t \in Txns
    PROVE  /\ Bcast!Send("web", t) /\ web' = "in" => t \in resp
           /\ Bcast!Send("term", t) /\ t \in listed => t \in resp
<1>1. ASSUME NEW view, Bcast!Send(view, t)
      PROVE  Pending(view, t) /\ tp' # tp /\ tp # <<>> /\ Head(tp) = Item(view, t)
    <2>1. InTurn
        BY DEF Core
    <2>2. /\ tp \in Sending(t) /\ Pending(view, t)
          /\ tp' = <<>> \/ tp' = <<Item("web", t)>>
        BY <1>1, <2>1, Received
    <2>3. tp # <<>> /\ Head(tp) = Item(view, t) /\ tp' = Tail(tp)
        BY <1>1 DEF Bcast!Send, Bcast!Idle, Item
    <2>4. tp' # tp
        BY <2>2, <2>3 DEF Sending, Item
    <2> QED
        BY <2>2, <2>3, <2>4
<1>2. ASSUME Bcast!Send("term", t), t \in listed PROVE t \in resp
    BY <1>1, <1>2 DEF Core, ComesOnce
<1>3. ASSUME Bcast!Send("web", t), web' = "in" PROVE t \in resp
    <2>1. Pending("web", t) /\ tp' # tp /\ tp # <<>> /\ Head(tp) = Item("web", t)
        BY <1>1, <1>3
    <2>2. CASE WebReceives
        <3>1. PICK s \in Txns : Bcast!Send("web", s) /\ (web' = web \/ s \in user \/ web' = "recv")
            BY <2>2 DEF WebReceives
        <3>2. s = t /\ web = "recv"
            BY <2>1, <2>2, <3>1 DEF WebReceives, Bcast!Send, Item
        <3> QED
            BY <1>3, <2>1, <3>1, <3>2 DEF Core, ComesOnce
    <2>3. CASE TermReceives
        BY <2>1, <2>3 DEF TermReceives, Bcast!Send, Item
    <2>4. ASSUME NEW k \in Conns, RequestReader(k) \/ ResponseReader(k) PROVE FALSE
        BY <2>1, <2>4 DEF RequestReader, ReadRequest, ReadRequestBody, HandTxn, BroadcastRequest,
                          ResponseReader, ReadResponse, ReadResponseBody, BroadcastResponse,
                          ResponsesEnd, Bcast!In, Bcast!Idle, viewVars, txnsVars
    <2>5. ASSUME NEW k \in Conns, Traffic(k) \/ DrainWrites(k) \/ DrainReads(k) PROVE FALSE
        BY <2>1, <2>5 DEF Traffic, UpRead, UpEOF, UpFails, DnRead, DnWrite, DnEnds, Close,
                          DrainWrites, DrainReads, viewVars, txnsVars
    <2>6. CASE WebRegisters \/ WebBroadcasts \/ UNCHANGED vars
        BY <2>1, <2>6 DEF WebRegisters, WebBroadcasts, Bcast!Reg, vars, viewVars, txnsVars
    <2>7. ASSUME NEW b \in Tabs, TabRegisters(b) \/ TabReceives(b) \/ TabWrites(b) \/ TabUnregisters(b) PROVE FALSE
        BY <2>1, <2>7 DEF TabRegisters, TabReceives, TabWrites, TabUnregisters, TabUnchanged, txnsVars
    <2> QED
        BY <2>2, <2>3, <2>4, <2>5, <2>6, <2>7 DEF Next, Web
<1> QED
    BY <1>2, <1>3

\* For any number of connections, transactions and tabs, the views never use a
\* response that is not there yet (web/http.go:153-195, term/http.go:60).
THEOREM ViewsAlwaysUnderstand == Spec => ViewsUnderstand
<1>1. Core /\ [Next]_vars =>
        [\A t \in Txns :
            /\ Bcast!Send("web", t) /\ web' = "in" => t \in resp
            /\ Bcast!Send("term", t) /\ t \in listed => t \in resp]_vars
    BY Understood
<1>2. InspectionInv => Core
    BY DEF InspectionInv
<1> QED
    BY <1>1, <1>2, InspectionInvariant, PTL DEF Spec, ViewsUnderstand

-----------------------------------------------------------------------------
(***************************************************************************)
(* The Controller and the terminal view.                                   *)
(***************************************************************************)

\* Some quit command came after the first.
AnotherQuit == \E q \in Quits \ {1} : termSd[q] # "off"

\* What the first call of TermView.Shutdown knows of TermView.run, as long as
\* there is no other: it waits when run has left its loop, and has finished
\* when run has closed the channel.
ShutdownKnows ==
    \/ AnotherQuit
    \/ /\ termSd[1] = "wait" => tv \in {"unreg", "closed"}
       /\ termSd[1] \in {"done", "panic", "dead"} => tv = "closed"

RestoredInv ==
    /\ DOMAIN termSd = Quits
    /\ run = "newTermView" => tv = "off"
    /\ ShutdownKnows
    /\ TerminalRestored

\* The first quit command is number 1.
LEMMA FirstQuit == 1 \in Quits
BY QuitsAssumption DEF Quits

\* Run receives the first quit command, whose Shutdown is about to send, or one
\* after it; no Shutdown is forgotten (doShutdown, controller.go:101-116).
LEMMA QuitReceived ==
    ASSUME NEW tsd, NEW hsd, DOMAIN termSd = Quits, DOMAIN tsd = Quits,
           ReceiveQuit(tsd, hsd),
           \A q \in Quits : termSd[q] # "off" => tsd[q] # "off"
    PROVE  /\ DOMAIN termSd' = Quits
           /\ AnotherQuit => AnotherQuit'
           /\ AnotherQuit' \/ (termSd'[1] = "send")
<1>1. PICK q \in Quits : termSd' = [tsd EXCEPT ![q] = "send"]
  BY DEF ReceiveQuit
<1>2. DOMAIN termSd' = Quits
  BY <1>1
<1>3. \A r \in Quits : termSd[r] # "off" => termSd'[r] # "off"
  BY <1>1
<1>4. AnotherQuit => AnotherQuit'
  BY <1>3 DEF AnotherQuit
<1>5. CASE q = 1
  BY <1>1, <1>2, <1>4, <1>5
<1>6. CASE q # 1
  <2>1. termSd'[q] # "off"
    BY <1>1
  <2> QED BY <1>2, <1>4, <1>6, <2>1 DEF AnotherQuit
<1> QED BY <1>5, <1>6

\* A quit command that is received leaves the invariant: TermView.run is where
\* it was, and Run goes on.
LEMMA QuitKeepsInvariant ==
    ASSUME NEW tsd, NEW hsd, RestoredInv, DOMAIN tsd = Quits, ReceiveQuit(tsd, hsd),
           \A q \in Quits : termSd[q] # "off" => tsd[q] # "off"
    PROVE  RestoredInv'
<1>1. run' = "select" /\ tv' = tv
  BY DEF ReceiveQuit
<1>2. /\ DOMAIN termSd' = Quits
      /\ AnotherQuit' \/ (termSd'[1] = "send")
  BY QuitReceived DEF RestoredInv
<1> QED BY <1>1, <1>2 DEF RestoredInv, ShutdownKnows, TerminalRestored

\* The invariant holds before NewTermView.
LEMMA ViewsInvariantInit == ViewsInit => RestoredInv
BY FirstQuit DEF ViewsInit, RestoredInv, ShutdownKnows, TerminalRestored

\* It holds after every step of Run, of the views, of their shutdowns and of
\* the goroutines that panic.
LEMMA ViewsInvariantStep == RestoredInv /\ [ViewsNext]_runVars => RestoredInv'
<1> SUFFICES ASSUME RestoredInv, [ViewsNext]_runVars PROVE RestoredInv'
  OBVIOUS
<1> USE DEF RestoredInv, ShutdownKnows, AnotherQuit, TerminalRestored
<1>1. CASE UNCHANGED runVars
  BY <1>1 DEF runVars
<1>2. CASE NewTermView
  BY <1>2 DEF NewTermView
<1>3. CASE RunRegisters \/ RunUpdated \/ RunReturns \/ ModelUpdates
  BY <1>3 DEF RunRegisters, RunUpdated, RunReturns, ModelUpdates
<1>4. CASE TermRegisters \/ TermDraws \/ TermUpdated \/ TermRedraws \/ TermCloses
  BY <1>4 DEF TermRegisters, TermDraws, TermUpdated, TermRedraws, TermCloses
<1>5. CASE PollEvent \/ InputRedraws
  BY <1>5 DEF PollEvent, InputRedraws
<1>6. CASE InputQuits
  BY <1>6, QuitKeepsInvariant DEF InputQuits
<1>7. ASSUME NEW q \in Quits, ReceiveDone(q) PROVE RestoredInv'
  BY <1>7 DEF ReceiveDone
<1>8. ASSUME NEW q \in Quits, ShutdownReceived(q) PROVE RestoredInv'
  <2>1. CASE q = 1
    BY <1>8, <2>1 DEF ShutdownReceived
  <2>2. CASE q # 1
    BY <1>8, <2>2 DEF ShutdownReceived
  <2> QED BY <2>1, <2>2
<1>9. ASSUME NEW q \in Quits, HttpShutdown(q) PROVE RestoredInv'
  BY <1>9 DEF HttpShutdown
<1>10. ASSUME NEW q \in Quits, ShutdownClosed(q) PROVE RestoredInv'
  BY <1>10 DEF ShutdownClosed
<1>11. ASSUME NEW q \in Quits, TermShutdownPanics(q) PROVE RestoredInv'
  <2>1. DOMAIN [termSd EXCEPT ![q] = "dead"] = Quits
    OBVIOUS
  <2>2. \A r \in Quits : termSd[r] # "off" => [termSd EXCEPT ![q] = "dead"][r] # "off"
    OBVIOUS
  <2> QED BY <1>11, <2>1, <2>2, QuitKeepsInvariant DEF TermShutdownPanics
<1>12. ASSUME NEW q \in Quits, HttpShutdownPanics(q) PROVE RestoredInv'
  BY <1>12, QuitKeepsInvariant DEF HttpShutdownPanics
<1>13. ASSUME NEW q \in Quits, NEW r \in Quits, ShutdownCrossed(q, r) PROVE RestoredInv'
  <2>1. AnotherQuit'
    BY <1>13 DEF ShutdownCrossed
  <2> QED BY <1>13, <2>1 DEF ShutdownCrossed
<1> QED
  BY <1>1, <1>2, <1>3, <1>4, <1>5, <1>6, <1>7, <1>8, <1>9, <1>10, <1>11, <1>12,
     <1>13 DEF ViewsNext, Shutdowns

\* Run returns, and ends the program, only when the terminal has been closed,
\* or a second quit command was received (controller.go:106-115,
\* term/view.go:116-121, 147-150).
THEOREM TerminalIsRestored == ViewsSpec => []TerminalRestored
<1>1. RestoredInv => TerminalRestored
  BY DEF RestoredInv
<1> QED BY ViewsInvariantInit, ViewsInvariantStep, <1>1, PTL DEF ViewsSpec

-----------------------------------------------------------------------------
(* Types *)

\* How many have registered with the broadcasts, and so how much is to be sent.
Registered ==
    /\ run = "newTermView" => tv = "off" /\ Len(updl) = 0
    /\ run = "reg" => Len(updl) = 1
    /\ tv \in {"off", "reg"} => Len(redl) = 0
    /\ Len(updl) <= 2 /\ Len(redl) <= 1

\* The parts of the type invariant.
UpdatesOK ==
    /\ updl \in Seq({"term", "run"}) /\ updp \in Seq({"term", "run"} \X {"state"})
    /\ Len(updp) <= 2
RedrawOK ==
    /\ redl \in Seq({"term"}) /\ redp \in Seq({"term"} \X {"redraw"})
    /\ Len(redp) <= 1
QuitsOK ==
    /\ termSd \in [Quits -> {"off", "send", "wait", "done", "panic", "dead"}]
    /\ httpSd \in [Quits -> {"off", "close", "done", "panic", "dead"}]
    /\ told \subseteq Quits /\ httpClosed \in BOOLEAN
PlacesOK ==
    /\ run \in {"newTermView", "reg", "select", "unreg", "returned"}
    /\ tv \in {"off", "reg", "draw", "select", "unreg", "closed"}
    /\ input \in {"off", "poll", "quit", "redraw", "panic", "dead"}

ViewsInv == UpdatesOK /\ RedrawOK /\ QuitsOK /\ PlacesOK /\ Registered

LEMMA ViewsTypesInit == ViewsInit => ViewsInv
<1> SUFFICES ASSUME ViewsInit PROVE ViewsInv
    OBVIOUS
<1>1. updl = <<>> /\ updp = <<>> /\ redl = <<>> /\ redp = <<>>
    BY DEF ViewsInit, Updates!Init, Redraw!Init
<1>2. UpdatesOK /\ RedrawOK
    BY <1>1, EmptySeq DEF UpdatesOK, RedrawOK
<1>3. QuitsOK /\ PlacesOK
    <2>1. httpClosed \in BOOLEAN
        BY Zenon DEF ViewsInit
    <2> QED
        BY <2>1 DEF ViewsInit, QuitsOK, PlacesOK
<1>4. Registered
    BY <1>1, EmptySeq DEF ViewsInit, Registered
<1> QED
    BY <1>2, <1>3, <1>4 DEF ViewsInv

\* What each step makes of the updates, of the redraws, and of the rest.
LEMMA UpdatesStep ==
    ASSUME ViewsInv, [ViewsNext]_runVars
    PROVE  /\ UpdatesOK' /\ Len(updl') <= 2
           /\ run' = "newTermView" => Len(updl') = 0
           /\ run' = "reg" => Len(updl') = 1
<1>1. /\ updl \in Seq({"term", "run"}) /\ updp \in Seq({"term", "run"} \X {"state"})
      /\ Len(updp) <= 2 /\ Len(updl) <= 2 /\ Len(updl) \in Nat /\ Len(updp) \in Nat
      /\ run = "newTermView" => Len(updl) = 0
      /\ run = "reg" => Len(updl) = 1
    BY LenProperties DEF ViewsInv, UpdatesOK, Registered
<1>2. CASE UNCHANGED updlp /\ (run' = run \/ run' \notin {"newTermView", "reg"})
    BY <1>1, <1>2 DEF updlp, UpdatesOK
<1>3. CASE NewTermView
    <2>1. /\ updl' = Append(updl, "term") /\ updp' = updp
          /\ run = "newTermView" /\ run' = "reg"
        BY <1>3 DEF NewTermView, Updates!Reg
    <2>2. Len(updl) = 0
        BY <1>1, <2>1
    <2>3. updl' \in Seq({"term", "run"}) /\ Len(updl') = 1
        BY <1>1, <2>1, <2>2, AppendProperties
    <2>4. UpdatesOK'
        BY <1>1, <2>1, <2>3 DEF UpdatesOK
    <2>5. "reg" # "newTermView"
        OBVIOUS
    <2> QED
        BY <2>1, <2>3, <2>4, <2>5
<1>4. CASE RunRegisters
    <2>1. /\ updl' = Append(updl, "run") /\ updp' = updp
          /\ run = "reg" /\ run' = "select"
        BY <1>4 DEF RunRegisters, Updates!Reg
    <2>2. Len(updl) = 1
        BY <1>1, <2>1
    <2>3. updl' \in Seq({"term", "run"}) /\ Len(updl') = 2
        <3>1. PICK l \in {"term", "run"} : updl' = Append(updl, l)
            BY <2>1
        <3>2. updl' \in Seq({"term", "run"}) /\ Len(updl') = Len(updl) + 1
            BY <1>1, <3>1, AppendProperties
        <3> QED
            BY <2>2, <3>2
    <2>4. UpdatesOK'
        BY <1>1, <2>1, <2>3 DEF UpdatesOK
    <2>5. "select" # "newTermView" /\ "select" # "reg"
        OBVIOUS
    <2> QED
        BY <2>1, <2>3, <2>4, <2>5
<1>5. CASE RunUpdated \/ TermUpdated
    <2>1. updp # <<>> /\ updp' = Tail(updp) /\ updl' = updl /\ run' = run
        BY <1>5 DEF RunUpdated, TermUpdated, Updates!Send, Updates!Idle
    <2>2. updp' \in Seq({"term", "run"} \X {"state"}) /\ Len(updp') = Len(updp) - 1
        BY <1>1, <2>1, HeadTailProperties
    <2> QED
        BY <1>1, <2>1, <2>2 DEF UpdatesOK
<1>6. CASE RunReturns
    <2>1. PICK n \in DOMAIN updl : updl' = SubSeq(updl, 1, n - 1) \o SubSeq(updl, n + 1, Len(updl))
        BY <1>6 DEF RunReturns, Updates!UnReg, Updates!RemoveAt
    <2>2. updl' \in Seq({"term", "run"}) /\ Len(updl') = Len(updl) - 1
        BY <1>1, <2>1, Unlisted
    <2>3. updp' = updp /\ run' = "returned"
        BY <1>6 DEF RunReturns, Updates!UnReg
    <2> QED
        BY <1>1, <2>2, <2>3 DEF UpdatesOK
<1>7. CASE ModelUpdates
    <2>1. updp' = [n \in DOMAIN updl |-> <<updl[n], "state">>] /\ updl' = updl /\ run' = run
        BY <1>7 DEF ModelUpdates, Updates!In
    <2>2. updp' \in Seq({"term", "run"} \X {"state"}) /\ Len(updp') = Len(updl)
        BY <1>1, <2>1, ToEach
    <2> QED
        BY <1>1, <2>1, <2>2 DEF UpdatesOK
<1>8. CASE TermRegisters \/ TermDraws \/ TermRedraws \/ TermCloses \/ PollEvent \/ InputRedraws
    BY <1>2, <1>8 DEF TermRegisters, TermDraws, TermRedraws, TermCloses, PollEvent, InputRedraws
<1>9. \A tsd, hsd : ReceiveQuit(tsd, hsd) => UNCHANGED updlp /\ run' = run
    BY DEF ReceiveQuit
<1>10. CASE InputQuits
    BY <1>2, <1>9, <1>10 DEF InputQuits
<1>11. ASSUME NEW q \in Quits,
              \/ ReceiveDone(q) \/ ShutdownReceived(q) \/ Shutdowns(q)
              \/ \E r \in Quits : ShutdownCrossed(q, r)
       PROVE  UNCHANGED updlp /\ (run' = run \/ run' \notin {"newTermView", "reg"})
    BY <1>9, <1>11 DEF ReceiveDone, ShutdownReceived, ShutdownCrossed, Shutdowns, HttpShutdown,
                       ShutdownClosed, TermShutdownPanics, HttpShutdownPanics
<1>12. CASE UNCHANGED runVars
    BY <1>2, <1>12 DEF runVars
<1> QED
    BY <1>2, <1>3, <1>4, <1>5, <1>6, <1>7, <1>8, <1>10, <1>11, <1>12
       DEF ViewsNext

LEMMA RedrawStep ==
    ASSUME ViewsInv, [ViewsNext]_runVars
    PROVE  /\ RedrawOK' /\ Len(redl') <= 1
           /\ run' = "newTermView" => tv' = "off"
           /\ tv' \in {"off", "reg"} => Len(redl') = 0
<1>1. /\ redl \in Seq({"term"}) /\ redp \in Seq({"term"} \X {"redraw"})
      /\ Len(redp) <= 1 /\ Len(redl) <= 1 /\ Len(redl) \in Nat /\ Len(redp) \in Nat
      /\ run = "newTermView" => tv = "off"
      /\ tv \in {"off", "reg"} => Len(redl) = 0
    BY LenProperties DEF ViewsInv, RedrawOK, Registered
<1>2. CASE /\ UNCHANGED redlp
           /\ run' = run \/ run' # "newTermView"
           /\ tv' = tv \/ tv' \notin {"off", "reg"} \/ (tv = "off" /\ tv' = "reg")
           /\ run' = "newTermView" => tv' = tv
    BY <1>1, <1>2 DEF redlp, RedrawOK
<1>3. CASE TermRegisters
    <2>1. redl' = Append(redl, "term") /\ redp' = redp /\ tv = "reg" /\ tv' = "draw" /\ run' = run
        BY <1>3 DEF TermRegisters, Redraw!Reg
    <2>2. redl' \in Seq({"term"}) /\ Len(redl') = Len(redl) + 1
        BY <1>1, <2>1, AppendProperties
    <2> QED
        BY <1>1, <2>1, <2>2 DEF RedrawOK
<1>4. CASE TermRedraws
    <2>1. redp # <<>> /\ redp' = Tail(redp) /\ redl' = redl /\ run' = run /\ tv = "select" /\ tv' = "draw"
        BY <1>4 DEF TermRedraws, Redraw!Send, Redraw!Idle
    <2>2. redp' \in Seq({"term"} \X {"redraw"}) /\ Len(redp') = Len(redp) - 1
        BY <1>1, <2>1, HeadTailProperties
    <2> QED
        BY <1>1, <2>1, <2>2 DEF RedrawOK
<1>5. CASE TermCloses
    <2>1. PICK n \in DOMAIN redl : redl' = SubSeq(redl, 1, n - 1) \o SubSeq(redl, n + 1, Len(redl))
        BY <1>5 DEF TermCloses, Redraw!UnReg, Redraw!RemoveAt
    <2>2. redl' \in Seq({"term"}) /\ Len(redl') = Len(redl) - 1
        BY <1>1, <2>1, Unlisted
    <2>3. redp' = redp /\ tv = "unreg" /\ tv' = "closed" /\ run' = run
        BY <1>5 DEF TermCloses, Redraw!UnReg
    <2> QED
        BY <1>1, <2>2, <2>3 DEF RedrawOK
<1>6. CASE InputRedraws
    <2>1. redp' = [n \in DOMAIN redl |-> <<redl[n], "redraw">>] /\ redl' = redl /\ run' = run /\ tv' = tv
        BY <1>6 DEF InputRedraws, Redraw!In
    <2>2. redp' \in Seq({"term"} \X {"redraw"}) /\ Len(redp') = Len(redl)
        BY <1>1, <2>1, ToEach
    <2> QED
        BY <1>1, <2>1, <2>2 DEF RedrawOK
<1>7. CASE NewTermView \/ RunRegisters \/ RunUpdated \/ RunReturns \/ ModelUpdates
    BY <1>1, <1>2, <1>7 DEF NewTermView, RunRegisters, RunUpdated, RunReturns, ModelUpdates
<1>8. CASE TermDraws \/ TermUpdated \/ PollEvent
    BY <1>1, <1>2, <1>8 DEF TermDraws, TermUpdated, PollEvent
<1>9. \A tsd, hsd : ReceiveQuit(tsd, hsd) => UNCHANGED redlp /\ tv' = tv /\ run' = run
    BY DEF ReceiveQuit
<1>10. CASE InputQuits
    BY <1>2, <1>9, <1>10 DEF InputQuits
<1>11. ASSUME NEW q \in Quits,
              \/ ReceiveDone(q) \/ ShutdownReceived(q) \/ Shutdowns(q)
              \/ \E r \in Quits : ShutdownCrossed(q, r)
       PROVE  /\ UNCHANGED redlp
              /\ run' = run \/ run' # "newTermView"
              /\ tv' = tv \/ (tv = "select" /\ tv' = "unreg" /\ run' = run)
    BY <1>9, <1>11 DEF ReceiveDone, ShutdownReceived, ShutdownCrossed, Shutdowns, HttpShutdown,
                       ShutdownClosed, TermShutdownPanics, HttpShutdownPanics
<1>12. CASE UNCHANGED runVars
    BY <1>2, <1>12 DEF runVars
<1> QED
    BY <1>1, <1>2, <1>3, <1>4, <1>5, <1>6, <1>7, <1>8, <1>10, <1>11, <1>12 DEF ViewsNext

\* A quit command that is received, and what it finds.
LEMMA QuitTypes ==
    ASSUME QuitsOK, NEW tsd, NEW hsd, ReceiveQuit(tsd, hsd),
           tsd \in [Quits -> {"off", "send", "wait", "done", "panic", "dead"}],
           hsd \in [Quits -> {"off", "close", "done", "panic", "dead"}]
    PROVE  /\ termSd' \in [Quits -> {"off", "send", "wait", "done", "panic", "dead"}]
           /\ httpSd' \in [Quits -> {"off", "close", "done", "panic", "dead"}]
           /\ UNCHANGED <<run, tv, told>>
<1>1. PICK q \in Quits : termSd' = [tsd EXCEPT ![q] = "send"] /\ httpSd' = [hsd EXCEPT ![q] = "close"]
    BY DEF ReceiveQuit
<1> QED
    BY <1>1 DEF ReceiveQuit

LEMMA QuitsStep ==
    ASSUME ViewsInv, [ViewsNext]_runVars
    PROVE  QuitsOK' /\ PlacesOK'
<1>1. /\ termSd \in [Quits -> {"off", "send", "wait", "done", "panic", "dead"}]
      /\ httpSd \in [Quits -> {"off", "close", "done", "panic", "dead"}]
      /\ told \subseteq Quits /\ httpClosed \in BOOLEAN /\ QuitsOK /\ PlacesOK
    BY DEF ViewsInv, QuitsOK
<1>2. CASE UNCHANGED <<termSd, httpSd, told, httpClosed>> /\ PlacesOK'
    BY <1>1, <1>2 DEF QuitsOK
<1>3. CASE NewTermView \/ RunRegisters \/ RunUpdated \/ RunReturns \/ ModelUpdates
    BY <1>1, <1>2, <1>3 DEF NewTermView, RunRegisters, RunUpdated, RunReturns, ModelUpdates, PlacesOK
<1>4. CASE TermRegisters \/ TermDraws \/ TermUpdated \/ TermRedraws \/ TermCloses
    BY <1>1, <1>2, <1>4 DEF TermRegisters, TermDraws, TermUpdated, TermRedraws, TermCloses, PlacesOK
<1>5. CASE PollEvent \/ InputRedraws
    BY <1>1, <1>2, <1>5 DEF PollEvent, InputRedraws, PlacesOK
<1>6. CASE InputQuits
    <2>1. ReceiveQuit(termSd, httpSd) /\ UNCHANGED httpClosed /\ input' \in {"poll", "dead"}
        BY <1>6 DEF InputQuits
    <2> QED
        BY <1>1, <2>1, QuitTypes DEF QuitsOK, PlacesOK
<1>7. ASSUME NEW q \in Quits, ReceiveDone(q) PROVE QuitsOK' /\ PlacesOK'
    BY <1>1, <1>7 DEF ReceiveDone, QuitsOK, PlacesOK
<1>8. ASSUME NEW q \in Quits, ShutdownReceived(q) PROVE QuitsOK' /\ PlacesOK'
    BY <1>1, <1>8 DEF ShutdownReceived, QuitsOK, PlacesOK
<1>9. ASSUME NEW q \in Quits, HttpShutdown(q) PROVE QuitsOK' /\ PlacesOK'
    <2>1. httpClosed' \in BOOLEAN
        BY <1>9, Zenon DEF HttpShutdown
    <2> QED
        BY <1>1, <1>9, <2>1 DEF HttpShutdown, QuitsOK, PlacesOK
<1>10. ASSUME NEW q \in Quits, ShutdownClosed(q) PROVE QuitsOK' /\ PlacesOK'
    BY <1>1, <1>10 DEF ShutdownClosed, QuitsOK, PlacesOK
<1>11. ASSUME NEW q \in Quits, TermShutdownPanics(q) \/ HttpShutdownPanics(q)
       PROVE  QuitsOK' /\ PlacesOK'
    <2>1. UNCHANGED <<input, httpClosed>>
        BY <1>11 DEF TermShutdownPanics, HttpShutdownPanics
    <2>2. CASE TermShutdownPanics(q)
        <3>1. [termSd EXCEPT ![q] = "dead"] \in [Quits -> {"off", "send", "wait", "done", "panic", "dead"}]
            BY <1>1
        <3> QED
            BY <1>1, <2>1, <2>2, <3>1, QuitTypes DEF TermShutdownPanics, QuitsOK, PlacesOK
    <2>3. CASE HttpShutdownPanics(q)
        <3>1. [httpSd EXCEPT ![q] = "dead"] \in [Quits -> {"off", "close", "done", "panic", "dead"}]
            BY <1>1
        <3> QED
            BY <1>1, <2>1, <2>3, <3>1, QuitTypes DEF HttpShutdownPanics, QuitsOK, PlacesOK
    <2> QED
        BY <1>11, <2>2, <2>3
<1>12. ASSUME NEW q \in Quits, NEW r \in Quits, ShutdownCrossed(q, r) PROVE QuitsOK' /\ PlacesOK'
    BY <1>1, <1>12 DEF ShutdownCrossed, QuitsOK, PlacesOK
<1>13. CASE UNCHANGED runVars
    BY <1>1, <1>2, <1>13 DEF runVars, PlacesOK
<1> QED
    BY <1>3, <1>4, <1>5, <1>6, <1>7, <1>8, <1>9, <1>10, <1>11, <1>12, <1>13
       DEF ViewsNext, Shutdowns

\* However many quit commands there are, no broadcast has more to send than
\* those that have registered, and every place is one that the code has.
THEOREM ViewsTypeCorrect == ViewsSpec => []ViewsTypeOK
<1>1. ViewsInv /\ [ViewsNext]_runVars => ViewsInv'
    BY UpdatesStep, RedrawStep, QuitsStep DEF ViewsInv, Registered
<1>2. ViewsInv => ViewsTypeOK
    BY DEF ViewsInv, UpdatesOK, RedrawOK, QuitsOK, PlacesOK, ViewsTypeOK, Updates!TypeOK,
           Redraw!TypeOK
<1> QED
    BY ViewsTypesInit, <1>1, <1>2, PTL DEF ViewsSpec

-----------------------------------------------------------------------------
(***************************************************************************)
(* The configuration.                                                      *)
(***************************************************************************)

\* The addresses that net.SplitHostPort accepts, and the host in each.
LEMMA HostsIn ==
    /\ \A addr : Splits(addr) <=> addr \in {":p", "h:p", "l:p", "[v6]:p"}
    /\ HostIn[":p"] = "" /\ HostIn["h:p"] = "h" /\ HostIn["l:p"] = "l" /\ HostIn["[v6]:p"] = "v6"
  BY DEF Splits, HostIn

LEMMA HostsJoined ==
    /\ Joined["h"] = "h:p" /\ Joined["l"] = "l:p" /\ Joined["v6"] = "v6:p"
    /\ Range(Joined) = {"h:p", "l:p", "v6:p"}
<1>1. DOMAIN Joined = {"h", "l", "v6"}
    BY DEF Joined
<1>2. Joined["h"] = "h:p" /\ Joined["l"] = "l:p" /\ Joined["v6"] = "v6:p"
    BY DEF Joined
<1>3. QED
    BY <1>1, <1>2 DEF Range

\* What normalizeAddress makes of an address.
LEMMA Normalizes ==
    ASSUME NEW addr
    PROVE  /\ normalizeAddress(addr) \in {"h:p", "l:p", "v6:p", "error"}
           /\ normalizeAddress(addr) # "error" => normalizeAddress(addr) \in Range(Joined)
  BY HostsIn, HostsJoined DEF normalizeAddress, HostOr127, WithColon

\* A tunnel always gets a public name.
LEMMA Names ==
    ASSUME NEW name, NEW t, t.public \in PublicNames
    PROVE  /\ NamedTunnel(name, t).public \in {"hostname", "subdomain"}
           /\ NamedTunnel(name, t).protocols =
                 [p \in DOMAIN t.protocols |-> normalizeAddress(t.protocols[p])]
<1> DEFINE name2 == IF t.public # "" THEN t.public
                    ELSE IF name \in Dotted THEN "hostname" ELSE "subdomain"
           addrs == [p \in DOMAIN t.protocols |-> normalizeAddress(t.protocols[p])]
<1>1. name2 \in {"hostname", "subdomain"}
    BY DEF PublicNames
<1>2. NamedTunnel(name, t) = [public |-> name2, protocols |-> addrs]
    BY DEF NamedTunnel
<1> HIDE DEF name2, addrs
<1>3. NamedTunnel(name, t).public = name2 /\ NamedTunnel(name, t).protocols = addrs
    BY <1>2
<1> QED
    BY <1>1, <1>3 DEF addrs

\* What LoadConfiguration checks and returns of the file's settings.
LEMMA FileConfigures ==
    ASSUME NEW s, IsSettings(s), ValidSettings(Normalized(WithDefaults(s)))
    PROVE  LET got == Normalized(WithDefaults(s))
           IN  /\ IsConfiguration(got)
               /\ \A k \in DOMAIN got.tunnels :
                     got.tunnels[k].public # "" /\ ValidTunnel(got.tunnels[k])
<1> DEFINE got == Normalized(WithDefaults(s))
<1>1. PICK addr1, addr2 :
        got = [token |-> s.token, server |-> normalizeAddress(addr1),
               inspect |-> IF addr2 = "disabled" THEN "disabled" ELSE normalizeAddress(addr2),
               proxy |-> got.proxy,
               tunnels |-> [k \in DOMAIN s.tunnels |-> NamedTunnel(k, s.tunnels[k])]]
    BY DEF Normalized, WithDefaults
<1> HIDE DEF got
<1>2. ValidSettings(got)
    BY DEF got
<1>3. /\ got.server \in Range(Joined) /\ got.inspect \in Range(Joined) \cup {"disabled"}
      /\ got.proxy \in {"", "http", "https"}
    <2>1. got.server = normalizeAddress(addr1)
        BY <1>1
    <2>2. got.inspect \in {"disabled", normalizeAddress(addr2)}
        BY <1>1
    <2> QED
        BY <1>2, <2>1, <2>2, Normalizes DEF ValidSettings
<1>4. ASSUME NEW k \in DOMAIN got.tunnels
      PROVE  /\ got.tunnels[k].public \in {"hostname", "subdomain"}
             /\ ValidTunnel(got.tunnels[k])
             /\ Range(got.tunnels[k].protocols) \subseteq Range(Joined)
    <2>1. k \in DOMAIN s.tunnels /\ got.tunnels[k] = NamedTunnel(k, s.tunnels[k])
        BY <1>1, <1>4
    <2>2. got.tunnels[k].public \in {"hostname", "subdomain"}
        BY <2>1, Names DEF IsSettings
    <2>3. ValidTunnel(got.tunnels[k])
        BY <1>2, <1>4 DEF ValidSettings
    <2>4. got.tunnels[k].protocols = [p \in DOMAIN s.tunnels[k].protocols |->
                                         normalizeAddress(s.tunnels[k].protocols[p])]
        BY <2>1, Names DEF IsSettings
    <2>5. Range(got.tunnels[k].protocols) \subseteq Range(Joined)
        BY <2>3, <2>4, Normalizes DEF ValidTunnel, Range
    <2> QED
        BY <2>2, <2>3, <2>5
<1>5. IsSettings(got)
    <2>1. got = [token |-> got.token, server |-> got.server, inspect |-> got.inspect,
                 proxy |-> got.proxy, tunnels |-> got.tunnels]
        BY <1>1
    <2>2. \A k \in DOMAIN got.tunnels : got.tunnels[k].public \in PublicNames
        BY <1>4 DEF PublicNames
    <2> QED
        BY <2>1, <2>2 DEF IsSettings
<1> QED
    BY <1>3, <1>4, <1>5 DEF IsConfiguration, got

\* What a client is asked for, and what it has been given.
AsAsked(inv, s) ==
    /\ inv.authtoken # "" => s.token = inv.authtoken
    /\ Command(inv) = "default" => DOMAIN s.tunnels = {"default"}
    /\ Command(inv) = "start" => DOMAIN s.tunnels = Args(inv)
    /\ \A k \in DOMAIN s.tunnels :
        /\ s.tunnels[k].public # "" \/ Command(inv) = "default"
        /\ DOMAIN s.tunnels[k].protocols # {}
        /\ \A addr \in Range(s.tunnels[k].protocols) : Splits(addr) \/ addr = "v6:p"

\* The one tunnel of a command line that names none.
LEMMA CommandLineTunnel ==
    ASSUME NEW inv, inv.public \in PublicNames, ValidTunnel(OnlyTunnel(inv))
    PROVE  /\ OnlyTunnel(inv).public \in PublicNames
           /\ Range(OnlyTunnel(inv).protocols) \subseteq Range(Joined)
<1> DEFINE name == inv.public
           addrs == [p \in inv.protocols |-> normalizeAddress(inv.argv[1])]
<1>1. OnlyTunnel(inv) = [public |-> name, protocols |-> addrs]
    BY DEF OnlyTunnel
<1> HIDE DEF name, addrs
<1>2. OnlyTunnel(inv).public = name /\ OnlyTunnel(inv).protocols = addrs
    BY <1>1
<1>3. \A addr \in Range(addrs) : addr = normalizeAddress(inv.argv[1])
    BY DEF addrs, Range
<1>4. "error" \notin Range(addrs)
    BY <1>2 DEF ValidTunnel
<1> QED
    BY <1>2, <1>3, <1>4, Normalizes DEF name

\* Chosen drops what was not asked for and nothing else.
LEMMA Chooses ==
    ASSUME NEW inv, NEW tunnels, Possible(inv, tunnels)
    PROVE  LET chosen == Chosen(inv, tunnels)
           IN  /\ Command(inv) = "default" => /\ DOMAIN chosen = {"default"}
                                              /\ chosen["default"] = OnlyTunnel(inv)
                                              /\ ValidTunnel(OnlyTunnel(inv))
               /\ Command(inv) = "start" => DOMAIN chosen = Args(inv)
               /\ Command(inv) # "default" =>
                     \A k \in DOMAIN chosen : k \in DOMAIN tunnels /\ chosen[k] = tunnels[k]
<1>1. CASE Command(inv) = "default"
    BY <1>1 DEF Chosen, Possible
<1>2. CASE Command(inv) = "start"
    BY <1>2 DEF Chosen, Possible, Restrict
<1>3. CASE Command(inv) \notin {"default", "start"}
    BY <1>3 DEF Chosen, Possible
<1> QED
    BY <1>1, <1>2, <1>3

\* A tunnel that has been checked has addresses, and they can be dialled or
\* are those of an IPv6 host.
LEMMA Diallable ==
    ASSUME NEW t, ValidTunnel(t), Range(t.protocols) \subseteq Range(Joined)
    PROVE  /\ DOMAIN t.protocols # {}
           /\ \A addr \in Range(t.protocols) : Splits(addr) \/ addr = "v6:p"
  BY HostsIn, HostsJoined DEF ValidTunnel

\* What a client starts with is a configuration, and the one that was asked for.
LEMMA LoadedAsAsked ==
    ASSUME NEW inv \in Invocations, IsFile(file), Loads(inv)
    PROVE  LET s == LoadConfiguration(inv)
           IN  IsConfiguration(s) /\ AsAsked(inv, s)
<1> DEFINE got == Normalized(WithDefaults(file.says))
           s == LoadConfiguration(inv)
<1>1. /\ IsSettings(file.says) /\ ValidSettings(got) /\ Possible(inv, got.tunnels)
      /\ inv.public \in PublicNames
    BY InvocationsAssumption DEF IsFile, Loads
<1>2. /\ IsConfiguration(got)
      /\ \A k \in DOMAIN got.tunnels : got.tunnels[k].public # "" /\ ValidTunnel(got.tunnels[k])
    BY <1>1, FileConfigures
<1>3. s = [got EXCEPT !.token = IF inv.authtoken # "" THEN inv.authtoken ELSE got.token,
                      !.tunnels = Chosen(inv, got.tunnels)]
    BY DEF LoadConfiguration
<1> HIDE DEF got, s
<1>4. /\ got = [token |-> got.token, server |-> got.server, inspect |-> got.inspect,
                proxy |-> got.proxy, tunnels |-> got.tunnels]
      /\ \A k \in DOMAIN got.tunnels : got.tunnels[k].public \in PublicNames
    BY <1>2 DEF IsConfiguration, IsSettings
<1>5. /\ s = [token |-> s.token, server |-> s.server, inspect |-> s.inspect,
              proxy |-> s.proxy, tunnels |-> s.tunnels]
      /\ s.server = got.server /\ s.inspect = got.inspect /\ s.proxy = got.proxy
      /\ s.tunnels = Chosen(inv, got.tunnels)
      /\ inv.authtoken # "" => s.token = inv.authtoken
    BY <1>3, <1>4
<1>6. /\ Command(inv) = "default" => /\ DOMAIN s.tunnels = {"default"}
                                     /\ s.tunnels["default"] = OnlyTunnel(inv)
                                     /\ ValidTunnel(OnlyTunnel(inv))
      /\ Command(inv) = "start" => DOMAIN s.tunnels = Args(inv)
      /\ Command(inv) # "default" =>
            \A k \in DOMAIN s.tunnels : k \in DOMAIN got.tunnels /\ s.tunnels[k] = got.tunnels[k]
    <2>1. Possible(inv, got.tunnels)
        BY <1>1
    <2>2. s.tunnels = Chosen(inv, got.tunnels)
        BY <1>5
    <2> QED
        BY <2>1, <2>2, Chooses
<1>7. ASSUME NEW k \in DOMAIN s.tunnels
      PROVE  /\ s.tunnels[k].public \in PublicNames
             /\ s.tunnels[k].public # "" \/ Command(inv) = "default"
             /\ ValidTunnel(s.tunnels[k])
             /\ Range(s.tunnels[k].protocols) \subseteq Range(Joined)
    <2>1. CASE Command(inv) = "default"
        <3>1. s.tunnels[k] = OnlyTunnel(inv) /\ ValidTunnel(OnlyTunnel(inv))
            BY <1>6, <1>7, <2>1
        <3> QED
            BY <1>1, <2>1, <3>1, CommandLineTunnel
    <2>2. CASE Command(inv) # "default"
        <3>1. k \in DOMAIN got.tunnels /\ s.tunnels[k] = got.tunnels[k]
            BY <1>6, <1>7, <2>2
        <3> QED
            BY <1>2, <1>4, <3>1 DEF IsConfiguration
    <2> QED
        BY <2>1, <2>2
<1>8. IsConfiguration(s)
    BY <1>2, <1>5, <1>7 DEF IsConfiguration, IsSettings
<1>9. AsAsked(inv, s)
    <2>1. /\ Command(inv) = "default" => DOMAIN s.tunnels = {"default"}
          /\ Command(inv) = "start" => DOMAIN s.tunnels = Args(inv)
        BY <1>6
    <2>2. \A k \in DOMAIN s.tunnels :
              /\ DOMAIN s.tunnels[k].protocols # {}
              /\ \A addr \in Range(s.tunnels[k].protocols) : Splits(addr) \/ addr = "v6:p"
        BY <1>7, Diallable
    <2> QED
        BY <1>5, <1>7, <2>1, <2>2 DEF AsAsked
<1> QED
    BY <1>8, <1>9 DEF s

-----------------------------------------------------------------------------
(* The invariant *)

\* As long as the saves have not met anything that spoils them: what one is
\* about to write is what the file should be, but for the token.
CopiesAgree ==
    ~spoilt => \A c \in Clients : Saving(c) =>
        copy[c] = [due.says EXCEPT !.token = copy[c].token]

\* The inductive invariant.
ConfigInv == ConfigTypeOK /\ RunsAsAsked /\ SavesOnlyToken /\ CopiesAgree

\* What each client runs with.
Runs(c) == proc[c] # "off" => /\ AsAsked(conf[c].inv, conf[c].settings)
                              /\ proc[c] = "panic" <=> conf[c].settings.server = "v6:p"

LEMMA RunsForEach == RunsAsAsked <=> \A c \in Clients : Runs(c)
  BY DEF RunsAsAsked, Runs, AsAsked

\* Settings with another token.
LEMMA OtherToken ==
    ASSUME NEW s, IsSettings(s), NEW k
    PROVE  /\ IsSettings([s EXCEPT !.token = k]) /\ [s EXCEPT !.token = k].token = k
           /\ \A j : [[s EXCEPT !.token = k] EXCEPT !.token = j] = [s EXCEPT !.token = j]
           /\ [s EXCEPT !.token = s.token] = s
<1> DEFINE new == [s EXCEPT !.token = k]
<1>1. s = [token |-> s.token, server |-> s.server, inspect |-> s.inspect,
           proxy |-> s.proxy, tunnels |-> s.tunnels]
    BY DEF IsSettings
<1>2. new = [token |-> k, server |-> s.server, inspect |-> s.inspect,
             proxy |-> s.proxy, tunnels |-> s.tunnels]
    BY <1>1
<1> HIDE DEF new
<1>3. \A j : /\ [s EXCEPT !.token = j] = [token |-> j, server |-> s.server, inspect |-> s.inspect,
                                          proxy |-> s.proxy, tunnels |-> s.tunnels]
             /\ [new EXCEPT !.token = j] = [token |-> j, server |-> s.server, inspect |-> s.inspect,
                                            proxy |-> s.proxy, tunnels |-> s.tunnels]
    BY <1>1, <1>2
<1>4. new.tunnels = s.tunnels
    BY <1>2
<1>5. IsSettings(new)
    BY <1>2, <1>4 DEF IsSettings
<1> QED
    BY <1>1, <1>2, <1>3, <1>5 DEF new

LEMMA BlankSettings == IsSettings(Blank) /\ IsFile(Truncated)
<1>1. DOMAIN Blank.tunnels = {}
    BY DEF Blank
<1>2. IsSettings(Blank)
    BY <1>1 DEF IsSettings, Blank
<1> QED
    BY <1>2 DEF IsFile, Truncated, File

LEMMA ConfigInvariantInit == ConfigInit => ConfigInv
<1> SUFFICES ASSUME ConfigInit PROVE ConfigInv
    OBVIOUS
<1>1. IsFile(file) /\ due = file
    BY WrittenAssumption DEF ConfigInit
<1>2. ConfigTypeOK
    <2>1. conf = [c \in Clients |-> [inv |-> conf[c].inv, settings |-> conf[c].settings]]
        BY DEF ConfigInit, Idle
    <2>2. /\ copy = [c \in Clients |-> copy[c]]
          /\ \A c \in Clients : proc[c] = "off" /\ IsSettings(copy[c])
        BY BlankSettings DEF ConfigInit
    <2>3. /\ proc \in [Clients -> {"off", "panic", "connecting", "truncate", "write", "connected"}]
          /\ spoilt \in BOOLEAN /\ edits \in 0..MaxEdits /\ starts \in 0..MaxStarts
        <3>1. spoilt \in BOOLEAN /\ edits = 0 /\ starts = 0 /\ proc = [c \in Clients |-> "off"]
            BY Zenon DEF ConfigInit
        <3> QED
            BY <3>1, BoundsAssumption
    <2> QED
        BY <1>1, <2>1, <2>2, <2>3 DEF ConfigTypeOK
<1>3. RunsAsAsked
    BY RunsForEach DEF ConfigInit, Runs
<1>4. SavesOnlyToken /\ CopiesAgree
    BY <1>1 DEF ConfigInit, SavesOnlyToken, CopiesAgree, Saving
<1> QED
    BY <1>2, <1>3, <1>4 DEF ConfigInv

Places == {"off", "panic", "connecting", "truncate", "write", "connected"}

\* The steps after Start: what becomes of types when a client goes on.
LEMMA GoesOn ==
    ASSUME ConfigTypeOK, NEW c \in Clients, NEW x \in Places, proc' = [proc EXCEPT ![c] = x],
           conf' = conf /\ (x # "off" => proc[c] # "off"),
           copy' = copy \/ \E s : IsSettings(s) /\ copy' = [copy EXCEPT ![c] = s],
           IsFile(file)' /\ IsFile(due)', spoilt' \in BOOLEAN, UNCHANGED <<edits, starts>>
    PROVE  ConfigTypeOK'
<1>1. proc' \in [Clients -> Places]
    BY DEF ConfigTypeOK, Places
<1>2. \A d \in Clients : proc'[d] # "off" => IsConfiguration(conf'[d].settings)
    BY DEF ConfigTypeOK
<1>3. (copy = [d \in Clients |-> copy[d]])' /\ \A d \in Clients : IsSettings(copy'[d])
    <2>1. copy = [d \in Clients |-> copy[d]] /\ \A d \in Clients : IsSettings(copy[d])
        BY DEF ConfigTypeOK
    <2> QED
        BY <2>1
<1>4. (conf = [d \in Clients |-> [inv |-> conf[d].inv, settings |-> conf[d].settings]])'
    BY DEF ConfigTypeOK
<1>5. edits' \in 0..MaxEdits /\ starts' \in 0..MaxStarts
    BY DEF ConfigTypeOK
<1> QED
    BY <1>1, <1>2, <1>3, <1>4, <1>5 DEF ConfigTypeOK, Places

\* TokenRead goes on to truncate or is done.
LEMMA TokenReadGoesOn ==
    ASSUME ConfigTypeOK, NEW c \in Clients, NEW s, IsSettings(s), TokenRead(c, s)
    PROVE  /\ \E x \in Places : x # "off" /\ proc' = [proc EXCEPT ![c] = x]
           /\ copy' = copy \/ \E r : IsSettings(r) /\ copy' = [copy EXCEPT ![c] = r]
<1>1. CASE s.token = conf[c].settings.token
    BY <1>1 DEF TokenRead, Places
<1>2. CASE s.token # conf[c].settings.token
    <2>1. IsSettings([s EXCEPT !.token = conf[c].settings.token])
        BY OtherToken
    <2> QED
        BY <1>2, <2>1 DEF TokenRead, Places
<1> QED
    BY <1>1, <1>2

LEMMA ConfigTypeStep == ConfigTypeOK /\ [ConfigNext]_configVars => ConfigTypeOK'
<1> SUFFICES ASSUME ConfigTypeOK, [ConfigNext]_configVars PROVE ConfigTypeOK'
    OBVIOUS
<1>1. /\ IsFile(file) /\ IsFile(due) /\ IsSettings(file.says) /\ IsSettings(due.says)
      /\ \A c \in Clients : IsSettings(copy[c])
      /\ proc \in [Clients -> Places] /\ spoilt \in BOOLEAN
    BY DEF ConfigTypeOK, IsFile, Places
<1>2. CASE UNCHANGED configVars
    BY <1>2 DEF configVars, hist, ConfigTypeOK
<1>3. CASE UserEdits
    <2>1. IsFile(file)' /\ IsFile(due)'
        BY <1>3, WrittenAssumption DEF UserEdits
    <2>2. edits' \in 0..MaxEdits /\ spoilt' \in BOOLEAN
        <3>1. spoilt' \in BOOLEAN /\ edits < MaxEdits /\ edits' = edits + 1
            BY <1>3, Zenon DEF UserEdits
        <3> QED
            BY <3>1, BoundsAssumption DEF ConfigTypeOK
    <2> QED
        BY <1>3, <2>1, <2>2 DEF UserEdits, ConfigTypeOK
<1>4. ASSUME NEW c \in Clients, NEW inv \in Invocations, Start(c, inv) PROVE ConfigTypeOK'
    <2> DEFINE s == LoadConfiguration(inv)
               x == IF NoServerName(s.server) THEN "panic" ELSE "connecting"
    <2>1. /\ proc' = [proc EXCEPT ![c] = x] /\ conf' = [conf EXCEPT ![c] = [inv |-> inv, settings |-> s]]
          /\ UNCHANGED <<file, copy, due, spoilt, edits>> /\ starts < MaxStarts /\ starts' = starts + 1
        BY <1>4 DEF Start, hist
    <2>2. IsConfiguration(s)
        BY <1>1, <1>4, LoadedAsAsked DEF Start
    <2> HIDE DEF s, x
    <2>3. starts' \in 0..MaxStarts
        BY <2>1, BoundsAssumption DEF ConfigTypeOK
    <2>4. \A d \in Clients : proc'[d] # "off" => IsConfiguration(conf'[d].settings)
        BY <2>1, <2>2 DEF ConfigTypeOK
    <2>5. (conf = [d \in Clients |-> [inv |-> conf[d].inv, settings |-> conf[d].settings]])'
        BY <2>1 DEF ConfigTypeOK
    <2>6. proc' \in [Clients -> Places]
        BY <1>1, <2>1 DEF x, Places
    <2> QED
        BY <2>1, <2>3, <2>4, <2>5, <2>6 DEF ConfigTypeOK, Places
<1>5. ASSUME NEW c \in Clients, SaveReads(c) \/ SaveCannotRead(c) PROVE ConfigTypeOK'
    <2>1. PICK s : IsSettings(s) /\ TokenRead(c, s)
        BY <1>1, <1>5, BlankSettings DEF SaveReads, SaveCannotRead
    <2>2. UNCHANGED <<file, conf, due, edits, starts>> /\ spoilt' \in BOOLEAN /\ proc[c] # "off"
        BY <1>1, <1>5, Zenon DEF SaveReads, SaveCannotRead
    <2> QED
        BY <1>1, <2>1, <2>2, TokenReadGoesOn, GoesOn
<1>6. ASSUME NEW c \in Clients, SaveRefuses(c) \/ Reconnect(c) PROVE ConfigTypeOK'
    BY <1>1, <1>6, GoesOn DEF SaveRefuses, Reconnect, hist, Places
<1>7. ASSUME NEW c \in Clients, SaveTruncates(c) PROVE ConfigTypeOK'
    BY <1>1, <1>7, GoesOn, BlankSettings DEF SaveTruncates, hist, Places
<1>8. ASSUME NEW c \in Clients, SaveFails(c) PROVE ConfigTypeOK'
    <2>1. spoilt' \in BOOLEAN
        BY <1>8, Zenon DEF SaveFails
    <2> QED
        BY <1>1, <1>8, <2>1, GoesOn DEF SaveFails, Saving, Places
<1>9. ASSUME NEW c \in Clients, SaveWrites(c) PROVE ConfigTypeOK'
    <2>1. \A s : IsSettings(s) => IsFile(File("yaml", s))
        BY DEF IsFile, File
    <2>2. IsFile(File("malformed", Blank))
        <3>1. Blank = [Blank EXCEPT !.token = Blank.token]
            BY DEF Blank
        <3> QED
            BY <3>1, BlankSettings DEF IsFile, File
    <2>3. IsFile(file)' /\ spoilt' \in BOOLEAN
        BY <1>1, <1>9, <2>1, <2>2 DEF SaveWrites
    <2>4. IsFile(due)'
        BY <1>1, <1>9, <2>1, OtherToken DEF SaveWrites
    <2> QED
        BY <1>1, <1>9, <2>3, <2>4, GoesOn DEF SaveWrites, Places
<1>10. ASSUME NEW c \in Clients, End(c) PROVE ConfigTypeOK'
    <2>1. /\ proc' = [proc EXCEPT ![c] = "off"] /\ conf' = [conf EXCEPT ![c] = Idle]
          /\ copy' = [copy EXCEPT ![c] = Blank]
          /\ UNCHANGED <<file, due, edits, starts>> /\ spoilt' \in BOOLEAN
        BY <1>10, Zenon DEF End
    <2>2. \A d \in Clients : proc'[d] # "off" => IsConfiguration(conf'[d].settings)
        BY <2>1 DEF ConfigTypeOK
    <2>3. (conf = [d \in Clients |-> [inv |-> conf[d].inv, settings |-> conf[d].settings]])'
        BY <2>1 DEF ConfigTypeOK, Idle
    <2>4. (copy = [d \in Clients |-> copy[d]])' /\ \A d \in Clients : IsSettings(copy'[d])
        <3>1. copy = [d \in Clients |-> copy[d]]
            BY DEF ConfigTypeOK
        <3> QED
            BY <1>1, <2>1, <3>1, BlankSettings
    <2>5. proc' \in [Clients -> Places]
        BY <1>1, <2>1 DEF Places
    <2> QED
        BY <2>1, <2>2, <2>3, <2>4, <2>5 DEF ConfigTypeOK, Places
<1> QED
    BY <1>2, <1>3, <1>4, <1>5, <1>6, <1>7, <1>8, <1>9, <1>10 DEF ConfigNext

\* A client's settings are not touched between its start and its end.
LEMMA RunsStep == ConfigTypeOK /\ RunsAsAsked /\ [ConfigNext]_configVars => RunsAsAsked'
<1> SUFFICES ASSUME ConfigTypeOK, RunsAsAsked, [ConfigNext]_configVars, NEW d \in Clients
             PROVE  Runs(d)'
    BY RunsForEach DEF RunsAsAsked, Runs, AsAsked
<1>1. /\ IsFile(file) /\ Runs(d) /\ proc \in [Clients -> Places]
      /\ conf = [c \in Clients |-> [inv |-> conf[c].inv, settings |-> conf[c].settings]]
    BY RunsForEach DEF ConfigTypeOK, Places
<1>2. CASE UNCHANGED configVars \/ UserEdits
    BY <1>1, <1>2 DEF configVars, UserEdits, Runs, AsAsked
<1>3. ASSUME NEW c \in Clients, NEW inv \in Invocations, Start(c, inv) PROVE Runs(d)'
    <2> DEFINE s == LoadConfiguration(inv)
    <2>1. /\ proc' = [proc EXCEPT ![c] = IF NoServerName(s.server) THEN "panic" ELSE "connecting"]
          /\ conf' = [conf EXCEPT ![c] = [inv |-> inv, settings |-> s]]
        BY <1>3 DEF Start
    <2>2. IsConfiguration(s) /\ AsAsked(inv, s)
        BY <1>1, <1>3, LoadedAsAsked DEF Start
    <2> HIDE DEF s
    <2>3. NoServerName(s.server) <=> s.server = "v6:p"
        BY <2>2, HostsIn, HostsJoined DEF IsConfiguration, NoServerName
    <2>4. CASE d = c
        <3>1. conf'[d].inv = inv /\ conf'[d].settings = s
            BY <1>1, <2>1, <2>4
        <3>2. proc'[d] = IF s.server = "v6:p" THEN "panic" ELSE "connecting"
            BY <1>1, <2>1, <2>3, <2>4
        <3> QED
            BY <2>2, <3>1, <3>2 DEF Runs, AsAsked
    <2>5. CASE d # c
        BY <1>1, <2>1, <2>5 DEF Runs, AsAsked
    <2> QED
        BY <2>4, <2>5
<1>4. ASSUME NEW c \in Clients,
             \/ SaveReads(c) \/ SaveCannotRead(c) \/ SaveRefuses(c) \/ SaveTruncates(c)
             \/ SaveWrites(c) \/ SaveFails(c) \/ Reconnect(c)
      PROVE  Runs(d)'
    <2>1. conf' = conf /\ proc[c] \notin {"off", "panic"}
        BY <1>4 DEF SaveReads, SaveCannotRead, SaveRefuses, SaveTruncates, SaveWrites,
                    SaveFails, Saving, Reconnect
    <2>2. \E x : x \notin {"off", "panic"} /\ proc' = [proc EXCEPT ![c] = x]
        BY <1>4 DEF SaveReads, SaveCannotRead, SaveRefuses, SaveTruncates, SaveWrites,
                    SaveFails, Reconnect, TokenRead
    <2> QED
        BY <1>1, <2>1, <2>2 DEF Runs, AsAsked
<1>5. ASSUME NEW c \in Clients, End(c) PROVE Runs(d)'
    <2>1. /\ proc' = [proc EXCEPT ![c] = "off"]
          /\ c # d => conf'[d] = conf[d]
        BY <1>1, <1>5 DEF End
    <2> QED
        BY <1>1, <2>1 DEF Runs, AsAsked
<1> QED
    BY <1>2, <1>3, <1>4, <1>5 DEF ConfigNext

\* The token that is saved replaces the file's and nothing else.
LEMMA Replaces ==
    ASSUME NEW c \in Clients, ConfigTypeOK, SavesOnlyToken, ~spoilt, ~ \E d \in Clients : proc[d] = "write",
           NEW s, s = (IF file.form = "old" THEN Blank ELSE file.says), NEW k
    PROVE  [s EXCEPT !.token = k] = [due.says EXCEPT !.token = k]
<1>1. file = due /\ IsFile(file)
    BY DEF SavesOnlyToken, ConfigTypeOK
<1>2. CASE file.form = "old"
    <2>1. file.says = [Blank EXCEPT !.token = file.says.token]
        BY <1>1, <1>2 DEF IsFile
    <2>2. [[Blank EXCEPT !.token = file.says.token] EXCEPT !.token = k] = [Blank EXCEPT !.token = k]
        BY BlankSettings, OtherToken
    <2> QED
        BY <1>1, <1>2, <2>1, <2>2
<1>3. CASE file.form # "old"
    BY <1>1, <1>3
<1> QED
    BY <1>2, <1>3

\* Nothing but the place of one client changes, which was not about to write
\* what it has truncated and is not going to save.
LEMMA SavesGoOn ==
    ASSUME ConfigTypeOK, SavesOnlyToken, CopiesAgree, NEW c \in Clients, NEW x,
           proc[c] # "write", x \notin {"truncate", "write"}, proc' = [proc EXCEPT ![c] = x],
           \A d \in Clients : d # c => copy'[d] = copy[d],
           UNCHANGED <<file, due>>, spoilt => spoilt'
    PROVE  SavesOnlyToken' /\ CopiesAgree'
<1>1. proc \in [Clients -> Places]
    BY DEF ConfigTypeOK, Places
<1>2. \A d \in Clients : IF d = c THEN proc'[d] = x ELSE proc'[d] = proc[d]
    BY <1>1
<1>3. SavesOnlyToken'
    BY <1>2 DEF SavesOnlyToken
<1>4. CopiesAgree'
    BY <1>2 DEF CopiesAgree, Saving
<1> QED
    BY <1>3, <1>4

\* A save that begins copies what the file should be, one that ends brings the
\* file there, and meanwhile the file need not be it.
LEMMA SavesStep ==
    ConfigTypeOK /\ SavesOnlyToken /\ CopiesAgree /\ [ConfigNext]_configVars => SavesOnlyToken' /\ CopiesAgree'
<1> SUFFICES ASSUME ConfigTypeOK, SavesOnlyToken, CopiesAgree, [ConfigNext]_configVars
             PROVE  SavesOnlyToken' /\ CopiesAgree'
    OBVIOUS
<1>1. /\ proc \in [Clients -> Places] /\ IsFile(file) /\ IsFile(due) /\ IsSettings(due.says)
      /\ copy = [d \in Clients |-> copy[d]]
    BY DEF ConfigTypeOK, Places, IsFile
<1>2. CASE UNCHANGED configVars
    BY <1>2 DEF configVars, hist, SavesOnlyToken, CopiesAgree, Saving
<1>3. CASE UserEdits
    BY <1>3 DEF UserEdits, SavesOnlyToken, CopiesAgree, Saving
<1>4. ASSUME NEW c \in Clients, NEW inv \in Invocations, Start(c, inv)
      PROVE  SavesOnlyToken' /\ CopiesAgree'
    <2>1. \E x : x \notin {"truncate", "write"} /\ proc' = [proc EXCEPT ![c] = x]
        BY <1>4 DEF Start
    <2> QED
        BY <1>4, <2>1, SavesGoOn DEF Start, hist
<1>5. ASSUME NEW c \in Clients, SaveReads(c) PROVE SavesOnlyToken' /\ CopiesAgree'
    <2> DEFINE s == IF file.form = "old" THEN Blank ELSE file.says
               k == conf[c].settings.token
    <2>1. /\ proc[c] = "connecting" /\ TokenRead(c, s) /\ UNCHANGED <<file, due>>
          /\ spoilt' = (spoilt \/ ReadsTorn(c))
        BY <1>5 DEF SaveReads
    <2>2. CASE s.token = k
        BY <2>1, <2>2, SavesGoOn DEF TokenRead
    <2>3. CASE s.token # k
        <3>1. proc' = [proc EXCEPT ![c] = "truncate"] /\ copy' = [copy EXCEPT ![c] = [s EXCEPT !.token = k]]
            BY <2>1, <2>3 DEF TokenRead
        <3>2. IsSettings(s)
            BY <1>1, BlankSettings DEF IsFile
        <3> HIDE DEF s, k
        <3>3. /\ \A d \in Clients : proc'[d] = IF d = c THEN "truncate" ELSE proc[d]
              /\ \A d \in Clients : copy'[d] = IF d = c THEN [s EXCEPT !.token = k] ELSE copy[d]
            BY <1>1, <3>1
        <3>4. SavesOnlyToken'
            BY <2>1, <3>3, Zenon DEF SavesOnlyToken
        <3>5. ASSUME ~spoilt' PROVE [s EXCEPT !.token = k] = [due.says EXCEPT !.token = k]
            <4>1. ~spoilt /\ ~ \E d \in Clients : proc[d] = "write"
                BY <2>1, <3>3, <3>5 DEF ReadsTorn
            <4> QED
                BY <4>1, Replaces DEF s
        <3>6. [s EXCEPT !.token = k].token = k
            BY <3>2, OtherToken
        <3>7. CopiesAgree'
            <4> SUFFICES ASSUME ~spoilt', NEW d \in Clients, Saving(d)'
                         PROVE  copy'[d] = [due.says EXCEPT !.token = copy'[d].token]
                BY <2>1 DEF CopiesAgree
            <4>1. ~spoilt
                BY <2>1
            <4>2. CASE d = c
                BY <3>3, <3>5, <3>6, <4>2
            <4>3. CASE d # c
                BY <3>3, <4>1, <4>3 DEF CopiesAgree, Saving
            <4> QED
                BY <4>2, <4>3
        <3> QED
            BY <3>4, <3>7
    <2> QED
        BY <2>2, <2>3
<1>6. ASSUME NEW c \in Clients, SaveCannotRead(c) PROVE SavesOnlyToken' /\ CopiesAgree'
    <2>1. /\ proc[c] = "connecting" /\ TokenRead(c, Blank) /\ UNCHANGED <<file, due>>
          /\ spoilt' = (spoilt \/ proc'[c] = "truncate")
        BY <1>6 DEF SaveCannotRead
    <2>2. CASE Blank.token = conf[c].settings.token
        BY <2>1, <2>2, SavesGoOn DEF TokenRead
    <2>3. CASE Blank.token # conf[c].settings.token
        <3>1. spoilt'
            BY <1>1, <2>1, <2>3 DEF TokenRead
        <3> QED
            BY <3>1 DEF SavesOnlyToken, CopiesAgree
    <2> QED
        BY <2>2, <2>3
<1>7. ASSUME NEW c \in Clients, SaveRefuses(c) \/ Reconnect(c) PROVE SavesOnlyToken' /\ CopiesAgree'
    <2>1. /\ proc[c] # "write" /\ UNCHANGED <<file, due, copy, spoilt>>
          /\ \E x : x \notin {"truncate", "write"} /\ proc' = [proc EXCEPT ![c] = x]
        BY <1>7 DEF SaveRefuses, Reconnect, hist
    <2> QED
        BY <2>1, SavesGoOn
<1>8. ASSUME NEW c \in Clients, SaveTruncates(c) PROVE SavesOnlyToken' /\ CopiesAgree'
    <2>1. /\ proc[c] = "truncate" /\ proc' = [proc EXCEPT ![c] = "write"]
          /\ UNCHANGED <<due, copy, spoilt>>
        BY <1>8 DEF SaveTruncates, hist
    <2>2. \A d \in Clients : proc'[d] = IF d = c THEN "write" ELSE proc[d]
        BY <1>1, <2>1
    <2> QED
        BY <2>1, <2>2 DEF SavesOnlyToken, CopiesAgree, Saving
<1>9. ASSUME NEW c \in Clients, SaveWrites(c) PROVE SavesOnlyToken' /\ CopiesAgree'
    <2> DEFINE new == File("yaml", copy[c])
    <2>1. /\ proc[c] = "write" /\ proc' = [proc EXCEPT ![c] = "connected"]
          /\ due' = File("yaml", [due.says EXCEPT !.token = copy[c].token])
          /\ UNCHANGED copy
          /\ \/ file' = new /\ UNCHANGED spoilt
             \/ spoilt' = TRUE
        BY <1>9 DEF SaveWrites
    <2>2. CASE spoilt \/ spoilt'
        BY <2>1, <2>2 DEF SavesOnlyToken, CopiesAgree
    <2>3. CASE ~spoilt /\ ~spoilt'
        <3>1. copy[c] = [due.says EXCEPT !.token = copy[c].token]
            BY <2>1, <2>3 DEF CopiesAgree, Saving
        <3>2. SavesOnlyToken'
            BY <2>1, <2>3, <3>1, Zenon DEF SavesOnlyToken
        <3>3. due'.says = [due.says EXCEPT !.token = copy[c].token]
            BY <2>1 DEF File
        <3>4. \A d \in Clients : proc'[d] = IF d = c THEN "connected" ELSE proc[d]
            BY <1>1, <2>1
        <3>5. ASSUME NEW d \in Clients, Saving(d)'
              PROVE  copy'[d] = [due'.says EXCEPT !.token = copy'[d].token]
            <4>1. copy[d] = [due.says EXCEPT !.token = copy[d].token]
                BY <2>3, <3>4, <3>5 DEF CopiesAgree, Saving
            <4>2. [[due.says EXCEPT !.token = copy[c].token] EXCEPT !.token = copy[d].token] =
                     [due.says EXCEPT !.token = copy[d].token]
                <5>1. \A s, k, j : IsSettings(s) =>
                          [[s EXCEPT !.token = k] EXCEPT !.token = j] = [s EXCEPT !.token = j]
                    BY OtherToken, Zenon
                <5>2. IsSettings(due.says)
                    BY <1>1
                <5> QED
                    BY <5>1, <5>2, Zenon
            <4> QED
                BY <2>1, <3>3, <4>1, <4>2, Zenon
        <3>6. CopiesAgree'
            BY <3>5 DEF CopiesAgree
        <3> QED
            BY <3>2, <3>6
    <2> QED
        BY <2>2, <2>3
<1>10. ASSUME NEW c \in Clients, SaveFails(c) \/ End(c) PROVE SavesOnlyToken' /\ CopiesAgree'
    <2>1. /\ UNCHANGED <<file, due>> /\ spoilt' = (spoilt \/ proc[c] = "write")
          /\ \E x : x \notin {"truncate", "write"} /\ proc' = [proc EXCEPT ![c] = x]
          /\ \A d \in Clients : d # c => copy'[d] = copy[d]
        BY <1>1, <1>10 DEF SaveFails, End
    <2>2. CASE proc[c] = "write"
        BY <2>1, <2>2 DEF SavesOnlyToken, CopiesAgree
    <2>3. CASE proc[c] # "write"
        BY <2>1, <2>3, SavesGoOn
    <2> QED
        BY <2>2, <2>3
<1> QED
    BY <1>2, <1>3, <1>4, <1>5, <1>6, <1>7, <1>8, <1>9, <1>10 DEF ConfigNext

LEMMA ConfigInvariant == ConfigSpec => []ConfigInv
<1>1. ConfigInv /\ [ConfigNext]_configVars => ConfigInv'
    BY ConfigTypeStep, RunsStep, SavesStep DEF ConfigInv
<1> QED
    BY ConfigInvariantInit, <1>1, PTL DEF ConfigSpec

\* The shape of the file, the settings and the copies, whatever is written by
\* whom: what a client runs with has been normalized and checked.
THEOREM ConfigTypes == ConfigSpec => []ConfigTypeOK
<1>1. ConfigInv => ConfigTypeOK
    BY DEF ConfigInv
<1> QED
    BY <1>1, ConfigInvariant, PTL

\* Saving the auth token replaces it in the file and nothing else
\* (config.go:247-277), for any number of clients that share the file.
THEOREM TokenSavedAlone == ConfigSpec => []SavesOnlyToken
<1>1. ConfigInv => SavesOnlyToken
    BY DEF ConfigInv
<1> QED
    BY <1>1, ConfigInvariant, PTL

\* A client runs with what its command line and the file have asked for, for
\* every file and every command line (config.go:43-178, 180-236).
THEOREM ClientRunsAsAsked == ConfigSpec => []RunsAsAsked
<1>1. ConfigInv => RunsAsAsked
    BY DEF ConfigInv
<1> QED
    BY <1>1, ConfigInvariant, PTL
=============================================================================
