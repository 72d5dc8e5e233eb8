--------------------------- MODULE TunnelListener ---------------------------
(***************************************************************************)
(* The server's port for clients: conn.Listen with its accepting goroutine *)
(* (conn/conn.go), tunnelListener with one handler per connection          *)
(* (server/main.go), ReadMsg (msg/conn.go, msg/pack.go), and NewProxy up   *)
(* to the pool.  It is composed with the registry: the handler of a        *)
(* connection that says Auth is the goroutine that runs NewControl, whose  *)
(* steps are those of ControlRegistry.                                     *)
(*                                                                         *)
(* Here Ctls are all connections that may arrive, since what one becomes   *)
(* is only known when its first message has been read.                     *)
(***************************************************************************)
EXTENDS ControlRegistry

VARIABLES
    listen,   \* how far Listen and tunnelListener have got
    acceptErr,\* err, the named result of Listen, which its goroutine assigns
    handing,  \* the connection the accepting goroutine sends on Conns, if any
    tun,      \* how far each connection has got
    readErr,  \* err of tunnelListener, which all its handlers assign: not nil?
    crossed,  \* history: what other ReadMsg calls have returned (TRUE: an error)
              \* between a connection's own ReadMsg and its test of err
    found     \* the Control NewProxy has found for each connection

tunVars == <<listen, acceptErr, handing, tun, readErr, crossed, found>>
vars == <<regVars, tunVars>>

\* What a ReadMsg returned: a message and no error, a message decoded in part
\* and an error, or an error alone.
Whole == {"auth", "regProxy", "other"}
Part == {"authPart", "regProxyPart"}
Checks == Whole \cup Part \cup {"unread"}
Running == {"NewControl", "NewProxy", "RegisterProxy"}
Ends == {"closed", "pooled", "left"}

ListenerTypeOK ==
    /\ TypeOK
    /\ listen \in {"listening", "returned", "failed"}
    /\ acceptErr \in BOOLEAN /\ readErr \in BOOLEAN
    /\ handing \in Ctls \cup {NoCtl}
    /\ tun \in [Ctls -> {"away", "arrived", "accepted", "reading"}
                            \cup Checks \cup Running \cup Ends]
    /\ crossed \subseteq {c \in Ctls : tun[c] \in Checks} \X BOOLEAN
    /\ found \in [Ctls -> Ctls \cup {NoCtl}]

ListenerInit ==
    /\ Init
    /\ listen = "listening" /\ acceptErr = FALSE
    /\ handing = NoCtl
    /\ tun = [c \in Ctls |-> "away"]
    /\ readErr = FALSE
    /\ crossed = {}
    /\ found = [c \in Ctls |-> NoCtl]

Goto(c, stage) == tun' = [tun EXCEPT ![c] = stage]

-----------------------------------------------------------------------------
(* conn.Listen *)

\* Somebody connects.
Arrive(c) ==
    /\ tun[c] = "away"
    /\ Goto(c, "arrived")
    /\ UNCHANGED <<regVars, listen, acceptErr, handing, readErr, crossed, found>>

\* The accepting goroutine takes a connection and goes to send it on Conns.
\* It assigns err, which Listen is about to return as long as it has not.
Accept(c) ==
    /\ listen # "failed" /\ handing = NoCtl
    /\ tun[c] = "arrived"
    /\ handing' = c
    /\ acceptErr' = FALSE
    /\ Goto(c, "accepted")
    /\ UNCHANGED <<regVars, listen, readErr, crossed, found>>

\* Accept fails; the goroutine tries again.  (Nobody looks at err once Listen
\* has returned.)
AcceptFails ==
    /\ listen = "listening" /\ handing = NoCtl
    /\ acceptErr' = TRUE
    /\ UNCHANGED <<regVars, listen, handing, tun, readErr, crossed, found>>

\* Listen returns: with an error if Accept has failed just before, whereupon
\* tunnelListener panics and the server ends.
Return ==
    /\ listen = "listening"
    /\ listen' = IF acceptErr THEN "failed" ELSE "returned"
    /\ UNCHANGED <<regVars, acceptErr, handing, tun, readErr, crossed, found>>

-----------------------------------------------------------------------------
(* tunnelListener *)

\* A connection is received from Conns and gets a goroutine of its own, which
\* sets a deadline and reads.
Handle(c) ==
    /\ listen = "returned" /\ handing = c
    /\ handing' = NoCtl
    /\ Goto(c, "reading")
    /\ UNCHANGED <<regVars, listen, acceptErr, readErr, crossed, found>>

\* ReadMsg returns and its error is assigned to the shared variable.
ReadReturns(c, result) ==
    /\ tun[c] = "reading"
    /\ Goto(c, result)
    /\ readErr' = (result \notin Whole)
    /\ crossed' = crossed \cup {d \in Ctls : tun[d] \in Checks} \X {result \notin Whole}
    /\ UNCHANGED <<regVars, listen, acceptErr, handing, found>>

\* Mutant: the error is assigned only if there is one.
ReadSticky(c) ==
    \E result \in Checks :
        /\ tun[c] = "reading"
        /\ Goto(c, result)
        /\ readErr' = (readErr \/ result \notin Whole)
        /\ crossed' = crossed \cup {d \in Ctls : tun[d] \in Checks} \X {result \notin Whole}
        /\ UNCHANGED <<regVars, listen, acceptErr, handing, found>>

\* The peer has sent something: a message, one of an unknown type or without
\* the fields it should have, one that comes in pieces (the payload is taken
\* by a single Read), or it has hung up.
Read(c) == \E result \in Checks : ReadReturns(c, result)

\* It has sent nothing for connReadTimeout.
Deadline(c) == ReadReturns(c, "unread")

\* A length that no buffer can have: make panics, the handler recovers, and
\* leaves the connection as it is.
BadLength(c) ==
    /\ tun[c] = "reading"
    /\ Goto(c, "left")
    /\ UNCHANGED <<regVars, listen, acceptErr, handing, readErr, crossed, found>>

\* The error that the handler sees: what it has just assigned, or what has
\* been assigned since.  (Reads and writes of err are not ordered; the
\* compiled program may keep it in a register or load it again.)
Sees(c) == {tun[c] \notin Whole, readErr}

\* The test of err fails, or the message is none of the two.
Refuse(c) ==
    /\ tun[c] \in Checks
    /\ \/ TRUE \in Sees(c)
       \/ tun[c] \in {"other", "unread"}
    /\ Goto(c, "closed")
    /\ crossed' = crossed \ ({c} \X BOOLEAN)
    /\ UNCHANGED <<regVars, listen, acceptErr, handing, readErr, found>>

\* The test of err succeeds and the handler calls NewControl or NewProxy.
Dispatch(c) ==
    /\ tun[c] \in Checks /\ FALSE \in Sees(c)
    /\ \/ tun[c] \in {"auth", "authPart"} /\ Goto(c, "NewControl")
       \/ tun[c] \in {"regProxy", "regProxyPart"} /\ Goto(c, "NewProxy")
    /\ crossed' = crossed \ ({c} \X BOOLEAN)
    /\ UNCHANGED <<regVars, listen, acceptErr, handing, readErr, found>>

-----------------------------------------------------------------------------
(* NewControl and NewProxy *)

\* NewControl refuses the Auth and closes the connection, or enters it.
EnterControl(c) ==
    /\ tun[c] = "NewControl"
    /\ FailAuth(c) \/ \E i \in Ids : Add(c, i)
    /\ UNCHANGED tunVars

\* NewProxy looks its client up.  Nobody found, or the empty id given: it
\* panics, recovers, and closes the connection.
LookUp(c) ==
    /\ tun[c] = "NewProxy"
    /\ \E k \in {controls[i] : i \in Ids} \cup {NoCtl} :
          /\ found' = [found EXCEPT ![c] = k]
          /\ Goto(c, IF k = NoCtl THEN "closed" ELSE "RegisterProxy")
    /\ UNCHANGED <<regVars, listen, acceptErr, handing, readErr, crossed>>

\* RegisterProxy: by then the pool may be full, or closed by the stopper.
RegisterProxy(c) ==
    /\ tun[c] = "RegisterProxy"
    /\ \/ stp[found[c]] # "done" /\ Goto(c, "pooled")
       \/ Goto(c, "closed")
    /\ UNCHANGED <<regVars, listen, acceptErr, handing, readErr, crossed, found>>

-----------------------------------------------------------------------------
Handler(c) ==
    \/ Refuse(c) \/ Dispatch(c)
    \/ EnterControl(c) \/ LookUp(c) \/ RegisterProxy(c)

ListenerNext ==
    \/ AcceptFails \/ Return
    \/ \E c \in Ctls :
          \/ Arrive(c) \/ Accept(c) \/ Handle(c)
          \/ Read(c) \/ Deadline(c) \/ BadLength(c)
          \/ Handler(c)
          \/ (Begin(c) \/ Step(c)) /\ UNCHANGED tunVars

ListenerSpec == ListenerInit /\ [][ListenerNext]_vars

\* NewControl's goroutine but for the sends, and stopper's but for the teardown.
Steady(c) == Waited(c) \/ Answer(c) \/ StopBegin(c) \/ Del(c)

\* NewControl gets through its two sends, or the writer fails.  Once the shutdown
\* has begun nothing is assumed: the writer may have failed in between, and then
\* a send waits for ever.
Sends(c) == nc[c] = "starting" /\ c \notin begun /\ (Started(c) \/ Begin(c))

\* Goroutines that can go on do, and the deadline of a read passes.  What a
\* peer sends, and whether, is up to it.  That a teardown ends is not assumed
\* (module Control says when it does).
ListenerFairSpec ==
    /\ ListenerSpec
    /\ WF_vars(Return)
    /\ \A c \in Ctls :
          /\ WF_vars(Accept(c)) /\ WF_vars(Handle(c)) /\ WF_vars(Deadline(c))
          /\ WF_vars(Handler(c))
          /\ WF_vars(Steady(c) /\ UNCHANGED tunVars)
          /\ WF_vars(Sends(c) /\ UNCHANGED tunVars)

-----------------------------------------------------------------------------
(* Properties *)

\* All handlers assign their error to one variable (main.go:77), so one peer's
\* failure can turn another away, and its success let a message in that could
\* not be decoded.  That takes another ReadMsg that returns between the two
\* accesses: else a connection whose whole Auth or RegProxy was read is never
\* refused, and one whose message could be read in part only always is.
OwnErrorDecides ==
    [][\A c \in Ctls :
          /\ tun[c] \in {"auth", "regProxy"} /\ tun'[c] = "closed" => <<c, TRUE>> \in crossed
          /\ tun[c] \in Part /\ tun'[c] \in Running => <<c, FALSE>> \in crossed]_vars

\* A Control is hung if its NewControl may be left in the middle of its sends,
\* if its teardown does not end, or if it waits for one that is hung: the least
\* set with these.
Hung(c) ==
    LET Closed(S) == {d \in Ctls : \/ nc[d] = "starting" /\ d \in begun
                                   \/ stp[d] = "closing"
                                   \/ nc[d] = "waiting" /\ replaced[d] \in S} \subseteq S
    IN  \A S \in SUBSET Ctls : Closed(S) => c \in S

\* In the end every connection that has arrived has come to an end, whatever the
\* others send or fail to send: it is closed, pooled, refused by NewControl or
\* made a running Control, even if that had to wait for its predecessor.  There
\* are three exceptions: a message with an impossible length leaves it open
\* ("left" is among the ends); Listen returns an error it did not have, which
\* ends the server; and the Control is hung, or waits for one that is.
ConnectionsSettle ==
    <>[](\A c \in Ctls : \/ tun[c] \in {"away"} \cup Ends
                         \/ nc[c] \in {"rejected", "running"}
                         \/ listen = "failed"
                         \/ Hung(c))
=============================================================================
