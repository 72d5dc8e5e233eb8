-------------------------- MODULE ControlRegistry --------------------------
(***************************************************************************)
(* How the incarnations of one client's control connection follow each     *)
(* other on the server: the registry that maps a client id to its Control  *)
(* (server/registry.go), the part of NewControl that enters a Control      *)
(* there and waits for the one it replaces, Replaced, and the part of      *)
(* stopper that takes the Control out again (server/control.go), with the  *)
(* two-phase util.Shutdown they synchronise on.                            *)
(*                                                                         *)
(* Each member of Ctls is one control connection of one client process: a  *)
(* reconnecting client is a new member that presents an old id.  What a    *)
(* Control does between being started and being complete is left open      *)
(* here; module Control fills it in and implements this module.            *)
(***************************************************************************)
EXTENDS Naturals

CONSTANTS Ctls,    \* control connections that may ever be accepted
          Ids,     \* client ids
          NoCtl,   \* the nil *Control
          NoId     \* the empty client id

ASSUME NoCtlAssumption == NoCtl \notin Ctls
ASSUME NoIdAssumption == NoId \notin Ids

VARIABLES
    controls,  \* ControlRegistry.controls: the Control entered for each id
    ctlId,     \* Control.id; the empty string until set and once replaced
    nc,        \* where the goroutine running NewControl is
    replaced,  \* what Add returned to NewControl: the Control it replaced
    told,      \* the ClientId put into the AuthResp
    begun,     \* Controls whose shutdown has begun
    complete,  \* Controls whose shutdown is complete
    stp,       \* where the goroutine running stopper is
    delArg     \* the id stopper read as the argument of its call of Del

regVars == <<controls, ctlId, nc, replaced, told, begun, complete, stp, delArg>>

NCStates == {"auth", "rejected", "waiting", "answering", "starting", "running"}
StpStates == {"off", "waitBegin", "del", "closing", "done"}

TypeOK ==
    /\ controls \in [Ids -> Ctls \cup {NoCtl}]
    /\ ctlId \in [Ctls -> Ids \cup {NoId}]
    /\ nc \in [Ctls -> NCStates]
    /\ replaced \in [Ctls -> Ctls \cup {NoCtl}]
    /\ told \in [Ctls -> Ids \cup {NoId}]
    /\ begun \subseteq Ctls
    /\ complete \subseteq Ctls
    /\ stp \in [Ctls -> StpStates]
    /\ delArg \in [Ctls -> Ids \cup {NoId}]

Init ==
    /\ controls = [i \in Ids |-> NoCtl]
    /\ ctlId = [c \in Ctls |-> NoId]
    /\ nc = [c \in Ctls |-> "auth"]
    /\ replaced = [c \in Ctls |-> NoCtl]
    /\ told = [c \in Ctls |-> NoId]
    /\ begun = {}
    /\ complete = {}
    /\ stp = [c \in Ctls |-> "off"]
    /\ delArg = [c \in Ctls |-> NoId]

-----------------------------------------------------------------------------
(* NewControl *)

\* The id could not be drawn or the client speaks another protocol version:
\* the connection is answered with an error and closed, nothing is entered.
FailAuth(c) ==
    /\ nc[c] = "auth"
    /\ nc' = [nc EXCEPT ![c] = "rejected"]
    /\ UNCHANGED <<controls, ctlId, replaced, told, begun, complete, stp, delArg>>

\* Replaced, called by Add under the registry's lock: the old Control forgets
\* its id and its shutdown begins.  c takes the id i.
TakeId(c, i, old) ==
    ctlId' = [k \in Ctls |-> IF k = c THEN i ELSE IF k = old THEN NoId ELSE ctlId[k]]

\* c is entered, having found old.
Enter(c, i, old) ==
    /\ nc[c] = "auth"
    /\ TakeId(c, i, old)
    /\ replaced' = [replaced EXCEPT ![c] = old]
    /\ nc' = [nc EXCEPT ![c] = IF old = NoCtl THEN "answering" ELSE "waiting"]
    /\ UNCHANGED <<told, complete, stp, delArg>>

\* Mutants: Add calls Replaced even if it found nobody; does not tell the old
\* Control to shut down; keeps the old entry.
AddNoNilCheck(c, i) ==
    /\ Enter(c, i, controls[i])
    /\ begun' = begun \cup {controls[i]}
    /\ controls' = [controls EXCEPT ![i] = c]
AddNoBegin(c, i) ==
    /\ Enter(c, i, controls[i])
    /\ controls' = [controls EXCEPT ![i] = c]
    /\ UNCHANGED begun
AddKeepsOld(c, i) ==
    /\ Enter(c, i, controls[i])
    /\ begun' = begun \cup ({controls[i]} \ {NoCtl})
    /\ controls' = [controls EXCEPT ![i] = IF @ = NoCtl THEN c ELSE @]

\* Add: enter c under i, the id it presents or a fresh one; if i is taken,
\* replace the Control found there and wait for it.
Add(c, i) ==
    /\ Enter(c, i, controls[i])
    /\ begun' = begun \cup ({controls[i]} \ {NoCtl})
    /\ controls' = [controls EXCEPT ![i] = c]

\* Mutant: NewControl waits for the beginning of the shutdown only.
WaitedBegin(c) ==
    /\ nc[c] = "waiting"
    /\ replaced[c] \in begun
    /\ nc' = [nc EXCEPT ![c] = "answering"]
    /\ UNCHANGED <<controls, ctlId, replaced, told, begun, complete, stp, delArg>>

\* replaced.shutdown.WaitComplete() returns.
Waited(c) ==
    /\ nc[c] = "waiting"
    /\ replaced[c] \in complete
    /\ nc' = [nc EXCEPT ![c] = "answering"]
    /\ UNCHANGED <<controls, ctlId, replaced, told, begun, complete, stp, delArg>>

\* Mutant: the AuthResp echoes the id of the Auth, empty for a new session.
AnswerEcho(c) ==
    /\ nc[c] = "answering"
    /\ told' \in {told, [told EXCEPT ![c] = ctlId[c]]}
    /\ nc' = [nc EXCEPT ![c] = "starting"]
    /\ UNCHANGED <<controls, ctlId, replaced, begun, complete, stp, delArg>>

\* The AuthResp is put together: c.id is read now, without the lock.
Answer(c) ==
    /\ nc[c] = "answering"
    /\ told' = [told EXCEPT ![c] = ctlId[c]]
    /\ nc' = [nc EXCEPT ![c] = "starting"]
    /\ UNCHANGED <<controls, ctlId, replaced, begun, complete, stp, delArg>>

\* NewControl ends with the stopper started.
Started(c) ==
    /\ nc[c] = "starting"
    /\ nc' = [nc EXCEPT ![c] = "running"]
    /\ stp' = [stp EXCEPT ![c] = "waitBegin"]
    /\ UNCHANGED <<controls, ctlId, replaced, told, begun, complete, delArg>>

-----------------------------------------------------------------------------
(* Shutdown *)

\* Some goroutine of c calls shutdown.Begin(): the writer, which has the
\* AuthResp to fail on while NewControl still runs, or one started later.
Begin(c) ==
    /\ nc[c] \in {"starting", "running"}
    /\ c \notin begun
    /\ begun' = begun \cup {c}
    /\ UNCHANGED <<controls, ctlId, nc, replaced, told, complete, stp, delArg>>

\* stopper: WaitBegin returns and c.id is read as the argument of Del.  The
\* read takes no lock, so it is a step of its own, before or after a Replaced;
\* of a string that Replaced blanks at the same moment it yields the id or "".
StopBegin(c) ==
    /\ stp[c] = "waitBegin"
    /\ c \in begun
    /\ delArg' = [delArg EXCEPT ![c] = ctlId[c]]
    /\ stp' = [stp EXCEPT ![c] = "del"]
    /\ UNCHANGED <<controls, ctlId, nc, replaced, told, begun, complete>>

\* Mutant: Del is called for the Controls only that have been replaced.
DelIfReplaced(c) ==
    /\ stp[c] = "del"
    /\ controls' = [i \in Ids |-> IF i = delArg[c] /\ ctlId[c] = NoId THEN NoCtl
                                  ELSE controls[i]]
    /\ stp' = [stp EXCEPT ![c] = "closing"]
    /\ UNCHANGED <<ctlId, nc, replaced, told, begun, complete, delArg>>

\* controlRegistry.Del(id): whatever is entered under the id is removed.
Del(c) ==
    /\ stp[c] = "del"
    /\ controls' = [i \in Ids |-> IF i = delArg[c] THEN NoCtl ELSE controls[i]]
    /\ stp' = [stp EXCEPT ![c] = "closing"]
    /\ UNCHANGED <<ctlId, nc, replaced, told, begun, complete, delArg>>

\* stopper has torn everything down: shutdown.Complete().
Complete(c) ==
    /\ stp[c] = "closing"
    /\ complete' = complete \cup {c}
    /\ stp' = [stp EXCEPT ![c] = "done"]
    /\ UNCHANGED <<controls, ctlId, nc, replaced, told, begun, delArg>>

-----------------------------------------------------------------------------
Step(c) == Waited(c) \/ Answer(c) \/ Started(c) \/ StopBegin(c) \/ Del(c) \/ Complete(c)

Next ==
    \E c \in Ctls : \/ FailAuth(c)
                    \/ \E i \in Ids : Add(c, i)
                    \/ Begin(c)
                    \/ Step(c)

Spec == Init /\ [][Next]_regVars

-----------------------------------------------------------------------------
(* Properties *)

\* The registry never yields a Control that has gone past its own Del: whoever
\* is entered under i still carries i as its id, and if its stopper is about
\* to call Del it is about to remove exactly this entry.  NewProxy and Add rely
\* on it: what Get and Add find is never a Control already being torn down.
LookupLive ==
    \A i \in Ids, c \in Ctls :
        controls[i] = c => /\ ctlId[c] = i
                           /\ \/ stp[c] \in {"off", "waitBegin"}
                              \/ stp[c] = "del" /\ delArg[c] = i

\* A Control answers its client only after the one it replaced, and with it
\* everyone before that one, is completely shut down: the chain of
\* replacements is waited out link by link (a complete Control was itself
\* past its wait).
PredecessorsDone ==
    \A c \in Ctls :
        nc[c] \in {"answering", "starting", "running"} =>
            replaced[c] \in complete \cup {NoCtl}
CompletedHadStarted == \A c \in complete : nc[c] = "running" /\ c \in begun
ReplacementsWait == PredecessorsDone /\ CompletedHadStarted

\* However many clients present the same id at once, a Control is replaced at
\* most once: no two NewControl calls ever wait for the same predecessor, and
\* the one that was replaced never answers for the id again.
ReplacedOnce ==
    /\ \A c, d \in Ctls : replaced[c] = replaced[d] /\ replaced[c] # NoCtl => c = d
    /\ \A i \in Ids, c \in Ctls : replaced[c] # NoCtl => controls[i] # replaced[c]

\* Whoever is entered under an id and has answered its client has told it that
\* id, so the client's RegProxy messages lead back to it.  (A Control replaced
\* before it could answer tells its client the empty id; it is then entered
\* nowhere and shuts down.)
ToldTheEntry ==
    \A i \in Ids, c \in Ctls :
        controls[i] = c /\ nc[c] \in {"starting", "running"} => told[c] = i

\* control.go says Replaced blanks the id "so that when stopper() calls
\* registry.Del it won't delete the replacement": only the stopper of the
\* Control entered there removes an entry.
DelSparesReplacement ==
    [][\A i \in Ids : controls[i] # NoCtl /\ controls'[i] = NoCtl =>
            stp[controls[i]] = "del" /\ stp'[controls[i]] = "closing"]_regVars
=============================================================================
