----------------------------- MODULE ClientViews -----------------------------
(***************************************************************************)
(* The client's Controller (client/controller.go) and its terminal view    *)
(* (client/views/term/view.go): Run's loop, the goroutines doShutdown      *)
(* starts, TermView's run and input, and the two broadcasts between them:  *)
(* the model's updates, and redraw, by which input asks run to draw.  They *)
(* meet on unbuffered channels only.  What is drawn is left out; so are    *)
(* the views of the web interface, whose Shutdown does nothing.            *)
(***************************************************************************)
EXTENDS Naturals, Sequences, SequencesExt, FiniteSets

CONSTANT MaxQuits \* bound: quit commands Run receives

ASSUME QuitsAssumption == MaxQuits \in Nat \ {0}

Quits == 1..MaxQuits

VARIABLES
    run,    \* where Controller.Run is
    tv,     \* where TermView.run is; "closed" once it has closed v.shutdown
    input,  \* where TermView.input is
    termSd, \* per quit command: its call of TermView.Shutdown
    httpSd, \* and of HttpView.Shutdown
    told,   \* quit commands whose doShutdown is through and has sent done
    httpClosed, \* HttpView.shutdown is closed
    updl, updp, \* the broadcast Controller.updates
    redl, redp  \* the broadcast TermView.redraw

updlp == <<updl, updp>>
redlp == <<redl, redp>>
runVars == <<run, tv, input, termSd, httpSd, told, httpClosed, updlp, redlp>>

Updates == INSTANCE Broadcast WITH listeners <- updl, pending <- updp,
              Listeners <- {"term", "run"}, Items <- {"state"}
Redraw == INSTANCE Broadcast WITH listeners <- redl, pending <- redp,
              Listeners <- {"term"}, Items <- {"redraw"}

ViewsTypeOK ==
    /\ run \in {"newTermView", "reg", "select", "unreg", "returned"}
    /\ tv \in {"off", "reg", "draw", "select", "unreg", "closed"}
    /\ input \in {"off", "poll", "quit", "redraw", "panic", "dead"}
    /\ termSd \in [Quits -> {"off", "send", "wait", "done", "panic", "dead"}]
    /\ httpSd \in [Quits -> {"off", "close", "done", "panic", "dead"}]
    /\ told \subseteq Quits /\ httpClosed \in BOOLEAN
    /\ Updates!TypeOK /\ Redraw!TypeOK
    \* nobody is sent two things at once
    /\ Len(updp) <= 2 /\ Len(redp) <= 1

ViewsInit ==
    /\ run = "newTermView" /\ tv = "off" /\ input = "off"
    /\ termSd = [q \in Quits |-> "off"] /\ httpSd = [q \in Quits |-> "off"]
    /\ told = {} /\ httpClosed = FALSE
    /\ Updates!Init /\ Redraw!Init

----------------------------------------------------------------------------
\* Controller.Run.

\* NewTermView registers for updates and starts run and input; then Run makes
\* the other views and starts the model.
NewTermView ==
    /\ run = "newTermView" /\ Updates!Reg("term")
    /\ run' = "reg" /\ tv' = "reg" /\ input' = "poll"
    /\ UNCHANGED <<termSd, httpSd, told, httpClosed, redlp>>

RunRegisters ==
    /\ run = "reg" /\ Updates!Reg("run")
    /\ run' = "select"
    /\ UNCHANGED <<tv, input, termSd, httpSd, told, httpClosed, redlp>>

RunUpdated ==
    /\ run = "select" /\ Updates!Send("run", "state")
    /\ UNCHANGED <<run, tv, input, termSd, httpSd, told, httpClosed, redlp>>

\* A cmdQuit is received: doShutdown calls each view's Shutdown in a goroutine
\* of its own.  tsd and hsd are what termSd and httpSd are otherwise to be.
ReceiveQuit(tsd, hsd) ==
    /\ run = "select"
    /\ \E q \in Quits :
        /\ \A r \in Quits : termSd[r] = "off" <=> r >= q
        /\ termSd' = [tsd EXCEPT ![q] = "send"]
        /\ httpSd' = [hsd EXCEPT ![q] = "close"]
    /\ UNCHANGED <<run, tv, told, updlp, redlp>>

\* Mutant: doShutdown does not wait for the terminal.
DoneEarly(q) ==
    /\ run = "select" /\ q \notin told
    /\ httpSd[q] = "done"
    /\ told' = told \cup {q}
    /\ run' = "unreg"
    /\ UNCHANGED <<tv, input, termSd, httpSd, httpClosed, updlp, redlp>>

\* doShutdown has waited for all of them, and done is received.
ReceiveDone(q) ==
    /\ run = "select" /\ q \notin told
    /\ termSd[q] = "done" /\ httpSd[q] = "done"
    /\ told' = told \cup {q}
    /\ run' = "unreg"
    /\ UNCHANGED <<tv, input, termSd, httpSd, httpClosed, updlp, redlp>>

\* The deferred UnReg; then Run returns, and with it the program ends.
RunReturns ==
    /\ run = "unreg" /\ Updates!UnReg("run")
    /\ run' = "returned"
    /\ UNCHANGED <<tv, input, termSd, httpSd, told, httpClosed, redlp>>

\* Any of the model's goroutines, which nobody stops.
ModelUpdates ==
    /\ run # "newTermView" /\ Updates!In("state")
    /\ UNCHANGED <<run, tv, input, termSd, httpSd, told, httpClosed, redlp>>

----------------------------------------------------------------------------
\* Shutdown of the views.

\* v.shutdown <- 1 is received by run.
ShutdownReceived(q) ==
    /\ termSd[q] = "send" /\ tv = "select"
    /\ termSd' = [termSd EXCEPT ![q] = "wait"]
    /\ tv' = "unreg"
    /\ UNCHANGED <<run, input, httpSd, told, httpClosed, updlp, redlp>>

\* It is received by another Shutdown, which takes it for the closing.
ShutdownCrossed(q, r) ==
    /\ termSd[q] = "send" /\ termSd[r] = "wait" /\ tv # "closed"
    /\ termSd' = [termSd EXCEPT ![q] = "wait", ![r] = "done"]
    /\ UNCHANGED <<run, tv, input, httpSd, told, httpClosed, updlp, redlp>>

\* The channel is closed: the wait is over, a send panics.
ShutdownClosed(q) ==
    /\ tv = "closed"
    /\ \/ termSd[q] = "wait" /\ termSd' = [termSd EXCEPT ![q] = "done"]
       \/ termSd[q] = "send" /\ termSd' = [termSd EXCEPT ![q] = "panic"]
    /\ UNCHANGED <<run, tv, input, httpSd, told, httpClosed, updlp, redlp>>

\* Closing a channel twice panics.
HttpShutdown(q) ==
    /\ httpSd[q] = "close"
    /\ httpSd' = [httpSd EXCEPT ![q] = IF httpClosed THEN "panic" ELSE "done"]
    /\ httpClosed' = TRUE
    /\ UNCHANGED <<run, tv, input, termSd, told, updlp, redlp>>

\* Controller.Go recovers from the panic and asks for another shutdown.  The
\* doShutdown that has panicked never gets done.
TermShutdownPanics(q) ==
    /\ termSd[q] = "panic"
    /\ ReceiveQuit([termSd EXCEPT ![q] = "dead"], httpSd)
    /\ UNCHANGED <<input, httpClosed>>

HttpShutdownPanics(q) ==
    /\ httpSd[q] = "panic"
    /\ ReceiveQuit(termSd, [httpSd EXCEPT ![q] = "dead"])
    /\ UNCHANGED <<input, httpClosed>>

----------------------------------------------------------------------------
\* TermView.run.  Flush, which changes nothing here, is left out.

TermRegisters ==
    /\ tv = "reg" /\ Redraw!Reg("term")
    /\ tv' = "draw"
    /\ UNCHANGED <<run, input, termSd, httpSd, told, httpClosed, updlp>>

\* draw begins with a State(), which Run hands out in its loop.
TermDraws ==
    /\ tv = "draw" /\ run = "select"
    /\ tv' = "select"
    /\ UNCHANGED <<run, input, termSd, httpSd, told, httpClosed, updlp, redlp>>

TermUpdated ==
    /\ tv = "select" /\ Updates!Send("term", "state")
    /\ tv' = "draw"
    /\ UNCHANGED <<run, input, termSd, httpSd, told, httpClosed, redlp>>

TermRedraws ==
    /\ tv = "select" /\ Redraw!Send("term", "redraw")
    /\ tv' = "draw"
    /\ UNCHANGED <<run, input, termSd, httpSd, told, httpClosed, updlp>>

\* Mutant: v.shutdown is not closed.
TermLeaves ==
    /\ tv = "unreg" /\ Redraw!UnReg("term")
    /\ tv' = "off"
    /\ UNCHANGED <<run, input, termSd, httpSd, told, httpClosed, updlp>>

\* What run has deferred: UnReg, termbox.Close, close(v.shutdown).
TermCloses ==
    /\ tv = "unreg" /\ Redraw!UnReg("term")
    /\ tv' = "closed"
    /\ UNCHANGED <<run, input, termSd, httpSd, told, httpClosed, updlp>>

\* TermView.input: Ctrl+C, a resize, or an error, on which it panics.
PollEvent ==
    /\ input = "poll"
    /\ \E next \in {"quit", "redraw", "panic"} : input' = next
    /\ UNCHANGED <<run, tv, termSd, httpSd, told, httpClosed, updlp, redlp>>

InputQuits ==
    /\ \/ input = "quit" /\ input' = "poll"
       \/ input = "panic" /\ input' = "dead"
    /\ ReceiveQuit(termSd, httpSd)
    /\ UNCHANGED httpClosed

InputRedraws ==
    /\ input = "redraw" /\ Redraw!In("redraw")
    /\ input' = "poll"
    /\ UNCHANGED <<run, tv, termSd, httpSd, told, httpClosed, updlp>>

----------------------------------------------------------------------------
Shutdowns(q) ==
    \/ HttpShutdown(q) \/ ShutdownClosed(q)
    \/ TermShutdownPanics(q) \/ HttpShutdownPanics(q)

ViewsNext ==
    /\ run # "returned"
    /\ \/ NewTermView \/ RunRegisters \/ RunUpdated \/ RunReturns \/ ModelUpdates
       \/ TermRegisters \/ TermDraws \/ TermUpdated \/ TermRedraws \/ TermCloses
       \/ PollEvent \/ InputQuits \/ InputRedraws
       \/ \E q \in Quits : \/ ReceiveDone(q) \/ ShutdownReceived(q) \/ Shutdowns(q)
                           \/ \E r \in Quits : ShutdownCrossed(q, r)

ViewsSpec == ViewsInit /\ [][ViewsNext]_runVars

\* Whoever can go on does.  Strong fairness is that of a select, which chooses at
\* random among its branches.  Nothing is assumed of the user and the model.
FairViewsSpec ==
    /\ ViewsSpec
    /\ SF_runVars(NewTermView \/ RunRegisters \/ RunReturns)
    /\ WF_runVars(RunUpdated) /\ WF_runVars(\E q \in Quits : ReceiveDone(q))
    /\ SF_runVars(TermRegisters \/ TermDraws \/ TermCloses)
    /\ SF_runVars(TermUpdated) /\ SF_runVars(TermRedraws)
    /\ SF_runVars(\E q \in Quits : ShutdownReceived(q))
    /\ WF_runVars(InputQuits)
    /\ \A q \in Quits : WF_runVars(Shutdowns(q))

----------------------------------------------------------------------------
\* Run returns, and ends the program, only when the terminal has been closed
\* and is as it was before (doShutdown waits "for all of the views",
\* controller.go:106).  A second quit command breaks this: its Shutdown may be
\* what the first one's is waiting for (term/view.go:147-150).
TerminalRestored ==
    run \in {"unreg", "returned"} => tv = "closed" \/ \E q \in Quits \ {1} : termSd[q] # "off"

\* At the start: an update waits for TermView, which is drawing and waits for
\* a State; that is for Run, which waits to be registered for updates.
StartHung == run = "reg" /\ Updates!HeldBy("term") /\ tv = "draw"

\* TermView has gone without unregistering from the updates, and the next of
\* them keeps Run from doing it; or that one is just being sent to Run itself
\* (controller.go:190).
UpdatesHung ==
    \/ Updates!HeldBy("term") /\ tv \in {"unreg", "closed"}
    \/ Updates!HeldBy("run") /\ run = "unreg"

\* TermView has stopped receiving, but the broadcast that it tells so is
\* sending to it (term/view.go:126).
RedrawHung == Redraw!HeldBy("term") /\ tv = "unreg"

\* Two quit commands have each closed one of the views.  Both panic on the
\* other, so neither doShutdown gets done, and those that Controller.Go asks for
\* find everything closed (controller.go:86-98, 109-115).
Storm ==
    /\ tv = "closed" /\ httpClosed
    /\ \A q \in Quits : \/ termSd[q] \in {"off", "panic", "dead"}
                        \/ httpSd[q] \in {"close", "panic", "dead"}

\* "(Ctrl+C to quit)" (term/view.go:64): who presses it gets the program to
\* end, however many quit commands there are and whatever panics, except in
\* one of these four ways.
QuitReturns ==
    input = "quit" ~>
        run = "returned" \/ StartHung \/ UpdatesHung \/ RedrawHung \/ Storm

==============================================================================
