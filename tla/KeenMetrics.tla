---------------------------- MODULE KeenMetrics ----------------------------
(***************************************************************************)
(* KeenIoMetrics (server/metrics.go): the bounded channel on which the     *)
(* goroutines of the server put what is to be reported, and the goroutine  *)
(* that collects it and posts a batch at every tick of its timer.          *)
(*                                                                         *)
(* A component: Send is joined with a step of the goroutine that reports.  *)
(* Each event is the closing of one tunnel or of one connection, of which  *)
(* nothing else matters here; that the batch has a list per collection     *)
(* does not either, since a payload holds all of them.                     *)
(***************************************************************************)
EXTENDS Naturals, Sequences, FiniteSets

CONSTANTS Events, ChannelCap  \* ChannelCap: 1000 in the code

VARIABLES
    channel,   \* KeenIoMetrics.Metrics
    batch,     \* the events collected since the last tick
    reporter,  \* the goroutine is at its select, or within AuthedRequest
    reports,   \* how often Keen.io got each event
    lost       \* history: the events of batches that it never got

keenVars == <<channel, batch, reporter, reports, lost>>

TypeOK ==
    /\ channel \in Seq(Events) /\ Len(channel) <= ChannelCap
    /\ batch \subseteq Events
    /\ reporter \in {"select", "post"}
    /\ reports \in [Events -> 0..1]
    /\ lost \subseteq Events

Init ==
    /\ channel = <<>>
    /\ batch = {}
    /\ reporter = "select"
    /\ reports = [e \in Events |-> 0]
    /\ lost = {}

\* A send on the channel, which blocks when it is full.
Send(e) ==
    /\ Len(channel) < ChannelCap
    /\ channel' = Append(channel, e)
    /\ UNCHANGED <<batch, reporter, reports, lost>>

Collect ==
    /\ reporter = "select"
    /\ channel # <<>>
    /\ batch' = batch \cup {Head(channel)}
    /\ channel' = Tail(channel)
    /\ UNCHANGED <<reporter, reports, lost>>

\* Mutant: with nothing to report the goroutine returns.
TickReturns ==
    /\ reporter = "select"
    /\ reporter' = IF batch = {} THEN "returned" ELSE "post"
    /\ UNCHANGED <<channel, batch, reports, lost>>

\* The timer ticks.  With nothing to report the goroutine goes on at once.
Tick ==
    /\ reporter = "select"
    /\ batch # {}
    /\ reporter' = "post"
    /\ UNCHANGED <<channel, batch, reports, lost>>

\* What Keen.io gets of a request: its payload, once.
Received == reports' = [e \in Events |-> reports[e] + IF e \in batch THEN 1 ELSE 0]

\* Mutant: the batch is kept for another attempt unless the answer was good.
PostRetried ==
    /\ reporter = "post"
    /\ reporter' = "select"
    /\ \/ Received /\ batch' = {}
       \/ (Received \/ UNCHANGED reports) /\ UNCHANGED batch
    /\ UNCHANGED <<channel, lost>>

\* AuthedRequest returns; its error is logged.  The payload may have arrived
\* whether there is an error or not (the answer may be lost, or a bad one),
\* and the batch is given up in any case.
Post ==
    /\ reporter = "post"
    /\ reporter' = "select"
    /\ \/ Received /\ UNCHANGED lost
       \/ lost' = lost \cup batch /\ UNCHANGED reports
    /\ batch' = {}
    /\ UNCHANGED channel

Next == Collect \/ Tick \/ Post

-----------------------------------------------------------------------------
(* Properties, for the composing module *)

\* In how many places event e is.
Places(e) ==
    Cardinality({n \in DOMAIN channel : channel[n] = e}) + reports[e]
    + (IF e \in batch THEN 1 ELSE 0) + (IF e \in lost THEN 1 ELSE 0)

\* Whatever was sent is on its way, or has been counted once by Keen.io, or
\* was lost with a whole batch: nothing is counted twice, however a request
\* fails, and nothing is dropped for another reason.
CountsOnce(sent) == \A e \in Events : Places(e) = IF e \in sent THEN 1 ELSE 0
=============================================================================
