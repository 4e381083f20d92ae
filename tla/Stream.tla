------------------------------- MODULE Stream -------------------------------
(***************************************************************************)
(* The live status stream: what the run manager broadcasts, the SSE hub    *)
(* that fans it out (sse-hub.server.ts) and the web page that follows it   *)
(* (useRunStream.ts).                                                      *)
(*                                                                         *)
(* A RunState is the sequence of events folded into it: two folds of the   *)
(* same events are the same state, and one more, one less or one twice is  *)
(* another.  A status is an active run with its state.                     *)
(***************************************************************************)
EXTENDS Naturals, Sequences, FiniteSets

CONSTANTS
    Clients,    \* "page", and "terminal" where Attach adds it
    MaxRuns,    \* bound: runs triggered
    MaxEvents,  \* bound: events of a run
    MaxFaults,  \* bound: connections lost or refused
    MaxQueue,   \* bound: frames on the way to a client, or waiting in it
    Patience    \* failures in a row before the page polls (3 in the source)

ASSUME StreamAssumption ==
    /\ "page" \in Clients
    /\ {MaxRuns, MaxEvents, MaxFaults, MaxQueue} \subseteq Nat
    /\ Patience \in Nat \ {0}

VARIABLES
    active,   \* RunManager.#active with its handle.state
    runs,     \* runs triggered so far
    casts,    \* broadcasts awaiting their status()
    link,     \* client -> its connection, with what is on its way to it
    stale,    \* lost connections the server has not done with
    faults,   \* connections lost or refused so far
    failures, \* useRunStream: failures since the last onopen
    polling,  \* useRunStream: the stream was given up for a poll
    ended,    \* the EventSource has closed itself (external)
    reply,    \* the answers to /api/status on their way to the page
    pending,  \* useRunStream: frames waiting for the animation frame
    shown     \* useRunStream: state.status

manager == <<active, runs, casts>>
hub     == <<link, stale>>
source  == <<failures, polling, ended>>
page    == <<source, reply, pending, shown>>
vars    == <<manager, hub, faults, page>>

Runs    == 1 .. MaxRuns
Events  == Runs \X (1 .. MaxEvents)      \* <<run, seq>>
Status  == [run: 0 .. MaxRuns, state: Seq(Events)]
NoRun   == [run |-> 0, state |-> <<>>]

Frame(kind, status) == [kind |-> kind, status |-> status, event |-> <<0, 0>>]
Patch(run, seq)     == [kind |-> "patch", status |-> NoRun, event |-> <<run, seq>>]

\* listening: subscribed, with its heartbeat; if not, still in the await.
NoLink == [open |-> FALSE, listening |-> FALSE, frames |-> <<>>]
Stale  == [listening: BOOLEAN, gone: BOOLEAN]

AreFrames(fs) == \A i \in DOMAIN fs :
    fs[i].kind \in {"snapshot", "run-started", "run-finished", "patch"} /\ fs[i].status \in Status

TypeOK ==
    /\ active \in Status /\ runs \in 0 .. MaxRuns
    /\ casts \subseteq {"run-started", "run-finished"} \X Runs
    /\ \A c \in Clients : {link[c].open, link[c].listening} \subseteq BOOLEAN /\ AreFrames(link[c].frames)
    /\ stale \subseteq Stale
    /\ faults \in 0 .. MaxFaults /\ failures \in 0 .. Patience
    /\ ended \in BOOLEAN /\ polling = (failures = Patience)
    /\ reply \subseteq Status /\ AreFrames(pending) /\ shown \in Status

\* The page is rendered and hydrated with a status read while nothing ran.
Init ==
    /\ active = NoRun /\ runs = 0 /\ casts = {}
    /\ link = [c \in Clients |-> NoLink] /\ stale = {} /\ faults = 0
    /\ failures = 0 /\ polling = FALSE /\ ended = FALSE
    /\ reply = {} /\ pending = <<>> /\ shown = NoRun

-----------------------------------------------------------------------------
(* The run manager *)

\* #emit: a frame for every listener; what is sent to a lost one is dropped.
Send(frame) ==
    /\ \A c \in Clients : Len(link[c].frames) < MaxQueue
    /\ link' = [c \in Clients |-> IF link[c].listening
                                  THEN [link[c] EXCEPT !.frames = Append(@, frame)]
                                  ELSE link[c]]

\* Mutant of Trigger: nobody is told that a run began.
TriggerUnannounced ==
    /\ active = NoRun /\ runs < MaxRuns
    /\ runs' = runs + 1
    /\ active' = [run |-> runs', state |-> <<>>]
    /\ UNCHANGED <<casts, hub, faults, page>>

\* trigger(): #active is set, and run-started goes out once its status is read.
Trigger ==
    /\ active = NoRun /\ runs < MaxRuns
    /\ runs' = runs + 1
    /\ active' = [run |-> runs', state |-> <<>>]
    /\ casts' = casts \cup {<<"run-started", runs'>>}
    /\ UNCHANGED <<hub, faults, page>>

\* EventBus.emit: the handle's own fold comes first, then the manager's patch.
Emit ==
    /\ active # NoRun /\ Len(active.state) < MaxEvents
    /\ LET seq == Len(active.state) + 1 IN
       /\ active' = [active EXCEPT !.state = Append(@, <<active.run, seq>>)]
       /\ Send(Patch(active.run, seq))
    /\ UNCHANGED <<runs, casts, stale, faults, page>>

\* Mutant of Release: run-finished goes out with the run still in its status.
ReleaseLate ==
    /\ active # NoRun
    /\ active' = NoRun
    /\ Send(Frame("run-finished", active))
    /\ UNCHANGED <<runs, casts, stale, faults, page>>

\* The end of #finish: #active is cleared before run-finished reads its status.
Release ==
    /\ active # NoRun
    /\ active' = NoRun
    /\ casts' = casts \cup {<<"run-finished", active.run>>}
    /\ UNCHANGED <<runs, hub, faults, page>>

\* #broadcastAsync: the status is the one of the moment it is sent, so it may
\* tell of a later run than the one it is about.
Broadcast ==
    \E cast \in casts :
        /\ Send(Frame(cast[1], active))
        /\ casts' = casts \ {cast}
        /\ UNCHANGED <<active, runs, stale, faults, page>>

-----------------------------------------------------------------------------
(* The SSE hub *)

\* sseHandler up to its await: the close handlers are registered first.
Accept(client) ==
    /\ ~link[client].open
    /\ link' = [link EXCEPT ![client].open = TRUE]
    /\ UNCHANGED stale

\* From the status to the subscription without an await: nothing falls between.
Snapshot(client) ==
    /\ link[client].open /\ ~link[client].listening
    /\ link' = [link EXCEPT ![client].listening = TRUE,
                            ![client].frames = <<Frame("snapshot", active)>>]
    /\ UNCHANGED <<manager, stale, faults, page>>

\* Mutant of LateSnapshot: whether the client is still there is not asked again.
LateSnapshotUnasked(c) ==
    /\ ~c.listening
    /\ stale' = (stale \ {c}) \cup {[c EXCEPT !.listening = TRUE]}
    /\ UNCHANGED <<manager, link, faults, page>>

\* The same for a client lost during the await: the handler returns if it has
\* heard of that, and subscribes to no avail if it has not.
LateSnapshot(c) ==
    /\ ~c.listening
    /\ stale' = (stale \ {c}) \cup (IF c.gone THEN {} ELSE {[c EXCEPT !.listening = TRUE]})
    /\ UNCHANGED <<manager, link, faults, page>>

\* cleanup: "close" reaches the server some time after the connection was lost.
Cleanup(c) ==
    /\ ~c.gone
    /\ stale' = (stale \ {c}) \cup (IF c.listening THEN {} ELSE {[c EXCEPT !.gone = TRUE]})
    /\ UNCHANGED <<manager, link, faults, page>>

\* A connection is lost with whatever it still carried.
Lost(client) ==
    /\ link[client].open /\ faults < MaxFaults
    /\ faults' = faults + 1
    /\ stale' = stale \cup {[listening |-> link[client].listening, gone |-> FALSE]}
    /\ link' = [link EXCEPT ![client] = NoLink]

Received(client) ==
    /\ link[client].frames # <<>>
    /\ link' = [link EXCEPT ![client].frames = Tail(@)]

-----------------------------------------------------------------------------
(* The web page *)

\* The EventSource connects, or connects again: onopen.
PageOpen ==
    /\ ~polling /\ ~ended /\ Accept("page")
    /\ failures' = 0
    /\ UNCHANGED <<manager, faults, polling, ended, reply, pending, shown>>

\* Mutant of OnError: one failure too many.
OnErrorLate ==
    /\ failures' = failures + 1
    /\ polling' = (failures' > Patience)

OnError ==
    /\ failures' = failures + 1
    /\ polling' = (failures' >= Patience)

PageLost ==
    /\ Lost("page") /\ OnError
    /\ UNCHANGED <<manager, ended, reply, pending, shown>>

\* No connection, and the EventSource tries again; or an answer that is not an
\* event stream, after which it does not.
PageRefused ==
    /\ ~polling /\ ~ended /\ ~link["page"].open /\ faults < MaxFaults
    /\ faults' = faults + 1
    /\ ended' \in BOOLEAN
    /\ OnError
    /\ UNCHANGED <<manager, hub, reply, pending, shown>>

\* onmessage: enqueued for the next animation frame.
PageReceive ==
    /\ Len(pending) < MaxQueue
    /\ Received("page")
    /\ pending' = Append(pending, Head(link["page"].frames))
    /\ UNCHANGED <<manager, stale, faults, source, reply, shown>>

\* Mutant of Reduce: a patch is folded whatever run it is of.
ReduceAnyRun(status, frame) ==
    CASE frame.kind # "patch" -> frame.status
      [] frame.kind = "patch" /\ status.run # 0 ->
            [status EXCEPT !.state = Append(@, frame.event)]
      [] OTHER -> status

\* A patch of a run the page is not tracking is ignored.
Reduce(status, frame) ==
    CASE frame.kind # "patch" -> frame.status
      [] frame.kind = "patch" /\ status.run # 0 /\ status.run = frame.event[1] ->
            [status EXCEPT !.state = Append(@, frame.event)]
      [] OTHER -> status

\* The status after all the frames, the first of them first.
Folded(status, frames) ==
    LET upTo[n \in 0 .. Len(frames)] ==
            IF n = 0 THEN status ELSE Reduce(upTo[n - 1], frames[n])
    IN  upTo[Len(frames)]

\* The animation frame; a hidden tab waits for it.
Flush ==
    /\ pending # <<>>
    /\ shown' = Folded(shown, pending)
    /\ pending' = <<>>
    /\ UNCHANGED <<manager, hub, faults, source, reply>>

\* The poll: an answer is as old as its way back.
PollAsk ==
    /\ polling /\ reply = {}
    /\ reply' = {active}
    /\ UNCHANGED <<manager, hub, faults, source, pending, shown>>

PollAnswer ==
    /\ reply # {}
    /\ shown' \in reply
    /\ reply' = {}
    /\ UNCHANGED <<manager, hub, faults, source, pending>>

-----------------------------------------------------------------------------

Next ==
    \/ Trigger \/ Emit \/ Release \/ Broadcast
    \/ \E client \in Clients : Snapshot(client)
    \/ \E c \in stale : LateSnapshot(c) \/ Cleanup(c)
    \/ PageOpen \/ PageReceive \/ Flush
    \/ PageLost \/ PageRefused \/ PollAsk \/ PollAnswer

Spec == Init /\ [][Next]_vars

\* The server answers and broadcasts, the browser reconnects, reads, renders
\* and polls.  Nothing makes a run start, go on or end.
Fairness ==
    /\ WF_vars(Broadcast)
    /\ \A client \in Clients : WF_vars(Snapshot(client))
    /\ WF_vars(PageOpen) /\ WF_vars(PageReceive) /\ WF_vars(Flush)
    /\ WF_vars(PollAsk) /\ WF_vars(PollAnswer)

FairSpec == Spec /\ Fairness
-----------------------------------------------------------------------------
(* Properties *)

\* A connection the server knows to be closed is not subscribed any more,
\* also when it closed during the await (sse-hub.server.ts:59-73).
NoLeak == \A c \in stale : c.gone => ~c.listening

\* Nothing falls between a snapshot and the patches that follow it: what is on
\* its way brings the page to exactly the server's state, no event missing and
\* none twice, unless a broadcast is still to come (sse-hub.server.ts:8-10).
InStep ==
    link["page"].listening /\ casts = {} =>
        Folded(Folded(shown, pending), link["page"].frames) = active

\* What the page shows of a run is made of that run's events only, however the
\* broadcasts of two runs and their patches interleave (useRunStream.ts:44-46).
RunUnmixed == \A i \in DOMAIN shown.state : shown.state[i][1] = shown.run

\* Once the server is quiet the page comes to show its state and stays there,
\* on the stream or by polling, whatever was lost; unless an answer that was no
\* event stream closed the EventSource before the page had counted enough
\* failures to poll (useRunStream.ts:137-147).
Converges == <>[](shown = active) \/ <>[](ended /\ ~polling)
=============================================================================
