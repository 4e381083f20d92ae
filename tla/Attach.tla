------------------------------- MODULE Attach -------------------------------
(***************************************************************************)
(* The web page and `tcrs attach` (remoteSource, StateSource.ts) side by   *)
(* side on one stream.                                                     *)
(***************************************************************************)
EXTENDS Stream

VARIABLE term    \* remoteSource: state, NoRun while null

AttachInit == Init /\ term = NoRun

\* fetch of /api/events, at once or 3 s after the last connection was lost.
TerminalOpen ==
    /\ Accept("terminal")
    /\ UNCHANGED <<manager, faults, page, term>>

TerminalLost ==
    /\ Lost("terminal")
    /\ UNCHANGED <<manager, page, term>>

\* Only a snapshot sets a state; a patch is folded into whatever state there
\* is, and the first of a run (batch:start) changes its run id.  Every other
\* frame is passed over.
FoldRemote(state, frame) ==
    CASE frame.kind = "snapshot" -> frame.status
      [] frame.kind = "patch" /\ state # NoRun ->
            [run   |-> IF frame.event[2] = 1 THEN frame.event[1] ELSE state.run,
             state |-> Append(state.state, frame.event)]
      [] OTHER -> state

TerminalReceive ==
    /\ Received("terminal")
    /\ term' = FoldRemote(term, Head(link["terminal"].frames))
    /\ UNCHANGED <<manager, stale, faults, page>>

AttachNext == (Next /\ UNCHANGED term) \/ TerminalOpen \/ TerminalLost \/ TerminalReceive

AttachSpec == AttachInit /\ [][AttachNext]_<<vars, term>>
-----------------------------------------------------------------------------

\* The terminal shows what the page shows once each has folded all it was
\* sent: "the web page and the terminal chart provably cannot drift"
\* (state.ts:9).
NoDrift ==
    /\ active # NoRun /\ casts = {} /\ pending = <<>>
    /\ \A c \in Clients : link[c].listening /\ link[c].frames = <<>>
    => term = shown
=============================================================================
