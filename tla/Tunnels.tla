------------------------------ MODULE Tunnels -------------------------------
(***************************************************************************)
(* One reverse tunnel: its row and the handlers of tunnels.service.ts, the *)
(* runner that starts tunnel clients as child processes of the panel       *)
(* (tunnel-runner.service.ts), the client and the relay with the one link  *)
(* between them (services/agent/internal/tunnel).                          *)
(*                                                                         *)
(* A connection has two ends that learn of its loss at different times.    *)
(* What is relayed over the link is left out.                              *)
(***************************************************************************)
EXTENDS Naturals, FiniteSets

CONSTANTS
  Calls,             \* slots for start requests in progress
  Procs,             \* slots for client processes
  Conns,             \* slots for control connections
  None,              \* no process, no connection, no key
  Modes,             \* how the client may trust the relay's key in this instance
  MaxFaults          \* bound: restarts and crashes, connections cut, failed writes

AllModes == {"tofu",      \* the first key is kept in a file
             "pinned",    \* the fingerprint is in the row
             "insecure"}  \* any key will do

ASSUME NoneAssumption == None \notin Procs \cup Conns \cup Nat
ASSUME ModesAssumption == Modes \subseteq AllModes
ASSUME MaxFaultsAssumption == MaxFaults \in Nat

VARIABLES
  row,       \* the tunnels row
  entry,     \* the runner's map at the tunnel's id
  call,      \* the start requests
  stopping,  \* a stop request before its UPDATE
  booting,   \* the panel has started and not yet resumed its tunnels
  proc,      \* the client processes
  pinFile,   \* the fingerprint file of the client
  conn,      \* the relay's end of the control connections, and what the network did to them
  session,   \* the session the relay forwards to
  key,       \* the relay's key: how often it was started again
  faults,    \* history: what the bound counts
  mode, trusted, unkept  \* history: links were made with these keys; no file kept the first key

panelVars  == <<row, entry, call, stopping, booting>>
relayVars  == <<conn, session, key>>
clientVars == <<proc, pinFile, trusted, unkept>>
vars == <<panelVars, relayVars, clientVars, mode, faults>>

-----------------------------------------------------------------------------
Keys == 0..MaxFaults

\* watched: the panel that started it still runs, listens for its exit and reads its log.
Proc   == [pc : {"none", "dialing", "hello", "serving", "dying"}, conn : Conns \cup {None},
           pin : Keys \cup {None}, watched : BOOLEAN]
NoProc == [pc |-> "none", conn |-> None, pin |-> None, watched |-> FALSE]

\* "acked": the client was told, the session is not registered yet.
Conn   == [pc : {"none", "accepted", "acked", "open", "closed"}, cut : BOOLEAN]
NoConn == [pc |-> "none", cut |-> FALSE]

TypeOK ==
  /\ row \in [present : BOOLEAN, enabled : BOOLEAN]
  /\ entry \in Procs \cup {None}
  /\ call \in [Calls -> {"idle", "building", "started"}]
  /\ stopping \in BOOLEAN /\ booting \in BOOLEAN
  /\ proc \in [Procs -> Proc]
  /\ pinFile \in Keys \cup {None}
  /\ conn \in [Conns -> Conn]
  /\ session \in Conns \cup {None}
  /\ faults \in Keys /\ key \in 0..faults
  /\ mode \in AllModes /\ trusted \subseteq Keys /\ unkept \in BOOLEAN

Init ==
  /\ row = [present |-> TRUE, enabled |-> FALSE]
  /\ entry = None /\ stopping = FALSE /\ booting = FALSE
  /\ call = [s \in Calls |-> "idle"]
  /\ proc = [p \in Procs |-> NoProc]
  /\ pinFile = None
  /\ conn = [k \in Conns |-> NoConn]
  /\ session = None
  /\ key = 0 /\ faults = 0
  /\ mode \in Modes /\ trusted = {} /\ unkept = FALSE

-----------------------------------------------------------------------------
(* The panel: start, stop, remove, and its own restarts.                   *)

Fault == faults < MaxFaults /\ faults' = faults + 1

Call(s, to) == call' = [call EXCEPT ![s] = to]

\* runner.start returns at once if the map has the tunnel, and may build the client first.
AskStart(s) ==
  /\ call[s] = "idle" /\ row.present /\ ~booting
  /\ Call(s, IF entry # None THEN "started" ELSE "building")
  /\ UNCHANGED <<row, entry, stopping, booting, relayVars, clientVars, mode, faults>>

\* Mutant: the fingerprint file is not read again.
FirstPinForgotten == IF mode = "pinned" THEN 0 ELSE None

\* NewClient: the fingerprint of the row, or the one the file holds.
FirstPin == CASE mode = "pinned" -> 0 [] mode = "tofu" -> pinFile [] OTHER -> None

\* Slots are alike, so the choice among the free ones does not matter.
FreeProcs == {p \in Procs : proc[p].pc = "none"}

Spawn(s) ==
  /\ call[s] = "building"
  /\ FreeProcs # {}
  /\ entry' = CHOOSE p \in FreeProcs : TRUE
  /\ proc' = [proc EXCEPT ![entry'] =
                [pc |-> "dialing", conn |-> None, pin |-> FirstPin, watched |-> TRUE]]
  /\ unkept' = (unkept \/ (pinFile = None /\ FreeProcs # Procs))
  /\ Call(s, "started")
  /\ UNCHANGED <<row, stopping, booting, relayVars, pinFile, trusted, mode, faults>>

SpawnFails(s) ==
  /\ call[s] = "building"
  /\ Call(s, "idle")
  /\ UNCHANGED <<row, entry, stopping, booting, relayVars, clientVars, mode, faults>>

MarkEnabled(s) ==
  /\ call[s] = "started"
  /\ row' = [row EXCEPT !.enabled = row.present]
  /\ Call(s, "idle")
  /\ UNCHANGED <<entry, stopping, booting, relayVars, clientVars, mode, faults>>

\* Mutant: a stopped process gets a state of its own.
DyingStopped(r) == [r EXCEPT !.pc = "stopped", !.pin = None]

\* A process that was told to end, or was killed by its log, no longer dials.
Dying(r) == [r EXCEPT !.pc = "dying", !.pin = None]

Killed(p) == IF p = None THEN proc ELSE [proc EXCEPT ![p] = Dying(@)]

\* runner.stop: SIGTERM, and the entry is gone before the process is.
Stop ==
  /\ row.present /\ ~booting /\ ~stopping
  /\ proc' = Killed(entry)
  /\ entry' = None
  /\ stopping' = TRUE
  /\ UNCHANGED <<row, call, booting, relayVars, pinFile, trusted, unkept, mode, faults>>

MarkStopped ==
  /\ stopping
  /\ row' = [row EXCEPT !.enabled = FALSE]
  /\ stopping' = FALSE
  /\ UNCHANGED <<entry, call, booting, relayVars, clientVars, mode, faults>>

Remove ==
  /\ row.present /\ ~booting
  /\ proc' = Killed(entry)
  /\ entry' = None
  /\ row' = [present |-> FALSE, enabled |-> FALSE]
  /\ UNCHANGED <<call, stopping, booting, relayVars, pinFile, trusted, unkept, mode, faults>>

\* onModuleDestroy kills what the map holds; a crash kills nothing.
PanelRestarts ==
  /\ Fault
  /\ \E p \in {entry, None} :
       proc' = [r \in Procs |-> [Killed(p)[r] EXCEPT !.watched = FALSE]]
  /\ entry' = None
  /\ call' = [s \in Calls |-> "idle"]
  /\ stopping' = FALSE
  /\ booting' = TRUE
  /\ UNCHANGED <<row, relayVars, pinFile, trusted, unkept, mode>>

\* onApplicationBootstrap starts the tunnels that are enabled.
Boot ==
  /\ booting
  /\ booting' = FALSE
  /\ IF row.enabled THEN \E s \in Calls : Call(s, "building") ELSE UNCHANGED call
  /\ UNCHANGED <<row, entry, stopping, relayVars, clientVars, mode, faults>>

-----------------------------------------------------------------------------
(* The client.                                                             *)

\* A client writes to its log on every change of its link; once the panel that read the
\* log is gone, that write ends it (SIGPIPE).
Logs(p, pc, k) ==
  IF proc[p].watched THEN [proc[p] EXCEPT !.pc = pc, !.conn = k] ELSE Dying(proc[p])

FreeConns == {k \in Conns : conn[k].pc = "none" /\ \A p \in Procs : proc[p].conn # k}

Trusts(p) == mode = "insecure" \/ proc[p].pin \in {None, key}

\* The first key a client sees, which it will keep.
SeesFirstKey(p) == mode = "tofu" /\ proc[p].pin = None

SaveKey ==
  \/ pinFile' = key /\ UNCHANGED <<unkept, faults>>
  \/ Fault /\ unkept' = TRUE /\ UNCHANGED pinFile

\* Dial and TLS handshake.  verifyPeer pins the first key, saves it and logs that.
Dial(p) ==
  /\ proc[p].pc = "dialing" /\ Trusts(p)
  /\ FreeConns # {}
  /\ LET k == CHOOSE c \in FreeConns : TRUE IN
       /\ conn' = [conn EXCEPT ![k] = [pc |-> "accepted", cut |-> FALSE]]
       /\ proc' = [proc EXCEPT ![p] =
                     IF SeesFirstKey(p) /\ ~@.watched THEN Dying(@)
                     ELSE [@ EXCEPT !.pc = "hello", !.conn = k,
                                    !.pin = IF mode = "insecure" THEN None ELSE key]]
  /\ IF SeesFirstKey(p) THEN SaveKey ELSE UNCHANGED <<pinFile, unkept, faults>>
  /\ UNCHANGED <<panelVars, session, key, trusted, mode>>

\* Another key than the pinned one: the client tries again after a while.
DialRefused(p) ==
  /\ proc[p].pc = "dialing" /\ ~Trusts(p)
  /\ proc' = [proc EXCEPT ![p] = Logs(p, "dialing", None)]
  /\ UNCHANGED <<panelVars, relayVars, pinFile, trusted, unkept, mode, faults>>

\* The HelloAck arrives.
LinkUp(p) ==
  LET k == proc[p].conn IN
  /\ proc[p].pc = "hello"
  /\ conn[k].pc \in {"acked", "open", "closed"} /\ ~conn[k].cut
  /\ proc' = [proc EXCEPT ![p] = Logs(p, "serving", k)]
  /\ trusted' = trusted \cup {key}
  /\ UNCHANGED <<panelVars, relayVars, pinFile, unkept, mode, faults>>

\* The relay's end is gone or out of reach.
Lost(k) == conn[k].cut \/ conn[k].pc \in {"none", "closed"}

LinkDown(p) ==
  /\ proc[p].pc \in {"hello", "serving"} /\ Lost(proc[p].conn)
  /\ proc' = [proc EXCEPT ![p] = Logs(p, "dialing", None)]
  /\ UNCHANGED <<panelVars, relayVars, pinFile, trusted, unkept, mode, faults>>

ClientCrashes(p) ==
  /\ Fault
  /\ proc[p].pc \notin {"none", "dying"}
  /\ proc' = Killed(p)
  /\ UNCHANGED <<panelVars, relayVars, pinFile, trusted, unkept, mode>>

\* Mutant: the entry of a client that ended stays in the map.
EntryAfterExitKept(p) == entry

\* The exit handler deletes the tunnel's entry, whichever process it is about.
EntryAfterExit(p) == IF proc[p].watched THEN None ELSE entry

Exit(p) ==
  /\ proc[p].pc = "dying"
  /\ proc' = [proc EXCEPT ![p] = NoProc]
  /\ entry' = EntryAfterExit(p)
  /\ UNCHANGED <<row, call, stopping, booting, relayVars, pinFile, trusted, unkept, mode, faults>>

-----------------------------------------------------------------------------
(* The relay.                                                              *)

\* handleControl checks the token and answers.
Acknowledge(k) ==
  /\ conn[k].pc = "accepted"
  /\ conn' = [conn EXCEPT ![k].pc = "acked"]
  /\ UNCHANGED <<panelVars, clientVars, session, key, mode, faults>>

\* Mutant: a stale session is not closed.
ReplacedLeftOpen(k) == [conn EXCEPT ![k].pc = "open"]

\* The registered session is closed, whatever its state, and k takes its place.
Replaced(k) ==
  [c \in Conns |-> IF c = k THEN [conn[c] EXCEPT !.pc = "open"]
                   ELSE IF c = session THEN [conn[c] EXCEPT !.pc = "closed"]
                   ELSE conn[c]]

Register(k) ==
  /\ conn[k].pc = "acked"
  /\ conn' = Replaced(k)
  /\ session' = k
  /\ UNCHANGED <<panelVars, clientVars, key, mode, faults>>

Peerless(k) == conn[k].cut \/ \A p \in Procs : proc[p].conn # k

\* The client closed the link, or yamux got no answer to its keep-alive.
SessionCloses(k) ==
  /\ conn[k].pc = "open" /\ Peerless(k)
  /\ conn' = [conn EXCEPT ![k].pc = "closed"]
  /\ UNCHANGED <<panelVars, clientVars, session, key, mode, faults>>

\* Mutant: whichever session is registered is forgotten.
AfterCloseAlways(k) == None

\* Only the session that closed is forgotten.
AfterClose(k) == IF session = k THEN None ELSE session

HandlerEnds(k) ==
  /\ \/ conn[k].pc = "closed"
     \/ conn[k].pc = "accepted" /\ Peerless(k)
  /\ conn' = [conn EXCEPT ![k] = NoConn]
  /\ session' = IF conn[k].pc = "closed" THEN AfterClose(k) ELSE session
  /\ UNCHANGED <<panelVars, clientVars, key, mode, faults>>

\* systemd starts the relay again, and Run makes a new key.
RelayRestarts ==
  /\ Fault
  /\ key' = key + 1
  /\ conn' = [k \in Conns |-> NoConn]
  /\ session' = None
  /\ UNCHANGED <<panelVars, clientVars, mode>>

Cut(k) ==
  /\ Fault
  /\ conn[k].pc # "none" /\ ~conn[k].cut
  /\ conn' = [conn EXCEPT ![k].cut = TRUE]
  /\ UNCHANGED <<panelVars, clientVars, session, key, mode>>

-----------------------------------------------------------------------------
ClientStep(p) == Dial(p) \/ DialRefused(p) \/ LinkUp(p) \/ LinkDown(p) \/ Exit(p)

RelayStep(k) == Acknowledge(k) \/ Register(k) \/ SessionCloses(k) \/ HandlerEnds(k)

PanelStep(s) == Spawn(s) \/ SpawnFails(s) \/ MarkEnabled(s)

Next ==
  \/ \E s \in Calls : AskStart(s) \/ PanelStep(s)
  \/ Stop \/ MarkStopped \/ Remove \/ PanelRestarts \/ Boot
  \/ \E p \in Procs : ClientStep(p) \/ ClientCrashes(p)
  \/ \E k \in Conns : RelayStep(k) \/ Cut(k)
  \/ RelayRestarts

Spec == Init /\ [][Next]_vars

\* Processes run, dials are repeated, keep-alives time out.  Users and faults owe nothing.
FairSpec ==
  /\ Spec
  /\ \A s \in Calls : WF_vars(PanelStep(s))
  /\ WF_vars(MarkStopped) /\ WF_vars(Boot)
  /\ \A p \in Procs : WF_vars(ClientStep(p))
  /\ \A k \in Conns : WF_vars(RelayStep(k))

-----------------------------------------------------------------------------
(* Properties.                                                             *)

\* The relay forwards to the link that was made last: no link stays open unregistered, so
\* that "replace any stale client" (server.go:127) never leaves two, and the end of an old
\* link never makes the relay forget a newer one.
OpenIsRegistered == \A k \in Conns : conn[k].pc = "open" => session = k

\* However often client and relay are started again, every link was made with one and the
\* same key of the relay: "every later connect must match it" (client.go:33-35).  The
\* exceptions are a key that could not be saved and two clients that both started before
\* the first key was: each trusts the first key it sees.
OneKeyTrusted == mode # "insecure" /\ ~unkept => Cardinality(trusted) <= 1

\* Nobody but the tracked client works for this tunnel, and it is not about to end.
OnlyTracked ==
  /\ entry # None /\ proc[entry].pc # "dying"
  /\ \A p \in Procs : proc[p].watched => p = entry

Linked == entry # None /\ proc[entry].pc = "serving" /\ proc[entry].conn = session

\* A client that is left running gets its link up for good, whatever was cut, left half open
\* or restarted before: it keeps "reconnecting with backoff whenever the link drops"
\* (client.go:47-48).  A client that has pinned the key of an earlier relay never does.
Reconnects == <>[](OnlyTracked /\ Trusts(entry)) => <>[]Linked
=============================================================================
