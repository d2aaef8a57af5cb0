---------------------------- MODULE TunnelsProofs ----------------------------
(* Proofs about Tunnels, for every number of requests, clients, links and   *)
(* faults.                                                                  *)
EXTENDS Tunnels, FiniteSetTheorems, TLAPS

-----------------------------------------------------------------------------
(* Types.                                                                   *)

LEMMA KeysTyped == /\ 0 \in Keys /\ Keys \subseteq Nat /\ None \notin Keys
                   /\ \A n \in Keys : n < MaxFaults => n + 1 \in Keys
BY MaxFaultsAssumption, NoneAssumption DEF Keys

LEMMA ProcTyped ==
  /\ NoProc \in Proc
  /\ \A r \in Proc : /\ Dying(r) \in Proc
                     /\ [r EXCEPT !.watched = FALSE] \in Proc
                     /\ \A pc \in {"dialing", "serving"}, k \in Conns \cup {None} :
                          [r EXCEPT !.pc = pc, !.conn = k] \in Proc
                     /\ \A k \in Conns, n \in Keys \cup {None} :
                          [r EXCEPT !.pc = "hello", !.conn = k, !.pin = n] \in Proc
<1>1. NoProc \in Proc
  BY DEF NoProc, Proc
<1>2. \A r \in Proc : Dying(r) \in Proc
  BY DEF Dying, Proc
<1>3. \A r \in Proc : [r EXCEPT !.watched = FALSE] \in Proc
  BY DEF Proc
<1>4. \A r \in Proc : \A pc \in {"dialing", "serving"}, k \in Conns \cup {None} :
        [r EXCEPT !.pc = pc, !.conn = k] \in Proc
  BY DEF Proc
<1>5. \A r \in Proc : \A k \in Conns, n \in Keys \cup {None} :
        [r EXCEPT !.pc = "hello", !.conn = k, !.pin = n] \in Proc
  BY DEF Proc
<1> QED BY <1>1, <1>2, <1>3, <1>4, <1>5

LEMMA ConnTyped ==
  /\ NoConn \in Conn
  /\ [pc |-> "accepted", cut |-> FALSE] \in Conn
  /\ \A c \in Conn : /\ [c EXCEPT !.cut = TRUE] \in Conn
                     /\ \A pc \in {"acked", "open", "closed"} : [c EXCEPT !.pc = pc] \in Conn
BY DEF NoConn, Conn

LEMMA KilledTyped ==
  ASSUME TypeOK, NEW p \in Procs \cup {None}
  PROVE  Killed(p) \in [Procs -> Proc]
BY ProcTyped, NoneAssumption DEF Killed, TypeOK

LEMMA LogsTyped ==
  ASSUME TypeOK, NEW p \in Procs, NEW pc \in {"dialing", "serving"}, NEW k \in Conns \cup {None}
  PROVE  Logs(p, pc, k) \in Proc
BY ProcTyped DEF Logs, TypeOK

LEMMA FaultTyped ==
  ASSUME faults \in Keys, key \in 0..faults, Fault
  PROVE  faults' \in Keys /\ key \in 0..faults' /\ key + 1 \in 0..faults'
BY KeysTyped DEF Fault, Keys

LEMMA KeyTyped == ASSUME TypeOK PROVE key \in Keys
BY MaxFaultsAssumption DEF TypeOK, Keys

LEMMA TunnelsInit == Init => TypeOK
<1> SUFFICES ASSUME Init PROVE TypeOK
  OBVIOUS
<1>1. proc \in [Procs -> Proc] /\ conn \in [Conns -> Conn]
  BY ProcTyped, ConnTyped DEF Init
<1>2. mode \in AllModes
  BY ModesAssumption DEF Init
<1>3. 0 \in 0..0 /\ 0 \in Keys
  BY KeysTyped
<1> QED BY <1>1, <1>2, <1>3 DEF Init, TypeOK

LEMMA PanelTypes ==
  ASSUME TypeOK,
         \/ \E s \in Calls : AskStart(s) \/ PanelStep(s)
         \/ Stop \/ MarkStopped \/ Remove \/ PanelRestarts \/ Boot
  PROVE  TypeOK'
<1>1. ASSUME NEW s \in Calls, AskStart(s) PROVE TypeOK'
  BY <1>1 DEF AskStart, Call, TypeOK, relayVars, clientVars
<1>2. ASSUME NEW s \in Calls, Spawn(s) PROVE TypeOK'
  <2>1. entry' \in Procs
    BY <1>2 DEF Spawn, FreeProcs
  <2>2. FirstPin \in Keys \cup {None}
    BY KeysTyped DEF FirstPin, TypeOK
  <2>3. [pc |-> "dialing", conn |-> None, pin |-> FirstPin, watched |-> TRUE] \in Proc
    BY <2>2 DEF Proc
  <2>4. proc' \in [Procs -> Proc]
    BY <1>2, <2>3 DEF Spawn, TypeOK
  <2> QED BY <1>2, <2>1, <2>4 DEF Spawn, Call, TypeOK, relayVars
<1>3. ASSUME NEW s \in Calls, SpawnFails(s) PROVE TypeOK'
  BY <1>3 DEF SpawnFails, Call, TypeOK, relayVars, clientVars
<1>4. ASSUME NEW s \in Calls, MarkEnabled(s) PROVE TypeOK'
  BY <1>4 DEF MarkEnabled, Call, TypeOK, relayVars, clientVars
<1>5. CASE Stop
  BY <1>5, KilledTyped DEF Stop, TypeOK, relayVars
<1>6. CASE MarkStopped
  BY <1>6 DEF MarkStopped, TypeOK, relayVars, clientVars
<1>7. CASE Remove
  BY <1>7, KilledTyped DEF Remove, TypeOK, relayVars
<1>8. CASE PanelRestarts
  <2>1. PICK p \in {entry, None} :
          proc' = [r \in Procs |-> [Killed(p)[r] EXCEPT !.watched = FALSE]]
    BY <1>8 DEF PanelRestarts
  <2>2. Killed(p) \in [Procs -> Proc]
    BY KilledTyped DEF TypeOK
  <2>3. proc' \in [Procs -> Proc]
    BY <2>1, <2>2, ProcTyped
  <2>4. faults' \in Keys /\ key' \in 0..faults'
    BY <1>8, FaultTyped DEF PanelRestarts, TypeOK, relayVars
  <2> QED BY <1>8, <2>3, <2>4 DEF PanelRestarts, TypeOK, relayVars
<1>9. CASE Boot
  BY <1>9 DEF Boot, Call, TypeOK, relayVars, clientVars
<1> QED BY <1>1, <1>2, <1>3, <1>4, <1>5, <1>6, <1>7, <1>8, <1>9 DEF PanelStep

LEMMA ClientTypes ==
  ASSUME TypeOK, NEW p \in Procs, ClientStep(p) \/ ClientCrashes(p)
  PROVE  TypeOK'
<1>1. CASE Dial(p)
  <2> DEFINE k == CHOOSE c \in FreeConns : TRUE
  <2>0. key \in Keys
    BY KeyTyped
  <2>1. k \in Conns
    BY <1>1 DEF Dial, FreeConns
  <2>2. conn' \in [Conns -> Conn]
    BY <1>1, ConnTyped DEF Dial, TypeOK
  <2>3. Dying(proc[p]) \in Proc
    BY ProcTyped DEF TypeOK
  <2>4. [proc[p] EXCEPT !.pc = "hello", !.conn = k,
                        !.pin = IF mode = "insecure" THEN None ELSE key] \in Proc
    BY <2>0, <2>1, ProcTyped DEF TypeOK
  <2>5. proc' \in [Procs -> Proc]
    BY <1>1, <2>3, <2>4 DEF Dial, TypeOK
  <2>6. pinFile' \in Keys \cup {None} /\ unkept' \in BOOLEAN
    BY <1>1, <2>0 DEF Dial, SaveKey, TypeOK
  <2>7. faults' \in Keys /\ key' \in 0..faults'
    BY <1>1, FaultTyped DEF Dial, SaveKey, TypeOK
  <2> QED BY <1>1, <2>2, <2>5, <2>6, <2>7 DEF Dial, TypeOK, panelVars
<1>2. CASE DialRefused(p)
  BY <1>2, LogsTyped DEF DialRefused, TypeOK, panelVars, relayVars
<1>3. CASE LinkUp(p)
  <2>1. proc[p].conn \in Conns \cup {None}
    BY DEF TypeOK, Proc
  <2> QED BY <1>3, <2>1, LogsTyped, KeyTyped DEF LinkUp, TypeOK, panelVars, relayVars
<1>4. CASE LinkDown(p)
  BY <1>4, LogsTyped DEF LinkDown, TypeOK, panelVars, relayVars
<1>5. CASE Exit(p)
  BY <1>5, ProcTyped DEF Exit, EntryAfterExit, TypeOK, relayVars
<1>6. CASE ClientCrashes(p)
  BY <1>6, KilledTyped, FaultTyped DEF ClientCrashes, TypeOK, panelVars, relayVars
<1> QED BY <1>1, <1>2, <1>3, <1>4, <1>5, <1>6 DEF ClientStep

LEMMA RelayTypes ==
  ASSUME TypeOK, (\E k \in Conns : RelayStep(k) \/ Cut(k)) \/ RelayRestarts
  PROVE  TypeOK'
<1>1. ASSUME NEW k \in Conns, Acknowledge(k) PROVE TypeOK'
  BY <1>1, ConnTyped DEF Acknowledge, TypeOK, panelVars, clientVars
<1>2. ASSUME NEW k \in Conns, Register(k) PROVE TypeOK'
  BY <1>2, ConnTyped DEF Register, Replaced, TypeOK, panelVars, clientVars
<1>3. ASSUME NEW k \in Conns, SessionCloses(k) PROVE TypeOK'
  BY <1>3, ConnTyped DEF SessionCloses, TypeOK, panelVars, clientVars
<1>4. ASSUME NEW k \in Conns, HandlerEnds(k) PROVE TypeOK'
  BY <1>4, ConnTyped DEF HandlerEnds, AfterClose, TypeOK, panelVars, clientVars
<1>5. ASSUME NEW k \in Conns, Cut(k) PROVE TypeOK'
  BY <1>5, ConnTyped, FaultTyped DEF Cut, TypeOK, panelVars, clientVars
<1>6. CASE RelayRestarts
  <2>1. faults' \in Keys /\ key' \in 0..faults' /\ conn' \in [Conns -> Conn]
    BY <1>6, ConnTyped, FaultTyped DEF RelayRestarts, TypeOK
  <2> QED BY <1>6, <2>1 DEF RelayRestarts, TypeOK, panelVars, clientVars
<1> QED BY <1>1, <1>2, <1>3, <1>4, <1>5, <1>6 DEF RelayStep

LEMMA StutterTypes == ASSUME TypeOK, UNCHANGED vars PROVE TypeOK'
BY DEF TypeOK, vars, panelVars, relayVars, clientVars

\* Every variable keeps its type.
THEOREM TunnelsTypes == Spec => []TypeOK
<1>1. TypeOK /\ [Next]_vars => TypeOK'
  BY PanelTypes, ClientTypes, RelayTypes, StutterTypes DEF Next
<1> QED BY <1>1, TunnelsInit, PTL DEF Spec

-----------------------------------------------------------------------------
(* What the relay forwards to.                                              *)

LEMMA RelayKeepsRegistered ==
  ASSUME TypeOK, OpenIsRegistered, NEW k \in Conns, RelayStep(k) \/ Cut(k)
  PROVE  OpenIsRegistered'
<1>1. CASE Acknowledge(k)
  BY <1>1 DEF Acknowledge, OpenIsRegistered, TypeOK
<1>2. CASE Register(k)
  BY <1>2 DEF Register, Replaced, OpenIsRegistered, TypeOK
<1>3. CASE SessionCloses(k)
  BY <1>3 DEF SessionCloses, OpenIsRegistered, TypeOK
<1>4. CASE HandlerEnds(k)
  BY <1>4 DEF HandlerEnds, AfterClose, NoConn, OpenIsRegistered, TypeOK
<1>5. CASE Cut(k)
  BY <1>5, ConnTyped DEF Cut, OpenIsRegistered, TypeOK, Conn
<1> QED BY <1>1, <1>2, <1>3, <1>4, <1>5 DEF RelayStep

LEMMA OthersKeepRegistered ==
  ASSUME TypeOK, OpenIsRegistered,
         \/ \E s \in Calls : AskStart(s) \/ PanelStep(s)
         \/ Stop \/ MarkStopped \/ Remove \/ PanelRestarts \/ Boot
         \/ \E p \in Procs : ClientStep(p) \/ ClientCrashes(p)
         \/ RelayRestarts \/ UNCHANGED vars
  PROVE  OpenIsRegistered'
<1>1. ASSUME NEW p \in Procs, Dial(p) PROVE OpenIsRegistered'
  BY <1>1 DEF Dial, OpenIsRegistered, TypeOK
<1>2. CASE UNCHANGED <<conn, session>>
  BY <1>2 DEF OpenIsRegistered
<1>3. ASSUME NEW s \in Calls, AskStart(s) \/ PanelStep(s) PROVE UNCHANGED <<conn, session>>
  BY <1>3 DEF AskStart, PanelStep, Spawn, SpawnFails, MarkEnabled, relayVars
<1>4. ASSUME Stop \/ MarkStopped \/ Remove \/ PanelRestarts \/ Boot \/ UNCHANGED vars
      PROVE  UNCHANGED <<conn, session>>
  BY <1>4 DEF Stop, MarkStopped, Remove, PanelRestarts, Boot, relayVars, vars
<1>5. ASSUME NEW p \in Procs, ClientStep(p) \/ ClientCrashes(p), ~Dial(p)
      PROVE  UNCHANGED <<conn, session>>
  BY <1>5 DEF ClientStep, DialRefused, LinkUp, LinkDown, Exit, ClientCrashes, relayVars
<1>6. CASE RelayRestarts
  BY <1>6 DEF RelayRestarts, NoConn, OpenIsRegistered
<1> QED BY <1>1, <1>2, <1>3, <1>4, <1>5, <1>6

\* The relay forwards to the only link that is open, however clients are replaced, links
\* cut and ends learned of late.
THEOREM RegisteredLink == Spec => []OpenIsRegistered
<1>1. Init => OpenIsRegistered
  BY DEF Init, OpenIsRegistered, NoConn
<1>2. TypeOK /\ OpenIsRegistered /\ [Next]_vars => OpenIsRegistered'
  BY RelayKeepsRegistered, OthersKeepRegistered DEF Next
<1> QED BY <1>1, <1>2, TunnelsTypes, PTL DEF Spec

-----------------------------------------------------------------------------
(* The relay's key.  OneKeyTrusted is not inductive: what has been trusted   *)
(* has to be tied to the file, to what each client has pinned and to the key *)
(* behind a handshake that is not over.                                      *)

Alive(p) == proc[p].pc \in {"dialing", "hello", "serving"}

SessionLive == session # None => conn[session].pc \in {"open", "closed"}

HelloKey ==
  \A p \in Procs : proc[p].pc = "hello" =>
    /\ proc[p].conn \in Conns
    /\ mode # "insecure" /\ conn[proc[p].conn].pc # "none" => proc[p].pin = key

EntryLive == entry # None => proc[entry].pc # "none" /\ proc[entry].watched

LinkInv == SessionLive /\ HelloKey

PinnedKey ==
  mode = "pinned" => /\ trusted \subseteq {0}
                     /\ \A p \in Procs : Alive(p) => proc[p].pin = 0

NoKeyYet ==
  mode = "tofu" /\ ~unkept /\ pinFile = None =>
    /\ trusted = {}
    /\ \A p \in Procs : Alive(p) => proc[p].pin = None
    /\ \A p, r \in Procs : proc[p].pc # "none" /\ proc[r].pc # "none" => p = r

KeyKept ==
  mode = "tofu" /\ ~unkept /\ pinFile # None =>
    /\ trusted \subseteq {pinFile}
    /\ \A p \in Procs : Alive(p) => proc[p].pin = pinFile

KeyInv == PinnedKey /\ NoKeyYet /\ KeyKept

\* No client comes to life, changes its pin or says hello.
Quiet ==
  \A p \in Procs :
    /\ Alive(p)' => Alive(p) /\ proc'[p].pin = proc[p].pin
    /\ proc'[p].pc = "hello" => proc[p].pc = "hello" /\ proc'[p].conn = proc[p].conn
    /\ proc'[p].pc # "none" => proc[p].pc # "none"

SameKeys == UNCHANGED <<mode, trusted, pinFile, unkept>>

LEMMA QuietKeepsKeys == ASSUME KeyInv, Quiet, SameKeys PROVE KeyInv'
<1>1. PinnedKey'
  BY DEF KeyInv, PinnedKey, Quiet, SameKeys
<1>2. NoKeyYet'
  BY DEF KeyInv, NoKeyYet, Quiet, SameKeys
<1>3. KeyKept'
  BY DEF KeyInv, KeyKept, Quiet, SameKeys
<1> QED BY <1>1, <1>2, <1>3 DEF KeyInv

LEMMA QuietKeepsLinks ==
  ASSUME LinkInv, Quiet, UNCHANGED <<conn, session, key, mode>>
  PROVE  LinkInv'
<1>1. HelloKey'
  BY DEF LinkInv, HelloKey, Quiet, Alive
<1> QED BY <1>1 DEF LinkInv, SessionLive

LEMMA KilledQuiet ==
  ASSUME TypeOK, NEW p \in Procs \cup {None}, p # None => proc[p].pc # "none",
         proc' = Killed(p) \/ proc' = [r \in Procs |-> [Killed(p)[r] EXCEPT !.watched = FALSE]]
  PROVE  Quiet
<1>1. \A r \in Procs : Killed(p)[r] = proc[r] \/ (Killed(p)[r] = Dying(proc[r]) /\ r = p)
  BY NoneAssumption DEF TypeOK, Killed
<1>2. \A r \in Procs : /\ Dying(proc[r]).pc = "dying"
                       /\ [Dying(proc[r]) EXCEPT !.watched = FALSE].pc = "dying"
                       /\ [proc[r] EXCEPT !.watched = FALSE].pc = proc[r].pc
                       /\ [proc[r] EXCEPT !.watched = FALSE].pin = proc[r].pin
                       /\ [proc[r] EXCEPT !.watched = FALSE].conn = proc[r].conn
  BY DEF TypeOK, Dying, Proc
<1>3. ASSUME NEW r \in Procs
      PROVE  \/ proc'[r].pc = "dying" /\ proc[r].pc # "none"
             \/ proc'[r].pc = proc[r].pc /\ proc'[r].pin = proc[r].pin /\ proc'[r].conn = proc[r].conn
  <2>1. CASE proc' = Killed(p)
    BY <1>1, <1>2, <2>1, NoneAssumption
  <2>2. CASE proc' = [q \in Procs |-> [Killed(p)[q] EXCEPT !.watched = FALSE]]
    <3>1. proc'[r] = [Killed(p)[r] EXCEPT !.watched = FALSE]
      BY <2>2
    <3>2. CASE Killed(p)[r] = proc[r]
      BY <1>2, <3>1, <3>2
    <3>3. CASE Killed(p)[r] = Dying(proc[r]) /\ r = p
      BY <1>2, <3>1, <3>3, NoneAssumption
    <3> QED BY <1>1, <3>2, <3>3
  <2> QED BY <2>1, <2>2
<1> QED BY <1>3, NoneAssumption DEF Quiet, Alive

LEMMA EntryStaysLive ==
  ASSUME TypeOK, EntryLive, [Next]_vars
  PROVE  EntryLive'
<1>1. ASSUME NEW s \in Calls, AskStart(s) \/ SpawnFails(s) \/ MarkEnabled(s) PROVE EntryLive'
  BY <1>1 DEF AskStart, SpawnFails, MarkEnabled, clientVars, EntryLive
<1>2. ASSUME NEW s \in Calls, Spawn(s) PROVE EntryLive'
  BY <1>2 DEF Spawn, FreeProcs, EntryLive, TypeOK
<1>3. ASSUME Stop \/ Remove \/ PanelRestarts PROVE EntryLive'
  BY <1>3 DEF Stop, Remove, PanelRestarts, EntryLive
<1>4. CASE MarkStopped \/ Boot \/ RelayRestarts \/ UNCHANGED vars
  BY <1>4 DEF MarkStopped, Boot, RelayRestarts, panelVars, clientVars, vars, EntryLive
<1>5. ASSUME NEW k \in Conns, RelayStep(k) \/ Cut(k) PROVE EntryLive'
  BY <1>5 DEF RelayStep, Acknowledge, Register, SessionCloses, HandlerEnds, Cut, panelVars, clientVars, EntryLive
<1>6. ASSUME NEW p \in Procs, Exit(p) PROVE EntryLive'
  <2>1. proc[p].watched => entry' = None
    BY <1>6 DEF Exit, EntryAfterExit
  <2>2. ~proc[p].watched => (entry' = entry /\ entry # p) \/ entry' = None
    BY <1>6 DEF Exit, EntryAfterExit, EntryLive
  <2>3. \A r \in Procs : r # p => proc'[r] = proc[r]
    BY <1>6 DEF Exit, TypeOK
  <2> QED BY <2>1, <2>2, <2>3 DEF EntryLive, TypeOK
<1>7. ASSUME NEW p \in Procs, Dial(p) \/ DialRefused(p) \/ LinkUp(p) \/ LinkDown(p) \/ ClientCrashes(p)
      PROVE EntryLive'
  <2>1. entry' = entry
    BY <1>7 DEF Dial, DialRefused, LinkUp, LinkDown, ClientCrashes, panelVars
  <2>2. \A r \in Procs : r # p => proc'[r] = proc[r]
    BY <1>7, NoneAssumption DEF Dial, DialRefused, LinkUp, LinkDown, ClientCrashes, Killed, TypeOK
  <2>3. proc'[p].pc # "none" /\ (proc[p].watched => proc'[p].watched)
    <3>1. \A r \in Proc : /\ Dying(r).pc = "dying" /\ Dying(r).watched = r.watched
                          /\ \A pc \in {"dialing", "serving"}, k \in Conns \cup {None} :
                               /\ [r EXCEPT !.pc = pc, !.conn = k].pc = pc
                               /\ [r EXCEPT !.pc = pc, !.conn = k].watched = r.watched
      BY DEF Dying, Proc
    <3>2. proc[p] \in Proc /\ proc[p].conn \in Conns \cup {None}
      BY DEF TypeOK, Proc
    <3>3. CASE DialRefused(p) \/ LinkUp(p) \/ LinkDown(p)
      <4>1. \A pc \in {"dialing", "serving"}, k \in Conns \cup {None} :
              /\ Logs(p, pc, k).pc # "none"
              /\ proc[p].watched => Logs(p, pc, k).watched
        BY <3>1, <3>2 DEF Logs
      <4>2. \E pc \in {"dialing", "serving"}, k \in Conns \cup {None} : proc'[p] = Logs(p, pc, k)
        BY <3>2, <3>3 DEF DialRefused, LinkUp, LinkDown, TypeOK
      <4> QED BY <4>1, <4>2
    <3>4. CASE ClientCrashes(p)
      BY <3>1, <3>2, <3>4, NoneAssumption DEF ClientCrashes, Killed, TypeOK
    <3>5. CASE Dial(p)
      BY <3>1, <3>2, <3>5 DEF Dial, TypeOK, Proc
    <3> QED BY <1>7, <3>3, <3>4, <3>5
  <2> QED BY <2>1, <2>2, <2>3 DEF EntryLive, TypeOK
<1> QED BY <1>1, <1>2, <1>3, <1>4, <1>5, <1>6, <1>7 DEF Next, PanelStep, ClientStep

LEMMA QuietActions ==
  ASSUME TypeOK, EntryLive,
         \/ Stop \/ MarkStopped \/ Remove \/ PanelRestarts \/ Boot \/ UNCHANGED vars
         \/ \E s \in Calls : AskStart(s) \/ SpawnFails(s) \/ MarkEnabled(s)
         \/ \E p \in Procs : DialRefused(p) \/ LinkDown(p) \/ Exit(p) \/ ClientCrashes(p)
  PROVE  Quiet /\ SameKeys /\ UNCHANGED <<conn, session, key>>
<1>1. CASE Stop \/ Remove \/ PanelRestarts
  <2>1. UNCHANGED <<mode, trusted, pinFile, unkept, conn, session, key>>
    BY <1>1 DEF Stop, Remove, PanelRestarts, relayVars
  <2>2. Quiet
    BY <1>1, KilledQuiet DEF Stop, Remove, PanelRestarts, EntryLive, TypeOK
  <2> QED BY <2>1, <2>2 DEF SameKeys
<1>2. CASE \/ MarkStopped \/ Boot \/ UNCHANGED vars
           \/ \E s \in Calls : AskStart(s) \/ SpawnFails(s) \/ MarkEnabled(s)
  <2>1. UNCHANGED <<relayVars, clientVars, mode>>
    BY <1>2 DEF MarkStopped, Boot, AskStart, SpawnFails, MarkEnabled, vars
  <2> QED BY <2>1 DEF relayVars, clientVars, SameKeys, Quiet, Alive
<1>3. ASSUME NEW p \in Procs, DialRefused(p) \/ LinkDown(p) \/ Exit(p) \/ ClientCrashes(p)
      PROVE  Quiet /\ SameKeys /\ UNCHANGED <<conn, session, key>>
  <2>1. UNCHANGED <<mode, trusted, pinFile, unkept, conn, session, key>>
    BY <1>3 DEF DialRefused, LinkDown, Exit, ClientCrashes, relayVars
  <2>2. \A r \in Procs : r # p => proc'[r] = proc[r]
    BY <1>3, NoneAssumption DEF DialRefused, LinkDown, Exit, ClientCrashes, Killed, TypeOK
  <2>3. proc'[p].pc \in {"dying", "none"}
          \/ (proc'[p].pc = "dialing" /\ Alive(p) /\ proc'[p].pin = proc[p].pin)
    <3>1. \A r \in Proc : /\ Dying(r).pc = "dying"
                          /\ [r EXCEPT !.pc = "dialing", !.conn = None].pc = "dialing"
                          /\ [r EXCEPT !.pc = "dialing", !.conn = None].pin = r.pin
      BY DEF Dying, Proc
    <3>2. proc[p] \in Proc
      BY DEF TypeOK
    <3>3. CASE DialRefused(p) \/ LinkDown(p)
      BY <3>1, <3>2, <3>3 DEF DialRefused, LinkDown, Logs, Alive, TypeOK
    <3>4. CASE Exit(p) \/ ClientCrashes(p)
      BY <3>1, <3>2, <3>4, NoneAssumption DEF Exit, ClientCrashes, Killed, NoProc, TypeOK
    <3> QED BY <1>3, <3>3, <3>4
  <2>4. proc[p].pc # "none"
    BY <1>3 DEF DialRefused, LinkDown, Exit, ClientCrashes
  <2> QED BY <2>1, <2>2, <2>3, <2>4 DEF SameKeys, Quiet, Alive
<1> QED BY <1>1, <1>2, <1>3

LEMMA SpawnKeepsKeys ==
  ASSUME TypeOK, LinkInv, KeyInv, NEW s \in Calls, Spawn(s)
  PROVE  LinkInv' /\ KeyInv'
<1> DEFINE p == entry'
<1>1. p \in Procs /\ proc[p].pc = "none"
  BY DEF Spawn, FreeProcs
<1>2. UNCHANGED <<conn, session, key, mode, trusted, pinFile>> /\ (unkept => unkept')
  BY DEF Spawn, relayVars
<1>3. /\ \A r \in Procs : r # p => proc'[r] = proc[r]
      /\ proc'[p].pc = "dialing" /\ proc'[p].pin = FirstPin
  BY <1>1 DEF Spawn, TypeOK
<1>4. pinFile = None /\ ~unkept' => \A r \in Procs : proc[r].pc = "none"
  BY DEF Spawn, FreeProcs
<1>5. LinkInv'
  BY <1>2, <1>3 DEF LinkInv, SessionLive, HelloKey
<1>6. PinnedKey'
  BY <1>2, <1>3 DEF KeyInv, PinnedKey, FirstPin, Alive
<1>7. NoKeyYet'
  <2>1. mode = "tofu" => FirstPin = pinFile
    BY DEF FirstPin
  <2> QED BY <1>2, <1>3, <1>4, <2>1 DEF KeyInv, NoKeyYet, Alive
<1>8. KeyKept'
  <2>1. mode = "tofu" => FirstPin = pinFile
    BY DEF FirstPin
  <2> QED BY <1>2, <1>3, <2>1 DEF KeyInv, KeyKept, Alive
<1> QED BY <1>5, <1>6, <1>7, <1>8 DEF KeyInv

LEMMA LinkUpKeepsKeys ==
  ASSUME TypeOK, LinkInv, KeyInv, NEW p \in Procs, LinkUp(p)
  PROVE  LinkInv' /\ KeyInv'
<1>1. /\ UNCHANGED <<conn, session, key, mode, pinFile, unkept>>
      /\ trusted' = trusted \cup {key}
  BY DEF LinkUp, relayVars
<1>2. /\ \A r \in Procs : r # p => proc'[r] = proc[r]
      /\ proc'[p].pc \in {"serving", "dying"}
      /\ Alive(p)' => proc'[p].pin = proc[p].pin
  <2>1. /\ Dying(proc[p]).pc = "dying"
        /\ \A k \in Conns \cup {None} : /\ [proc[p] EXCEPT !.pc = "serving", !.conn = k].pc = "serving"
                                       /\ [proc[p] EXCEPT !.pc = "serving", !.conn = k].pin = proc[p].pin
    BY DEF TypeOK, Proc, Dying
  <2>2. proc[p].conn \in Conns \cup {None}
    BY DEF TypeOK, Proc
  <2> QED BY <2>1, <2>2 DEF LinkUp, Logs, Alive, TypeOK
<1>3. Alive(p) /\ (mode # "insecure" => proc[p].pin = key)
  BY DEF LinkUp, LinkInv, HelloKey, Alive
<1>4. key # None
  BY KeyTyped, KeysTyped
<1>5. LinkInv'
  BY <1>1, <1>2 DEF LinkInv, SessionLive, HelloKey
<1>6. PinnedKey'
  BY <1>1, <1>2, <1>3 DEF KeyInv, PinnedKey, Alive
<1>7. NoKeyYet'
  BY <1>1, <1>3, <1>4 DEF KeyInv, NoKeyYet
<1>8. KeyKept'
  BY <1>1, <1>2, <1>3 DEF KeyInv, KeyKept, Alive
<1> QED BY <1>5, <1>6, <1>7, <1>8 DEF KeyInv

LEMMA DialKeepsKeys ==
  ASSUME TypeOK, LinkInv, KeyInv, NEW p \in Procs, Dial(p)
  PROVE  LinkInv' /\ KeyInv'
<1> DEFINE k == CHOOSE c \in FreeConns : TRUE
           pin == IF mode = "insecure" THEN None ELSE key
<1>1. UNCHANGED <<session, key, mode, trusted>>
  BY DEF Dial
<1>2. k \in Conns /\ conn[k].pc = "none" /\ \A r \in Procs : proc[r].conn # k
  BY DEF Dial, FreeConns
<1>3. conn' = [conn EXCEPT ![k] = [pc |-> "accepted", cut |-> FALSE]]
  BY DEF Dial
<1>4. /\ \A r \in Procs : r # p => proc'[r] = proc[r]
      /\ \/ proc'[p].pc = "hello" /\ proc'[p].conn = k /\ proc'[p].pin = pin
         \/ proc'[p].pc = "dying"
  BY DEF Dial, TypeOK, Proc, Dying
<1>5. Alive(p) /\ (mode # "insecure" => proc[p].pin \in {None, key})
  BY DEF Dial, Trusts, Alive
<1>6. key \in Keys /\ key # None
  BY KeyTyped, KeysTyped
<1>7. LinkInv'
  <2>1. SessionLive'
    BY <1>1, <1>2, <1>3 DEF LinkInv, SessionLive, TypeOK
  <2>2. HelloKey'
    <3>1. ASSUME NEW r \in Procs, r # p, proc'[r].pc = "hello"
          PROVE  /\ proc'[r].conn \in Conns
                 /\ mode' # "insecure" /\ conn'[proc'[r].conn].pc # "none" => proc'[r].pin = key'
      BY <1>1, <1>2, <1>3, <1>4, <3>1 DEF LinkInv, HelloKey, TypeOK
    <3>2. ASSUME proc'[p].pc = "hello"
          PROVE  proc'[p].conn \in Conns /\ (mode' # "insecure" => proc'[p].pin = key')
      BY <1>1, <1>2, <1>4, <3>2
    <3> QED BY <3>1, <3>2 DEF HelloKey
  <2> QED BY <2>1, <2>2 DEF LinkInv
<1>8. PinnedKey'
  BY <1>1, <1>4, <1>5, <1>6, KeysTyped, NoneAssumption DEF KeyInv, PinnedKey, Alive
<1>9. CASE SeesFirstKey(p)
  <2>1. mode = "tofu" /\ proc[p].pin = None
    BY <1>9 DEF SeesFirstKey
  <2>2. (pinFile' = key /\ unkept' = unkept) \/ unkept' = TRUE
    BY <1>9 DEF Dial, SaveKey
  <2>3. NoKeyYet'
    BY <1>6, <2>2 DEF NoKeyYet
  <2>4. ASSUME ~unkept', mode = "tofu" PROVE pinFile = None
    BY <1>5, <2>1, <2>2, <2>4 DEF KeyInv, KeyKept
  <2>5. KeyKept'
    BY <1>1, <1>4, <1>5, <2>1, <2>2, <2>4 DEF KeyInv, KeyKept, NoKeyYet, Alive
  <2> QED BY <1>7, <1>8, <2>3, <2>5 DEF KeyInv
<1>10. CASE ~SeesFirstKey(p)
  <2>1. UNCHANGED <<pinFile, unkept>>
    BY <1>10 DEF Dial
  <2>2. mode = "tofu" => proc[p].pin = key
    BY <1>5, <1>10 DEF SeesFirstKey
  <2>3. NoKeyYet'
    BY <1>1, <1>5, <1>6, <2>1, <2>2 DEF KeyInv, NoKeyYet
  <2>4. KeyKept'
    BY <1>1, <1>4, <1>5, <2>1, <2>2 DEF KeyInv, KeyKept, Alive
  <2> QED BY <1>7, <1>8, <2>3, <2>4 DEF KeyInv
<1> QED BY <1>9, <1>10

LEMMA RelayKeepsKeys ==
  ASSUME TypeOK, LinkInv, KeyInv, (\E k \in Conns : RelayStep(k) \/ Cut(k)) \/ RelayRestarts
  PROVE  LinkInv' /\ KeyInv'
<1>1. UNCHANGED <<proc, pinFile, trusted, unkept, mode>>
  BY DEF RelayStep, Acknowledge, Register, SessionCloses, HandlerEnds, Cut, RelayRestarts, clientVars
<1>2. KeyInv'
  BY <1>1, QuietKeepsKeys DEF Quiet, SameKeys, Alive
<1>3. ASSUME NEW k \in Conns, RelayStep(k) \/ Cut(k) PROVE LinkInv'
  <2>1. SessionLive' /\ \A c \in Conns : conn[c].pc = "none" => conn'[c].pc = "none"
    <3>1. CASE Acknowledge(k)
      BY <3>1 DEF Acknowledge, LinkInv, SessionLive, TypeOK, Conn
    <3>2. CASE Register(k)
      BY <3>2, NoneAssumption DEF Register, Replaced, LinkInv, SessionLive, TypeOK, Conn
    <3>3. CASE SessionCloses(k)
      BY <3>3 DEF SessionCloses, LinkInv, SessionLive, TypeOK, Conn
    <3>4. CASE HandlerEnds(k)
      BY <3>4 DEF HandlerEnds, AfterClose, NoConn, LinkInv, SessionLive, TypeOK
    <3>5. CASE Cut(k)
      BY <3>5 DEF Cut, LinkInv, SessionLive, TypeOK, Conn
    <3> QED BY <1>3, <3>1, <3>2, <3>3, <3>4, <3>5 DEF RelayStep
  <2>2. key' = key
    BY <1>3 DEF RelayStep, Acknowledge, Register, SessionCloses, HandlerEnds, Cut
  <2>3. HelloKey'
    BY <1>1, <2>1, <2>2 DEF LinkInv, HelloKey
  <2> QED BY <2>1, <2>3 DEF LinkInv
<1>4. ASSUME RelayRestarts PROVE LinkInv'
  <2>1. session' = None /\ \A c \in Conns : conn'[c].pc = "none"
    BY <1>4 DEF RelayRestarts, NoConn
  <2>2. HelloKey'
    BY <1>1, <2>1 DEF LinkInv, HelloKey
  <2> QED BY <2>1, <2>2 DEF LinkInv, SessionLive
<1> QED BY <1>2, <1>3, <1>4

LEMMA AtMostOneKey == ASSUME TypeOK, KeyInv PROVE OneKeyTrusted
<1>1. ASSUME NEW n, trusted \subseteq {n} PROVE Cardinality(trusted) <= 1
  <2>1. IsFiniteSet({n}) /\ Cardinality({n}) = 1
    BY FS_Singleton
  <2> QED BY <1>1, <2>1, FS_Subset
<1>2. mode # "insecure" /\ ~unkept => \E n : trusted \subseteq {n}
  BY DEF KeyInv, PinnedKey, NoKeyYet, KeyKept, TypeOK, AllModes
<1> QED BY <1>1, <1>2 DEF OneKeyTrusted

\* Every link of a client that pins was made with the first key it ever saw, through any
\* number of restarts of the client, of the relay and of the panel.
THEOREM OneKey == Spec => []OneKeyTrusted
<1> DEFINE Inv == EntryLive /\ LinkInv /\ KeyInv
<1>1. Init => Inv
  <2> SUFFICES ASSUME Init PROVE Inv
    OBVIOUS
  <2>1. /\ entry = None /\ session = None /\ trusted = {} /\ pinFile = None
        /\ \A p \in Procs : proc[p].pc = "none"
    BY DEF Init, NoProc
  <2>2. EntryLive /\ LinkInv
    BY <2>1 DEF EntryLive, LinkInv, SessionLive, HelloKey
  <2> QED BY <2>1, <2>2 DEF KeyInv, PinnedKey, NoKeyYet, KeyKept, Alive
<1>2. TypeOK /\ Inv /\ [Next]_vars => Inv'
  <2> SUFFICES ASSUME TypeOK, Inv, [Next]_vars PROVE LinkInv' /\ KeyInv'
    BY EntryStaysLive
  <2>1. ASSUME Quiet, SameKeys, UNCHANGED <<conn, session, key>> PROVE LinkInv' /\ KeyInv'
    BY <2>1, QuietKeepsKeys, QuietKeepsLinks DEF SameKeys
  <2> QED BY <2>1, QuietActions, SpawnKeepsKeys, LinkUpKeepsKeys, DialKeepsKeys, RelayKeepsKeys
         DEF Next, PanelStep, ClientStep
<1>3. TypeOK /\ Inv => OneKeyTrusted
  BY AtMostOneKey
<1> QED BY <1>1, <1>2, <1>3, TunnelsTypes, PTL DEF Spec
==============================================================================
