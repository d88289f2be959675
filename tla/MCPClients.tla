----------------------------- MODULE MCPClients -----------------------------
(***************************************************************************)
(* One client of the MCP manager (pkg/bifrost_core/mcp/clientmanager.go):  *)
(* the operations that callers start on it at any time, the attempts to    *)
(* connect that they share, and its health monitors (healthmonitor.go).    *)
(* A section of code under one of the locks is one step, except where it   *)
(* waits for the other lock.                                               *)
(***************************************************************************)
EXTENDS Integers, FiniteSetsExt, Functions

CONSTANTS
  Caller,       \* goroutines that call the manager
  Monitor,      \* health monitors in memory, numbers
  Conn,         \* connections in memory, numbers
  Config,       \* configurations in memory, numbers
  MaxFailures,  \* MaxConsecutiveFailures
  MaxCalls      \* calls of the callers, a bound

ASSUME MCPAssumption ==
  /\ Caller \cap Monitor = {} /\ 0 \notin Caller \cup Monitor \cup Conn \cup Config
  /\ Monitor \cup Conn \cup Config \subseteq Nat /\ MaxFailures \in Nat \ {0}
  /\ MaxCalls \in Nat

\* A monitor reconnects in a goroutine of its own.
Thread == Caller \cup Monitor

NoClient == [state |-> "none", conn |-> 0, cfg |-> 0]

VARIABLES
  entry,     \* clientMap[id]: its state, connection and configuration
  disabled,  \* the field Disabled of each configuration
  busy,      \* reconnectingClients has the client
  open,      \* connections that are not closed
  mu, hmm,   \* who waits for a lock while holding this one, 0 if nobody
  monitor,   \* healthMonitorManager.monitors[id], or 0
  running,   \* monitors that tick
  check,     \* [monitor -> where its health check stands]
  probe,     \* [monitor -> the connection that it probes]
  failures,  \* consecutiveFailures
  op, pc,    \* [thread -> its operation, and where it stands]
  cfg, old,  \* its configuration, and the one to go back to
  conn,      \* its new connection, or 0
  overlap,   \* AddClient, which takes no guard, met another operation
  calls,     \* how often the manager was called
  stray      \* an attempt came upon a client that was removed or disabled

shared == <<entry, disabled, busy, open, mu, hmm>>
health == <<monitor, running, check, probe, failures>>
threads == <<op, pc, cfg, old, conn>>
history == <<overlap, stray>>
mcpVars == <<entry, disabled, busy, open, mu, hmm, monitor, running, check, probe, failures,
             op, pc, cfg, old, conn, calls, overlap, stray>>

MCPInit ==
  /\ entry = NoClient /\ disabled = [c \in Config |-> FALSE] /\ busy = FALSE /\ open = {}
  /\ mu = 0 /\ hmm = 0 /\ monitor = 0 /\ running = {}
  /\ check = [m \in Monitor |-> "loop"] /\ probe = [m \in Monitor |-> 0]
  /\ failures = [m \in Monitor |-> 0]
  /\ op = [t \in Thread |-> "none"]
  /\ \E b \in Caller : pc = [t \in Thread |-> IF t = b THEN "boot" ELSE "idle"]
  /\ cfg = [t \in Thread |-> 0] /\ old = [t \in Thread |-> 0] /\ conn = [t \in Thread |-> 0]
  /\ calls = 0 /\ overlap = FALSE /\ stray = FALSE

Exists == entry # NoClient

\* Mutant of Keeps: a late report brings a disabled client back.
KeepsNothing == ~Exists

Keeps == entry.state \in {"none", "disabled"}

\* Memory that nothing refers to any more.
FreeConns == Conn \ (open \cup {entry.conn} \cup Range(conn) \cup Range(probe))
FreeConfigs == Config \ ({entry.cfg} \cup Range(cfg) \cup Range(old))
FreeMonitors ==
  {m \in Monitor : check[m] = "loop" /\ pc[m] = "idle" /\ (m \in running => m = monitor)}

----------------------------------------------------------------------------
(* The operations, up to the attempt to connect.                           *)

MoveTo(t, l) == pc' = [pc EXCEPT ![t] = l]

\* Two operations at once that replace the client or its configuration.
Meet == overlap' = (overlap \/ \E u \in Thread : op[u] # "none")

Attempt(t, o, c) ==
  op' = [op EXCEPT ![t] = o] /\ cfg' = [cfg EXCEPT ![t] = c] /\ MoveTo(t, "first") /\ Meet

\* AddClient with a new configuration; a disabled client is only registered.
Add(t, o) ==
  /\ ~Exists /\ FreeConfigs # {}
  /\ LET c == Min(FreeConfigs) IN
     \/ /\ disabled' = [disabled EXCEPT ![c] = TRUE]
        /\ entry' = [state |-> "disabled", conn |-> 0, cfg |-> c]
        /\ MoveTo(t, "idle") /\ Meet /\ UNCHANGED <<op, cfg>>
     \/ /\ disabled' = [disabled EXCEPT ![c] = FALSE]
        /\ entry' = [state |-> "new", conn |-> 0, cfg |-> c] /\ Attempt(t, o, c)
  /\ UNCHANGED <<busy, open, mu, hmm, health, old, conn, stray>>

AddClient(t) == pc[t] = "idle" /\ mu = 0 /\ Add(t, "add")

\* ConnectConfiguredClients, once.
Boot(t) ==
  /\ pc[t] = "boot" /\ mu = 0
  /\ \/ Add(t, "boot")
     \/ /\ Exists /\ FreeConfigs # {} /\ MoveTo(t, "retain") /\ op' = [op EXCEPT ![t] = "boot"]
        /\ cfg' = [cfg EXCEPT ![t] = Min(FreeConfigs)]
        /\ disabled' = [disabled EXCEPT ![Min(FreeConfigs)] = FALSE] /\ Meet
        /\ UNCHANGED <<entry, busy, open, mu, hmm, health, old, conn, stray>>

\* ReconnectClient, by a caller or by a monitor; refused, a monitor gives up.
ReconnectClient(t) ==
  /\ pc[t] = (IF t \in Caller THEN "idle" ELSE "again") /\ mu = 0
  /\ IF ~busy /\ Exists THEN busy' = TRUE /\ Attempt(t, "reconnect", entry.cfg)
     ELSE MoveTo(t, "idle") /\ UNCHANGED <<busy, op, cfg, overlap>>
  /\ UNCHANGED <<entry, disabled, open, mu, hmm, health, old, conn, stray>>

\* UpdateClientConnection: a copy of the configuration with other credentials.
UpdateClientConnection(t) ==
  /\ pc[t] = "idle" /\ mu = 0 /\ ~busy /\ Exists /\ FreeConfigs # {}
  /\ LET c == Min(FreeConfigs) IN
       disabled' = [disabled EXCEPT ![c] = disabled[entry.cfg]] /\ Attempt(t, "update", c)
  /\ busy' = TRUE /\ old' = [old EXCEPT ![t] = entry.cfg]
  /\ UNCHANGED <<entry, open, mu, hmm, health, conn, stray>>

\* UpdateClient: another configuration, without another connection.
UpdateClient(t) ==
  /\ pc[t] = "idle" /\ mu = 0 /\ ~busy /\ Exists /\ FreeConfigs # {}
  /\ LET c == Min(FreeConfigs) IN
       /\ \E d \in BOOLEAN : disabled' = [disabled EXCEPT ![c] = d]
       /\ entry' = [entry EXCEPT !.cfg = c]
  /\ Meet /\ UNCHANGED <<busy, open, mu, hmm, health, threads, stray>>

\* EnableClient: the flag is cleared before the guard is asked.
EnableClient(t) ==
  /\ pc[t] = "idle" /\ mu = 0 /\ entry.state = "disabled"
  /\ disabled' = [disabled EXCEPT ![entry.cfg] = FALSE]
  /\ cfg' = [cfg EXCEPT ![t] = entry.cfg] /\ MoveTo(t, "enabling")
  /\ UNCHANGED <<entry, busy, open, mu, hmm, health, op, old, conn, history>>

Enabling(t) ==
  /\ pc[t] = "enabling"
  /\ IF ~busy THEN busy' = TRUE /\ Attempt(t, "enable", cfg[t])
     ELSE MoveTo(t, "idle") /\ cfg' = [cfg EXCEPT ![t] = 0] /\ UNCHANGED <<busy, op, overlap>>
  /\ UNCHANGED <<entry, disabled, open, mu, hmm, health, old, conn, stray>>

----------------------------------------------------------------------------
(* Operations that stop the monitor while they hold the manager's lock.    *)

RemoveClient(t) ==
  /\ pc[t] = "idle" /\ mu = 0 /\ Exists /\ mu' = t /\ MoveTo(t, "removing")
  /\ UNCHANGED <<entry, disabled, busy, open, hmm, health, op, cfg, old, conn, history>>

DisableClient(t) ==
  /\ pc[t] = "idle" /\ mu = 0 /\ ~busy /\ Exists /\ entry.state # "disabled"
  /\ busy' = TRUE /\ mu' = t /\ MoveTo(t, "disabling")
  /\ UNCHANGED <<entry, disabled, open, hmm, health, op, cfg, old, conn, history>>

\* StopMonitoring, under the lock of the monitors.
StopMonitoring ==
  /\ hmm = 0 /\ monitor' = 0 /\ running' = running \ {monitor}
  /\ UNCHANGED <<check, probe, failures>>

Removing(t) ==
  /\ pc[t] = "removing" /\ StopMonitoring /\ mu' = 0 /\ MoveTo(t, "idle")
  /\ open' = open \ {entry.conn} /\ entry' = NoClient
  /\ UNCHANGED <<disabled, busy, hmm, op, cfg, old, conn, history>>

Disabling(t) ==
  /\ pc[t] = "disabling" /\ StopMonitoring /\ mu' = 0 /\ busy' = FALSE /\ MoveTo(t, "idle")
  /\ open' = open \ {entry.conn} /\ disabled' = [disabled EXCEPT ![entry.cfg] = TRUE]
  /\ entry' = [entry EXCEPT !.state = "disabled", !.conn = 0]
  /\ UNCHANGED <<hmm, op, cfg, old, conn, history>>

----------------------------------------------------------------------------
(* connectToMCPClient.                                                     *)

\* Mutant of Superseded: the connection before this attempt stays open.
SupersededNone == {}

Superseded == {entry.conn}

\* An entry of its own, whether or not there is still one; the old connection is closed.
First(t) ==
  /\ pc[t] = "first" /\ mu = 0
  /\ IF entry.state = "disabled" /\ disabled[cfg[t]]
     THEN MoveTo(t, "failed") /\ UNCHANGED <<entry, open, stray>>
     ELSE /\ entry' = [state |-> "disconnected", conn |-> 0, cfg |-> cfg[t]]
          /\ open' = open \ Superseded /\ MoveTo(t, "dial")
          /\ stray' = (stray \/ ~Exists \/ (entry.state = "disabled" /\ op[t] # "enable"))
  /\ UNCHANGED <<disabled, busy, mu, hmm, health, op, cfg, old, conn, overlap>>

\* Start, initialize and list the tools, or fail; or a plugin says that it is connected.
Dial(t) ==
  /\ pc[t] = "dial"
  /\ \/ MoveTo(t, "failed") /\ UNCHANGED <<open, conn>>
     \/ MoveTo(t, "second") /\ UNCHANGED <<open, conn>>
     \/ /\ FreeConns # {} /\ MoveTo(t, "second") /\ open' = open \cup {Min(FreeConns)}
        /\ conn' = [conn EXCEPT ![t] = Min(FreeConns)]
  /\ UNCHANGED <<entry, disabled, busy, mu, hmm, health, op, cfg, old, history>>

\* The client may be gone or disabled by now.
Second(t) ==
  /\ pc[t] = "second" /\ mu = 0 /\ conn' = [conn EXCEPT ![t] = 0]
  /\ IF Keeps
     THEN open' = open \ {conn[t]} /\ MoveTo(t, "failed") /\ UNCHANGED entry
     ELSE /\ entry' = [entry EXCEPT !.conn = conn[t], !.state = "connected"]
          /\ MoveTo(t, "monitor") /\ UNCHANGED open
  /\ UNCHANGED <<disabled, busy, mu, hmm, health, op, cfg, old, history>>

\* The end of an operation; AddClient has no guard to give back.
Return(t) ==
  /\ busy' = (busy /\ op[t] \in {"add", "boot"}) /\ MoveTo(t, "idle")
  /\ op' = [op EXCEPT ![t] = "none"] /\ cfg' = [cfg EXCEPT ![t] = 0]
  /\ old' = [old EXCEPT ![t] = 0]

\* AddClient deletes the entry, whoever has it by now, disabled or not; at boot another is put
\* in its place.
AddFailed(t) ==
  /\ entry' = NoClient
  /\ IF op[t] = "add" THEN Return(t) ELSE MoveTo(t, "retain") /\ UNCHANGED <<busy, op, cfg, old>>

ReconnectFailed(t) == op[t] = "reconnect" /\ UNCHANGED entry /\ Return(t)

UpdateFailed(t) ==
  /\ op[t] = "update" /\ Return(t)
  /\ entry' = IF Exists THEN [entry EXCEPT !.cfg = old[t]] ELSE entry

\* Mutant of EnableFailed: nobody watches the client.
EnableFailedQuietly(t) ==
  /\ op[t] = "enable" /\ Return(t)
  /\ entry' = IF Keeps THEN entry ELSE [entry EXCEPT !.state = "disconnected"]

EnableFailed(t) ==
  /\ op[t] = "enable"
  /\ IF entry.state = "disabled" THEN UNCHANGED entry /\ Return(t)
     ELSE /\ entry' = IF Exists THEN [entry EXCEPT !.state = "disconnected"] ELSE entry
          /\ MoveTo(t, "monitor") /\ UNCHANGED <<busy, op, cfg, old>>

Failed(t) ==
  /\ pc[t] = "failed" /\ mu = 0
  /\ \/ op[t] \in {"add", "boot"} /\ AddFailed(t)
     \/ ReconnectFailed(t) \/ UpdateFailed(t) \/ EnableFailed(t)
  /\ UNCHANGED <<disabled, open, mu, hmm, health, conn, history>>

Retain(t) ==
  /\ pc[t] = "retain" /\ mu = 0 /\ MoveTo(t, "monitor")
  /\ entry' = IF Exists THEN [entry EXCEPT !.state = "disconnected"]
              ELSE [state |-> "disconnected", conn |-> 0, cfg |-> cfg[t]]
  /\ overlap' = (overlap \/ Exists)
  /\ UNCHANGED <<disabled, busy, open, mu, hmm, health, op, cfg, old, conn, stray>>

----------------------------------------------------------------------------
(* The health monitors.                                                    *)

\* StartMonitoring has the lock of the monitors, and waits for the manager's.  The monitor that
\* it replaces is garbage at once, if it is doing nothing.
StartMonitoring(t) ==
  /\ pc[t] = "monitor" /\ hmm = 0 /\ FreeMonitors # {} /\ hmm' = t /\ MoveTo(t, "start")
  /\ running' = running \ {monitor} /\ monitor' = Min(FreeMonitors)
  /\ failures' = [failures EXCEPT ![Min(FreeMonitors)] = 0]
  /\ UNCHANGED <<entry, disabled, busy, open, mu, check, probe, op, cfg, old, conn, history>>

StartMonitor(t) ==
  /\ pc[t] = "start" /\ mu = 0 /\ hmm' = 0 /\ Return(t)
  /\ running' = IF Exists THEN running \cup {monitor} ELSE running
  /\ failures' = IF t \in Monitor THEN [failures EXCEPT ![t] = 0] ELSE failures
  /\ UNCHANGED <<entry, disabled, open, mu, monitor, check, probe, conn, history>>

Look(m, l) == check' = [check EXCEPT ![m] = l]

\* performHealthCheck, unless this monitor is reconnecting.
Tick(m) ==
  /\ UNCHANGED calls /\ m \in running /\ check[m] = "loop" /\ pc[m] = "idle" /\ Look(m, "check")
  /\ UNCHANGED <<shared, monitor, running, probe, failures, threads, history>>

Check(m) ==
  /\ check[m] = "check" /\ mu = 0
  /\ IF Keeps
     THEN running' = running \ {m} /\ Look(m, "loop") /\ UNCHANGED probe
     ELSE probe' = [probe EXCEPT ![m] = entry.conn] /\ Look(m, "probe") /\ UNCHANGED running
  /\ UNCHANGED <<shared, monitor, failures, threads, history>>

\* A connection that is open may answer.
Probe(m) ==
  /\ check[m] = "probe" /\ probe' = [probe EXCEPT ![m] = 0]
  /\ \/ probe[m] \in open /\ failures' = [failures EXCEPT ![m] = 0] /\ Look(m, "up")
     \/ /\ failures' = [failures EXCEPT ![m] = Min({@ + 1, MaxFailures})]
        /\ Look(m, IF failures[m] + 1 >= MaxFailures THEN "down" ELSE "loop")
  /\ UNCHANGED <<shared, monitor, running, threads, history>>

\* updateClientState, and a reconnection that is not under way.
Report(m) ==
  /\ check[m] \in {"up", "down"} /\ mu = 0 /\ Look(m, "loop")
  /\ entry' = IF Keeps THEN entry
              ELSE [entry EXCEPT !.state = IF check[m] = "up" THEN "connected" ELSE "disconnected"]
  /\ IF check[m] = "down" /\ pc[m] = "idle" THEN MoveTo(m, "attempt") ELSE UNCHANGED pc
  /\ UNCHANGED <<disabled, busy, open, mu, hmm, monitor, running, probe, failures, op, cfg, old,
                 conn, history>>

AttemptReconnect(m) ==
  /\ pc[m] = "attempt" /\ mu = 0
  /\ MoveTo(m, IF entry.state = "disabled" THEN "idle" ELSE "again")
  /\ UNCHANGED <<shared, health, op, cfg, old, conn, history>>

\* OnConnectionLost, of this connection or of an earlier one.
ConnectionLost ==
  /\ UNCHANGED calls /\ mu = 0 /\ ~Keeps /\ entry' = [entry EXCEPT !.state = "disconnected"]
  /\ UNCHANGED <<disabled, busy, open, mu, hmm, health, threads, history>>

----------------------------------------------------------------------------
CallManager(t) ==
  /\ t \in Caller /\ calls < MaxCalls /\ calls' = calls + 1
  /\ \/ AddClient(t) \/ UpdateClientConnection(t) \/ UpdateClient(t) \/ EnableClient(t)
     \/ RemoveClient(t) \/ DisableClient(t) \/ ReconnectClient(t)

Proceed(t) ==
  /\ UNCHANGED calls
  /\ \/ Boot(t) \/ Enabling(t) \/ Removing(t) \/ Disabling(t) \/ First(t) \/ Dial(t)
     \/ Second(t) \/ Failed(t) \/ Retain(t) \/ StartMonitoring(t) \/ StartMonitor(t)
     \/ (t \in Monitor /\ (AttemptReconnect(t) \/ ReconnectClient(t)))

CheckEnds(m) == UNCHANGED calls /\ (Check(m) \/ Probe(m) \/ Report(m))

MCPNext ==
  \/ \E t \in Thread : CallManager(t) \/ Proceed(t)
  \/ \E m \in Monitor : Tick(m) \/ CheckEnds(m)
  \/ ConnectionLost

MCPSpec == MCPInit /\ [][MCPNext]_mcpVars

----------------------------------------------------------------------------
(* "To prevent transport/goroutine leaks": every open connection is the    *)
(* client's, or that of an attempt under way, and the client's is open,    *)
(* as long as AddClient, which takes no guard, meets no other attempt.     *)
ConnectionsOwned ==
  ~overlap =>
    /\ open \subseteq {entry.conn} \cup Range(conn)
    /\ entry.conn # 0 => entry.conn \in open

(* "A failed client is retained in the Disconnected state with a health    *)
(* monitor that recovers it automatically": a client that is not disabled, *)
(* when no operation is under way, is watched by a monitor that runs,      *)
(* unless an attempt had come upon a client that was removed or disabled.  *)
Watched ==
  ~stray /\ ~overlap /\ ~Keeps /\ (\A t \in Thread : pc[t] = "idle") => monitor \in running

\* A step leaves a client that is disabled, and configured so, as it is, unless it removes it or
\* somebody enables it.
DisabledKept ==
  /\ entry.state = "disabled" /\ disabled[entry.cfg]
  /\ \A t \in Thread : pc[t] # "enabling" /\ op[t] # "enable"
  => entry'.state = "disabled" \/ \E t \in Thread : pc[t] = "removing" /\ pc'[t] = "idle"

(* "DisableClient is authoritative": no report, callback, reconnection or  *)
(* update that comes late changes or deletes a disabled client, as long as *)
(* AddClient, which takes no guard, is not under way and met no other.     *)
DisabledStays ==
  [][~overlap' /\ (\A t \in Thread : op[t] \notin {"add", "boot"}) => DisabledKept]_mcpVars

----------------------------------------------------------------------------
(* What the repository says and the code does not do.                      *)

(* "The client entry is kept in clientMap with state                       *)
(* MCPConnectionStateDisabled so it can be re-enabled later" of            *)
(* DisableClient: also when AddClient is under way, for the client or at   *)
(* boot, as long as no other attempt or update is.                         *)
DisabledEntryKept == [][~overlap' => DisabledKept]_mcpVars

(* "Release lock BEFORE starting monitors to prevent deadlock": while an   *)
(* operation is under way, some operation or health check can go on.       *)
NobodyStuck ==
  (\E t \in Thread : pc[t] # "idle") =>
    (\E t \in Thread : ENABLED Proceed(t)) \/ (\E m \in Monitor : ENABLED CheckEnds(m))
=============================================================================
