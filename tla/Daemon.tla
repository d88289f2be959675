------------------------------- MODULE Daemon -------------------------------
(***************************************************************************)
(* Life of NerveGate processes: Start of pkg/ingress/ingress.go under the  *)
(* serve command of commands/serve.go, with the file at the socket path and*)
(* the TCP port that all processes of a host share.  Each process runs     *)
(* Start, the signal goroutine, one goroutine per listener, and connection *)
(* goroutines.  Of net/http and net it models what Start relies on:        *)
(* closing a Unix listener unlinks its path, whatever is there by then;    *)
(* Serve closes its listener when it returns, and returns at once when the *)
(* server is shutting down; Shutdown closes the listeners that Serve has   *)
(* registered, waits for their Serve calls, then for the connections.      *)
(***************************************************************************)
EXTENDS Integers, Sequences, FiniteSets

CONSTANTS
  Proc,       \* NerveGate processes, each started again and again
  NoProc,     \* the port is free
  NoFile,     \* there is no file at the socket path
  Stale,      \* there is a socket file that a killed process has left
  MaxConns    \* bound: open requests per process

ASSUME DaemonAssumption ==
  /\ MaxConns \in Nat
  /\ NoProc \notin Proc /\ NoFile \notin Proc /\ Stale \notin Proc /\ NoFile # Stale

VARIABLES
  path,     \* the socket file: the process that bound it, Stale or NoFile
  port,     \* the process that listens on the TCP port
  main,     \* [Proc -> where the main goroutine is]
  socket,   \* [Proc -> BOOLEAN]: cfg.SocketPath != ""
  lis,      \* [Proc -> [Listener -> is it open?]]
  serve,    \* [Proc -> [Listener -> where its Serve goroutine is]]
  errCh,    \* [Proc -> Seq]: what the Serve goroutines have sent
  ctxDone,  \* [Proc -> BOOLEAN]: a signal has cancelled the context
  conns,    \* [Proc -> Nat]: requests being served
  exit,     \* [Proc -> how the process last ended, and whether that cut off
            \* requests]
  alone     \* whoever starts the processes waits for the last one to end

daemonVars == <<path, port, main, socket, lis, serve, errCh, ctxDone, conns, exit, alone>>

Listener == {"unix", "tcp"}
\* make(chan error, 2)
ErrChCap == 2

Down == [l \in Listener |-> FALSE]
Idle == [l \in Listener |-> "none"]

DaemonInit ==
  /\ path \in {NoFile, Stale} /\ port = NoProc /\ alone \in BOOLEAN
  /\ main = [p \in Proc |-> "down"]
  /\ socket = [p \in Proc |-> FALSE]
  /\ lis = [p \in Proc |-> Down]
  /\ serve = [p \in Proc |-> Idle]
  /\ errCh = [p \in Proc |-> <<>>]
  /\ ctxDone = [p \in Proc |-> FALSE]
  /\ conns = [p \in Proc |-> 0]
  /\ exit = [p \in Proc |-> [code |-> "none", cut |-> FALSE]]

MainGoto(p, from, to) == main[p] = from /\ main' = [main EXCEPT ![p] = to]

\* Start is about to return; its deferred calls run next.
Result(p, code) == exit' = [exit EXCEPT ![p].code = code]

\* Close of the Unix listener, and os.Remove of SocketPath.
Unlinked == path' = NoFile

----------------------------------------------------------------------------
(* commands/serve.go up to srv.Start, and Start up to its select.          *)

\* With --socket "" there is no Unix listener.
Launch(p, withSocket) ==
  /\ alone => \A q \in Proc : main[q] = "down"
  /\ MainGoto(p, "down", IF withSocket THEN "remove" ELSE "listenTCP")
  /\ socket' = [socket EXCEPT ![p] = withSocket]
  /\ exit' = [exit EXCEPT ![p] = [code |-> "none", cut |-> FALSE]]
  /\ UNCHANGED <<path, port, lis, serve, errCh, ctxDone, conns>>

\* A missing file is fine, any other failure of os.Remove is not.
RemoveStale(p) ==
  /\ \/ MainGoto(p, "remove", "listenUnix") /\ Unlinked /\ UNCHANGED exit
     \/ path # NoFile /\ MainGoto(p, "remove", "exit") /\ Result(p, "failed") /\ UNCHANGED path
  /\ UNCHANGED <<port, lis, serve, socket, errCh, ctxDone, conns>>

\* bind fails where there is a file.
ListenUnix(p) ==
  /\ \/ /\ path = NoFile /\ MainGoto(p, "listenUnix", "chmod")
        /\ path' = p
        /\ lis' = [lis EXCEPT ![p]["unix"] = TRUE]
        /\ UNCHANGED exit
     \/ /\ path # NoFile /\ MainGoto(p, "listenUnix", "exit")
        /\ Result(p, "failed")
        /\ UNCHANGED <<path, lis>>
  /\ UNCHANGED <<port, serve, socket, errCh, ctxDone, conns>>

\* The deferred os.Remove is registered once Chmod has succeeded.
Chmod(p) ==
  /\ \/ /\ path # NoFile /\ MainGoto(p, "chmod", "listenTCP")
        /\ UNCHANGED <<path, lis, exit>>
     \/ /\ path = NoFile /\ MainGoto(p, "chmod", "exit")
        /\ Unlinked /\ lis' = [lis EXCEPT ![p]["unix"] = FALSE]
        /\ Result(p, "failed")
  /\ UNCHANGED <<port, serve, socket, errCh, ctxDone, conns>>

\* Start gives up its Unix listener when it cannot have the port.
ListenTCP(p) ==
  /\ \/ /\ port = NoProc /\ MainGoto(p, "listenTCP", "select")
        /\ port' = p
        /\ lis' = [lis EXCEPT ![p]["tcp"] = TRUE]
        /\ serve' = [serve EXCEPT ![p] =
                       [l \in Listener |-> IF lis'[p][l] THEN "ready" ELSE "none"]]
        /\ UNCHANGED <<path, exit>>
     \/ /\ port # NoProc
        /\ MainGoto(p, "listenTCP", "deferred")
        /\ path' = IF lis[p]["unix"] THEN NoFile ELSE path
        /\ lis' = [lis EXCEPT ![p]["unix"] = FALSE]
        /\ Result(p, "failed")
        /\ UNCHANGED <<port, serve>>
  /\ UNCHANGED <<socket, errCh, ctxDone, conns>>

----------------------------------------------------------------------------
(* The goroutines Start has launched, and the connections.                 *)

\* Shutdown has been called.
ShuttingDown(p) ==
  \/ main[p] = "shutdown"
  \/ main[p] \in {"deferred", "exit"} /\ exit[p].code \in {"clean", "timeout"}

Closes(p, l) ==
  /\ lis' = [lis EXCEPT ![p][l] = FALSE]
  /\ path' = IF l = "unix" /\ lis[p][l] THEN NoFile ELSE path
  /\ port' = IF l = "tcp" /\ lis[p][l] THEN NoProc ELSE port

\* Serve registers its listener, unless the server is shutting down.
StartServe(p, l) ==
  /\ serve[p][l] = "ready"
  /\ \/ /\ ~ShuttingDown(p)
        /\ serve' = [serve EXCEPT ![p][l] = "serving"]
        /\ UNCHANGED <<lis, path, port>>
     \/ /\ ShuttingDown(p)
        /\ serve' = [serve EXCEPT ![p][l] = "closed"]
        /\ Closes(p, l)
  /\ UNCHANGED <<main, socket, errCh, ctxDone, conns, exit>>

\* Accept fails: because Shutdown has closed the listener, or by itself.
AcceptFails(p, l) ==
  /\ serve[p][l] = "serving"
  /\ serve' = [serve EXCEPT ![p][l] = IF lis[p][l] THEN "failed" ELSE "closed"]
  /\ Closes(p, l)
  /\ UNCHANGED <<main, socket, errCh, ctxDone, conns, exit>>

SendErr(p, l) ==
  /\ serve[p][l] \in {"closed", "failed"} /\ Len(errCh[p]) < ErrChCap
  /\ errCh' = [errCh EXCEPT ![p] = Append(@, serve[p][l])]
  /\ serve' = [serve EXCEPT ![p][l] = "sent"]
  /\ UNCHANGED <<path, port, main, lis, socket, ctxDone, conns, exit>>

Request(p) ==
  /\ \E l \in Listener : serve[p][l] = "serving" /\ lis[p][l]
  /\ conns[p] < MaxConns
  /\ conns' = [conns EXCEPT ![p] = @ + 1]
  /\ UNCHANGED <<path, port, main, lis, serve, socket, errCh, ctxDone, exit>>

Respond(p) ==
  /\ conns[p] > 0
  /\ conns' = [conns EXCEPT ![p] = @ - 1]
  /\ UNCHANGED <<path, port, main, lis, serve, socket, errCh, ctxDone, exit>>

\* SIGINT or SIGTERM, taken by the goroutine of the serve command.
Signal(p) ==
  /\ main[p] # "down" /\ ~ctxDone[p]
  /\ ctxDone' = [ctxDone EXCEPT ![p] = TRUE]
  /\ UNCHANGED <<path, port, main, lis, serve, socket, errCh, conns, exit>>

----------------------------------------------------------------------------
(* Start from its select to its return, and the end of the process.        *)

\* A Serve call has failed: Start returns without Shutdown.
ServeFailed(p) ==
  /\ errCh[p] # <<>> /\ Head(errCh[p]) = "failed"
  /\ MainGoto(p, "select", "deferred")
  /\ errCh' = [errCh EXCEPT ![p] = Tail(@)]
  /\ Result(p, "failed")
  /\ UNCHANGED <<path, port, lis, serve, socket, ctxDone, conns>>

\* Shutdown closes the listeners that are registered.
SelectDone(p) ==
  /\ ctxDone[p] /\ MainGoto(p, "select", "shutdown")
  /\ lis' = [lis EXCEPT ![p] = [l \in Listener |-> @[l] /\ serve[p][l] # "serving"]]
  /\ path' = IF lis[p]["unix"] /\ serve[p]["unix"] = "serving" THEN NoFile ELSE path
  /\ port' = IF lis[p]["tcp"] /\ serve[p]["tcp"] = "serving" THEN NoProc ELSE port
  /\ UNCHANGED <<serve, socket, errCh, ctxDone, conns, exit>>

\* Shutdown waits for Serve before it looks at connections and deadline.
Drained(p) == \A l \in Listener : serve[p][l] # "serving"

\* Mutant of ShutdownDone: Shutdown does not wait for the connections.
ShutdownDoneAtOnce(p) ==
  /\ MainGoto(p, "shutdown", "deferred") /\ Drained(p)
  /\ Result(p, "clean")
  /\ UNCHANGED <<path, port, lis, serve, socket, errCh, ctxDone, conns>>

ShutdownDone(p) ==
  /\ MainGoto(p, "shutdown", "deferred") /\ Drained(p) /\ conns[p] = 0
  /\ Result(p, "clean")
  /\ UNCHANGED <<path, port, lis, serve, socket, errCh, ctxDone, conns>>

\* Mutant of ShutdownTimeout: Shutdown is given a context without deadline.
ShutdownTimeoutNever(p) ==
  FALSE /\ UNCHANGED daemonVars

\* The five seconds are over; the serve command calls log.Fatalf.
ShutdownTimeout(p) ==
  /\ MainGoto(p, "shutdown", "deferred") /\ Drained(p) /\ conns[p] > 0
  /\ Result(p, "timeout")
  /\ UNCHANGED <<path, port, lis, serve, socket, errCh, ctxDone, conns>>

\* Mutant of Deferred: the socket file is left to the listener's Close.
DeferredNothing(p) ==
  /\ MainGoto(p, "deferred", "exit")
  /\ UNCHANGED <<path, port, lis, serve, socket, errCh, ctxDone, conns, exit>>

\* The deferred os.Remove(SocketPath), if there is one.
Deferred(p) ==
  /\ MainGoto(p, "deferred", "exit")
  /\ path' = IF socket[p] THEN NoFile ELSE path
  /\ UNCHANGED <<port, lis, serve, socket, errCh, ctxDone, conns, exit>>

\* The process is gone: the kernel closes its sockets and unlinks nothing.
Gone(p, code, file) ==
  /\ main' = [main EXCEPT ![p] = "down"]
  /\ path' = IF path = p THEN file ELSE path
  /\ port' = IF port = p THEN NoProc ELSE port
  /\ socket' = [socket EXCEPT ![p] = FALSE]
  /\ lis' = [lis EXCEPT ![p] = Down]
  /\ serve' = [serve EXCEPT ![p] = Idle]
  /\ errCh' = [errCh EXCEPT ![p] = <<>>]
  /\ ctxDone' = [ctxDone EXCEPT ![p] = FALSE]
  /\ conns' = [conns EXCEPT ![p] = 0]
  /\ exit' = [exit EXCEPT ![p] = [code |-> code, cut |-> conns[p] > 0]]

Exit(p) == main[p] = "exit" /\ Gone(p, exit[p].code, p)

Kill(p) == main[p] # "down" /\ Gone(p, "killed", Stale)

----------------------------------------------------------------------------
MainStep(p) ==
  \/ RemoveStale(p) \/ ListenUnix(p) \/ Chmod(p) \/ ListenTCP(p)
  \/ ServeFailed(p) \/ SelectDone(p) \/ ShutdownDone(p) \/ ShutdownTimeout(p)
  \/ Deferred(p) \/ Exit(p)

ServeStep(p, l) == StartServe(p, l) \/ SendErr(p, l) \/ AcceptFails(p, l)

DaemonNext ==
  /\ UNCHANGED alone
  /\ \E p \in Proc :
       \/ \E withSocket \in BOOLEAN : Launch(p, withSocket)
       \/ MainStep(p)
       \/ \E l \in Listener : ServeStep(p, l)
       \/ Request(p) \/ Respond(p) \/ Signal(p) \/ Kill(p)

DaemonSpec == DaemonInit /\ [][DaemonNext]_daemonVars

\* Goroutines are scheduled and timers fire.  Requests need not end.
FairDaemonSpec ==
  /\ DaemonSpec
  /\ \A p \in Proc :
       /\ WF_daemonVars(UNCHANGED alone /\ MainStep(p))
       /\ \A l \in Listener :
            /\ WF_daemonVars(UNCHANGED alone /\ (StartServe(p, l) \/ SendErr(p, l)))
            /\ WF_daemonVars(UNCHANGED alone /\ ~lis[p][l] /\ AcceptFails(p, l))

----------------------------------------------------------------------------
(* "NerveGate daemon stopped cleanly": it says so only when every request  *)
(* it had accepted was answered, whichever of the last answer and the      *)
(* shutdown deadline comes first.                                          *)
CleanStopCutsNothing ==
  \A p \in Proc : exit[p].code = "clean" => ~exit[p].cut

(* As long as a process waits in the select of Start with its Unix listener*)
(* open, the socket path leads to it: also after a kill and a restart, but *)
(* only where no process is started while another one runs.  And "graceful *)
(* listener shutdown that removes the socket file": a process that ends by *)
(* itself, even one stopped before its Serve goroutines have run, leaves no*)
(* socket file of its own, whoever else runs.                              *)
SocketFollowsDaemon ==
  /\ alone => \A p \in Proc : main[p] = "select" /\ lis[p]["unix"] => path = p
  /\ \A p \in Proc : main[p] = "down" => path # p

(* A signalled process ends, also if the requests it serves never do: the  *)
(* context stays cancelled until then, and not for ever before it.         *)
SignalEndsProcess ==
  \A p \in Proc : []<>(ctxDone[p] => main[p] = "down")
=============================================================================
