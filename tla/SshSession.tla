----------------------------- MODULE SshSession -----------------------------
(***************************************************************************)
(* ReusableSshSession: one OpenSSH connection for the fixed remote commands *)
(* of a job inspection.  The session passes ControlMaster=auto and a       *)
(* control path in a temporary directory of its own to every ssh client;   *)
(* the first client leaves a master behind, the next ones find it at the   *)
(* control path.  The session keeps one bit, connected, about a process    *)
(* that lives and dies by itself.                                          *)
(*                                                                         *)
(* ssh, the master and the network are external.  A result of 255 is both  *)
(* a failed transport and a remote command that ended with 255 or by a     *)
(* signal.  Without multiplexing the session forwards every command as it  *)
(* is and keeps no state: not modelled.                                    *)
(*                                                                         *)
(* Names that a module of its own would call Init, Next or vars begin with *)
(* session: one module speaks of the session and of the cache.             *)
(***************************************************************************)
EXTENDS Integers

CONSTANT MaxCommands    \* commands of one inspection (bound)

ASSUME CommandsAssumption == MaxCommands \in Nat

VARIABLES
    status,         \* where the session is
    control,        \* is there a temporary directory with a control path?
    connected,      \* _connected
    opens,          \* is the current command labelled as opening?
    result,         \* how the current command ended
    commands,       \* how many commands there were
    counted,        \* ssh_connections of the profiler
    socket,         \* what is at the control path: a live or a dead master's
    orphans,        \* live masters nobody can reach any more
    established     \* history: connections made

session == <<status, control, connected, opens, commands, counted>>
outside == <<socket, orphans, established>>
sessionVars == <<status, control, connected, opens, result, commands, counted,
                 socket, orphans, established>>

SessionInit ==
    /\ status = "idle"
    /\ control = FALSE
    /\ connected = FALSE
    /\ opens = FALSE
    /\ result = "none"
    /\ commands = 0
    /\ counted = 0
    /\ socket = "none"
    /\ orphans = 0
    /\ established = 0

SocketExists == socket # "none"

-----------------------------------------------------------------------------
(* The session.                                                            *)

\* Up to the start of the ssh client: a missing socket clears connected, and
\* the command is labelled by what connected says then.
StartCommand ==
    /\ status = "idle"
    /\ commands < MaxCommands
    /\ commands' = commands + 1
    /\ control' = TRUE
    /\ connected' = (connected /\ SocketExists)
    /\ opens' = ~connected'
    /\ status' = "running"
    /\ UNCHANGED <<result, counted, outside>>

\* The unlinked socket of a live master leaves an orphan.
Unlink ==
    /\ socket' = "none"
    /\ orphans' = IF socket = "live" THEN orphans + 1 ELSE orphans

\* Mutant: the socket stays where it is.
DiscardConnectionOnly ==
    /\ result \in {"255", "oserror"}
    /\ connected' = FALSE
    /\ UNCHANGED <<socket, orphans>>

\* A transport failure or an OSError discards the socket, and nothing is
\* retried.
Discard ==
    /\ result \in {"255", "oserror"}
    /\ connected' = FALSE
    /\ Unlink

\* Mutant: a timeout says nothing about the connection.
KeepButForgetTimeout ==
    /\ result \in {"ok", "timeout"}
    /\ connected' = (connected \/ (result = "ok" /\ opens))
    /\ UNCHANGED <<socket, orphans>>

Keep ==
    /\ result \in {"ok", "timeout"}
    /\ connected' = \/ connected
                    \/ result = "ok" /\ opens
                    \/ result = "timeout" /\ SocketExists
    /\ UNCHANGED <<socket, orphans>>

\* Mutant: every successful command is counted as a connection.
FinishAndCount ==
    /\ status = "returned"
    /\ Discard \/ Keep
    /\ counted' = IF result = "ok" THEN counted + 1 ELSE counted
    /\ status' = "idle"
    /\ result' = "none"
    /\ opens' = FALSE
    /\ UNCHANGED <<control, commands, established>>

\* Mutant: an opening that failed is taken back from the count.
FinishAndTakeBack ==
    /\ status = "returned"
    /\ Discard \/ Keep
    /\ counted' = CASE opens /\ result = "ok" -> counted + 1
                    [] result = "255" -> counted - 1
                    [] OTHER -> counted
    /\ status' = "idle"
    /\ result' = "none"
    /\ opens' = FALSE
    /\ UNCHANGED <<control, commands, established>>

FinishCommand ==
    /\ status = "returned"
    /\ Discard \/ Keep
    /\ counted' = IF opens /\ result = "ok" THEN counted + 1 ELSE counted
    /\ status' = "idle"
    /\ result' = "none"
    /\ opens' = FALSE
    /\ UNCHANGED <<control, commands, established>>

\* After the temporary directory is gone nothing is at the control path.
CleanUp ==
    /\ status' = "closed"
    /\ control' = FALSE
    /\ connected' = FALSE
    /\ UNCHANGED <<opens, result, commands, counted, established>>

Worthwhile == control /\ (connected \/ SocketExists)

\* ssh -O exit, when there may be a master.  Its failure is swallowed.
CloseWithExit ==
    /\ status = "idle" /\ Worthwhile
    /\ \/ socket = "live" /\ socket' = "none" /\ UNCHANGED orphans
       \/ Unlink
    /\ CleanUp

CloseWithoutExit ==
    /\ status = "idle" /\ ~Worthwhile
    /\ Unlink
    /\ CleanUp

-----------------------------------------------------------------------------
(* ssh and its master.                                                     *)

Return(r) ==
    /\ status = "running"
    /\ status' = "returned"
    /\ result' = r
    /\ UNCHANGED <<control, connected, opens, commands, counted>>

\* The client runs its command through the live master.
ClientShares ==
    /\ socket = "live"
    /\ \E r \in {"ok", "255", "timeout"} : Return(r)
    /\ UNCHANGED outside

\* It connects by itself, leaves a master at the control path, and runs its
\* command through it.
ClientConnects ==
    /\ socket # "live"
    /\ \E r \in {"ok", "255", "timeout"} : Return(r)
    /\ socket' = "live"
    /\ established' = established + 1
    /\ UNCHANGED orphans

\* It cannot connect; a dead master's socket may be removed by then.
ClientCannotConnect ==
    /\ socket # "live"
    /\ \E r \in {"255", "timeout"} : Return(r)
    /\ socket' \in {socket, "none"}
    /\ UNCHANGED <<orphans, established>>

\* It cannot be started.
ClientDoesNotStart == Return("oserror") /\ UNCHANGED outside

\* The master loses its connection or is killed.
MasterDies ==
    /\ socket = "live"
    /\ socket' \in {"none", "stale"}
    /\ UNCHANGED <<session, result, orphans, established>>

\* Mutant: ControlPersist without a time keeps an orphan for ever.
MasterPersists ==
    /\ socket = "live" /\ socket' = "none"
    /\ UNCHANGED <<session, result, established, orphans>>

\* ControlPersist: a master without a client exits after 60 seconds.
MasterExpires ==
    /\ status # "running"
    /\ \/ socket = "live" /\ socket' = "none" /\ UNCHANGED orphans
       \/ orphans > 0 /\ orphans' = orphans - 1 /\ UNCHANGED socket
    /\ UNCHANGED <<session, result, established>>

-----------------------------------------------------------------------------

Step ==
    \/ StartCommand \/ FinishCommand \/ CloseWithExit \/ CloseWithoutExit
    \/ ClientShares \/ ClientConnects \/ ClientCannotConnect \/ ClientDoesNotStart

SessionNext == Step \/ MasterDies \/ MasterExpires

\* The commands and the exit have timeouts, and ControlPersist is passed to
\* every client.
SessionSpec ==
    /\ SessionInit
    /\ [][SessionNext]_sessionVars
    /\ WF_sessionVars(Step)
    /\ WF_sessionVars(MasterExpires)

-----------------------------------------------------------------------------
(* Properties.                                                             *)

SessionTypeOK ==
    /\ status \in {"idle", "running", "returned", "closed"}
    /\ control \in BOOLEAN
    /\ connected \in BOOLEAN
    /\ opens \in BOOLEAN
    /\ result \in {"none", "ok", "255", "timeout", "oserror"}
    /\ commands \in Nat
    /\ counted \in Nat
    /\ socket \in {"none", "live", "stale"}
    /\ orphans \in Nat
    /\ established \in Nat

\* Between two commands, and after the last, the session knows of every
\* socket at its control path: a timeout that left a master behind is not
\* forgotten, and a failure leaves no socket for the next client to trust
\* (_run, _update_connection_state, close).
NoForgottenSocket ==
    status \in {"idle", "closed"} /\ ~connected => socket = "none"

\* A command labelled as opening the connection never finds a live master
\* (opens_connection in _run), ...
OpensWhenNeeded == status = "running" /\ opens => socket # "live"

\* ... so the profiler never reports more connections than were made.
CountedWereEstablished ==
    counted <= established

\* However the session ends, no master outlives it for long.
LeavesNoMaster ==
    status = "closed" ~> (socket = "none" /\ orphans = 0)
=============================================================================
