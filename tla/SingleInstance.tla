--------------------------- MODULE SingleInstance --------------------------
(***************************************************************************)
(* Single-instance enforcement                                             *)
(* (crates/gpui/src/platform/single_instance.rs). On Unix a process probes *)
(* the socket of the application by connecting to it, and when nobody      *)
(* answers it unlinks the path and binds a listener of its own; each of    *)
(* those system calls is a step.  On Windows a named mutex is created.     *)
(*                                                                         *)
(* The file system and the kernel's socket queue are external.  A listener *)
(* is named by the process that bound it; `file` is the listener the path  *)
(* names, which outlives its process as a stale socket.  The system calls  *)
(* named in Faults may fail with an error of their own (rights, limits, a  *)
(* missing directory).  The code reports those of bind and CreateMutexW as *)
(* AlreadyRunning and passes over the others.                              *)
(***************************************************************************)
EXTENDS Integers, Sequences, FiniteSets

CONSTANTS
  Processes,   \* processes of one application
  Platforms,   \* "unix" (the socket), "windows" (the named mutex)
  Overlap,     \* may two processes on Unix be inside `acquire` at once?
  Faults,      \* calls that may fail: "connect", "remove", "bind", "mutex", "dup", "accept"
  Backlog,     \* bound of the kernel on connections not yet accepted
  NoSocket

ASSUME SingleInstanceAssumption ==
  /\ Platforms \subseteq {"unix", "windows"}
  /\ Overlap \in BOOLEAN
  /\ Faults \subseteq {"connect", "remove", "bind", "mutex", "dup", "accept"}
  /\ Backlog \in Nat \ {0}
  /\ NoSocket \notin Processes

VARIABLES
  platform,   \* the platform of this behaviour
  stage,         \* where each process is
  file,       \* the listener that the socket path names
  open,       \* processes whose listener (or mutex handle) is open
  pending,    \* connections to a listener that were not accepted yet
  acceptor,   \* processes whose on_activate thread runs
  failed      \* history: processes for which a system call failed

instanceVars == << platform, stage, file, open, pending, acceptor, failed >>

Windows == platform = "windows"
Acquiring(p) == stage[p] \in {"connect", "remove", "bind", "close"}
Holder(p) == stage[p] \in {"held", "serving"}
GoesTo(p, label) == stage' = [stage EXCEPT ![p] = label]
Fails(p, call) == call \in Faults /\ failed' = failed \cup {p}

InstanceInit ==
  /\ platform \in Platforms
  /\ stage = [p \in Processes |-> "idle"]
  /\ file = NoSocket
  /\ open = {}
  /\ pending = [p \in Processes |-> << >>]
  /\ acceptor = {}
  /\ failed = {}

\* A process starts and calls SingleInstance::acquire.
Start(p) ==
  /\ stage[p] = "idle"
  /\ Windows \/ Overlap \/ \A q \in Processes : ~ Acquiring(q)
  /\ GoesTo(p, "connect")
  /\ failed' = failed \ {p}
  /\ UNCHANGED << platform, file, open, pending, acceptor >>

----------------------------------------------------------------------------
\* platform_acquire on Unix.

Answers(q) == q # NoSocket /\ q \in open

\* The kernel queues a connection to q, or blocks while the queue is full.
Connects(q, message) ==
  /\ Len(pending[q]) < Backlog
  /\ pending' = [pending EXCEPT ![q] = Append(@, message)]

ConnectOk(p) ==
  /\ ~ Windows /\ stage[p] = "connect" /\ Answers(file)
  /\ Connects(file, "probe")
  /\ GoesTo(p, "refused")
  /\ UNCHANGED << platform, file, open, acceptor, failed >>

ProbeIgnored == TRUE

\* The probe fails: there is no socket, nobody listens on it, or the call has
\* an error of its own.
ProbeFails == ~ Answers(file) \/ "connect" \in Faults

ConnectFails(p) ==
  /\ ~ Windows /\ stage[p] = "connect" /\ ProbeFails
  /\ GoesTo(p, "remove")
  /\ UNCHANGED << platform, file, open, pending, acceptor, failed >>

StaleFileKept(p) == file

\* remove_file(&path)
FileRemoved(p) == NoSocket

\* Its error is ignored.
RemoveFile(p) ==
  /\ stage[p] = "remove"
  /\ \/ file' = FileRemoved(p) /\ UNCHANGED failed
     \/ Fails(p, "remove") /\ UNCHANGED file
  /\ GoesTo(p, "bind")
  /\ UNCHANGED << platform, open, pending, acceptor >>

ListenerDropped(p) == open

\* The guard that acquire returns owns the listener.
ListenerKept(p) == open \cup {p}

\* UnixListener::bind.
Bind(p) ==
  /\ stage[p] = "bind" /\ file = NoSocket
  /\ file' = p /\ open' = ListenerKept(p) /\ GoesTo(p, "held")
  /\ UNCHANGED << platform, pending, acceptor, failed >>

\* It fails when the path exists, or for a reason of its own: both are
\* AlreadyRunning.
BindFails(p) ==
  /\ stage[p] = "bind"
  /\ \/ file # NoSocket /\ UNCHANGED failed
     \/ Fails(p, "bind")
  /\ GoesTo(p, "refused")
  /\ UNCHANGED << platform, file, open, pending, acceptor >>

----------------------------------------------------------------------------
\* platform_acquire on Windows.

\* GetLastError() is not ERROR_ALREADY_EXISTS.
MutexIsNew == open = {}

\* CreateMutexW opens a handle whether the mutex is new or not.
CreateMutex(p) ==
  /\ Windows /\ stage[p] = "connect"
  /\ open' = open \cup {p}
  /\ GoesTo(p, IF MutexIsNew THEN "held" ELSE "close")
  /\ UNCHANGED << platform, file, pending, acceptor, failed >>

\* An error without a handle is AlreadyRunning as well.
CreateMutexFails(p) ==
  /\ Windows /\ stage[p] = "connect" /\ Fails(p, "mutex")
  /\ GoesTo(p, "refused")
  /\ UNCHANGED << platform, file, open, pending, acceptor >>

CloseHandle(p) ==
  /\ stage[p] = "close"
  /\ open' = open \ {p}
  /\ GoesTo(p, "refused")
  /\ UNCHANGED << platform, file, pending, acceptor, failed >>

----------------------------------------------------------------------------
\* The instance and those who were refused.

\* on_activate starts a thread on a duplicate of the listener, and none when
\* dup fails; an instance calls it once or not at all.
OnActivate(p) ==
  /\ ~ Windows /\ stage[p] = "held"
  /\ \/ acceptor' = acceptor \cup {p} /\ UNCHANGED failed
     \/ Fails(p, "dup") /\ UNCHANGED acceptor
  /\ GoesTo(p, "serving")
  /\ UNCHANGED << platform, file, open, pending >>

LoopEnds(p) == acceptor \ {p}

\* A connection that sent nothing, as the probe, leaves the loop running.
LoopGoesOn(p) == acceptor

\* The thread accepts a connection, reads it, and calls the callback if it
\* says "activate".
Accept(p) ==
  /\ p \in acceptor /\ pending[p] # << >>
  /\ pending' = [pending EXCEPT ![p] = Tail(@)]
  /\ acceptor' = IF Head(pending[p]) = "probe" THEN LoopGoesOn(p) ELSE acceptor
  /\ UNCHANGED << platform, stage, file, open, failed >>

\* accept fails: the loop, and the thread, end.  The listener stays open.
AcceptFails(p) ==
  /\ p \in acceptor /\ Fails(p, "accept")
  /\ acceptor' = acceptor \ {p}
  /\ UNCHANGED << platform, stage, file, open, pending >>

\* send_activate_to_existing, by a refused process, which then exits.
SendActivate(p) ==
  /\ stage[p] = "refused"
  /\ IF ~ Windows /\ Answers(file)
       THEN Connects(file, "activate")
       ELSE UNCHANGED pending
  /\ GoesTo(p, "idle")
  /\ UNCHANGED << platform, file, open, acceptor, failed >>

Quit(p) ==
  /\ stage[p] = "refused"
  /\ GoesTo(p, "idle")
  /\ UNCHANGED << platform, file, open, pending, acceptor, failed >>

\* The process ends: the kernel closes its sockets and handles.
Ended(p) ==
  /\ GoesTo(p, "idle")
  /\ open' = open \ {p}
  /\ pending' = [pending EXCEPT ![p] = << >>]
  /\ acceptor' = acceptor \ {p}
  /\ UNCHANGED << platform, file, failed >>

\* Drop for SingleInstance unlinks the path and ignores an error; the process
\* then exits.
DropInstance(p) ==
  /\ Holder(p)
  /\ \/ file' = (IF Windows THEN file ELSE NoSocket) /\ UNCHANGED failed
     \/ ~ Windows /\ Fails(p, "remove") /\ UNCHANGED file
  /\ GoesTo(p, "dropped")
  /\ UNCHANGED << platform, open, pending, acceptor >>

Exit(p) == stage[p] = "dropped" /\ Ended(p)

\* Without running Drop.
Crash(p) == (Acquiring(p) \/ Holder(p)) /\ Ended(p)

Acquire(p) ==
  \/ ConnectOk(p) \/ ConnectFails(p) \/ RemoveFile(p) \/ Bind(p) \/ BindFails(p)
  \/ CreateMutex(p) \/ CreateMutexFails(p) \/ CloseHandle(p)

InstanceNext ==
  \E p \in Processes :
    \/ Start(p) \/ Acquire(p) \/ OnActivate(p) \/ Accept(p) \/ AcceptFails(p)
    \/ SendActivate(p) \/ Quit(p) \/ DropInstance(p) \/ Exit(p) \/ Crash(p)

InstanceSpec == InstanceInit /\ [][InstanceNext]_instanceVars

\* A process inside `acquire` and the activation thread run when they can, and
\* an instance that was dropped exits.  Nothing makes an instance call
\* on_activate.
FairInstanceSpec ==
  /\ InstanceSpec
  /\ \A p \in Processes :
       /\ WF_instanceVars(Acquire(p)) /\ WF_instanceVars(Exit(p))
       /\ WF_instanceVars(Accept(p) \/ AcceptFails(p))

----------------------------------------------------------------------------
\* The path names no socket or one that some process bound; only a process
\* with an open listener accepts; the queue of a listener is bounded.
InstanceTypeOK ==
  /\ platform \in Platforms
  /\ stage \in [Processes -> {"idle", "connect", "remove", "bind", "close", "held",
                           "serving", "refused", "dropped"}]
  /\ file \in Processes \cup {NoSocket}
  /\ acceptor \subseteq open /\ open \subseteq Processes
  /\ \A p \in Processes : Len(pending[p]) <= Backlog
  /\ failed \subseteq Processes

\* The lock "prevents other instances from starting": two processes never hold
\* it, across crashes, stale sockets, drops, restarts and failed calls, as long
\* as no probe of a running instance fails ("connect" is not in Faults).
AtMostOneInstance ==
  \A p, q \in Processes : Holder(p) /\ Holder(q) => p = q

\* acquire decides on AlreadyRunning.
Refuses(p) == stage[p] \notin {"refused", "close"} /\ stage'[p] \in {"refused", "close"}

\* acquire decides on AlreadyRunning only while another process has the listener
\* or the mutex open, or when a system call of its own has failed: the socket
\* that a crash, or a drop that could not remove it, leaves behind does not
\* lock out the next start.
NotLockedOut ==
  [][\A p \in Processes : Refuses(p) => open \ {p} # {} \/ p \in failed']_instanceVars

\* "Err(AlreadyRunning) if another instance already holds the lock", without the
\* second case.  It does not hold: every error of bind and CreateMutexW is
\* reported as AlreadyRunning.
RefusedOnlyWhileRunning ==
  [][\A p \in Processes : Refuses(p) => open \ {p} # {}]_instanceVars

\* An instance that holds the lock can be reached: the path names its listener,
\* so that a later start is refused and can activate it.
HolderIsReachable ==
  ~ Windows => \A p \in Processes : Holder(p) => file = p /\ p \in open

\* An activation queued at an instance that called on_activate is the next
\* that its thread reads in the end, whatever probes were queued before it,
\* unless the instance ends first or its dup or accept failed.
ActivationIsRead ==
  \A p \in Processes :
    /\ stage[p] = "serving"
    /\ \E i \in DOMAIN pending[p] : pending[p][i] = "activate"
    ~> \/ pending[p] = << >>
       \/ p \in acceptor /\ Head(pending[p]) = "activate"
       \/ p \in failed

\* The queue of listener q is full and no thread empties it.
Unattended(q) == Answers(q) /\ q \notin acceptor /\ Len(pending[q]) = Backlog

\* acquire returns, unless its probe waits for a place in the queue of an
\* instance that does not accept connections.
AcquireReturns ==
  \A p \in Processes :
    Acquiring(p) ~> ~ Acquiring(p) \/ (stage[p] = "connect" /\ Unattended(file))

\* "Returns Ok(SingleInstance) if this is the first instance, or
\* Err(AlreadyRunning) if another instance already holds the lock", whoever
\* accepts.  It does not hold: the probe blocks when the queue of an instance
\* without an activation thread is full.
AcquireAlwaysReturns == \A p \in Processes : Acquiring(p) ~> ~ Acquiring(p)

\* Neither side waits for the other for ever: acquire returns, and the running
\* instance reads the activations it is sent, up to the exceptions above.
StartsAndActivationsEnd == AcquireReturns /\ ActivationIsRead
=============================================================================
