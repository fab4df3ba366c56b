------------------------------- MODULE Signal -------------------------------
(***************************************************************************)
(* The self-pipe of src/src/reactor/signal.rs around Reactor::run          *)
(* (src/src/reactor.rs).  The program has one thread: on_signal interrupts *)
(* it between any two of its steps, runs to completion before it goes on,  *)
(* and is itself interrupted by the other signals (sa_mask is empty).      *)
(* Main's steps are its system calls and its accesses to the statics.      *)
(***************************************************************************)
EXTENDS Integers, SequencesExt

CONSTANTS PipeCapacity,   \* bytes the pipe holds
          MaxSignals,     \* bound: signals delivered in a behaviour
          MaxRuns         \* bound: calls of Reactor::run

ASSUME SignalAssumption == {PipeCapacity, MaxSignals, MaxRuns} \subseteq Nat \ {0}

VARIABLES pc,             \* main's next step
          frames,         \* the on_signal calls in progress, innermost last
          handled,        \* the signals whose disposition is on_signal
          WRITE_FD,       \* whether the write end is published
          requested,      \* SHUTDOWN_REQUESTED and DUMP_REQUESTED
          pipe,           \* bytes in the pipe
          open,           \* the open ends of the pipe
          errno,
          reactor,        \* the reactor's shutdown and dump_pending
          dumps,          \* history: dumps broadcast in this run
          delivered,      \* history: the signals delivered in this run
          signals, runs   \* history: how many signals and runs

vars == <<pc, frames, handled, WRITE_FD, requested, pipe, open, errno, reactor,
          dumps, delivered, signals, runs>>
statics == <<WRITE_FD, requested>>
history == <<dumps, delivered, signals, runs>>

HANDLED_SIGNALS == <<"SIGINT", "SIGTERM", "SIGUSR1">>
Signals == Range(HANDLED_SIGNALS)
Flag(signum) == IF signum = "SIGUSR1" THEN "dump" ELSE "shutdown"
Flags == {"shutdown", "dump"}
NoFlags == [f \in Flags |-> FALSE]

\* Install, loop, tear down; "idle" is outside Reactor::run.
Installing == {"publish", "clear", "install", "uninstall"}
Looping == {"wait", "drain", "swap_shutdown", "swap_dump", "broadcast", "again"}
Ending == {"restore", "close_write", "unregister"}

\* Left by what main does, by a read that finds the pipe empty and by a write that fails.
Errno == {"main", "EAGAIN", "write"}

Frame == [signum : Signals, at : {"flag", "load", "write", "return"}, saved : Errno]

\* The statics, the pipe, the program counter and the stack of interrupted handlers keep their
\* shapes.
TypeOK ==
    /\ pc \in {"idle", "register"} \cup Installing \cup Looping \cup Ending
    /\ frames \in Seq(Frame)
    /\ handled \subseteq Signals
    /\ WRITE_FD \in BOOLEAN
    /\ requested \in [Flags -> BOOLEAN]
    /\ pipe \in 0 .. PipeCapacity
    /\ open \subseteq {"read", "write"}
    /\ errno \in Errno
    /\ reactor \in [Flags -> BOOLEAN]
    /\ dumps \in Nat /\ delivered \subseteq Signals
    /\ signals \in 0 .. MaxSignals /\ runs \in 0 .. MaxRuns

Init ==
    /\ pc = "idle"
    /\ frames = <<>> /\ handled = {}
    /\ WRITE_FD = FALSE /\ requested = NoFlags
    /\ pipe = 0 /\ open = {} /\ errno = "main"
    /\ reactor = NoFlags
    /\ dumps = 0 /\ delivered = {} /\ signals = 0 /\ runs = 0

-----------------------------------------------------------------------------
(* on_signal.                                                              *)

Interrupted == frames # <<>>
Top == frames[Len(frames)]

\* A signal is blocked while its own handler runs.
Deliver(signum) ==
    /\ signum \in handled /\ signals < MaxSignals
    /\ \A i \in DOMAIN frames : frames[i].signum # signum
    /\ frames' = Append(frames, [signum |-> signum, at |-> "flag", saved |-> errno])
    /\ delivered' = delivered \cup {signum}
    /\ signals' = signals + 1
    /\ UNCHANGED <<pc, handled, statics, pipe, open, errno, reactor, dumps, runs>>

At(step, next) ==
    /\ Interrupted /\ Top.at = step
    /\ frames' = [frames EXCEPT ![Len(frames)].at = next]
    /\ UNCHANGED <<pc, handled, WRITE_FD, open, reactor, history>>

OnSignalFlag ==
    /\ At("flag", "load")
    /\ requested' = [requested EXCEPT ![Flag(Top.signum)] = TRUE]
    /\ UNCHANGED <<pipe, errno>>

\* Fault: the handler only sets its flag.
OnSignalLoadOnly == At("load", "return") /\ UNCHANGED <<requested, pipe, errno>>

OnSignalLoad ==
    /\ At("load", IF WRITE_FD THEN "write" ELSE "return")
    /\ UNCHANGED <<requested, pipe, errno>>

\* A full pipe and a closed read end are errors, which are ignored.
OnSignalWrite ==
    /\ At("write", "return")
    /\ IF pipe < PipeCapacity /\ "read" \in open
       THEN pipe' = pipe + 1 /\ UNCHANGED errno
       ELSE errno' = "write" /\ UNCHANGED pipe
    /\ UNCHANGED requested

\* Fault: errno is left as the write set it.
OnSignalReturnDirty ==
    /\ Interrupted /\ Top.at = "return"
    /\ frames' = Front(frames)
    /\ UNCHANGED <<pc, handled, statics, pipe, open, errno, reactor, history>>

OnSignalReturn ==
    /\ Interrupted /\ Top.at = "return"
    /\ frames' = Front(frames)
    /\ errno' = Top.saved
    /\ UNCHANGED <<pc, handled, statics, pipe, open, reactor, history>>

-----------------------------------------------------------------------------
(* SignalGuard::install.                                                   *)

Main(step, next) == ~Interrupted /\ pc = step /\ pc' = next /\ UNCHANGED frames

\* self_pipe; when it fails nothing has changed.
Start ==
    /\ Main("idle", "publish") /\ runs < MaxRuns
    /\ runs' = runs + 1 /\ dumps' = 0 /\ delivered' = {}
    /\ open' = {"read", "write"} /\ pipe' = 0
    /\ UNCHANGED <<handled, statics, errno, reactor, signals>>

Publish ==
    /\ Main("publish", "clear")
    /\ WRITE_FD' = TRUE
    /\ UNCHANGED <<handled, requested, pipe, open, errno, reactor, history>>

\* Fault: a flag of an earlier run is left set.
ClearNothing ==
    /\ Main("clear", "install")
    /\ UNCHANGED <<handled, statics, pipe, open, errno, reactor, history>>

ClearFlags ==
    /\ Main("clear", "install")
    /\ requested' = NoFlags
    /\ UNCHANGED <<handled, WRITE_FD, pipe, open, errno, reactor, history>>

\* Fault: a failure leaves the handlers installed before it.
InstallLeavesHandlers ==
    /\ Cardinality(handled) < Len(HANDLED_SIGNALS)
    /\ \/ /\ Main("install", "install")
          /\ handled' = handled \cup {HANDLED_SIGNALS[Cardinality(handled) + 1]}
          /\ UNCHANGED <<WRITE_FD, open>>
       \/ Main("install", "idle") /\ WRITE_FD' = FALSE /\ open' = {} /\ UNCHANGED handled
    /\ UNCHANGED <<requested, pipe, errno, reactor, history>>

\* install_handlers, in the order of HANDLED_SIGNALS; a failure restores the
\* ones installed before it.
Install ==
    /\ Cardinality(handled) < Len(HANDLED_SIGNALS)
    /\ \/ /\ Main("install", "install")
          /\ handled' = handled \cup {HANDLED_SIGNALS[Cardinality(handled) + 1]}
       \/ Main("install", "uninstall") /\ UNCHANGED handled
    /\ UNCHANGED <<statics, pipe, open, errno, reactor, history>>

Installed ==
    /\ Main("install", "register") /\ handled = Signals
    /\ UNCHANGED <<handled, statics, pipe, open, errno, reactor, history>>

\* restore_handlers, in the same order.
RestoreAt(step) ==
    /\ Main(step, step) /\ handled # {}
    /\ handled' = handled \ {SelectSeq(HANDLED_SIGNALS, LAMBDA s : s \in handled)[1]}
    /\ UNCHANGED <<statics, pipe, open, errno, reactor, history>>

\* The end of a failed install: the write end is unpublished, and both close.
InstallFailed ==
    /\ Main("uninstall", "idle") /\ handled = {}
    /\ WRITE_FD' = FALSE /\ open' = {}
    /\ UNCHANGED <<handled, requested, pipe, errno, reactor, history>>

-----------------------------------------------------------------------------
(* Reactor::run.                                                           *)

\* register_with_fds takes the read end; when it fails it drops it, and the
\* guard is dropped after that.
Register ==
    /\ \/ /\ Main("register", "again")
          /\ reactor' = NoFlags
          /\ UNCHANGED open
       \/ /\ Main("register", "restore")
          /\ open' = open \ {"read"}
          /\ UNCHANGED reactor
    /\ UNCHANGED <<handled, statics, pipe, errno, history>>

\* Fault: the write end closes before the handlers are restored.
AgainClosesFirst ==
    /\ Main("again", IF reactor["shutdown"] THEN "close_write" ELSE "wait")
    /\ UNCHANGED <<handled, statics, pipe, open, errno, reactor, history>>

\* The loop's condition.
Again ==
    /\ Main("again", IF reactor["shutdown"] THEN "restore" ELSE "wait")
    /\ UNCHANGED <<handled, statics, pipe, open, errno, reactor, history>>

\* A wait reports the pipe while it has bytes; another fd or a deadline may end
\* it at any time, and a wait that fails ends the loop.
WaitReadable ==
    /\ Main("wait", "drain") /\ pipe > 0
    /\ UNCHANGED <<handled, statics, pipe, open, errno, reactor, history>>

WaitOther ==
    /\ pipe = 0
    /\ Main("wait", "broadcast") \/ Main("wait", "restore")
    /\ UNCHANGED <<handled, statics, pipe, open, errno, reactor, history>>

\* Fault: the read that finds the pipe empty is taken for a byte.
DrainPastEnd ==
    /\ Main("drain", IF pipe > 0 THEN "drain" ELSE "swap_shutdown")
    /\ pipe' = pipe - 1
    /\ UNCHANGED <<handled, statics, open, errno, reactor, history>>

\* SignalPipe::on_readable: read until nothing is left, then take the flags.
Drain ==
    /\ IF pipe > 0
       THEN Main("drain", "drain") /\ pipe' = pipe - 1 /\ UNCHANGED errno
       ELSE Main("drain", "swap_shutdown") /\ errno' = "EAGAIN" /\ UNCHANGED pipe
    /\ UNCHANGED <<handled, statics, open, reactor, history>>

\* Fault: the pipe is emptied after the flag is taken.
SwapThenDrain(step, flag, next) ==
    /\ Main(step, next)
    /\ reactor' = [reactor EXCEPT ![flag] = @ \/ requested[flag]]
    /\ requested' = [requested EXCEPT ![flag] = FALSE]
    /\ pipe' = 0
    /\ UNCHANGED <<handled, WRITE_FD, open, errno, history>>

\* Fault: taking one flag clears both.
SwapBoth(step, flag, next) ==
    /\ Main(step, next)
    /\ reactor' = [reactor EXCEPT ![flag] = @ \/ requested[flag]]
    /\ requested' = NoFlags
    /\ UNCHANGED <<handled, WRITE_FD, pipe, open, errno, history>>

Swap(step, flag, next) ==
    /\ Main(step, next)
    /\ reactor' = [reactor EXCEPT ![flag] = @ \/ requested[flag]]
    /\ requested' = [requested EXCEPT ![flag] = FALSE]
    /\ UNCHANGED <<handled, WRITE_FD, pipe, open, errno, history>>

\* dispatch_control(Dump).
Broadcast ==
    /\ Main("broadcast", "again")
    /\ reactor' = [reactor EXCEPT !["dump"] = FALSE]
    /\ dumps' = IF reactor["dump"] THEN dumps + 1 ELSE dumps
    /\ UNCHANGED <<handled, statics, pipe, open, errno, delivered, signals, runs>>

\* Drop for SignalGuard, then its fields; the pipe's handler goes last.
Unpublish ==
    /\ Main("restore", "close_write") /\ handled = {}
    /\ WRITE_FD' = FALSE
    /\ UNCHANGED <<handled, requested, pipe, open, errno, reactor, history>>

CloseWrite ==
    /\ Main("close_write", "unregister")
    /\ open' = open \ {"write"}
    /\ UNCHANGED <<handled, statics, pipe, errno, reactor, history>>

Unregister ==
    /\ Main("unregister", "idle")
    /\ open' = {}
    /\ UNCHANGED <<handled, statics, pipe, errno, reactor, history>>

MainStep ==
    \/ Start \/ Publish \/ ClearFlags \/ Install \/ Installed
    \/ RestoreAt("uninstall") \/ InstallFailed \/ Register
    \/ Again \/ WaitReadable \/ WaitOther \/ Drain
    \/ Swap("swap_shutdown", "shutdown", "swap_dump")
    \/ Swap("swap_dump", "dump", "broadcast") \/ Broadcast
    \/ RestoreAt("restore") \/ Unpublish \/ CloseWrite \/ Unregister

HandlerStep == OnSignalFlag \/ OnSignalLoad \/ OnSignalWrite \/ OnSignalReturn

Ended == pc = "idle" /\ runs = MaxRuns /\ UNCHANGED vars

Next == MainStep \/ HandlerStep \/ (\E signum \in Signals : Deliver(signum)) \/ Ended

\* The thread goes on, in on_signal when it is interrupted, and a wait that
\* could end (the pipe has bytes, or a deadline) does.
Spec == Init /\ [][Next]_vars /\ WF_vars(MainStep) /\ WF_vars(HandlerStep)

-----------------------------------------------------------------------------
\* A signal is never left to the next one: whenever main goes to wait with a
\* request set and no handler on the way to its write, the pipe has a byte that
\* ends the wait (on_signal sets the flag before it writes; on_readable empties
\* the pipe before it takes the flags; a full pipe needs no byte).
NoLostWakeup ==
    pc = "wait" /\ (\E f \in Flags : requested[f]) =>
        pipe > 0 \/ \E i \in DOMAIN frames : frames[i].at \in {"load", "write"}

\* The write end a handler holds is open when it writes, so a byte never goes
\* to whatever file took the number later (SignalGuard's drop order, and the
\* error paths of install).
WriteEndOpen ==
    \A i \in DOMAIN frames : frames[i].at = "write" => WRITE_FD /\ "write" \in open

\* "Signal handlers are installed for the duration and restored on return":
\* outside Reactor::run nothing of it is left, whichever step failed.
RestoredOutside == pc \in {"idle", "publish"} => handled = {} /\ ~WRITE_FD /\ frames = <<>>

\* A run stops and dumps only for signals it received: a flag that was set while
\* an earlier run was torn down does not reach it (SignalGuard::install).
OnlyThisRun ==
    pc \in Looping =>
        \A f \in Flags : reactor[f] => \E signum \in delivered : Flag(signum) = f

\* What main sees in errno is what its own calls left there, however many
\* handlers ran in between (on_signal saves and restores it).
ErrnoIsMains == ~Interrupted => errno \in {"main", "EAGAIN"}

\* Handlers and runs leave nothing behind: the four above, in states of the shape that TypeOK
\* gives.
NothingLeftBehind == TypeOK /\ WriteEndOpen /\ RestoredOutside /\ OnlyThisRun /\ ErrnoIsMains

\* A SIGINT or SIGTERM that reaches the loop ends it, and a SIGUSR1 is answered by a dump unless
\* the loop ends first.
RequestsAnswered ==
    /\ (pc \in Looping /\ delivered \cap {"SIGINT", "SIGTERM"} # {} ~> pc \notin Looping)
    /\ (pc \in Looping /\ "SIGUSR1" \in delivered ~> dumps > 0 \/ pc \notin Looping)

=============================================================================
