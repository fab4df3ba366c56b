---------------------------- MODULE SignalProofs ----------------------------
(***************************************************************************)
(* NoLostWakeup and NothingLeftBehind of Signal, for a pipe of any         *)
(* capacity and any number of signals, nested in any way, and of runs.     *)
(*                                                                         *)
(* The argument: the steps of main between publishing the write end and    *)
(* closing it are the only ones with a handler installed (Placed), so a    *)
(* handler in progress has an end to write to; a flag that is set is of a  *)
(* signal of this run (Caused); and from clearing the flags to waiting,    *)
(* except between emptying the pipe and taking a flag, a flag that is set  *)
(* has a byte in the pipe or a handler about to write one (Awake).         *)
(***************************************************************************)
EXTENDS Signal, FiniteSetTheorems, SequenceTheorems, TLAPS

Waiting == {"install", "register", "again", "wait", "broadcast"}

\* What each part of install, run and drop has in place.
Placed ==
    /\ WRITE_FD <=> pc \notin {"idle", "publish", "close_write", "unregister"}
    /\ pc \notin {"idle", "unregister"} => "write" \in open
    /\ pc \in Installing \cup {"register"} \cup Looping => "read" \in open
    /\ pc \in {"idle", "publish", "clear", "close_write", "unregister"} => handled = {}
    /\ Interrupted => handled # {}

\* What is requested, or about to be, is so by a signal of this run.
Caused ==
    /\ \A i \in DOMAIN frames : frames[i].signum \in delivered
    /\ pc \notin {"idle", "publish", "clear"} =>
           \A f \in Flags : requested[f] => \E signum \in delivered : Flag(signum) = f

\* A handler that interrupted main, not another handler, saved what main left in errno.
Saved == Interrupted => frames[1].saved \in {"main", "EAGAIN"}

\* A request that is set will end a wait.
Woken(f) == requested[f] => pipe > 0 \/ \E i \in DOMAIN frames : frames[i].at \in {"load", "write"}

Awake ==
    /\ pc \in Waiting => \A f \in Flags : Woken(f)
    /\ pc = "swap_dump" => Woken("shutdown")

IInv == TypeOK /\ Placed /\ Caused /\ OnlyThisRun /\ Saved /\ ErrnoIsMains /\ Awake

-----------------------------------------------------------------------------
\* The handled signals, and how many a set of them has.
LEMMA SignalFacts ==
    /\ Signals = {"SIGINT", "SIGTERM", "SIGUSR1"}
    /\ Len(HANDLED_SIGNALS) = 3
    /\ \A n \in 1 .. 3 : HANDLED_SIGNALS[n] \in Signals
    /\ \A S \in SUBSET Signals : Cardinality(S) \in Nat
<1>1. Signals = {"SIGINT", "SIGTERM", "SIGUSR1"} /\ Len(HANDLED_SIGNALS) = 3
  BY DEF Signals, HANDLED_SIGNALS, Range
<1>2. \A n \in 1 .. 3 : HANDLED_SIGNALS[n] \in Signals
  BY DEF Signals, HANDLED_SIGNALS, Range
<1>3. IsFiniteSet(Signals)
  <2>1. IsFiniteSet({"SIGINT"}) /\ IsFiniteSet({"SIGINT", "SIGTERM"})
    BY FS_Singleton, FS_AddElement, FS_EmptySet
  <2> QED BY <1>1, <2>1, FS_AddElement
<1>4. \A S \in SUBSET Signals : Cardinality(S) \in Nat
  BY <1>3, FS_Subset, FS_CardinalityType
<1> QED BY <1>1, <1>2, <1>4

\* The flags of on_signal.
LEMMA FlagType == \A signum \in Signals : Flag(signum) \in Flags
BY DEF Flag, Flags

\* The innermost handler in progress.
LEMMA TopFacts ==
    ASSUME frames \in Seq(Frame), Interrupted
    PROVE  /\ Len(frames) \in Nat \ {0} /\ DOMAIN frames = 1 .. Len(frames)
           /\ Top \in Frame /\ Top.signum \in Signals /\ Top.saved \in Errno
<1>1. Len(frames) \in Nat /\ DOMAIN frames = 1 .. Len(frames) /\ frames # <<>>
  BY DEF Interrupted
<1>2. Len(frames) # 0
  BY <1>1, EmptySeq
<1>3. Len(frames) \in DOMAIN frames
  BY <1>1, <1>2
<1>4. Top \in Frame
  BY <1>3, ElementOfSeq DEF Top
<1> QED BY <1>1, <1>2, <1>4 DEF Frame

-----------------------------------------------------------------------------
\* The invariant holds before the first run.
LEMMA InitIInv == Init => IInv
<1> SUFFICES ASSUME Init PROVE IInv
    OBVIOUS
<1>1. frames = <<>> /\ frames \in Seq(Frame) /\ DOMAIN frames = {}
  BY DEF Init
<1>2. TypeOK
  <2>1. requested \in [Flags -> BOOLEAN] /\ reactor \in [Flags -> BOOLEAN]
    BY DEF Init, NoFlags
  <2>2. pipe \in 0 .. PipeCapacity /\ signals \in 0 .. MaxSignals /\ runs \in 0 .. MaxRuns
    BY SignalAssumption DEF Init
  <2> QED BY <1>1, <2>1, <2>2, Zenon DEF Init, TypeOK, Errno
<1>3. Placed /\ Caused
  BY <1>1 DEF Init, Placed, Caused, Interrupted, Installing, Looping
<1>4. OnlyThisRun /\ Saved /\ ErrnoIsMains /\ Awake
  BY <1>1 DEF Init, OnlyThisRun, Saved, ErrnoIsMains, Awake, Looping, Waiting, Interrupted
<1> QED BY <1>2, <1>3, <1>4 DEF IInv


\* Main steps only while no handler is in progress.
LEMMA MainFacts ==
    ASSUME NEW step, NEW next, Main(step, next)
    PROVE  /\ pc = step /\ pc' = next
           /\ ~Interrupted /\ frames = <<>> /\ DOMAIN frames = {}
           /\ ~Interrupted' /\ frames' = <<>> /\ DOMAIN frames' = {}
BY DEF Main, Interrupted

\* The pipe is made and its write end published, with no handler installed.
LEMMA OpenIInv == IInv /\ (Start \/ Publish) => IInv'
<1> SUFFICES ASSUME IInv, Start \/ Publish PROVE IInv'
    OBVIOUS
<1> USE DEF Start, Publish, Main, statics, history
<1>1. /\ ~Interrupted /\ frames = <<>> /\ DOMAIN frames = {}
      /\ ~Interrupted' /\ frames' = <<>> /\ DOMAIN frames' = {}
  BY MainFacts
<1>2. TypeOK'
  <2>1. runs' \in 0 .. MaxRuns /\ pipe' \in 0 .. PipeCapacity
    BY SignalAssumption DEF IInv, TypeOK
  <2>2. CASE Start
    BY <1>1, <2>1, <2>2 DEF IInv, TypeOK, Installing
  <2>3. CASE Publish
    BY <1>1, <2>1, <2>3 DEF IInv, TypeOK, Installing
  <2> QED BY <2>2, <2>3, Zenon
<1>3. Placed'
  BY <1>1 DEF IInv, Placed, Installing, Looping
<1>4. Caused' /\ OnlyThisRun'
  BY <1>1 DEF IInv, Caused, OnlyThisRun, Looping
<1>5. Saved' /\ ErrnoIsMains'
  BY <1>1 DEF IInv, Saved, ErrnoIsMains
<1>6. Awake'
  BY <1>1 DEF IInv, Awake, Woken, Waiting
<1> QED BY <1>2, <1>3, <1>4, <1>5, <1>6 DEF IInv

\* The flags are cleared before there is a handler to set them.
LEMMA ClearFlagsIInv == IInv /\ ClearFlags => IInv'
<1> SUFFICES ASSUME IInv, ClearFlags PROVE IInv'
    OBVIOUS
<1>1. /\ ~Interrupted /\ frames = <<>> /\ DOMAIN frames = {}
      /\ ~Interrupted' /\ frames' = <<>> /\ DOMAIN frames' = {}
  BY MainFacts DEF ClearFlags
<1>2. NoFlags \in [Flags -> BOOLEAN] /\ \A f \in Flags : ~requested'[f]
  BY DEF ClearFlags, NoFlags
<1>3. TypeOK'
  BY <1>1, <1>2 DEF ClearFlags, Main, IInv, TypeOK, Installing, Looping, Ending, statics, history
<1>4. Placed'
  BY <1>1 DEF ClearFlags, Main, IInv, Placed, Installing, Looping, statics, history
<1>5. Caused' /\ OnlyThisRun'
  BY <1>1, <1>2 DEF ClearFlags, Main, IInv, Caused, OnlyThisRun, Looping, history
<1>6. Saved' /\ ErrnoIsMains'
  BY <1>1 DEF ClearFlags, Main, IInv, Saved, ErrnoIsMains, statics, history
<1>7. Awake'
  BY <1>1, <1>2 DEF ClearFlags, Main, Awake, Woken, Waiting
<1> QED BY <1>3, <1>4, <1>5, <1>6, <1>7 DEF IInv

\* One handler is installed, or the ones that are will be restored.
LEMMA InstallIInv == IInv /\ Install => IInv'
<1> SUFFICES ASSUME IInv, Install PROVE IInv'
    OBVIOUS
<1>1. /\ ~Interrupted /\ frames = <<>> /\ DOMAIN frames = {}
      /\ ~Interrupted' /\ frames' = <<>> /\ DOMAIN frames' = {}
  BY MainFacts DEF Install
<1>2. handled' \subseteq Signals
  <2>1. Cardinality(handled) \in Nat /\ Cardinality(handled) < 3 /\ handled \subseteq Signals
    BY SignalFacts DEF Install, IInv, TypeOK
  <2>2. HANDLED_SIGNALS[Cardinality(handled) + 1] \in Signals
    BY <2>1, SignalFacts
  <2> QED BY <2>1, <2>2 DEF Install
<1>3. TypeOK'
  BY <1>1, <1>2 DEF Install, Main, IInv, TypeOK, Installing, Looping, Ending, statics, history
<1>4. Placed'
  BY <1>1 DEF Install, Main, IInv, Placed, Installing, Looping, statics, history
<1>5. Caused' /\ OnlyThisRun'
  BY <1>1 DEF Install, Main, IInv, Caused, OnlyThisRun, Looping, statics, history
<1>6. Saved' /\ ErrnoIsMains'
  BY <1>1 DEF Install, Main, IInv, Saved, ErrnoIsMains, statics, history
<1>7. Awake'
  BY <1>1 DEF Install, Main, IInv, Awake, Woken, Waiting, statics, history
<1> QED BY <1>3, <1>4, <1>5, <1>6, <1>7 DEF IInv

\* The pipe's handler is registered, or the read end goes with it and the guard is dropped.
LEMMA RegisterIInv == IInv /\ Register => IInv'
<1> SUFFICES ASSUME IInv, Register PROVE IInv'
    OBVIOUS
<1>1. /\ ~Interrupted /\ frames = <<>> /\ DOMAIN frames = {}
      /\ ~Interrupted' /\ frames' = <<>> /\ DOMAIN frames' = {}
  BY MainFacts DEF Register
<1>2. /\ NoFlags \in [Flags -> BOOLEAN] /\ \A f \in Flags : ~NoFlags[f]
      /\ reactor' = NoFlags \/ UNCHANGED reactor
  BY DEF Register, NoFlags
<1>3. TypeOK'
  BY <1>1, <1>2, Zenon DEF Register, Main, IInv, TypeOK, Installing, Looping, Ending, statics, history
<1>4. Placed'
  BY <1>1 DEF Register, Main, IInv, Placed, Installing, Looping, statics, history
<1>5. Caused' /\ OnlyThisRun'
  BY <1>1, <1>2 DEF Register, Main, IInv, Caused, OnlyThisRun, Looping, statics, history
<1>6. Saved' /\ ErrnoIsMains'
  BY <1>1 DEF Register, Main, IInv, Saved, ErrnoIsMains, statics, history
<1>7. Awake'
  BY <1>1 DEF Register, Main, IInv, Awake, Woken, Waiting, statics, history
<1> QED BY <1>3, <1>4, <1>5, <1>6, <1>7 DEF IInv

\* The steps that only go on.
LEMMA LoopIInv == IInv /\ (Installed \/ Again \/ WaitReadable \/ WaitOther) => IInv'
<1> SUFFICES ASSUME IInv, Installed \/ Again \/ WaitReadable \/ WaitOther PROVE IInv'
    OBVIOUS
<1> USE DEF Installed, Again, WaitReadable, WaitOther, Main, statics, history
<1>1. /\ ~Interrupted /\ frames = <<>> /\ DOMAIN frames = {}
      /\ ~Interrupted' /\ frames' = <<>> /\ DOMAIN frames' = {}
  BY MainFacts
<1>2. TypeOK'
  BY <1>1, SignalAssumption, Zenon DEF IInv, TypeOK, Installing, Looping, Ending
<1>3. Placed'
  BY <1>1 DEF IInv, Placed, Installing, Looping
<1>4. Caused' /\ OnlyThisRun'
  BY <1>1 DEF IInv, Caused, OnlyThisRun, Looping
<1>5. Saved' /\ ErrnoIsMains'
  BY <1>1 DEF IInv, Saved, ErrnoIsMains
<1>6. Awake'
  BY <1>1 DEF IInv, Awake, Woken, Waiting
<1> QED BY <1>2, <1>3, <1>4, <1>5, <1>6 DEF IInv

\* The pipe is emptied: a request may be left without a byte until its flag is taken.
LEMMA DrainIInv == IInv /\ Drain => IInv'
<1> SUFFICES ASSUME IInv, Drain PROVE IInv'
    OBVIOUS
<1>1. /\ ~Interrupted /\ frames = <<>> /\ DOMAIN frames = {}
      /\ ~Interrupted' /\ frames' = <<>> /\ DOMAIN frames' = {}
  BY MainFacts DEF Drain
<1>2. TypeOK'
  <2>1. pipe' \in 0 .. PipeCapacity /\ errno' \in Errno
    BY SignalAssumption DEF Drain, IInv, TypeOK, Errno
  <2> QED BY <1>1, <2>1
          DEF Drain, Main, IInv, TypeOK, Installing, Looping, Ending, statics, history
<1>3. Placed'
  BY <1>1 DEF Drain, Main, IInv, Placed, Installing, Looping, statics, history
<1>4. Caused' /\ OnlyThisRun'
  BY <1>1 DEF Drain, Main, IInv, Caused, OnlyThisRun, Looping, statics, history
<1>5. Saved' /\ ErrnoIsMains'
  BY <1>1 DEF Drain, Main, IInv, Saved, ErrnoIsMains, statics, history
<1>6. Awake'
  BY <1>1 DEF Drain, Main, IInv, Awake, Woken, Waiting, statics, history
<1> QED BY <1>2, <1>3, <1>4, <1>5, <1>6 DEF IInv

\* A flag is taken: it was set in this run, and what is set after it comes with a byte.
LEMMA SwapIInv ==
    ASSUME IInv, NEW step, NEW flag \in Flags, NEW next, Swap(step, flag, next),
           \/ step = "swap_shutdown" /\ flag = "shutdown" /\ next = "swap_dump"
           \/ step = "swap_dump" /\ flag = "dump" /\ next = "broadcast"
    PROVE  IInv'
<1> USE DEF Swap, history
<1>1. /\ pc = step /\ pc' = next
      /\ ~Interrupted /\ frames = <<>> /\ DOMAIN frames = {}
      /\ ~Interrupted' /\ frames' = <<>> /\ DOMAIN frames' = {}
  BY MainFacts
<1>2. /\ requested' \in [Flags -> BOOLEAN] /\ reactor' \in [Flags -> BOOLEAN]
      /\ ~requested'[flag] /\ \A f \in Flags \ {flag} : requested'[f] = requested[f]
      /\ \A f \in Flags : reactor'[f] => reactor[f] \/ requested[f]
  BY DEF IInv, TypeOK
<1>3. TypeOK'
  BY <1>1, <1>2 DEF IInv, TypeOK, Installing, Looping, Ending
<1>4. Placed'
  BY <1>1 DEF IInv, Placed, Installing, Looping
<1>5. Caused' /\ OnlyThisRun'
  BY <1>1, <1>2 DEF IInv, Caused, OnlyThisRun, Looping
<1>6. Saved' /\ ErrnoIsMains'
  BY <1>1 DEF IInv, Saved, ErrnoIsMains
<1>7. Awake'
  BY <1>1, <1>2 DEF IInv, Awake, Woken, Waiting, Flags
<1> QED BY <1>3, <1>4, <1>5, <1>6, <1>7 DEF IInv

\* A pending dump goes out.
LEMMA BroadcastIInv == IInv /\ Broadcast => IInv'
<1> SUFFICES ASSUME IInv, Broadcast PROVE IInv'
    OBVIOUS
<1>1. /\ ~Interrupted /\ frames = <<>> /\ DOMAIN frames = {}
      /\ ~Interrupted' /\ frames' = <<>> /\ DOMAIN frames' = {}
  BY MainFacts DEF Broadcast
<1>2. TypeOK'
  <2>1. dumps' \in Nat /\ reactor' \in [Flags -> BOOLEAN]
    BY DEF Broadcast, IInv, TypeOK, Flags
  <2> QED BY <1>1, <2>1 DEF Broadcast, Main, IInv, TypeOK, Installing, Looping, Ending, statics
<1>3. Placed'
  BY <1>1 DEF Broadcast, Main, IInv, Placed, Installing, Looping, statics, history
<1>4. Caused' /\ OnlyThisRun'
  BY <1>1 DEF Broadcast, Main, IInv, Caused, OnlyThisRun, Looping, statics, history
<1>5. Saved' /\ ErrnoIsMains'
  BY <1>1 DEF Broadcast, Main, IInv, Saved, ErrnoIsMains, statics, history
<1>6. Awake'
  BY <1>1 DEF Broadcast, Main, IInv, Awake, Woken, Waiting, statics, history
<1> QED BY <1>2, <1>3, <1>4, <1>5, <1>6 DEF IInv

\* The handlers are restored, the write end is unpublished and both ends are closed, in that order.
LEMMA DropIInv ==
    ASSUME IInv,
           \/ RestoreAt("uninstall") \/ InstallFailed
           \/ RestoreAt("restore") \/ Unpublish \/ CloseWrite \/ Unregister
    PROVE  IInv'
<1> USE DEF InstallFailed, RestoreAt, Unpublish, CloseWrite, Unregister, Main, statics, history
<1>1. /\ ~Interrupted /\ frames = <<>> /\ DOMAIN frames = {}
      /\ ~Interrupted' /\ frames' = <<>> /\ DOMAIN frames' = {}
  BY MainFacts, Zenon
<1>2. TypeOK'
  BY <1>1, SignalAssumption, Zenon DEF IInv, TypeOK, Installing, Looping, Ending
<1>3. Placed'
  <2>1. CASE RestoreAt("uninstall") \/ RestoreAt("restore")
    BY <1>1, <2>1, Zenon DEF IInv, Placed, Installing, Looping
  <2>2. CASE InstallFailed \/ Unpublish
    BY <1>1, <2>2 DEF IInv, Placed, Installing, Looping
  <2>3. CASE CloseWrite \/ Unregister
    BY <1>1, <2>3 DEF IInv, Placed, Installing, Looping
  <2> QED BY <2>1, <2>2, <2>3, Zenon
<1>4. Caused' /\ OnlyThisRun'
  BY <1>1, Zenon DEF IInv, Caused, OnlyThisRun, Looping
<1>5. Saved' /\ ErrnoIsMains'
  BY <1>1, Zenon DEF IInv, Saved, ErrnoIsMains
<1>6. Awake'
  BY <1>1, Zenon DEF IInv, Awake, Woken, Waiting
<1> QED BY <1>2, <1>3, <1>4, <1>5, <1>6 DEF IInv

-----------------------------------------------------------------------------
\* A signal arrives: its handler is above the ones it interrupts.
LEMMA DeliverIInv ==
    ASSUME IInv, NEW signum \in Signals, Deliver(signum)
    PROVE  IInv'
<1> USE DEF Deliver, statics
<1> DEFINE frame == [signum |-> signum, at |-> "flag", saved |-> errno]
<1>1. frames \in Seq(Frame) /\ frame \in Frame /\ frames' = Append(frames, frame)
  BY DEF IInv, TypeOK, Frame
<1>2. /\ frames' \in Seq(Frame) /\ Len(frames) \in Nat /\ Len(frames') = Len(frames) + 1
      /\ DOMAIN frames = 1 .. Len(frames) /\ DOMAIN frames' = 1 .. (Len(frames) + 1)
      /\ frames'[Len(frames) + 1] = frame
      /\ \A i \in 1 .. Len(frames) : frames'[i] = frames[i]
  BY <1>1, AppendProperties
<1> HIDE DEF frame
<1>3. TypeOK'
  <2>1. signals' \in 0 .. MaxSignals
    BY SignalAssumption DEF IInv, TypeOK
  <2> QED BY <1>2, <2>1 DEF IInv, TypeOK, Installing, Looping, Ending
<1>4. Placed'
  BY DEF IInv, Placed
<1>5. Caused'
  <2>1. frame.signum = signum
    BY DEF frame
  <2>2. \A i \in DOMAIN frames' : frames'[i].signum \in delivered'
    BY <1>2, <2>1 DEF IInv, Caused
  <2> QED BY <2>2 DEF IInv, Caused
<1>6. OnlyThisRun'
  BY DEF IInv, OnlyThisRun
<1>7. Saved' /\ ErrnoIsMains'
  <2>1. frames' # <<>>
    BY <1>2
  <2>2. CASE frames = <<>>
    BY <1>2, <2>1, <2>2 DEF IInv, Saved, ErrnoIsMains, Interrupted, frame
  <2>3. CASE frames # <<>>
    <3>1. 1 \in 1 .. Len(frames)
      BY <1>1, <1>2, <2>3, EmptySeq
    <3> QED BY <1>2, <2>1, <2>3, <3>1 DEF IInv, Saved, ErrnoIsMains, Interrupted
  <2> QED BY <2>2, <2>3
<1>8. Awake'
  BY <1>2 DEF IInv, Awake, Woken
<1> QED BY <1>3, <1>4, <1>5, <1>6, <1>7, <1>8 DEF IInv

\* One step of the innermost handler: every other handler stays where it is.
LEMMA AtFacts ==
    ASSUME frames \in Seq(Frame), NEW step, NEW next \in {"load", "write", "return"}, At(step, next)
    PROVE  /\ frames' \in Seq(Frame) /\ Interrupted /\ Interrupted'
           /\ DOMAIN frames' = DOMAIN frames /\ Len(frames) \in DOMAIN frames
           /\ Top.at = step /\ frames'[Len(frames)].at = next
           /\ \A i \in DOMAIN frames :
                 /\ frames'[i].signum = frames[i].signum /\ frames'[i].saved = frames[i].saved
                 /\ i # Len(frames) => frames'[i].at = frames[i].at
<1>1. /\ Interrupted /\ Top.at = step
      /\ frames' = [frames EXCEPT ![Len(frames)].at = next]
  BY DEF At
<1>2. Len(frames) \in Nat \ {0} /\ DOMAIN frames = 1 .. Len(frames) /\ Top \in Frame
  BY <1>1, TopFacts
<1>3. \A i \in DOMAIN frames : frames[i] \in Frame
  BY <1>2, ElementOfSeq
<1>4. DOMAIN frames' = DOMAIN frames /\ frames' \in Seq(Frame)
  BY <1>1, <1>2, <1>3 DEF Frame
<1>5. \A i \in DOMAIN frames :
         /\ frames'[i].signum = frames[i].signum /\ frames'[i].saved = frames[i].saved
         /\ frames'[i].at = IF i = Len(frames) THEN next ELSE frames[i].at
  BY <1>1, <1>2, <1>3 DEF Frame
<1>6. frames' # <<>>
  BY <1>2, <1>4, EmptySeq
<1> QED BY <1>1, <1>2, <1>4, <1>5, <1>6 DEF Interrupted

\* What a step of the innermost handler keeps, whatever the step.
LEMMA AtKeeps ==
    ASSUME IInv, NEW step, NEW next \in {"load", "write", "return"}, At(step, next)
    PROVE  /\ frames' \in Seq(Frame) /\ Placed' /\ OnlyThisRun' /\ Saved' /\ ErrnoIsMains'
           /\ \A i \in DOMAIN frames' : frames'[i].signum \in delivered'
<1>1. frames \in Seq(Frame) /\ UNCHANGED <<pc, handled, WRITE_FD, open, reactor, delivered>>
  BY DEF IInv, TypeOK, At, history
<1>2. Placed'
  BY <1>1, AtFacts DEF IInv, Placed
<1>3. OnlyThisRun'
  BY <1>1 DEF IInv, OnlyThisRun
<1>4. Saved' /\ ErrnoIsMains'
  <2>1. 1 \in DOMAIN frames
    BY <1>1, AtFacts, TopFacts
  <2> QED BY <1>1, <2>1, AtFacts DEF IInv, Saved, ErrnoIsMains
<1>5. \A i \in DOMAIN frames' : frames'[i].signum \in delivered'
  BY <1>1, AtFacts DEF IInv, Caused
<1> QED BY <1>1, <1>2, <1>3, <1>4, <1>5, AtFacts

\* on_signal sets its flag and goes on to the write.
LEMMA OnSignalFlagIInv == IInv /\ OnSignalFlag => IInv'
<1> SUFFICES ASSUME IInv, OnSignalFlag PROVE IInv'
    OBVIOUS
<1> DEFINE flag == Flag(Top.signum)
<1>1. /\ At("flag", "load") /\ requested' = [requested EXCEPT ![flag] = TRUE]
      /\ UNCHANGED <<pc, handled, WRITE_FD, open, reactor, history, pipe, errno>>
  BY DEF OnSignalFlag, At
<1>2. frames \in Seq(Frame) /\ Interrupted
  BY <1>1 DEF IInv, TypeOK, At
<1>3. flag \in Flags /\ Top.signum \in delivered
  <2>1. Len(frames) \in DOMAIN frames /\ Top.signum \in Signals
    BY <1>2, TopFacts
  <2> QED BY <2>1, FlagType DEF IInv, Caused, Top
<1>4. /\ requested' \in [Flags -> BOOLEAN]
      /\ \A f \in Flags : requested'[f] => requested[f] \/ f = flag
  BY <1>1, <1>3 DEF IInv, TypeOK
<1>5. TypeOK'
  BY <1>1, <1>4, AtKeeps DEF IInv, TypeOK, history
<1>6. Caused'
  <2>1. \A f \in Flags : f = flag => \E signum \in delivered : Flag(signum) = f
    BY <1>3
  <2> HIDE DEF flag
  <2> QED BY <1>1, <1>4, <2>1, AtKeeps DEF IInv, Caused, history
<1>7. Awake'
  <2>1. \E i \in DOMAIN frames' : frames'[i].at \in {"load", "write"}
    BY <1>1, <1>2, AtFacts
  <2> QED BY <2>1 DEF Awake, Woken
<1> QED BY <1>1, <1>5, <1>6, <1>7, AtKeeps DEF IInv

\* on_signal loads WRITE_FD, which is published while a handler runs.
LEMMA OnSignalLoadIInv == IInv /\ OnSignalLoad => IInv'
<1> SUFFICES ASSUME IInv, OnSignalLoad PROVE IInv'
    OBVIOUS
<1>1. WRITE_FD /\ frames \in Seq(Frame)
  BY DEF OnSignalLoad, At, IInv, TypeOK, Placed
<1>2. /\ At("load", "write")
      /\ UNCHANGED <<pc, handled, WRITE_FD, open, reactor, history, requested, pipe, errno>>
  BY <1>1 DEF OnSignalLoad, At
<1>3. TypeOK' /\ Caused'
  BY <1>2, AtKeeps DEF IInv, TypeOK, Caused, history
<1>4. Awake'
  <2>1. \E i \in DOMAIN frames' : frames'[i].at \in {"load", "write"}
    BY <1>1, <1>2, AtFacts
  <2> QED BY <2>1 DEF Awake, Woken
<1> QED BY <1>2, <1>3, <1>4, AtKeeps DEF IInv

\* on_signal writes its byte; the pipe that refuses one has one.
LEMMA OnSignalWriteIInv == IInv /\ OnSignalWrite => IInv'
<1> SUFFICES ASSUME IInv, OnSignalWrite PROVE IInv'
    OBVIOUS
<1>1. /\ At("write", "return") /\ frames \in Seq(Frame)
      /\ UNCHANGED <<pc, handled, WRITE_FD, open, reactor, history, requested>>
  BY DEF OnSignalWrite, At, IInv, TypeOK
<1>2. /\ pipe' \in 0 .. PipeCapacity /\ errno' \in Errno
      /\ "read" \in open => pipe' > 0
  BY SignalAssumption DEF OnSignalWrite, IInv, TypeOK, Errno
<1>3. TypeOK' /\ Caused'
  BY <1>1, <1>2, AtKeeps DEF IInv, TypeOK, Caused, history
<1>4. Awake'
  BY <1>1, <1>2 DEF IInv, Placed, Awake, Woken, Waiting, Installing, Looping
<1> QED BY <1>1, <1>3, <1>4, AtKeeps DEF IInv

\* on_signal returns to what it interrupted, with the errno it found.
LEMMA OnSignalReturnIInv == IInv /\ OnSignalReturn => IInv'
<1> SUFFICES ASSUME IInv, OnSignalReturn PROVE IInv'
    OBVIOUS
<1> DEFINE n == Len(frames)
<1>1. /\ frames \in Seq(Frame) /\ Interrupted /\ Top.at = "return"
      /\ frames' = Front(frames) /\ errno' = Top.saved
      /\ UNCHANGED <<pc, handled, WRITE_FD, requested, pipe, open, reactor, history>>
  BY DEF OnSignalReturn, IInv, TypeOK, statics
<1>2. n \in Nat \ {0} /\ DOMAIN frames = 1 .. n /\ errno' \in Errno
  BY <1>1, TopFacts
<1>3. /\ frames' \in Seq(Frame) /\ Len(frames') = n - 1 /\ DOMAIN frames' = 1 .. (n - 1)
      /\ \A i \in 1 .. (n - 1) : frames'[i] = frames[i]
  BY <1>1, <1>2, SubSeqProperties DEF Front
<1>4. TypeOK'
  BY <1>1, <1>2, <1>3 DEF IInv, TypeOK, history
<1>5. Placed'
  BY <1>1 DEF IInv, Placed
<1>6. Caused' /\ OnlyThisRun'
  BY <1>1, <1>2, <1>3 DEF IInv, Caused, OnlyThisRun, history
<1>7. Saved' /\ ErrnoIsMains'
  <2>1. CASE n = 1
    <3>1. frames' = <<>>
      BY <1>3, <2>1, EmptySeq
    <3> QED BY <1>1, <2>1, <3>1 DEF IInv, Saved, ErrnoIsMains, Interrupted, Top
  <2>2. CASE n # 1
    <3>1. 1 \in 1 .. (n - 1) /\ frames' # <<>>
      BY <1>2, <1>3, <2>2, EmptySeq
    <3> QED BY <1>1, <1>3, <3>1 DEF IInv, Saved, ErrnoIsMains, Interrupted
  <2> QED BY <2>1, <2>2
<1>8. Awake'
  <2>1. \A i \in DOMAIN frames : frames[i].at \in {"load", "write"} => i \in DOMAIN frames'
    BY <1>1, <1>2, <1>3 DEF Top
  <2>2. \A i \in DOMAIN frames' : frames'[i] = frames[i]
    BY <1>3
  <2> QED BY <1>1, <2>1, <2>2 DEF IInv, Awake, Woken
<1> QED BY <1>4, <1>5, <1>6, <1>7, <1>8 DEF IInv

-----------------------------------------------------------------------------
\* Every step of main and of the handlers keeps the invariant.
LEMMA NextIInv == IInv /\ [Next]_vars => IInv'
<1> SUFFICES ASSUME IInv, [Next]_vars PROVE IInv'
    OBVIOUS
<1>1. CASE MainStep
  <2>1. "shutdown" \in Flags /\ "dump" \in Flags
    BY DEF Flags
  <2> QED BY <1>1, <2>1, OpenIInv, ClearFlagsIInv, InstallIInv, RegisterIInv, LoopIInv, DrainIInv,
             SwapIInv, BroadcastIInv, DropIInv DEF MainStep
<1>2. CASE HandlerStep
  BY <1>2, OnSignalFlagIInv, OnSignalLoadIInv, OnSignalWriteIInv, OnSignalReturnIInv DEF HandlerStep
<1>3. CASE \E signum \in Signals : Deliver(signum)
  BY <1>3, DeliverIInv
<1>4. CASE UNCHANGED vars
  BY <1>4
         DEF vars, IInv, TypeOK, Placed, Caused, OnlyThisRun, Saved, ErrnoIsMains, Awake, Woken,
             Interrupted
<1> QED BY <1>1, <1>2, <1>3, <1>4 DEF Next, Ended

\* The invariant holds of every behaviour of the self-pipe.
THEOREM Invariant == Spec => []IInv
BY InitIInv, NextIInv, PTL DEF Spec

\* A signal is never left to the next one: whenever main goes to wait with a flag set and no
\* handler on its way to the write, the pipe has a byte (on_signal, on_readable).
THEOREM WakeupsAreNotLost == Spec => []NoLostWakeup
<1>1. IInv => NoLostWakeup
  BY DEF IInv, Awake, Woken, Waiting, NoLostWakeup
<1> QED BY <1>1, Invariant, PTL

\* Handlers and runs leave nothing behind: a handler writes to an end that is open, outside
\* Reactor::run nothing is installed, a run acts only on signals of its own, and main's errno is
\* its own (SignalGuard, on_signal).
THEOREM RunsLeaveNothing == Spec => []NothingLeftBehind
<1>1. IInv => NothingLeftBehind
  <2> SUFFICES ASSUME IInv PROVE NothingLeftBehind
      OBVIOUS
  <2>1. WriteEndOpen
    <3> SUFFICES ASSUME NEW i \in DOMAIN frames PROVE WRITE_FD /\ "write" \in open
        BY DEF WriteEndOpen
    <3>1. Interrupted
      BY DEF Interrupted
    <3> QED BY <3>1 DEF IInv, Placed
  <2>2. RestoredOutside
    BY DEF IInv, Placed, RestoredOutside, Interrupted
  <2> QED BY <2>1, <2>2 DEF IInv, NothingLeftBehind
<1> QED BY <1>1, Invariant, PTL

=============================================================================
