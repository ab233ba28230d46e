------------------------ MODULE InstallEngineProofs ------------------------
(***************************************************************************)
(* Proofs about InstallEngine for every number of operations N and every   *)
(* choice HasUndo of those that hold something.  IInv is inductive; the    *)
(* safety properties follow from it.                                       *)
(***************************************************************************)
EXTENDS InstallEngine, TLAPS

USE NAssumption, HasUndoAssumption

-----------------------------------------------------------------------------
(* Writing one event.                                                      *)

\* Appending leaves what is there and adds one element at a new last place.
LEMMA AppendFacts ==
  ASSUME NEW S, NEW s \in Seq(S), NEW e \in S, NEW t, t = Append(s, e)
  PROVE  /\ t \in Seq(S)
         /\ Len(s) \in Nat /\ Len(t) = Len(s) + 1
         /\ DOMAIN s = 1..Len(s)
         /\ DOMAIN t = (DOMAIN s) \union {Len(s) + 1}
         /\ \A k \in DOMAIN s : t[k] = s[k]
         /\ t[Len(s) + 1] = e
<1>1. t \in Seq(S) /\ Len(s) \in Nat /\ Len(t) = Len(s) + 1
  OBVIOUS
<1>2. DOMAIN s = 1..Len(s) /\ DOMAIN t = 1..(Len(s) + 1)
  BY <1>1
<1>3. 1..(Len(s) + 1) = (1..Len(s)) \union {Len(s) + 1}
  BY <1>1
<1>4. \A k \in 1..Len(s) : t[k] = s[k]
  OBVIOUS
<1>5. t[Len(s) + 1] = e
  OBVIOUS
<1> QED BY <1>1, <1>2, <1>3, <1>4, <1>5

\* Emit adds one event at the end.
LEMMA EmitAppends ==
  ASSUME events \in Seq(Event), NEW kind \in EventKind, NEW op \in 0..N,
         Emit(kind, op)
  PROVE  /\ events' \in Seq(Event)
         /\ DOMAIN events' = (DOMAIN events) \union {Len(events) + 1}
         /\ \A k \in DOMAIN events : events'[k] = events[k]
         /\ events'[Len(events) + 1] = Ev(kind, op)
         /\ events'[Len(events) + 1].kind = kind
<1>1. Ev(kind, op) \in Event
  BY DEF Ev, Event
<1>2. events' = Append(events, Ev(kind, op))
  BY DEF Emit
<1>3. Ev(kind, op).kind = kind
  BY DEF Ev
<1> QED BY <1>1, <1>2, <1>3, AppendFacts

\* What was emitted stays emitted, and the new event is.
LEMMA EmitKeeps ==
  ASSUME events \in Seq(Event), NEW kind \in EventKind, NEW op \in 0..N,
         Emit(kind, op)
  PROVE  /\ \A ev : Emitted(ev) => Emitted(ev)'
         /\ Emitted(Ev(kind, op))'
<1>1. ASSUME NEW ev, Emitted(ev) PROVE Emitted(ev)'
  <2>1. PICK k \in DOMAIN events : events[k] = ev
    BY <1>1 DEF Emitted
  <2>2. k \in DOMAIN events' /\ events'[k] = ev
    BY <2>1, EmitAppends
  <2> QED BY <2>2 DEF Emitted
<1>2. Emitted(Ev(kind, op))'
  <2>1. /\ Len(events) + 1 \in DOMAIN events'
        /\ events'[Len(events) + 1] = Ev(kind, op)
    BY EmitAppends
  <2> QED BY <2>1 DEF Emitted, Ev
<1> QED BY <1>1, <1>2

\* An event that is no verdict adds none.
LEMMA NoVerdictAdded ==
  ASSUME events \in Seq(Event), NEW kind \in EventKind, NEW op \in 0..N,
         Emit(kind, op), kind \notin {"Failed", "Completed"}
  PROVE  /\ Verdicts' = Verdicts
         /\ \A k \in Verdicts : events'[k] = events[k]
  BY EmitAppends DEF Verdicts

\* The first verdict is the only one.
LEMMA FirstVerdict ==
  ASSUME events \in Seq(Event), NEW kind \in EventKind, NEW op \in 0..N,
         Emit(kind, op), kind \in {"Failed", "Completed"}, Verdicts = {}
  PROVE  /\ Verdicts' = {Len(events) + 1}
         /\ events'[Len(events) + 1].kind = kind
  BY EmitAppends DEF Verdicts

-----------------------------------------------------------------------------
(* The invariant is inductive.                                             *)

\* A service that has just been started satisfies the invariant.
LEMMA InitIInv == Init => IInv
<1> SUFFICES ASSUME Init PROVE IInv
  OBVIOUS
<1>1. completed \in Seq(Ops) /\ Len(completed) = 0 /\ DOMAIN completed = {}
  BY DEF Init
<1>2. events \in Seq(Event) /\ DOMAIN events = {}
  BY DEF Init
<1>3. TypeOK
  <2>1. undoAt \in 0..N
    BY DEF Init
  <2>2. pc \in ControlPoint
    BY DEF Init, ControlPoint
  <2> QED BY <1>1, <1>2, <2>1, <2>2, Zenon DEF Init, TypeOK
<1>4. Verdicts = {}
  BY <1>2 DEF Verdicts
<1> QED
  BY <1>1, <1>3, <1>4 DEF Init, IInv, Admission, Excluded, InOrder, Acquired,
     Unwinding, Reporting, Ended, Performing, Releasing, Before

-----------------------------------------------------------------------------
\* Steps of the main thread that write no event.

\* The steps that write no event keep it.
LEMMA QuietSteps ==
  ASSUME IInv,
         \/ ReadRequest \/ ValidateConfig \/ PreflightBinaries \/ Discover
         \/ Translate \/ CheckSchema \/ Revalidate
  PROVE  IInv'
<1>1. /\ events' = events
      /\ completed' = completed /\ undoAt' = undoAt /\ held' = held
      /\ cancelled' = cancelled /\ failed' = failed
      /\ cleanupErrors' = cleanupErrors
  BY DEF ReadRequest, ValidateConfig, PreflightBinaries, Discover, Translate,
         CheckSchema, Revalidate, Check, Unworked
<1>2. Verdicts' = Verdicts
  BY <1>1 DEF Verdicts
<1>3. /\ TypeOK' /\ Admission'
      /\ pc \in Before
      /\ pc' \in Before \union {"loop", "exit"}
      /\ exit = "running" /\ exit' \in {"running", "usage"}
      /\ exit' # "running" <=> pc' = "exit"
  BY DEF IInv, TypeOK, ReadRequest, ValidateConfig, PreflightBinaries, Discover, Translate,
         CheckSchema, Revalidate, Check, Admission, Excluded, Defect, Before, Unworked, pipes,
         ControlPoint, EmitPoint, Running, Performing, Releasing
<1>4. /\ completed = << >> /\ undoAt = 0 /\ held = {}
      /\ ~failed /\ ~cancelled /\ cleanupErrors = {}
  BY <1>3 DEF IInv, Admission
<1>5. InOrder' /\ Acquired' /\ Unwinding'
  BY <1>1, <1>3, <1>4 DEF IInv, InOrder, Acquired, Unwinding, Before, Performing, Releasing
<1>6. Reporting'
  BY <1>1, <1>2, <1>3, <1>4 DEF IInv, Reporting, Verdicts
<1>7. Ended'
  BY <1>1, <1>3, <1>4 DEF Ended
<1> QED
  BY <1>3, <1>5, <1>6, <1>7 DEF IInv

-----------------------------------------------------------------------------
\* Before the loop: the two emissions.

\* A pre-check's Failed event is the first verdict.
LEMMA EmitRejectStep == IInv /\ EmitReject => IInv'
<1> SUFFICES ASSUME IInv, EmitReject PROVE IInv'
  OBVIOUS
<1>1. events \in Seq(Event) /\ Emit("Failed", 0) /\ "Failed" \in EventKind
      /\ 0 \in 0..N
  BY DEF IInv, TypeOK, EmitReject, EventKind
<1>2. TypeOK'
  BY <1>1, EmitAppends DEF IInv, TypeOK, EmitReject, Unworked, pipes, ControlPoint
<1>3. /\ completed = << >> /\ undoAt = 0 /\ held = {}
      /\ ~failed /\ ~cancelled /\ cleanupErrors = {}
      /\ exit = "running"
  BY DEF IInv, Admission, EmitReject, Before, Running
<1>4. Admission' /\ InOrder' /\ Acquired' /\ Unwinding'
  BY <1>3 DEF IInv, Admission, Excluded, InOrder, Acquired, Unwinding, EmitReject, Unworked,
              Before, Performing, Releasing
<1>5. Verdicts = {}
  BY <1>3 DEF IInv, Reporting
<1>6. Reporting'
  BY <1>1, <1>3, <1>5, FirstVerdict DEF Reporting, EmitReject, Unworked
<1>7. Ended'
  BY <1>1, <1>3 DEF Ended, EmitReject, Unworked
<1> QED
  BY <1>2, <1>4, <1>6, <1>7 DEF IInv

\* Started is no verdict and nothing is held yet.
LEMMA EmitStartedStep == IInv /\ EmitStarted => IInv'
<1> SUFFICES ASSUME IInv, EmitStarted PROVE IInv'
  OBVIOUS
<1>1. events \in Seq(Event) /\ Emit("Started", 0) /\ "Started" \in EventKind
      /\ 0 \in 0..N
  BY DEF IInv, TypeOK, EmitStarted, EventKind
<1>2. TypeOK'
  BY <1>1, EmitAppends DEF IInv, TypeOK, EmitStarted, Unworked, pipes, ControlPoint
<1>3. /\ completed = << >> /\ undoAt = 0 /\ held = {}
      /\ ~failed /\ ~cancelled /\ cleanupErrors = {}
      /\ exit = "running"
  BY DEF IInv, Admission, EmitStarted, Before, Running
<1>4. Admission' /\ InOrder' /\ Acquired' /\ Unwinding'
  BY <1>3 DEF IInv, Admission, Excluded, InOrder, Acquired, Unwinding, EmitStarted, Unworked,
              Before, Performing, Releasing
<1>5. Reporting' /\ Ended'
  BY <1>1, <1>3, NoVerdictAdded DEF IInv, Reporting, EmitStarted, Unworked, Ended
<1> QED
  BY <1>2, <1>4, <1>5 DEF IInv

-----------------------------------------------------------------------------
\* The operation loop.

\* Leaving the loop puts the unwind at the last completed operation.
LEMMA NextOperationStep == IInv /\ NextOperation => IInv'
<1> SUFFICES ASSUME IInv, NextOperation PROVE IInv'
  OBVIOUS
<1>1. /\ pc = "loop" /\ exit = "running" /\ events' = events /\ exit' = exit
      /\ completed' = completed /\ held' = held /\ defects' = defects
      /\ failed' = failed /\ cleanupErrors' = cleanupErrors
      /\ pc' \in {"unwind", "step"}
  BY DEF NextOperation, work, Running
<1>2. /\ completed \in Seq(Ops) /\ Len(completed) \in 0..N
      /\ DOMAIN completed = 1..Len(completed)
  BY DEF IInv, TypeOK, InOrder
<1>3. TypeOK'
  BY <1>2 DEF IInv, TypeOK, NextOperation, work, pipes, ControlPoint, EmitPoint
<1>4. Admission' /\ InOrder'
  BY <1>1 DEF IInv, TypeOK, Admission, Excluded, InOrder, Performing, Releasing, Before
<1>5. Acquired' /\ Unwinding'
  <2>1. /\ ~failed /\ ~cancelled /\ cleanupErrors = {}
        /\ held = (1..Len(completed)) \intersect HasUndo
    BY <1>1 DEF IInv, Acquired, Performing
  <2>2. CASE pc' = "step"
    BY <1>1, <1>2, <2>1, <2>2
    DEF NextOperation, Acquired, Unwinding, Releasing, Current
  <2>3. CASE pc' = "unwind"
    <3>1. undoAt' = Len(completed) /\ (cancelled' <=> Len(completed) < N)
      BY <1>1, <1>2, <2>1, <2>3 DEF NextOperation, Current
    <3> QED
      BY <1>1, <1>2, <2>1, <2>3, <3>1 DEF Acquired, Unwinding, Performing
  <2> QED BY <1>1, <2>2, <2>3
<1>6. Reporting' /\ Ended'
  BY <1>1 DEF IInv, Reporting, Ended, Verdicts, Emitted, Current, Acquired, Performing
<1> QED
  BY <1>3, <1>4, <1>5, <1>6 DEF IInv

\* Step is no verdict.
LEMMA EmitStepStep == IInv /\ EmitStep => IInv'
<1> SUFFICES ASSUME IInv, EmitStep PROVE IInv'
  OBVIOUS
<1>1. /\ pc = "step" /\ exit = "running" /\ exit' = exit /\ pc' = "perform"
      /\ completed' = completed /\ held' = held /\ defects' = defects
      /\ undoAt' = undoAt /\ cancelled' = cancelled
      /\ failed' = failed /\ cleanupErrors' = cleanupErrors
  BY DEF EmitStep, Unworked, Running
<1>2. /\ completed \in Seq(Ops) /\ Len(completed) \in 0..N
      /\ ~failed /\ ~cancelled /\ cleanupErrors = {}
      /\ Current \in 1..N
  BY <1>1 DEF IInv, TypeOK, InOrder, Acquired, Performing, Current
<1>3. events \in Seq(Event) /\ Emit("Step", Current) /\ "Step" \in EventKind
      /\ Current \in 0..N
  BY <1>2 DEF IInv, TypeOK, EmitStep, EventKind
<1>4. TypeOK'
  <2>1. events' \in Seq(Event)
    BY <1>3, EmitAppends
  <2> QED
    BY <2>1 DEF IInv, TypeOK, EmitStep, Unworked, pipes, ControlPoint
<1>5. Admission' /\ InOrder' /\ Acquired' /\ Unwinding'
  BY <1>1 DEF IInv, TypeOK, Admission, Excluded, InOrder, Acquired, Unwinding,
              Performing, Releasing, Before
<1>6. Reporting' /\ Ended'
  BY <1>1, <1>2, <1>3, NoVerdictAdded DEF IInv, Reporting, Ended
<1> QED
  BY <1>4, <1>5, <1>6 DEF IInv

\* A performed operation is the next one in order and is held.
LEMMA PerformOkStep == IInv /\ PerformOk => IInv'
<1> SUFFICES ASSUME IInv, PerformOk PROVE IInv'
  OBVIOUS
<1>1. /\ pc = "perform" /\ exit = "running" /\ exit' = exit /\ pc' = "loop"
      /\ completed' = Append(completed, Current) /\ defects' = defects
      /\ held' = held \union ({Current} \intersect HasUndo)
      /\ undoAt' = undoAt /\ cancelled' = cancelled /\ events' = events
      /\ failed' = failed /\ cleanupErrors' = cleanupErrors
  BY DEF PerformOk, flags, Running
<1>2. /\ completed \in Seq(Ops) /\ Len(completed) \in 0..N
      /\ Len(completed) < N /\ Current = Len(completed) + 1 /\ Current \in Ops
      /\ ~failed /\ ~cancelled /\ cleanupErrors = {}
      /\ held = (1..Len(completed)) \intersect HasUndo
  BY <1>1 DEF IInv, TypeOK, InOrder, Acquired, Performing, Current, Ops
<1>3. /\ completed' \in Seq(Ops)
      /\ Len(completed') = Len(completed) + 1
      /\ DOMAIN completed' = (DOMAIN completed) \union {Current}
      /\ \A j \in DOMAIN completed : completed'[j] = completed[j]
      /\ completed'[Current] = Current
  BY <1>1, <1>2, AppendFacts
<1>4. TypeOK'
  BY <1>1, <1>2, <1>3 DEF IInv, TypeOK, PerformOk, flags, pipes, ControlPoint
<1>5. Admission'
  BY <1>1 DEF IInv, TypeOK, Admission, Excluded, Performing, Releasing, Before
<1>6. InOrder'
  BY <1>2, <1>3 DEF IInv, InOrder
<1>7. held' = (1..Len(completed')) \intersect HasUndo
  <2>1. 1..Len(completed') = (1..Len(completed)) \union {Current}
    BY <1>2, <1>3
  <2> QED BY <1>1, <1>2, <2>1
<1>8. Acquired' /\ Unwinding'
  BY <1>1, <1>2, <1>7 DEF Acquired, Unwinding, Releasing
<1>9. Reporting' /\ Ended'
  BY <1>1, <1>2 DEF IInv, Reporting, Ended, Verdicts
<1> QED
  BY <1>4, <1>5, <1>6, <1>8, <1>9 DEF IInv

\* A failing operation changes neither what is completed nor what is held.
LEMMA PerformErrStep == IInv /\ PerformErr => IInv'
<1> SUFFICES ASSUME IInv, PerformErr PROVE IInv'
  OBVIOUS
<1>1. /\ pc = "perform" /\ exit = "running" /\ exit' = exit /\ pc' = "report"
      /\ completed' = completed /\ held' = held /\ defects' = defects
      /\ undoAt' = undoAt /\ cancelled' = cancelled /\ events' = events
      /\ failed' = failed /\ cleanupErrors' = cleanupErrors
  BY DEF PerformErr, Unworked, Running
<1>2. TypeOK'
  BY DEF IInv, TypeOK, PerformErr, Unworked, pipes, ControlPoint, EmitPoint
<1>3. Admission' /\ InOrder' /\ Acquired' /\ Unwinding'
  BY <1>1 DEF IInv, TypeOK, Admission, Excluded, InOrder, Acquired, Unwinding,
              Performing, Releasing, Before
<1>4. Reporting' /\ Ended'
  BY <1>1 DEF IInv, Reporting, Ended, Verdicts, Emitted, Acquired, Performing
<1> QED
  BY <1>2, <1>3, <1>4 DEF IInv

\* The first Failed of execute names the operation and sets failed.
LEMMA EmitFailedStep == IInv /\ EmitFailed => IInv'
<1> SUFFICES ASSUME IInv, EmitFailed PROVE IInv'
  OBVIOUS
<1>1. /\ pc = "report" /\ exit = "running" /\ exit' = exit /\ pc' = "unwind"
      /\ completed' = completed /\ held' = held /\ defects' = defects
      /\ undoAt' = Len(completed) /\ cancelled' = cancelled
      /\ failed' = TRUE /\ cleanupErrors' = cleanupErrors
  BY DEF EmitFailed, work, Running
<1>2. /\ completed \in Seq(Ops) /\ Len(completed) \in 0..N
      /\ Len(completed) < N /\ Current = Len(completed) + 1
      /\ ~failed /\ ~cancelled /\ cleanupErrors = {}
      /\ held = (1..Len(completed)) \intersect HasUndo
  BY <1>1 DEF IInv, TypeOK, InOrder, Acquired, Performing, Current
<1>3. /\ events \in Seq(Event) /\ Emit("Failed", Current)
      /\ "Failed" \in EventKind /\ Current \in 0..N
  BY <1>2 DEF IInv, TypeOK, EmitFailed, EventKind
<1>4. TypeOK'
  <2>1. events' \in Seq(Event)
    BY <1>3, EmitAppends
  <2> QED
    BY <1>1, <1>2, <2>1 DEF IInv, TypeOK, EmitFailed, work, pipes, ControlPoint
<1>5. Admission' /\ InOrder'
  BY <1>1 DEF IInv, TypeOK, Admission, Excluded, InOrder, Performing, Releasing,
              Before
<1>6. Acquired' /\ Unwinding'
  BY <1>1, <1>2 DEF Acquired, Unwinding, Performing
<1>7. Reporting' /\ Ended'
  <2>1. Verdicts = {}
    BY <1>1, <1>2 DEF IInv, Reporting
  <2>2. /\ Verdicts' = {Len(events) + 1}
        /\ events'[Len(events) + 1].kind = "Failed"
    BY <1>3, <2>1, FirstVerdict
  <2>3. \E k \in DOMAIN events' : events'[k] = Ev("Failed", Current)
    BY <1>3, EmitAppends
  <2>4. Emitted(Ev("Failed", Current))'
    BY <1>1, <2>3 DEF Emitted, Ev, Current
  <2> QED
    BY <1>1, <1>2, <2>2, <2>4 DEF Reporting, Ended
<1> QED
  BY <1>4, <1>5, <1>6, <1>7 DEF IInv

-----------------------------------------------------------------------------
\* The unwind and the outcome.

\* A successful undo releases the newest operation.
LEMMA UndoOkStep == IInv /\ UndoOk => IInv'
<1> SUFFICES ASSUME IInv, UndoOk PROVE IInv'
  OBVIOUS
<1>1. /\ pc = "unwind" /\ pc' = pc /\ exit = "running" /\ exit' = exit
      /\ completed' = completed /\ defects' = defects /\ events' = events
      /\ held' = held \ {completed[undoAt]} /\ undoAt' = undoAt - 1
      /\ undoAt > 0 /\ cancelled' = cancelled /\ failed' = failed
      /\ cleanupErrors' = cleanupErrors
  BY DEF UndoOk, flags, Running
<1>2. /\ completed \in Seq(Ops) /\ Len(completed) \in 0..N /\ undoAt \in 1..N
      /\ undoAt <= Len(completed) /\ completed[undoAt] = undoAt
      /\ cleanupErrors \subseteq 1..N
      /\ held = ((1..undoAt) \intersect HasUndo) \union cleanupErrors
      /\ \A op \in cleanupErrors : undoAt < op
  BY <1>1 DEF IInv, TypeOK, InOrder, Unwinding, Releasing
<1>3. TypeOK'
  BY <1>1, <1>2 DEF IInv, TypeOK, UndoOk, flags, pipes
<1>4. Admission' /\ InOrder' /\ Acquired'
  BY <1>1 DEF IInv, Admission, Excluded, InOrder, Acquired, Performing, Releasing,
              Before
<1>5. held' = ((1..undoAt') \intersect HasUndo) \union cleanupErrors'
  <2>1. \A op \in 1..N : op \in 1..(undoAt - 1) <=> op \in 1..undoAt /\ op # undoAt
    BY <1>2
  <2> QED BY <1>1, <1>2, <2>1
<1>6. Unwinding'
  BY <1>1, <1>2, <1>5 DEF IInv, Unwinding, Releasing
<1>7. Reporting' /\ Ended'
  BY <1>1 DEF IInv, Reporting, Ended, Verdicts, Emitted, Current
<1> QED
  BY <1>3, <1>4, <1>6, <1>7 DEF IInv

\* A failed undo is a cleanup error still to be warned about.
LEMMA UndoErrStep == IInv /\ UndoErr => IInv'
<1> SUFFICES ASSUME IInv, UndoErr PROVE IInv'
  OBVIOUS
<1>1. /\ pc = "unwind" /\ pc' = "warn" /\ exit = "running" /\ exit' = exit
      /\ completed' = completed /\ defects' = defects /\ events' = events
      /\ held' = held /\ undoAt' = undoAt
      /\ undoAt > 0 /\ cancelled' = cancelled /\ failed' = failed
      /\ cleanupErrors' = cleanupErrors \union {completed[undoAt]}
      /\ completed[undoAt] \in HasUndo
  BY DEF UndoErr, work, flags, Running
<1>2. /\ completed \in Seq(Ops) /\ Len(completed) \in 0..N /\ undoAt \in 1..N
      /\ undoAt <= Len(completed) /\ completed[undoAt] = undoAt
      /\ held = ((1..undoAt) \intersect HasUndo) \union cleanupErrors
      /\ \A op \in cleanupErrors : undoAt < op
  BY <1>1 DEF IInv, TypeOK, InOrder, Unwinding, Releasing
<1>3. TypeOK'
  BY <1>1, <1>2 DEF IInv, TypeOK, UndoErr, work, flags, pipes, ControlPoint, EmitPoint
<1>4. Admission' /\ InOrder' /\ Acquired'
  BY <1>1 DEF IInv, Admission, Excluded, InOrder, Acquired, Performing, Releasing,
              Before
<1>5. Unwinding'
  BY <1>1, <1>2 DEF IInv, Unwinding, Releasing
<1>6. Reporting' /\ Ended'
  BY <1>1, <1>2 DEF IInv, Reporting, Ended, Verdicts, Emitted, Current, Ev
<1> QED
  BY <1>3, <1>4, <1>5, <1>6 DEF IInv

\* The Warning is written before the unwind goes on.
LEMMA EmitWarningStep == IInv /\ EmitWarning => IInv'
<1> SUFFICES ASSUME IInv, EmitWarning PROVE IInv'
  OBVIOUS
<1>1. /\ pc = "warn" /\ pc' = "unwind" /\ exit = "running" /\ exit' = exit
      /\ completed' = completed /\ defects' = defects
      /\ held' = held /\ undoAt' = undoAt - 1
      /\ cancelled' = cancelled /\ failed' = failed
      /\ cleanupErrors' = cleanupErrors
  BY DEF EmitWarning, work, flags, Running
<1>2. /\ completed \in Seq(Ops) /\ Len(completed) \in 0..N /\ undoAt \in 1..N
      /\ undoAt <= Len(completed) /\ completed[undoAt] = undoAt
      /\ cleanupErrors \subseteq 1..N /\ undoAt \in cleanupErrors
      /\ held = ((1..undoAt) \intersect HasUndo) \union cleanupErrors
      /\ \A op \in cleanupErrors : undoAt < op \/ op = undoAt
  BY <1>1 DEF IInv, TypeOK, InOrder, Unwinding, Releasing
<1>3. events \in Seq(Event) /\ Emit("Warning", undoAt)
      /\ "Warning" \in EventKind /\ undoAt \in 0..N
  BY <1>2 DEF IInv, TypeOK, EmitWarning, EventKind
<1>4. TypeOK'
  <2>1. events' \in Seq(Event)
    BY <1>3, EmitAppends
  <2> QED
    BY <1>1, <1>2, <2>1 DEF IInv, TypeOK, EmitWarning, work, flags, pipes, ControlPoint
<1>5. Admission' /\ InOrder' /\ Acquired'
  BY <1>1 DEF IInv, Admission, Excluded, InOrder, Acquired, Performing, Releasing,
              Before
<1>6. held' = ((1..undoAt') \intersect HasUndo) \union cleanupErrors'
  <2>1. \A op \in 1..N : op \in 1..(undoAt - 1) <=> op \in 1..undoAt /\ op # undoAt
    BY <1>2
  <2> QED BY <1>1, <1>2, <2>1
<1>7. Unwinding'
  BY <1>1, <1>2, <1>6 DEF IInv, Unwinding, Releasing
<1>8. Reporting' /\ Ended'
  <2>1. /\ Verdicts' = Verdicts
        /\ \A k \in Verdicts : events'[k] = events[k]
    BY <1>3, NoVerdictAdded
  <2>2. /\ \A ev : (\E k \in DOMAIN events : events[k] = ev)
                    => \E k \in DOMAIN events' : events'[k] = ev
        /\ \E k \in DOMAIN events' : events'[k] = Ev("Warning", undoAt)
    BY <1>3, EmitAppends
  <2>3. \A ev : Emitted(ev) => Emitted(ev)'
    BY <2>2 DEF Emitted
  <2>4. Reporting /\ Ended /\ Current' = Current
    BY <1>1 DEF IInv, Current
  <2>5. Reporting'
    <3>1. \A op \in cleanupErrors' : Emitted(Ev("Warning", op))'
      <4>1. \A op \in cleanupErrors : op = undoAt \/ Emitted(Ev("Warning", op))
        BY <1>1, <2>4 DEF Reporting
      <4> QED
        BY <1>1, <2>2, <4>1 DEF Emitted, Ev
    <3>2. failed' => Emitted(Ev("Failed", Current))'
      BY <1>1, <2>2, <2>4 DEF Reporting, Emitted, Ev
    <3> QED
      BY <1>1, <2>1, <2>4, <3>1, <3>2 DEF Reporting
  <2>6. Ended'
    BY <1>1, <2>4 DEF Ended
  <2> QED
    BY <2>5, <2>6
<1> QED
  BY <1>4, <1>5, <1>7, <1>8 DEF IInv

\* An outcome without an event of its own: reported already, or Cancelled.
LEMMA FinishUnwindStep == IInv /\ FinishUnwind => IInv'
<1> SUFFICES ASSUME IInv, FinishUnwind PROVE IInv'
  OBVIOUS
<1>1. /\ pc = "unwind" /\ exit = "running" /\ undoAt = 0
      /\ completed' = completed /\ defects' = defects /\ events' = events
      /\ held' = held /\ undoAt' = undoAt
      /\ cancelled' = cancelled /\ failed' = failed
      /\ cleanupErrors' = cleanupErrors
      /\ IF failed \/ (cancelled /\ cleanupErrors = {})
           THEN pc' = "exit" /\ exit' = "failure"
           ELSE pc' = "conclude" /\ exit' = exit
  BY DEF FinishUnwind, Unworked, Running
<1>2. Len(completed) \in 0..N /\ held = cleanupErrors
  BY <1>1 DEF IInv, TypeOK, InOrder, Unwinding, Releasing
<1>3. TypeOK'
  BY <1>1 DEF IInv, TypeOK, FinishUnwind, Unworked, pipes, ControlPoint, EmitPoint
<1>4. Admission' /\ InOrder' /\ Acquired'
  BY <1>1 DEF IInv, TypeOK, Admission, Excluded, InOrder, Acquired, Performing, Releasing,
              Before
<1>5. Unwinding'
  BY <1>1, <1>2 DEF IInv, Unwinding, Releasing
<1>6. Reporting'
  BY <1>1 DEF IInv, Reporting, Verdicts, Emitted, Current, Ev
<1>7. Ended'
  <2>1. failed => Current \in 0..N /\ Emitted(Ev("Failed", Current))
    BY <1>1, <1>2 DEF IInv, Reporting, Unwinding, Releasing, Current
  <2> QED
    BY <1>1, <1>2, <2>1 DEF Ended, Emitted, Ev
<1> QED
  BY <1>3, <1>4, <1>5, <1>6, <1>7 DEF IInv

\* The last event is the only verdict, and agrees with what is held.
LEMMA ConcludeStep == IInv /\ Conclude => IInv'
<1> SUFFICES ASSUME IInv, Conclude PROVE IInv'
  OBVIOUS
<1>1. /\ pc = "conclude" /\ pc' = "exit" /\ exit = "running"
      /\ completed' = completed /\ defects' = defects
      /\ held' = held /\ undoAt' = undoAt
      /\ cancelled' = cancelled /\ failed' = failed
      /\ cleanupErrors' = cleanupErrors
  BY DEF Conclude, Unworked, Running
<1>2. /\ Len(completed) \in 0..N /\ held = cleanupErrors /\ ~failed
      /\ cleanupErrors = {} => ~cancelled /\ Len(completed) = N
      /\ events \in Seq(Event) /\ 0 \in 0..N /\ Verdicts = {}
      /\ \A op \in cleanupErrors : Emitted(Ev("Warning", op))
  <2>1. /\ ~failed /\ held = cleanupErrors /\ Len(completed) \in 0..N
        /\ cleanupErrors = {} => ~cancelled /\ Len(completed) = N
    <3>1. /\ ~failed /\ undoAt = 0 /\ (cancelled => cleanupErrors # {})
          /\ held = ((1..undoAt) \intersect HasUndo) \union cleanupErrors
          /\ (failed \/ cancelled) <=> Len(completed) < N
      BY <1>1 DEF IInv, Unwinding, Releasing
    <3>2. Len(completed) \in 0..N
      BY DEF IInv, TypeOK, InOrder
    <3>3. 1..undoAt = {}
      BY <3>1
    <3>4. held = cleanupErrors
      BY <3>1, <3>3
    <3>5. cleanupErrors = {} => ~cancelled /\ Len(completed) = N
      BY <3>1, <3>2
    <3> QED BY <3>1, <3>2, <3>4, <3>5
  <2>2. /\ Verdicts = {}
        /\ \A op \in cleanupErrors : Emitted(Ev("Warning", op))
    BY <1>1, <2>1 DEF IInv, Reporting
  <2> QED BY <2>1, <2>2 DEF IInv, TypeOK
<1>3. PICK kind \in {"Failed", "Completed"} :
        /\ Emit(kind, 0)
        /\ kind = "Failed" => cleanupErrors # {} /\ exit' = "failure"
        /\ kind = "Completed" => cleanupErrors = {} /\ exit' = "success"
  BY DEF Conclude
<1>4. kind \in EventKind
  BY DEF EventKind
<1>5. TypeOK'
  <2>1. events' \in Seq(Event)
    BY <1>2, <1>3, <1>4, EmitAppends
  <2> QED
    BY <1>1, <1>3, <2>1 DEF IInv, TypeOK, Conclude, Unworked, pipes, ControlPoint
<1>6. Admission' /\ InOrder' /\ Acquired' /\ Unwinding'
  BY <1>1 DEF IInv, Admission, Excluded, InOrder, Acquired, Unwinding, Performing,
              Releasing, Before
<1>7. /\ Verdicts' = {Len(events) + 1}
      /\ events'[Len(events) + 1].kind = kind
      /\ \A ev : Emitted(ev) => Emitted(ev)'
      /\ Emitted(Ev(kind, 0))'
  BY <1>2, <1>3, <1>4, FirstVerdict, EmitKeeps
<1>8. Reporting'
  BY <1>1, <1>2, <1>3, <1>7 DEF Reporting, Emitted, Ev
<1>9. Ended'
  BY <1>1, <1>2, <1>3, <1>7 DEF Ended, Emitted, Ev
<1> QED
  BY <1>5, <1>6, <1>8, <1>9 DEF IInv

-----------------------------------------------------------------------------
\* The other thread, the parent process and the kernel.

\* A step that only touches the flag, the pipes or the life of the process.
LEMMA EnvironmentStep ==
  IInv /\ (Environment \/ BrokenPipe \/ UNCHANGED vars) => IInv'
<1> SUFFICES ASSUME IInv, Environment \/ BrokenPipe \/ UNCHANGED vars
             PROVE IInv'
  OBVIOUS
<1>1. /\ completed' = completed /\ defects' = defects /\ events' = events
      /\ held' = held /\ undoAt' = undoAt
      /\ cancelled' = cancelled /\ failed' = failed
      /\ cleanupErrors' = cleanupErrors
      /\ \/ pc' = pc /\ exit' = exit
         \/ exit = "running" /\ pc' = "exit" /\ exit' = "aborted"
  BY DEF Environment, CancelLine, CloseStdin, ReaderGone, Kill, BrokenPipe,
         Unworked, Running, vars
<1>2. /\ stdinOpen' \in BOOLEAN /\ stdoutOpen' \in BOOLEAN
      /\ cancelRequested' \in BOOLEAN
  BY DEF Environment, CancelLine, CloseStdin, ReaderGone, Kill, BrokenPipe,
         pipes, vars, IInv, TypeOK
<1>3. TypeOK'
  BY <1>1, <1>2 DEF IInv, TypeOK, ControlPoint
<1>4. Admission' /\ InOrder' /\ Acquired' /\ Unwinding'
  BY <1>1 DEF IInv, Admission, Excluded, InOrder, Acquired, Unwinding, Performing,
              Releasing, Before
<1>5. Reporting'
  BY <1>1 DEF IInv, Reporting, Verdicts, Emitted, Current, Ev
<1>6. Ended'
  BY <1>1 DEF IInv, Ended, Emitted, Ev
<1> QED
  BY <1>3, <1>4, <1>5, <1>6 DEF IInv

-----------------------------------------------------------------------------
(* Theorems.                                                               *)

\* Every step keeps the invariant.
LEMMA NextIInv == IInv /\ [Next]_vars => IInv'
<1> SUFFICES ASSUME IInv, [Next]_vars PROVE IInv'
  OBVIOUS
<1>1. CASE Prechecks
  BY <1>1, QuietSteps, EmitRejectStep DEF Prechecks
<1>2. CASE Execute
  BY <1>2, QuietSteps, EmitStartedStep, NextOperationStep, EmitStepStep,
     PerformOkStep, PerformErrStep, EmitFailedStep DEF Execute
<1>3. CASE Unwind
  BY <1>3, UndoOkStep, UndoErrStep, EmitWarningStep, FinishUnwindStep,
     ConcludeStep DEF Unwind
<1>4. CASE Environment \/ BrokenPipe \/ UNCHANGED vars
  BY <1>4, EnvironmentStep
<1> QED
  BY <1>1, <1>2, <1>3, <1>4 DEF Next, Service

\* The control points of main and execute, what is held at each of them, and
\* what the wizard has been told there.
THEOREM Invariance == Spec => []IInv
  BY InitIInv, NextIInv, PTL DEF Spec

\* Every variable keeps its type.
THEOREM TypeCorrect == Spec => []TypeOK
<1>1. IInv => TypeOK
  BY DEF IInv
<1> QED BY <1>1, Invariance, PTL

\* No operation runs for a request with a defect any check of main.rs or
\* execute looks for.
THEOREM Admitted == Spec => []OnlyAdmittedWork
<1>1. IInv => OnlyAdmittedWork
  BY DEF IInv, TypeOK, Admission, Excluded, Performing, OnlyAdmittedWork
<1> QED BY <1>1, Invariance, PTL

\* A Completed event means the whole sequence ran and nothing is left held.
THEOREM Earned == Spec => []CompletedIsEarned
<1>1. IInv => CompletedIsEarned
  <2> SUFFICES ASSUME IInv, Emitted(Ev("Completed", 0)) PROVE exit = "success"
    BY DEF IInv, Ended, CompletedIsEarned
  <2>1. PICK k \in DOMAIN events : events[k] = Ev("Completed", 0)
    BY DEF Emitted
  <2>2. k \in Verdicts /\ events[k].kind # "Failed"
    BY <2>1 DEF Verdicts, Ev
  <2> QED BY <2>2 DEF IInv, Reporting
<1> QED BY <1>1, Invariance, PTL

\* Whatever a run leaves mounted it has named in a Warning and summed up in a
\* Failed event.
THEOREM LeaksReported == Spec => []LeaksAreReported
<1>1. IInv => LeaksAreReported
  BY DEF IInv, TypeOK, Reporting, Ended, LeaksAreReported
<1> QED BY <1>1, Invariance, PTL

\* There is one verdict, and it agrees with the exit status.
THEOREM SingleVerdict == Spec => []OneVerdict
<1>1. IInv => OneVerdict
  <2> SUFFICES ASSUME IInv PROVE OneVerdict
    OBVIOUS
  <2>1. ASSUME Emitted(Ev("Completed", 0)) PROVE exit = "success"
    <3>1. PICK k \in DOMAIN events : events[k] = Ev("Completed", 0)
      BY <2>1 DEF Emitted
    <3>2. k \in Verdicts /\ events[k].kind # "Failed"
      BY <3>1 DEF Verdicts, Ev
    <3> QED BY <3>2 DEF IInv, Reporting
  <2> QED BY <2>1 DEF IInv, Reporting, Ended, OneVerdict
<1> QED BY <1>1, Invariance, PTL

-----------------------------------------------------------------------------
(* Refinement: each step of the engine is a step of the contract, or none. *)

\* A process that has ended is over.
LEMMA ExitStage == IInv' /\ exit' # "running" => stageBar' = "over"
<1> SUFFICES ASSUME IInv', exit' # "running" PROVE stageBar' = "over"
  OBVIOUS
<1>1. pc' = "exit"
  BY DEF IInv, Reporting
<1> QED BY <1>1 DEF stageBar

\* Steps the contract does not see.
LEMMA ContractStutter ==
  ASSUME IInv, IInv',
         Prechecks \/ EmitStarted \/ CheckSchema \/ Revalidate
  PROVE  Contract!Refuse \/ Contract!Admit \/ UNCHANGED Contract!vars
<1>1. /\ completed' = completed /\ undoAt' = undoAt /\ held' = held
      /\ cancelled' = cancelled /\ failed' = failed /\ defects' = defects
      /\ cleanupErrors' = cleanupErrors /\ exit = "running"
      /\ pc \in Before
      /\ \/ pc' \in Before /\ exit' = "running"
         \/ pc' = "loop" /\ exit' = "running"
         \/ exit' \in {"usage", "failure"}
  BY DEF Prechecks, ReadRequest, ValidateConfig, PreflightBinaries, Discover, Translate,
         CheckSchema, Revalidate, Check, EmitReject, EmitStarted, Unworked, Running, Before
<1>2. ~failed /\ ~cancelled
  BY <1>1 DEF IInv, Admission
<1>3. pc' = "loop" => defects = {}
  BY <1>1 DEF IInv, TypeOK, Admission, Excluded, Performing
<1>4. /\ stageBar = "checking" /\ causeBar = "none" /\ causeBar' = causeBar
      /\ verdictBar = "none"
  BY <1>1, <1>2 DEF stageBar, causeBar, verdictBar, Before
<1>5. CASE pc' \in Before /\ exit' = "running"
  <2>1. stageBar' = "checking" /\ verdictBar' = "none"
    BY <1>5 DEF stageBar, verdictBar, Before
  <2> QED BY <1>1, <1>4, <2>1 DEF Contract!vars
<1>6. CASE pc' = "loop" /\ exit' = "running"
  <2>1. stageBar' = "executing" /\ verdictBar' = "none"
    BY <1>6 DEF stageBar, verdictBar
  <2> QED BY <1>1, <1>3, <1>4, <1>6, <2>1 DEF Contract!Admit
<1>7. CASE exit' \in {"usage", "failure"}
  <2>1. stageBar' = "over"
    BY <1>7, ExitStage
  <2>2. ~cancelled'
    BY <1>1, <1>2
  <2>3. verdictBar' = "failed"
    BY <1>7, <2>2 DEF verdictBar
  <2> QED BY <1>1, <1>4, <2>1, <2>3 DEF Contract!Refuse
<1> QED BY <1>1, <1>5, <1>6, <1>7

\* The steps of main and execute are Refuse, Admit, Advance and Stop.
LEMMA ContractExecute ==
  ASSUME IInv, IInv',
         NextOperation \/ EmitStep \/ PerformOk \/ PerformErr \/ EmitFailed
  PROVE  Contract!Advance \/ Contract!Stop \/ UNCHANGED Contract!vars
<1>1. /\ pc \in Performing /\ exit = "running" /\ exit' = exit
      /\ undoAt \in 0..N /\ defects' = defects
      /\ cleanupErrors' = cleanupErrors
  BY DEF NextOperation, EmitStep, PerformOk, PerformErr, EmitFailed, Unworked,
         work, flags, Running, Performing, IInv, TypeOK
<1>2. ~failed /\ ~cancelled /\ Len(completed) \in 0..N
      /\ completed \in Seq(Ops)
  BY <1>1 DEF IInv, TypeOK, InOrder, Acquired
<1>3. /\ stageBar = "executing" /\ causeBar = "none" /\ verdictBar = "none"
      /\ verdictBar' = "none"
  BY <1>1, <1>2 DEF stageBar, causeBar, verdictBar, Performing
<1>4. CASE PerformOk
  <2>1. /\ completed' = Append(completed, Current) /\ pc' = "loop"
        /\ held' = held \union ({Current} \intersect HasUndo)
        /\ cancelled' = cancelled /\ failed' = failed /\ pc = "perform"
    BY <1>4 DEF PerformOk, flags
  <2>2. Len(completed) < N
    BY <2>1 DEF IInv, Acquired, Performing
  <2>3. Len(completed') = Len(completed) + 1 /\ Current = Len(completed) + 1
    BY <1>2, <2>1 DEF Current
  <2>4. stageBar' = "executing" /\ causeBar' = causeBar
    BY <1>1, <2>1 DEF stageBar, causeBar
  <2> QED
    BY <1>1, <1>3, <2>1, <2>2, <2>3, <2>4 DEF Contract!Advance
<1>5. CASE pc' = "unwind" /\ (NextOperation \/ EmitFailed)
  <2>1. completed' = completed /\ held' = held
    BY <1>5 DEF NextOperation, EmitFailed, work
  <2>2. stageBar' = "releasing"
    BY <1>1, <1>5 DEF stageBar
  <2>3. IF Len(completed) = N THEN causeBar' = "none"
                              ELSE causeBar' \in {"failed", "cancelled"}
    <3>1. (failed' \/ cancelled') <=> Len(completed) < N
      BY <1>5, <2>1 DEF IInv, Unwinding, Releasing
    <3>2. CASE failed' \/ cancelled'
      BY <1>2, <3>1, <3>2 DEF causeBar
    <3>3. CASE ~failed' /\ ~cancelled'
      BY <1>2, <3>1, <3>3 DEF causeBar
    <3> QED BY <3>2, <3>3
  <2> QED
    BY <1>1, <1>3, <2>1, <2>2, <2>3 DEF Contract!Stop
<1>6. CASE EmitStep \/ PerformErr \/ (NextOperation /\ pc' # "unwind")
  <2>1. /\ completed' = completed /\ held' = held
        /\ cancelled' = cancelled /\ failed' = failed
        /\ pc' \in {"step", "perform", "report"}
    BY <1>6 DEF EmitStep, PerformErr, NextOperation, Unworked, work
  <2>2. stageBar' = "executing" /\ causeBar' = causeBar
    BY <1>1, <2>1 DEF stageBar, causeBar
  <2> QED BY <1>1, <1>3, <2>1, <2>2 DEF Contract!vars
<1>7. EmitFailed => pc' = "unwind"
  BY DEF EmitFailed
<1> QED BY <1>4, <1>5, <1>6, <1>7

\* The steps of the unwind are Release and Conclude.
LEMMA ContractUnwind ==
  ASSUME IInv, IInv', Unwind
  PROVE  Contract!Release \/ Contract!Conclude \/ UNCHANGED Contract!vars
<1>1. /\ pc \in Releasing /\ exit = "running" /\ defects' = defects
      /\ completed' = completed /\ failed' = failed /\ cancelled' = cancelled
  BY DEF Unwind, UndoOk, UndoErr, EmitWarning, FinishUnwind, Conclude,
         Unworked, work, flags, Running, Releasing
<1>2. /\ stageBar = "releasing" /\ causeBar' = causeBar /\ verdictBar = "none"
  BY <1>1 DEF stageBar, causeBar, verdictBar, Releasing
<1>3. /\ Len(completed) \in 0..N /\ undoAt \in 0..N
      /\ held = ((1..undoAt) \intersect HasUndo) \union cleanupErrors
      /\ cleanupErrors \subseteq 1..N
      /\ pc # "warn" => \A op \in cleanupErrors : undoAt < op
      /\ undoAt > 0 => completed[undoAt] = undoAt
  BY <1>1 DEF IInv, TypeOK, InOrder, Unwinding
<1>4. CASE UndoOk
  <2>1. /\ held' = held \ {undoAt} /\ cleanupErrors' = cleanupErrors
        /\ undoAt > 0 /\ pc = "unwind" /\ pc' = "unwind" /\ exit' = "running"
    BY <1>1, <1>3, <1>4 DEF UndoOk, flags
  <2>2. stageBar' = "releasing" /\ verdictBar' = "none"
    BY <2>1 DEF stageBar, verdictBar
  <2>3. CASE undoAt \in HasUndo
    <3>1. undoAt \in held \ cleanupErrors
      BY <1>3, <2>1, <2>3
    <3>2. \A later \in held \ cleanupErrors : later <= undoAt
      BY <1>3
    <3> QED
      BY <1>1, <1>2, <2>1, <2>2, <3>1, <3>2 DEF Contract!Release
  <2>4. CASE undoAt \notin HasUndo
    <3>1. held' = held
      BY <1>3, <2>1, <2>4
    <3> QED BY <1>1, <1>2, <2>1, <2>2, <3>1 DEF Contract!vars
  <2> QED BY <2>3, <2>4
<1>5. CASE UndoErr
  <2>1. /\ held' = held /\ cleanupErrors' = cleanupErrors \union {undoAt}
        /\ undoAt > 0 /\ pc = "unwind" /\ pc' = "warn" /\ exit' = "running"
        /\ undoAt \in HasUndo
    BY <1>1, <1>3, <1>5 DEF UndoErr, work, flags
  <2>2. stageBar' = "releasing" /\ verdictBar' = "none"
    BY <2>1 DEF stageBar, verdictBar
  <2>3. undoAt \in held \ cleanupErrors
    BY <1>3, <2>1
  <2>4. \A later \in held \ cleanupErrors : later <= undoAt
    BY <1>3
  <2> QED
    BY <1>1, <1>2, <2>1, <2>2, <2>3, <2>4 DEF Contract!Release
<1>6. CASE EmitWarning
  <2>1. held' = held /\ cleanupErrors' = cleanupErrors /\ pc' = "unwind"
        /\ exit' = "running"
    BY <1>1, <1>6 DEF EmitWarning, work, flags
  <2>2. stageBar' = "releasing" /\ verdictBar' = "none"
    BY <2>1 DEF stageBar, verdictBar
  <2> QED BY <1>1, <1>2, <2>1, <2>2 DEF Contract!vars
<1>7. ASSUME held' = held, cleanupErrors' = cleanupErrors, exit' = "running",
             pc' = "conclude"
      PROVE  UNCHANGED Contract!vars
  <2>1. stageBar' = "releasing" /\ verdictBar' = "none"
    BY <1>7 DEF stageBar, verdictBar
  <2> QED BY <1>1, <1>2, <1>7, <2>1 DEF Contract!vars
<1>8. ASSUME held' = held, cleanupErrors' = cleanupErrors,
             held = cleanupErrors, exit' # "running",
             verdictBar' = CASE causeBar = "failed" \/ cleanupErrors # {} -> "failed"
                             [] causeBar = "cancelled" /\ cleanupErrors = {} -> "cancelled"
                             [] OTHER -> "completed"
      PROVE  Contract!Conclude
  <2>1. stageBar' = "over"
    BY <1>8, ExitStage
  <2> QED BY <1>1, <1>2, <1>8, <2>1 DEF Contract!Conclude
<1>9. CASE FinishUnwind
  <2>1. /\ held' = held /\ cleanupErrors' = cleanupErrors /\ undoAt = 0
        /\ pc = "unwind"
        /\ IF failed \/ (cancelled /\ cleanupErrors = {})
             THEN exit' = "failure"
             ELSE pc' = "conclude" /\ exit' = "running"
    BY <1>1, <1>9 DEF FinishUnwind, Unworked
  <2>2. held = cleanupErrors
    BY <1>3, <2>1
  <2>3. CASE failed \/ (cancelled /\ cleanupErrors = {})
    <3>1. ~(failed /\ cancelled)
      BY <1>1 DEF IInv, Unwinding
    <3>2. exit' = "failure"
      BY <2>1, <2>3
    <3>3. CASE failed
      <4>1. ~cancelled' /\ causeBar = "failed"
        BY <1>1, <3>1, <3>3 DEF causeBar
      <4>2. verdictBar' = "failed"
        BY <3>2, <4>1 DEF verdictBar
      <4> QED BY <1>8, <2>1, <2>2, <3>2, <4>1, <4>2
    <3>4. CASE ~failed
      <4>1. cancelled' /\ cleanupErrors' = {} /\ causeBar = "cancelled"
        BY <1>1, <2>1, <2>3, <3>4 DEF causeBar
      <4>2. verdictBar' = "cancelled"
        BY <3>2, <4>1 DEF verdictBar
      <4> QED BY <1>8, <2>1, <2>2, <3>2, <4>1, <4>2
    <3> QED BY <3>3, <3>4
  <2>4. CASE ~(failed \/ (cancelled /\ cleanupErrors = {}))
    BY <1>7, <2>1, <2>4
  <2> QED BY <2>3, <2>4
<1>10. CASE Conclude
  <2>1. /\ held' = held /\ cleanupErrors' = cleanupErrors /\ pc = "conclude"
        /\ IF cleanupErrors # {} THEN exit' = "failure" ELSE exit' = "success"
    BY <1>1, <1>10 DEF Conclude, Unworked
  <2>2. /\ undoAt = 0 /\ ~failed /\ (cancelled => cleanupErrors # {})
    BY <1>1, <2>1 DEF IInv, Unwinding
  <2>3. held = cleanupErrors
    BY <1>3, <2>2
  <2>4. CASE cleanupErrors # {}
    <3>1. exit' = "failure" /\ verdictBar' = "failed"
      BY <2>1, <2>4 DEF verdictBar
    <3> QED BY <1>8, <2>1, <2>3, <2>4, <3>1
  <2>5. CASE cleanupErrors = {}
    <3>1. exit' = "success" /\ verdictBar' = "completed"
      BY <2>1, <2>5 DEF verdictBar
    <3>2. causeBar = "none"
      BY <2>2, <2>5 DEF causeBar
    <3> QED BY <1>8, <2>1, <2>3, <2>5, <3>1, <3>2
  <2> QED BY <2>4, <2>5
<1> QED BY <1>4, <1>5, <1>6, <1>9, <1>10 DEF Unwind

\* The environment's steps are Die or stutter.
LEMMA ContractEnvironment ==
  ASSUME IInv, IInv', Environment \/ BrokenPipe \/ UNCHANGED vars
  PROVE  Contract!Die \/ UNCHANGED Contract!vars
<1>1. /\ completed' = completed /\ defects' = defects /\ held' = held
      /\ cancelled' = cancelled /\ failed' = failed
      /\ cleanupErrors' = cleanupErrors
      /\ \/ pc' = pc /\ exit' = exit
         \/ exit = "running" /\ exit' = "aborted"
  BY DEF Environment, CancelLine, CloseStdin, ReaderGone, Kill, BrokenPipe,
         Unworked, Running, vars
<1>2. causeBar' = causeBar
  BY <1>1 DEF causeBar
<1>3. CASE pc' = pc /\ exit' = exit
  <2>1. stageBar' = stageBar /\ verdictBar' = verdictBar
    BY <1>1, <1>3 DEF stageBar, verdictBar
  <2> QED BY <1>1, <1>2, <2>1 DEF Contract!vars
<1>4. CASE exit = "running" /\ exit' = "aborted"
  <2>1. stageBar # "over"
    BY <1>4 DEF stageBar
  <2>2. stageBar' = "over" /\ verdictBar' = "lost"
    BY <1>4, ExitStage DEF verdictBar
  <2> QED BY <1>1, <1>2, <2>1, <2>2 DEF Contract!Die
<1> QED BY <1>1, <1>3, <1>4

\* The initial states are initial states of the contract.
LEMMA ContractInit == Init => Contract!Init
<1> SUFFICES ASSUME Init PROVE Contract!Init
  OBVIOUS
<1>1. (defects = {}) \in BOOLEAN
  OBVIOUS
<1>2. stageBar = "checking" /\ causeBar = "none" /\ verdictBar = "none"
  BY DEF Init, stageBar, causeBar, verdictBar
<1>3. Len(completed) = 0 /\ held = {} /\ cleanupErrors = {}
  BY DEF Init
<1> QED BY <1>1, <1>2, <1>3 DEF Contract!Init

\* What the engine does between the request and the end of the process is what
\* InstallContract promises: nothing is acquired before admission, releases go
\* newest first, and there is no verdict while something is held unreported.
THEOREM Implements == Spec => ImplementsContract
<1>1. IInv /\ IInv' /\ [Next]_vars => [Contract!Next]_(Contract!vars)
  <2> SUFFICES ASSUME IInv, IInv', [Next]_vars
               PROVE  [Contract!Next]_(Contract!vars)
    OBVIOUS
  <2>1. CASE Prechecks \/ EmitStarted \/ CheckSchema \/ Revalidate
    BY <2>1, ContractStutter DEF Contract!Next
  <2>2. CASE NextOperation \/ EmitStep \/ PerformOk \/ PerformErr \/ EmitFailed
    BY <2>2, ContractExecute DEF Contract!Next
  <2>3. CASE Unwind
    BY <2>3, ContractUnwind DEF Contract!Next
  <2>4. CASE Environment \/ BrokenPipe \/ UNCHANGED vars
    BY <2>4, ContractEnvironment DEF Contract!Next
  <2> QED
    BY <2>1, <2>2, <2>3, <2>4 DEF Next, Service, Execute
<1> QED
  BY <1>1, ContractInit, Invariance, PTL
  DEF ImplementsContract, Contract!Spec, Spec

=============================================================================
