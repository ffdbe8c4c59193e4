----------------------------- MODULE Periodic ------------------------------
(***************************************************************************)
(* The periodic collector of src/collect/periodic.rs: a worker thread that *)
(* observes and exports on two grids (src/collect/timer.rs), the command   *)
(* channel to it, the bounded channel of batches to the sender task, and   *)
(* the shutdown in Inner::drop.                                            *)
(*                                                                         *)
(* Time is a number that may advance between any two steps, so an          *)
(* observation or an export may take any time.  The worker's observers are *)
(* its own: one loop over them is one step.  What an observer records is   *)
(* in Observer; here an observation records a snapshot or nothing.         *)
(***************************************************************************)
EXTENDS Integers, Sequences, FiniteSets, Functions, FiniteSetsExt, SequencesExt, Resource

CONSTANTS
    Observers,
    PollPeriod, ExportPeriod,
    Capacity,    \* of the batch channel
    Sink,        \* the sender: "otel" (src/otel/sender.rs) or "stdout" (src/console/sender.rs)
    StartSystem, \* SystemTime::now() when Instant::now() is 0
    MaxInstant,  \* the last Instant
    MaxTime      \* bound on the clock

Shutdown == "Shutdown"

\* Collector::new refuses other periods; batch_capacity is NonZero.
ASSUME PeriodicAssumption ==
    /\ PollPeriod \in Nat \ {0}
    /\ ExportPeriod \in Nat \ {0}
    /\ PollPeriod <= ExportPeriod
    /\ Capacity \in Nat \ {0}
    /\ Sink \in {"otel", "stdout"}
    /\ StartSystem \in Nat
    /\ MaxTime \in Nat
    /\ MaxInstant \in Nat
    /\ MaxTime <= MaxInstant
    /\ Shutdown \notin Observers

VARIABLES
    clock,         \* Instant::now()
    observeTimer,  \* the deadline of each GridTimer
    exportTimer,
    wpc, now,      \* worker: the next step, and the local `now` of the loop
    stopping,      \* worker: inside the export of a Shutdown
    observers,     \* Worker::observers
    start, seq,    \* per observer, as SyncObserver::reset and observe leave them
    series,        \* per observer, the snapshots not yet exported
    commands,      \* the mpsc channel
    batches,       \* the bounded channel
    sending,       \* the batch inside Sender::send, or <<>>
    gone,          \* the sender task has ended
    enabled,       \* Gated::enabled
    drop,          \* Inner::drop: "no", "join", "returned"
    sent,          \* history: the snapshots that left, in order
    discarded      \* history: the snapshots known to be dropped

worker == <<observeTimer, exportTimer, wpc, now, stopping, observers, start, seq, series>>
task == <<sending, gone, sent>>
vars == <<clock, worker, commands, batches, task, enabled, drop, discarded>>

Snapshots == [by : Observers, seq_id : Nat, ts : Nat]

TypeOK ==
    /\ {clock, observeTimer, exportTimer, now} \subseteq Nat
    /\ wpc \in {"loop", "observed", "export", "exported", "recv", "commands", "returned"}
    /\ stopping \in BOOLEAN
    /\ Range(observers) \subseteq Observers
    /\ IsInjective(observers)
    /\ start \in [Observers -> Nat]
    /\ seq \in [Observers -> Nat]
    /\ \A o \in Observers : Range(series[o]) \subseteq Snapshots
    /\ Range(commands) \subseteq Observers \cup {Shutdown}
    /\ Len(batches) <= Capacity
    /\ \A b \in Range(batches) : b # <<>> /\ Range(b) \subseteq Snapshots
    /\ Range(sending) \subseteq Snapshots
    /\ gone \in BOOLEAN
    /\ enabled \in BOOLEAN
    /\ drop \in {"no", "join", "returned"}
    /\ Range(sent) \subseteq Snapshots
    /\ discarded \subseteq Snapshots

Init ==
    /\ clock = 0
    /\ observeTimer = 0
    /\ exportTimer = 0
    /\ wpc = "loop"
    /\ now = 0
    /\ stopping = FALSE
    /\ observers = <<>>
    /\ start = [o \in Observers |-> 0]
    /\ seq = [o \in Observers |-> 0]
    /\ series = [o \in Observers |-> <<>>]
    /\ commands = <<>>
    /\ batches = <<>>
    /\ sending = <<>>
    /\ gone = FALSE
    /\ enabled = TRUE
    /\ drop = "no"
    /\ sent = <<>>
    /\ discarded = {}

Pass ==
    /\ clock < MaxTime
    /\ clock' = clock + 1
    /\ UNCHANGED <<worker, commands, batches, task, enabled, drop, discarded>>

-----------------------------------------------------------------------------
(* GridTimer.  Both start at 0 with their first deadline there.            *)

due(deadline, at) == at >= deadline

\* Seeded defect: one period after the old deadline.
next_FromDeadline(deadline, period, at) == deadline + period

\* The first multiple of the period after `at`, however late that is.  If it
\* is not an Instant, one period from `at`; if that is none either, `at`.
next(deadline, period, at) ==
    LET tick == (at \div period + 1) * period
    IN  IF tick <= MaxInstant THEN tick
        ELSE IF at + period <= MaxInstant THEN at + period ELSE at

\* CollectorTime::at: the system clock is read once.
at_system(instant) == StartSystem + instant

-----------------------------------------------------------------------------
(* Worker::block                                                           *)

\* The first `now` of the loop; maybe_observe if it is due.  An observation
\* records a snapshot or, with nothing to tell, nothing; seq counts it.
Observe ==
    /\ wpc = "loop"
    /\ now' = clock
    /\ IF due(observeTimer, clock)
       THEN /\ \E records \in SUBSET Range(observers) :
                series' = [o \in Observers |->
                    IF o \in records
                    THEN Append(series[o], [by |-> o, seq_id |-> seq[o], ts |-> at_system(clock)])
                    ELSE series[o]]
            /\ seq' = [o \in Observers |-> IF o \in Range(observers) THEN seq[o] + 1 ELSE seq[o]]
            /\ wpc' = "observed"
       ELSE /\ UNCHANGED <<series, seq>>
            /\ wpc' = "export"
    /\ UNCHANGED <<clock, observeTimer, exportTimer, stopping, observers, start,
                   commands, batches, task, enabled, drop, discarded>>

AdvanceObserve ==
    /\ wpc = "observed"
    /\ observeTimer' = next(observeTimer, PollPeriod, clock)
    /\ wpc' = "export"
    /\ UNCHANGED <<clock, exportTimer, now, stopping, observers, start, seq, series,
                   commands, batches, task, enabled, drop, discarded>>

\* Where the worker goes when maybe_export returns.
AfterExport == IF stopping THEN "returned" ELSE "recv"

\* The series of the observers of a set, observer by observer.
Collected(S) == FlattenSeq([i \in DOMAIN observers |->
                    IF observers[i] \in S THEN series[observers[i]] ELSE <<>>])

\* Every series leaves its observer; one that fails to convert is dropped.
\* A batch that is not empty goes to the channel, or is discarded if that is
\* full or closed.
ExportWith(failed) ==
    LET batch == Collected(Range(observers) \ failed)
        fits == ~gone /\ Len(batches) < Capacity
    IN  /\ series' = [o \in Observers |->
                IF o \in Range(observers) THEN <<>> ELSE series[o]]
        /\ batches' = IF batch # <<>> /\ fits THEN Append(batches, batch) ELSE batches
        /\ discarded' = discarded \cup Range(Collected(failed))
                            \cup IF fits THEN {} ELSE Range(batch)

\* Seeded defect: an empty batch is sent too.
Export_SendsEmpty ==
    /\ wpc = "export"
    /\ due(exportTimer, now)
    /\ series' = [o \in Observers |-> IF o \in Range(observers) THEN <<>> ELSE series[o]]
    /\ LET batch == Collected(Range(observers))
       IN  IF ~gone /\ Len(batches) < Capacity
           THEN batches' = Append(batches, batch) /\ discarded' = discarded
           ELSE batches' = batches /\ discarded' = discarded \cup Range(batch)
    /\ wpc' = "exported"
    /\ UNCHANGED <<clock, observeTimer, exportTimer, now, stopping, observers, start, seq,
                   commands, task, enabled, drop>>

\* Seeded defect: the first error ends the export and the batch with it.
Export_StopsAtError ==
    /\ wpc = "export"
    /\ due(exportTimer, now)
    /\ \/ ExportWith({})
       \/ /\ observers # <<>>
          /\ series' = [series EXCEPT ![observers[1]] = <<>>]
          /\ UNCHANGED <<batches, discarded>>
    /\ wpc' = "exported"
    /\ UNCHANGED <<clock, observeTimer, exportTimer, now, stopping, observers, start, seq,
                   commands, task, enabled, drop>>

\* Seeded defect: a full channel is waited for.
Export_Blocks ==
    /\ wpc = "export"
    /\ due(exportTimer, now)
    /\ gone \/ Len(batches) < Capacity
    /\ ExportWith({})
    /\ wpc' = "exported"
    /\ UNCHANGED <<clock, observeTimer, exportTimer, now, stopping, observers, start, seq,
                   commands, task, enabled, drop>>

\* maybe_export, on the `now` the loop began with.
Export ==
    /\ wpc = "export"
    /\ due(exportTimer, now)
    /\ \E failed \in SUBSET {o \in Range(observers) : series[o] # <<>>} : ExportWith(failed)
    /\ wpc' = "exported"
    /\ UNCHANGED <<clock, observeTimer, exportTimer, now, stopping, observers, start, seq,
                   commands, task, enabled, drop>>

ExportNotDue ==
    /\ wpc = "export"
    /\ ~due(exportTimer, now)
    /\ wpc' = AfterExport
    /\ UNCHANGED <<clock, observeTimer, exportTimer, now, stopping, observers, start, seq,
                   series, commands, batches, task, enabled, drop, discarded>>

AdvanceExport ==
    /\ wpc = "exported"
    /\ exportTimer' = next(exportTimer, ExportPeriod, clock)
    /\ wpc' = AfterExport
    /\ UNCHANGED <<clock, observeTimer, now, stopping, observers, start, seq, series,
                   commands, batches, task, enabled, drop, discarded>>

\* recv_timeout: a command, or the earlier of the two deadlines.
Receive ==
    /\ wpc = "recv"
    /\ \/ commands # <<>> /\ wpc' = "commands"
       \/ /\ commands = <<>>
          /\ due(observeTimer, clock) \/ due(exportTimer, clock)
          /\ wpc' = "loop"
    /\ UNCHANGED <<clock, observeTimer, exportTimer, now, stopping, observers, start, seq,
                   series, commands, batches, task, enabled, drop, discarded>>

\* Seeded defect: the new observer starts at the next export.
HandleAdd_AtExport ==
    /\ wpc = "commands"
    /\ commands # <<>>
    /\ LET o == Head(commands)
       IN  /\ o # Shutdown
           /\ start' = [start EXCEPT ![o] = at_system(exportTimer)]
           /\ seq' = [seq EXCEPT ![o] = 0]
           /\ series' = [series EXCEPT ![o] = <<>>]
           /\ observers' = Append(observers, o)
    /\ commands' = Tail(commands)
    /\ UNCHANGED <<clock, observeTimer, exportTimer, wpc, now, stopping,
                   batches, task, enabled, drop, discarded>>

\* handle(Add): the observer is reset to the next tick of the grid.
HandleAdd ==
    /\ wpc = "commands"
    /\ commands # <<>>
    /\ LET o == Head(commands)
       IN  /\ o # Shutdown
           /\ start' = [start EXCEPT ![o] = at_system(observeTimer)]
           /\ seq' = [seq EXCEPT ![o] = 0]
           /\ series' = [series EXCEPT ![o] = <<>>]
           /\ observers' = Append(observers, o)
    /\ commands' = Tail(commands)
    /\ UNCHANGED <<clock, observeTimer, exportTimer, wpc, now, stopping,
                   batches, task, enabled, drop, discarded>>

\* handle(Shutdown): a last export, if one is due.
HandleShutdown ==
    /\ wpc = "commands"
    /\ commands # <<>>
    /\ Head(commands) = Shutdown
    /\ now' = clock
    /\ stopping' = TRUE
    /\ wpc' = "export"
    /\ commands' = Tail(commands)
    /\ UNCHANGED <<clock, observeTimer, exportTimer, observers, start, seq, series,
                   batches, task, enabled, drop, discarded>>

\* try_recv finds no further command.
NoMoreCommands ==
    /\ wpc = "commands"
    /\ commands = <<>>
    /\ wpc' = "loop"
    /\ UNCHANGED <<clock, observeTimer, exportTimer, now, stopping, observers, start, seq,
                   series, commands, batches, task, enabled, drop, discarded>>

WorkerStep ==
    \/ Observe \/ AdvanceObserve
    \/ Export \/ ExportNotDue \/ AdvanceExport
    \/ Receive \/ HandleAdd \/ HandleShutdown \/ NoMoreCommands

-----------------------------------------------------------------------------
(* process_send and Gated                                                  *)

\* A batch is received; a disabled gate drops it there and then.
ReceiveBatch ==
    /\ ~gone
    /\ sending = <<>>
    /\ batches # <<>>
    /\ batches' = Tail(batches)
    /\ IF enabled
       THEN sending' = Head(batches) /\ discarded' = discarded
       ELSE sending' = sending /\ discarded' = discarded \cup Range(Head(batches))
    /\ UNCHANGED <<clock, worker, commands, gone, sent, enabled, drop>>

\* What may get through of a batch.  Stdout writes metric after metric and
\* stops at the first error; an OpenTelemetry request is lost, or the backend
\* rejects some of its points.
Through(batch) ==
    IF Sink = "stdout" THEN {SubSeq(batch, 1, n) : n \in 0 .. Len(batch)}
    ELSE {FlattenSeq([i \in DOMAIN batch |-> IF batch[i] \in kept THEN <<batch[i]>> ELSE <<>>]) :
              kept \in SUBSET Range(batch)}

\* Seeded defect: what the backend rejected is sent again, after the rest.
Send_Retries ==
    /\ ~gone
    /\ sending # <<>>
    /\ \E through \in Through(sending) :
        /\ sent' = sent \o through
        /\ sending' = SelectSeq(sending, LAMBDA s : s \notin Range(through))
    /\ UNCHANGED <<clock, worker, commands, batches, gone, enabled, drop, discarded>>

\* A send ends; an error is logged and its batch is not sent again.
Send ==
    /\ ~gone
    /\ sending # <<>>
    /\ \E through \in Through(sending) :
        /\ sent' = sent \o through
        /\ discarded' = discarded \cup (Range(sending) \ Range(through))
    /\ sending' = <<>>
    /\ UNCHANGED <<clock, worker, commands, batches, gone, enabled, drop>>

\* The task ends: its sender panicked, its runtime stopped, or Inner::drop
\* aborted it.  What waited for it is dropped, and what it was sending may
\* have got through.
EndTask ==
    /\ gone' = TRUE
    /\ \E through \in Through(sending) :
        /\ sent' = sent \o through
        /\ discarded' = discarded \cup (Range(sending) \ Range(through))
                            \cup UNION {Range(b) : b \in Range(batches)}
    /\ sending' = <<>>
    /\ batches' = <<>>
    /\ UNCHANGED <<clock, worker, commands, enabled>>

TaskDies == ~gone /\ EndTask /\ drop' = drop

\* set_enabled, from any thread.
Toggle ==
    /\ enabled' = ~enabled
    /\ UNCHANGED <<clock, worker, commands, batches, task, drop, discarded>>

-----------------------------------------------------------------------------
(* Collector and Inner                                                     *)

\* add_boxed_observer; an observer is moved in, so it is added once.
Add(o) ==
    /\ drop = "no"
    /\ o \notin Range(observers) \cup Range(commands)
    /\ commands' = Append(commands, o)
    /\ UNCHANGED <<clock, worker, batches, task, enabled, drop, discarded>>

\* The last clone is gone: Shutdown is sent and the worker is joined.
Drop ==
    /\ drop = "no"
    /\ drop' = "join"
    /\ commands' = Append(commands, Shutdown)
    /\ UNCHANGED <<clock, worker, batches, task, enabled, discarded>>

Joined == drop = "join" /\ wpc = "returned" /\ EndTask /\ drop' = "returned"

Next ==
    \/ Pass
    \/ WorkerStep
    \/ ReceiveBatch \/ Send \/ TaskDies \/ Toggle
    \/ \E o \in Observers : Add(o)
    \/ Drop \/ Joined

Safety == Init /\ [][Next]_vars

\* The worker thread and the dropping thread run.  Nothing is assumed of the
\* sender: a send may never return.
Fairness == WF_vars(WorkerStep) /\ WF_vars(Joined)

Spec == Safety /\ Fairness

-----------------------------------------------------------------------------
(* Properties                                                              *)

\* The snapshots that left or are on their way, in the order they leave.
Queue == sent \o sending \o FlattenSeq(batches)

All == Range(Queue) \cup discarded \cup UNION {Range(series[o]) : o \in Observers}

InOrder(s) ==
    \A i, j \in DOMAIN s : i < j /\ s[i].by = s[j].by => s[i].seq_id < s[j].seq_id

\* An observer's snapshots leave in the order they were taken, none twice,
\* and none that was discarded, whatever the channel drops in between.
LeaveInOrderAndOnce ==
    \A o \in Observers :
        LET stream == Queue \o series[o]
        IN  InOrder(stream) /\ Range(stream) \cap discarded = {}

\* One observer never observes twice within a tick of the grid, even after
\* observations or exports that overran several ticks.
OncePerTick ==
    \A s, t \in All : s.by = t.by /\ s # t
        => (s.ts - StartSystem) \div PollPeriod # (t.ts - StartSystem) \div PollPeriod

align_ts(s) == start[s.by] + PollPeriod * s.seq_id

\* An aligned timestamp is never ahead of the time of the observation.
AlignedNotAhead == \A s \in All : align_ts(s) <= s.ts

\* dto.rs:46-48: align_ts "Reconstructs this snapshot's timestamp" and
\* "Should produce a uniform grid that hides scheduling jitter".  A snapshot
\* observed exactly on a tick has that tick for its aligned timestamp.
AlignedIsTheTick ==
    \A s \in All : (s.ts - StartSystem) % PollPeriod = 0 => align_ts(s) = s.ts

\* A recorded snapshot does not vanish: it stays in its observer's series, in
\* the channel or with the sender until it is sent, or is dropped at one of
\* the places where the collector drops: a conversion error, a channel full
\* or closed, a disabled gate, the end of the task.
NothingVanishes == [][All \subseteq All']_vars

\* Dropping the collector returns, whatever the sender does: the worker
\* never waits for the batch channel.
DropReturns == (drop = "join") ~> (drop = "returned")

\* A backend that has got a request knows the resource: one attribute for each
\* key that is not empty, with the value that should win, whatever the resource
\* the sender was built with repeats or gives twice.
RequestsNameTheResource == sent # <<>> => ResourcesAreMaps
=============================================================================
