------------------------------- MODULE DiskAio -------------------------------
(***************************************************************************)
(* Asynchronous transfers of one disk unit: the device code and the        *)
(* library calls on the main thread, and the unit's I/O thread _disk_io.   *)
(* The I/O thread owns io_lock whenever it is not in its condition wait.   *)
(* sim_tape.c has the same structure, with TOP_ for DOP_.                  *)
(*                                                                         *)
(* The device is any that follows the pattern of pdp11_rp.c: a command     *)
(* activates the unit; the first service call starts the transfer; its     *)
(* callback notes the completion and activates the unit; the second        *)
(* service call ends the command.                                          *)
(***************************************************************************)
EXTENDS Naturals

CONSTANTS MaxCommands,     \* bound: device commands
          MaxStops,        \* bound: times the simulator stops
          MaxDiskModes,    \* bound: SET ASYNC and SET NOASYNC commands
          MaxDiskFailures, \* bound: threads that cannot be created
          MaxSpurious      \* bound: wakeups of a condition wait without a signal

ASSUME DiskBoundAssumption ==
  {MaxCommands, MaxStops, MaxDiskModes, MaxDiskFailures, MaxSpurious} \subseteq Nat

VARIABLES main,      \* what the main thread is doing
          why,       \* "stop" or "mode": the reason of the latest flush
          io,        \* the I/O thread: "none", "starting", "waiting", "woken",
                     \* "transfer", "posting"; it owns io_lock in the last two
          io_dop,    \* "DONE", "IDLE", or "XFER" for DOP_RSEC, DOP_WSEC, DOP_IAVL
          asynch_io, sim_asynch_enabled,
          unit,      \* [linked, queued, callback, io_complete, cmd], 0 or 1, and the
                     \* history started: the command has asked for its transfer
          sync,      \* history: the main thread is transferring or flushing
          commands, stops, modes, failures, spurious

bounds == <<commands, stops, modes, failures, spurious>>
diskVars == <<main, why, io, io_dop, asynch_io, sim_asynch_enabled, unit, sync, bounds>>

Bit == {0, 1}
Unit == [linked : Bit, queued : Bit, callback : Bit, io_complete : Bit, cmd : Bit, started : Bit]

\* After sim_disk_attach with asynchronous I/O enabled.
DiskInit ==
  /\ main = "cpu" /\ why = "stop" /\ io = "waiting" /\ io_dop = "IDLE"
  /\ asynch_io = 1 /\ sim_asynch_enabled = 1
  /\ unit = [linked |-> 0, queued |-> 0, callback |-> 0, io_complete |-> 0, cmd |-> 0,
             started |-> 0]
  /\ sync = 0
  /\ commands = 0 /\ stops = 0 /\ modes = 0 /\ failures = 0 /\ spurious = 0

IoLockFree == io \notin {"transfer", "posting"}

-----------------------------------------------------------------------------
(* The event queue, as AsynchQueue and EventQueue describe it.             *)

BadDiskIsActive == io_dop # "DONE"

\* _disk_is_active
DiskIsActive == io_dop # "IDLE"

BadInsert(d) == [d EXCEPT !.queued = @ + 1]

\* sim_activate once the asynchronous queue has been updated.
Insert(d) == IF d.queued = 1 \/ d.linked = 1 \/ DiskIsActive THEN d ELSE [d EXCEPT !.queued = 1]

\* _disk_completion_dispatch, when it does not abort, with the callback.
CompletionDispatch(d) ==
  IF d.callback = 0 THEN d
  ELSE Insert([d EXCEPT !.callback = 0, !.io_complete = 1])

BadUpdate(d) == d

\* AIO_UPDATE_QUEUE
Update(d) == IF d.linked = 0 THEN d ELSE CompletionDispatch(Insert([d EXCEPT !.linked = 0]))
UpdateAborts == unit.linked = 1 /\ io_dop # "IDLE"

-----------------------------------------------------------------------------
(* The main thread, while instructions are executed.                       *)

IoSignalled == IF io = "waiting" THEN "woken" ELSE io

\* abort() ends the process.
Abort ==
  /\ main' = "aborted"
  /\ UNCHANGED <<why, io, io_dop, asynch_io, sim_asynch_enabled, unit, sync, bounds>>

\* A poll of the asynchronous queue.
DiskPoll ==
  /\ main = "cpu" /\ unit.linked = 1
  /\ \/ UpdateAborts /\ Abort
     \/ /\ ~UpdateAborts
        /\ unit' = Update(unit)
        /\ UNCHANGED <<main, why, io, io_dop, asynch_io, sim_asynch_enabled, sync, bounds>>

\* The program starts a command: the device calls sim_activate.
Command ==
  /\ main = "cpu" /\ unit.cmd = 0 /\ commands < MaxCommands
  /\ \/ UpdateAborts /\ Abort
     \/ /\ ~UpdateAborts
        /\ commands' = commands + 1
        /\ unit' = Insert(Update([unit EXCEPT !.cmd = 1, !.started = 0]))
        /\ UNCHANGED <<main, why, io, io_dop, asynch_io, sim_asynch_enabled, sync,
                       stops, modes, failures, spurious>>

\* The unit's service routine is called for an event.
ServiceEnd ==
  /\ main = "cpu" /\ unit.queued = 1 /\ (unit.cmd = 0 \/ unit.io_complete = 1)
  /\ unit' = [unit EXCEPT !.queued = 0, !.cmd = 0, !.io_complete = 0]
  /\ UNCHANGED <<main, why, io, io_dop, asynch_io, sim_asynch_enabled, sync, bounds>>

ServiceStart == main = "cpu" /\ unit.queued = 1 /\ unit.cmd = 1 /\ unit.io_complete = 0

\* sim_disk_rdsect_a with an I/O thread: AIO_CALL.
AioCall ==
  /\ ServiceStart /\ asynch_io = 1 /\ IoLockFree
  /\ \/ unit.callback = 1 /\ Abort
     \/ /\ unit.callback = 0
        /\ io_dop' = "XFER"
        /\ io' = IoSignalled
        /\ unit' = [unit EXCEPT !.queued = 0, !.callback = 1, !.started = 1]
        /\ UNCHANGED <<main, why, asynch_io, sim_asynch_enabled, sync, bounds>>

\* Without: the transfer, then the callback, both on the main thread.
SyncCall ==
  /\ ServiceStart /\ asynch_io = 0 /\ sync = 0
  /\ sync' = 1
  /\ unit' = [unit EXCEPT !.started = 1]
  /\ UNCHANGED <<main, why, io, io_dop, asynch_io, sim_asynch_enabled, bounds>>

SyncReturn ==
  /\ ServiceStart /\ sync = 1
  /\ \/ UpdateAborts /\ Abort
     \/ /\ ~UpdateAborts
        /\ sync' = 0
        /\ unit' = Insert(Update([unit EXCEPT !.queued = 0, !.io_complete = 1]))
        /\ UNCHANGED <<main, why, io, io_dop, asynch_io, sim_asynch_enabled, bounds>>

\* The device is reset: sim_cancel calls _disk_cancel, which waits for io_done
\* until no transfer is in progress.  The device forgets its command.
Cancel ==
  /\ main = "cpu" /\ sync = 0
  /\ main' = "cancel"
  /\ UNCHANGED <<why, io, io_dop, asynch_io, sim_asynch_enabled, unit, sync, bounds>>

CancelReturn ==
  /\ main = "cancel"
  /\ asynch_io = 1 => IoLockFree /\ io_dop = "IDLE"
  /\ \/ UpdateAborts /\ Abort
     \/ /\ ~UpdateAborts
        /\ unit' = [Update(unit) EXCEPT !.queued = 0, !.cmd = 0]
        /\ main' = "cpu"
        /\ UNCHANGED <<why, io, io_dop, asynch_io, sim_asynch_enabled, sync, bounds>>

-----------------------------------------------------------------------------
(* _sim_disk_io_flush, when the simulator stops and when the mode changes. *)

\* run_cmd: sim_flush_buffered_files, once sim_is_running is false.
Stop ==
  /\ main = "cpu" /\ sync = 0 /\ stops < MaxStops
  /\ stops' = stops + 1
  /\ main' = "clr" /\ why' = "stop"
  /\ UNCHANGED <<io, io_dop, asynch_io, sim_asynch_enabled, unit, sync,
                 commands, modes, failures, spurious>>

Continue ==
  /\ main = "stopped"
  /\ main' = "cpu"
  /\ UNCHANGED <<why, io, io_dop, asynch_io, sim_asynch_enabled, unit, sync, bounds>>

\* SET ASYNC and SET NOASYNC
SetAsynch ==
  /\ main = "stopped" /\ modes < MaxDiskModes
  /\ modes' = modes + 1
  /\ sim_asynch_enabled' = 1 - sim_asynch_enabled
  /\ main' = "clr" /\ why' = "mode"
  /\ UNCHANGED <<io, io_dop, asynch_io, unit, sync, commands, stops, failures, spurious>>

BadClrAsync ==
  /\ main = "clr" /\ main' = "set"
  /\ UNCHANGED <<why, io, io_dop, asynch_io, sim_asynch_enabled, unit, sync, bounds>>

\* sim_disk_clr_async, up to sim_thread_join
DiskClrAsync ==
  /\ main = "clr" /\ (asynch_io = 1 => IoLockFree)
  /\ IF asynch_io = 0 THEN UNCHANGED <<asynch_io, io_dop, io>>
     ELSE /\ asynch_io' = 0 /\ io_dop' = "DONE" /\ io' = IoSignalled
  /\ main' = "join"
  /\ UNCHANGED <<why, sim_asynch_enabled, unit, sync, bounds>>

Join ==
  /\ main = "join" /\ io = "none"
  /\ main' = "set"
  /\ UNCHANGED <<why, io, io_dop, asynch_io, sim_asynch_enabled, unit, sync, bounds>>

\* sim_disk_set_async, if it is called; creating the thread may fail.
DiskSetAsync ==
  /\ main = "set"
  /\ \/ sim_asynch_enabled = 0 /\ UNCHANGED <<asynch_io, io, failures>>
     \/ sim_asynch_enabled = 1 /\ asynch_io' = 1 /\ io' = "starting" /\ UNCHANGED failures
     \/ /\ sim_asynch_enabled = 1 /\ failures < MaxDiskFailures
        /\ failures' = failures + 1 /\ UNCHANGED <<asynch_io, io>>
  /\ main' = "fflush"
  /\ UNCHANGED <<why, io_dop, sim_asynch_enabled, unit, sync, commands, stops, modes, spurious>>

\* The wait for startup_cond, then the flush proper.
FlushFile ==
  /\ main = "fflush" /\ io # "starting"
  /\ sync' = 1
  /\ main' = "end"
  /\ UNCHANGED <<why, io, io_dop, asynch_io, sim_asynch_enabled, unit, bounds>>

\* Only run_cmd ends with AIO_UPDATE_QUEUE.
FlushEnd ==
  /\ main = "end"
  /\ \/ why = "stop" /\ UpdateAborts /\ Abort
     \/ /\ why = "stop" => ~UpdateAborts
        /\ unit' = IF why = "stop" THEN Update(unit) ELSE unit
        /\ sync' = 0
        /\ main' = "stopped"
        /\ UNCHANGED <<why, io, io_dop, asynch_io, sim_asynch_enabled, bounds>>

-----------------------------------------------------------------------------
(* The I/O thread, _disk_io.                                               *)

IoStart ==
  /\ io = "starting"
  /\ io_dop' = "IDLE" /\ io' = "waiting"
  /\ UNCHANGED <<main, why, asynch_io, sim_asynch_enabled, unit, sync, bounds>>

\* The condition wait may return although nobody signalled.
SpuriousWakeup ==
  /\ io = "waiting" /\ spurious < MaxSpurious
  /\ spurious' = spurious + 1
  /\ io' = "woken"
  /\ UNCHANGED <<main, why, io_dop, asynch_io, sim_asynch_enabled, unit, sync,
                 commands, stops, modes, failures>>

\* It has io_lock again and looks at io_dop.
IoWake ==
  /\ io = "woken"
  /\ CASE io_dop = "DONE" -> io' = "none"
       [] io_dop = "XFER" -> io' = "transfer"
       [] io_dop = "IDLE" -> io' = "posting"
  /\ UNCHANGED <<main, why, io_dop, asynch_io, sim_asynch_enabled, unit, sync, bounds>>

BadIoDone ==
  /\ io = "transfer" /\ io' = "posting"
  /\ UNCHANGED <<main, why, io_dop, asynch_io, sim_asynch_enabled, unit, sync, bounds>>

IoDone ==
  /\ io = "transfer"
  /\ io_dop' = "IDLE" /\ io' = "posting"
  /\ UNCHANGED <<main, why, asynch_io, sim_asynch_enabled, unit, sync, bounds>>

\* sim_activate on this thread links the unit; then it waits again.
IoPost ==
  /\ io = "posting"
  /\ unit' = [unit EXCEPT !.linked = 1]
  /\ io' = "waiting"
  /\ UNCHANGED <<main, why, io_dop, asynch_io, sim_asynch_enabled, sync, bounds>>

-----------------------------------------------------------------------------
IoThread == IoStart \/ IoWake \/ IoDone \/ IoPost
LibraryStep == CancelReturn \/ DiskClrAsync \/ Join \/ DiskSetAsync \/ FlushFile \/ FlushEnd
Service == ServiceEnd \/ AioCall \/ SyncCall \/ SyncReturn

DiskNext ==
  \/ IoThread \/ SpuriousWakeup
  \/ DiskPoll \/ Command \/ Service \/ Cancel \/ LibraryStep
  \/ Stop \/ Continue \/ SetAsynch

DiskSpec == DiskInit /\ [][DiskNext]_diskVars

\* Threads that can run do; instructions go on to be executed, so that the
\* queue is polled and events are served; the user continues.
FairDiskSpec ==
  /\ DiskSpec
  /\ WF_diskVars(IoThread) /\ WF_diskVars(LibraryStep)
  /\ WF_diskVars(DiskPoll) /\ SF_diskVars(Service) /\ WF_diskVars(Continue)

-----------------------------------------------------------------------------
(* Properties.                                                             *)

MainSteps == {"cpu", "cancel", "stopped", "aborted", "clr", "join", "set", "fflush", "end"}

\* The types of the variables.
DiskTypeOK ==
  /\ main \in MainSteps /\ why \in {"stop", "mode"}
  /\ io \in {"none", "starting", "waiting", "woken", "transfer", "posting"}
  /\ io_dop \in {"DONE", "IDLE", "XFER"}
  /\ asynch_io \in Bit /\ sim_asynch_enabled \in Bit /\ sync \in Bit
  /\ unit \in Unit

\* The assertions of AIO_CALL and _disk_completion_dispatch hold: neither calls
\* abort ("horrible mistake, stop", "horribly wrong, stop"), as long as the I/O
\* thread is left alone; README.md says how a stop or a spurious wakeup gets there.
NeverAborts == stops + spurious = 0 => main # "aborted"

\* "The I/O completion will cause the Unit to be scheduled to run": a request
\* whose callback has not been called is with the I/O thread or on its way back.
RequestIsPending ==
  unit.callback = 1 => io_dop = "XFER" \/ io = "posting" \/ unit.linked = 1

\* A device with a command in progress has its unit scheduled or a transfer
\* pending: sim_activate "places the specified unit on the active queue with the
\* specified waiting period".  A unit without its I/O thread is taken for active
\* (io_dop stays DOP_DONE), so that the mode must not have changed.
CommandIsScheduled ==
  modes = 0 /\ failures = 0 /\ unit.cmd = 1 /\ sync = 0
    => unit.queued = 1 \/ unit.linked = 1 \/ unit.callback = 1

\* "The bottom half code should ... perform any activities which normally need to
\* occur after the I/O completes": a command's bottom half follows the transfer
\* that its top half asked for.
\* The code does not satisfy this; README.md has the behaviour.
BottomFollowsTop == unit.cmd = 1 /\ unit.io_complete = 1 => unit.started = 1

\* The container file has one user: the main thread transfers or flushes only
\* while the I/O thread is not transferring.
OneTransfer == sync = 1 => io # "transfer"

\* A request is answered: its callback is called, unless the simulator stops, which
\* can lose the request (RequestIsPending), or a wakeup is spurious (NeverAborts).
CallbackIsCalled == unit.callback = 1 ~> unit.callback = 0 \/ stops + spurious > 0

\* sim_cancel and the flush return, or the simulator has aborted (NeverAborts);
\* they wait for the I/O thread, which does not wait for the main thread meanwhile.
LibraryReturns == main # "cpu" ~> main \in {"cpu", "aborted"}
=============================================================================
