--------------------------- MODULE IoThreadProofs ---------------------------
(***************************************************************************)
(* Proofs about the threads that do input and output beside the simulator. *)
(*                                                                         *)
(* EthThreads, for any capacity, threshold and number of writes, packets,  *)
(* errors, mode changes and failures: the queues stay within their         *)
(* capacity, a write buffer is in one place, packets are sent in the order *)
(* of the calls, and the port is reopened alone.                           *)
(*                                                                         *)
(* DiskAio, for any number of commands, stops, mode changes, failed        *)
(* threads and spurious wakeups: the container file has one user, the      *)
(* assertions of the library hold while the simulator runs undisturbed,    *)
(* and a command in progress is scheduled.                                 *)
(***************************************************************************)
EXTENDS DiskAio, EthThreads, TLAPS

-----------------------------------------------------------------------------
(* Disks.                                                                  *)

\* A transfer of the I/O thread is one that io_dop asks for.
TransferInv == io = "transfer" => io_dop = "XFER"

\* While the main thread uses the file no transfer is asked for, and the device
\* does so only without an I/O thread.
SyncInv ==
  sync = 1 => /\ io_dop # "XFER" /\ main \in {"cpu", "end", "aborted"}
              /\ main = "cpu" => asynch_io = 0

\* Without asynch_io there is no thread, or one that is being joined.
NoThreadInv ==
  asynch_io = 0 => io_dop = "DONE" /\ (main # "join" => io = "none")

\* What the steps of the flush have achieved.
FlushInv ==
  /\ main = "join" => asynch_io = 0 /\ io \in {"none", "woken"}
  /\ main = "set" => asynch_io = 0
  /\ main \in {"fflush", "end"} => io_dop # "XFER"
  /\ io = "starting" => main = "fflush"

DiskInv == DiskTypeOK /\ TransferInv /\ SyncInv /\ NoThreadInv /\ FlushInv

-----------------------------------------------------------------------------
\* sim_activate and the update of the queue yield a unit.
LEMMA UpdateType ==
  ASSUME NEW d \in Unit
  PROVE  Insert(d) \in Unit /\ Update(d) \in Unit
<1>1. \A e \in Unit : Insert(e) \in Unit
  BY DEF Insert, Unit, Bit
<1>2. \A e \in Unit : CompletionDispatch(e) \in Unit
  <2> TAKE e \in Unit
  <2>1. [e EXCEPT !.callback = 0, !.io_complete = 1] \in Unit
    BY Zenon DEF Unit, Bit
  <2> QED BY <1>1, <2>1 DEF CompletionDispatch
<1>3. [d EXCEPT !.linked = 0] \in Unit
  BY DEF Unit, Bit
<1> QED BY <1>1, <1>2, <1>3 DEF Update

\* The steps of the main thread while instructions run keep the invariant.
LEMMA MainInv ==
  ASSUME DiskInv, DiskPoll \/ Command \/ Service \/ Cancel \/ CancelReturn
  PROVE  DiskInv'
<1> USE DEF DiskInv, DiskTypeOK, TransferInv, SyncInv, NoThreadInv, FlushInv, MainSteps, Bit
<1>1. CASE DiskPoll
  BY <1>1, UpdateType DEF DiskPoll, Abort, bounds
<1>2. CASE Command
  <2>1. [unit EXCEPT !.cmd = 1, !.started = 0] \in Unit
    BY Zenon DEF Unit
  <2>2. Insert(Update([unit EXCEPT !.cmd = 1, !.started = 0])) \in Unit
    BY <2>1, UpdateType
  <2> QED BY <1>2, <2>2 DEF Command, Abort, bounds
<1>3. CASE ServiceEnd
  <2>1. [unit EXCEPT !.queued = 0, !.cmd = 0, !.io_complete = 0] \in Unit
    BY Zenon DEF Unit
  <2> QED BY <1>3, <2>1 DEF ServiceEnd, bounds
<1>4. CASE AioCall
  <2>1. [unit EXCEPT !.queued = 0, !.callback = 1, !.started = 1] \in Unit
    BY Zenon DEF Unit
  <2> QED BY <1>4, <2>1 DEF AioCall, ServiceStart, IoLockFree, IoSignalled, Abort, bounds
<1>5. CASE SyncCall
  <2>1. [unit EXCEPT !.started = 1] \in Unit
    BY DEF Unit
  <2> QED BY <1>5, <2>1 DEF SyncCall, ServiceStart, bounds
<1>6. CASE SyncReturn
  <2>1. [unit EXCEPT !.queued = 0, !.io_complete = 1] \in Unit
    BY Zenon DEF Unit
  <2>2. Insert(Update([unit EXCEPT !.queued = 0, !.io_complete = 1])) \in Unit
    BY <2>1, UpdateType
  <2> QED BY <1>6, <2>2 DEF SyncReturn, ServiceStart, Abort, bounds
<1>7. CASE Cancel
  BY <1>7 DEF Cancel, bounds
<1>8. CASE CancelReturn
  <2>1. [Update(unit) EXCEPT !.queued = 0, !.cmd = 0] \in Unit
    <3>1. Update(unit) \in Unit
      BY UpdateType
    <3> QED BY <3>1, Zenon DEF Unit
  <2> QED BY <1>8, <2>1 DEF CancelReturn, IoLockFree, Abort, bounds
<1> QED BY <1>1, <1>2, <1>3, <1>4, <1>5, <1>6, <1>7, <1>8, Zenon DEF Service

\* So do the steps of a stop, of a mode change and of the flush they call.
LEMMA StopInv ==
  ASSUME DiskInv, Stop \/ Continue \/ SetAsynch \/ DiskClrAsync \/ Join \/ DiskSetAsync
                 \/ FlushFile \/ FlushEnd
  PROVE  DiskInv'
<1> USE DEF DiskInv, DiskTypeOK, TransferInv, SyncInv, NoThreadInv, FlushInv, MainSteps, Bit
<1>1. CASE Stop
  BY <1>1 DEF Stop
<1>2. CASE Continue
  BY <1>2 DEF Continue, bounds
<1>3. CASE SetAsynch
  BY <1>3 DEF SetAsynch
<1>4. CASE DiskClrAsync
  BY <1>4 DEF DiskClrAsync, IoLockFree, IoSignalled, bounds
<1>5. CASE Join
  BY <1>5 DEF Join, bounds
<1>6. CASE DiskSetAsync
  BY <1>6 DEF DiskSetAsync
<1>7. CASE FlushFile
  BY <1>7 DEF FlushFile, bounds
<1>8. CASE FlushEnd
  BY <1>8, UpdateType DEF FlushEnd, Abort, bounds
<1> QED BY <1>1, <1>2, <1>3, <1>4, <1>5, <1>6, <1>7, <1>8, Zenon

\* And those of the I/O thread.
LEMMA ThreadInv ==
  ASSUME DiskInv, IoThread \/ SpuriousWakeup
  PROVE  DiskInv'
<1> USE DEF DiskInv, DiskTypeOK, TransferInv, SyncInv, NoThreadInv, FlushInv, MainSteps, Bit
<1>1. CASE IoStart
  BY <1>1 DEF IoStart, bounds
<1>2. CASE SpuriousWakeup
  BY <1>2 DEF SpuriousWakeup
<1>3. CASE IoWake
  BY <1>3, Zenon DEF IoWake, bounds
<1>4. CASE IoDone
  BY <1>4 DEF IoDone, bounds
<1>5. CASE IoPost
  <2>1. [unit EXCEPT !.linked = 1] \in Unit
    BY DEF Unit
  <2> QED BY <1>5, <2>1 DEF IoPost, bounds
<1> QED BY <1>1, <1>2, <1>3, <1>4, <1>5 DEF IoThread

\* The invariant holds initially and every step keeps it.
THEOREM DiskInvariant == DiskSpec => []DiskInv
<1>1. DiskInit => DiskInv
  BY DEF DiskInit, DiskInv, DiskTypeOK, TransferInv, SyncInv, NoThreadInv, FlushInv, MainSteps, Bit, Unit
<1>2. DiskInv /\ [DiskNext]_diskVars => DiskInv'
  <2> SUFFICES ASSUME DiskInv, [DiskNext]_diskVars PROVE DiskInv'
    OBVIOUS
  <2>1. CASE DiskNext
    BY <2>1, MainInv, StopInv, ThreadInv DEF DiskNext, LibraryStep
  <2>2. CASE UNCHANGED diskVars
    BY <2>2 DEF diskVars, DiskInv, DiskTypeOK, TransferInv, SyncInv, NoThreadInv, FlushInv
  <2> QED BY <2>1, <2>2
<1> QED BY <1>1, <1>2, PTL DEF DiskSpec

\* The variables of the library and the device keep their types.
THEOREM DiskTypeCorrect == DiskSpec => []DiskTypeOK
<1>1. DiskInv => DiskTypeOK
  BY DEF DiskInv
<1> QED BY <1>1, DiskInvariant, PTL

\* sim_disk_clr_async and sim_disk_set_async hand the container file over: the main
\* thread never transfers or flushes (sim_disk.c:1093) while _disk_io transfers.
THEOREM FileHasOneUser == DiskSpec => []OneTransfer
<1>1. DiskInv => OneTransfer
  BY DEF DiskInv, TransferInv, SyncInv, OneTransfer
<1> QED BY <1>1, DiskInvariant, PTL
-----------------------------------------------------------------------------
(* What keeps the assertions of the library and its commands alive.        *)

CounterInv == stops \in Nat /\ modes \in Nat /\ failures \in Nat /\ spurious \in Nat

\* While nothing has disturbed the I/O thread, a request is in one of three stages,
\* its device waits for it, and without a request the thread sleeps.
QuietInv ==
  stops = 0 /\ spurious = 0 =>
    /\ main \in {"cpu", "cancel"} /\ sync = 0 /\ asynch_io = 1
    /\ unit.callback = 0 => io = "waiting" /\ io_dop = "IDLE" /\ unit.linked = 0
    /\ unit.callback = 1 =>
         /\ unit.queued = 0 /\ unit.cmd = 1
         /\ \/ io_dop = "XFER" /\ io \in {"woken", "transfer"} /\ unit.linked = 0
            \/ io_dop = "IDLE" /\ io = "posting" /\ unit.linked = 0
            \/ io_dop = "IDLE" /\ io = "waiting" /\ unit.linked = 1

\* io_dop stays DOP_DONE only while there is no thread or a new one starts, and a
\* transfer that is asked for has its callback.
DoneInv ==
  /\ asynch_io = 1 /\ io_dop = "DONE" => io = "starting"
  /\ io_dop = "XFER" => unit.callback = 1

\* Until the mode changes or a thread cannot be created, every flush ends with a new
\* thread, and a command in progress is scheduled.
ScheduleInv ==
  /\ modes = 0 => sim_asynch_enabled = 1
  /\ modes = 0 /\ failures = 0 =>
       /\ main \notin {"join", "set"} => asynch_io = 1
       /\ unit.cmd = 1 => unit.queued = 1 \/ unit.linked = 1 \/ unit.callback = 1

LiveInv == CounterInv /\ QuietInv /\ DoneInv /\ ScheduleInv

\* What sim_activate and the update of the queue do to the fields of a unit, when the
\* assertion of the completion dispatch holds.
LEMMA UpdateFields ==
  ASSUME NEW d \in Unit, io_dop \in {"DONE", "IDLE", "XFER"}
  PROVE  /\ Insert(d).linked = d.linked /\ Insert(d).cmd = d.cmd
         /\ Insert(d).callback = d.callback
         /\ d.queued = 1 => Insert(d).queued = 1
         /\ d.linked = 0 /\ io_dop = "IDLE" => Insert(d).queued = 1
         /\ d.linked = 0 => Update(d) = d
         /\ d.linked = 1 /\ io_dop = "IDLE" =>
              /\ Update(d).linked = 0 /\ Update(d).cmd = d.cmd
              /\ Update(d).callback = 0 /\ Update(d).queued = 1
<1>1. \A e \in Unit :
        /\ Insert(e) \in Unit
        /\ Insert(e).linked = e.linked /\ Insert(e).cmd = e.cmd /\ Insert(e).callback = e.callback
        /\ e.queued = 1 => Insert(e).queued = 1
        /\ e.linked = 0 /\ io_dop = "IDLE" => Insert(e).queued = 1
  BY DEF Insert, DiskIsActive, Unit, Bit
<1>2. d.linked = 0 => Update(d) = d
  BY DEF Update
<1>3. ASSUME d.linked = 1, io_dop = "IDLE"
      PROVE  /\ Update(d).linked = 0 /\ Update(d).cmd = d.cmd
             /\ Update(d).callback = 0 /\ Update(d).queued = 1
  <2> DEFINE a == [d EXCEPT !.linked = 0]
             b == Insert(a)
             c == [b EXCEPT !.callback = 0, !.io_complete = 1]
  <2>1. a \in Unit /\ a.linked = 0 /\ a.cmd = d.cmd
    BY DEF Unit, Bit
  <2>2. b \in Unit /\ b.linked = 0 /\ b.cmd = d.cmd /\ b.queued = 1
    BY <1>1, <1>3, <2>1, Zenon
  <2>3. c \in Unit /\ c.linked = 0 /\ c.cmd = d.cmd /\ c.queued = 1 /\ c.callback = 0
    BY <2>2, Zenon DEF Unit, Bit
  <2>4. Update(d) = IF b.callback = 0 THEN b ELSE Insert(c)
    BY <1>3 DEF Update, CompletionDispatch
  <2> HIDE DEF a, b, c
  <2> QED BY <1>1, <2>2, <2>3, <2>4
<1> QED BY <1>1, <1>2, <1>3

\* abort() changes nothing but the main thread, and only a stop or a spurious wakeup
\* lets it be called.
LEMMA AbortLive ==
  ASSUME DiskInv, LiveInv, Abort, stops # 0 \/ spurious # 0,
         main = "cpu" \/ main = "cancel" \/ main = "end"
  PROVE  LiveInv'
BY DEF DiskInv, DiskTypeOK, LiveInv, CounterInv, QuietInv, DoneInv, ScheduleInv, Abort, bounds

\* The steps of the main thread while instructions run keep it.
LEMMA MainLive ==
  ASSUME DiskInv, LiveInv, DiskPoll \/ Command \/ Service \/ Cancel \/ CancelReturn
  PROVE  LiveInv'
<1> USE DEF DiskInv, DiskTypeOK, NoThreadInv, SyncInv, LiveInv, CounterInv, QuietInv, DoneInv,
            ScheduleInv, Bit
<1>0. /\ unit.linked \in Bit /\ unit.queued \in Bit /\ unit.callback \in Bit /\ unit.cmd \in Bit
  BY DEF Unit
<1>u. UpdateAborts => stops # 0 \/ spurious # 0
  BY <1>0 DEF UpdateAborts
<1>1. CASE DiskPoll
  <2>1. CASE ~UpdateAborts
    BY <1>0, <1>1, <2>1, UpdateFields, Zenon DEF DiskPoll, UpdateAborts, bounds, Abort
  <2> QED BY <1>1, <1>u, <2>1, AbortLive, Zenon DEF DiskPoll
<1>2. CASE Command
  <2> DEFINE d == [unit EXCEPT !.cmd = 1, !.started = 0]
  <2>1. /\ d \in Unit /\ d.linked = unit.linked /\ d.cmd = 1 /\ d.callback = unit.callback
        /\ d.queued = unit.queued
    BY Zenon DEF Unit
  <2>2. CASE ~UpdateAborts /\ unit' = Insert(Update(d))
    <3>1. Update(d) \in Unit
      BY <2>1, UpdateType
    <3>2. /\ Update(d).linked = 0 /\ Update(d).cmd = 1
          /\ unit.linked = 1 => Update(d).callback = 0 /\ Update(d).queued = 1
          /\ unit.linked = 0 => Update(d).callback = unit.callback /\ Update(d).queued = unit.queued
      BY <1>0, <2>1, <2>2, UpdateFields, Zenon DEF UpdateAborts
    <3>3. /\ unit'.linked = 0 /\ unit'.cmd = 1 /\ unit'.callback = Update(d).callback
          /\ Update(d).queued = 1 => unit'.queued = 1
          /\ io_dop = "IDLE" => unit'.queued = 1
      BY <2>2, <3>1, <3>2, UpdateFields
    <3> HIDE DEF d
    <3> QED BY <1>0, <1>2, <2>2, <3>2, <3>3 DEF Command, FlushInv, UpdateAborts, bounds
  <2> QED BY <1>2, <1>u, <2>2, AbortLive DEF Command
<1>3. CASE ServiceEnd
  <2>1. /\ unit'.queued = 0 /\ unit'.cmd = 0
        /\ unit'.linked = unit.linked /\ unit'.callback = unit.callback
    BY <1>3 DEF ServiceEnd, Unit
  <2> QED BY <1>0, <1>3, <2>1 DEF ServiceEnd, bounds
<1>4. CASE AioCall
  <2>1. CASE unit.callback = 1
    BY <1>4, <2>1, AbortLive DEF AioCall, ServiceStart
  <2>2. CASE unit.callback = 0
    <3>1. /\ unit'.queued = 0 /\ unit'.cmd = unit.cmd
          /\ unit'.linked = unit.linked /\ unit'.callback = 1
      BY <1>4, <2>2, Zenon DEF AioCall, Unit
    <3> QED BY <1>0, <1>4, <2>2, <3>1 DEF AioCall, ServiceStart, IoLockFree, IoSignalled, bounds
  <2> QED BY <1>0, <2>1, <2>2, Zenon
<1>5. CASE SyncCall
  <2>1. /\ unit'.queued = unit.queued /\ unit'.cmd = unit.cmd
        /\ unit'.linked = unit.linked /\ unit'.callback = unit.callback
    BY <1>5 DEF SyncCall, Unit
  <2> QED BY <1>0, <1>5, <2>1 DEF SyncCall, ServiceStart, bounds
<1>6. CASE SyncReturn
  <2> DEFINE d == [unit EXCEPT !.queued = 0, !.io_complete = 1]
  <2>1. d \in Unit /\ d.linked = unit.linked /\ d.callback = unit.callback
    BY Zenon DEF Unit
  <2>2. asynch_io = 0 /\ io_dop = "DONE" /\ stops + spurious # 0
    BY <1>6 DEF SyncReturn, ServiceStart
  <2>3. CASE ~UpdateAborts
    BY <1>6, <2>2, <2>3 DEF SyncReturn, ServiceStart, Abort, bounds
  <2> QED BY <1>6, <1>u, <2>3, AbortLive DEF SyncReturn, ServiceStart
<1>7. CASE Cancel
  BY <1>0, <1>7 DEF Cancel, bounds
<1>8. CASE CancelReturn
  <2>1. CASE ~UpdateAborts /\ unit' = [Update(unit) EXCEPT !.queued = 0, !.cmd = 0]
    <3>1. /\ Update(unit) \in Unit
          /\ Update(unit).linked = 0
          /\ unit.linked = 1 => Update(unit).callback = 0
          /\ unit.linked = 0 => Update(unit) = unit
      BY <1>0, <2>1, UpdateFields, UpdateType DEF UpdateAborts
    <3>2. /\ unit'.linked = 0 /\ unit'.cmd = 0 /\ unit'.queued = 0
          /\ unit'.callback = Update(unit).callback
      BY <2>1, <3>1 DEF Unit
    <3> QED BY <1>0, <1>8, <2>1, <3>1, <3>2 DEF CancelReturn, IoLockFree, UpdateAborts, Abort, bounds
  <2> QED BY <1>8, <1>u, <2>1, AbortLive DEF CancelReturn
<1> QED BY <1>1, <1>2, <1>3, <1>4, <1>5, <1>6, <1>7, <1>8, Zenon DEF Service

\* So do the steps of a stop, of a mode change and of the flush they call.
LEMMA StopLive ==
  ASSUME DiskInv, LiveInv, Stop \/ Continue \/ SetAsynch \/ DiskClrAsync \/ Join \/ DiskSetAsync
                          \/ FlushFile \/ FlushEnd
  PROVE  LiveInv'
<1> USE DEF DiskInv, DiskTypeOK, NoThreadInv, FlushInv, LiveInv, CounterInv, QuietInv, DoneInv,
            ScheduleInv, Bit
<1>0. /\ unit.linked \in Bit /\ unit.queued \in Bit /\ unit.callback \in Bit /\ unit.cmd \in Bit
  BY Zenon DEF Unit
<1>1. CASE Stop
  BY <1>1 DEF Stop
<1>2. CASE Continue
  BY <1>2, Zenon DEF Continue, bounds
<1>3. CASE SetAsynch
  BY <1>3 DEF SetAsynch
<1>4. CASE DiskClrAsync
  BY <1>4, Zenon DEF DiskClrAsync, bounds
<1>5. CASE Join
  BY <1>5, Zenon DEF Join, bounds
<1>6. CASE DiskSetAsync
  BY <1>6 DEF DiskSetAsync
<1>7. CASE FlushFile
  BY <1>7 DEF FlushFile, bounds
<1>8. CASE FlushEnd
  <2>1. stops # 0 \/ spurious # 0
    BY <1>8 DEF FlushEnd
  <2>2. CASE why = "stop" /\ UpdateAborts /\ Abort
    BY <1>8, <2>1, <2>2, AbortLive, Zenon DEF FlushEnd
  <2>3. CASE ~(why = "stop" /\ UpdateAborts /\ Abort)
    <3>1. io_dop # "XFER" /\ stops' = stops /\ modes' = modes /\ failures' = failures
          /\ spurious' = spurious /\ io_dop' = io_dop /\ io' = io /\ asynch_io' = asynch_io
          /\ sim_asynch_enabled' = sim_asynch_enabled /\ main = "end" /\ main' = "stopped"
      BY <1>8, <2>3 DEF FlushEnd, bounds
    <3>2. /\ unit'.cmd = unit.cmd
          /\ \/ unit'.queued = 1
             \/ unit'.queued = unit.queued /\ unit'.linked = unit.linked
                                           /\ unit'.callback = unit.callback
      BY <1>0, <1>8, <2>3, UpdateFields, Zenon DEF FlushEnd, UpdateAborts
    <3> QED BY <2>1, <3>1, <3>2
  <2> QED BY <2>2, <2>3, Zenon
<1> QED BY <1>1, <1>2, <1>3, <1>4, <1>5, <1>6, <1>7, <1>8, Zenon

\* And those of the I/O thread.
LEMMA ThreadLive ==
  ASSUME DiskInv, LiveInv, IoThread \/ SpuriousWakeup
  PROVE  LiveInv'
<1> USE DEF DiskInv, DiskTypeOK, TransferInv, FlushInv, LiveInv, CounterInv, QuietInv, DoneInv,
            ScheduleInv, Bit
<1>0. /\ unit.linked \in Bit /\ unit.queued \in Bit /\ unit.callback \in Bit /\ unit.cmd \in Bit
  BY Zenon DEF Unit
<1>1. CASE IoStart
  BY <1>1 DEF IoStart, bounds
<1>2. CASE SpuriousWakeup
  BY <1>2 DEF SpuriousWakeup
<1>3. CASE IoWake
  BY <1>0, <1>3, Zenon DEF IoWake, bounds
<1>4. CASE IoDone
  BY <1>0, <1>4 DEF IoDone, bounds
<1>5. CASE IoPost
  <2>1. /\ unit'.queued = unit.queued /\ unit'.cmd = unit.cmd
        /\ unit'.linked = 1 /\ unit'.callback = unit.callback
    BY <1>5 DEF IoPost, Unit
  <2> QED BY <1>0, <1>5, <2>1 DEF IoPost, bounds
<1> QED BY <1>1, <1>2, <1>3, <1>4, <1>5, Zenon DEF IoThread

\* The library's and the device's state agree in every reachable state.
THEOREM LiveInvariant == DiskSpec => []LiveInv
<1>1. DiskInit => LiveInv
  BY DEF DiskInit, LiveInv, CounterInv, QuietInv, DoneInv, ScheduleInv
<1>2. DiskInv /\ LiveInv /\ [DiskNext]_diskVars => LiveInv'
  <2> SUFFICES ASSUME DiskInv, LiveInv, [DiskNext]_diskVars PROVE LiveInv'
    OBVIOUS
  <2>1. CASE DiskNext
    BY <2>1, MainLive, StopLive, ThreadLive DEF DiskNext, LibraryStep
  <2>2. CASE UNCHANGED diskVars
    BY <2>2 DEF diskVars, bounds, LiveInv, CounterInv, QuietInv, DoneInv, ScheduleInv
  <2> QED BY <2>1, <2>2
<1> QED BY <1>1, <1>2, DiskInvariant, PTL DEF DiskSpec

\* AIO_CALL and _disk_completion_dispatch never reach abort() while the simulator runs
\* and no wait of the I/O thread ends by itself, however many commands and resets.
THEOREM AssertionsHold == DiskSpec => []NeverAborts
<1>1. LiveInv => NeverAborts
  BY DEF LiveInv, CounterInv, QuietInv, NeverAborts
<1> QED BY <1>1, LiveInvariant, PTL

\* A device with a command has its unit scheduled or a transfer pending, through any
\* number of stops, resets and spurious wakeups.
THEOREM CommandsAreScheduled == DiskSpec => []CommandIsScheduled
<1>1. LiveInv => CommandIsScheduled
  BY DEF LiveInv, ScheduleInv, CommandIsScheduled
<1> QED BY <1>1, LiveInvariant, PTL

-----------------------------------------------------------------------------
(* Ethernet.                                                               *)

-----------------------------------------------------------------------------
(* Where the threads are, and what the counters say about it.              *)

Rx == [read_queue : 0 .. Capacity, poll : {0, 1}, asynch_io : {0, 1},
       receiver : {"off", "starting", "on"}, packets : Nat]
Net == [waiting : 0 .. 3, needs_reset : {0, 1}, errors : Nat, port : {"open", "none", "invalid"}]
Calls == [modes : Nat, checks : Nat, failures : Nat]

PcInv == pc = [t \in Thread |-> pc[t]]

RecordInv ==
  /\ rx \in Rx /\ net \in Net /\ calls \in Calls
  /\ reader_status \in {"INIT", "RUNNING", "SHUTDOWN", "ERROR"}
  /\ writer_status \in {"INIT", "RUNNING", "SHUTDOWN"}

\* A thread is created once, and all of them end in a crash together.
StartInv ==
  /\ pc.main = "closed" => pc.reader = "none" /\ pc.writer = "none"
  /\ pc.main = "start writer" => pc.writer = "none"
  /\ \A t \in Thread : pc[t] = "crashed" => pc.main = "crashed" /\ pc.reader = "crashed" /\ pc.writer = "crashed"

Started(t) == IF pc[t] \in {"none", "init", "ready"} THEN 0 ELSE 1

\* threads_ready counts threads that have reported once.
ReadyInv == threads_ready \in Nat /\ threads_ready <= Started("reader") + Started("writer")

Waiting(t) == IF pc[t] \in {"sleep", "reopen", "opening"} THEN 1 ELSE 0

\* error_waiting_threads counts the threads inside _eth_error.
WaitInv == pc.main # "crashed" => net.waiting = Waiting("main") + Waiting("reader") + Waiting("writer")

\* The main thread only sends in "check", and the port is reopened while two
\* threads are inside _eth_error.
AloneInv ==
  /\ pc.main \notin {"receive", "read", "send"}
  /\ \A t \in Thread : pc[t] \in {"reopen", "opening"} => net.waiting = 2

\* One thread at a time owns dev->lock to reopen the port.
DevLockInv ==
  \A t, u \in Thread : pc[t] \in {"reopen", "opening"} /\ pc[u] \in {"reopen", "opening"} => t = u

PlaceInv == PcInv /\ RecordInv /\ StartInv /\ ReadyInv /\ WaitInv /\ DevLockInv /\ AloneInv

\* A thread that goes from one step to the next, outside _eth_error and after it has
\* reported, keeps what relates the threads to the counters.
LEMMA MovePlace ==
  ASSUME PlaceInv, NEW t \in Thread, NEW from, NEW to, Move(t, from, to),
         from \notin {"crashed", "sleep", "reopen", "opening", "none", "init", "ready"},
         to \notin {"crashed", "sleep", "reopen", "opening", "none", "init", "ready",
                   "closed", "start writer"},
         t = "main" => to \notin {"receive", "read", "send"},
         threads_ready' = threads_ready, net'.waiting = net.waiting, RecordInv'
  PROVE  PlaceInv'
<1>1. /\ pc[t] = from /\ pc'[t] = to /\ \A u \in Thread \ {t} : pc'[u] = pc[u]
      /\ PcInv'
  BY Zenon DEF PlaceInv, PcInv, Move
<1>2. \A u \in Thread : pc[u] # "crashed"
  BY <1>1, Zenon DEF PlaceInv, StartInv, Thread
<1>3. \A u \in Thread : /\ Waiting(u)' = Waiting(u) /\ Started(u)' = Started(u)
                        /\ pc'[u] # "crashed"
                        /\ pc'[u] \in {"reopen", "opening"} <=> pc[u] \in {"reopen", "opening"}
                        /\ pc'[u] = "none" <=> pc[u] = "none"
                        /\ pc'[u] \in {"closed", "start writer"} => pc'[u] = pc[u]
  BY <1>1, <1>2, Zenon DEF Waiting, Started
<1>4. pc'.main \in {"receive", "read", "send"} => pc'.main = pc.main
  BY <1>1, Zenon DEF Thread
<1> USE DEF PlaceInv, Thread
<1>5. StartInv'
  BY <1>3, Zenon DEF StartInv
<1>6. ReadyInv' /\ WaitInv'
  BY <1>2, <1>3, Zenon DEF ReadyInv, WaitInv
<1>7. DevLockInv' /\ AloneInv'
  BY <1>3, <1>4, Zenon DEF DevLockInv, AloneInv
<1> QED BY <1>1, <1>5, <1>6, <1>7, Zenon

\* The counters of the calls stay numbers.
LEMMA CallsStep ==
  ASSUME NEW c \in Calls
  PROVE  /\ [c EXCEPT !.modes = @ + 1] \in Calls
         /\ [c EXCEPT !.failures = @ + 1] \in Calls
         /\ [c EXCEPT !.checks = @ + 1] \in Calls
BY DEF Calls

\* So do those of the receiver, within the capacity of read_queue, and of the errors.
LEMMA CountStep ==
  /\ \A r \in Rx : [r EXCEPT !.packets = @ + 1, !.read_queue = IF @ < Capacity THEN @ + 1 ELSE @] \in Rx
  /\ \A n \in Net : LET m == [n EXCEPT !.errors = @ + 1] IN m \in Net /\ m.waiting = n.waiting
<1>1. ASSUME NEW r \in Rx
      PROVE  [r EXCEPT !.packets = @ + 1, !.read_queue = IF @ < Capacity THEN @ + 1 ELSE @] \in Rx
  <2>1. (IF r.read_queue < Capacity THEN r.read_queue + 1 ELSE r.read_queue) \in 0 .. Capacity
    BY EthSizeAssumption DEF Rx
  <2>2. r.packets + 1 \in Nat
    BY DEF Rx
  <2> QED BY <2>1, <2>2, Zenon DEF Rx
<1>2. ASSUME NEW n \in Net
      PROVE  [n EXCEPT !.errors = @ + 1] \in Net /\ [n EXCEPT !.errors = @ + 1].waiting = n.waiting
  BY DEF Net
<1> QED BY <1>1, <1>2, Zenon

\* So does a step that signals writer_cond as well.
LEMMA TwoMoves ==
  ASSUME PlaceInv, PcInv', RecordInv', UNCHANGED <<threads_ready, net, calls>>,
         \/ /\ pc.main \in {"write", "stop writer"} /\ pc'.main \in {"open", "join writer"}
            /\ pc'.reader = pc.reader
         \/ pc'.main = pc.main /\ pc.reader = "write" /\ pc'.reader = "read",
         pc'.writer = pc.writer \/ (pc.writer = "waiting" /\ pc'.writer = "signalled")
  PROVE  PlaceInv'
<1>1. \A u \in Thread : /\ Waiting(u)' = Waiting(u) /\ Started(u)' = Started(u)
                        /\ pc[u] # "crashed" /\ pc'[u] # "crashed"
                        /\ pc'[u] \in {"reopen", "opening"} <=> pc[u] \in {"reopen", "opening"}
                        /\ pc'[u] = "none" <=> pc[u] = "none"
                        /\ pc'[u] \in {"closed", "start writer"} => pc'[u] = pc[u]
  BY Zenon DEF Waiting, Started, Thread, PlaceInv, StartInv
<1>2. pc'.main = pc.main \/ pc'.main \in {"open", "join writer"}
  BY Zenon
<1> USE DEF PlaceInv, Thread
<1>3. StartInv'
  BY <1>1, Zenon DEF StartInv
<1>4. ReadyInv' /\ WaitInv'
  BY <1>1, Zenon DEF ReadyInv, WaitInv
<1>5. DevLockInv' /\ AloneInv'
  BY <1>1, <1>2, Zenon DEF DevLockInv, AloneInv
<1> QED BY <1>3, <1>4, <1>5, Zenon

\* The steps of the main thread keep it, but for those inside _eth_error and eth_open.
LEMMA MainPlace ==
  ASSUME PlaceInv, Library \/ Device, ~StartReader, ~StartWriter, ~Error("main")
  PROVE  PlaceInv'
<1> USE EthSizeAssumption, EthBoundAssumption
<1>0. RecordInv
  BY DEF PlaceInv
<1>1. CASE Opened
  <2>1. Move("main", "await ready", "check")
    BY <1>1, Zenon DEF Opened
  <2>2. /\ RecordInv' /\ threads_ready' = threads_ready /\ net'.waiting = net.waiting
    BY <1>0, <1>1, Zenon DEF Opened, RecordInv, Rx, Net, Calls, status
  <2> QED BY <2>1, <2>2, MovePlace, Zenon DEF Thread
<1>2. CASE SetAsync
  <2>1. Move("main", "open", "set async") /\ calls' = [calls EXCEPT !.modes = @ + 1]
    BY <1>2, Zenon DEF SetAsync
  <2>2. calls' \in Calls
    BY <1>0, <2>1, CallsStep, Zenon DEF RecordInv
  <2>3. /\ rx' \in Rx /\ net' = net /\ UNCHANGED status
    BY <1>0, <1>2, Zenon DEF SetAsync, Asynchronous, RecordInv, Rx
  <2>4. RecordInv' /\ threads_ready' = threads_ready
    BY <1>0, <1>2, <2>2, <2>3, Zenon DEF SetAsync, RecordInv, status
  <2> QED BY <2>1, <2>2, <2>3, <2>4, MovePlace, Zenon DEF Thread
<1>3. CASE SetAsyncPoll
  <2>1. Move("main", "set async", "open")
    BY <1>3, Zenon DEF SetAsyncPoll
  <2>2. /\ RecordInv' /\ threads_ready' = threads_ready /\ net'.waiting = net.waiting
    BY <1>0, <1>3, Zenon DEF SetAsyncPoll, RecordInv, Rx, Net, Calls, status
  <2> QED BY <2>1, <2>2, MovePlace, Zenon DEF Thread
<1>4. CASE Poll
  <2>1. \E to \in {"open", "poll"} : Move("main", "open", to)
    BY <1>4, Zenon DEF Poll
  <2>2. /\ RecordInv' /\ threads_ready' = threads_ready /\ net'.waiting = net.waiting
    BY <1>0, <1>4 DEF Poll, RecordInv, Rx, Net, Calls, status
  <2> QED BY <2>1, <2>2, MovePlace, Zenon DEF Thread
<1>5. CASE Close
  <2>1. Move("main", "open", "stop")
    BY <1>5 DEF Close
  <2>2. /\ RecordInv' /\ threads_ready' = threads_ready /\ net'.waiting = net.waiting
    BY <1>0, <1>5 DEF Close, RecordInv, Rx, Net, Calls, status
  <2> QED BY <2>1, <2>2, MovePlace, Zenon DEF Thread
<1>6. CASE StopReader
  <2>1. Move("main", "stop", "join reader")
    BY <1>6, Zenon DEF StopReader
  <2>2. /\ RecordInv' /\ threads_ready' = threads_ready /\ net'.waiting = net.waiting
    BY <1>0, <1>6, Zenon DEF StopReader, RecordInv, Rx, Net, Calls, status
  <2> QED BY <2>1, <2>2, MovePlace, Zenon DEF Thread
<1>7. CASE JoinReader
  <2>1. Move("main", "join reader", "stop writer")
    BY <1>7, Zenon DEF JoinReader
  <2>2. /\ RecordInv' /\ threads_ready' = threads_ready /\ net'.waiting = net.waiting
    BY <1>0, <1>7, Zenon DEF JoinReader, RecordInv, Rx, Net, Calls, status
  <2> QED BY <2>1, <2>2, MovePlace, Zenon DEF Thread
<1>8. CASE JoinWriter
  <2>1. Move("main", "join writer", "done")
    BY <1>8, Zenon DEF JoinWriter
  <2>2. /\ RecordInv' /\ threads_ready' = threads_ready /\ net'.waiting = net.waiting
    BY <1>0, <1>8, Zenon DEF JoinWriter, RecordInv, Rx, Net, Calls, status
  <2> QED BY <2>1, <2>2, MovePlace, Zenon DEF Thread
<1>9. CASE WriteBegin("main", "open")
  <2>1. Move("main", "open", "write")
    BY <1>9 DEF WriteBegin
  <2>2. /\ RecordInv' /\ threads_ready' = threads_ready /\ net'.waiting = net.waiting
    BY <1>0, <1>9 DEF WriteBegin, RecordInv, Rx, Net, Calls, status
  <2> QED BY <2>1, <2>2, MovePlace, Zenon DEF Thread
<1>10. CASE ClrAsync
  <2>1. Move("main", "stop receiver", "open")
    BY <1>10, Zenon DEF ClrAsync
  <2>2. /\ RecordInv' /\ threads_ready' = threads_ready /\ net'.waiting = net.waiting
    BY <1>0, <1>10, Zenon DEF ClrAsync, RecordInv, Rx, Net, Calls, status
  <2> QED BY <2>1, <2>2, MovePlace, Zenon DEF Thread
<1>11. CASE EthRead
  <2>1. \E to \in {"poll", "open"} : Move("main", "poll", to)
    BY <1>11 DEF EthRead
  <2>2. /\ RecordInv' /\ threads_ready' = threads_ready /\ net'.waiting = net.waiting
    BY <1>0, <1>11 DEF EthRead, RecordInv, Rx, Net, Calls, status
  <2> QED BY <2>1, <2>2, MovePlace, Zenon DEF Thread
<1>12. CASE CheckAddress
  <2>1. /\ Move("main", "open", "check") /\ calls' = [calls EXCEPT !.checks = @ + 1]
        /\ UNCHANGED <<status, rx, net>>
    BY <1>12, Zenon DEF CheckAddress
  <2>2. calls' \in Calls
    BY <1>0, <2>1, CallsStep, Zenon DEF RecordInv
  <2>3. RecordInv' /\ threads_ready' = threads_ready
    BY <1>0, <2>1, <2>2, Zenon DEF RecordInv, status
  <2> QED BY <2>1, <2>3, MovePlace, Zenon DEF Thread
<1>13. CASE Checked
  <2>1. \E to \in {"poll", "open", "error"} : Move("main", "check", to)
    BY <1>13 DEF Checked
  <2>2. /\ RecordInv' /\ threads_ready' = threads_ready /\ net'.waiting = net.waiting
    BY <1>0, <1>13 DEF Checked, RecordInv, Rx, Net, Calls, status
  <2> QED BY <2>1, <2>2, MovePlace, Zenon DEF Thread
<1>14. CASE StopWriter
  <2>1. /\ pc.main = "stop writer" /\ pc'.main = "join writer" /\ pc'.reader = pc.reader
        /\ pc'.writer = pc.writer \/ (pc.writer = "waiting" /\ pc'.writer = "signalled")
        /\ PcInv'
    BY <1>14, Zenon DEF StopWriter, Signalled, PlaceInv, PcInv, Thread
  <2>2. /\ RecordInv' /\ threads_ready' = threads_ready /\ net' = net /\ calls' = calls
    BY <1>0, <1>14, Zenon DEF StopWriter, RecordInv, Rx, Net, Calls, status
  <2> QED BY <2>1, <2>2, TwoMoves, Zenon DEF Thread
<1>15. CASE WriteEnd("main", "open")
  <2>1. /\ pc.main = "write" /\ pc'.main = "open" /\ pc'.reader = pc.reader
        /\ pc'.writer = pc.writer \/ (pc.writer = "waiting" /\ pc'.writer = "signalled")
        /\ PcInv'
    <3>1. DOMAIN pc = Thread
      BY DEF PlaceInv, PcInv
    <3> DEFINE back == [pc EXCEPT !["main"] = "open"]
    <3>2. /\ back.main = "open" /\ back.reader = pc.reader /\ back.writer = pc.writer
          /\ back = [t \in Thread |-> back[t]]
      BY <3>1 DEF PlaceInv, PcInv, Thread
    <3>3. pc.main = "write" /\ (pc' = back \/ pc' = Signalled(back))
      BY <1>15 DEF WriteEnd
    <3> HIDE DEF back
    <3> QED BY <3>2, <3>3 DEF Signalled, PcInv, Thread
  <2>2. /\ RecordInv' /\ threads_ready' = threads_ready /\ net' = net /\ calls' = calls
    BY <1>0, <1>15 DEF WriteEnd, RecordInv, Rx, Net, Calls, status
  <2> QED BY <2>1, <2>2, TwoMoves
<1>16. CASE ReceiverStart
  <2>1. pc' = pc /\ calls' = [calls EXCEPT !.modes = @ + 1] /\ UNCHANGED <<status, net>>
    BY <1>16, Zenon DEF ReceiverStart
  <2>2. calls' \in Calls
    BY <1>0, <2>1, CallsStep, Zenon DEF RecordInv
  <2>3. rx' \in Rx
    BY <1>0, <1>16, Zenon DEF ReceiverStart, RecordInv, Rx
  <2>4. RecordInv' /\ threads_ready' = threads_ready
    BY <1>0, <2>1, <2>2, <2>3, Zenon DEF RecordInv, status
  <2> QED BY <2>1, <2>4, Zenon
          DEF PlaceInv, PcInv, StartInv, ReadyInv, WaitInv, DevLockInv, AloneInv,
              Started, Waiting
<1>17. CASE ReceiverStarted
  <2>1. Move("main", "open", "set async")
    BY <1>17, Zenon DEF ReceiverStarted
  <2>2. rx' = [[rx EXCEPT !.receiver = "on"] EXCEPT !.asynch_io = 1]
    BY <1>17, Zenon DEF ReceiverStarted, Asynchronous
  <2>3. rx' \in Rx
    BY <1>0, <2>2, Zenon DEF RecordInv, Rx
  <2>4. /\ RecordInv' /\ threads_ready' = threads_ready /\ net'.waiting = net.waiting
    BY <1>0, <1>17, <2>3, Zenon DEF ReceiverStarted, RecordInv, status
  <2> QED BY <2>1, <2>4, MovePlace, Zenon DEF Thread
<1>18. CASE ReceiverStop
  <2>1. Move("main", "open", "stop receiver")
    BY <1>18, Zenon DEF ReceiverStop
  <2>2. /\ RecordInv' /\ threads_ready' = threads_ready /\ net'.waiting = net.waiting
    BY <1>0, <1>18, Zenon DEF ReceiverStop, RecordInv, Rx, Net, Calls, status
  <2> QED BY <2>1, <2>2, MovePlace, Zenon DEF Thread
<1> QED BY <1>1, <1>2, <1>3, <1>4, <1>5, <1>6, <1>7, <1>8, <1>9, <1>10, <1>11, <1>12, <1>13, <1>14, <1>15,
           <1>16, <1>17, <1>18 DEF Library, Device

\* So do the steps of eth_start_threads, whether or not the thread can be created.
LEMMA CreatePlace ==
  ASSUME PlaceInv, StartReader \/ StartWriter
  PROVE  PlaceInv'
<1>0. RecordInv
  BY DEF PlaceInv
<1>r. RecordInv' /\ UNCHANGED <<threads_ready, net>>
  <2>1. calls' = calls \/ calls' = [calls EXCEPT !.failures = @ + 1]
    BY Zenon DEF StartReader, StartWriter, Create
  <2>2. UNCHANGED <<status, rx, net>>
    BY Zenon DEF StartReader, StartWriter, Create
  <2>3. calls' \in Calls
    BY <1>0, <2>1, CallsStep, Zenon DEF RecordInv
  <2> QED BY <1>0, <2>2, <2>3 DEF RecordInv, status
<1>1. CASE Move("main", "closed", "stop") \/ Move("main", "start writer", "stop")
  BY <1>1, <1>r, MovePlace, Zenon DEF Thread
<1>2. CASE /\ pc.main = "closed" /\ pc' = [pc EXCEPT !.main = "start writer", !["reader"] = "init"]
  <2>1. /\ pc.reader = "none" /\ pc.writer = "none"
        /\ pc'.main = "start writer" /\ pc'.reader = "init" /\ pc'.writer = pc.writer /\ PcInv'
    BY <1>2, Zenon DEF PlaceInv, PcInv, StartInv, Thread
  <2> QED BY <1>2, <1>r, <2>1, Zenon DEF PlaceInv, StartInv, ReadyInv, WaitInv, DevLockInv, AloneInv, Started, Waiting, Thread
<1>3. CASE /\ pc.main = "start writer" /\ pc' = [pc EXCEPT !.main = "await ready", !["writer"] = "init"]
  <2>1. /\ pc.writer = "none" /\ pc.reader # "crashed"
        /\ pc'.main = "await ready" /\ pc'.writer = "init" /\ pc'.reader = pc.reader /\ PcInv'
    BY <1>3, Zenon DEF PlaceInv, PcInv, StartInv, Thread
  <2> QED BY <1>3, <1>r, <2>1, Zenon DEF PlaceInv, StartInv, ReadyInv, WaitInv, DevLockInv, AloneInv, Started, Waiting, Thread
<1> QED BY <1>1, <1>2, <1>3, Zenon DEF StartReader, StartWriter, Create

\* A new thread reports once.
LEMMA ReportPlace ==
  ASSUME PlaceInv, NEW t \in {"reader", "writer"}, RecordInv', UNCHANGED <<net, calls>>,
         \/ Move(t, "init", "ready") /\ threads_ready' = threads_ready
         \/ Move(t, "ready", "run") /\ threads_ready' = threads_ready + 1
  PROVE  PlaceInv'
<1>1. /\ pc[t] \in {"init", "ready"} /\ pc'[t] \in {"ready", "run"}
      /\ pc[t] = "init" => pc'[t] = "ready" /\ threads_ready' = threads_ready
      /\ pc[t] = "ready" => pc'[t] = "run" /\ threads_ready' = threads_ready + 1
      /\ \A u \in Thread \ {t} : pc'[u] = pc[u]
      /\ PcInv'
  BY DEF PlaceInv, PcInv, Move, Thread
<1>2. /\ pc[t] # "none" /\ Started(t) = 0
      /\ threads_ready' + Started(t) <= threads_ready + Started(t)'
      /\ \A u \in Thread \ {t} : Started(u)' = Started(u)
      /\ Started(t)' \in {0, 1}
  BY <1>1 DEF Started, PlaceInv, ReadyInv
<1>3. ReadyInv'
  <2>1. threads_ready \in Nat /\ threads_ready <= Started("reader") + Started("writer")
    BY DEF PlaceInv, ReadyInv
  <2>2. \A u \in Thread : Started(u) \in {0, 1}
    BY DEF Started
  <2>3. threads_ready' \in Nat
    BY <1>1, <2>1
  <2>4. CASE t = "reader"
    BY <1>2, <2>1, <2>2, <2>3, <2>4 DEF ReadyInv, Thread
  <2>5. CASE t = "writer"
    BY <1>2, <2>1, <2>2, <2>3, <2>5 DEF ReadyInv, Thread
  <2> QED BY <2>4, <2>5
<1>4. \A u \in Thread : /\ Waiting(u)' = Waiting(u) /\ pc[u] # "crashed" /\ pc'[u] # "crashed"
                        /\ pc'[u] \in {"reopen", "opening"} <=> pc[u] \in {"reopen", "opening"}
  BY <1>1, Zenon DEF Waiting, PlaceInv, StartInv, Thread
<1>5. pc'.main = pc.main /\ (pc.reader = "none" => pc'.reader = "none") /\ (pc.writer = "none" => pc'.writer = "none")
  BY <1>1 DEF Thread
<1>6. StartInv' /\ WaitInv' /\ DevLockInv' /\ AloneInv'
  BY <1>4, <1>5, Zenon DEF PlaceInv, StartInv, WaitInv, DevLockInv, AloneInv, Thread
<1> QED BY <1>1, <1>3, <1>6 DEF PlaceInv

\* The steps of the reader keep it.
LEMMA ReaderPlace ==
  ASSUME PlaceInv, Reader, ~Error("reader")
  PROVE  PlaceInv'
<1> USE EthSizeAssumption, EthBoundAssumption
<1>0. RecordInv
  BY DEF PlaceInv
<1>1. CASE ReaderInit
  <2>1. Move("reader", "init", "ready") /\ threads_ready' = threads_ready /\ UNCHANGED <<net, calls>>
    BY <1>1 DEF ReaderInit
  <2>2. RecordInv'
    BY <1>0, <1>1 DEF ReaderInit, RecordInv
  <2> QED BY <2>1, <2>2, ReportPlace
<1>2. CASE ReaderReady
  <2>1. Move("reader", "ready", "run") /\ threads_ready' = threads_ready + 1 /\ UNCHANGED <<net, calls>>
    BY <1>2 DEF ReaderReady
  <2>2. RecordInv'
    BY <1>0, <1>2 DEF ReaderReady, RecordInv
  <2> QED BY <2>1, <2>2, ReportPlace
<1>3. CASE ReaderRun
  <2>1. Move("reader", "run", "test")
    BY <1>3 DEF ReaderRun
  <2>2. /\ RecordInv' /\ threads_ready' = threads_ready /\ net'.waiting = net.waiting
    BY <1>0, <1>3 DEF ReaderRun, RecordInv, Rx, Net, Calls, status
  <2> QED BY <2>1, <2>2, MovePlace, Zenon DEF Thread
<1>4. CASE ReaderTest
  <2>1. \E from \in {"test"}, to \in {"receive", "exited"} : Move("reader", from, to)
    BY <1>4 DEF ReaderTest
  <2>2. /\ RecordInv' /\ threads_ready' = threads_ready /\ net'.waiting = net.waiting
    BY <1>0, <1>4 DEF ReaderTest, RecordInv, Rx, Net, Calls, status
  <2> QED BY <2>1, <2>2, MovePlace, Zenon DEF Thread
<1>5. CASE ReaderWait
  <2>1. CASE net.port # "open"
    <3>1. /\ pc' = [t \in Thread |-> "crashed"] /\ UNCHANGED <<status, rx, net, calls>>
      BY <1>5, <2>1 DEF ReaderWait
    <3>2. \A t \in Thread : pc'[t] = "crashed"
      BY <3>1
    <3>3. RecordInv' /\ PcInv' /\ StartInv' /\ WaitInv' /\ DevLockInv' /\ AloneInv'
      BY <1>0, <3>1, <3>2 DEF RecordInv, PcInv, StartInv, WaitInv, DevLockInv, AloneInv, status, Thread
    <3>4. threads_ready \in Nat /\ threads_ready <= Started("reader") + Started("writer")
      BY DEF PlaceInv, ReadyInv
    <3>5. ReadyInv'
      BY <3>1, <3>2, <3>4 DEF ReadyInv, Started, Thread, status
    <3> QED BY <3>3, <3>5 DEF PlaceInv
  <2>2. CASE net.port = "open"
    <3>1. \E to \in {"activate", "read"} : Move("reader", "receive", to)
      BY <1>5, <2>2 DEF ReaderWait
    <3>2. /\ RecordInv' /\ threads_ready' = threads_ready /\ net' = net /\ calls' = calls
      BY <1>0, <1>5 DEF ReaderWait, RecordInv, status
    <3> QED BY <3>1, <3>2, MovePlace, Zenon DEF Thread
  <2> QED BY <2>1, <2>2
<1>6. CASE ReaderPacket
  <2>1. /\ Move("reader", "read", "read") /\ UNCHANGED <<status, net, calls>>
        /\ rx' = [rx EXCEPT !.packets = @ + 1, !.read_queue = IF @ < Capacity THEN @ + 1 ELSE @]
    BY <1>6 DEF ReaderPacket
  <2>2. rx' \in Rx
    BY <1>0, <2>1, CountStep, Zenon DEF RecordInv
  <2>3. RecordInv' /\ threads_ready' = threads_ready
    BY <1>0, <2>1, <2>2 DEF RecordInv, status
  <2> QED BY <2>1, <2>3, MovePlace, Zenon DEF Thread
<1>7. CASE ReaderRead
  <2>1. Move("reader", "read", "activate")
    BY <1>7 DEF ReaderRead
  <2>2. /\ RecordInv' /\ threads_ready' = threads_ready /\ net'.waiting = net.waiting
    BY <1>0, <1>7 DEF ReaderRead, RecordInv, Rx, Net, Calls, status
  <2> QED BY <2>1, <2>2, MovePlace, Zenon DEF Thread
<1>8. CASE ReaderError
  <2>1. \E from \in {"receive", "read"}, to \in {"test", "error"} : Move("reader", from, to)
    BY <1>8 DEF ReaderError
  <2>2. /\ RecordInv' /\ threads_ready' = threads_ready /\ net'.waiting = net.waiting
    BY <1>0, <1>8 DEF ReaderError, RecordInv, Rx, Net, Calls, status
  <2> QED BY <2>1, <2>2, MovePlace, Zenon DEF Thread
<1>9. CASE ReaderActivate
  <2>1. \E from \in {"activate"}, to \in {"schedule", "test"} : Move("reader", from, to)
    BY <1>9 DEF ReaderActivate
  <2>2. /\ RecordInv' /\ threads_ready' = threads_ready /\ net'.waiting = net.waiting
    BY <1>0, <1>9 DEF ReaderActivate, RecordInv, Rx, Net, Calls, status
  <2> QED BY <2>1, <2>2, MovePlace, Zenon DEF Thread
<1>10. CASE ReaderSchedule
  <2>1. Move("reader", "schedule", "test")
    BY <1>10 DEF ReaderSchedule
  <2>2. /\ RecordInv' /\ threads_ready' = threads_ready /\ net'.waiting = net.waiting
    BY <1>0, <1>10 DEF ReaderSchedule, RecordInv, Rx, Net, Calls, status
  <2> QED BY <2>1, <2>2, MovePlace, Zenon DEF Thread
<1>11. CASE WriteBegin("reader", "read")
  <2>1. Move("reader", "read", "write")
    BY <1>11 DEF WriteBegin
  <2>2. /\ RecordInv' /\ threads_ready' = threads_ready /\ net'.waiting = net.waiting
    BY <1>0, <1>11 DEF WriteBegin, RecordInv, Rx, Net, Calls, status
  <2> QED BY <2>1, <2>2, MovePlace, Zenon DEF Thread
<1>12. CASE WriteEnd("reader", "read")
  <2>1. /\ pc.reader = "write" /\ pc'.reader = "read" /\ pc'.main = pc.main
        /\ pc'.writer = pc.writer \/ (pc.writer = "waiting" /\ pc'.writer = "signalled")
        /\ PcInv'
    <3>1. DOMAIN pc = Thread
      BY DEF PlaceInv, PcInv
    <3> DEFINE back == [pc EXCEPT !["reader"] = "read"]
    <3>2. /\ back.reader = "read" /\ back.main = pc.main /\ back.writer = pc.writer
          /\ back = [t \in Thread |-> back[t]]
      BY <3>1 DEF PlaceInv, PcInv, Thread
    <3>3. pc.reader = "write" /\ (pc' = back \/ pc' = Signalled(back))
      BY <1>12 DEF WriteEnd
    <3> HIDE DEF back
    <3> QED BY <3>2, <3>3 DEF Signalled, PcInv, Thread
  <2>2. /\ RecordInv' /\ threads_ready' = threads_ready /\ net' = net /\ calls' = calls
    BY <1>0, <1>12 DEF WriteEnd, RecordInv, Rx, Net, Calls, status
  <2> QED BY <2>1, <2>2, TwoMoves
<1> QED BY <1>1, <1>2, <1>3, <1>4, <1>5, <1>6, <1>7, <1>8, <1>9, <1>10, <1>11, <1>12 DEF Reader

\* And those of the writer.
LEMMA WriterPlace ==
  ASSUME PlaceInv, Writer, ~Error("writer")
  PROVE  PlaceInv'
<1> USE EthSizeAssumption, EthBoundAssumption
<1>0. RecordInv
  BY DEF PlaceInv
<1>1. CASE WriterInit
  <2>1. Move("writer", "init", "ready") /\ threads_ready' = threads_ready /\ UNCHANGED <<net, calls>>
    BY <1>1 DEF WriterInit, WriterStep
  <2>2. RecordInv'
    BY <1>0, <1>1 DEF WriterInit, WriterStep, RecordInv
  <2> QED BY <2>1, <2>2, ReportPlace
<1>2. CASE WriterReady
  <2>1. Move("writer", "ready", "run") /\ threads_ready' = threads_ready + 1 /\ UNCHANGED <<net, calls>>
    BY <1>2 DEF WriterReady, WriterStep
  <2>2. RecordInv'
    BY <1>0, <1>2 DEF WriterReady, WriterStep, RecordInv
  <2> QED BY <2>1, <2>2, ReportPlace
<1>3. CASE WriterRun
  <2>1. Move("writer", "run", "test")
    BY <1>3 DEF WriterRun, WriterStep
  <2>2. /\ RecordInv' /\ threads_ready' = threads_ready /\ net'.waiting = net.waiting
    BY <1>0, <1>3 DEF WriterRun, WriterStep, RecordInv, Rx, Net, Calls, status
  <2> QED BY <2>1, <2>2, MovePlace, Zenon DEF Thread
<1>4. CASE WriterTest
  <2>1. \E from \in {"test"}, to \in {"empty?", "finish"} : Move("writer", from, to)
    BY <1>4 DEF WriterTest, WriterStep
  <2>2. /\ RecordInv' /\ threads_ready' = threads_ready /\ net'.waiting = net.waiting
    BY <1>0, <1>4 DEF WriterTest, WriterStep, RecordInv, Rx, Net, Calls, status
  <2> QED BY <2>1, <2>2, MovePlace, Zenon DEF Thread
<1>5. CASE WriterEmpty
  <2>1. \E from \in {"empty?"}, to \in {"stopped?", "dequeue"} : Move("writer", from, to)
    BY <1>5 DEF WriterEmpty, WriterStep
  <2>2. /\ RecordInv' /\ threads_ready' = threads_ready /\ net'.waiting = net.waiting
    BY <1>0, <1>5 DEF WriterEmpty, WriterStep, RecordInv, Rx, Net, Calls, status
  <2> QED BY <2>1, <2>2, MovePlace, Zenon DEF Thread
<1>6. CASE WriterCheck
  <2>1. \E from \in {"stopped?"}, to \in {"wait", "finish"} : Move("writer", from, to)
    BY <1>6 DEF WriterCheck, WriterStep
  <2>2. /\ RecordInv' /\ threads_ready' = threads_ready /\ net'.waiting = net.waiting
    BY <1>0, <1>6 DEF WriterCheck, WriterStep, RecordInv, Rx, Net, Calls, status
  <2> QED BY <2>1, <2>2, MovePlace, Zenon DEF Thread
<1>7. CASE WriterWait
  <2>1. Move("writer", "wait", "waiting")
    BY <1>7 DEF WriterWait, WriterStep
  <2>2. /\ RecordInv' /\ threads_ready' = threads_ready /\ net'.waiting = net.waiting
    BY <1>0, <1>7 DEF WriterWait, WriterStep, RecordInv, Rx, Net, Calls, status
  <2> QED BY <2>1, <2>2, MovePlace, Zenon DEF Thread
<1>8. CASE WriterWoken
  <2>1. Move("writer", "signalled", "empty?")
    BY <1>8 DEF WriterWoken, WriterStep
  <2>2. /\ RecordInv' /\ threads_ready' = threads_ready /\ net'.waiting = net.waiting
    BY <1>0, <1>8 DEF WriterWoken, WriterStep, RecordInv, Rx, Net, Calls, status
  <2> QED BY <2>1, <2>2, MovePlace, Zenon DEF Thread
<1>9. CASE WriterDequeue
  <2>1. Move("writer", "dequeue", "more?")
    BY <1>9 DEF WriterDequeue, WriterStep
  <2>2. /\ RecordInv' /\ threads_ready' = threads_ready /\ net'.waiting = net.waiting
    BY <1>0, <1>9 DEF WriterDequeue, WriterStep, RecordInv, Rx, Net, Calls, status
  <2> QED BY <2>1, <2>2, MovePlace, Zenon DEF Thread
<1>10. CASE WriterMore
  <2>1. \E from \in {"more?"}, to \in {"send", "return"} : Move("writer", from, to)
    BY <1>10 DEF WriterMore, WriterStep
  <2>2. /\ RecordInv' /\ threads_ready' = threads_ready /\ net'.waiting = net.waiting
    BY <1>0, <1>10 DEF WriterMore, WriterStep, RecordInv, Rx, Net, Calls, status
  <2> QED BY <2>1, <2>2, MovePlace, Zenon DEF Thread
<1>11. CASE WriterSend
  <2>1. \E to \in {"sent", "error"} : Move("writer", "send", to)
    BY <1>11 DEF WriterSend, WriterStep
  <2>2. /\ UNCHANGED <<status, rx, calls>>
        /\ net' = net \/ net' = [net EXCEPT !.errors = @ + 1]
    BY <1>11 DEF WriterSend, WriterStep, status
  <2>3. net' \in Net /\ net'.waiting = net.waiting
    BY <1>0, <2>2, CountStep, Zenon DEF RecordInv
  <2>4. RecordInv' /\ threads_ready' = threads_ready
    BY <1>0, <2>2, <2>3 DEF RecordInv, status
  <2> QED BY <2>1, <2>2, <2>3, <2>4, MovePlace, Zenon DEF Thread
<1>12. CASE WriterSent
  <2>1. Move("writer", "sent", "more?")
    BY <1>12 DEF WriterSent, WriterStep
  <2>2. /\ RecordInv' /\ threads_ready' = threads_ready /\ net'.waiting = net.waiting
    BY <1>0, <1>12 DEF WriterSent, WriterStep, RecordInv, Rx, Net, Calls, status
  <2> QED BY <2>1, <2>2, MovePlace, Zenon DEF Thread
<1>13. CASE WriterReturn
  <2>1. Move("writer", "return", "test")
    BY <1>13 DEF WriterReturn, WriterStep
  <2>2. /\ RecordInv' /\ threads_ready' = threads_ready /\ net'.waiting = net.waiting
    BY <1>0, <1>13 DEF WriterReturn, WriterStep, RecordInv, Rx, Net, Calls, status
  <2> QED BY <2>1, <2>2, MovePlace, Zenon DEF Thread
<1>14. CASE WriterFinish
  <2>1. Move("writer", "finish", "exited")
    BY <1>14 DEF WriterFinish, WriterStep
  <2>2. /\ RecordInv' /\ threads_ready' = threads_ready /\ net'.waiting = net.waiting
    BY <1>0, <1>14 DEF WriterFinish, WriterStep, RecordInv, Rx, Net, Calls, status
  <2> QED BY <2>1, <2>2, MovePlace, Zenon DEF Thread
<1> QED BY <1>1, <1>2, <1>3, <1>4, <1>5, <1>6, <1>7, <1>8, <1>9, <1>10, <1>11, <1>12, <1>13, <1>14 DEF Writer

\* Where _eth_error returns to, and that it counts the threads inside.
LEMMA ResumedPlace ==
  ASSUME NEW t \in Thread, NEW port
  PROVE  /\ Resumed(t, port) \in {"open", "exited", "test", "sent"}
         /\ t = "main" => Resumed(t, port) = "open"
BY DEF Resumed, Thread

\* The steps inside _eth_error keep it.
LEMMA ErrorPlace ==
  ASSUME PlaceInv, NEW t \in Thread, Error(t)
  PROVE  PlaceInv'
<1>0. /\ RecordInv /\ PcInv /\ net \in Net /\ net.waiting \in 0 .. 3
  BY DEF PlaceInv, RecordInv, Net
<1>t. /\ threads_ready' = threads_ready /\ UNCHANGED <<rx, calls, writer_status>>
      /\ reader_status' \in {"INIT", "RUNNING", "SHUTDOWN", "ERROR"}
  BY <1>0 DEF Error, ErrorEnter, ErrorWake, Opening, Reopened, Leave, status, RecordInv
<1> DEFINE in == {"sleep", "reopen", "opening"}
           owns == {"reopen", "opening"}
\* The thread goes from one place to another, and the others stay where they are.
<1>m. ASSUME NEW from, NEW to, Move(t, from, to)
      PROVE  /\ pc[t] = from /\ pc'[t] = to /\ PcInv'
             /\ \A u \in Thread \ {t} : pc'[u] = pc[u] /\ Waiting(u)' = Waiting(u) /\ Started(u)' = Started(u)
  BY <1>0, <1>m DEF PcInv, Move, Waiting, Started
<1>w. ASSUME pc[t] \in in PROVE net.waiting - 1 \in 0 .. 3
  <2>1. Waiting(t) = 1 /\ \A u \in Thread : Waiting(u) \in {0, 1}
    BY <1>w DEF Waiting
  <2>2. pc.main # "crashed"
    BY <1>w, Zenon DEF PlaceInv, StartInv, Thread
  <2>3. net.waiting = Waiting("main") + Waiting("reader") + Waiting("writer")
    BY <2>2 DEF PlaceInv, WaitInv
  <2> QED BY <1>0, <2>1, <2>3 DEF Thread
\* What has to be shown of such a step.
<1>s. ASSUME NEW from \in {"error", "sleep", "reopen", "opening"},
             NEW to \in {"sleep", "reopen", "opening", "open", "exited", "test", "sent"}, Move(t, from, to),
             t = "main" => to \notin {"exited", "test", "sent"},
             net' \in Net,
             from \in in /\ to \in in => net'.waiting = net.waiting,
             from \notin in => to = "sleep" /\ net'.waiting = net.waiting + 1,
             to \notin in => net'.waiting = net.waiting - 1,
             from \notin owns => \A u \in Thread : pc[u] \notin owns,
             from = "sleep" /\ to \in owns => net.waiting = 2
      PROVE  PlaceInv'
  <2>1. /\ pc[t] = from /\ pc'[t] = to /\ PcInv'
        /\ \A u \in Thread \ {t} : pc'[u] = pc[u] /\ Waiting(u)' = Waiting(u) /\ Started(u)' = Started(u)
    BY <1>s, <1>m
  <2>2. \A u \in Thread : pc[u] # "crashed" /\ pc'[u] # "crashed"
    BY <1>s, <2>1, Zenon DEF PlaceInv, StartInv, Thread
  <2>3. StartInv'
    BY <1>s, <2>1, <2>2, Zenon DEF PlaceInv, StartInv, Thread
  <2>4. ReadyInv'
    <3>1. Started(t)' = Started(t)
      BY <2>1, <1>s DEF Started
    <3>2. Started("reader")' = Started("reader") /\ Started("writer")' = Started("writer")
      BY <2>1, <3>1 DEF Thread
    <3> QED BY <1>t, <3>2 DEF PlaceInv, ReadyInv
  <2>5. /\ Waiting(t) = IF from \in in THEN 1 ELSE 0
        /\ Waiting(t)' = IF to \in in THEN 1 ELSE 0
    BY <2>1 DEF Waiting
  <2>6. net'.waiting - net.waiting = Waiting(t)' - Waiting(t)
    BY <1>s, <1>0, <2>5
  <2>7. net.waiting = Waiting("main") + Waiting("reader") + Waiting("writer")
    BY <2>2 DEF PlaceInv, WaitInv, Thread
  <2>8. \A u \in Thread : Waiting(u) \in {0, 1} /\ Waiting(u)' \in {0, 1}
    BY DEF Waiting
  <2>9. net'.waiting \in Int
    BY <1>s DEF Net
  <2>10. net'.waiting = (Waiting("main") + Waiting("reader") + Waiting("writer"))'
    BY <2>1, <2>6, <2>7, <2>8, <2>9, <1>0 DEF Thread
  <2>11. WaitInv'
    BY <2>10 DEF WaitInv
  <2>12. DevLockInv'
    <3>1. \A u \in Thread \ {t} : pc'[t] \in owns => pc'[u] \notin owns
      BY <1>s, <2>1 DEF PlaceInv, DevLockInv
    <3>2. \A u, v \in Thread \ {t} : pc'[u] \in owns /\ pc'[v] \in owns => u = v
      BY <2>1 DEF PlaceInv, DevLockInv
    <3> QED BY <3>1, <3>2 DEF DevLockInv
  <2>13. AloneInv'
    <3>1. pc'.main \notin {"receive", "read", "send"}
      BY <1>s, <2>1 DEF PlaceInv, AloneInv, Thread
    <3>2. ASSUME NEW u \in Thread, pc'[u] \in owns PROVE net'.waiting = 2
      <4>1. pc[t] \in owns \/ pc[u] \notin owns
        BY <1>s, <2>1, Zenon
      <4>2. u = t
        BY <2>1, <3>2, <4>1, Zenon DEF PlaceInv, DevLockInv
      <4>3. to \in owns /\ from \in in
        BY <1>s, <2>1, <3>2, <4>2, Zenon
      <4>4. net'.waiting = net.waiting
        BY <1>s, <4>3
      <4>5. CASE from = "sleep"
        BY <1>s, <4>3, <4>4, <4>5, Zenon
      <4>6. CASE from \in owns
        BY <2>1, <4>4, <4>6, Zenon DEF PlaceInv, AloneInv
      <4> QED BY <4>3, <4>5, <4>6, Zenon
    <3> QED BY <3>1, <3>2 DEF AloneInv
  <2>14. RecordInv'
    BY <1>s, <1>t, <1>0 DEF RecordInv
  <2> QED BY <2>1, <2>3, <2>4, <2>11, <2>12, <2>13, <2>14 DEF PlaceInv
<1>1. CASE ErrorEnter(t)
  <2> DEFINE r == IF net.needs_reset = 0 /\ net.errors % Threshold = 0 THEN 1 ELSE net.needs_reset
  <2>1. /\ Move(t, "error", "sleep") /\ net' = [net EXCEPT !.waiting = @ + 1, !.needs_reset = r]
        /\ \A u \in Thread : pc[u] \notin owns
    BY <1>1 DEF ErrorEnter, DevLockFree
  <2>2. r \in {0, 1}
    BY <1>0 DEF Net
  <2>3. pc[t] = "error" /\ \A u \in Thread : pc[u] # "crashed"
    <3>1. pc[t] = "error"
      BY <2>1, <1>m
    <3> QED BY <3>1, Zenon DEF PlaceInv, StartInv, Thread
  <2>4. Waiting(t) = 0 /\ net.waiting = Waiting("main") + Waiting("reader") + Waiting("writer")
    BY <2>3 DEF PlaceInv, WaitInv, Waiting, Thread
  <2>5. \A u \in Thread : Waiting(u) \in {0, 1}
    BY DEF Waiting
  <2>6. net.waiting + 1 \in 0 .. 3
    BY <2>4, <2>5 DEF Thread
  <2> HIDE DEF r
  <2>7. net' \in Net /\ net'.waiting = net.waiting + 1
    <3>1. \A n \in Net, w \in 0 .. 3, s \in {0, 1} :
            LET m == [n EXCEPT !.waiting = w, !.needs_reset = s] IN m \in Net /\ m.waiting = w
      BY Zenon DEF Net
    <3> QED BY <1>0, <2>1, <2>2, <2>6, <3>1, Zenon
  <2> QED BY <1>s, <2>1, <2>7
<1>2. CASE ErrorWake(t)
  <2>1. \A u \in Thread : pc[u] \notin owns
    BY <1>2 DEF ErrorWake, DevLockFree
  <2>2. CASE MayReopen
    BY <1>0, <1>2, <1>s, <2>1, <2>2 DEF ErrorWake, MayReopen
  <2>3. CASE ~MayReopen
    <3>1. Move(t, "sleep", Resumed(t, net.port)) /\ net' = [net EXCEPT !.waiting = @ - 1]
      BY <1>2, <2>3 DEF ErrorWake, Leave
    <3>2. net.waiting - 1 \in 0 .. 3
      BY <1>m, <1>w, <3>1
    <3>3. net' \in Net /\ net'.waiting = net.waiting - 1
      BY <1>0, <3>1, <3>2 DEF Net
    <3> QED BY <1>s, <2>1, <3>1, <3>3, ResumedPlace
  <2> QED BY <2>2, <2>3
<1>3. CASE Opening(t)
  <2>1. Move(t, "reopen", "opening") /\ net' = [net EXCEPT !.port = "none"]
    BY <1>3 DEF Opening
  <2>2. net' \in Net /\ net'.waiting = net.waiting
    BY <1>0, <2>1 DEF Net
  <2> QED BY <1>s, <2>1, <2>2
<1>4. CASE Reopened(t)
  <2>1. PICK port \in {"open", "none", "invalid"} :
          /\ Move(t, "opening", Resumed(t, port))
          /\ net' = [net EXCEPT !.needs_reset = 0, !.waiting = @ - 1, !.port = port]
    BY <1>4, Zenon DEF Reopened, Leave
  <2>2. net.waiting - 1 \in 0 .. 3
    BY <1>m, <1>w, <2>1
  <2>3. net' \in Net /\ net'.waiting = net.waiting - 1
    BY <1>0, <2>1, <2>2, Zenon DEF Net
  <2> QED BY <1>s, <2>1, <2>3, ResumedPlace
<1> QED BY <1>1, <1>2, <1>3, <1>4 DEF Error

\* The threads and the counters agree in every reachable state.
THEOREM PlaceInvariant == Spec => []PlaceInv
<1>1. Init => PlaceInv
  <2> SUFFICES ASSUME Init PROVE PlaceInv
    BY Zenon
  <2>1. pc = [main |-> "closed", reader |-> "none", writer |-> "none"]
    BY DEF Init
  <2>2. pc.main = "closed" /\ pc.reader = "none" /\ pc.writer = "none" /\ PcInv
    BY <2>1 DEF PcInv, Thread
  <2>3. RecordInv
    <3>1. rx \in Rx
      BY EthSizeAssumption DEF Init, Rx
    <3>2. net \in Net /\ calls \in Calls
      BY DEF Init, Net, Calls
    <3> QED BY <3>1, <3>2, Zenon DEF Init, RecordInv
  <2>4. threads_ready = 0 /\ net.waiting = 0
    BY DEF Init
  <2> QED BY <2>2, <2>3, <2>4
          DEF PlaceInv, StartInv, ReadyInv, WaitInv, DevLockInv, AloneInv, Started, Waiting, Thread
<1>2. PlaceInv /\ [Next]_vars => PlaceInv'
  <2> SUFFICES ASSUME PlaceInv, [Next]_vars PROVE PlaceInv'
    OBVIOUS
  <2>1. CASE UNCHANGED vars
    BY <2>1, Zenon DEF vars, status, PlaceInv, PcInv, RecordInv, StartInv, ReadyInv, WaitInv, DevLockInv, AloneInv,
                Started, Waiting
  <2>2. CASE Error("main") \/ Error("reader") \/ Error("writer")
    BY <2>2, ErrorPlace DEF Thread
  <2>3. CASE Library \/ Device
    BY <2>2, <2>3, MainPlace, CreatePlace, Zenon
  <2>4. CASE Reader
    BY <2>2, <2>4, ReaderPlace
  <2>5. CASE Writer
    BY <2>2, <2>5, WriterPlace
  <2> QED BY <2>1, <2>3, <2>4, <2>5 DEF Next
<1> QED BY <1>1, <1>2, PTL DEF Spec

\* While a thread closes and reopens the port no other thread uses it, unless the main
\* thread is in a send of its own: then one other thread may, and no more (ReopenedUnused).
THEOREM PortIsReopenedUnused == Spec => []ReopenedUnused
<1>1. PlaceInv => ReopenedUnused
  <2> SUFFICES ASSUME PlaceInv, NEW t \in Thread, NEW u \in Thread, t # u, Reopening(t), UsesPort(u)
               PROVE  /\ pc.main \in {"check", "error", "sleep", "reopen", "opening"}
                      /\ \A v \in Thread \ {u} : ~UsesPort(v)
    BY Zenon DEF ReopenedUnused
  <2>1. pc.main # "crashed" /\ net.waiting = 2
    BY Zenon DEF PlaceInv, StartInv, AloneInv, Reopening, Thread
  <2>2. Waiting("main") + Waiting("reader") + Waiting("writer") = 2
    BY <2>1, Zenon DEF PlaceInv, WaitInv
  <2>3. Waiting(u) = 0
    BY Zenon DEF Waiting, UsesPort
  <2>4. \A v \in Thread : Waiting(v) = 0 \/ Waiting(v) = 1
    BY Zenon DEF Waiting
  <2>5. \A v \in Thread \ {u} : Waiting(v) = 1
    <3> HIDE DEF Waiting
    <3>1. CASE u = "main"
      BY <2>2, <2>3, <2>4, <3>1 DEF Thread
    <3>2. CASE u = "reader"
      BY <2>2, <2>3, <2>4, <3>2 DEF Thread
    <3>3. CASE u = "writer"
      BY <2>2, <2>3, <2>4, <3>3 DEF Thread
    <3> QED BY <3>1, <3>2, <3>3, Zenon DEF Thread
  <2>6. \A v \in Thread \ {u} : pc[v] \in {"sleep", "reopen", "opening"}
    BY <2>5 DEF Waiting
  <2>7. CASE u = "main"
    BY <2>6, <2>7, Zenon DEF UsesPort, PlaceInv, AloneInv
  <2>8. CASE u # "main"
    BY <2>6, <2>8, Zenon DEF UsesPort, Thread
  <2> QED BY <2>7, <2>8
<1> QED BY <1>1, PlaceInvariant, PTL

-----------------------------------------------------------------------------
(* The write buffers and the order of the packets.                         *)

Request == [buf : Nat, pkt : Nat]
Tx == [requests : Seq(Request), slots : Seq(Nat), buffers : SUBSET Nat, local : SUBSET Nat,
       outbound : Request, size : Nat, allocated : Nat, writes : Nat, lost : SUBSET Nat]

\* Buffers are numbered from 1 and are in one place; buffer 0 is no buffer.
BufferInv ==
  /\ \A i \in 1 .. Len(tx.requests) :
       /\ tx.requests[i].buf \in 1 .. tx.allocated
       /\ tx.requests[i].buf \notin tx.buffers \cup tx.local
       /\ tx.requests[i].buf # tx.outbound.buf
       /\ \A j \in 1 .. Len(tx.requests) : i # j => tx.requests[i].buf # tx.requests[j].buf
  /\ tx.buffers \subseteq 1 .. tx.allocated /\ tx.local \subseteq 1 .. tx.allocated
  /\ tx.buffers \cap tx.local = {}
  /\ tx.outbound.buf \in 0 .. tx.allocated /\ tx.outbound.buf \notin tx.buffers \cup tx.local
  /\ tx.outbound # NoRequest => tx.outbound.buf # 0

\* The lost ones are in no other place, and no buffer is in none.
LostInv ==
  /\ tx.lost \subseteq 1 .. tx.allocated
  /\ \A b \in tx.lost : /\ b \notin tx.buffers \cup tx.local /\ b # tx.outbound.buf
                        /\ \A i \in 1 .. Len(tx.requests) : tx.requests[i].buf # b
  /\ \A b \in 1 .. tx.allocated :
       \/ b \in tx.buffers \cup tx.local \cup tx.lost \/ b = tx.outbound.buf
       \/ \E i \in 1 .. Len(tx.requests) : tx.requests[i].buf = b

\* The number that the packet of the next WriteEnd will have at least.
High == IF LockFree THEN tx.writes + 1 ELSE tx.writes

\* Packets have been attempted, are being sent and are queued in the order of the calls.
OrderInv ==
  /\ attempted \in Seq(Nat)
  /\ \A k \in 1 .. Len(attempted) :
       /\ attempted[k] < High
       /\ \A l \in 1 .. Len(attempted) : k < l => attempted[k] < attempted[l]
       /\ \A i \in 1 .. Len(tx.requests) : attempted[k] < tx.requests[i].pkt
       /\ pc.writer \in {"more?", "send"} /\ tx.outbound # NoRequest => attempted[k] < tx.outbound.pkt
  /\ \A i \in 1 .. Len(tx.requests) :
       /\ 0 < tx.requests[i].pkt /\ tx.requests[i].pkt < High
       /\ tx.outbound.pkt < tx.requests[i].pkt
       /\ \A j \in 1 .. Len(tx.requests) : i < j => tx.requests[i].pkt < tx.requests[j].pkt
  /\ tx.outbound.pkt < High

Sending == {"send", "sent", "error", "sleep", "reopen", "opening"}

\* Where the writer may have a request in hand.
Holding == {"more?", "send", "sent", "error", "sleep", "reopen", "opening", "return", "crashed"}

\* One thread owns writer_lock, every buffer was allocated by a call, the queue is within
\* its capacity, and the writer has a request while it sends.
QueueInv ==
  /\ ~(pc.main = "write" /\ pc.reader = "write")
  /\ tx.allocated + 1 <= High
  /\ Len(tx.requests) <= Capacity
  /\ pc.writer \in Sending => tx.outbound # NoRequest
  /\ pc.writer \notin Holding => tx.outbound = NoRequest

DataInv == tx \in Tx /\ BufferInv /\ LostInv /\ OrderInv /\ QueueInv

\* The types of what the invariants speak of.
LEMMA DataTypes ==
  ASSUME DataInv
  PROVE  /\ tx.writes \in Nat /\ tx.allocated \in Nat /\ tx.outbound.pkt \in Nat /\ tx.outbound \in Request
         /\ tx.requests \in Seq(Request) /\ tx.buffers \subseteq Nat /\ tx.local \subseteq Nat
         /\ \A k \in 1 .. Len(attempted) : attempted[k] \in Nat
         /\ \A i \in 1 .. Len(tx.requests) : tx.requests[i] \in Request /\ tx.requests[i].pkt \in Nat
<1>1. tx \in Tx /\ attempted \in Seq(Nat)
  BY DEF DataInv, OrderInv
<1>2. /\ tx.writes \in Nat /\ tx.allocated \in Nat /\ tx.outbound \in Request
      /\ tx.requests \in Seq(Request) /\ tx.buffers \subseteq Nat /\ tx.local \subseteq Nat
  BY <1>1 DEF Tx
<1>3. \A r \in Request : r.pkt \in Nat
  BY DEF Request
<1>4. \A i \in 1 .. Len(tx.requests) : tx.requests[i] \in Request
  BY <1>2
<1>5. \A k \in 1 .. Len(attempted) : attempted[k] \in Nat
  BY <1>1
<1> QED BY <1>2, <1>3, <1>4, <1>5

\* A step that touches neither the queue, the buffers nor writer_lock keeps what is said of
\* them; the reader and the main thread together release the lock by crashing.
LEMMA QuietData ==
  ASSUME DataInv, UNCHANGED <<tx, attempted>>,
         pc'.main = "write" => pc.main = "write", pc'.reader = "write" => pc.reader = "write",
         pc'.writer \in Sending => pc.writer \in Sending \/ tx.outbound # NoRequest,
         pc'.writer \in {"more?", "send"} => pc.writer \in {"more?", "send"},
         pc'.writer \notin Holding => pc.writer \notin Holding
  PROVE  DataInv'
<1>1. tx.writes \in Nat /\ tx.allocated \in Nat
  BY DataTypes
<1>2. High \in Nat /\ High' \in Nat /\ High <= High'
  BY <1>1 DEF High, LockFree
<1> HIDE DEF High
<1>3. tx' \in Tx /\ BufferInv'
  BY DEF DataInv, BufferInv
<1>4. LostInv'
  <2>1. tx' = tx
    OBVIOUS
  <2> QED BY <2>1, Zenon DEF DataInv, LostInv
<1>6. OrderInv'
  <2>1. \A n \in Nat : n < High => n < High'
    BY <1>2
  <2>2. /\ tx'.outbound.pkt < High'
        /\ \A k \in 1 .. Len(attempted) : attempted[k] < High'
        /\ \A i \in 1 .. Len(tx.requests) : tx.requests[i].pkt < High'
    BY <2>1, DataTypes DEF DataInv, OrderInv
  <2> QED BY <2>2 DEF DataInv, OrderInv
<1>7. QueueInv'
  BY <1>1, <1>2 DEF DataInv, QueueInv
<1> QED BY <1>3, <1>4, <1>6, <1>7 DEF DataInv

\* Most steps are of this kind.
LEMMA QuietMove ==
  ASSUME DataInv, PcInv, UNCHANGED <<tx, attempted>>,
         NEW t \in Thread, NEW from, NEW to, Move(t, from, to), to # "write",
         t = "writer" /\ to \in Sending => from \in Sending \/ tx.outbound # NoRequest,
         t = "writer" /\ to \in {"more?", "send"} => from \in {"more?", "send"},
         t = "writer" /\ to \notin Holding => from \notin Holding
  PROVE  DataInv'
<1>1. pc[t] = from /\ pc'[t] = to /\ \A u \in Thread \ {t} : pc'[u] = pc[u]
  BY DEF PcInv, Move
<1> QED BY <1>1, QuietData DEF Thread

\* eth_write takes writer_lock and the number of its packet.
LEMMA WriteBeginData ==
  ASSUME DataInv, PcInv, NEW t \in {"main", "reader"}, NEW from, WriteBegin(t, from)
  PROVE  DataInv'
<1>1. pc'[t] = "write" /\ \A u \in Thread \ {t} : pc'[u] = pc[u]
  BY DEF PcInv, WriteBegin, Move, Thread
<1>2. pc'.writer = pc.writer /\ ~LockFree' /\ LockFree /\ ~(pc'.main = "write" /\ pc'.reader = "write")
  BY <1>1 DEF LockFree, WriteBegin, Thread
<1>3. tx \in Tx /\ tx' = [tx EXCEPT !.size = Len(tx.requests) + 1, !.writes = @ + 1]
  BY DEF DataInv, WriteBegin
<1>4. /\ tx' \in Tx /\ tx'.requests = tx.requests /\ tx'.buffers = tx.buffers /\ tx'.local = tx.local
      /\ tx'.outbound = tx.outbound /\ tx'.allocated = tx.allocated /\ tx'.writes = tx.writes + 1
      /\ tx'.lost = tx.lost
  <2>1. Len(tx.requests) + 1 \in Nat /\ tx.writes + 1 \in Nat
    BY DataTypes
  <2> QED BY <1>3, <2>1, Zenon DEF Tx
<1>5. High' = High
  BY <1>2, <1>4 DEF High
<1>6. attempted' = attempted
  BY DEF WriteBegin
<1>7. BufferInv' /\ OrderInv' /\ QueueInv'
  BY <1>2, <1>4, <1>5, <1>6, Zenon DEF DataInv, BufferInv, OrderInv, QueueInv
<1>8. LostInv'
  BY <1>4, Zenon DEF DataInv, LostInv
<1> QED BY <1>4, <1>7, <1>8, Zenon DEF DataInv

\* eth_write takes a free buffer or a new one, and enqueues its request unless the queue is full.
LEMMA WriteEndData ==
  ASSUME DataInv, PcInv, NEW t \in {"main", "reader"}, NEW to, to # "write", WriteEnd(t, to)
  PROVE  DataInv'
<1>1. pc[t] = "write" /\ tx' = Enqueued /\ attempted' = attempted /\ tx \in Tx
  BY DEF WriteEnd, DataInv
<1>2. /\ pc'[t] = to /\ \A u \in {"main", "reader"} \ {t} : pc'[u] = pc[u]
      /\ pc'.writer = pc.writer \/ (pc.writer = "waiting" /\ pc'.writer = "signalled")
  BY Zenon DEF PcInv, WriteEnd, Thread, Signalled
<1>3. ~LockFree /\ LockFree'
  BY <1>1, <1>2 DEF LockFree, DataInv, QueueInv
<1> DEFINE r == [buf |-> Buffer, pkt |-> tx.writes]
<1>4. Buffer \in Nat /\ r \in Request /\ r.buf = Buffer /\ r.pkt = tx.writes
  BY <1>1 DEF Buffer, Tx, Request
<1>5. /\ Taken \in Tx /\ Taken.requests = tx.requests /\ Taken.buffers = tx.buffers \ {Buffer}
      /\ Taken.local = tx.local /\ Taken.outbound = tx.outbound /\ Taken.writes = tx.writes
      /\ Taken.allocated = IF tx.buffers = {} THEN tx.allocated + 1 ELSE tx.allocated
      /\ Taken.slots = tx.slots /\ Taken.lost = tx.lost
  <2>1. /\ tx.buffers \ {Buffer} \in SUBSET Nat
        /\ (IF tx.buffers = {} THEN tx.allocated + 1 ELSE tx.allocated) \in Nat
    BY DataTypes
  <2> QED BY <1>1, <2>1, Zenon DEF Taken, Tx
<1>6. \A s \in Seq(Nat), b \in Nat : Stored(s, b) \in Seq(Nat)
  BY EthSizeAssumption DEF Stored
<1> HIDE DEF r
<1>7. tx' = IF Len(tx.requests) < Capacity
            THEN [Taken EXCEPT !.requests = Append(@, r), !.slots = Stored(@, Buffer)]
            ELSE [Taken EXCEPT !.lost = @ \cup {Buffer}]
  BY <1>1 DEF Enqueued, r
<1>8. Taken.requests \in Seq(Request) /\ Taken.slots \in Seq(Nat)
  BY <1>5 DEF Tx
<1>9. Append(Taken.requests, r) \in Seq(Request) /\ Stored(Taken.slots, Buffer) \in Seq(Nat)
  <2>1. Append(Taken.requests, r) \in Seq(Request)
    <3>1. \A q \in Seq(Request), x \in Request : Append(q, x) \in Seq(Request)
      OBVIOUS
    <3> QED BY <1>4, <1>8, <3>1, Zenon
  <2> QED BY <1>4, <1>6, <1>8, <2>1, Zenon
<1>10. /\ tx' \in Tx /\ tx'.buffers = Taken.buffers /\ tx'.local = tx.local /\ tx'.outbound = tx.outbound
       /\ tx'.writes = tx.writes /\ tx'.allocated = Taken.allocated
       /\ tx'.requests = IF Len(tx.requests) < Capacity THEN Append(tx.requests, r) ELSE tx.requests
       /\ tx'.lost = IF Len(tx.requests) < Capacity THEN tx.lost ELSE tx.lost \cup {Buffer}
  <2>1. Taken.lost \cup {Buffer} \in SUBSET Nat
    BY <1>4, <1>5, Zenon DEF Tx
  <2>2. CASE Len(tx.requests) < Capacity
    <3>1. tx' = [Taken EXCEPT !.requests = Append(@, r), !.slots = Stored(@, Buffer)]
      BY <1>7, <2>2, Zenon
    <3> QED BY <1>5, <1>9, <2>2, <3>1, Zenon DEF Tx
  <2>3. CASE ~(Len(tx.requests) < Capacity)
    <3>1. tx' = [Taken EXCEPT !.lost = @ \cup {Buffer}]
      BY <1>7, <2>3, Zenon
    <3> QED BY <1>5, <2>1, <2>3, <3>1, Zenon DEF Tx
  <2> QED BY <2>2, <2>3, Zenon
<1>11. /\ tx.writes \in Nat /\ tx.allocated \in Nat /\ tx.outbound \in Request /\ tx.requests \in Seq(Request)
       /\ tx'.allocated \in Nat /\ tx.buffers \subseteq Nat
  BY <1>1, <1>10, Zenon DEF Tx
<1>12. High = tx.writes /\ High' = tx.writes + 1
  BY <1>3, <1>10 DEF High
<1>13. /\ Buffer \in 1 .. tx'.allocated /\ tx.allocated <= tx'.allocated /\ tx'.allocated <= tx.allocated + 1
       /\ Buffer \in tx.buffers \/ Buffer = tx.allocated + 1
  <2>1. tx'.allocated = IF tx.buffers = {} THEN tx.allocated + 1 ELSE tx.allocated
    BY <1>5, <1>10
  <2>2. IF tx.buffers = {} THEN Buffer = tx.allocated + 1 ELSE Buffer \in tx.buffers
    BY DEF Buffer
  <2>3. tx.buffers \subseteq 1 .. tx.allocated
    BY DEF DataInv, BufferInv
  <2> QED BY <1>11, <2>1, <2>2, <2>3
<1>14. /\ \A i \in 1 .. Len(tx.requests) : tx.requests[i].buf # Buffer
       /\ Buffer \notin tx.local /\ Buffer # tx.outbound.buf
  BY <1>11, <1>13, SMTT(20) DEF DataInv, BufferInv
<1>l. Buffer \notin tx.lost
  <2>1. tx.allocated + 1 \notin 1 .. tx.allocated
    BY <1>11
  <2> QED BY <1>13, <2>1, Zenon DEF DataInv, LostInv
<1>15. \A i \in 1 .. Len(tx'.requests) :
         \/ i \in 1 .. Len(tx.requests) /\ tx'.requests[i] = tx.requests[i]
         \/ i = Len(tx.requests) + 1 /\ tx'.requests[i] = r
  BY <1>4, <1>10, <1>11
<1>16. BufferInv'
  <2>1. tx'.buffers = tx.buffers \ {Buffer}
    BY <1>5, <1>10
  <2>2. ASSUME NEW i \in 1 .. Len(tx'.requests)
        PROVE  /\ tx'.requests[i].buf \in 1 .. tx'.allocated
               /\ tx'.requests[i].buf \notin tx'.buffers \cup tx'.local
               /\ tx'.requests[i].buf # tx'.outbound.buf
    <3>1. CASE i \in 1 .. Len(tx.requests) /\ tx'.requests[i] = tx.requests[i]
      <4>1. /\ tx.requests[i].buf \in 1 .. tx.allocated
            /\ tx.requests[i].buf \notin tx.buffers \cup tx.local /\ tx.requests[i].buf # tx.outbound.buf
        BY <3>1 DEF DataInv, BufferInv
      <4>2. 1 .. tx.allocated \subseteq 1 .. tx'.allocated
        BY <1>11, <1>13
      <4> QED BY <1>10, <2>1, <3>1, <4>1, <4>2, Zenon
    <3>2. CASE tx'.requests[i] = r
      BY <1>4, <1>10, <1>13, <1>14, <2>1, <3>2
    <3> QED BY <1>15, <3>1, <3>2
  <2>3. \A i, j \in 1 .. Len(tx'.requests) : i # j => tx'.requests[i].buf # tx'.requests[j].buf
    BY <1>4, <1>14, <1>15, Zenon DEF DataInv, BufferInv
  <2>4. /\ tx'.buffers \subseteq 1 .. tx'.allocated /\ tx'.local \subseteq 1 .. tx'.allocated
        /\ tx'.outbound.buf \in 0 .. tx'.allocated
    BY <1>10, <1>11, <1>13, <2>1 DEF DataInv, BufferInv
  <2> QED BY <1>10, <2>1, <2>2, <2>3, <2>4, Zenon DEF DataInv, BufferInv
<1>20. LostInv'
  <2>1. tx'.buffers = tx.buffers \ {Buffer}
    BY <1>5, <1>10
  <2>2. 1 .. tx.allocated \subseteq 1 .. tx'.allocated
    BY <1>11, <1>13
  <2>3. tx'.lost \subseteq tx.lost \cup {Buffer} /\ tx.lost \subseteq tx'.lost
    BY <1>10, Zenon
  <2>4. tx'.lost \subseteq 1 .. tx'.allocated
    BY <1>13, <2>2, <2>3, Zenon DEF DataInv, LostInv
  <2>5. Buffer \in tx'.lost => tx'.requests = tx.requests
    BY <1>10, <1>l, Zenon
  <2>6. ASSUME NEW b \in tx'.lost
        PROVE  /\ b \notin tx'.buffers \cup tx'.local /\ b # tx'.outbound.buf
               /\ \A i \in 1 .. Len(tx'.requests) : tx'.requests[i].buf # b
    <3>1. CASE b = Buffer
      BY <1>10, <1>14, <2>1, <2>5, <3>1, Zenon
    <3>2. CASE b # Buffer
      <4>1. b \in tx.lost
        BY <2>3, <3>2, Zenon
      <4>2. /\ b \notin tx.buffers \cup tx.local /\ b # tx.outbound.buf
            /\ \A i \in 1 .. Len(tx.requests) : tx.requests[i].buf # b
        BY <4>1, Zenon DEF DataInv, LostInv
      <4>3. \A i \in 1 .. Len(tx'.requests) : tx'.requests[i].buf # b
        BY <1>4, <1>15, <3>2, <4>2, Zenon
      <4>4. b \notin tx'.buffers \cup tx'.local /\ b # tx'.outbound.buf
        BY <1>10, <2>1, <4>2, Zenon
      <4> QED BY <4>3, <4>4, Zenon
    <3> QED BY <3>1, <3>2, Zenon
  <2>7. /\ Buffer \in tx'.lost \/ \E i \in 1 .. Len(tx'.requests) : tx'.requests[i].buf = Buffer
        /\ \A i \in 1 .. Len(tx.requests) :
             i \in 1 .. Len(tx'.requests) /\ tx'.requests[i] = tx.requests[i]
    <3>1. CASE Len(tx.requests) < Capacity
      <4>1. tx'.requests = Append(tx.requests, r)
        BY <1>10, <3>1, Zenon
      <4>2. /\ Len(tx.requests) + 1 \in 1 .. Len(tx'.requests)
            /\ tx'.requests[Len(tx.requests) + 1] = r
            /\ \A i \in 1 .. Len(tx.requests) :
                 i \in 1 .. Len(tx'.requests) /\ tx'.requests[i] = tx.requests[i]
        BY <1>4, <1>11, <4>1
      <4> QED BY <1>4, <4>2, Zenon
    <3>2. CASE ~(Len(tx.requests) < Capacity)
      BY <1>10, <3>2, Zenon
    <3> QED BY <3>1, <3>2, Zenon
  <2>8. ASSUME NEW b \in 1 .. tx'.allocated
        PROVE  \/ b \in tx'.buffers \cup tx'.local \cup tx'.lost \/ b = tx'.outbound.buf
               \/ \E i \in 1 .. Len(tx'.requests) : tx'.requests[i].buf = b
    <3>1. CASE b = Buffer
      BY <2>7, <3>1, Zenon
    <3>2. CASE b # Buffer
      <4>1. b \in 1 .. tx.allocated
        <5>1. tx'.allocated = tx.allocated \/ Buffer = tx'.allocated
          <6>1. tx'.allocated = IF tx.buffers = {} THEN tx.allocated + 1 ELSE tx.allocated
            BY <1>5, <1>10, Zenon
          <6> QED BY <6>1, Zenon DEF Buffer
        <5> QED BY <1>11, <1>13, <3>2, <5>1
      <4>2. \/ b \in tx.buffers \cup tx.local \cup tx.lost \/ b = tx.outbound.buf
            \/ \E i \in 1 .. Len(tx.requests) : tx.requests[i].buf = b
        BY <4>1, Zenon DEF DataInv, LostInv
      <4> QED BY <1>10, <2>1, <2>3, <2>7, <3>2, <4>2, Zenon
    <3> QED BY <3>1, <3>2, Zenon
  <2> QED BY <2>4, <2>6, <2>8, Zenon DEF LostInv
<1>17. /\ \A k \in 1 .. Len(attempted) : attempted[k] \in Nat
       /\ \A i \in 1 .. Len(tx.requests) : tx.requests[i].pkt \in Nat
       /\ tx.outbound.pkt \in Nat
  BY DataTypes
<1>18. OrderInv'
  <2>1. /\ \A k \in 1 .. Len(attempted) : attempted[k] < tx.writes
        /\ \A i \in 1 .. Len(tx.requests) : tx.requests[i].pkt < tx.writes
        /\ tx.outbound.pkt < tx.writes
    BY <1>12, Zenon DEF DataInv, OrderInv
  <2>2. ASSUME NEW k \in 1 .. Len(attempted)
        PROVE  /\ attempted[k] < High'
               /\ \A i \in 1 .. Len(tx'.requests) : attempted[k] < tx'.requests[i].pkt
    <3>1. attempted[k] < tx.writes /\ attempted[k] \in Nat
      BY <1>17, <2>1, Zenon
    <3>2. \A i \in 1 .. Len(tx.requests) : attempted[k] < tx.requests[i].pkt
      BY DEF DataInv, OrderInv
    <3>3. attempted[k] < High'
      BY <1>11, <1>12, <3>1
    <3>4. \A i \in 1 .. Len(tx'.requests) : attempted[k] < tx'.requests[i].pkt
      BY <1>4, <1>15, <3>1, <3>2, Zenon
    <3> QED BY <3>3, <3>4
  <2>3. ASSUME NEW i \in 1 .. Len(tx'.requests)
        PROVE  /\ 0 < tx'.requests[i].pkt /\ tx'.requests[i].pkt < High'
               /\ tx'.outbound.pkt < tx'.requests[i].pkt
    BY <1>4, <1>10, <1>11, <1>12, <1>15, <1>17, <2>1, SMTT(20) DEF DataInv, OrderInv
  <2>4. \A i, j \in 1 .. Len(tx'.requests) : i < j => tx'.requests[i].pkt < tx'.requests[j].pkt
    BY <1>4, <1>10, <1>11, <1>15, <1>17, <2>1, SMTT(20) DEF DataInv, OrderInv
  <2>5. tx'.outbound.pkt < High'
    BY <1>10, <1>11, <1>12, <1>17, <2>1
  <2>6. /\ attempted' = attempted /\ attempted \in Seq(Nat) /\ tx'.outbound = tx.outbound
        /\ \A k, l \in 1 .. Len(attempted) : k < l => attempted[k] < attempted[l]
    BY <1>1, <1>10 DEF DataInv, OrderInv
  <2>7. \A k \in 1 .. Len(attempted) :
          pc'.writer \in {"more?", "send"} /\ tx.outbound # NoRequest => attempted[k] < tx.outbound.pkt
    BY <1>2 DEF DataInv, OrderInv
  <2> QED BY <2>2, <2>3, <2>4, <2>5, <2>6, <2>7 DEF OrderInv
<1>19. QueueInv'
  <2>1. Len(tx'.requests) <= Capacity
    BY <1>10, <1>11, <1>4, EthSizeAssumption DEF DataInv, QueueInv
  <2>2. tx'.allocated + 1 <= High'
    BY <1>11, <1>12, <1>13 DEF DataInv, QueueInv
  <2>3. ~(pc'.main = "write" /\ pc'.reader = "write")
    BY <1>3 DEF LockFree
  <2> QED BY <1>2, <1>10, <2>1, <2>2, <2>3 DEF DataInv, QueueInv, Sending, Holding
<1> QED BY <1>10, <1>16, <1>18, <1>19, <1>20, Zenon DEF DataInv

\* The writer takes the first request, having kept the buffer of the last one, if it had one, in
\* its local_freelist.
LEMMA DequeueData ==
  ASSUME DataInv, PcInv, NEW from, WriterStep(from, "more?"), UNCHANGED attempted,
         NEW l \in SUBSET Nat, l \subseteq tx.local \cup {tx.outbound.buf}, 0 \notin l,
         tx.local \subseteq l, tx.outbound.buf # 0 => tx.outbound.buf \in l,
         tx' = Dequeued([tx EXCEPT !.local = l])
  PROVE  DataInv'
<1>1. pc'.writer = "more?" /\ pc'.main = pc.main /\ pc'.reader = pc.reader
  BY DEF WriterStep, Move, PcInv, Thread
<1> DEFINE u == [tx EXCEPT !.local = l]
<1>2. /\ u \in Tx /\ u.requests = tx.requests /\ u.buffers = tx.buffers /\ u.local = l
      /\ u.allocated = tx.allocated /\ u.writes = tx.writes /\ u.lost = tx.lost
  BY Zenon DEF DataInv, Tx
<1>3. tx' = Dequeued(u)
  OBVIOUS
<1> HIDE DEF u
<1>4. NoRequest \in Request /\ NoRequest.buf = 0 /\ NoRequest.pkt = 0
  BY DEF NoRequest, Request
<1>l. /\ tx.lost \subseteq 1 .. tx.allocated /\ 0 \notin 1 .. tx.allocated
      /\ \A b \in tx.lost : b \notin tx.buffers \cup l
  BY DataTypes DEF DataInv, LostInv
<1>5. CASE tx.requests = <<>>
  <2>1. tx' = [u EXCEPT !.outbound = NoRequest]
    BY <1>2, <1>3, <1>5 DEF Dequeued
  <2>2. /\ tx' \in Tx /\ tx'.requests = <<>> /\ tx'.buffers = tx.buffers /\ tx'.local = l
        /\ tx'.allocated = tx.allocated /\ tx'.writes = tx.writes /\ tx'.outbound = NoRequest
        /\ tx'.lost = tx.lost
    BY <1>2, <1>4, <1>5, <2>1, Zenon DEF Tx
  <2>3. High' = High /\ High \in Nat
    BY <1>1, <2>2, DataTypes DEF High, LockFree
  <2>4. Len(tx'.requests) = 0 /\ \A i \in 1 .. Len(tx'.requests) : FALSE
    BY <2>2
  <2>5. BufferInv'
    <3>1. 0 \in 0 .. tx.allocated /\ 0 \notin tx.buffers
      BY DataTypes DEF DataInv, BufferInv
    <3>2. l \subseteq 1 .. tx.allocated
      <4>1. \A b \in 0 .. tx.allocated : b # 0 => b \in 1 .. tx.allocated
        BY DataTypes
      <4> QED BY <4>1, Zenon DEF DataInv, BufferInv
    <3> QED BY <1>4, <2>2, <2>4, <3>1, <3>2, Zenon DEF DataInv, BufferInv
  <2>l. LostInv'
    <3>1. \A i \in 1 .. Len(tx.requests) : FALSE
      BY <1>5
    <3>2. ASSUME NEW b \in tx.lost
          PROVE  b \notin tx'.buffers \cup tx'.local /\ b # tx'.outbound.buf
      BY <1>4, <1>l, <2>2, Zenon
    <3>3. ASSUME NEW b \in 1 .. tx.allocated
          PROVE  b \in tx'.buffers \cup tx'.local \cup tx'.lost
      <4>1. b \in tx.buffers \cup tx.local \cup tx.lost \/ b = tx.outbound.buf
        BY <3>1, Zenon DEF DataInv, LostInv
      <4> QED BY <1>l, <2>2, <4>1, Zenon
    <3> QED BY <1>l, <2>2, <2>4, <3>2, <3>3, Zenon DEF LostInv
  <2>6. 0 < High
    BY <2>3, DataTypes DEF DataInv, QueueInv
  <2>7. OrderInv'
    BY <1>4, <2>2, <2>3, <2>4, <2>6, Zenon DEF DataInv, OrderInv
  <2>8. QueueInv'
    BY <1>1, <2>2, <2>3, <2>4, EthSizeAssumption DEF DataInv, QueueInv, Sending, Holding
  <2> QED BY <2>2, <2>5, <2>7, <2>8, <2>l, Zenon DEF DataInv
<1>6. CASE tx.requests # <<>>
  <2>1. /\ tx.requests \in Seq(Request) /\ Len(tx.requests) \in Nat /\ 0 < Len(tx.requests)
        /\ Head(tx.requests) = tx.requests[1]
        /\ Tail(tx.requests) \in Seq(Request) /\ Len(Tail(tx.requests)) = Len(tx.requests) - 1
        /\ \A i \in 1 .. Len(tx.requests) - 1 : Tail(tx.requests)[i] = tx.requests[i + 1]
    BY <1>6, DataTypes
  <2>2. tx' = [u EXCEPT !.outbound = tx.requests[1], !.requests = Tail(tx.requests)]
    BY <1>2, <1>3, <1>6, <2>1 DEF Dequeued
  <2>3. tx.requests[1] \in Request
    BY <2>1, DataTypes
  <2>4. /\ tx' \in Tx /\ tx'.requests = Tail(tx.requests) /\ tx'.buffers = tx.buffers /\ tx'.local = l
        /\ tx'.allocated = tx.allocated /\ tx'.writes = tx.writes /\ tx'.outbound = tx.requests[1]
        /\ tx'.lost = tx.lost
    BY <1>2, <2>1, <2>2, <2>3, Zenon DEF Tx
  <2>5. High' = High /\ High \in Nat
    BY <1>1, <2>4, DataTypes DEF High, LockFree
  <2>6. /\ Len(tx'.requests) = Len(tx.requests) - 1 /\ 1 \in 1 .. Len(tx.requests)
        /\ \A i \in 1 .. Len(tx'.requests) :
             i + 1 \in 1 .. Len(tx.requests) /\ i + 1 # 1 /\ 1 < i + 1 /\ tx'.requests[i] = tx.requests[i + 1]
    <3>0. 1 \in 1 .. Len(tx.requests)
      BY <2>1
    <3>1. Len(tx'.requests) = Len(tx.requests) - 1
      BY <2>1, <2>4, Zenon
    <3>2. ASSUME NEW i \in 1 .. Len(tx'.requests)
          PROVE  i + 1 \in 1 .. Len(tx.requests) /\ i + 1 # 1 /\ 1 < i + 1 /\ i \in 1 .. Len(tx.requests) - 1
      BY <2>1, <3>1
    <3> QED BY <2>1, <2>4, <3>0, <3>1, <3>2, Zenon
  <2>7. BufferInv'
    <3>1. tx.requests[1].buf \in 1 .. tx.allocated /\ tx.requests[1].buf \notin tx.buffers \cup l
      BY <2>6 DEF DataInv, BufferInv
    <3>2. ASSUME NEW i \in 1 .. Len(tx'.requests)
          PROVE  /\ tx'.requests[i].buf \in 1 .. tx.allocated
                 /\ tx'.requests[i].buf \notin tx.buffers \cup l
                 /\ tx'.requests[i].buf # tx.requests[1].buf
      <4>1. /\ i + 1 \in 1 .. Len(tx.requests) /\ 1 \in 1 .. Len(tx.requests) /\ i + 1 # 1
            /\ tx'.requests[i] = tx.requests[i + 1]
        BY <2>6
      <4> QED BY <4>1, Zenon DEF DataInv, BufferInv
    <3>3. ASSUME NEW i \in 1 .. Len(tx'.requests), NEW j \in 1 .. Len(tx'.requests), i # j
          PROVE  tx'.requests[i].buf # tx'.requests[j].buf
      <4>1. i + 1 # j + 1
        BY <3>3
      <4>2. /\ i + 1 \in 1 .. Len(tx.requests) /\ j + 1 \in 1 .. Len(tx.requests)
            /\ tx'.requests[i] = tx.requests[i + 1] /\ tx'.requests[j] = tx.requests[j + 1]
        BY <2>6, Zenon
      <4> QED BY <4>1, <4>2 DEF DataInv, BufferInv
    <3>4. l \subseteq 1 .. tx.allocated /\ tx.buffers \cap l = {} /\ tx.buffers \subseteq 1 .. tx.allocated
      BY DataTypes DEF DataInv, BufferInv
    <3>5. tx.requests[1].buf \in 0 .. tx.allocated /\ tx.requests[1].buf # 0
      BY <3>1, DataTypes
    <3> QED BY <2>4, <3>1, <3>2, <3>3, <3>4, <3>5, Zenon DEF BufferInv
  <2>l. LostInv'
    <3>1. \A i \in 1 .. Len(tx.requests) :
            i = 1 \/ \E j \in 1 .. Len(tx'.requests) : tx'.requests[j] = tx.requests[i]
      <4>1. \A i \in 1 .. Len(tx.requests) : i # 1 => i - 1 \in 1 .. Len(tx'.requests) /\ (i - 1) + 1 = i
        BY <2>1, <2>6
      <4> QED BY <2>6, <4>1, Zenon
    <3>2. ASSUME NEW b \in tx.lost
          PROVE  /\ b \notin tx'.buffers \cup tx'.local /\ b # tx'.outbound.buf
                 /\ \A i \in 1 .. Len(tx'.requests) : tx'.requests[i].buf # b
      <4>1. \A i \in 1 .. Len(tx.requests) : tx.requests[i].buf # b
        BY Zenon DEF DataInv, LostInv
      <4>2. tx'.outbound.buf # b /\ \A i \in 1 .. Len(tx'.requests) : tx'.requests[i].buf # b
        BY <2>4, <2>6, <4>1, Zenon
      <4>3. b \notin tx'.buffers \cup tx'.local
        BY <1>l, <2>4, Zenon
      <4> QED BY <4>2, <4>3, Zenon
    <3>3. ASSUME NEW b \in 1 .. tx.allocated
          PROVE  \/ b \in tx'.buffers \cup tx'.local \cup tx'.lost \/ b = tx'.outbound.buf
                 \/ \E i \in 1 .. Len(tx'.requests) : tx'.requests[i].buf = b
      <4>1. \/ b \in tx.buffers \cup tx.local \cup tx.lost \/ b = tx.outbound.buf
            \/ \E i \in 1 .. Len(tx.requests) : tx.requests[i].buf = b
        BY Zenon DEF DataInv, LostInv
      <4>2. CASE b \in tx.buffers \cup tx.local \cup tx.lost
        BY <2>4, <4>2, Zenon
      <4>3. CASE b = tx.outbound.buf
        BY <1>l, <2>4, <4>3, Zenon
      <4>4. CASE \E i \in 1 .. Len(tx.requests) : tx.requests[i].buf = b
        <5>1. PICK i \in 1 .. Len(tx.requests) : tx.requests[i].buf = b
          BY <4>4, Zenon
        <5>2. CASE i = 1
          BY <2>4, <5>1, <5>2, Zenon
        <5>3. CASE \E j \in 1 .. Len(tx'.requests) : tx'.requests[j] = tx.requests[i]
          BY <5>1, <5>3, Zenon
        <5> QED BY <3>1, <5>2, <5>3, Zenon
      <4> QED BY <4>1, <4>2, <4>3, <4>4, Zenon
    <3> QED BY <1>l, <2>4, <3>2, <3>3, Zenon DEF LostInv
  <2>8. OrderInv'
    <3>1. ASSUME NEW k \in 1 .. Len(attempted)
          PROVE  /\ attempted[k] < tx.requests[1].pkt /\ attempted[k] < High
                 /\ \A i \in 1 .. Len(tx'.requests) : attempted[k] < tx'.requests[i].pkt
      BY <2>6, Zenon DEF DataInv, OrderInv
    <3>2. ASSUME NEW i \in 1 .. Len(tx'.requests)
          PROVE  /\ 0 < tx'.requests[i].pkt /\ tx'.requests[i].pkt < High
                 /\ tx.requests[1].pkt < tx'.requests[i].pkt
      BY <2>6, Zenon DEF DataInv, OrderInv
    <3>3. ASSUME NEW i \in 1 .. Len(tx'.requests), NEW j \in 1 .. Len(tx'.requests), i < j
          PROVE  tx'.requests[i].pkt < tx'.requests[j].pkt
      <4>1. i + 1 < j + 1
        BY <3>3
      <4> QED BY <2>6, <4>1, Zenon DEF DataInv, OrderInv
    <3>4. tx.requests[1].pkt < High
      BY <2>6 DEF DataInv, OrderInv
    <3> QED BY <2>4, <2>5, <3>1, <3>2, <3>3, <3>4, Zenon DEF DataInv, OrderInv
  <2>9. QueueInv'
    BY <1>1, <2>1, <2>4, <2>5, <2>6, EthSizeAssumption DEF DataInv, QueueInv, Sending, Holding
  <2> QED BY <2>4, <2>7, <2>8, <2>9, <2>l, Zenon DEF DataInv
<1> QED BY <1>5, <1>6

\* _eth_write is given the request that the writer holds.
LEMMA SendData ==
  ASSUME DataInv, PcInv, WriterSend
  PROVE  DataInv'
<1>1. /\ pc.writer = "send" /\ pc'.writer \in {"sent", "error"} /\ pc'.main = pc.main /\ pc'.reader = pc.reader
      /\ tx' = tx /\ attempted' = Append(attempted, tx.outbound.pkt)
  BY DEF WriterSend, WriterStep, Move, PcInv, Thread
<1>2. tx.outbound # NoRequest
  BY <1>1 DEF DataInv, QueueInv, Sending
<1>3. High' = High /\ High \in Nat
  BY <1>1, DataTypes DEF High, LockFree
<1>4. \A k \in 1 .. Len(attempted) : attempted[k] < tx.outbound.pkt
  BY <1>1, <1>2 DEF DataInv, OrderInv
<1>5. attempted \in Seq(Nat) /\ tx.outbound.pkt \in Nat /\ tx.outbound.pkt < High
  BY DataTypes DEF DataInv, OrderInv
<1>6. /\ attempted' \in Seq(Nat) /\ Len(attempted') = Len(attempted) + 1
      /\ \A k \in 1 .. Len(attempted') :
           \/ k \in 1 .. Len(attempted) /\ attempted'[k] = attempted[k]
           \/ k = Len(attempted) + 1 /\ attempted'[k] = tx.outbound.pkt
  BY <1>1, <1>5
<1>7. \A k, l \in 1 .. Len(attempted') : k < l => attempted'[k] < attempted'[l]
  <2>1. \A k, l \in 1 .. Len(attempted) : k < l => attempted[k] < attempted[l]
    BY DEF DataInv, OrderInv
  <2>2. \A k, l \in 1 .. Len(attempted') : k < l => k \in 1 .. Len(attempted) /\ attempted'[k] = attempted[k]
    BY <1>5, <1>6
  <2> QED BY <1>4, <1>6, <2>1, <2>2, Zenon
<1>8. ASSUME NEW k \in 1 .. Len(attempted')
      PROVE  attempted'[k] < High /\ \A i \in 1 .. Len(tx.requests) : attempted'[k] < tx.requests[i].pkt
  BY <1>5, <1>6, Zenon DEF DataInv, OrderInv
<1>9. OrderInv'
  BY <1>1, <1>3, <1>6, <1>7, <1>8, Zenon DEF DataInv, OrderInv
<1>10. BufferInv' /\ QueueInv'
  BY <1>1, <1>2, <1>3 DEF DataInv, BufferInv, QueueInv, Holding
<1>11. LostInv'
  BY <1>1, Zenon DEF DataInv, LostInv
<1> QED BY <1>1, <1>9, <1>10, <1>11, Zenon DEF DataInv

\* The buffers of the requests sent go back to write_buffers; one in hand is lost.
LEMMA ReturnData ==
  ASSUME DataInv, PcInv, WriterReturn
  PROVE  DataInv'
<1>1. pc'.writer = "test" /\ pc'.main = pc.main /\ pc'.reader = pc.reader /\ attempted' = attempted
  BY DEF WriterReturn, WriterStep, Move, PcInv, Thread
<1>2. NoRequest \in Request /\ NoRequest.buf = 0 /\ NoRequest.pkt = 0
  BY DEF NoRequest, Request
<1>3. tx' = [tx EXCEPT !.buffers = @ \cup tx.local, !.local = {}, !.outbound = NoRequest,
                       !.lost = @ \cup InHand]
  BY DEF WriterReturn
<1>4. /\ tx' \in Tx /\ tx'.requests = tx.requests /\ tx'.buffers = tx.buffers \cup tx.local /\ tx'.local = {}
      /\ tx'.allocated = tx.allocated /\ tx'.writes = tx.writes /\ tx'.outbound = NoRequest
      /\ tx'.lost = tx.lost \cup InHand
  <2>1. tx.lost \cup InHand \in SUBSET Nat
    BY DataTypes, Zenon DEF DataInv, Tx, InHand, Request
  <2> QED BY <1>2, <1>3, <2>1, DataTypes, Zenon DEF DataInv, Tx
<1>5. High' = High /\ High \in Nat
  BY <1>1, <1>4, DataTypes DEF High, LockFree
<1>6. 0 < High
  BY <1>5, DataTypes DEF DataInv, QueueInv
<1>7. BufferInv'
  <2>1. \A i \in 1 .. Len(tx.requests) : tx.requests[i].buf # 0
    BY DataTypes DEF DataInv, BufferInv
  <2>2. 0 \in 0 .. tx.allocated /\ 0 \notin tx.buffers \cup tx.local
    BY DataTypes DEF DataInv, BufferInv
  <2> QED BY <1>2, <1>4, <2>1, <2>2, Zenon DEF DataInv, BufferInv
<1>l. LostInv'
  <2>1. /\ \A b \in 0 .. tx.allocated : b # 0 => b \in 1 .. tx.allocated
        /\ 0 \notin 1 .. tx.allocated
    BY DataTypes
  <2>2. InHand = {} \/ (InHand = {tx.outbound.buf} /\ tx.outbound.buf # 0)
    BY Zenon DEF InHand, DataInv, BufferInv
  <2>3. \A b \in InHand : /\ b \in 1 .. tx.allocated /\ b \notin tx.buffers \cup tx.local
                          /\ \A i \in 1 .. Len(tx.requests) : tx.requests[i].buf # b
    BY <2>1, <2>2, Zenon DEF DataInv, BufferInv
  <2>4. \A b \in 1 .. tx.allocated : b = tx.outbound.buf => b \in InHand
    BY <1>2, <2>1, Zenon DEF InHand
  <2>5. tx'.lost \subseteq 1 .. tx'.allocated
    BY <1>4, <2>3, Zenon DEF DataInv, LostInv
  <2>6. ASSUME NEW b \in tx'.lost
        PROVE  /\ b \notin tx'.buffers \cup tx'.local /\ b # tx'.outbound.buf
               /\ \A i \in 1 .. Len(tx'.requests) : tx'.requests[i].buf # b
    <3>1. /\ b \notin tx.buffers \cup tx.local
          /\ \A i \in 1 .. Len(tx.requests) : tx.requests[i].buf # b
      BY <1>4, <2>3, Zenon DEF DataInv, LostInv
    <3>2. b # 0
      BY <1>4, <2>1, <2>5, Zenon
    <3> QED BY <1>2, <1>4, <3>1, <3>2, Zenon
  <2>7. ASSUME NEW b \in 1 .. tx'.allocated
        PROVE  \/ b \in tx'.buffers \cup tx'.local \cup tx'.lost \/ b = tx'.outbound.buf
               \/ \E i \in 1 .. Len(tx'.requests) : tx'.requests[i].buf = b
    BY <1>4, <2>4, Zenon DEF DataInv, LostInv
  <2> QED BY <2>5, <2>6, <2>7, Zenon DEF LostInv
<1>8. OrderInv'
  BY <1>1, <1>2, <1>4, <1>5, <1>6 DEF DataInv, OrderInv
<1>9. QueueInv'
  BY <1>1, <1>4, <1>5 DEF DataInv, QueueInv, Sending, Holding
<1> QED BY <1>4, <1>7, <1>8, <1>9, <1>l, Zenon DEF DataInv

\* So do, when the writer stops, those of the requests it has not taken.
LEMMA FinishData ==
  ASSUME DataInv, PcInv, WriterFinish
  PROVE  DataInv'
<1>1. pc'.writer = "exited" /\ pc'.main = pc.main /\ pc'.reader = pc.reader /\ attempted' = attempted
  BY DEF WriterFinish, WriterStep, Move, PcInv, Thread
<1> DEFINE queued == {r.buf : r \in Range(tx.requests)}
<1>2. \A b \in queued : \E i \in 1 .. Len(tx.requests) : b = tx.requests[i].buf
  BY DataTypes DEF Range
<1>q. \A i \in 1 .. Len(tx.requests) : tx.requests[i].buf \in queued
  BY DataTypes DEF Range
<1>3. queued \subseteq Nat
  BY <1>2, DataTypes, Zenon DEF Request
<1>4. tx' = [tx EXCEPT !.buffers = @ \cup tx.local \cup queued, !.local = {}, !.requests = <<>>]
  BY DEF WriterFinish
<1> HIDE DEF queued
<1>5. /\ tx' \in Tx /\ tx'.requests = <<>> /\ tx'.buffers = tx.buffers \cup tx.local \cup queued
      /\ tx'.local = {} /\ tx'.allocated = tx.allocated /\ tx'.writes = tx.writes
      /\ tx'.outbound = tx.outbound /\ tx'.lost = tx.lost
  <2>1. tx.buffers \cup tx.local \cup queued \in SUBSET Nat
    BY <1>3, DataTypes, Zenon
  <2>2. {} \in SUBSET Nat /\ <<>> \in Seq(Request)
    OBVIOUS
  <2> QED BY <1>4, <2>1, <2>2, Zenon DEF DataInv, Tx
<1>6. Len(tx'.requests) = 0
  BY <1>5
<1>7. High' = High
  BY <1>1, <1>5, Zenon DEF High, LockFree
<1>8. BufferInv'
  BY <1>2, <1>5, <1>6 DEF DataInv, BufferInv
<1>l. LostInv'
  <2>1. \A i \in 1 .. Len(tx'.requests) : FALSE
    BY <1>6
  <2>2. ASSUME NEW b \in tx'.lost
        PROVE  b \notin tx'.buffers \cup tx'.local /\ b # tx'.outbound.buf
    BY <1>2, <1>5, Zenon DEF DataInv, LostInv
  <2>3. ASSUME NEW b \in 1 .. tx'.allocated
        PROVE  b \in tx'.buffers \cup tx'.local \cup tx'.lost \/ b = tx'.outbound.buf
    <3>1. \/ b \in tx.buffers \cup tx.local \cup tx.lost \/ b = tx.outbound.buf
          \/ \E i \in 1 .. Len(tx.requests) : tx.requests[i].buf = b
      BY <1>5, Zenon DEF DataInv, LostInv
    <3> QED BY <1>5, <1>q, <3>1, Zenon
  <2> QED BY <1>5, <2>1, <2>2, <2>3, Zenon DEF DataInv, LostInv
<1>9. OrderInv'
  BY <1>1, <1>5, <1>6, <1>7 DEF DataInv, OrderInv
<1>10. QueueInv'
  <2>1. pc.writer = "finish"
    BY DEF WriterFinish, WriterStep, Move
  <2> QED BY <1>1, <1>5, <1>6, <1>7, <2>1, EthSizeAssumption DEF DataInv, QueueInv, Sending, Holding
<1> QED BY <1>5, <1>8, <1>9, <1>10, <1>l, Zenon DEF DataInv

\* The main thread's steps, but for those of eth_write, leave the queue alone.
LEMMA MainData ==
  ASSUME PlaceInv, DataInv, Library \/ Device
  PROVE  DataInv'
<1>0. PcInv
  BY DEF PlaceInv
<1>1. CASE WriteBegin("main", "open") \/ WriteEnd("main", "open")
  BY <1>0, <1>1, WriteBeginData, WriteEndData
<1>2. CASE StartReader \/ StartWriter
  <2>1. PICK t \in {"reader", "writer"}, from \in {"closed", "start writer"},
             to \in {"start writer", "await ready"} : Create(t, from, to)
    BY <1>2, Zenon DEF StartReader, StartWriter
  <2>2. UNCHANGED <<tx, attempted>>
    BY <2>1, Zenon DEF Create
  <2>3. /\ pc'.main # "write" /\ pc'.reader \in {pc.reader, "init"}
        /\ pc'.writer = pc.writer \/ (pc.writer = "none" /\ pc'.writer = "init")
    <3>1. pc'.main # "write" /\ pc'.reader \in {pc.reader, "init"} /\ pc'.writer \in {pc.writer, "init"}
      BY <1>0, <2>1, Zenon DEF Create, Move, PcInv, Thread
    <3>2. pc.main \in {"closed", "start writer"}
      BY <2>1, Zenon DEF Create, Move
    <3>3. pc'.writer = pc.writer \/ pc.writer = "none"
      BY <1>0, <1>2, <3>2, Zenon DEF PlaceInv, StartInv, StartReader, StartWriter, Create, Move, PcInv, Thread
    <3> QED BY <3>1, <3>3, Zenon
  <2> QED BY <2>2, <2>3, QuietData, Zenon DEF Sending, Holding
<1>3. CASE StopWriter
  <2>1. /\ UNCHANGED <<tx, attempted>> /\ pc'.main # "write" /\ pc'.reader = pc.reader
        /\ pc'.writer = pc.writer \/ (pc.writer = "waiting" /\ pc'.writer = "signalled")
    BY <1>0, <1>3, Zenon DEF StopWriter, Signalled, PcInv, Thread
  <2> QED BY <2>1, QuietData DEF Sending, Holding
<1>4. CASE ReceiverStart
  BY <1>4, QuietData DEF ReceiverStart
<1>5. ASSUME \/ Opened \/ SetAsyncPoll \/ Poll \/ EthRead \/ Checked \/ StopReader \/ JoinReader \/ JoinWriter
             \/ SetAsync \/ CheckAddress \/ Close \/ ReceiverStarted \/ ReceiverStop \/ ClrAsync
      PROVE  DataInv'
  <2>1. UNCHANGED <<tx, attempted>>
    BY <1>5, Zenon DEF Opened, SetAsyncPoll, Poll, EthRead, Checked, StopReader, JoinReader, JoinWriter,
                SetAsync, CheckAddress, Close, ReceiverStarted, ReceiverStop, ClrAsync
  <2>2. \E from, to : to # "write" /\ Move("main", from, to)
    <3>1. CASE Opened \/ SetAsyncPoll \/ Poll
      BY <3>1, Zenon DEF Opened, SetAsyncPoll, Poll
    <3>2. CASE EthRead \/ StopReader \/ JoinReader
      BY <3>2, Zenon DEF EthRead, StopReader, JoinReader
    <3>3. CASE Checked
      BY <3>3, Zenon DEF Checked
    <3>4. CASE JoinWriter \/ SetAsync \/ CheckAddress \/ Close
      BY <3>4, Zenon DEF JoinWriter, SetAsync, CheckAddress, Close
    <3>5. CASE ReceiverStarted \/ ReceiverStop \/ ClrAsync
      BY <3>5, Zenon DEF ReceiverStarted, ReceiverStop, ClrAsync
    <3> QED BY <1>5, <3>1, <3>2, <3>3, <3>4, <3>5
  <2> QED BY <1>0, <2>1, <2>2, QuietMove DEF Thread
<1>6. CASE Error("main")
  <2>1. UNCHANGED <<tx, attempted>> /\ \E from, to : to # "write" /\ Move("main", from, to)
    BY <1>6 DEF Error, ErrorEnter, ErrorWake, Opening, Reopened, Leave, Resumed
  <2> QED BY <1>0, <2>1, QuietMove DEF Thread
<1> QED BY <1>1, <1>2, <1>3, <1>4, <1>5, <1>6 DEF Library, Device

\* So do those of the reader, but for the loopback packets it writes.
LEMMA ReaderData ==
  ASSUME PlaceInv, DataInv, Reader
  PROVE  DataInv'
<1>0. PcInv
  BY DEF PlaceInv
<1>1. CASE WriteBegin("reader", "read") \/ WriteEnd("reader", "read")
  BY <1>0, <1>1, WriteBeginData, WriteEndData
<1>2. CASE ReaderWait /\ pc' = [t \in Thread |-> "crashed"]
  BY <1>2, QuietData DEF ReaderWait, Thread, Sending, Holding
<1>3. ASSUME \/ ReaderInit \/ ReaderReady \/ ReaderRun \/ ReaderTest \/ ReaderPacket \/ ReaderRead
             \/ ReaderError \/ ReaderActivate \/ ReaderSchedule \/ Error("reader")
             \/ ReaderWait /\ pc' # [t \in Thread |-> "crashed"]
      PROVE  DataInv'
  <2>1. UNCHANGED <<tx, attempted>>
    BY <1>3 DEF ReaderInit, ReaderReady, ReaderRun, ReaderTest, ReaderPacket, ReaderRead, ReaderError,
                ReaderActivate, ReaderSchedule, ReaderWait, Error, ErrorEnter, ErrorWake, Opening,
                Reopened, Leave
  <2>2. \E from, to : to # "write" /\ Move("reader", from, to)
    <3>1. CASE ReaderInit \/ ReaderReady \/ ReaderRun \/ ReaderTest
      BY <3>1, Zenon DEF ReaderInit, ReaderReady, ReaderRun, ReaderTest
    <3>2. CASE ReaderPacket \/ ReaderRead \/ ReaderSchedule
      BY <3>2, Zenon DEF ReaderPacket, ReaderRead, ReaderSchedule
    <3>3. CASE ReaderError
      BY <3>3 DEF ReaderError
    <3>4. CASE ReaderActivate
      BY <3>4 DEF ReaderActivate
    <3>5. CASE ReaderWait /\ pc' # [t \in Thread |-> "crashed"]
      BY <3>5 DEF ReaderWait
    <3>6. CASE Error("reader")
      BY <3>6 DEF Error, ErrorEnter, ErrorWake, Opening, Reopened, Leave, Resumed
    <3> QED BY <1>3, <3>1, <3>2, <3>3, <3>4, <3>5, <3>6
  <2> QED BY <1>0, <2>1, <2>2, QuietMove DEF Thread
<1> QED BY <1>1, <1>2, <1>3 DEF Reader

\* The writer changes the queue and the buffers where it takes, sends and returns requests.
LEMMA WriterData ==
  ASSUME PlaceInv, DataInv, Writer
  PROVE  DataInv'
<1>0. PcInv /\ tx \in Tx
  BY DEF PlaceInv, DataInv
<1>1. CASE WriterDequeue
  <2>1. tx' = Dequeued([tx EXCEPT !.local = tx.local]) /\ tx.local \in SUBSET Nat /\ 0 \notin tx.local
    BY <1>0, <1>1 DEF WriterDequeue, Tx, DataInv, BufferInv
  <2>2. pc.writer = "dequeue"
    BY <1>1 DEF WriterDequeue, WriterStep, Move
  <2>3. tx.outbound.buf = 0
    BY <2>2 DEF DataInv, QueueInv, Holding, NoRequest
  <2> QED BY <1>0, <1>1, <2>1, <2>3, DequeueData DEF WriterDequeue
<1>2. CASE WriterSent
  <2>1. pc.writer = "sent"
    BY <1>2 DEF WriterSent, WriterStep, Move
  <2>2. tx.outbound.buf # 0
    BY <2>1, Zenon DEF DataInv, QueueInv, BufferInv, Sending
  <2>3. /\ tx.local \cup {tx.outbound.buf} \in SUBSET Nat /\ 0 \notin tx.local \cup {tx.outbound.buf}
    BY <1>0, <2>2 DEF Tx, DataInv, BufferInv, Request
  <2> QED BY <1>0, <1>2, <2>3, DequeueData, Zenon DEF WriterSent
<1>3. CASE WriterSend \/ WriterReturn \/ WriterFinish
  BY <1>0, <1>3, SendData, ReturnData, FinishData
<1>4. ASSUME \/ WriterInit \/ WriterReady \/ WriterRun \/ WriterTest \/ WriterEmpty \/ WriterCheck
             \/ WriterWait \/ WriterWoken \/ WriterMore \/ Error("writer")
      PROVE  DataInv'
  <2>1. UNCHANGED <<tx, attempted>>
    BY <1>4 DEF WriterInit, WriterReady, WriterRun, WriterTest, WriterEmpty, WriterCheck, WriterWait,
                WriterWoken, WriterMore, Error, ErrorEnter, ErrorWake, Opening, Reopened, Leave
  <2>2. \E from, to : /\ Move("writer", from, to) /\ to # "write"
                      /\ to \in Sending => from \in Sending \/ tx.outbound # NoRequest
                      /\ to \in {"more?", "send"} => from \in {"more?", "send"}
                      /\ to \notin Holding => from \notin Holding
    <3> USE DEF WriterStep, Sending, Holding
    <3>1. CASE WriterInit \/ WriterReady \/ WriterRun
      BY <3>1 DEF WriterInit, WriterReady, WriterRun
    <3>2. CASE WriterTest \/ WriterEmpty \/ WriterCheck
      BY <3>2 DEF WriterTest, WriterEmpty, WriterCheck
    <3>3. CASE WriterWait \/ WriterWoken
      BY <3>3 DEF WriterWait, WriterWoken
    <3>4. CASE WriterMore
      BY <3>4 DEF WriterMore
    <3>5. CASE Error("writer")
      BY <3>5 DEF Error, ErrorEnter, ErrorWake, Opening, Reopened, Leave, Resumed
    <3> QED BY <1>4, <3>1, <3>2, <3>3, <3>4, <3>5
  <2> QED BY <1>0, <2>1, <2>2, QuietMove DEF Thread
<1> QED BY <1>1, <1>2, <1>3, <1>4 DEF Writer

\* The queue, the buffers and the packets agree in every reachable state.
THEOREM DataInvariant == Spec => []DataInv
<1>1. Init => DataInv
  <2> SUFFICES ASSUME Init PROVE DataInv
    OBVIOUS
  <2>1. /\ pc = [main |-> "closed", reader |-> "none", writer |-> "none"] /\ attempted = <<>>
        /\ tx = [requests |-> <<>>, slots |-> <<>>, buffers |-> {}, local |-> {},
                 outbound |-> NoRequest, size |-> 0, allocated |-> 0, writes |-> 0,
                 lost |-> {}]
    BY Zenon DEF Init
  <2>2. NoRequest \in Request /\ NoRequest.buf = 0 /\ NoRequest.pkt = 0
    BY Zenon DEF NoRequest, Request
  <2>3. tx \in Tx
    BY <2>1, <2>2 DEF Tx
  <2>4. /\ tx.requests = <<>> /\ tx.buffers = {} /\ tx.local = {} /\ tx.outbound = NoRequest
        /\ tx.allocated = 0 /\ tx.writes = 0 /\ tx.lost = {}
        /\ pc.main = "closed" /\ pc.reader = "none" /\ pc.writer = "none"
    BY <2>1
  <2>5. High = 1
    BY <2>4 DEF High, LockFree
  <2>6. Len(tx.requests) = 0 /\ Len(attempted) = 0 /\ attempted \in Seq(Nat)
    BY <2>1, <2>4
  <2>7. BufferInv
    BY <2>2, <2>4, <2>6 DEF BufferInv
  <2>8. OrderInv
    BY <2>2, <2>4, <2>5, <2>6 DEF OrderInv
  <2>9. QueueInv
    BY <2>4, <2>5, <2>6, EthSizeAssumption DEF QueueInv, Sending
  <2>10. LostInv
    BY <2>2, <2>4, <2>6 DEF LostInv
  <2> QED BY <2>3, <2>7, <2>8, <2>9, <2>10, Zenon DEF DataInv
<1>2. PlaceInv /\ DataInv /\ [Next]_vars => DataInv'
  <2> SUFFICES ASSUME PlaceInv, DataInv, [Next]_vars PROVE DataInv'
    OBVIOUS
  <2>1. CASE UNCHANGED vars
    BY <2>1, QuietData DEF vars
  <2> QED BY <2>1, MainData, ReaderData, WriterData DEF Next
<1> QED BY <1>1, <1>2, PlaceInvariant, PTL DEF Spec

\* The variables keep their types and both queues their capacity (TypeOK).
THEOREM TypeCorrect == Spec => []TypeOK
<1>1. PlaceInv /\ DataInv => TypeOK
  <2> SUFFICES ASSUME PlaceInv, DataInv PROVE TypeOK
    OBVIOUS
  <2>1. DOMAIN pc = Thread
    BY DEF PlaceInv, PcInv
  <2>2. threads_ready \in 0 .. 2
    BY DEF PlaceInv, ReadyInv, Started
  <2>3. tx.allocated <= tx.writes
    BY DataTypes DEF DataInv, QueueInv, High
  <2> QED BY <2>1, <2>2, <2>3 DEF TypeOK, PlaceInv, RecordInv, Rx, Net, DataInv, QueueInv
<1> QED BY <1>1, PlaceInvariant, DataInvariant, PTL

Sets == INSTANCE FiniteSetTheorems

\* A set whose elements are numbered 1 .. n has n elements.
LEMMA NumberedSet ==
  ASSUME NEW n \in Nat, NEW S, NEW f \in Bijection(1 .. n, S)
  PROVE  Cardinality(S) = n
<1>1. f \in Sets!Bijection(1 .. n, S)
  BY Zenon DEF Bijection, Injection, Surjection, IsInjective,
               Sets!Bijection, Sets!Injection, Sets!Surjection, Sets!IsInjective
<1>2. Sets!IsFiniteSet(1 .. n) /\ Sets!Cardinality(1 .. n) = n
  BY Sets!FS_Interval
<1>3. Sets!Cardinality(S) = n
  BY <1>1, <1>2, Sets!FS_Bijection DEF Sets!ExistsBijection
<1>4. Sets!Cardinality(S) = Cardinality(S)
  BY Zenon DEF Sets!Cardinality, Cardinality
<1> QED BY <1>3, <1>4

\* Every write buffer allocated is free, queued, being sent, sent and not yet returned, or lost, and
\* only one of these (BufferInOnePlace): eth_write never fills a buffer that the writer still uses.
THEOREM BuffersAreInOnePlace == Spec => []BufferInOnePlace
<1>1. DataInv => BufferInOnePlace
  <2> SUFFICES ASSUME DataInv PROVE BufferInOnePlace
    OBVIOUS
  <2> DEFINE queued == {r.buf : r \in Range(tx.requests)}
  <2>1. queued = {tx.requests[i].buf : i \in 1 .. Len(tx.requests)}
    BY DataTypes DEF Range
  <2>2. Cardinality(queued) = Len(tx.requests)
    <3> DEFINE f == [i \in 1 .. Len(tx.requests) |-> tx.requests[i].buf]
    <3>1. f \in Bijection(1 .. Len(tx.requests), queued)
      BY <2>1, DataTypes, Zenon DEF Bijection, Injection, Surjection, IsInjective, DataInv, BufferInv
    <3>2. Len(tx.requests) \in Nat
      BY DataTypes
    <3> QED BY <3>1, <3>2, NumberedSet
  <2>3. \A b \in queued : /\ b \notin tx.buffers /\ b \notin tx.local /\ b \notin tx.lost
                          /\ b # tx.outbound.buf /\ b \in 1 .. tx.allocated
    <3>1. \A i \in 1 .. Len(tx.requests) :
            /\ tx.requests[i].buf \notin tx.buffers \cup tx.local /\ tx.requests[i].buf \in 1 .. tx.allocated
            /\ tx.requests[i].buf # tx.outbound.buf
      BY Zenon DEF DataInv, BufferInv
    <3>2. \A i \in 1 .. Len(tx.requests) : tx.requests[i].buf \notin tx.lost
      BY Zenon DEF DataInv, LostInv
    <3> QED BY <2>1, <3>1, <3>2, Zenon
  <2>4. /\ InHand \subseteq {tx.outbound.buf} /\ tx.outbound.buf \notin tx.buffers \cup tx.local \cup tx.lost
        /\ tx.outbound # NoRequest => InHand = {tx.outbound.buf} /\ tx.outbound.buf # 0
    BY Zenon DEF InHand, DataInv, BufferInv, LostInv
  <2>5. tx.buffers \cup queued \cup tx.local \cup InHand \cup tx.lost = 1 .. tx.allocated
    <3>1. /\ \A b \in 0 .. tx.allocated : b # 0 => b \in 1 .. tx.allocated
          /\ 0 \notin 1 .. tx.allocated /\ NoRequest.buf = 0
      BY DataTypes DEF NoRequest
    <3>2. InHand \subseteq 1 .. tx.allocated
      BY <2>4, <3>1, Zenon DEF InHand, DataInv, BufferInv
    <3>3. ASSUME NEW b \in 1 .. tx.allocated
          PROVE  b \in tx.buffers \cup queued \cup tx.local \cup InHand \cup tx.lost
      <4>1. \A i \in 1 .. Len(tx.requests) : tx.requests[i].buf \in queued
        BY <2>1, Zenon
      <4>2. b = tx.outbound.buf => b \in InHand
        BY <2>4, <3>1, Zenon
      <4> HIDE DEF queued
      <4> QED BY <4>1, <4>2, Zenon DEF DataInv, LostInv
    <3>4. tx.buffers \cup tx.local \cup tx.lost \subseteq 1 .. tx.allocated
      BY Zenon DEF DataInv, BufferInv, LostInv
    <3> HIDE DEF queued
    <3> QED BY <2>3, <3>2, <3>3, <3>4, Zenon
  <2>6. tx.buffers \cap tx.local = {} /\ \A b \in tx.lost : b \notin tx.buffers /\ b \notin tx.local
    BY Zenon DEF DataInv, BufferInv, LostInv
  <2> DEFINE places == <<tx.buffers, queued, tx.local, InHand, tx.lost>>
  <2> HIDE DEF queued
  <2>7. \A i, j \in 1 .. 5 : i # j => places[i] \cap places[j] = {}
    <3>1. /\ places[1] = tx.buffers /\ places[2] = queued /\ places[3] = tx.local
          /\ places[4] = InHand /\ places[5] = tx.lost
      OBVIOUS
    <3> HIDE DEF places
    <3>2. /\ places[1] \cap places[2] = {} /\ places[1] \cap places[3] = {}
          /\ places[1] \cap places[4] = {} /\ places[1] \cap places[5] = {}
          /\ places[2] \cap places[3] = {} /\ places[2] \cap places[4] = {}
          /\ places[2] \cap places[5] = {} /\ places[3] \cap places[4] = {}
          /\ places[3] \cap places[5] = {} /\ places[4] \cap places[5] = {}
      BY <2>3, <2>4, <2>6, <3>1, Zenon
    <3>3. ASSUME NEW i \in 1 .. 5, NEW j \in 1 .. 5, i # j, ~(i < j)
          PROVE  j < i
      BY <3>3
    <3>4. ASSUME NEW i \in 1 .. 5, NEW j \in 1 .. 5, i < j PROVE places[i] \cap places[j] = {}
      <4>1. \/ i = 1 /\ (j = 2 \/ j = 3 \/ j = 4 \/ j = 5)
            \/ i = 2 /\ (j = 3 \/ j = 4 \/ j = 5)
            \/ i = 3 /\ (j = 4 \/ j = 5)
            \/ i = 4 /\ j = 5
        BY <3>4
      <4> QED BY <3>2, <4>1, Zenon
    <3>5. \A S, T : S \cap T = T \cap S
      BY Zenon
    <3> QED BY <3>3, <3>4, <3>5, Zenon
  <2> QED BY <2>2, <2>5, <2>7 DEF BufferInOnePlace, queued
<1> QED BY <1>1, DataInvariant, PTL

\* The writer gives packets to _eth_write in the order of the eth_write calls, each at most once
\* (SentInOrder).
THEOREM PacketsAreSentInOrder == Spec => []SentInOrder
<1>1. DataInv => SentInOrder
  BY DEF DataInv, OrderInv, SentInOrder
<1> QED BY <1>1, DataInvariant, PTL
=============================================================================
