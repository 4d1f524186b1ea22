------------------------------ MODULE EthThreads ------------------------------
(***************************************************************************)
(* An Ethernet device with its reader and writer threads, from eth_open to *)
(* eth_close.  eth_write puts requests on write_requests, a sim_tailq      *)
(* taken here as the FIFO queue that SimTailq shows it to be, for the      *)
(* writer; the reader passes packets to the main thread on read_queue.     *)
(* A failed send or receive ends in _eth_error, which may close and reopen *)
(* the port.                                                               *)
(***************************************************************************)
EXTENDS Naturals, Sequences, FiniteSets, Functions

CONSTANTS Capacity,   \* what write_requests and read_queue can hold
          Threshold,  \* ETH_ERROR_REOPEN_THRESHOLD
          MaxWrites,  \* bound: calls of eth_write
          MaxPackets, \* bound: packets received
          MaxErrors,  \* bound: transmit and receive errors together
          MaxModes,   \* bound: calls of eth_set_async and receivers started
          MaxChecks,  \* bound: calls of eth_check_address_conflict
          MaxFailures \* bound: threads that cannot be created

ASSUME EthSizeAssumption == Capacity \in Nat \ {0} /\ Threshold \in Nat \ {0}
ASSUME EthBoundAssumption ==
  {MaxWrites, MaxPackets, MaxErrors, MaxModes, MaxChecks, MaxFailures} \subseteq Nat

Thread == {"main", "reader", "writer"}
NoRequest == [buf |-> 0, pkt |-> 0]

VARIABLES pc,            \* where each thread is
          reader_status, writer_status, threads_ready,
          rx,            \* [read_queue: its length, poll: the unit is scheduled,
                         \* asynch_io, receiver: "off", "starting" (enabled, and
                         \* xq_startsvc is scheduled) or "on", packets]
          tx,            \* [requests: the queue, slots: what its array holds,
                         \* buffers: write_buffers, local: local_freelist,
                         \* outbound, size: write_queue_size, allocated, writes,
                         \* lost: history, the buffers no list refers to any more]
          attempted,     \* history: the packets the writer gave to _eth_write
          net,           \* [waiting: error_waiting_threads, needs_reset, errors,
                         \* port: "open", "none" or "invalid"]
          calls          \* [modes, checks, failures]

status == <<reader_status, writer_status, threads_ready>>
vars == <<pc, status, rx, tx, attempted, net, calls>>

Init ==
  /\ pc = [main |-> "closed", reader |-> "none", writer |-> "none"]
  /\ reader_status = "INIT" /\ writer_status = "INIT" /\ threads_ready = 0
  /\ rx = [read_queue |-> 0, poll |-> 0, asynch_io |-> 0, receiver |-> "off", packets |-> 0]
  /\ tx = [requests |-> <<>>, slots |-> <<>>, buffers |-> {}, local |-> {},
           outbound |-> NoRequest, size |-> 0, allocated |-> 0, writes |-> 0,
           lost |-> {}]
  /\ attempted = <<>>
  /\ net = [waiting |-> 0, needs_reset |-> 0, errors |-> 0, port |-> "open"]
  /\ calls = [modes |-> 0, checks |-> 0, failures |-> 0]

Move(t, from, to) == pc[t] = from /\ pc' = [pc EXCEPT ![t] = to]

-----------------------------------------------------------------------------
(* eth_open: eth_start_threads, and eth_stop_threads if it fails.          *)

Create(t, from, to) ==
  /\ \/ /\ pc.main = from /\ pc' = [pc EXCEPT !.main = to, ![t] = "init"]
        /\ UNCHANGED calls
     \/ /\ Move("main", from, "stop") /\ calls.failures < MaxFailures
        /\ calls' = [calls EXCEPT !.failures = @ + 1]
  /\ UNCHANGED <<status, rx, tx, attempted, net>>

StartReader == Create("reader", "closed", "start writer")

StartWriter == Create("writer", "start writer", "await ready")

\* eth_open ends in eth_filter_hash, where eth_reflect sends a packet.
Opened ==
  /\ Move("main", "await ready", "check") /\ threads_ready = 2
  /\ UNCHANGED <<status, rx, tx, attempted, net, calls>>

-----------------------------------------------------------------------------
(* eth_write, called by the main thread and, for a loopback packet, by the *)
(* reader.  The caller owns writer_lock while its pc is "write".           *)

LockFree == pc.main # "write" /\ pc.reader # "write"

WriteBegin(t, from) ==
  /\ Move(t, from, "write") /\ LockFree /\ net.port = "open" /\ tx.writes < MaxWrites
  /\ tx' = [tx EXCEPT !.size = Len(tx.requests) + 1, !.writes = @ + 1]
  /\ UNCHANGED <<status, rx, attempted, net, calls>>

\* A buffer of the free list or a new one.
Buffer == IF tx.buffers = {} THEN tx.allocated + 1 ELSE CHOOSE b \in tx.buffers : TRUE
Taken == [tx EXCEPT !.buffers = @ \ {Buffer},
                    !.allocated = IF tx.buffers = {} THEN @ + 1 ELSE @]

\* The array of a sim_tailq is one slot longer than what the queue holds.
Stored(slots, b) == IF Len(slots) <= Capacity THEN Append(slots, b) ELSE Append(Tail(slots), b)

BadEnqueued ==
  [Taken EXCEPT !.requests = Append(@, [buf |-> Buffer, pkt |-> tx.writes]),
                !.slots = Stored(@, Buffer)]

\* sim_tailq_enqueue gives up on a full queue, and its result is not looked at.
Enqueued ==
  IF Len(tx.requests) < Capacity
  THEN [Taken EXCEPT !.requests = Append(@, [buf |-> Buffer, pkt |-> tx.writes]),
                     !.slots = Stored(@, Buffer)]
  ELSE [Taken EXCEPT !.lost = @ \cup {Buffer}]

\* The writer waits on writer_cond in "waiting".
Signalled(p) == IF p.writer = "waiting" THEN [p EXCEPT !.writer = "signalled"] ELSE p

WriteEnd(t, to) ==
  /\ pc[t] = "write"
  /\ tx' = Enqueued
  /\ LET back == [pc EXCEPT ![t] = to]
     IN pc' = IF tx.size <= 2 THEN Signalled(back) ELSE back
  /\ UNCHANGED <<status, rx, attempted, net, calls>>

-----------------------------------------------------------------------------
(* The receiving side of the main thread.                                  *)

\* xq_wr_csr sets the receiver enable bit, and schedules xq_startsvc.
ReceiverStart ==
  /\ pc.main = "open" /\ rx.receiver = "off" /\ calls.modes < MaxModes
  /\ calls' = [calls EXCEPT !.modes = @ + 1]
  /\ rx' = [rx EXCEPT !.receiver = "starting"]
  /\ UNCHANGED <<pc, status, tx, attempted, net>>

\* asynch_io is set from sim_asynch_enabled, which is on here and cannot be
\* changed while an Ethernet device is attached.
Asynchronous(r) == [r EXCEPT !.asynch_io = 1]

\* xq_startsvc, which calls eth_set_async.
ReceiverStarted ==
  /\ Move("main", "open", "set async") /\ rx.receiver = "starting"
  /\ rx' = Asynchronous([rx EXCEPT !.receiver = "on"])
  /\ UNCHANGED <<status, tx, attempted, net, calls>>

\* Devices also call eth_set_async when they are attached.
SetAsync ==
  /\ Move("main", "open", "set async") /\ calls.modes < MaxModes
  /\ calls' = [calls EXCEPT !.modes = @ + 1]
  /\ rx' = Asynchronous(rx)
  /\ UNCHANGED <<status, tx, attempted, net>>

SetAsyncPoll ==
  /\ Move("main", "set async", "open")
  /\ rx' = IF rx.read_queue > 0 THEN [rx EXCEPT !.poll = 1] ELSE rx
  /\ UNCHANGED <<status, tx, attempted, net, calls>>

\* xq_stop_receiver cancels the unit, calls eth_clr_async, and its caller
\* clears the enable bit.
ReceiverStop ==
  /\ Move("main", "open", "stop receiver") /\ rx.receiver # "off"
  /\ rx' = [rx EXCEPT !.poll = 0]
  /\ UNCHANGED <<status, tx, attempted, net, calls>>

ClrAsync ==
  /\ Move("main", "stop receiver", "open")
  /\ rx' = [rx EXCEPT !.asynch_io = 0, !.receiver = "off"]
  /\ UNCHANGED <<status, tx, attempted, net, calls>>

\* The unit's service routine calls eth_read until it returns 0, unless the
\* receiver is disabled.
Poll ==
  /\ rx.poll = 1
  /\ Move("main", "open", IF rx.receiver = "off" THEN "open" ELSE "poll")
  /\ rx' = [rx EXCEPT !.poll = 0]
  /\ UNCHANGED <<status, tx, attempted, net, calls>>

EthRead ==
  /\ \/ /\ Move("main", "poll", "poll") /\ rx.read_queue > 0 /\ net.port = "open"
        /\ rx' = [rx EXCEPT !.read_queue = @ - 1]
     \/ /\ Move("main", "poll", "open") /\ (rx.read_queue = 0 \/ net.port # "open")
        /\ UNCHANGED rx
  /\ UNCHANGED <<status, tx, attempted, net, calls>>

\* eth_check_address_conflict sends a packet itself, and then reads the answers.
CheckAddress ==
  /\ Move("main", "open", "check") /\ calls.checks < MaxChecks
  /\ calls' = [calls EXCEPT !.checks = @ + 1]
  /\ UNCHANGED <<status, rx, tx, attempted, net>>

Checked ==
  /\ \/ Move("main", "check", IF net.port = "open" THEN "poll" ELSE "open") /\ UNCHANGED net
     \/ /\ Move("main", "check", "error") /\ net.port = "open" /\ net.errors < MaxErrors
        /\ net' = [net EXCEPT !.errors = @ + 1]
  /\ UNCHANGED <<status, rx, tx, attempted, calls>>

-----------------------------------------------------------------------------
(* eth_close: eth_stop_threads and eth_destroy_thread_state.               *)

Close ==
  /\ Move("main", "open", "stop")
  /\ UNCHANGED <<status, rx, tx, attempted, net, calls>>

StopReader ==
  /\ Move("main", "stop", "join reader")
  /\ reader_status' = "SHUTDOWN"
  /\ UNCHANGED <<writer_status, threads_ready, rx, tx, attempted, net, calls>>

JoinReader ==
  /\ Move("main", "join reader", "stop writer") /\ pc.reader = "exited"
  /\ UNCHANGED <<status, rx, tx, attempted, net, calls>>

StopWriter ==
  /\ pc.main = "stop writer" /\ LockFree
  /\ writer_status' = "SHUTDOWN"
  /\ pc' = Signalled([pc EXCEPT !.main = "join writer"])
  /\ UNCHANGED <<reader_status, threads_ready, rx, tx, attempted, net, calls>>

JoinWriter ==
  /\ Move("main", "join writer", "done") /\ pc.writer = "exited"
  /\ UNCHANGED <<status, rx, tx, attempted, net, calls>>

-----------------------------------------------------------------------------
(* _eth_reader.                                                            *)

ReaderInit ==
  /\ Move("reader", "init", "ready") /\ reader_status' = "INIT"
  /\ UNCHANGED <<writer_status, threads_ready, rx, tx, attempted, net, calls>>

ReaderReady ==
  /\ Move("reader", "ready", "run") /\ threads_ready' = threads_ready + 1
  /\ UNCHANGED <<reader_status, writer_status, rx, tx, attempted, net, calls>>

ReaderRun ==
  /\ Move("reader", "run", "test") /\ reader_status' = "RUNNING"
  /\ UNCHANGED <<writer_status, threads_ready, rx, tx, attempted, net, calls>>

ReaderTest ==
  /\ \/ /\ Move("reader", "test", "receive") /\ reader_status = "RUNNING"
        /\ UNCHANGED reader_status
     \/ /\ Move("reader", "test", "exited") /\ reader_status # "RUNNING"
        /\ reader_status' = "SHUTDOWN"
  /\ UNCHANGED <<writer_status, threads_ready, rx, tx, attempted, net, calls>>

\* packet_wait times out or finds a packet; it is NULL unless the port is open.
ReaderWait ==
  /\ IF net.port # "open"
     THEN pc.reader = "receive" /\ pc' = [t \in Thread |-> "crashed"]
     ELSE Move("reader", "receive", "activate") \/ Move("reader", "receive", "read")
  /\ UNCHANGED <<status, rx, tx, attempted, net, calls>>

\* packet_read delivers any number of packets; one that finds read_queue full
\* is dropped.
ReaderPacket ==
  /\ Move("reader", "read", "read") /\ rx.packets < MaxPackets
  /\ rx' = [rx EXCEPT !.packets = @ + 1,
                      !.read_queue = IF @ < Capacity THEN @ + 1 ELSE @]
  /\ UNCHANGED <<status, tx, attempted, net, calls>>

ReaderRead ==
  /\ Move("reader", "read", "activate")
  /\ UNCHANGED <<status, rx, tx, attempted, net, calls>>

\* Either call may fail; EINTR is no error.
ReaderError ==
  /\ \E from \in {"receive", "read"} :
       /\ from = "receive" => net.port = "open"
       /\ \/ Move("reader", from, "test") /\ UNCHANGED net
          \/ /\ Move("reader", from, "error") /\ net.errors < MaxErrors
             /\ net' = [net EXCEPT !.errors = @ + 1]
  /\ UNCHANGED <<status, rx, tx, attempted, calls>>

BadReaderActivate ==
  /\ Move("reader", "activate",
          IF rx.asynch_io = 1 /\ rx.read_queue > 1 THEN "schedule" ELSE "test")
  /\ UNCHANGED <<status, rx, tx, attempted, net, calls>>

\* The test comes before the sim_activate_abs it is for.
ReaderActivate ==
  /\ Move("reader", "activate",
          IF rx.asynch_io = 1 /\ rx.read_queue > 0 THEN "schedule" ELSE "test")
  /\ UNCHANGED <<status, rx, tx, attempted, net, calls>>

ReaderSchedule ==
  /\ Move("reader", "schedule", "test")
  /\ rx' = [rx EXCEPT !.poll = 1]
  /\ UNCHANGED <<status, tx, attempted, net, calls>>

-----------------------------------------------------------------------------
(* _eth_writer.                                                            *)

Running == writer_status = "RUNNING"

WriterStep(from, to) ==
  /\ Move("writer", from, to)
  /\ UNCHANGED <<reader_status, rx, calls>>

WriterInit ==
  /\ WriterStep("init", "ready") /\ writer_status' = "INIT"
  /\ UNCHANGED <<threads_ready, tx, attempted, net>>

WriterReady ==
  /\ WriterStep("ready", "run") /\ threads_ready' = threads_ready + 1
  /\ UNCHANGED <<writer_status, tx, attempted, net>>

WriterRun ==
  /\ WriterStep("run", "test") /\ writer_status' = "RUNNING"
  /\ UNCHANGED <<threads_ready, tx, attempted, net>>

WriterTest ==
  /\ WriterStep("test", IF Running THEN "empty?" ELSE "finish")
  /\ UNCHANGED <<writer_status, threads_ready, tx, attempted, net>>

\* The loop that waits for requests: writer_lock is taken after both tests.
WriterEmpty ==
  /\ WriterStep("empty?", IF tx.requests = <<>> THEN "stopped?" ELSE "dequeue")
  /\ UNCHANGED <<writer_status, threads_ready, tx, attempted, net>>

WriterCheck ==
  /\ WriterStep("stopped?", IF Running THEN "wait" ELSE "finish")
  /\ UNCHANGED <<writer_status, threads_ready, tx, attempted, net>>

WriterWait ==
  /\ WriterStep("wait", "waiting") /\ LockFree
  /\ UNCHANGED <<writer_status, threads_ready, tx, attempted, net>>

WriterWoken ==
  /\ WriterStep("signalled", "empty?") /\ LockFree
  /\ UNCHANGED <<writer_status, threads_ready, tx, attempted, net>>

BadDequeued(t) ==
  IF t.requests = <<>> THEN [t EXCEPT !.outbound = NoRequest]
  ELSE [t EXCEPT !.outbound = t.requests[Len(t.requests)],
                 !.requests = SubSeq(@, 1, Len(@) - 1)]

Dequeued(t) ==
  IF t.requests = <<>> THEN [t EXCEPT !.outbound = NoRequest]
  ELSE [t EXCEPT !.outbound = Head(t.requests), !.requests = Tail(t.requests)]

WriterDequeue ==
  /\ WriterStep("dequeue", "more?")
  /\ tx' = Dequeued(tx)
  /\ UNCHANGED <<writer_status, threads_ready, attempted, net>>

\* The buffer that the writer sends.
InHand == IF tx.outbound = NoRequest THEN {} ELSE {tx.outbound.buf}

WriterMore ==
  /\ WriterStep("more?", IF tx.outbound # NoRequest /\ Running THEN "send" ELSE "return")
  /\ UNCHANGED <<writer_status, threads_ready, tx, attempted, net>>

\* _eth_write: without a port it returns at once.
WriterSend ==
  /\ \/ WriterStep("send", "sent") /\ UNCHANGED net
     \/ /\ WriterStep("send", "error") /\ net.port = "open" /\ net.errors < MaxErrors
        /\ net' = [net EXCEPT !.errors = @ + 1]
  /\ attempted' = Append(attempted, tx.outbound.pkt)
  /\ UNCHANGED <<writer_status, threads_ready, tx>>

BadWriterSent ==
  /\ WriterStep("sent", "more?")
  /\ tx' = Dequeued([tx EXCEPT !.buffers = @ \cup {tx.outbound.buf},
                               !.local = @ \cup {tx.outbound.buf}])
  /\ UNCHANGED <<writer_status, threads_ready, attempted, net>>

WriterSent ==
  /\ WriterStep("sent", "more?")
  /\ tx' = Dequeued([tx EXCEPT !.local = @ \cup {tx.outbound.buf}])
  /\ UNCHANGED <<writer_status, threads_ready, attempted, net>>

\* outbound goes out of scope, and a request that was not sent is lost with
\* its buffer; an empty list needs no lock.
WriterReturn ==
  /\ WriterStep("return", "test") /\ (tx.local # {} => LockFree)
  /\ tx' = [tx EXCEPT !.buffers = @ \cup tx.local, !.local = {}, !.outbound = NoRequest,
                      !.lost = @ \cup InHand]
  /\ UNCHANGED <<writer_status, threads_ready, attempted, net>>

WriterFinish ==
  /\ WriterStep("finish", "exited") /\ LockFree
  /\ tx' = [tx EXCEPT !.buffers = @ \cup tx.local \cup {r.buf : r \in Range(tx.requests)},
                      !.local = {}, !.requests = <<>>]
  /\ writer_status' = "SHUTDOWN"
  /\ UNCHANGED <<threads_ready, attempted, net>>

-----------------------------------------------------------------------------
(* _eth_error.  The caller owns dev->lock in "reopen" and "opening".       *)

DevLockFree == \A t \in Thread : pc[t] \notin {"reopen", "opening"}

ErrorEnter(t) ==
  /\ Move(t, "error", "sleep") /\ DevLockFree
  /\ net' = [net EXCEPT !.waiting = @ + 1,
       !.needs_reset = IF @ = 0 /\ net.errors % Threshold = 0 THEN 1 ELSE @]
  /\ UNCHANGED <<status, rx, tx, attempted, calls>>

BadMayReopen == net.needs_reset = 1

MayReopen == net.waiting = 2 /\ net.needs_reset = 1

\* Where the caller goes on: eth_reader_error_handler gives up only on an
\* invalid socket.
Resumed(t, port) ==
  CASE t = "main" -> "open"
    [] t = "reader" -> IF port = "invalid" THEN "exited" ELSE "test"
    [] t = "writer" -> "sent"

\* The reader that gives up leaves ETH_READER_ERROR behind.
Leave(t, from, port) ==
  /\ Move(t, from, Resumed(t, port))
  /\ reader_status' = IF t = "reader" /\ port = "invalid" THEN "ERROR" ELSE reader_status
  /\ UNCHANGED <<writer_status, threads_ready, rx, tx, attempted, calls>>

\* After a second of sleep.
ErrorWake(t) ==
  /\ DevLockFree
  /\ \/ /\ MayReopen /\ Move(t, "sleep", "reopen")
        /\ UNCHANGED <<status, rx, tx, attempted, net, calls>>
     \/ /\ ~MayReopen /\ Leave(t, "sleep", net.port)
        /\ net' = [net EXCEPT !.waiting = @ - 1]

\* The port has been closed; _eth_open_port starts by clearing the backend.
Opening(t) ==
  /\ Move(t, "reopen", "opening")
  /\ net' = [net EXCEPT !.port = "none"]
  /\ UNCHANGED <<status, rx, tx, attempted, calls>>

Reopened(t) ==
  \E port \in {"open", "none", "invalid"} :
    /\ Leave(t, "opening", port)
    /\ net' = [net EXCEPT !.needs_reset = 0, !.waiting = @ - 1, !.port = port]

-----------------------------------------------------------------------------
Error(t) == ErrorEnter(t) \/ ErrorWake(t) \/ Opening(t) \/ Reopened(t)

Reader ==
  \/ ReaderInit \/ ReaderReady \/ ReaderRun \/ ReaderTest \/ ReaderWait \/ ReaderPacket
  \/ WriteBegin("reader", "read") \/ WriteEnd("reader", "read") \/ ReaderRead
  \/ ReaderError \/ ReaderActivate \/ ReaderSchedule \/ Error("reader")

Writer ==
  \/ WriterInit \/ WriterReady \/ WriterRun \/ WriterTest \/ WriterEmpty \/ WriterCheck
  \/ WriterWait \/ WriterWoken \/ WriterDequeue \/ WriterMore \/ WriterSend \/ WriterSent
  \/ WriterReturn \/ WriterFinish \/ Error("writer")

\* What the main thread does in a call it has begun, and the poll that is due.
Library ==
  \/ StartReader \/ StartWriter \/ Opened \/ WriteEnd("main", "open")
  \/ ReceiverStarted \/ SetAsyncPoll \/ ClrAsync \/ Poll \/ EthRead \/ Checked \/ Error("main")
  \/ StopReader \/ JoinReader \/ StopWriter \/ JoinWriter

\* The calls the simulated device and the user may make.
Device ==
  \/ WriteBegin("main", "open") \/ SetAsync \/ ReceiverStart \/ ReceiverStop
  \/ CheckAddress \/ Close

Next == Library \/ Device \/ Reader \/ Writer

Spec == Init /\ [][Next]_vars

\* Threads that can run do, and the calls of the reader's backend are not
\* interrupted for ever.
FairSpec ==
  /\ Spec
  /\ WF_vars(Library) /\ WF_vars(Reader) /\ WF_vars(Writer)
  /\ SF_vars(ReaderWait) /\ SF_vars(ReaderRead)

-----------------------------------------------------------------------------
(* Properties.                                                             *)

\* The values of the variables; neither queue holds more than its capacity.
TypeOK ==
  /\ DOMAIN pc = Thread
  /\ reader_status \in {"INIT", "RUNNING", "SHUTDOWN", "ERROR"}
  /\ writer_status \in {"INIT", "RUNNING", "SHUTDOWN"}
  /\ threads_ready \in 0 .. 2
  /\ rx.read_queue \in 0 .. Capacity /\ rx.poll \in {0, 1} /\ rx.asynch_io \in {0, 1}
  /\ rx.receiver \in {"off", "starting", "on"}
  /\ Len(tx.requests) <= Capacity /\ tx.allocated <= tx.writes
  /\ net.waiting \in 0 .. 3 /\ net.needs_reset \in {0, 1}
  /\ net.port \in {"open", "none", "invalid"}

\* Every write buffer that was allocated is in exactly one place: free, queued,
\* being sent, sent and not yet returned, or lost; and it is lost only where
\* sim_tailq_enqueue finds a full queue or the writer stops with a request in
\* hand.  eth_write never fills a buffer that the writer still uses.
BufferInOnePlace ==
  LET queued == {r.buf : r \in Range(tx.requests)}
      places == <<tx.buffers, queued, tx.local, InHand, tx.lost>>
  IN /\ \A i, j \in 1 .. 5 : i # j => places[i] \cap places[j] = {}
     /\ tx.buffers \cup queued \cup tx.local \cup InHand \cup tx.lost = 1 .. tx.allocated
     /\ Cardinality(queued) = Len(tx.requests)

\* The writer sends packets in the order of the eth_write calls, whichever
\* thread made them, each at most once, across errors and reopened ports.
SentInOrder ==
  \A i, j \in DOMAIN attempted : i < j => attempted[i] < attempted[j]

Reopening(t) == pc[t] \in {"reopen", "opening"}
UsesPort(t) == pc[t] \in {"receive", "read", "send", "check"}

\* While a thread closes and reopens the port no other thread uses it, unless
\* the main thread is in a send of its own, from eth_open or
\* eth_check_address_conflict: then one other thread may, and no more.
ReopenedUnused ==
  \A t, u \in Thread :
    t # u /\ Reopening(t) /\ UsesPort(u) =>
      /\ pc.main \in {"check", "error", "sleep", "reopen", "opening"}
      /\ \A v \in Thread \ {u} : ~UsesPort(v)

\* "When all of the threads which can reference this ETH_DEV object are
\* simultaneously waiting in this routine, we have the potential to close and
\* reopen the network connection": no other thread uses the port.
\* The code does not satisfy this; README.md has the behaviour.
ReopenedAlone ==
  \A t, u \in Thread : t # u /\ Reopening(t) => ~UsesPort(u)

\* With asynchronous I/O on and the receiver enabled, packets that were
\* received reach the device while it stays so, however the reader's test of
\* asynch_io and the queue interleaves with eth_set_async, polls that find the
\* receiver disabled, its stops and starts, and reopening.
Closing == {"stop", "join reader", "stop writer", "join writer", "done", "crashed"}
PacketIsDelivered ==
  rx.read_queue > 0 /\ rx.asynch_io = 1 /\ rx.receiver # "off" ~>
    rx.read_queue = 0 \/ rx.receiver = "off" \/ net.port # "open" \/ pc.main \in Closing

\* "Awaken writer thread to perform actual write": a request does not stay in
\* the queue for ever.
\* The code does not satisfy this; README.md has the behaviour.
RequestIsTaken ==
  \A p \in 1 .. MaxWrites :
    (\E r \in Range(tx.requests) : r.pkt = p) ~> (\A r \in Range(tx.requests) : r.pkt # p)

\* "Join reader thread - will exit on next timeout (max 250ms)".
\* The code does not satisfy this; README.md has the behaviour.
ReaderIsJoined == pc.main = "join reader" ~> pc.main # "join reader"

\* "Join writer thread - will exit when it checks shutdown flag".
\* The code does not satisfy this; README.md has the behaviour.
WriterIsJoined == pc.main = "join writer" ~> pc.main # "join writer"

\* "shutdown must use explicit join-ownership flags rather than assuming both
\* threads exist": eth_stop_threads joins only threads that were created.
\* The code does not satisfy this; README.md has the behaviour.
JoinsCreated ==
  /\ pc.main = "join reader" => pc.reader # "none"
  /\ pc.main = "join writer" => pc.writer # "none"

\* "Attempt to recover if device still attached": after an error the reader
\* goes on only with a port it can wait on.
\* The code does not satisfy this; README.md has the behaviour.
RetriesAttached == pc.reader = "receive" => net.port = "open"

\* "avoid leaking by putting them on free list": eth_destroy_thread_state frees
\* every write buffer once, from write_buffers or from a slot of write_requests.
\* The code does not satisfy this; README.md has the behaviour.
FreedOnce ==
  pc.main = "done" =>
    \A b \in 1 .. tx.allocated :
      Cardinality({i \in DOMAIN tx.slots : tx.slots[i] = b})
        + (IF b \in tx.buffers THEN 1 ELSE 0) = 1
=============================================================================
