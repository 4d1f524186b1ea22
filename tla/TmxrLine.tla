------------------------------ MODULE TmxrLine ------------------------------
(***************************************************************************)
(* The transmit side of one Telnet line of a terminal multiplexer          *)
(* (src/runtime/sim_tmxr.c).  A device puts characters into the line's     *)
(* circular buffer txb, tmxr_poll_tx writes them to the socket, which may  *)
(* take any part of them or fail, and connections come and go.  A line     *)
(* with a buffer of its own (txbfd, SET CONSOLE TELNET=BUFFERED) also      *)
(* takes output while nobody is connected, and sends what the buffer still *)
(* holds to the next client.                                               *)
(*                                                                         *)
(* The device runs while the simulator runs (sim_is_running), so a put     *)
(* does not send.  The n-th character put is the byte n, an IAC the two    *)
(* bytes n, n; Msg stands for every byte of the connection message.        *)
(***************************************************************************)
EXTENDS Integers, Sequences

CONSTANTS txbsz,     \* lp->txbsz
          Guard,     \* TMXR_GUARD: the free space at which xmte is cleared
          MsgLen,    \* strlen of the connection message
          MaxPuts,   \* bound: characters the device puts
          MaxConns   \* bound: connections accepted

ASSUME LineAssumption ==
    /\ txbsz \in Nat /\ Guard \in Nat /\ MsgLen \in Nat
    /\ MaxPuts \in Nat /\ MaxConns \in Nat
    /\ 2 <= Guard /\ MsgLen + Guard < txbsz

\* The line sends a message: without one txbpr starts at txbsz, not at 0.
ASSUME MessageAssumption == MsgLen > 0

Msg == -1
Unset == 0
Byte == {Msg, Unset} \cup Nat
TxIndex == 0 .. txbsz - 1

VARIABLES lp,       \* the TMLN: conn, txbfd, xmte, txb, txbpi, txbpr, txcnt, txdrp
          buffered, \* history: the bytes put into txb for this connection
          wire,     \* history: the bytes the socket took in this connection
          output,   \* history: every byte put into the buffer of a buffered line
          heeded,   \* history: in this connection, no put while xmte was clear
          puts, conns

lineVars == <<lp, buffered, wire, output, heeded, puts, conns>>

LineInit == /\ lp \in [conn : {FALSE}, txbfd : BOOLEAN, xmte : {1},
                       txb : {[i \in TxIndex |-> Unset]}, txbpi : {0}, txbpr : {0},
                       txcnt : {0}, txdrp : {0}]
            /\ buffered = <<>> /\ wire = <<>> /\ output = <<>>
            /\ heeded = TRUE /\ puts = 0 /\ conns = 0

(* tmxr_tqln: the bytes between the two indexes. *)
Tqln(l) == l.txbpi - l.txbpr + (IF l.txbpi < l.txbpr THEN txbsz ELSE 0)

(* TXBUF_AVAIL *)
Avail(l) == txbsz - Tqln(l)

(* The bytes of the buffer, the oldest first. *)
Content(l) == [i \in 1 .. Tqln(l) |-> l.txb[(l.txbpr + i - 1) % txbsz]]

BadStore(l, b) ==
    [l EXCEPT !.txb[l.txbpi] = b, !.txbpi = (l.txbpi + 1) % txbsz]

(* TXBUF_CHAR: a full buffer loses its oldest byte and counts it. *)
Store(l, b) ==
    LET pi == (l.txbpi + 1) % txbsz
    IN  [l EXCEPT !.txb = [l.txb EXCEPT ![l.txbpi] = b],
                  !.txbpi = pi,
                  !.txbpr = IF pi = l.txbpr THEN (1 + l.txbpr) % txbsz ELSE l.txbpr,
                  !.txdrp = IF pi = l.txbpr THEN l.txdrp + 1 ELSE l.txdrp]

BadThrottled(l) == l

(* An unbuffered line that is nearly full asks the device to pause. *)
Throttled(l) ==
    [l EXCEPT !.xmte = IF ~l.txbfd /\ Avail(l) <= Guard THEN 0 ELSE l.xmte]

Takes(l) == (l.conn /\ Avail(l) > 1) \/ (~l.conn /\ l.txbfd)

(***************************************************************************)
(* tmxr_putc_ln: the line stores the character, stalls the device, or      *)
(* loses the character because nobody is connected.                        *)
(***************************************************************************)
Putc ==
    \E iac \in BOOLEAN :
      LET n     == puts + 1
          bytes == IF iac THEN <<n, n>> ELSE <<n>>
          open  == [lp EXCEPT !.xmte = IF Avail(lp) > 1 THEN 1 ELSE lp.xmte]
          one   == Store(open, n)
          all   == IF iac THEN Store(one, n) ELSE one
      IN  /\ puts < MaxPuts
          /\ puts' = n
          /\ heeded' = (heeded /\ lp.xmte = 1)
          /\ \/ /\ ~lp.conn /\ ~lp.txbfd
                /\ lp' = [lp EXCEPT !.txdrp = lp.txdrp + 1]
                /\ UNCHANGED <<buffered, output>>
             \/ /\ Takes(lp)
                /\ lp' = Throttled(all)
                /\ buffered' = IF lp.conn THEN buffered \o bytes ELSE buffered
                /\ output' = IF lp.txbfd THEN output \o bytes ELSE output
             \/ /\ lp.conn /\ Avail(lp) <= 1
                /\ lp' = [lp EXCEPT !.xmte = 0]
                /\ UNCHANGED <<buffered, output>>
          /\ UNCHANGED <<wire, conns>>

BadSent(l, k) ==
    IF Tqln(l) = 0 THEN l
    ELSE [l EXCEPT !.txbpr = l.txbpr + k, !.txcnt = l.txcnt + k]

(***************************************************************************)
(* tmxr_send_buffered_data without a packet: the write up to the end of    *)
(* the buffer and the one after the wrap together take the first k bytes.  *)
(***************************************************************************)
Sent(l, k) ==
    IF Tqln(l) = 0 THEN l
    ELSE [l EXCEPT !.txbpr = (l.txbpr + k) % txbsz, !.txcnt = l.txcnt + k]

(* tmxr_init_line: a buffered Telnet line keeps what it holds. *)
InitLine(l) ==
    [l EXCEPT !.xmte = 1, !.txdrp = 0,
              !.txbpr = IF l.txbfd THEN l.txbpr ELSE 0,
              !.txbpi = IF l.txbfd THEN l.txbpi ELSE 0,
              !.txcnt = IF l.txbfd THEN l.txcnt ELSE 0]

(* tmxr_reset_ln_ex once its last write is done. *)
Closed(l) == InitLine([l EXCEPT !.conn = FALSE])

(* A write that fails drops what the buffer holds and closes the line. *)
Failed(l) == Closed([l EXCEPT !.txbpi = 0, !.txbpr = 0])

Disconnected(l) ==
    /\ lp' = l
    /\ buffered' = <<>> /\ wire' = <<>> /\ heeded' = TRUE
    /\ UNCHANGED <<output, puts, conns>>

BadReenabled(l) == l

(* tmxr_poll_tx: an empty buffer ends the pause. *)
Reenabled(l) == [l EXCEPT !.xmte = IF Tqln(l) = 0 THEN 1 ELSE l.xmte]

(* tmxr_poll_tx on a connection that takes k bytes. *)
PollTx(k) ==
    /\ lp.conn
    /\ lp' = Reenabled(Sent(lp, k))
    /\ wire' = wire \o SubSeq(Content(lp), 1, k)
    /\ UNCHANGED <<buffered, output, heeded, puts, conns>>

(* tmxr_poll_tx, tmxr_write without a socket: the output only passes by. *)
PollTxIdle ==
    /\ ~lp.conn /\ lp.txbfd
    /\ lp' = Reenabled(Sent(lp, Tqln(lp)))
    /\ UNCHANGED <<buffered, wire, output, heeded, puts, conns>>

PollTxError == lp.conn /\ Tqln(lp) > 0 /\ Disconnected(Failed(lp))

(* tmxr_reset_ln by the device or the user: a last attempt to send. *)
Reset == /\ lp.conn
         /\ \/ \E k \in 0 .. Tqln(lp) : Disconnected(Closed(Sent(lp, k)))
            \/ Tqln(lp) > 0 /\ Disconnected(Failed(lp))

(* tmxr_poll_rx finds the connection gone. *)
PollRxError == IF lp.txbfd THEN Reset
                           ELSE lp.conn /\ Disconnected(Failed(lp))

BadGreeted(l) ==
    [l EXCEPT !.txbpr = txbsz - MsgLen,
              !.txb = [i \in TxIndex |-> IF i >= txbsz - MsgLen THEN Msg ELSE l.txb[i]]]

(***************************************************************************)
(* tmxr_report_connection: the message goes in front of what is sent, at   *)
(* the end of the buffer, or over the oldest bytes once the buffer has     *)
(* been filled.                                                            *)
(***************************************************************************)
Greeted(l) ==
    LET pr == IF l.txbfd /\ l.txcnt > txbsz THEN (l.txbpi + 1) % txbsz
                                           ELSE txbsz - MsgLen
        at == {(pr + j) % txbsz : j \in 0 .. MsgLen - 1}
    IN  [l EXCEPT !.txbpr = pr,
                  !.txb = [i \in TxIndex |-> IF i \in at THEN Msg ELSE l.txb[i]]]

(* tmxr_poll_conn accepts a client. *)
Connect ==
    LET l == Greeted(InitLine([lp EXCEPT !.conn = TRUE]))
        Counted(m) == [m EXCEPT !.txcnt = m.txcnt - MsgLen]
    IN  /\ ~lp.conn /\ conns < MaxConns
        /\ conns' = conns + 1
        /\ heeded' = TRUE
        /\ \/ \E k \in 0 .. Tqln(l) :
                /\ lp' = Counted(Sent(l, k))
                /\ buffered' = Content(l)
                /\ wire' = SubSeq(Content(l), 1, k)
           \/ /\ Tqln(l) > 0
              /\ lp' = Counted(Failed(l))
              /\ buffered' = <<>> /\ wire' = <<>>
        /\ UNCHANGED <<output, puts>>

(* A poll of a client that reads. *)
PollTxTaken == \E k \in 0 .. Tqln(lp) : (k > 0 \/ Tqln(lp) = 0) /\ PollTx(k)

LineNext == \/ Putc
            \/ \E k \in 0 .. Tqln(lp) : PollTx(k)
            \/ PollTxIdle \/ PollTxError
            \/ Reset \/ PollRxError \/ Connect

LineSpec == LineInit /\ [][LineNext]_lineVars

(* The device polls the line, and a client that stays connected reads. *)
FairLineSpec == LineSpec /\ WF_lineVars(PollTxTaken)

-----------------------------------------------------------------------------
(* The fields have their types and the indexes stay inside the buffer.     *)
LineTypeOK ==
    /\ lp \in [conn : BOOLEAN, txbfd : BOOLEAN, xmte : {0, 1},
               txb : [TxIndex -> Byte], txbpi : TxIndex, txbpr : 0 .. txbsz,
               txcnt : Int, txdrp : Nat]
    /\ buffered \in Seq(Byte) /\ wire \in Seq(Byte) /\ output \in Seq(Byte)
    /\ heeded \in BOOLEAN /\ puts \in 0 .. MaxPuts /\ conns \in 0 .. MaxConns

(* While txdrp is 0, what a connection has been sent and what the buffer   *)
(* still holds are together exactly the bytes buffered for it, in order:   *)
(* partial writes and wraps lose, repeat and reorder nothing.              *)
StreamIntact == lp.conn /\ lp.txdrp = 0 => wire \o Content(lp) = buffered

(* On an unbuffered line a device that puts only while xmte is set never   *)
(* has a byte overwritten, an IAC that takes two included: TMXR_GUARD      *)
(* clears xmte early enough.                                               *)
NothingOverwritten == lp.conn /\ ~lp.txbfd /\ heeded => lp.txdrp = 0

Latest(s, n) == SubSeq(s, Len(s) - n + 1, Len(s))

(* The first client of a buffered line is sent the message and then the    *)
(* output the buffer holds: all of it while it fits beside the message,    *)
(* the latest of it once the buffer has been filled (the two cases between *)
(* which tmxr_report_connection chooses with txcnt), provided the polls    *)
(* kept up with the device (Tqln and txdrp are 0).                         *)
BufferedIsSent ==
    [][LET n    == Len(output)
           kept == IF n > txbsz THEN txbsz - 1 - MsgLen ELSE n
       IN  ~lp.conn /\ lp'.conn /\ lp.txbfd /\ conns = 0
             /\ Tqln(lp) = 0 /\ lp.txdrp = 0
             /\ (n < txbsz - MsgLen \/ n > txbsz)
           => buffered' = [i \in 1 .. MsgLen |-> Msg] \o Latest(output, kept)]_lineVars

(* A device that was paused may transmit again: xmte does not stay clear.  *)
XmteReturns == lp.xmte = 0 ~> lp.xmte = 1

=============================================================================
