------------------------------- MODULE WebLog --------------------------------
(***************************************************************************)
(* The live log of /trojan/log: the handler Log of web/controller/         *)
(* trojan.go, the journal scanner of LogChan in util/linux.go, and the     *)
(* WsConnection of util/websocket.go with its read and write goroutines.   *)
(*                                                                         *)
(*   journalctl -> scanner -> ch -> Log -> outChan -> write loop -> client *)
(*   client -> read loop -> inChan (which nobody reads)                    *)
(*                                                                         *)
(* Log lines are numbered in the order journalctl prints them.             *)
(***************************************************************************)
EXTENDS Naturals, Sequences

CONSTANTS
    OutCap,     \* capacity of outChan (1000 in the code)
    InCap,      \* capacity of inChan (1000 in the code)
    LogCap,     \* capacity of the channel LogChan returns (100 in the code)
    MaxLine,    \* bound on the lines journalctl prints
    MaxMsg      \* bound on the messages the client sends

ASSUME CapacitiesArePositive ==
    /\ OutCap \in Nat \ {0}
    /\ InCap \in Nat \ {0}
    /\ LogCap \in Nat \ {0}
    /\ MaxLine \in Nat
    /\ MaxMsg \in Nat

VARIABLES
    printed,    \* lines journalctl has printed so far
    scanner,    \* program counter of LogChan's goroutine
    scanned,    \* the line it holds, or 0
    ch,         \* the channel LogChan returns
    handler,    \* program counter of Log
    line,       \* the line it holds, or 0
    outChan,    \* wsConn.outChan
    writeLoop,  \* program counter of wsWriteLoop
    msg,        \* the line it holds, or 0
    received,   \* the lines that reached the client
    readLoop,   \* program counter of wsReadLoop
    inMsg,      \* the message it holds
    inLen,      \* number of messages in wsConn.inChan
    clientSent, \* messages the client has sent
    gone,       \* the client has disconnected
    socketOpen, \* wsSocket has not been closed by this side
    isClosed,   \* wsConn.isClosed
    closes      \* how often close(CloseChan) was called; twice would panic

vars == <<printed, scanner, scanned, ch, handler, line, outChan, writeLoop, msg,
          received, readLoop, inMsg, inLen, clientSent, gone, socketOpen,
          isClosed, closes>>

scannerVars == <<printed, scanner, scanned>>
handlerVars == <<handler, line>>
writeVars   == <<writeLoop, msg, received>>
readVars    == <<readLoop, inMsg, inLen, clientSent>>
closeVars   == <<socketOpen, isClosed, closes>>

\* CloseChan is closed: every receive from it succeeds.
Closed == closes > 0

Line == 1 .. MaxLine

TypeOK ==
    /\ printed \in 0 .. MaxLine
    /\ scanner \in {"none", "scan", "check", "send", "exited"}
    /\ scanned \in 0 .. MaxLine
    /\ ch \in Seq(Line) /\ Len(ch) <= LogCap
    /\ handler \in {"start", "recv", "write", "close", "lock", "done"}
    /\ line \in 0 .. MaxLine
    /\ outChan \in Seq(Line) /\ Len(outChan) <= OutCap
    /\ writeLoop \in {"select", "write", "close", "lock", "done"}
    /\ msg \in 0 .. MaxLine
    /\ received \in Seq(Line)
    /\ readLoop \in {"read", "queue", "close", "lock", "done"}
    /\ inMsg \in {"text", "exit"}
    /\ inLen \in 0 .. InCap
    /\ clientSent \in 0 .. MaxMsg
    /\ gone \in BOOLEAN
    /\ socketOpen \in BOOLEAN
    /\ isClosed \in BOOLEAN
    /\ closes \in Nat

\* InitWebsocket has upgraded the connection and started the two loops.
Init ==
    /\ printed = 0
    /\ scanner = "none" /\ scanned = 0
    /\ ch = <<>>
    /\ handler = "start" /\ line = 0
    /\ outChan = <<>>
    /\ writeLoop = "select" /\ msg = 0
    /\ received = <<>>
    /\ readLoop = "read" /\ inMsg = "text" /\ inLen = 0
    /\ clientSent = 0
    /\ gone = FALSE
    /\ socketOpen = TRUE
    /\ isClosed = FALSE /\ closes = 0

-----------------------------------------------------------------------------
(* WsClose, which the handler and both loops call at their end.            *)

CloseSocket == socketOpen' = FALSE /\ UNCHANGED <<isClosed, closes>>

\* Mutant of CloseChanOnce: no look at isClosed.
CloseChanAlways ==
    /\ isClosed' = TRUE
    /\ closes' = closes + 1
    /\ UNCHANGED socketOpen

\* The critical section of wsConn.mutex.
CloseChanOnce ==
    /\ isClosed' = TRUE
    /\ closes' = IF isClosed THEN closes ELSE closes + 1
    /\ UNCHANGED socketOpen

-----------------------------------------------------------------------------
(* LogChan's goroutine                                                     *)

\* Scan returns with the next line.  It may never: the journal may be silent.
ScanLine ==
    /\ scanner = "scan"
    /\ printed < MaxLine
    /\ printed' = printed + 1
    /\ scanned' = printed + 1
    /\ scanner' = "check"
    /\ UNCHANGED <<ch, handlerVars, outChan, writeVars, readVars, gone, closeVars>>

\* journalctl died, or wrote a line too long for the scanner: the goroutine ends
\* and leaves ch open.
ScanEnd ==
    /\ scanner = "scan"
    /\ scanner' = "exited"
    /\ UNCHANGED <<printed, scanned, ch, handlerVars, outChan, writeVars,
                   readVars, gone, closeVars>>

\* The select with a default branch; the line at hand is dropped on exit.
ScanCheck ==
    /\ scanner = "check"
    /\ IF Closed THEN scanner' = "exited" /\ scanned' = 0
                 ELSE scanner' = "send" /\ UNCHANGED scanned
    /\ UNCHANGED <<printed, ch, handlerVars, outChan, writeVars, readVars, gone,
                   closeVars>>

\* Mutant of ScanSend: a full channel drops the line instead of blocking.
ScanSendOrDrop ==
    /\ scanner = "send"
    /\ ch' = IF Len(ch) < LogCap THEN Append(ch, scanned) ELSE ch
    /\ scanned' = 0
    /\ scanner' = "scan"
    /\ UNCHANGED <<printed, handlerVars, outChan, writeVars, readVars, gone, closeVars>>

\* ch <- stdoutScan.Text(), outside the select: blocks while ch is full, for
\* ever if the handler has left.
ScanSend ==
    /\ scanner = "send"
    /\ Len(ch) < LogCap
    /\ ch' = Append(ch, scanned)
    /\ scanned' = 0
    /\ scanner' = "scan"
    /\ UNCHANGED <<printed, handlerVars, outChan, writeVars, readVars, gone, closeVars>>

-----------------------------------------------------------------------------
(* Log                                                                     *)

\* LogChan starts journalctl and its goroutine.
StartLog ==
    /\ handler = "start"
    /\ handler' = "recv"
    /\ scanner' = "scan"
    /\ UNCHANGED <<printed, scanned, ch, line, outChan, writeVars, readVars, gone,
                   closeVars>>

\* The "line" parameter is not a number, or journalctl does not start.
StartFails ==
    /\ handler = "start"
    /\ handler' = "close"
    /\ UNCHANGED <<scannerVars, ch, line, outChan, writeVars, readVars, gone, closeVars>>

\* range result: ch is never closed, so an empty ch blocks.
Receive ==
    /\ handler = "recv"
    /\ ch # <<>>
    /\ line' = Head(ch)
    /\ ch' = Tail(ch)
    /\ handler' = "write"
    /\ UNCHANGED <<scannerVars, outChan, writeVars, readVars, gone, closeVars>>

\* WsWrite; when both cases of its select are ready either may be taken.
WsWrite ==
    /\ handler = "write"
    /\ line' = 0
    /\ \/ /\ Len(outChan) < OutCap
          /\ outChan' = Append(outChan, line)
          /\ handler' = "recv"
       \/ /\ Closed
          /\ handler' = "close"
          /\ UNCHANGED outChan
    /\ UNCHANGED <<scannerVars, ch, writeVars, readVars, gone, closeVars>>

HandlerClose ==
    /\ \/ handler = "close" /\ handler' = "lock" /\ CloseSocket
       \/ handler = "lock" /\ handler' = "done" /\ CloseChanOnce
    /\ UNCHANGED <<scannerVars, ch, line, outChan, writeVars, readVars, gone>>

-----------------------------------------------------------------------------
(* wsWriteLoop                                                             *)

WriteSelect ==
    /\ writeLoop = "select"
    /\ \/ /\ outChan # <<>>
          /\ msg' = Head(outChan)
          /\ outChan' = Tail(outChan)
          /\ writeLoop' = "write"
       \/ /\ Closed
          /\ writeLoop' = "close"
          /\ UNCHANGED <<msg, outChan>>
    /\ UNCHANGED <<scannerVars, ch, handlerVars, received, readVars, gone, closeVars>>

\* WriteMessage succeeds.  A client that has gone no longer sees the line.
\* A client that does not read blocks it: there is no write deadline.
WriteOk ==
    /\ writeLoop = "write"
    /\ socketOpen
    /\ received' = IF gone THEN received ELSE Append(received, msg)
    /\ msg' = 0
    /\ writeLoop' = "select"
    /\ UNCHANGED <<scannerVars, ch, handlerVars, outChan, readVars, gone, closeVars>>

WriteFails ==
    /\ writeLoop = "write"
    /\ ~socketOpen \/ gone
    /\ msg' = 0
    /\ writeLoop' = "close"
    /\ UNCHANGED <<scannerVars, ch, handlerVars, outChan, received, readVars, gone,
                   closeVars>>

WriteClose ==
    /\ \/ writeLoop = "close" /\ writeLoop' = "lock" /\ CloseSocket
       \/ writeLoop = "lock" /\ writeLoop' = "done" /\ CloseChanOnce
    /\ UNCHANGED <<scannerVars, ch, handlerVars, outChan, msg, received, readVars, gone>>

-----------------------------------------------------------------------------
(* wsReadLoop                                                              *)

\* ReadMessage returns what the client sent.
ReadMessage(m) ==
    /\ readLoop = "read"
    /\ socketOpen /\ ~gone
    /\ clientSent < MaxMsg
    /\ clientSent' = clientSent + 1
    /\ inMsg' = m
    /\ readLoop' = "queue"
    /\ UNCHANGED <<scannerVars, ch, handlerVars, outChan, writeVars, inLen, gone,
                   closeVars>>

\* Mutant of ReadFails: only the close of this side is noticed.
ReadFailsOwnCloseOnly ==
    /\ readLoop = "read"
    /\ ~socketOpen
    /\ readLoop' = "close"
    /\ UNCHANGED <<scannerVars, ch, handlerVars, outChan, writeVars, inMsg, inLen,
                   clientSent, gone, closeVars>>

ReadFails ==
    /\ readLoop = "read"
    /\ ~socketOpen \/ gone
    /\ readLoop' = "close"
    /\ UNCHANGED <<scannerVars, ch, handlerVars, outChan, writeVars, inMsg, inLen,
                   clientSent, gone, closeVars>>

\* Mutant of ReadQueue: one message more than inChan holds.
ReadQueueOneMore ==
    /\ readLoop = "queue"
    /\ \/ /\ inLen <= InCap
          /\ inLen' = inLen + 1
          /\ readLoop' = IF inMsg = "exit" THEN "close" ELSE "read"
       \/ /\ Closed
          /\ readLoop' = "close"
          /\ UNCHANGED inLen
    /\ UNCHANGED <<scannerVars, ch, handlerVars, outChan, writeVars, inMsg, clientSent,
                   gone, closeVars>>

\* Mutant of ReadQueue: a plain send into inChan.
ReadQueueBlocking ==
    /\ readLoop = "queue"
    /\ inLen < InCap
    /\ inLen' = inLen + 1
    /\ readLoop' = IF inMsg = "exit" THEN "close" ELSE "read"
    /\ UNCHANGED <<scannerVars, ch, handlerVars, outChan, writeVars, inMsg, clientSent,
                   gone, closeVars>>

\* Nobody calls WsRead: once inChan is full the loop waits for CloseChan.
ReadQueue ==
    /\ readLoop = "queue"
    /\ \/ /\ inLen < InCap
          /\ inLen' = inLen + 1
          /\ readLoop' = IF inMsg = "exit" THEN "close" ELSE "read"
       \/ /\ Closed
          /\ readLoop' = "close"
          /\ UNCHANGED inLen
    /\ UNCHANGED <<scannerVars, ch, handlerVars, outChan, writeVars, inMsg, clientSent,
                   gone, closeVars>>

ReadClose ==
    /\ \/ readLoop = "close" /\ readLoop' = "lock" /\ CloseSocket
       \/ readLoop = "lock" /\ readLoop' = "done" /\ CloseChanOnce
    /\ UNCHANGED <<scannerVars, ch, handlerVars, outChan, writeVars, inMsg, inLen,
                   clientSent, gone>>

Disconnect ==
    /\ ~gone
    /\ gone' = TRUE
    /\ UNCHANGED <<scannerVars, ch, handlerVars, outChan, writeVars, readVars, closeVars>>

-----------------------------------------------------------------------------

HandlerStep == StartLog \/ StartFails \/ Receive \/ WsWrite \/ HandlerClose
WriteStep   == WriteSelect \/ WriteFails \/ WriteClose
ReadStep    == ReadFails \/ ReadQueue \/ ReadClose
ScanStep    == ScanCheck \/ ScanSend

Next ==
    \/ ScanLine \/ ScanEnd \/ ScanStep
    \/ HandlerStep
    \/ WriteStep \/ WriteOk
    \/ ReadStep \/ \E m \in {"text", "exit"} : ReadMessage(m)
    \/ Disconnect

Spec == Init /\ [][Next]_vars

\* Every goroutine that can take a step on its own gets to; the journal need
\* not print, the client need not send, read or leave.
FairSpec ==
    /\ Spec
    /\ WF_vars(ScanStep)
    /\ WF_vars(HandlerStep)
    /\ WF_vars(WriteStep)
    /\ WF_vars(ReadStep)

-----------------------------------------------------------------------------
(* Properties.                                                             *)

Held(n) == IF n = 0 THEN <<>> ELSE <<n>>

\* What has been printed and not thrown away, from the client back to journalctl.
Pipeline == received \o Held(msg) \o outChan \o Held(line) \o ch \o Held(scanned)

\* The client sees a prefix of the journal, in order, without gaps or doubles,
\* across two channels and three goroutines and whatever way they end.  And as
\* long as the connection is up no line is lost or doubled anywhere on the way: a
\* slow client holds journalctl back, it does not cost lines.
LinesInOrder ==
    /\ received = [i \in 1 .. Len(received) |-> i]
    /\ ~Closed /\ ~gone /\ socketOpen => Pipeline = [i \in 1 .. printed |-> i]

\* The three callers of WsClose never close CloseChan twice, which would panic.
ClosedOnce == closes <= 1

\* After the close the two loops end, and the scanner and the handler leave too
\* unless they are stuck where nothing can wake them: the handler in a range
\* over a ch that stays empty, the scanner in a Scan of a silent journal or in
\* a send into a ch nobody empties any more.
CloseReachesAll ==
    Closed ~> /\ readLoop = "done"
              /\ writeLoop = "done"
              /\ handler = "done" \/ (handler = "recv" /\ ch = <<>>)
              /\ \/ scanner \in {"none", "exited", "scan"}
                 \/ scanner = "send" /\ Len(ch) = LogCap

\* A client that leaves is noticed, unless the read loop is blocked in the
\* inChan nobody reads and no line is written.
GoneIsNoticed == gone ~> (Closed \/ (readLoop = "queue" /\ inLen = InCap))

=============================================================================
