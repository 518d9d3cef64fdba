----------------------------- MODULE ExecCommand -----------------------------
(***************************************************************************)
(* ExecCommand of util/command.go: a shell command, one goroutine scanning *)
(* each of its two output pipes, one goroutine in cmd.Wait, and the caller *)
(* printing what comes through the channel they share.                     *)
(*                                                                         *)
(* cmd.Wait closes the read ends of the pipes when the command has exited, *)
(* read to the end or not; its goroutine then closes the channel.  The     *)
(* names leave room for a module that extends this one and another.        *)
(***************************************************************************)
EXTENDS Naturals, Sequences, FiniteSets

CONSTANTS
    Cap,        \* capacity of the channel (100 in the code)
    MaxLine     \* bound on the lines the command writes to each pipe

ASSUME CommandBounds == Cap \in Nat \ {0} /\ MaxLine \in Nat

Stream == {"stdout", "stderr"}

VARIABLES
    exited,     \* the command has exited
    written,    \* lines written to each pipe
    pipe,       \* number of the first line of each pipe not yet scanned
    pipesOpen,  \* cmd.Wait has not closed the read ends yet
    scanner,    \* program counter of each scanning goroutine
    ch,         \* the channel: pairs of stream and line number
    chClosed,   \* close(ch) was called
    errSet,     \* the captured err holds the result of cmd.Wait
    printed,    \* what the caller has printed
    returned,   \* ExecCommand has returned
    crashed     \* a goroutine sent on the closed channel: the process is gone

commandVars == <<exited, written, pipe, pipesOpen, scanner, ch, chClosed, errSet,
                 printed, returned, crashed>>

Item == Stream \X (1 .. MaxLine)

CommandTypeOK ==
    /\ exited \in BOOLEAN /\ pipesOpen \in BOOLEAN
    /\ written \in [Stream -> 0 .. MaxLine]
    /\ pipe \in [Stream -> 1 .. MaxLine + 1]
    /\ scanner \in [Stream -> {"scan", "send", "done"}]
    /\ ch \in Seq(Item) /\ Len(ch) <= Cap
    /\ chClosed \in BOOLEAN /\ errSet \in BOOLEAN
    /\ printed \in Seq(Item)
    /\ returned \in BOOLEAN /\ crashed \in BOOLEAN

\* cmd.Start succeeded.
CommandInit ==
    /\ exited = FALSE /\ pipesOpen = TRUE
    /\ written = [s \in Stream |-> 0]
    /\ pipe = [s \in Stream |-> 1]
    /\ scanner = [s \in Stream |-> "scan"]
    /\ ch = <<>> /\ chClosed = FALSE /\ errSet = FALSE
    /\ printed = <<>> /\ returned = FALSE /\ crashed = FALSE

-----------------------------------------------------------------------------

Write(s) ==
    /\ ~exited
    /\ written[s] < MaxLine
    /\ written' = [written EXCEPT ![s] = @ + 1]
    /\ UNCHANGED <<exited, pipe, pipesOpen, scanner, ch, chClosed, errSet,
                   printed, returned, crashed>>

Exit ==
    /\ ~exited
    /\ exited' = TRUE
    /\ UNCHANGED <<written, pipe, pipesOpen, scanner, ch, chClosed, errSet,
                   printed, returned, crashed>>

\* Mutant of Scan: the result of Scan is not looked at, end of file is a line.
ScanUnchecked(s) ==
    /\ scanner[s] = "scan"
    /\ pipe[s] <= written[s] \/ exited
    /\ scanner' = [scanner EXCEPT ![s] = "send"]
    /\ UNCHANGED <<exited, written, pipe, pipesOpen, ch, chClosed, errSet,
                   printed, returned, crashed>>

\* Scan yields a line, or ends: at end of file, because the pipe was closed, or
\* because the line is too long for its buffer.  A closed pipe still yields the
\* lines that are in the buffer.
Scan(s) ==
    /\ scanner[s] = "scan"
    /\ \/ /\ pipe[s] <= written[s]
          /\ scanner' = [scanner EXCEPT ![s] = "send"]
       \/ /\ ~pipesOpen \/ exited \/ pipe[s] <= written[s]
          /\ scanner' = [scanner EXCEPT ![s] = "done"]
    /\ UNCHANGED <<exited, written, pipe, pipesOpen, ch, chClosed, errSet,
                   printed, returned, crashed>>

\* Mutant of Send: a full channel drops the line.
SendOrDrop(s) ==
    /\ scanner[s] = "send"
    /\ scanner' = [scanner EXCEPT ![s] = "scan"]
    /\ pipe' = [pipe EXCEPT ![s] = @ + 1]
    /\ ch' = IF Len(ch) < Cap THEN Append(ch, <<s, pipe[s]>>) ELSE ch
    /\ UNCHANGED <<exited, written, pipesOpen, chClosed, errSet, printed,
                   returned, crashed>>

\* ch <- line: blocks while ch is full, panics once it is closed.
Send(s) ==
    /\ scanner[s] = "send"
    /\ \/ /\ chClosed
          /\ crashed' = TRUE
          /\ UNCHANGED <<scanner, pipe, ch>>
       \/ /\ ~chClosed
          /\ Len(ch) < Cap
          /\ ch' = Append(ch, <<s, pipe[s]>>)
          /\ pipe' = [pipe EXCEPT ![s] = @ + 1]
          /\ scanner' = [scanner EXCEPT ![s] = "scan"]
          /\ UNCHANGED crashed
    /\ UNCHANGED <<exited, written, pipesOpen, chClosed, errSet, printed, returned>>

\* cmd.Wait returns: it has closed the pipes, and err is assigned.
WaitReturns ==
    /\ exited
    /\ ~errSet
    /\ pipesOpen' = FALSE
    /\ errSet' = TRUE
    /\ UNCHANGED <<exited, written, pipe, scanner, ch, chClosed, printed,
                   returned, crashed>>

\* Mutant of CloseCh: it does not come after the Wait.
CloseChEarly ==
    /\ ~chClosed
    /\ chClosed' = TRUE
    /\ UNCHANGED <<exited, written, pipe, pipesOpen, scanner, ch, errSet, printed,
                   returned, crashed>>

\* Mutant of CloseCh: the channel is never closed.
CloseChNever ==
    /\ errSet
    /\ ~errSet
    /\ UNCHANGED commandVars

CloseCh ==
    /\ errSet
    /\ ~chClosed
    /\ chClosed' = TRUE
    /\ UNCHANGED <<exited, written, pipe, pipesOpen, scanner, ch, errSet, printed,
                   returned, crashed>>

\* for line := range ch; buffered lines are still received after the close.
PrintLine ==
    /\ ~returned
    /\ ch # <<>>
    /\ printed' = Append(printed, Head(ch))
    /\ ch' = Tail(ch)
    /\ UNCHANGED <<exited, written, pipe, pipesOpen, scanner, chClosed, errSet,
                   returned, crashed>>

Return ==
    /\ ~returned
    /\ ch = <<>>
    /\ chClosed
    /\ returned' = TRUE
    /\ UNCHANGED <<exited, written, pipe, pipesOpen, scanner, ch, chClosed, errSet,
                   printed, crashed>>

OwnStep ==
    \/ \E s \in Stream : Scan(s) \/ Send(s)
    \/ WaitReturns
    \/ CloseCh
    \/ PrintLine
    \/ Return

CommandNext ==
    /\ ~crashed
    /\ \/ \E s \in Stream : Write(s)
       \/ Exit
       \/ OwnStep

CommandSpec == CommandInit /\ [][CommandNext]_commandVars

\* The goroutines run; the command need not write anything, nor exit.
CommandFairSpec == CommandSpec /\ WF_commandVars(~crashed /\ OwnStep)

-----------------------------------------------------------------------------
(* Properties.                                                             *)

OfStream(items, s, i) == {j \in 1 .. i : items[j][1] = s}

\* The first item of a stream is its line 1, the next one its line 2, and so on.
NumberedByStream(items) ==
    \A i \in 1 .. Len(items) : items[i][2] = Cardinality(OfStream(items, items[i][1], i))

\* Of each pipe the caller prints what was written, from the first line on and
\* in order: the two scanners that share one channel do not reorder, repeat or
\* skip the lines of one stream.
StreamsInOrder ==
    /\ NumberedByStream(printed)
    /\ \A i \in 1 .. Len(printed) : printed[i][2] <= written[printed[i][1]]

\* The err that ExecCommand returns is read after the goroutine of cmd.Wait
\* has assigned it: the close of the channel orders the two.
ErrReadAfterWait == returned => exited /\ errSet

\* When the command has exited ExecCommand returns, if the process survives.
ExitEndsCall == exited ~> (returned \/ crashed)

=============================================================================
