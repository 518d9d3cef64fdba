----------------------------- MODULE WebLogProofs -----------------------------
(* Proofs about WebLog, for channels of any capacity, any number of lines    *)
(* and messages, and whoever closes the connection when.                     *)
EXTENDS WebLog, SequenceTheorems, TLAPS

One(n) == IF n = 0 THEN 0 ELSE 1

\* s holds the numbers after a.
CountsFrom(s, a) == s = [i \in 1 .. Len(s) |-> a + i]

\* Lines that have come as far as outChan, and as far as ch.
InOut == Len(received) + One(msg) + Len(outChan)
InAll == InOut + One(line) + Len(ch)

\* The client still gets what is in outChan; outChan still gets what is in ch,
\* or nothing ever was in it.
Live    == writeLoop \in {"select", "write"} /\ ~gone
Feeding == handler \in {"start", "recv", "write"} \/ scanner = "none"
Up      == ~Closed /\ ~gone /\ socketOpen

\* Where the four goroutines can be, and that the close is done once.
PlacesInv ==
    /\ msg # 0 <=> writeLoop = "write"
    /\ line # 0 <=> handler = "write"
    /\ scanned # 0 <=> scanner \in {"check", "send"}
    /\ handler = "start" => scanner = "none"
    /\ handler \in {"recv", "write"} => scanner # "none"
    /\ handler \in {"close", "lock", "done"} => scanner = "none" \/ Closed
    /\ writeLoop \in {"close", "lock", "done"} => Closed \/ gone \/ ~socketOpen
    /\ isClosed => closes = 1
    /\ ~isClosed => closes = 0

\* Each stage goes on where the next one towards the client ends, as long as
\* those between it and the client run.
CountInv ==
    /\ CountsFrom(received, 0)
    /\ Live => /\ msg # 0 => msg = Len(received) + 1
               /\ CountsFrom(outChan, Len(received) + One(msg))
    /\ Live /\ Feeding => /\ line # 0 => line = InOut + 1
                          /\ CountsFrom(ch, InOut + One(line))
                          /\ scanner \in {"none", "scan"} => printed = InAll
                          /\ scanner \in {"check", "send"} =>
                                printed = InAll + 1 /\ scanned = printed
    /\ Up /\ scanner = "exited" => printed = InAll

-----------------------------------------------------------------------------
(* Sequences that count                                                    *)

LEMMA EmptyCounts == ASSUME NEW a \in Nat PROVE CountsFrom(<<>>, a) /\ Len(<<>>) = 0
BY DEF CountsFrom

LEMMA TailCounts ==
    ASSUME NEW s \in Seq(Line), s # <<>>
    PROVE  /\ Head(s) \in Line /\ Tail(s) \in Seq(Line) /\ Len(s) > 0
           /\ Len(Tail(s)) = Len(s) - 1
           /\ \A a \in Nat : CountsFrom(s, a) => Head(s) = a + 1 /\ CountsFrom(Tail(s), a + 1)
<1>1. /\ Head(s) \in Line /\ Tail(s) \in Seq(Line) /\ Len(s) > 0
      /\ Len(Tail(s)) = Len(s) - 1
      /\ \A i \in 1 .. Len(Tail(s)) : Tail(s)[i] = s[i + 1]
      /\ Head(s) = s[1]
  BY HeadTailProperties
<1>2. ASSUME NEW a \in Nat, CountsFrom(s, a)
      PROVE  Head(s) = a + 1 /\ CountsFrom(Tail(s), a + 1)
  <2>1. \A i \in 1 .. Len(s) : s[i] = a + i
    BY <1>2 DEF CountsFrom
  <2>2. \A i \in 1 .. Len(Tail(s)) : Tail(s)[i] = (a + 1) + i
    BY <1>1, <2>1, LenProperties
  <2>3. Tail(s) = [i \in 1 .. Len(Tail(s)) |-> (a + 1) + i]
    BY <1>1, <2>2, LenProperties
  <2>. QED
    BY <1>1, <2>1, <2>3, LenProperties DEF CountsFrom
<1>. QED
  BY <1>1, <1>2

LEMMA AppendCounts ==
    ASSUME NEW s \in Seq(Line), NEW n \in Line
    PROVE  /\ Append(s, n) \in Seq(Line) /\ Len(Append(s, n)) = Len(s) + 1
           /\ \A a \in Nat : CountsFrom(s, a) /\ n = a + Len(s) + 1 => CountsFrom(Append(s, n), a)
<1>1. /\ Append(s, n) \in Seq(Line) /\ Len(Append(s, n)) = Len(s) + 1
      /\ \A i \in 1 .. Len(s) : Append(s, n)[i] = s[i]
      /\ Append(s, n)[Len(s) + 1] = n
  BY AppendProperties
<1>2. ASSUME NEW a \in Nat, CountsFrom(s, a), n = a + Len(s) + 1
      PROVE  CountsFrom(Append(s, n), a)
  <2>1. \A i \in 1 .. Len(s) : s[i] = a + i
    BY <1>2 DEF CountsFrom
  <2>2. ASSUME NEW i \in 1 .. Len(Append(s, n)) PROVE Append(s, n)[i] = a + i
    <3>1. Len(s) \in Nat
      BY LenProperties
    <3>2. i \in 1 .. Len(s) \/ i = Len(s) + 1
      BY <1>1, <3>1
    <3>3. CASE i \in 1 .. Len(s)
      BY <1>1, <2>1, <3>3
    <3>4. CASE i = Len(s) + 1
      BY <1>1, <1>2, <3>1, <3>4
    <3>. QED
      BY <3>2, <3>3, <3>4
  <2>. QED
    BY <1>1, <2>2, LenProperties DEF CountsFrom
<1>. QED
  BY <1>1, <1>2

LEMMA ConcatCounts ==
    ASSUME NEW s \in Seq(Line), NEW t \in Seq(Line), NEW a \in Nat,
           CountsFrom(s, a), CountsFrom(t, a + Len(s))
    PROVE  /\ s \o t \in Seq(Line) /\ Len(s \o t) = Len(s) + Len(t)
           /\ CountsFrom(s \o t, a)
<1>1. /\ s \o t \in Seq(Line) /\ Len(s \o t) = Len(s) + Len(t)
      /\ \A i \in 1 .. Len(s) + Len(t) :
            (s \o t)[i] = IF i <= Len(s) THEN s[i] ELSE t[i - Len(s)]
  BY ConcatProperties
<1>2. /\ \A i \in 1 .. Len(s) : s[i] = a + i
      /\ \A i \in 1 .. Len(t) : t[i] = a + Len(s) + i
  BY DEF CountsFrom
<1>3. \A i \in 1 .. Len(s \o t) : (s \o t)[i] = a + i
  BY <1>1, <1>2, LenProperties
<1>. QED
  BY <1>1, <1>3, LenProperties DEF CountsFrom

LEMMA HeldCounts ==
    ASSUME NEW n \in 0 .. MaxLine, NEW a \in Nat, n # 0 => n = a + 1
    PROVE  Held(n) \in Seq(Line) /\ Len(Held(n)) = One(n) /\ CountsFrom(Held(n), a)
<1>1. CASE n = 0
  BY <1>1, EmptyCounts DEF Held, One
<1>2. CASE n # 0
  <2>1. Held(n) = <<n>> /\ n \in Line
    BY <1>2, CapacitiesArePositive DEF Held, Line
  <2>2. <<n>> = [i \in 1 .. 1 |-> a + i]
    BY <1>2
  <2>. QED
    BY <1>2, <2>1, <2>2 DEF CountsFrom, One
<1>. QED
  BY <1>1, <1>2

-----------------------------------------------------------------------------
(* Types and places                                                        *)

\* Half a WsClose: nothing is opened again, and only the first closes CloseChan.
LEMMA CloseTypes ==
    ASSUME socketOpen \in BOOLEAN, isClosed \in BOOLEAN, closes \in Nat,
           isClosed => closes = 1, ~isClosed => closes = 0,
           CloseSocket \/ CloseChanOnce
    PROVE  /\ socketOpen' \in BOOLEAN /\ isClosed' \in BOOLEAN /\ closes' \in Nat
           /\ isClosed' => closes' = 1
           /\ ~isClosed' => closes' = 0
           /\ closes > 0 => closes' > 0
           /\ ~socketOpen => ~socketOpen'
<1>1. CASE CloseSocket
  <2>1. socketOpen' = FALSE /\ isClosed' = isClosed /\ closes' = closes
    BY <1>1 DEF CloseSocket
  <2>. QED
    BY <2>1
<1>2. CASE CloseChanOnce
  <2>1. isClosed' = TRUE /\ socketOpen' = socketOpen
    BY <1>2 DEF CloseChanOnce
  <2>2. closes' = 1
    BY <1>2 DEF CloseChanOnce
  <2>. QED
    BY <2>1, <2>2
<1>. QED
  BY <1>1, <1>2

LEMMA ClosePlaces ==
    /\ HandlerClose => \/ handler = "close" /\ handler' = "lock"
                       \/ handler = "lock" /\ handler' = "done"
    /\ WriteClose => \/ writeLoop = "close" /\ writeLoop' = "lock"
                     \/ writeLoop = "lock" /\ writeLoop' = "done"
BY ZenonT(10) DEF HandlerClose, WriteClose

LEMMA Types == ASSUME TypeOK, PlacesInv, [Next]_vars PROVE TypeOK' /\ PlacesInv'
<1>. USE CapacitiesArePositive
     DEF TypeOK, PlacesInv, scannerVars, handlerVars, writeVars, readVars, closeVars, Closed
<1>1. CASE ScanLine \/ ScanEnd \/ ScanCheck \/ StartLog \/ StartFails \/ Disconnect
  <2>1. CASE ScanLine
    BY <2>1 DEF ScanLine
  <2>2. CASE ScanEnd
    BY <2>2 DEF ScanEnd
  <2>3. CASE ScanCheck
    BY <2>3 DEF ScanCheck
  <2>4. CASE StartLog \/ StartFails
    BY <2>4 DEF StartLog, StartFails
  <2>5. CASE Disconnect
    BY <2>5 DEF Disconnect
  <2>. QED
    BY <1>1, <2>1, <2>2, <2>3, <2>4, <2>5
<1>2. CASE ScanSend
  <2>1. scanned \in Line
    BY <1>2 DEF ScanSend, Line
  <2>2. ch' \in Seq(Line) /\ Len(ch') <= LogCap
    BY <1>2, <2>1, AppendCounts, LenProperties DEF ScanSend
  <2>. QED
    BY <1>2, <2>2 DEF ScanSend
<1>3. CASE Receive
  <2>1. line' \in Line /\ ch' \in Seq(Line) /\ Len(ch') <= LogCap
    BY <1>3, TailCounts, LenProperties DEF Receive
  <2>. QED
    BY <1>3, <2>1 DEF Receive, Line
<1>4. CASE WsWrite
  <2>1. line \in Line
    BY <1>4 DEF WsWrite, Line
  <2>2. outChan' \in Seq(Line) /\ Len(outChan') <= OutCap
    <3>1. CASE Len(outChan) < OutCap /\ outChan' = Append(outChan, line)
      BY <2>1, <3>1, AppendCounts, LenProperties
    <3>2. CASE outChan' = outChan
      BY <3>2
    <3>. QED
      BY <1>4, <3>1, <3>2 DEF WsWrite
  <2>. QED
    BY <1>4, <2>2 DEF WsWrite
<1>5. CASE WriteSelect
  <2>1. CASE outChan # <<>> /\ msg' = Head(outChan) /\ outChan' = Tail(outChan) /\ writeLoop' = "write"
    <3>1. msg' \in Line /\ outChan' \in Seq(Line) /\ Len(outChan') <= OutCap
      BY <2>1, TailCounts, LenProperties
    <3>. QED
      BY <1>5, <2>1, <3>1 DEF WriteSelect, Line
  <2>2. CASE Closed /\ writeLoop' = "close" /\ UNCHANGED <<msg, outChan>>
    BY <1>5, <2>2 DEF WriteSelect
  <2>. QED
    BY <1>5, <2>1, <2>2 DEF WriteSelect
<1>6. CASE WriteOk
  <2>1. msg \in Line
    BY <1>6 DEF WriteOk, Line
  <2>2. received' \in Seq(Line)
    BY <1>6, <2>1, AppendCounts DEF WriteOk
  <2>. QED
    BY <1>6, <2>2 DEF WriteOk
<1>7. CASE WriteFails \/ ReadFails \/ ReadQueue \/ \E m \in {"text", "exit"} : ReadMessage(m)
  <2>1. CASE WriteFails
    BY <2>1 DEF WriteFails
  <2>2. CASE ReadFails
    BY <2>2 DEF ReadFails
  <2>3. CASE ReadQueue
    <3>1. inLen' \in 0 .. InCap /\ readLoop' \in {"read", "close"}
      BY <2>3 DEF ReadQueue
    <3>. QED
      BY <2>3, <3>1 DEF ReadQueue
  <2>4. ASSUME NEW m \in {"text", "exit"}, ReadMessage(m) PROVE TypeOK' /\ PlacesInv'
    BY <2>4 DEF ReadMessage
  <2>. QED
    BY <1>7, <2>1, <2>2, <2>3, <2>4
<1>8. CASE HandlerClose \/ WriteClose \/ ReadClose
  <2>1. /\ socketOpen' \in BOOLEAN /\ isClosed' \in BOOLEAN /\ closes' \in Nat
        /\ (isClosed' => closes' = 1) /\ (~isClosed' => closes' = 0)
        /\ (Closed => Closed') /\ (~socketOpen => ~socketOpen')
    <3>1. CloseSocket \/ CloseChanOnce
      BY <1>8 DEF HandlerClose, WriteClose, ReadClose
    <3>. QED
      BY <3>1, CloseTypes
  <2>2. CASE HandlerClose
    <3>1. \/ handler = "close" /\ handler' = "lock"
          \/ handler = "lock" /\ handler' = "done"
      BY <2>2, ClosePlaces
    <3>. QED
      BY <2>1, <2>2, <3>1 DEF HandlerClose
  <2>3. CASE WriteClose
    <3>1. \/ writeLoop = "close" /\ writeLoop' = "lock"
          \/ writeLoop = "lock" /\ writeLoop' = "done"
      BY <2>3, ClosePlaces
    <3>. QED
      BY <2>1, <2>3, <3>1 DEF WriteClose
  <2>4. CASE ReadClose
    <3>1. readLoop' \in {"lock", "done"}
      BY <2>4 DEF ReadClose, CloseSocket, CloseChanOnce
    <3>. QED
      BY <2>1, <2>4, <3>1 DEF ReadClose
  <2>. QED
    BY <1>8, <2>2, <2>3, <2>4
<1>9. CASE UNCHANGED vars
  BY <1>9 DEF vars
<1>. QED
  BY <1>1, <1>2, <1>3, <1>4, <1>5, <1>6, <1>7, <1>8, <1>9
     DEF Next, ScanStep, HandlerStep, WriteStep, ReadStep

LEMMA TypesInvariant == Spec => [](TypeOK /\ PlacesInv)
<1>1. Init => TypeOK /\ PlacesInv
  <2> SUFFICES ASSUME Init PROVE TypeOK /\ PlacesInv
    OBVIOUS
  <2>1. /\ ch \in Seq(Line) /\ Len(ch) = 0
        /\ outChan \in Seq(Line) /\ Len(outChan) = 0
        /\ received \in Seq(Line)
    BY DEF Init
  <2>2. TypeOK
    <3>1. /\ printed = 0 /\ scanned = 0 /\ line = 0 /\ msg = 0 /\ inLen = 0 /\ clientSent = 0
          /\ gone \in BOOLEAN /\ socketOpen \in BOOLEAN /\ isClosed \in BOOLEAN /\ closes = 0
      BY DEF Init
    <3>2. /\ scanner = "none" /\ handler = "start" /\ writeLoop = "select"
          /\ readLoop = "read" /\ inMsg = "text"
      BY DEF Init
    <3>. QED
      BY <2>1, <3>1, <3>2, CapacitiesArePositive DEF TypeOK
  <2>3. PlacesInv
    BY DEF Init, PlacesInv
  <2>. QED
    BY <2>2, <2>3
<1>2. TypeOK /\ PlacesInv /\ [Next]_vars => (TypeOK /\ PlacesInv)'
  BY Types
<1>. QED
  BY <1>1, <1>2, PTL DEF Spec

\* The variables keep their types: no channel holds more than its capacity.
THEOREM TypeCorrect == Spec => []TypeOK
BY TypesInvariant, PTL

\* However the handler and the two loops race to their ends, CloseChan is closed
\* once.
THEOREM ClosesOnce == Spec => []ClosedOnce
<1>1. PlacesInv => ClosedOnce
  BY DEF PlacesInv, ClosedOnce
<1>. QED
  BY <1>1, TypesInvariant, PTL

-----------------------------------------------------------------------------
(* The lines                                                               *)

\* What does not touch the lines, or takes away one of those that count.
LEMMA CountKept ==
    ASSUME CountInv, received' = received, msg' = msg, outChan' = outChan, line' = line,
           ch' = ch, printed' = printed, scanned' = scanned, scanner' = scanner,
           Live' => Live, Feeding' => Feeding, Up' => Up
    PROVE  CountInv'
BY DEF CountInv, InOut, InAll

LEMMA Lengths ==
    ASSUME TypeOK
    PROVE  /\ Len(received) \in Nat /\ Len(outChan) \in Nat /\ Len(ch) \in Nat
           /\ One(msg) \in {0, 1} /\ One(line) \in {0, 1}
           /\ InOut \in Nat /\ InAll \in Nat
<1>1. /\ Len(received) \in Nat /\ Len(outChan) \in Nat /\ Len(ch) \in Nat
      /\ One(msg) \in {0, 1} /\ One(line) \in {0, 1}
  BY LenProperties DEF TypeOK, One
<1>. QED
  BY <1>1 DEF InOut, InAll

LEMMA CountStep == ASSUME TypeOK, PlacesInv, CountInv, [Next]_vars PROVE CountInv'
<1>. USE DEF scannerVars, handlerVars, writeVars, readVars, closeVars, Live, Feeding, Up
<1>0. /\ Len(received) \in Nat /\ Len(outChan) \in Nat /\ Len(ch) \in Nat
      /\ One(msg) \in {0, 1} /\ One(line) \in {0, 1}
      /\ InOut \in Nat /\ InAll \in Nat
      /\ ch \in Seq(Line) /\ outChan \in Seq(Line) /\ received \in Seq(Line)
      /\ printed \in Nat /\ closes \in Nat
  BY Lengths, CapacitiesArePositive DEF TypeOK
<1>1. CASE ScanLine
  <2>1. /\ scanner = "scan" /\ scanner' = "check" /\ printed' = printed + 1
        /\ scanned' = printed + 1 /\ ch' = ch /\ line' = line /\ outChan' = outChan
        /\ msg' = msg /\ received' = received /\ handler' = handler
        /\ writeLoop' = writeLoop /\ gone' = gone
    BY <1>1 DEF ScanLine
  <2>. QED
    BY <1>0, <2>1 DEF CountInv, InOut, InAll
<1>2. CASE ScanEnd
  <2>1. /\ scanner = "scan" /\ scanner' = "exited" /\ printed' = printed
        /\ scanned' = scanned /\ ch' = ch /\ line' = line /\ outChan' = outChan
        /\ msg' = msg /\ received' = received /\ handler' = handler
        /\ writeLoop' = writeLoop /\ gone' = gone /\ closes' = closes
        /\ socketOpen' = socketOpen
    BY <1>2 DEF ScanEnd
  <2>2. Up => Live /\ Feeding
    BY DEF PlacesInv, TypeOK
  <2>. QED
    BY <1>0, <2>1, <2>2 DEF CountInv, InOut, InAll, Closed
<1>3. CASE ScanCheck
  <2>1. /\ scanner = "check" /\ printed' = printed
        /\ ch' = ch /\ line' = line /\ outChan' = outChan
        /\ msg' = msg /\ received' = received /\ handler' = handler
        /\ writeLoop' = writeLoop /\ gone' = gone /\ closes' = closes
        /\ socketOpen' = socketOpen
    BY <1>3 DEF ScanCheck
  <2>2. \/ Closed /\ scanner' = "exited"
        \/ scanner' = "send" /\ scanned' = scanned
    BY <1>3 DEF ScanCheck
  <2>. QED
    BY <1>0, <2>1, <2>2 DEF CountInv, InOut, InAll, Closed
<1>4. CASE ScanSend
  <2>1. /\ scanner = "send" /\ scanner' = "scan" /\ printed' = printed
        /\ ch' = Append(ch, scanned) /\ line' = line /\ outChan' = outChan
        /\ msg' = msg /\ received' = received /\ handler' = handler
        /\ writeLoop' = writeLoop /\ gone' = gone
    BY <1>4 DEF ScanSend
  <2>2. scanned \in Line
    BY <2>1 DEF TypeOK, PlacesInv, Line
  <2>3. /\ Len(ch') = Len(ch) + 1
        /\ \A a \in Nat : CountsFrom(ch, a) /\ scanned = a + Len(ch) + 1 => CountsFrom(ch', a)
    BY <1>0, <2>1, <2>2, AppendCounts
  <2>4. /\ InOut' = InOut /\ InAll' = InAll + 1 /\ One(line') = One(line)
        /\ InAll = InOut + One(line) + Len(ch)
    <3>1. InOut' = InOut /\ One(line') = One(line)
      BY <2>1 DEF InOut
    <3>2. InAll' = InOut' + One(line') + Len(ch') /\ InAll = InOut + One(line) + Len(ch)
      BY DEF InAll
    <3>. QED
      BY <1>0, <2>3, <3>1, <3>2
  <2>5. CASE Live /\ Feeding
    <3>1. /\ CountsFrom(ch, InOut + One(line))
          /\ line # 0 => line = InOut + 1
          /\ printed = InAll + 1 /\ scanned = printed
      BY <2>1, <2>5 DEF CountInv
    <3>2. CountsFrom(ch', InOut + One(line))
      BY <1>0, <2>3, <2>4, <3>1
    <3>. QED
      BY <2>1, <2>4, <3>1, <3>2 DEF CountInv
  <2>6. CASE ~(Live /\ Feeding)
    BY <2>1, <2>6 DEF CountInv
  <2>. QED
    BY <2>5, <2>6
<1>5. CASE StartLog
  <2>1. /\ handler = "start" /\ handler' = "recv" /\ scanner = "none" /\ scanner' = "scan"
        /\ printed' = printed /\ scanned' = scanned /\ ch' = ch /\ line' = line
        /\ outChan' = outChan /\ msg' = msg /\ received' = received
        /\ writeLoop' = writeLoop /\ gone' = gone
    BY <1>5 DEF StartLog, PlacesInv
  <2>. QED
    BY <1>0, <2>1 DEF CountInv, InOut, InAll
<1>6. CASE Receive
  <2>1. /\ handler = "recv" /\ handler' = "write" /\ ch # <<>>
        /\ line' = Head(ch) /\ ch' = Tail(ch) /\ line = 0
        /\ printed' = printed /\ scanned' = scanned /\ scanner' = scanner
        /\ outChan' = outChan /\ msg' = msg /\ received' = received
        /\ writeLoop' = writeLoop /\ gone' = gone /\ closes' = closes
        /\ socketOpen' = socketOpen
    BY <1>6 DEF Receive, PlacesInv
  <2>2. /\ line' # 0 /\ Len(ch') = Len(ch) - 1 /\ Len(ch) > 0
        /\ \A a \in Nat : CountsFrom(ch, a) => line' = a + 1 /\ CountsFrom(ch', a + 1)
    BY <1>0, <2>1, TailCounts DEF Line
  <2>3. /\ InOut' = InOut /\ InAll' = InAll /\ One(line) = 0 /\ One(line') = 1
    BY <1>0, <2>1, <2>2 DEF InOut, InAll, One
  <2>4. CASE Live /\ Feeding
    <3>1. CountsFrom(ch, InOut)
      BY <1>0, <2>3, <2>4 DEF CountInv
    <3>2. line' = InOut + 1 /\ CountsFrom(ch', InOut + 1)
      BY <1>0, <2>2, <3>1
    <3>. QED
      BY <2>1, <2>3, <2>4, <3>2 DEF CountInv, Closed
  <2>5. CASE ~(Live /\ Feeding)
    BY <2>1, <2>3, <2>5 DEF CountInv, Closed
  <2>. QED
    BY <2>4, <2>5
<1>7. CASE WsWrite
  <2>1. /\ handler = "write" /\ line' = 0 /\ line \in Line
        /\ ch' = ch /\ printed' = printed /\ scanned' = scanned /\ scanner' = scanner
        /\ msg' = msg /\ received' = received
        /\ writeLoop' = writeLoop /\ gone' = gone /\ closes' = closes
        /\ socketOpen' = socketOpen
    BY <1>7 DEF WsWrite, PlacesInv, TypeOK, Line
  <2>2. CASE handler' = "recv" /\ outChan' = Append(outChan, line)
    <3>1. /\ Len(outChan') = Len(outChan) + 1
          /\ \A a \in Nat : CountsFrom(outChan, a) /\ line = a + Len(outChan) + 1
                              => CountsFrom(outChan', a)
      BY <1>0, <2>1, <2>2, AppendCounts
    <3>2. /\ InOut' = InOut + 1 /\ InAll' = InAll /\ One(line) = 1 /\ One(line') = 0
          /\ InOut = Len(received) + One(msg) + Len(outChan)
      <4>1. One(line) = 1 /\ One(line') = 0 /\ One(msg') = One(msg)
        BY <2>1 DEF One, Line
      <4>2. /\ InOut = Len(received) + One(msg) + Len(outChan)
            /\ InOut' = Len(received') + One(msg') + Len(outChan')
            /\ InAll = InOut + One(line) + Len(ch)
            /\ InAll' = InOut' + One(line') + Len(ch')
        BY DEF InOut, InAll
      <4>3. /\ Len(received') = Len(received) /\ Len(ch') = Len(ch)
            /\ Len(outChan') = Len(outChan) + 1
        BY <2>1, <3>1
      <4>4. InOut' = Len(received) + One(msg) + (Len(outChan) + 1)
        BY <4>1, <4>2, <4>3
      <4>5. InOut' = InOut + 1
        <5>1. Len(received) \in Nat /\ One(msg) \in Nat /\ Len(outChan) \in Nat
          BY <1>0
        <5>. QED
          BY <4>2, <4>4, <5>1
      <4>6. InAll' = InOut' + 0 + Len(ch) /\ InAll = InOut + 1 + Len(ch)
        BY <4>1, <4>2, <4>3
      <4>. QED
        BY <1>0, <4>1, <4>2, <4>5, <4>6
    <3>3. CASE Live
      <4>1. Feeding
        BY <2>1
      <4>2. /\ msg # 0 => msg = Len(received) + 1
            /\ CountsFrom(outChan, Len(received) + One(msg))
            /\ line = InOut + 1 /\ CountsFrom(ch, InOut + 1)
        <5>1. line # 0
          BY <2>1 DEF Line
        <5>. QED
          BY <3>2, <3>3, <4>1, <5>1 DEF CountInv
      <4>3. CountsFrom(outChan', Len(received) + One(msg))
        BY <1>0, <3>1, <3>2, <4>2
      <4>4. CountsFrom(ch', InOut' + One(line'))
        BY <1>0, <2>1, <3>2, <4>2
      <4>. QED
        BY <2>1, <2>2, <3>2, <3>3, <4>1, <4>2, <4>3, <4>4 DEF CountInv, Closed
    <3>4. CASE ~Live
      BY <2>1, <2>2, <3>2, <3>4 DEF CountInv, Closed
    <3>. QED
      BY <3>3, <3>4
  <2>3. CASE Closed /\ handler' = "close" /\ outChan' = outChan
    <3>1. scanner # "none"
      BY <2>1 DEF PlacesInv
    <3>. QED
      BY <1>0, <2>1, <2>3, <3>1 DEF CountInv, InOut, InAll, One, Closed
  <2>. QED
    BY <1>7, <2>2, <2>3 DEF WsWrite
<1>8. CASE WriteSelect
  <2>1. /\ writeLoop = "select" /\ msg = 0
        /\ ch' = ch /\ printed' = printed /\ scanned' = scanned /\ scanner' = scanner
        /\ line' = line /\ handler' = handler /\ received' = received /\ gone' = gone
        /\ closes' = closes /\ socketOpen' = socketOpen
    BY <1>8 DEF WriteSelect, PlacesInv
  <2>2. CASE /\ outChan # <<>> /\ msg' = Head(outChan) /\ outChan' = Tail(outChan)
             /\ writeLoop' = "write"
    <3>1. /\ msg' # 0 /\ Len(outChan') = Len(outChan) - 1 /\ Len(outChan) > 0
          /\ \A a \in Nat : CountsFrom(outChan, a) => msg' = a + 1 /\ CountsFrom(outChan', a + 1)
      BY <1>0, <2>2, TailCounts DEF Line
    <3>2. /\ InOut' = InOut /\ InAll' = InAll /\ One(msg) = 0 /\ One(msg') = 1
      BY <1>0, <2>1, <2>2, <3>1 DEF InOut, InAll, One
    <3>3. CASE Live
      <4>1. CountsFrom(outChan, Len(received))
        BY <1>0, <3>2, <3>3 DEF CountInv
      <4>2. msg' = Len(received) + 1 /\ CountsFrom(outChan', Len(received) + 1)
        BY <1>0, <3>1, <4>1
      <4>. QED
        BY <2>1, <2>2, <3>2, <3>3, <4>2 DEF CountInv, Closed
    <3>4. CASE ~Live
      BY <2>1, <2>2, <3>2, <3>4 DEF CountInv, Closed
    <3>. QED
      BY <3>3, <3>4
  <2>3. CASE Closed /\ writeLoop' = "close" /\ msg' = msg /\ outChan' = outChan
    BY <1>0, <2>1, <2>3 DEF CountInv, InOut, InAll, Closed
  <2>. QED
    BY <1>8, <2>2, <2>3 DEF WriteSelect
<1>9. CASE WriteOk
  <2>1. /\ writeLoop = "write" /\ writeLoop' = "select" /\ msg \in Line /\ msg' = 0
        /\ ch' = ch /\ printed' = printed /\ scanned' = scanned /\ scanner' = scanner
        /\ line' = line /\ handler' = handler /\ outChan' = outChan /\ gone' = gone
        /\ closes' = closes /\ socketOpen' = socketOpen
    BY <1>9 DEF WriteOk, PlacesInv, TypeOK, Line
  <2>2. CASE gone /\ received' = received
    BY <1>0, <2>1, <2>2 DEF CountInv
  <2>3. CASE ~gone /\ received' = Append(received, msg)
    <3>1. /\ Len(received') = Len(received) + 1
          /\ \A a \in Nat : CountsFrom(received, a) /\ msg = a + Len(received) + 1
                              => CountsFrom(received', a)
      BY <1>0, <2>1, <2>3, AppendCounts
    <3>2. /\ InOut' = InOut /\ InAll' = InAll /\ One(msg) = 1 /\ One(msg') = 0 /\ Live
      <4>1. One(msg) = 1 /\ One(msg') = 0 /\ One(line') = One(line) /\ Live
        BY <2>1, <2>3 DEF One, Line
      <4>2. /\ InOut = Len(received) + One(msg) + Len(outChan)
            /\ InOut' = Len(received') + One(msg') + Len(outChan')
            /\ InAll = InOut + One(line) + Len(ch)
            /\ InAll' = InOut' + One(line') + Len(ch')
        BY DEF InOut, InAll
      <4>. QED
        BY <1>0, <2>1, <3>1, <4>1, <4>2
    <3>3. /\ CountsFrom(received, 0) /\ msg = Len(received) + 1
          /\ CountsFrom(outChan, Len(received) + 1)
      BY <2>1, <3>2 DEF CountInv, Line, One
    <3>4. CountsFrom(received', 0) /\ CountsFrom(outChan', Len(received') + One(msg'))
      BY <1>0, <2>1, <3>1, <3>2, <3>3
    <3>. QED
      BY <2>1, <2>3, <3>2, <3>4 DEF CountInv, Closed
  <2>. QED
    BY <1>9, <2>2, <2>3 DEF WriteOk
<1>10. CASE WriteFails
  <2>1. /\ writeLoop' = "close" /\ (~socketOpen \/ gone) /\ received' = received
        /\ gone' = gone /\ socketOpen' = socketOpen
    BY <1>10 DEF WriteFails
  <2>. QED
    BY <2>1 DEF CountInv
<1>11. CASE \/ StartFails \/ HandlerClose \/ WriteClose \/ Disconnect
            \/ ReadFails \/ ReadQueue \/ ReadClose \/ \E m \in {"text", "exit"} : ReadMessage(m)
  <2>1. /\ received' = received /\ msg' = msg /\ outChan' = outChan /\ line' = line
        /\ ch' = ch /\ printed' = printed /\ scanned' = scanned /\ scanner' = scanner
    BY <1>11 DEF StartFails, HandlerClose, WriteClose, Disconnect, ReadFails, ReadQueue,
                 ReadClose, ReadMessage
  <2>2. (Closed => Closed') /\ (~socketOpen => ~socketOpen')
    <3>1. CASE CloseSocket \/ CloseChanOnce
      BY <3>1, CloseTypes DEF TypeOK, PlacesInv, Closed
    <3>2. CASE socketOpen' = socketOpen /\ closes' = closes
      BY <3>2 DEF Closed
    <3>. QED
      BY <1>11, <3>1, <3>2 DEF StartFails, HandlerClose, WriteClose, Disconnect, ReadFails,
                 ReadQueue, ReadClose, ReadMessage
  <2>3. gone => gone'
    BY <1>11 DEF StartFails, HandlerClose, WriteClose, Disconnect, ReadFails,
                 ReadQueue, ReadClose, ReadMessage
  <2>4. /\ writeLoop' \in {"select", "write"} => writeLoop \in {"select", "write"}
        /\ Feeding' => Feeding
    <3>1. CASE StartFails
      BY <3>1 DEF StartFails, PlacesInv
    <3>2. CASE HandlerClose
      <4>1. handler' \in {"lock", "done"} /\ writeLoop' = writeLoop
        BY <3>2 DEF HandlerClose
      <4>. QED
        BY <2>1, <4>1
    <3>3. CASE WriteClose
      <4>1. writeLoop' \in {"lock", "done"} /\ handler' = handler
        BY <3>3 DEF WriteClose
      <4>. QED
        BY <2>1, <4>1
    <3>4. CASE writeLoop' = writeLoop /\ handler' = handler
      BY <2>1, <3>4
    <3>. QED
      BY <1>11, <3>1, <3>2, <3>3, <3>4 DEF Disconnect, ReadFails, ReadQueue, ReadClose, ReadMessage
  <2>. QED
    BY <2>1, <2>2, <2>3, <2>4, CountKept
<1>12. CASE UNCHANGED vars
  BY <1>12, CountKept DEF vars, Closed
<1>. QED
  BY <1>1, <1>2, <1>3, <1>4, <1>5, <1>6, <1>7, <1>8, <1>9, <1>10, <1>11, <1>12
     DEF Next, ScanStep, HandlerStep, WriteStep, ReadStep

LEMMA LinesInvariant == Spec => [](TypeOK /\ PlacesInv /\ CountInv)
<1>1. Init => CountInv
  <2> SUFFICES ASSUME Init PROVE CountInv
    OBVIOUS
  <2>1. /\ received = <<>> /\ outChan = <<>> /\ ch = <<>> /\ msg = 0 /\ line = 0
        /\ printed = 0 /\ scanner = "none"
    BY DEF Init
  <2>2. InOut = 0 /\ InAll = 0 /\ One(msg) = 0 /\ One(line) = 0 /\ Len(received) = 0
    BY <2>1, EmptyCounts DEF InOut, InAll, One
  <2>. QED
    BY <2>1, <2>2, EmptyCounts DEF CountInv
<1>2. TypeOK /\ PlacesInv /\ CountInv /\ [Next]_vars => CountInv'
  BY CountStep
<1>. QED
  BY <1>1, <1>2, TypesInvariant, PTL DEF Spec

\* The client sees a prefix of the journal without gaps or doubles, whatever way
\* the four goroutines end; while the connection is up no line is lost on its
\* way.  For channels of any capacity.
THEOREM LinesArriveInOrder == Spec => []LinesInOrder
<1>1. TypeOK /\ PlacesInv /\ CountInv => LinesInOrder
  <2> SUFFICES ASSUME TypeOK, PlacesInv, CountInv PROVE LinesInOrder
    OBVIOUS
  <2>0. /\ received \in Seq(Line) /\ outChan \in Seq(Line) /\ ch \in Seq(Line)
        /\ msg \in 0 .. MaxLine /\ line \in 0 .. MaxLine /\ scanned \in 0 .. MaxLine
        /\ Len(received) \in Nat /\ Len(outChan) \in Nat /\ Len(ch) \in Nat
        /\ One(msg) \in Nat /\ One(line) \in Nat /\ InOut \in Nat /\ InAll \in Nat
        /\ printed \in Nat
    BY Lengths, CapacitiesArePositive DEF TypeOK
  <2>1. received = [i \in 1 .. Len(received) |-> i]
    <3>1. received = [i \in 1 .. Len(received) |-> 0 + i]
      BY DEF CountInv, CountsFrom
    <3>. QED
      BY <2>0, <3>1
  <2>2. ASSUME Up PROVE Pipeline = [i \in 1 .. printed |-> i]
    <3>1. Live /\ Feeding
      BY <2>2 DEF TypeOK, PlacesInv, Up, Live, Feeding
    <3> DEFINE r1 == received \o Held(msg)
    <3> DEFINE r2 == r1 \o outChan
    <3> DEFINE r3 == r2 \o Held(line)
    <3> DEFINE r4 == r3 \o ch
    <3> DEFINE r5 == r4 \o Held(scanned)
    <3>2. r1 \in Seq(Line) /\ Len(r1) = Len(received) + One(msg) /\ CountsFrom(r1, 0)
      <4>1. /\ Held(msg) \in Seq(Line) /\ Len(Held(msg)) = One(msg)
            /\ CountsFrom(Held(msg), 0 + Len(received))
        <5>1. msg # 0 => msg = Len(received) + 1
          BY <3>1 DEF CountInv
        <5>. QED
          BY <2>0, <5>1, HeldCounts
      <4>2. CountsFrom(received, 0)
        BY DEF CountInv
      <4>. QED
        BY <2>0, <4>1, <4>2, ConcatCounts
    <3>3. r2 \in Seq(Line) /\ Len(r2) = InOut /\ CountsFrom(r2, 0)
      <4>1. CountsFrom(outChan, 0 + Len(r1))
        BY <2>0, <3>1, <3>2 DEF CountInv
      <4>2. Len(r1) + Len(outChan) = InOut
        BY <3>2 DEF InOut
      <4> HIDE DEF r1
      <4>. QED
        BY <2>0, <3>2, <4>1, <4>2, ConcatCounts
    <3>4. r3 \in Seq(Line) /\ Len(r3) = InOut + One(line) /\ CountsFrom(r3, 0)
      <4>1. /\ Held(line) \in Seq(Line) /\ Len(Held(line)) = One(line)
            /\ CountsFrom(Held(line), 0 + Len(r2))
        <5>1. line # 0 => line = InOut + 1
          BY <3>1 DEF CountInv
        <5>. QED
          BY <2>0, <3>3, <5>1, HeldCounts
      <4> HIDE DEF r2
      <4>2. /\ r2 \o Held(line) \in Seq(Line)
            /\ Len(r2 \o Held(line)) = Len(r2) + Len(Held(line))
            /\ CountsFrom(r2 \o Held(line), 0)
        BY <3>3, <4>1, ConcatCounts
      <4>. QED
        BY <3>3, <4>1, <4>2
    <3>5. r4 \in Seq(Line) /\ Len(r4) = InAll /\ CountsFrom(r4, 0)
      <4>1. CountsFrom(ch, 0 + Len(r3))
        BY <2>0, <3>1, <3>4 DEF CountInv
      <4>2. Len(r3) + Len(ch) = InAll
        BY <3>4 DEF InAll
      <4> HIDE DEF r3
      <4>. QED
        BY <2>0, <3>4, <4>1, <4>2, ConcatCounts
    <3>6. r5 \in Seq(Line) /\ Len(r5) = printed /\ CountsFrom(r5, 0)
      <4>1. (scanned # 0 => scanned = InAll + 1) /\ printed = InAll + One(scanned)
        BY <2>0, <2>2, <3>1 DEF CountInv, PlacesInv, TypeOK, One
      <4>2. /\ Held(scanned) \in Seq(Line) /\ Len(Held(scanned)) = One(scanned)
            /\ CountsFrom(Held(scanned), 0 + Len(r4))
        BY <2>0, <3>5, <4>1, HeldCounts
      <4> HIDE DEF r4
      <4>. QED
        BY <2>0, <3>5, <4>1, <4>2, ConcatCounts
    <3>7. r5 = [i \in 1 .. printed |-> 0 + i]
      BY <3>6 DEF CountsFrom
    <3>8. Pipeline = r5
      BY DEF Pipeline
    <3>. QED
      BY <2>0, <3>7, <3>8
  <2>. QED
    BY <2>1, <2>2 DEF LinesInOrder, Up
<1>. QED
  BY <1>1, LinesInvariant, PTL

-----------------------------------------------------------------------------
(* The end: CloseReachesAll without its fairness.  A step counts down once   *)
(* CloseChan is closed, and where none is left everyone has ended.           *)

ReadLeft ==
    CASE readLoop = "queue" -> 4 [] readLoop = "read" -> 3 [] readLoop = "close" -> 2
      [] readLoop = "lock" -> 1 [] OTHER -> 0

WriteLeft ==
    CASE writeLoop = "select" -> 4 [] writeLoop = "write" -> 3 [] writeLoop = "close" -> 2
      [] writeLoop = "lock" -> 1 [] OTHER -> 0

HandlerLeft ==
    CASE handler = "start" -> 6 [] handler = "write" -> 4 [] handler = "recv" -> 3
      [] handler = "close" -> 2 [] handler = "lock" -> 1 [] OTHER -> 0

ScanLeft ==
    CASE scanner = "send" -> 5 [] scanner = "scan" -> 2 [] scanner = "check" -> 1 [] OTHER -> 0

GoneLeft == IF gone THEN 0 ELSE 1

\* A line in ch may still be taken and passed on; one in outChan need not be written.
CloseLeft == ReadLeft + WriteLeft + HandlerLeft + ScanLeft + 2 * Len(ch) + GoneLeft

\* Whoever closes CloseChan has closed the socket before.
SocketInv ==
    /\ Closed => ~socketOpen
    /\ handler = "lock" => ~socketOpen
    /\ writeLoop = "lock" => ~socketOpen
    /\ readLoop = "lock" => ~socketOpen

\* The guards of the steps that FairSpec is fair to.
ScanCan == scanner = "check" \/ (scanner = "send" /\ Len(ch) < LogCap)

HandlerCan ==
    \/ handler \in {"start", "close", "lock"}
    \/ handler = "recv" /\ ch # <<>>
    \/ handler = "write" /\ (Len(outChan) < OutCap \/ Closed)

WriteCan ==
    \/ writeLoop = "select" /\ (outChan # <<>> \/ Closed)
    \/ writeLoop = "write" /\ (~socketOpen \/ gone)
    \/ writeLoop \in {"close", "lock"}

ReadCan ==
    \/ readLoop = "read" /\ (~socketOpen \/ gone)
    \/ readLoop = "queue" /\ (inLen < InCap \/ Closed)
    \/ readLoop \in {"close", "lock"}

\* What CloseReachesAll says is reached.
Settled ==
    /\ readLoop = "done"
    /\ writeLoop = "done"
    /\ handler = "done" \/ (handler = "recv" /\ ch = <<>>)
    /\ \/ scanner \in {"none", "exited", "scan"}
       \/ scanner = "send" /\ Len(ch) = LogCap

CloseSettles == [][Closed => CloseLeft' < CloseLeft]_vars

LEMMA SocketStep == ASSUME TypeOK, PlacesInv, SocketInv, [Next]_vars PROVE SocketInv'
<1>. USE DEF scannerVars, handlerVars, writeVars, readVars, closeVars
<1>1. CASE CloseSocket /\ (HandlerClose \/ WriteClose \/ ReadClose)
  BY <1>1 DEF CloseSocket, SocketInv
<1>2. CASE CloseChanOnce /\ (HandlerClose \/ WriteClose \/ ReadClose)
  <2>1. socketOpen' = socketOpen
    BY <1>2 DEF CloseChanOnce
  <2>2. ~socketOpen
    BY <1>2 DEF CloseChanOnce, CloseSocket, HandlerClose, WriteClose, ReadClose, SocketInv
  <2>. QED
    BY <2>1, <2>2 DEF SocketInv
<1>3. CASE /\ UNCHANGED closeVars
           /\ handler' = "lock" => handler = "lock"
           /\ writeLoop' = "lock" => writeLoop = "lock"
           /\ readLoop' = "lock" => readLoop = "lock"
  BY <1>3 DEF SocketInv, Closed
<1>4. CASE \/ ScanLine \/ ScanEnd \/ ScanStep \/ WriteOk \/ Disconnect \/ UNCHANGED vars
           \/ \E m \in {"text", "exit"} : ReadMessage(m)
  BY <1>3, <1>4 DEF ScanLine, ScanEnd, ScanStep, ScanCheck, ScanSend, WriteOk, Disconnect,
     ReadMessage, vars
<1>5. CASE StartLog \/ StartFails \/ Receive \/ WsWrite
  BY <1>3, <1>5 DEF StartLog, StartFails, Receive, WsWrite
<1>6. CASE WriteSelect \/ WriteFails \/ ReadFails \/ ReadQueue
  BY <1>3, <1>6 DEF WriteSelect, WriteFails, ReadFails, ReadQueue
<1>7. HandlerClose \/ WriteClose \/ ReadClose => CloseSocket \/ CloseChanOnce
  BY DEF HandlerClose, WriteClose, ReadClose
<1>. QED
  BY <1>1, <1>2, <1>4, <1>5, <1>6, <1>7 DEF Next, HandlerStep, WriteStep, ReadStep

LEMMA SocketInvariant == Spec => [](TypeOK /\ PlacesInv /\ SocketInv)
<1>1. Init => SocketInv
  BY DEF Init, SocketInv, Closed
<1>2. TypeOK /\ PlacesInv /\ SocketInv /\ [Next]_vars => SocketInv'
  BY SocketStep
<1>. QED
  BY <1>1, <1>2, TypesInvariant, PTL DEF Spec

LEMMA Lefts ==
    ASSUME TypeOK
    PROVE  /\ ReadLeft \in 0 .. 4 /\ WriteLeft \in 0 .. 4 /\ HandlerLeft \in 0 .. 6
           /\ ScanLeft \in 0 .. 5 /\ Len(ch) \in 0 .. LogCap /\ GoneLeft \in 0 .. 1
<1>1. ReadLeft \in 0 .. 4
  BY DEF ReadLeft
<1>2. WriteLeft \in 0 .. 4
  BY DEF WriteLeft
<1>3. HandlerLeft \in 0 .. 6
  BY DEF HandlerLeft
<1>4. ScanLeft \in 0 .. 5
  BY DEF ScanLeft
<1>5. Len(ch) \in 0 .. LogCap
  BY LenProperties, CapacitiesArePositive DEF TypeOK
<1>6. GoneLeft \in 0 .. 1
  BY DEF GoneLeft
<1>. QED
  BY <1>1, <1>2, <1>3, <1>4, <1>5, <1>6

\* After the close at most this many steps are left, whoever takes them and in
\* whatever order.
THEOREM CloseLeftIsBounded == Spec => [](CloseLeft \in 0 .. 2 * LogCap + 20)
<1>1. TypeOK => CloseLeft \in 0 .. 2 * LogCap + 20
  <2> SUFFICES ASSUME TypeOK PROVE CloseLeft \in 0 .. 2 * LogCap + 20
    OBVIOUS
  <2>1. /\ ReadLeft \in 0 .. 4 /\ WriteLeft \in 0 .. 4 /\ HandlerLeft \in 0 .. 6
        /\ ScanLeft \in 0 .. 5 /\ GoneLeft \in 0 .. 1 /\ Len(ch) \in 0 .. LogCap
    BY Lefts
  <2>2. LogCap \in Nat
    BY CapacitiesArePositive
  <2>. QED
    BY <2>1, <2>2 DEF CloseLeft
<1>. QED
  BY <1>1, TypesInvariant, PTL

\* One goroutine steps, and the others stay where they are.
LEMMA LeftKept ==
    /\ readLoop' = readLoop => ReadLeft' = ReadLeft
    /\ writeLoop' = writeLoop => WriteLeft' = WriteLeft
    /\ handler' = handler => HandlerLeft' = HandlerLeft
    /\ scanner' = scanner => ScanLeft' = ScanLeft
    /\ gone' = gone => GoneLeft' = GoneLeft
BY DEF ReadLeft, WriteLeft, HandlerLeft, ScanLeft, GoneLeft

LEMMA ReadPlaces ==
    ReadFails \/ ReadQueue \/ ReadClose =>
        \/ readLoop = "read" /\ readLoop' = "close"
        \/ readLoop = "queue" /\ readLoop' = "read"
        \/ readLoop = "queue" /\ readLoop' = "close"
        \/ readLoop = "close" /\ readLoop' = "lock"
        \/ readLoop = "lock" /\ readLoop' = "done"
<1>1. ReadClose => \/ readLoop = "close" /\ readLoop' = "lock"
                   \/ readLoop = "lock" /\ readLoop' = "done"
  BY ZenonT(10) DEF ReadClose
<1>. QED
  BY <1>1 DEF ReadFails, ReadQueue

LEMMA CloseCountsDown ==
    ASSUME TypeOK, PlacesInv, SocketInv, Closed, Next
    PROVE  CloseLeft' < CloseLeft
<1>. USE DEF scannerVars, handlerVars, writeVars, readVars, closeVars
<1>0. /\ ReadLeft \in Nat /\ WriteLeft \in Nat /\ HandlerLeft \in Nat /\ ScanLeft \in Nat
      /\ Len(ch) \in Nat /\ GoneLeft \in Nat
      /\ CloseLeft = ReadLeft + WriteLeft + HandlerLeft + ScanLeft + 2 * Len(ch) + GoneLeft
      /\ CloseLeft' = ReadLeft' + WriteLeft' + HandlerLeft' + ScanLeft' + 2 * Len(ch')
                         + GoneLeft'
  BY Lefts, CapacitiesArePositive DEF CloseLeft
<1>00. ~socketOpen
  BY DEF SocketInv
<1>1. CASE Disconnect
  <2>1. /\ ReadLeft' = ReadLeft /\ WriteLeft' = WriteLeft /\ HandlerLeft' = HandlerLeft
        /\ ScanLeft' = ScanLeft /\ ch' = ch /\ GoneLeft = 1 /\ GoneLeft' = 0
    BY <1>1, LeftKept DEF Disconnect, GoneLeft
  <2>. QED
    BY <1>0, <2>1
<1>2. CASE ScanLine \/ ScanEnd \/ ScanCheck
  <2>1. /\ ReadLeft' = ReadLeft /\ WriteLeft' = WriteLeft /\ HandlerLeft' = HandlerLeft
        /\ ch' = ch /\ GoneLeft' = GoneLeft
    BY <1>2, LeftKept DEF ScanLine, ScanEnd, ScanCheck
  <2>2. ScanLeft' < ScanLeft /\ ScanLeft' \in Nat
    <3>1. \/ scanner = "scan" /\ scanner' = "check"
          \/ scanner = "scan" /\ scanner' = "exited"
          \/ scanner = "check" /\ scanner' = "exited"
      BY <1>2 DEF ScanLine, ScanEnd, ScanCheck
    <3>. QED
      BY <3>1 DEF ScanLeft
  <2>. QED
    BY <1>0, <2>1, <2>2
<1>3. CASE ScanSend
  <2>1. /\ ReadLeft' = ReadLeft /\ WriteLeft' = WriteLeft /\ HandlerLeft' = HandlerLeft
        /\ GoneLeft' = GoneLeft
    BY <1>3, LeftKept DEF ScanSend
  <2>2. ScanLeft = 5 /\ ScanLeft' = 2
    BY <1>3 DEF ScanSend, ScanLeft
  <2>3. Len(ch') = Len(ch) + 1
    <3>1. scanned \in Line /\ ch \in Seq(Line)
      BY <1>3 DEF ScanSend, PlacesInv, TypeOK, Line
    <3>. QED
      BY <1>3, <3>1, AppendCounts DEF ScanSend
  <2>. QED
    BY <1>0, <2>1, <2>2, <2>3
<1>4. CASE StartLog
  <2>1. /\ ReadLeft' = ReadLeft /\ WriteLeft' = WriteLeft /\ ch' = ch /\ GoneLeft' = GoneLeft
    BY <1>4, LeftKept DEF StartLog
  <2>2. handler = "start" /\ handler' = "recv" /\ scanner = "none" /\ scanner' = "scan"
    BY <1>4 DEF StartLog, PlacesInv
  <2>3. HandlerLeft = 6 /\ HandlerLeft' = 3 /\ ScanLeft = 0 /\ ScanLeft' = 2
    BY <2>2 DEF HandlerLeft, ScanLeft
  <2>. QED
    BY <1>0, <2>1, <2>3
<1>5. CASE Receive
  <2>1. /\ ReadLeft' = ReadLeft /\ WriteLeft' = WriteLeft /\ ScanLeft' = ScanLeft
        /\ GoneLeft' = GoneLeft
    BY <1>5, LeftKept DEF Receive
  <2>2. HandlerLeft = 3 /\ HandlerLeft' = 4
    BY <1>5 DEF Receive, HandlerLeft
  <2>3. Len(ch') = Len(ch) - 1
    BY <1>5, TailCounts DEF Receive, TypeOK
  <2>. QED
    BY <1>0, <2>1, <2>2, <2>3
<1>6. CASE StartFails \/ WsWrite \/ HandlerClose
  <2>1. /\ ReadLeft' = ReadLeft /\ WriteLeft' = WriteLeft /\ ScanLeft' = ScanLeft
        /\ ch' = ch /\ GoneLeft' = GoneLeft
    BY <1>6, LeftKept DEF StartFails, WsWrite, HandlerClose
  <2>2. HandlerLeft' < HandlerLeft /\ HandlerLeft' \in Nat
    <3>1. \/ handler = "start" /\ handler' = "close"
          \/ handler = "write" /\ handler' = "recv"
          \/ handler = "write" /\ handler' = "close"
          \/ handler = "close" /\ handler' = "lock"
          \/ handler = "lock" /\ handler' = "done"
      BY <1>6, ClosePlaces DEF StartFails, WsWrite
    <3>. QED
      BY <3>1 DEF HandlerLeft
  <2>. QED
    BY <1>0, <2>1, <2>2
<1>7. CASE WriteStep \/ WriteOk
  <2>1. /\ ReadLeft' = ReadLeft /\ HandlerLeft' = HandlerLeft /\ ScanLeft' = ScanLeft
        /\ ch' = ch /\ GoneLeft' = GoneLeft
    BY <1>7, LeftKept DEF WriteStep, WriteSelect, WriteFails, WriteClose, WriteOk
  <2>2. WriteLeft' < WriteLeft /\ WriteLeft' \in Nat
    <3>1. \/ writeLoop = "select" /\ writeLoop' = "write"
          \/ writeLoop = "select" /\ writeLoop' = "close"
          \/ writeLoop = "write" /\ writeLoop' = "close"
          \/ writeLoop = "close" /\ writeLoop' = "lock"
          \/ writeLoop = "lock" /\ writeLoop' = "done"
      BY <1>7, <1>00, ClosePlaces DEF WriteStep, WriteSelect, WriteFails, WriteOk
    <3>. QED
      BY <3>1 DEF WriteLeft
  <2>. QED
    BY <1>0, <2>1, <2>2
<1>8. CASE ReadStep \/ \E m \in {"text", "exit"} : ReadMessage(m)
  <2>1. /\ WriteLeft' = WriteLeft /\ HandlerLeft' = HandlerLeft /\ ScanLeft' = ScanLeft
        /\ ch' = ch /\ GoneLeft' = GoneLeft
    BY <1>8, LeftKept DEF ReadStep, ReadFails, ReadQueue, ReadClose, ReadMessage
  <2>2. ReadLeft' < ReadLeft /\ ReadLeft' \in Nat
    <3>1. \/ readLoop = "read" /\ readLoop' = "close"
          \/ readLoop = "queue" /\ readLoop' = "read"
          \/ readLoop = "queue" /\ readLoop' = "close"
          \/ readLoop = "close" /\ readLoop' = "lock"
          \/ readLoop = "lock" /\ readLoop' = "done"
      <4>1. ~(\E m \in {"text", "exit"} : ReadMessage(m))
        BY <1>00 DEF ReadMessage
      <4>. QED
        BY <1>8, <4>1, ReadPlaces DEF ReadStep
    <3>. QED
      BY <3>1 DEF ReadLeft
  <2>. QED
    BY <1>0, <2>1, <2>2
<1>. QED
  BY <1>1, <1>2, <1>3, <1>4, <1>5, <1>6, <1>7, <1>8 DEF Next, ScanStep, HandlerStep

\* Once CloseChan is closed every step, of the journal and the client too, brings
\* the end of the loops, the handler and the scanner nearer: no two of them keep
\* each other going.
THEOREM CloseCounts == Spec => CloseSettles
<1>1. /\ TypeOK /\ PlacesInv /\ SocketInv
      /\ [Next]_vars
      => [Closed => CloseLeft' < CloseLeft]_vars
  BY CloseCountsDown
<1>. QED
  BY <1>1, SocketInvariant, PTL DEF Spec, CloseSettles

\* And where none of the goroutines has a next step after the close, the loops
\* have ended, and the handler and the scanner too unless they wait where nothing
\* can wake them: CloseReachesAll, but for the fairness that makes the steps
\* happen.
THEOREM CloseRests ==
    Spec => [](Closed /\ ~(ScanCan \/ HandlerCan \/ WriteCan \/ ReadCan) => Settled)
<1>1. TypeOK /\ SocketInv /\ Closed /\ ~(ScanCan \/ HandlerCan \/ WriteCan \/ ReadCan) => Settled
  <2> SUFFICES ASSUME TypeOK, SocketInv, Closed, ~ScanCan, ~HandlerCan, ~WriteCan, ~ReadCan
               PROVE  Settled
    OBVIOUS
  <2>0. ~socketOpen
    BY DEF SocketInv
  <2>1. readLoop = "done"
    BY <2>0 DEF ReadCan, TypeOK
  <2>2. writeLoop = "done"
    BY <2>0 DEF WriteCan, TypeOK
  <2>3. handler = "done" \/ (handler = "recv" /\ ch = <<>>)
    BY DEF HandlerCan, TypeOK
  <2>4. scanner \in {"none", "exited", "scan"} \/ (scanner = "send" /\ Len(ch) = LogCap)
    <3>1. Len(ch) <= LogCap /\ Len(ch) \in Nat /\ LogCap \in Nat
      BY LenProperties, CapacitiesArePositive DEF TypeOK
    <3>2. scanner \in {"none", "exited", "scan"} \/ scanner = "send"
      BY DEF ScanCan, TypeOK
    <3>. QED
      BY <3>1, <3>2 DEF ScanCan
  <2>. QED
    BY <2>1, <2>2, <2>3, <2>4 DEF Settled
<1>. QED
  BY <1>1, SocketInvariant, PTL

\* The read loop ends with a WsClose.
EndedInv == readLoop = "done" => Closed

GoneSettles == [][gone /\ readLoop' # readLoop => ReadLeft' < ReadLeft]_vars

LEMMA EndedInvariant == Spec => []EndedInv
<1>1. Init => EndedInv
  BY DEF Init, EndedInv
<1>2. ASSUME TypeOK, PlacesInv, EndedInv, [Next]_vars PROVE EndedInv'
  <2>. USE DEF scannerVars, handlerVars, writeVars, readVars, closeVars
  <2>1. CASE UNCHANGED closes /\ (readLoop' = "done" => readLoop = "done")
    BY <1>2, <2>1 DEF EndedInv, Closed
  <2>2. CASE CloseChanOnce
    <3>1. isClosed' = TRUE /\ (isClosed' => closes' = 1)
      BY <1>2, <2>2, CloseTypes DEF CloseChanOnce, TypeOK, PlacesInv
    <3>. QED
      BY <3>1 DEF EndedInv, Closed
  <2>3. CASE CloseSocket /\ (readLoop' = "done" => readLoop = "done")
    BY <2>1, <2>3 DEF CloseSocket
  <2>4. CASE HandlerClose \/ WriteClose
    BY <2>2, <2>3, <2>4 DEF HandlerClose, WriteClose
  <2>5. CASE ReadClose
    BY <2>2, <2>3, <2>5 DEF ReadClose
  <2>6. CASE \/ ScanLine \/ ScanEnd \/ ScanStep \/ WriteOk \/ Disconnect \/ UNCHANGED vars
             \/ \E m \in {"text", "exit"} : ReadMessage(m)
    BY <2>1, <2>6 DEF ScanLine, ScanEnd, ScanStep, ScanCheck, ScanSend, WriteOk, Disconnect,
       ReadMessage, vars
  <2>7. CASE StartLog \/ StartFails \/ Receive \/ WsWrite
    BY <2>1, <2>7 DEF StartLog, StartFails, Receive, WsWrite
  <2>8. CASE WriteSelect \/ WriteFails \/ ReadFails \/ ReadQueue
    BY <2>1, <2>8 DEF WriteSelect, WriteFails, ReadFails, ReadQueue
  <2>. QED
    BY <1>2, <2>4, <2>5, <2>6, <2>7, <2>8 DEF Next, HandlerStep, WriteStep, ReadStep
<1>. QED
  BY <1>1, <1>2, TypesInvariant, PTL DEF Spec

\* The client has gone: each further step of the read loop brings its end nearer,
\* whatever the client still had sent.
THEOREM GoneCounts == Spec => GoneSettles
<1>1. [Next]_vars => [gone /\ readLoop' # readLoop => ReadLeft' < ReadLeft]_vars
  <2>. SUFFICES ASSUME Next, gone, readLoop' # readLoop PROVE ReadLeft' < ReadLeft
    OBVIOUS
  <2>1. ReadStep
    BY DEF Next, ScanStep, HandlerStep, WriteStep, ScanLine, ScanEnd, ScanCheck, ScanSend,
       StartLog, StartFails, Receive, WsWrite, HandlerClose, WriteSelect, WriteOk, WriteFails,
       WriteClose, ReadMessage, Disconnect, readVars
  <2>2. \/ readLoop = "read" /\ readLoop' = "close"
        \/ readLoop = "queue" /\ readLoop' = "read"
        \/ readLoop = "queue" /\ readLoop' = "close"
        \/ readLoop = "close" /\ readLoop' = "lock"
        \/ readLoop = "lock" /\ readLoop' = "done"
    BY <2>1, ReadPlaces DEF ReadStep
  <2>. QED
    BY <2>2 DEF ReadLeft
<1>. QED
  BY <1>1, PTL DEF Spec, GoneSettles

\* And where the read loop has no next step, CloseChan is closed, unless the loop
\* is blocked in the inChan nobody reads: GoneIsNoticed, but for the fairness.
THEOREM GoneRests ==
    Spec => [](gone /\ ~ReadCan => Closed \/ (readLoop = "queue" /\ inLen = InCap))
<1>1. TypeOK /\ EndedInv /\ gone /\ ~ReadCan => Closed \/ (readLoop = "queue" /\ inLen = InCap)
  <2> SUFFICES ASSUME TypeOK, EndedInv, gone, ~ReadCan, ~Closed
               PROVE  readLoop = "queue" /\ inLen = InCap
    OBVIOUS
  <2>1. readLoop = "queue"
    BY DEF ReadCan, EndedInv, TypeOK
  <2>2. inLen = InCap
    BY <2>1, CapacitiesArePositive DEF ReadCan, TypeOK
  <2>. QED
    BY <2>1, <2>2
<1>. QED
  BY <1>1, TypesInvariant, EndedInvariant, PTL

=============================================================================
