----------------------------- MODULE DevcpuPort -----------------------------
(***************************************************************************)
(* The CPU port of Microchip switches (soc/microchip/devcpu/port.go).      *)
(* Frames are read and written word by word through one register: Receive  *)
(* finds the end of a frame by special words in the stream, Transmit tells *)
(* the switch where a frame begins and ends.  Every wait for the register  *)
(* may time out.  The two sides have a mutex each and share no state.      *)
(*                                                                         *)
(* The port also keeps the MAC table of the switch, through the registers  *)
(* of the analyzer (soc/microchip/analyzer), which the board uses as well. *)
(***************************************************************************)
EXTENDS Naturals, Sequences

CONSTANTS
    HeaderWords,    \* HeaderLength / 4
    BufferLength,   \* len(buf) of Receive
    MaxWords,       \* bound: words of a received frame
    MinimumFrameSize, TxLengths,    \* len(buf) of Transmit
    MaxPortFrames,  \* bound: frames, in each direction
    Macs, MaxMacCalls   \* addresses of the host, pairs of the words in two registers; bound: calls

VARIABLES
    fifo, frames,       \* words to be extracted; the frames that arrived
    rpc, header, padded, got,   \* Receive: its step, words skipped, bytes and words copied
    n, received,        \* its result; frames it has come to the end of
    rxTimeout           \* an extraction timed out
VARIABLES
    tpc, length, written, valid,    \* Transmit: its step, len(buf), and its variables
    injecting, words, eof,  \* the switch: a frame is in progress, what it has of it
    accepted, returned,     \* frames it took; frames that Transmit sent without error
    txAborts                \* an abort that timed out
VARIABLES
    ana,        \* the analyzer: PGID_CFG, MAC table, registers, SHOT; its mutex; a command timed out
    learn,      \* who uses it: commands to be given, registers written of the first
    portMac     \* the port: its MAC, the one being set, whether one is in the table; calls

rxSide == <<fifo, frames, rpc, header, padded, got, n, received, rxTimeout>>
txSide == <<tpc, length, written, valid, injecting, words, eof, accepted, returned, txAborts>>
macSide == <<ana, learn, portMac>>
vars == <<rxSide, txSide, macSide>>

Init ==
    /\ fifo = << >> /\ frames = << >>
    /\ rpc = "idle" /\ header = 0 /\ padded = 0 /\ got = << >> /\ n = 0 /\ received = 0
    /\ rxTimeout = FALSE
    /\ tpc = "idle" /\ length = 0 /\ written = 0 /\ valid = 0
    /\ injecting = FALSE /\ words = << >> /\ eof = FALSE
    /\ accepted = << >> /\ returned = << >> /\ txAborts = FALSE

-----------------------------------------------------------------------------
(* Extraction: the switch queues a frame, possibly cut short.              *)

HwFrame(f) ==
    LET k == Len(frames) + 1
        data == [j \in 1 .. f.words |-> << "data", k, j >>]
    IN
    /\ Len(frames) < MaxPortFrames
    /\ f.header < HeaderWords => f.words = 0
    /\ f.end # "eof" => f.unused = 0
    /\ f.escaped => f.words > 0
    /\ frames' = Append(frames, f)
    /\ fifo' = fifo \o [j \in 1 .. f.header |-> << "data", k, 0 >>]
                    \o (IF f.escaped THEN << << "escape" >> >> ELSE << >>)
                    \o data \o << << f.end, f.unused >> >>
                    \o (IF f.end = "truncated" THEN << << "data", k, 0 >> >> ELSE << >>)
    /\ UNCHANGED <<rpc, header, padded, got, n, received, rxTimeout, txSide>>

\* XTR_DATA_PRESENT
Receive ==
    /\ rpc = "idle" /\ fifo # << >>
    /\ rpc' = "read" /\ header' = 0 /\ padded' = 0 /\ got' = << >> /\ n' = 0
    /\ UNCHANGED <<fifo, frames, received, rxTimeout, txSide>>

Skip(k) == SubSeq(fifo, k + 1, Len(fifo))

\* recv gets a word of data, escaped or not: one of the header, or one that is
\* copied as far as it fits
RecvData ==
    /\ rpc = "read" /\ fifo # << >>
    /\ LET esc == fifo[1][1] = "escape"
           w == IF esc THEN fifo[2] ELSE fifo[1]
       IN /\ w[1] = "data"
          /\ fifo' = Skip(IF esc THEN 2 ELSE 1)
          /\ IF header < HeaderWords THEN header' = header + 1 /\ UNCHANGED <<padded, got>>
             ELSE /\ padded' = padded + 4
                  /\ got' = IF padded < BufferLength THEN Append(got, w) ELSE got
                  /\ UNCHANGED header
    /\ UNCHANGED <<frames, rpc, n, received, rxTimeout, txSide>>

\* mutant: the unused bytes are not taken off
RecvEofPadded ==
    /\ rpc = "read" /\ fifo # << >> /\ fifo[1][1] = "eof"
    /\ fifo' = Skip(1)
    /\ n' = IF header < HeaderWords \/ padded = 0 \/ padded > BufferLength THEN 0 ELSE padded
    /\ received' = received + 1 /\ rpc' = "returned"
    /\ UNCHANGED <<frames, header, padded, got, rxTimeout, txSide>>

\* the end of a frame: errors are a short header, an invalid length, an empty
\* frame and one that exceeds the buffer
RecvEof ==
    /\ rpc = "read" /\ fifo # << >> /\ fifo[1][1] = "eof"
    /\ fifo' = Skip(1)
    /\ LET unused == fifo[1][2] IN
       n' = IF \/ header < HeaderWords
               \/ unused > padded
               \/ padded - unused > BufferLength
            THEN 0 ELSE padded - unused
    /\ received' = received + 1 /\ rpc' = "returned"
    /\ UNCHANGED <<frames, header, padded, got, rxTimeout, txSide>>

\* mutant: the word after the mark of a truncated frame is left
RecvCutLeaves ==
    /\ rpc = "read" /\ fifo # << >> /\ fifo[1][1] \in {"truncated", "aborted"}
    /\ fifo' = Skip(1)
    /\ n' = 0 /\ received' = received + 1 /\ rpc' = "returned"
    /\ UNCHANGED <<frames, header, padded, got, rxTimeout, txSide>>

\* a truncated frame has one more word, whose read may time out
RecvCut ==
    /\ rpc = "read" /\ fifo # << >> /\ fifo[1][1] \in {"truncated", "aborted"}
    /\ \/ fifo' = Skip(IF fifo[1][1] = "truncated" THEN 2 ELSE 1) /\ UNCHANGED rxTimeout
       \/ fifo[1][1] = "truncated" /\ fifo' = Skip(1) /\ rxTimeout' = TRUE
    /\ n' = 0 /\ received' = received + 1 /\ rpc' = "returned"
    /\ UNCHANGED <<frames, header, padded, got, txSide>>

\* RD_NOT_READY for too long, maybe after the mark of an escaped word
RecvTimeout ==
    /\ rpc = "read"
    /\ fifo' \in {fifo} \cup (IF fifo # << >> /\ fifo[1][1] = "escape" THEN {Skip(1)} ELSE {})
    /\ n' = 0 /\ rxTimeout' = TRUE /\ rpc' = "returned"
    /\ UNCHANGED <<frames, header, padded, got, received, txSide>>

Received ==
    /\ rpc = "returned" /\ rpc' = "idle"
    /\ UNCHANGED <<fifo, frames, header, padded, got, n, received, rxTimeout, txSide>>

Frames ==
    [header : {0, HeaderWords}, words : 0 .. MaxWords, escaped : BOOLEAN, unused : {0, 1, 3},
     end : {"eof", "truncated", "aborted"}]

RxNext ==
    \/ \E f \in Frames : HwFrame(f)
    \/ Receive \/ RecvData \/ RecvEof \/ RecvCut \/ RecvTimeout \/ Received

-----------------------------------------------------------------------------
(* Injection.                                                              *)

\* mutant: the valid bytes of a padded frame are those of the buffer
TransmitValid(len) ==
    /\ tpc = "idle" /\ Len(returned) < MaxPortFrames /\ ~txAborts
    /\ length' = len /\ written' = 0
    /\ valid' = len % 4
    /\ injecting' = TRUE /\ words' = << >> /\ eof' = FALSE
    /\ tpc' = "write"
    /\ UNCHANGED <<accepted, returned, txAborts, rxSide>>

\* waitForInjection, which changes nothing when it fails, then Start Of Frame
Transmit(len) ==
    /\ tpc = "idle" /\ Len(returned) < MaxPortFrames /\ ~txAborts
    /\ length' = len /\ written' = 0
    /\ valid' = IF len < MinimumFrameSize THEN 0 ELSE len % 4
    /\ injecting' = TRUE /\ words' = << >> /\ eof' = FALSE
    /\ tpc' = "write"
    /\ UNCHANGED <<accepted, returned, txAborts, rxSide>>

\* the bytes of the next word: of the buffer, or zero
Word == [j \in 1 .. 4 |-> IF written + j <= length THEN written + j ELSE 0]

\* the words of the buffer, then zeroes up to the minimum
Write ==
    /\ tpc = "write" /\ (written < length \/ written < MinimumFrameSize)
    /\ words' = words \o Word /\ written' = written + 4
    /\ UNCHANGED <<tpc, length, valid, injecting, eof, accepted, returned, txAborts, rxSide>>

EndOfFrame ==
    /\ tpc = "write" /\ written >= length /\ written >= MinimumFrameSize
    /\ eof' = TRUE /\ tpc' = "crc"
    /\ UNCHANGED <<length, written, valid, injecting, words, accepted, returned, txAborts, rxSide>>

\* the switch has the frame with its last word
WriteCrc ==
    /\ tpc = "crc"
    /\ accepted' = Append(accepted, SubSeq(words, 1, Len(words) - ((4 - valid) % 4)))
    /\ returned' = Append(returned, length)
    /\ injecting' = FALSE /\ tpc' = "idle"
    /\ UNCHANGED <<length, written, valid, words, eof, txAborts, rxSide>>

\* a write times out: abortInjection, which may time out as well
WriteTimeout ==
    /\ tpc \in {"write", "crc"}
    /\ \/ injecting' = FALSE /\ UNCHANGED txAborts
       \/ txAborts' = TRUE /\ UNCHANGED injecting
    /\ tpc' = "idle"
    /\ UNCHANGED <<length, written, valid, words, eof, accepted, returned, rxSide>>

TxNext ==
    \/ \E len \in TxLengths : Transmit(len)
    \/ Write \/ EndOfFrame \/ WriteCrc \/ WriteTimeout

-----------------------------------------------------------------------------
(* The MAC table: goroutines of the board and of the port give commands.   *)

Broadcast == <<"ff", "ff">>
NoMac == <<>>
Groups == {"PGID_BROADCAST", "PGID_HOST"}

MacInit ==
    /\ ana = [ports |-> [g \in Groups |-> "unset"], table |-> [m \in Macs \cup {Broadcast} |-> "none"],
              msb |-> "", lsb |-> "", pgid |-> "none", cmd |-> "none", shot |-> FALSE, lock |-> "free",
              late |-> FALSE]
    /\ learn = [c \in {"board", "port"} |-> [todo |-> <<>>, step |-> 0]]
    /\ \E m \in Macs \cup {NoMac} : portMac = [mac |-> m, new |-> NoMac, up |-> FALSE, calls |-> 0]

\* the ports that frames of a group are forwarded to: all, or none but the host
AnaInit == [PGID_BROADCAST |-> "all", PGID_HOST |-> "none"]

\* initializeSwitchCore starts the analyzer and inserts the address for broadcasts
initializeSwitchCore ==
    /\ ana.table[Broadcast] = "none" /\ learn["board"].todo = <<>>
    /\ ana' = [ana EXCEPT !.ports = AnaInit]
    /\ learn' = [learn EXCEPT !["board"].todo = <<[mac |-> Broadcast, pgid |-> "PGID_BROADCAST", cmd |-> "learn"]>>]
    /\ UNCHANGED portMac

Insert(mac) == <<[mac |-> mac, pgid |-> "PGID_HOST", cmd |-> "learn"]>>
Delete(mac) == <<[mac |-> mac, pgid |-> "PGID_HOST", cmd |-> "forget"]>>

SetMAC(mac) ==
    /\ learn["port"].todo = <<>> /\ portMac.calls < MaxMacCalls
    /\ learn' = [learn EXCEPT !["port"].todo = (IF portMac.mac = NoMac THEN <<>> ELSE Delete(portMac.mac)) \o Insert(mac)]
    /\ portMac' = [portMac EXCEPT !.new = mac, !.calls = @ + 1]
    /\ UNCHANGED ana

\* Init: a random address when there is none; fails when Enable or abortInjection does
PortInit(mac, ok) ==
    /\ learn["port"].todo = <<>> /\ portMac.calls < MaxMacCalls
    /\ portMac.mac # NoMac => mac = portMac.mac
    /\ learn' = IF ok THEN [learn EXCEPT !["port"].todo = Delete(mac) \o Insert(mac)] ELSE learn
    /\ portMac' = [portMac EXCEPT !.mac = mac, !.new = mac, !.calls = @ + 1]
    /\ UNCHANGED ana

\* mutant: the registers are written without the mutex
LearnFirstUnlocked(c) ==
    /\ learn[c].todo # <<>> /\ learn[c].step = 0
    /\ ana' = [ana EXCEPT !.lock = c, !.msb = Head(learn[c].todo).mac[1]]
    /\ learn' = [learn EXCEPT ![c].step = 1]
    /\ UNCHANGED portMac

\* Learning takes the mutex and writes the first register
LearnFirst(c) ==
    /\ learn[c].todo # <<>> /\ learn[c].step = 0 /\ ana.lock = "free"
    /\ ana' = [ana EXCEPT !.lock = c, !.msb = Head(learn[c].todo).mac[1]]
    /\ learn' = [learn EXCEPT ![c].step = 1]
    /\ UNCHANGED portMac

\* the other registers, then the command
LearnWrite(c) ==
    LET k == Head(learn[c].todo)
        s == learn[c].step
    IN  /\ s \in 1 .. 4
        /\ ana' = CASE s = 1 -> [ana EXCEPT !.lsb = k.mac[2]]
                    [] s = 2 -> [ana EXCEPT !.pgid = k.pgid]
                    [] s = 3 -> [ana EXCEPT !.cmd = k.cmd]
                    [] s = 4 -> [ana EXCEPT !.shot = TRUE]
        /\ learn' = [learn EXCEPT ![c].step = s + 1]
        /\ UNCHANGED portMac

\* the wait ends, in time or not, which Learning does not tell; SetMAC sets the MAC
\* after its last command
LearnEnd(c) ==
    LET last == c = "port" /\ Len(learn[c].todo) = 1
    IN  /\ learn[c].step = 5
        /\ ana' = [ana EXCEPT !.lock = "free", !.late = @ \/ ana.shot]
        /\ learn' = [learn EXCEPT ![c] = [todo |-> Tail(@.todo), step |-> 0]]
        /\ portMac' = IF last THEN [portMac EXCEPT !.mac = portMac.new, !.up = TRUE] ELSE portMac

\* external: the analyzer executes a command
HwLearn ==
    /\ ana.shot
    /\ LET m == <<ana.msb, ana.lsb>>
           entry == IF ana.cmd = "learn" THEN ana.pgid ELSE "none"
       IN ana' = [ana EXCEPT !.shot = FALSE, !.table = [x \in DOMAIN @ \cup {m} |-> IF x = m THEN entry ELSE @[x]]]
    /\ UNCHANGED <<learn, portMac>>

MacNext ==
    \/ initializeSwitchCore \/ HwLearn
    \/ \E m \in Macs : SetMAC(m) \/ \E ok \in BOOLEAN : PortInit(m, ok)
    \/ \E c \in DOMAIN learn : LearnFirst(c) \/ LearnWrite(c) \/ LearnEnd(c)

Next ==
    \/ (RxNext \/ TxNext) /\ UNCHANGED macSide
    \/ MacNext /\ UNCHANGED <<rxSide, txSide>>

Spec == Init /\ MacInit /\ [][Next]_vars

-----------------------------------------------------------------------------

\* Until an extraction times out, each call of Receive takes exactly one frame off
\* the stream: it returns all bytes of a good frame that fits, and nothing else.
ExtractedExact ==
    rpc = "returned" /\ ~rxTimeout =>
        LET f == frames[received]
            len == 4 * f.words - f.unused
            good == f.header = HeaderWords /\ f.end = "eof" /\ f.unused < 4 * f.words
                    /\ len <= BufferLength
        IN /\ n = IF good THEN len ELSE 0
           /\ good => got = [j \in 1 .. f.words |-> << "data", received, j >>]

\* The switch takes the frames that were sent without error, in order, with their
\* bytes, padded to the minimum, and nothing of a frame that was aborted.
InjectedExact ==
    /\ Len(accepted) = Len(returned)
    /\ \A k \in DOMAIN accepted :
          /\ Len(accepted[k]) = IF returned[k] < MinimumFrameSize THEN MinimumFrameSize ELSE returned[k]
          /\ \A j \in DOMAIN accepted[k] : accepted[k][j] = IF j <= returned[k] THEN j ELSE 0

\* Unless a command has timed out, the MAC table forwards to the host what is for the
\* address of the port and nothing else, also while the board changes the table; only
\* the address for broadcasts goes to all ports.
TableRight ==
    learn["port"].todo = <<>> /\ ~ana.late =>
        /\ {m \in DOMAIN ana.table : ana.table[m] = "PGID_HOST"} = IF portMac.up THEN {portMac.mac} ELSE {}
        /\ \A m \in DOMAIN ana.table : ana.table[m] # "none" /\ ana.ports[ana.table[m]] = "all" => m = Broadcast

=============================================================================
