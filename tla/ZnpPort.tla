------------------------------ MODULE ZnpPort -------------------------------
(***************************************************************************)
(* Class ZnpPort (znp/znp_port.cpp): framing on the serial line.  SendFrame *)
(* queues an encoded frame and one async_write at a time sends the front of *)
(* the queue; a chain of async_reads (start of frame, length, rest) finds    *)
(* the frames again and drops those whose checksum is wrong.                *)
(*                                                                         *)
(* The module joins the sender to the receiver at the other end of the      *)
(* line, which for the frames of the dongle is this same class.  Bytes are  *)
(* bytes: what is checked is that no payload upsets the framing.            *)
(***************************************************************************)
EXTENDS Naturals, Sequences

CONSTANTS
  Frame,        \* the frames sent: [type, subsystem, command, payload]
  MaxFrames,    \* bound on the calls of SendFrame
  MaxNoise,     \* bound on stray bytes between two frames
  MaxCorrupt,   \* bound on frames with one byte changed behind the length
  Garbled       \* the values a stray or a changed byte may have

SOF == 254

Byte == 0 .. 255

ASSUME FrameAssumption ==
  Frame \subseteq [type : 0 .. 15, subsystem : 0 .. 15, command : Byte, payload : Seq(Byte)]
ASSUME LineAssumption ==
  Garbled \subseteq Byte /\ MaxFrames \in Nat /\ MaxNoise \in Nat /\ MaxCorrupt \in Nat

VARIABLES
  send_queue,        \* encoded frames, the front one being written
  send_in_progress,
  written,           \* bytes of the front buffer on the line so far
  line,              \* bytes not yet read at the other end
  reading,           \* the pending async_read: "sof", "length" or "frame"
  need,              \* its size when reading is "frame"
  stopped,           \* on_error_ has stopped the io_service
  calls, noise, corrupt,      \* counters for the bounds
  pending, received           \* history: frames sent and not yet read; read

vars == <<send_queue, send_in_progress, written, line, reading, need, stopped,
          calls, noise, corrupt, pending, received>>
senderVars   == <<send_queue, send_in_progress, written>>
receiverVars == <<reading, need, received>>

TypeOK ==
  /\ send_queue \in Seq(Seq(Byte))
  /\ send_in_progress \in BOOLEAN
  /\ written \in 0 .. 260
  /\ line \in Seq(Byte)
  /\ reading \in {"sof", "length", "frame"}
  /\ need \in 0 .. 258
  /\ stopped \in BOOLEAN
  /\ calls \in 0 .. MaxFrames /\ noise \in 0 .. MaxNoise /\ corrupt \in 0 .. MaxCorrupt
  /\ pending \in Seq(Frame) /\ received \in Seq(Frame)

Init ==
  /\ send_queue = <<>> /\ send_in_progress = FALSE /\ written = 0
  /\ line = <<>>
  /\ reading = "sof" /\ need = 0
  /\ stopped = FALSE
  /\ calls = 0 /\ noise = 0 /\ corrupt = 0
  /\ pending = <<>> /\ received = <<>>

-----------------------------------------------------------------------------
(* Sending.                                                                 *)

\* A bit of the exclusive or of the bytes is the parity of that bit of theirs.
Parity(bytes, bit) ==
  LET odd[i \in 0 .. Len(bytes)] ==
        IF i = 0 THEN 0 ELSE (odd[i - 1] + bytes[i] \div bit) % 2
  IN odd[Len(bytes)]

Checksum(bytes) ==
  LET crc(bit) == bit * Parity(bytes, bit)
  IN crc(1) + crc(2) + crc(4) + crc(8) + crc(16) + crc(32) + crc(64) + crc(128)

\* Mutant: the checksum leaves out the length byte, unlike the receiver's.
EncodeNoLength(f) ==
  LET body == <<f.type * 16 + f.subsystem, f.command>> \o f.payload
  IN <<SOF, Len(f.payload)>> \o body \o <<Checksum(body)>>

Encode(f) ==
  LET body == <<Len(f.payload), f.type * 16 + f.subsystem, f.command>> \o f.payload
  IN <<SOF>> \o body \o <<Checksum(body)>>

\* Mutant: a write is started whether or not one is in progress; the bytes of the
\* front buffer, still unfinished, are sent again from the start.
SendFrameAlways(f) ==
  /\ ~stopped /\ calls < MaxFrames
  /\ calls' = calls + 1
  /\ send_queue' = Append(send_queue, Encode(f))
  /\ send_in_progress' = TRUE
  /\ written' = 0
  /\ pending' = Append(pending, f)
  /\ UNCHANGED <<line, receiverVars, stopped, noise, corrupt>>

\* SendFrame with its TrySend; a payload over 255 bytes throws before anything.
SendFrame(f) ==
  /\ ~stopped /\ calls < MaxFrames
  /\ Len(f.payload) <= 255
  /\ calls' = calls + 1
  /\ send_queue' = Append(send_queue, Encode(f))
  /\ send_in_progress' = TRUE
  /\ written' = IF send_in_progress THEN written ELSE 0
  /\ pending' = Append(pending, f)
  /\ UNCHANGED <<line, receiverVars, stopped, noise, corrupt>>

\* async_write moves the next byte of the front buffer to the line.
WriteByte ==
  /\ ~stopped /\ send_in_progress
  /\ written < Len(Head(send_queue))
  /\ line' = Append(line, Head(send_queue)[written + 1])
  /\ written' = written + 1
  /\ UNCHANGED <<send_queue, send_in_progress, receiverVars, stopped, calls,
                 noise, corrupt, pending>>

\* Mutant: SendHandler does not call TrySend.
SendHandlerNoTry ==
  /\ ~stopped /\ send_in_progress
  /\ written = Len(Head(send_queue))
  /\ send_queue' = Tail(send_queue)
  /\ send_in_progress' = FALSE
  /\ written' = 0
  /\ UNCHANGED <<line, receiverVars, stopped, calls, noise, corrupt, pending>>

\* The write has completed: pop, and TrySend starts on the next.
SendHandler ==
  /\ ~stopped /\ send_in_progress
  /\ written = Len(Head(send_queue))
  /\ send_queue' = Tail(send_queue)
  /\ send_in_progress' = (Tail(send_queue) # <<>>)
  /\ written' = 0
  /\ UNCHANGED <<line, receiverVars, stopped, calls, noise, corrupt, pending>>

\* A read or a write fails: on_error_ makes main stop the io_service.
OnError ==
  /\ ~stopped
  /\ stopped' = TRUE
  /\ UNCHANGED <<senderVars, line, receiverVars, calls, noise, corrupt, pending>>

-----------------------------------------------------------------------------
(* Receiving.                                                               *)

\* StartReceive reads one byte; anything but SOF is dropped.
StartOfFrameHandler ==
  /\ ~stopped /\ reading = "sof" /\ line # <<>>
  /\ reading' = IF Head(line) = SOF THEN "length" ELSE "sof"
  /\ line' = Tail(line)
  /\ UNCHANGED <<senderVars, need, received, stopped, calls, noise, corrupt, pending>>

FrameLengthHandler ==
  /\ ~stopped /\ reading = "length" /\ line # <<>>
  /\ reading' = "frame"
  /\ need' = 2 + Head(line) + 1
  /\ line' = Tail(line)
  /\ UNCHANGED <<senderVars, received, stopped, calls, noise, corrupt, pending>>

Decode(bytes) ==
  [type |-> bytes[1] \div 16, subsystem |-> bytes[1] % 16, command |-> bytes[2],
   payload |-> SubSeq(bytes, 3, Len(bytes) - 1)]

ChecksumOk(bytes) ==
  Checksum(<<need - 3>> \o SubSeq(bytes, 1, need - 1)) = bytes[need]

\* The bytes of the frame as sent, and what is read: these, or one of them changed.
BytesSent == SubSeq(line, 1, need)
BytesRead ==
  {BytesSent} \cup {[BytesSent EXCEPT ![i] = b] : i \in 1 .. need, b \in Garbled}

\* Mutant: a frame is handed on whatever its checksum.
FrameHandlerUnchecked ==
  /\ ~stopped /\ reading = "frame" /\ Len(line) >= need
  /\ reading' = "sof" /\ need' = 0
  /\ line' = SubSeq(line, need + 1, Len(line))
  /\ \E bytes \in BytesRead :
       /\ corrupt' = IF bytes = BytesSent THEN corrupt ELSE corrupt + 1
       /\ received' = Append(received, Decode(bytes))
  /\ corrupt' <= MaxCorrupt
  /\ pending' = Tail(pending)
  /\ UNCHANGED <<senderVars, stopped, calls, noise>>

\* StartReceive comes first; then the frame is checked, and handed on or dropped.
FrameHandler ==
  /\ ~stopped /\ reading = "frame" /\ Len(line) >= need
  /\ reading' = "sof" /\ need' = 0
  /\ line' = SubSeq(line, need + 1, Len(line))
  /\ \E bytes \in BytesRead :
       /\ corrupt' = IF bytes = BytesSent THEN corrupt ELSE corrupt + 1
       /\ received' = IF ChecksumOk(bytes) THEN Append(received, Decode(bytes))
                      ELSE received
  /\ corrupt' <= MaxCorrupt
  /\ pending' = Tail(pending)
  /\ UNCHANGED <<senderVars, stopped, calls, noise>>

\* A stray byte between two frames (a dongle that boots, a USB reconnect).
Noise ==
  /\ ~stopped /\ noise < MaxNoise
  /\ ~send_in_progress \/ written = 0
  /\ noise' = noise + 1
  /\ \E b \in Garbled \ {SOF} : line' = Append(line, b)
  /\ UNCHANGED <<senderVars, receiverVars, stopped, calls, corrupt, pending>>

Next ==
  \/ \E f \in Frame : SendFrame(f)
  \/ WriteByte \/ SendHandler \/ OnError
  \/ StartOfFrameHandler \/ FrameLengthHandler \/ FrameHandler
  \/ Noise

Spec == Init /\ [][Next]_vars
\* The io_service completes the pending write and the pending read.
FairSpec ==
  Spec /\ WF_vars(WriteByte) /\ WF_vars(SendHandler) /\ WF_vars(StartOfFrameHandler)
       /\ WF_vars(FrameLengthHandler) /\ WF_vars(FrameHandler)

-----------------------------------------------------------------------------
(* Properties.                                                              *)

\* A changed byte behind the length costs the frame it is in and no other, and
\* nothing else costs a frame: whatever the payloads (0xFE included), the reader
\* finds every start of frame and every checksum that SendFrame wrote.
OneFrameLostPerError == Len(received) + Len(pending) + corrupt = calls

\* Unless the io_service was stopped, a frame handed to SendFrame is read, also
\* when it was queued behind others while a write was in progress.
EveryFrameIsRead == (pending # <<>>) ~> (pending = <<>> \/ stopped)

\* The frames handed on are those sent, unaltered and in order (ZnpRawInterface).
Link == INSTANCE FrameLink WITH queue <- pending
ImplementsFrameLink == Link!Spec
=============================================================================
