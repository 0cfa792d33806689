----------------------------- MODULE MidiStream -----------------------------
(***************************************************************************)
(* The parser of the MIDI byte stream (process_midi in tsk_eth_common.c):  *)
(* its state outlives the blocks it is given, a status byte may come at    *)
(* any point and applies to all the data that follow it.                   *)
(***************************************************************************)
EXTENDS Integers, Sequences

CONSTANTS
    DataBytes,   \* the data bytes that occur
    SysexSize,   \* MAX_SYSEX_SIZE
    MaxRunning   \* bound on the data bytes after one status byte

ASSUME MidiStreamAssumption == SysexSize \in Nat \ {0} /\ MaxRunning \in Nat

\* The data bytes that follow a status byte of each kind.
ChannelSize == [note |-> 2, control |-> 2, bend |-> 2, program |-> 1, pressure |-> 1]
SystemSize  == [position |-> 2, select |-> 1, sysex |-> SysexSize, clock |-> 0]
Channel  == DOMAIN ChannelSize
Statuses == Channel \cup DOMAIN SystemSize \cup {"end"}

SizeAfter(c) == IF c \in Channel THEN ChannelSize[c] ELSE SystemSize[c]
NotReady == -1    \* DATA_NOT_READY

VARIABLES
    stream,    \* cmd, message_size, bytes_received and msg of the static state
    queued,    \* the message handed to queue_midi_message by the last byte, or <<>>
    running    \* history: the last status byte and the data after it

streamVars == <<stream, queued, running>>

StreamInit ==
    /\ stream = [cmd |-> "none", size |-> NotReady, received |-> 0, msg |-> <<0, 0>>]
    /\ queued = <<>>
    /\ running = <<"none">>

\* Faulty variant: an unfinished message is not given up for the new one.
StatusKeepsData(c) ==
    /\ stream' = [stream EXCEPT !.cmd = c, !.size = SizeAfter(c)]
    /\ queued' = <<>>
    /\ running' = <<c>>

\* A status byte gives up the message before it, whatever kind it is.
Status(c) ==
    /\ stream' = [stream EXCEPT !.cmd = c, !.size = SizeAfter(c), !.received = 0]
    /\ queued' = <<>>
    /\ running' = <<c>>

\* The end of an exclusive message takes the place of no command: its size becomes
\* what was received since this very byte.
SysexEnd ==
    /\ stream' = [stream EXCEPT !.size = 0, !.received = 0]
    /\ queued' = <<>>
    /\ running' = <<"end">>

DataByte(d) ==
    /\ Len(running) <= MaxRunning
    /\ running' = Append(running, d)
    /\ LET wanted == stream.received < stream.size
           got == IF wanted THEN stream.received + 1 ELSE stream.received
           msg == IF wanted /\ stream.cmd # "sysex" THEN [stream.msg EXCEPT ![got] = d] ELSE stream.msg
           size == IF stream.cmd \in DOMAIN SystemSize THEN NotReady ELSE stream.size
       IN IF got = stream.size
          THEN /\ queued' = <<stream.cmd>> \o msg
               /\ stream' = [stream EXCEPT !.size = size, !.received = 0, !.msg = msg]
          ELSE /\ queued' = <<>>
               /\ stream' = [stream EXCEPT !.received = got, !.msg = msg]

StreamNext ==
    \/ \E c \in Statuses \ {"end"} : Status(c)
    \/ SysexEnd
    \/ \E d \in DataBytes : DataByte(d)

StreamSpec == StreamInit /\ [][StreamNext]_streamVars

-----------------------------------------------------------------------------
(* Properties *)

Since == Len(running) - 1

\* A message of the channel is complete: the data since its status byte fill it, once
\* or once again (running status).
Complete ==
    /\ Since > 0 /\ running[1] \in Channel
    /\ Since % ChannelSize[running[1]] = 0

LastData(n) == SubSeq(running, Len(running) - n + 1, Len(running))

\* The MIDI task gets a message of a channel exactly when the stream has completed one,
\* with the bytes of this one: not those of a message that a status byte cut short, nor
\* of an exclusive one, and not again for data that belong to nothing.  The end of an
\* exclusive message that never began is the exception: it keeps the command and sets
\* its size to 0, and each byte of data after it queues that command again.
ChannelMessagesArrive ==
    /\ Complete => queued # <<>> /\ queued[1] = running[1]
    /\ queued # <<>> /\ queued[1] \in Channel =>
         /\ Complete \/ running[1] = "end"
         /\ Complete => SubSeq(queued, 1, ChannelSize[queued[1]] + 1)
                          = <<running[1]>> \o LastData(ChannelSize[queued[1]])
=============================================================================
