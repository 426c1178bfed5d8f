------------------------------- MODULE I2cLink ------------------------------
(***************************************************************************)
(* The data link layer between the ESP32 and the Optiga security chip,     *)
(* ch7/optiga_ex/lib/optiga/src/ifx_i2c_data_link_layer.c: a stop-and-wait *)
(* protocol with two-bit frame numbers, which can be set back by a resync. *)
(* The transport layer above is reduced to commands of one frame with one  *)
(* answer each; the physical layer below to its three events, SUCCESS,     *)
(* STACK_ERROR (nothing to read for data_poll_timeout) and FATAL_ERROR     *)
(* (the bus failed PL_POLLING_MAX_CNT times).                              *)
(*                                                                         *)
(* ifx_i2c_pl_event_handler loops until it waits for the physical layer:   *)
(* an action here is one call of it.  TX, ACK, DISCARD, RESEND and ERROR   *)
(* wait for the write of the frame tx, RX for a frame to read.             *)
(*                                                                         *)
(* The chip is external: it numbers, acknowledges and repeats its frames   *)
(* as the code does, offers an unacknowledged answer again and again, and  *)
(* forgets what it was doing when it is told to resync.                    *)
(***************************************************************************)
EXTENDS Integers

CONSTANTS
  DL_TRANS_REPEAT,   \* 3 in ifx_i2c_config.h
  MaxCommands,       \* commands of the transport layer
  MaxFaults          \* corrupted frames, failures of the bus

ASSUME LinkAssumption == {DL_TRANS_REPEAT, MaxCommands, MaxFaults} \subseteq Nat

DL_MAX_FRAME_NUM == 3
Numbers  == 0 .. DL_MAX_FRAME_NUM
Commands == 1 .. MaxCommands
Unknown  == MaxCommands + 1    \* whatever the chip makes of a spoilt frame
NextNr(nr) == (nr + 1) % (DL_MAX_FRAME_NUM + 1)

\* A frame: kind, frame number, acknowledged number, and the command it is of.
Frames == [kind : {"data", "ack", "nack", "resync", "garbage", "none"},
           nr : Numbers, ack : Numbers, cmd : 0 .. Unknown]
Data(nr, ack, cmd) == [kind |-> "data", nr |-> nr, ack |-> ack, cmd |-> cmd]
Control(kind, ack) == [kind |-> kind, nr |-> 0, ack |-> ack, cmd |-> 0]
NoFrame            == Control("none", 0)
Garbage            == Control("garbage", 0)

VARIABLES
  state, tx_seq_nr, rx_seq_nr, resynced, retransmit_counter, action_rx_only,
  tx,          \* the frame to be written
  spoilt,      \* a control frame was built over the payload in tx_frame_buffer
  rx_buffer,   \* the command of which the answer is in p_rx_frame_buffer
  expired,     \* TL_MAX_EXIT_TIMEOUT since api_start_time
  cmd,         \* the command of the transport layer
  asked,       \* it was sent and waits for its answer
  answered,    \* the answer reported for it, 0 if none
  chip,        \* its numbers, the frame it got, the frame to be read, the command
               \* it runs and the one of which the answer is not acknowledged
  runs,        \* how often the chip ran each command (history)
  apart,       \* the side that has started afresh without the other (history)
  renumbered,  \* numbers were set back in this command (history)
  mangled,     \* a spoilt frame was sent for this command (history)
  leftover,    \* the chip was not done with an older command (history)
  faults

hostVars == <<state, tx_seq_nr, rx_seq_nr, resynced, retransmit_counter, action_rx_only,
              tx, spoilt, rx_buffer>>
userVars == <<expired, cmd, asked, answered>>
history  == <<runs, apart, renumbered, mangled, leftover>>
vars     == <<hostVars, userVars, chip, history, faults>>

Writing == {"TX", "ACK", "DISCARD", "RESEND", "ERROR"}

TypeOK ==
  /\ state \in Writing \cup {"IDLE", "RX"}
  /\ {tx_seq_nr, rx_seq_nr, chip.tx, chip.rx} \subseteq Numbers
  /\ {resynced, action_rx_only, expired, asked, spoilt} \subseteq BOOLEAN
  /\ {renumbered, mangled, leftover} \subseteq BOOLEAN
  /\ retransmit_counter \in 0 .. DL_TRANS_REPEAT
  /\ {tx, chip.in, chip.out} \subseteq Frames
  /\ cmd \in 0 .. MaxCommands
  /\ {rx_buffer, answered, chip.todo, chip.unacked} \subseteq 0 .. Unknown
  /\ runs \in [Commands -> 0 .. 2]
  /\ apart \in {"nobody", "host", "chip", "both"}
  /\ faults \in 0 .. MaxFaults

\* ifx_i2c_dl_init; the chip has been reset with it.
Init ==
  /\ state = "IDLE"
  /\ tx_seq_nr = DL_MAX_FRAME_NUM /\ rx_seq_nr = DL_MAX_FRAME_NUM
  /\ resynced = FALSE /\ retransmit_counter = 0 /\ action_rx_only = FALSE
  /\ tx = NoFrame /\ spoilt = FALSE /\ rx_buffer = 0
  /\ expired = FALSE /\ cmd = 0 /\ asked = FALSE /\ answered = 0
  /\ chip = [tx |-> DL_MAX_FRAME_NUM, rx |-> DL_MAX_FRAME_NUM, in |-> NoFrame,
             out |-> NoFrame, todo |-> 0, unacked |-> 0]
  /\ runs = [c \in Commands |-> 0]
  /\ apart = "nobody" /\ renumbered = FALSE /\ mangled = FALSE /\ leftover = FALSE
  /\ faults = 0

Fault == faults < MaxFaults /\ faults' = faults + 1

-----------------------------------------------------------------------------
(* Parts of the handler *)

\* ifx_i2c_dl_send_frame_internal, for a data frame with this payload.
SendData(c, resend) ==
  /\ tx_seq_nr' = IF ~resend \/ resynced THEN NextNr(tx_seq_nr) ELSE tx_seq_nr
  /\ resynced' = FALSE
  /\ tx' = Data(tx_seq_nr', rx_seq_nr, c)
  /\ state' = "TX"

\* The same for an acknowledgement or NACK: its CRC falls on the payload of the
\* data frame that may have to be sent again.  s waits for the write.
SendControl(kind, ack, s) ==
  /\ tx' = Control(kind, ack)
  /\ state' = s
  /\ spoilt' = TRUE
  /\ UNCHANGED <<tx_seq_nr, resynced>>

\* Mutant: that the numbers were set back is not remembered.
ResyncUnmarked(s) ==
  /\ tx_seq_nr' = DL_MAX_FRAME_NUM /\ rx_seq_nr' = DL_MAX_FRAME_NUM
  /\ UNCHANGED resynced
  /\ tx' = Control("resync", 0)
  /\ state' = s
  /\ apart' = "host" /\ renumbered' = TRUE
  /\ UNCHANGED <<spoilt, mangled, asked>>

\* A resync is built in the other buffer.
ifx_i2c_dl_resync(s) ==
  /\ tx_seq_nr' = DL_MAX_FRAME_NUM /\ rx_seq_nr' = DL_MAX_FRAME_NUM
  /\ resynced' = TRUE
  /\ tx' = Control("resync", 0)
  /\ state' = s
  /\ apart' = "host" /\ renumbered' = TRUE
  /\ UNCHANGED <<spoilt, mangled, asked>>

Goto(s) == state' = s /\ UNCHANGED <<tx_seq_nr, resynced, tx, spoilt>>

\* What most branches leave alone.
Rest == UNCHANGED <<rx_seq_nr, retransmit_counter, asked, apart, renumbered, mangled>>

\* DL_STATE_ERROR: the error is reported, once a resync has been sent; after a
\* resync of the chip's it is reported and the chip is not told.
Fail ==
  /\ \/ ~resynced /\ ifx_i2c_dl_resync("ERROR")
     \/ /\ resynced /\ Goto("IDLE") /\ asked' = FALSE
        /\ apart' = IF state = "ERROR" THEN apart ELSE "host"
        /\ UNCHANGED <<rx_seq_nr, renumbered, mangled>>
  /\ UNCHANGED retransmit_counter

\* What is in tx_frame_buffer goes out under a new CRC.
SendAgain(resend) ==
  /\ SendData(IF spoilt THEN Unknown ELSE cmd, resend)
  /\ mangled' = (mangled \/ spoilt)
  /\ UNCHANGED <<rx_seq_nr, spoilt, asked, apart, renumbered>>

\* Mutant: a frame that is sent again gets a number of its own.
ResendAsNew(late) ==
  \/ late /\ Fail
  \/ /\ ~late /\ retransmit_counter = DL_TRANS_REPEAT
     /\ retransmit_counter' = 0
     /\ ifx_i2c_dl_resync("RESEND")
  \/ /\ ~late /\ retransmit_counter # DL_TRANS_REPEAT
     /\ retransmit_counter' = retransmit_counter + 1
     /\ SendAgain(FALSE)

\* The data frame once more, or a resync first, or the error when it is too late.
ifx_i2c_dl_resend_frame(late) ==
  \/ late /\ Fail
  \/ /\ ~late /\ retransmit_counter = DL_TRANS_REPEAT
     /\ retransmit_counter' = 0
     /\ ifx_i2c_dl_resync("RESEND")
  \/ /\ ~late /\ retransmit_counter # DL_TRANS_REPEAT
     /\ retransmit_counter' = retransmit_counter + 1
     /\ SendAgain(TRUE)

-----------------------------------------------------------------------------
(* The transport layer *)

\* ifx_i2c_tl_transceive, which sends the command.
ifx_i2c_dl_send_frame ==
  /\ state = "IDLE" /\ ~asked
  /\ cmd < MaxCommands /\ cmd' = cmd + 1
  /\ expired' = FALSE /\ answered' = 0 /\ asked' = TRUE
  /\ spoilt' = FALSE /\ renumbered' = FALSE /\ mangled' = FALSE
  /\ leftover' = (chip.todo # 0 \/ chip.tx # rx_seq_nr)
  /\ retransmit_counter' = 0 /\ action_rx_only' = FALSE
  /\ SendData(cmd', FALSE)
  /\ UNCHANGED <<rx_seq_nr, rx_buffer, chip, runs, apart, faults>>

\* The command was acknowledged without its answer.
ifx_i2c_dl_receive_frame ==
  /\ state = "IDLE" /\ asked
  /\ Goto("RX")
  /\ retransmit_counter' = 0 /\ action_rx_only' = TRUE
  /\ UNCHANGED <<rx_seq_nr, rx_buffer, userVars, chip, history, faults>>

TimePasses ==
  /\ state # "IDLE" /\ ~expired /\ expired' = TRUE
  /\ UNCHANGED <<hostVars, cmd, asked, answered, chip, history, faults>>

-----------------------------------------------------------------------------
(* ifx_i2c_pl_event_handler: a frame has been written *)

\* In order or not; the chip takes a frame when it is done with the last one.
ToChip ==
  /\ chip.in = NoFrame
  /\ \/ chip' = [chip EXCEPT !.in = tx] /\ UNCHANGED faults
     \/ chip' = [chip EXCEPT !.in = Garbage] /\ Fault

\* In ACK the answer is reported, to a transport layer in whichever mode.
Written ==
  /\ state \in Writing
  /\ ToChip
  /\ \/ state \in {"TX", "DISCARD"} /\ Goto("RX") /\ Rest /\ UNCHANGED answered
     \/ /\ state = "ACK" /\ Goto("IDLE")
        /\ answered' = rx_buffer /\ asked' = FALSE
        /\ UNCHANGED <<rx_seq_nr, retransmit_counter, apart, renumbered, mangled>>
     \/ state = "RESEND" /\ ifx_i2c_dl_resend_frame(expired) /\ UNCHANGED answered
     \/ state = "ERROR" /\ Fail /\ UNCHANGED answered
  /\ UNCHANGED <<action_rx_only, rx_buffer, expired, cmd, runs, leftover>>

-----------------------------------------------------------------------------
(* ifx_i2c_pl_event_handler: a frame has been read, or none *)

ChipRead == chip' = [chip EXCEPT !.out = NoFrame]

\* DL_STATE_RX_DF: an old frame is acknowledged again, one that acknowledges
\* something else is passed over, and the answer is stored and acknowledged.  A
\* data frame that carries a NACK (lines 418-424) is one the chip never sends: the
\* code itself sends none (lines 157, 542).
ReadData(f) ==
  /\ f.kind = "data"
  /\ \/ /\ f.nr # NextNr(rx_seq_nr)
        /\ SendControl("ack", rx_seq_nr, "DISCARD")
        /\ Rest /\ UNCHANGED rx_buffer
     \/ /\ f.nr = NextNr(rx_seq_nr) /\ f.ack # tx_seq_nr
        /\ Goto("RX") /\ Rest /\ UNCHANGED rx_buffer
     \/ /\ f.nr = NextNr(rx_seq_nr) /\ f.ack = tx_seq_nr
        /\ rx_seq_nr' = f.nr /\ rx_buffer' = f.cmd
        /\ retransmit_counter' = 0
        /\ SendControl("ack", f.nr, "ACK")
        /\ UNCHANGED <<asked, apart, renumbered, mangled>>

\* Mutant: whichever frame an acknowledgement names.
DiscardedUnread(f) == action_rx_only # (f.kind = "resync")

\* DL_STATE_RX_CF.
Discarded(f) ==
  \/ action_rx_only # (f.kind = "resync")
  \/ f.kind # "resync" /\ f.ack # tx_seq_nr

ReadControl(f) ==
  /\ f.kind \in {"ack", "nack", "resync"}
  /\ \/ Discarded(f) /\ Goto("RX") /\ Rest
     \/ /\ ~Discarded(f) /\ f.kind = "resync"
        /\ tx_seq_nr' = DL_MAX_FRAME_NUM /\ rx_seq_nr' = DL_MAX_FRAME_NUM
        /\ resynced' = TRUE
        /\ apart' = (IF apart = "chip" /\ chip.in = NoFrame THEN "nobody" ELSE apart)
        /\ renumbered' = TRUE
        /\ UNCHANGED <<state, tx, spoilt, retransmit_counter, asked, mangled>>
     \/ ~Discarded(f) /\ f.kind = "nack" /\ ifx_i2c_dl_resend_frame(expired)
     \/ ~Discarded(f) /\ f.kind = "ack" /\ Goto("IDLE") /\ Rest

Read ==
  /\ state = "RX" /\ chip.out # NoFrame
  /\ ChipRead
  /\ \/ ReadData(chip.out)
     \/ ReadControl(chip.out) /\ UNCHANGED rx_buffer
  /\ UNCHANGED <<action_rx_only, userVars, runs, leftover, faults>>

\* The CRC is wrong, and so may be the bits that tell the kind of frame: a NACK,
\* the data frame once more, or nothing.
ReadGarbage ==
  /\ Fault
  /\ state = "RX" /\ chip.out # NoFrame
  /\ ChipRead
  /\ \/ SendControl("nack", NextNr(rx_seq_nr), "TX") /\ Rest
     \/ ifx_i2c_dl_resend_frame(expired)
     \/ Goto("RX") /\ Rest
  /\ UNCHANGED <<action_rx_only, rx_buffer, expired, cmd, answered, runs, leftover>>

\* STACK_ERROR.  In receiver mode data_poll_timeout is the exit timeout.
NothingToRead ==
  /\ state = "RX" /\ chip.out = NoFrame
  /\ ifx_i2c_dl_resend_frame(expired \/ action_rx_only)
  /\ UNCHANGED <<action_rx_only, rx_buffer, expired, cmd, answered, chip, runs, leftover, faults>>

\* FATAL_ERROR, of a write or a read.
BusFails ==
  /\ Fault
  /\ state # "IDLE"
  /\ Fail
  /\ UNCHANGED <<action_rx_only, rx_buffer, expired, cmd, answered, chip, runs, leftover>>

ifx_i2c_pl_event_handler == Written \/ Read \/ ReadGarbage \/ NothingToRead \/ BusFails

-----------------------------------------------------------------------------
(* The chip *)

Offer == IF chip.unacked = 0 THEN chip.out ELSE Data(chip.tx, chip.rx, chip.unacked)

Unacked(ack) == IF ack = chip.tx THEN 0 ELSE chip.unacked

ChipGetsCommand ==
  LET f == chip.in IN
  /\ f.kind = "data"
  /\ \/ /\ f.nr = NextNr(chip.rx)
        /\ chip' = [chip EXCEPT !.in = NoFrame, !.rx = f.nr, !.todo = f.cmd,
                                !.unacked = Unacked(f.ack), !.out = Control("ack", f.nr)]
        /\ runs' = [c \in Commands |-> IF c = f.cmd /\ runs[c] < 2 THEN runs[c] + 1 ELSE runs[c]]
     \/ /\ f.nr # NextNr(chip.rx)
        /\ chip' = [chip EXCEPT !.in = NoFrame, !.unacked = Unacked(f.ack),
                                !.out = Control("ack", chip.rx)]
        /\ UNCHANGED runs
  /\ UNCHANGED <<hostVars, userVars, apart, renumbered, mangled, leftover, faults>>

ChipGetsControl ==
  LET f == chip.in IN
  /\ \/ f.kind = "ack" /\ chip' = [chip EXCEPT !.in = NoFrame, !.unacked = Unacked(f.ack)]
     \/ f.kind = "nack" /\ chip' = [chip EXCEPT !.in = NoFrame, !.out = Offer]
     \/ /\ f = Garbage
        /\ \E reaction \in {chip.out, Offer, Control("nack", NextNr(chip.rx))} :
             chip' = [chip EXCEPT !.in = NoFrame, !.out = reaction]
  /\ UNCHANGED <<hostVars, userVars, history, faults>>

ChipGetsResync ==
  /\ chip.in.kind = "resync"
  /\ chip' = [tx |-> DL_MAX_FRAME_NUM, rx |-> DL_MAX_FRAME_NUM, in |-> NoFrame,
              out |-> NoFrame, todo |-> 0, unacked |-> 0]
  /\ apart' = "nobody" /\ leftover' = FALSE
  /\ UNCHANGED <<hostVars, userVars, runs, renumbered, mangled, faults>>

\* The answer may come before the acknowledgement has been read.
ChipAnswers ==
  /\ chip.todo # 0
  /\ chip' = [chip EXCEPT !.tx = NextNr(@), !.todo = 0, !.unacked = chip.todo,
                          !.out = Data(NextNr(chip.tx), chip.rx, chip.todo)]
  /\ UNCHANGED <<hostVars, userVars, history, faults>>

\* It gives up on the numbers, and answers again with new ones.
ChipResyncs ==
  /\ Fault
  /\ chip.unacked # 0
  /\ chip' = [tx |-> DL_MAX_FRAME_NUM, rx |-> DL_MAX_FRAME_NUM, in |-> NoFrame,
              out |-> Control("resync", 0), todo |-> chip.unacked, unacked |-> 0]
  /\ apart' = IF apart = "nobody" THEN "chip" ELSE "both"
  /\ UNCHANGED <<hostVars, userVars, runs, renumbered, mangled, leftover>>

ChipReacts == ChipGetsCommand \/ ChipGetsControl \/ ChipGetsResync

-----------------------------------------------------------------------------
Next ==
  \/ ifx_i2c_dl_send_frame \/ ifx_i2c_dl_receive_frame \/ TimePasses
  \/ ifx_i2c_pl_event_handler
  \/ ChipReacts \/ ChipAnswers \/ ChipResyncs

\* The physical layer ends every write and read with one of its events, the
\* transport layer asks for the answer, and time passes.
Fairness ==
  /\ WF_vars(Written \/ Read \/ NothingToRead)
  /\ WF_vars(ifx_i2c_dl_receive_frame)
  /\ WF_vars(TimePasses) /\ WF_vars(ChipReacts)

Spec == Init /\ [][Next]_vars /\ Fairness

-----------------------------------------------------------------------------
(* Properties *)

\* What is reported to the transport layer is true: a command reported as sent
\* was run by the chip, and an answer is the answer to this command.  Three things
\* break it.  Two-bit numbers promise it only while both sides have set them back
\* together: when a resync is lost, an old number can acknowledge a command that
\* never arrived (ifx_i2c_data_link_layer.c:264-275, 401-435, 473-492).  A frame
\* that is sent again after a NACK, or after an old answer was acknowledged once
\* more, is not the command any more: its first two bytes are the CRC of that
\* control frame, under a CRC of their own (lines 229, 257-258, 295).  And a
\* command sent again after a resync of the chip's has a new number (lines
\* 238-241), so the chip runs it twice: when one answer is accepted before the
\* chip has given the other, that one can pass for the answer to the next command.
ReportsAreTrue ==
  state = "IDLE" /\ apart = "nobody" /\ ~mangled /\ ~leftover =>
    /\ asked => runs[cmd] > 0
    /\ answered # 0 => answered = cmd /\ runs[cmd] > 0

\* However often frames are lost and sent again, a command is run once; only a
\* resync can make the chip run it again, because the frame that follows has a
\* number of its own (ifx_i2c_data_link_layer.c:238-241, 284-289).
RunsOnce ==
  cmd # 0 /\ ~renumbered /\ apart = "nobody" => runs[cmd] < 2

\* Every exchange ends, with an answer or an error, if the line works again: each
\* repetition ends at the exit timeout, and passing over a frame or answering it
\* with a NACK, which do not look at the time, need a frame each.
EachExchangeEnds == state # "IDLE" ~> (state = "IDLE" /\ ~asked)

=============================================================================
