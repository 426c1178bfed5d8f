--------------------------- MODULE I2cLinkProofs ----------------------------
(***************************************************************************)
(* Proofs about the data link layer to the Optiga chip (I2cLink), for any  *)
(* number of commands, repetitions and faults: a command is run once as    *)
(* long as no numbers are set back, and what is reported to the transport  *)
(* layer is true, with the exceptions that ReportsAreTrue states.          *)
(*                                                                         *)
(* The invariant has three layers, each inductive given the ones before:   *)
(* types; what the numbers of the two sides have to do with each other     *)
(* (Numbering), which is all that RunsOnce needs; and which command the    *)
(* frames and answers under way are of (Bookkeeping).                      *)
(***************************************************************************)
EXTENDS I2cLink, TLAPS

-----------------------------------------------------------------------------
(* Types *)

Chips == [tx : Numbers, rx : Numbers, in : Frames, out : Frames,
          todo : 0 .. Unknown, unacked : 0 .. Unknown]

\* What the handler's branches change, and what only some of them do.
HandlerTypes ==
  /\ state \in Writing \cup {"IDLE", "RX"}
  /\ tx_seq_nr \in Numbers /\ rx_seq_nr \in Numbers
  /\ retransmit_counter \in 0 .. DL_TRANS_REPEAT
  /\ tx \in Frames
  /\ apart \in {"nobody", "host", "chip", "both"}

HandlerFlags ==
  /\ resynced \in BOOLEAN /\ asked \in BOOLEAN /\ spoilt \in BOOLEAN
  /\ renumbered \in BOOLEAN /\ mangled \in BOOLEAN

OtherTypes ==
  /\ cmd \in 0 .. MaxCommands
  /\ rx_buffer \in 0 .. Unknown /\ answered \in 0 .. Unknown
  /\ faults \in 0 .. MaxFaults

OtherFlags == action_rx_only \in BOOLEAN /\ expired \in BOOLEAN /\ leftover \in BOOLEAN

ChipTypes == chip \in Chips /\ runs \in [Commands -> 0 .. 2]

Types == HandlerTypes /\ HandlerFlags /\ OtherTypes /\ OtherFlags /\ ChipTypes

\* Three is the last number, and zero follows it (NextNr).
LEMMA NextNumbers ==
  /\ \A n \in Numbers : NextNr(n) = IF n = DL_MAX_FRAME_NUM THEN 0 ELSE n + 1
  /\ \A n \in Numbers : NextNr(n) \in Numbers /\ NextNr(n) # n /\ NextNr(NextNr(n)) # n
  /\ \A m, n \in Numbers : NextNr(m) = NextNr(n) => m = n
  /\ NextNr(DL_MAX_FRAME_NUM) = 0 /\ 0 \in Numbers /\ DL_MAX_FRAME_NUM \in Numbers
  BY DEF NextNr, Numbers, DL_MAX_FRAME_NUM

\* The constants, and the numbers that stand for commands.
LEMMA Constants ==
  /\ DL_TRANS_REPEAT \in Nat /\ MaxCommands \in Nat /\ MaxFaults \in Nat
  /\ 0 .. MaxCommands \subseteq 0 .. Unknown /\ Unknown \in 0 .. Unknown /\ 0 \in 0 .. Unknown
  /\ Commands \subseteq 0 .. MaxCommands
  BY LinkAssumption DEF Unknown, Commands

\* Frames that the two sides build are frames.
LEMMA FramesAreFrames ==
  /\ \A n, a \in Numbers, c \in 0 .. Unknown : Data(n, a, c) \in Frames
  /\ \A k \in {"ack", "nack", "resync", "garbage", "none"}, a \in Numbers : Control(k, a) \in Frames
  /\ NoFrame \in Frames /\ Garbage \in Frames
  <1>1. 0 \in Numbers /\ 0 \in 0 .. Unknown
    BY NextNumbers, Constants
  <1>2. \A n, a \in Numbers, c \in 0 .. Unknown : Data(n, a, c) \in Frames
    BY DEF Data, Frames
  <1>3. \A k \in {"ack", "nack", "resync", "garbage", "none"}, a \in Numbers : Control(k, a) \in Frames
    BY <1>1 DEF Control, Frames
  <1> QED
    BY <1>1, <1>2, <1>3 DEF NoFrame, Garbage

\* The host's part of every branch keeps to the types: a data frame is built, ...
LEMMA DataTyped ==
  ASSUME Types, NEW c \in 0 .. Unknown, NEW resend, SendData(c, resend)
  PROVE  tx_seq_nr' \in Numbers /\ tx' \in Frames /\ state' = "TX" /\ resynced' = FALSE
  <1>1. tx_seq_nr \in Numbers /\ rx_seq_nr \in Numbers /\ NextNr(tx_seq_nr) \in Numbers
    BY NextNumbers DEF Types, HandlerTypes
  <1> QED
    BY <1>1, FramesAreFrames DEF SendData

\* ... or an acknowledgement or NACK, ...
LEMMA ControlTyped ==
  ASSUME Types, NEW k \in {"ack", "nack"}, NEW a \in Numbers, NEW s \in Writing,
         SendControl(k, a, s), Rest
  PROVE  HandlerTypes' /\ HandlerFlags' /\ state' = s
  <1>1. HandlerTypes'
    BY FramesAreFrames DEF SendControl, Rest, Types, HandlerTypes
  <1>2. HandlerFlags'
    BY DEF SendControl, Rest, Types, HandlerFlags
  <1> QED
    BY <1>1, <1>2 DEF SendControl

\* ... the numbers are set back, ...
LEMMA ResyncTyped ==
  ASSUME Types, NEW s \in Writing, ifx_i2c_dl_resync(s), retransmit_counter' \in {retransmit_counter, 0}
  PROVE  HandlerTypes' /\ HandlerFlags' /\ state' = s
  <1>1. 0 \in 0 .. DL_TRANS_REPEAT /\ 0 \in Numbers /\ DL_MAX_FRAME_NUM \in Numbers
    BY Constants, NextNumbers
  <1>2. HandlerTypes'
    BY <1>1, FramesAreFrames DEF ifx_i2c_dl_resync, Types, HandlerTypes
  <1>3. HandlerFlags'
    BY DEF ifx_i2c_dl_resync, Types, HandlerFlags
  <1> QED
    BY <1>2, <1>3 DEF ifx_i2c_dl_resync

\* ... an error is reported or about to be, ...
LEMMA FailTyped ==
  ASSUME Types, Fail
  PROVE  HandlerTypes' /\ HandlerFlags'
  <1>1. CASE ifx_i2c_dl_resync("ERROR")
    BY <1>1, ResyncTyped DEF Fail, Writing
  <1>2. CASE /\ Goto("IDLE") /\ asked' = FALSE
             /\ apart' = IF state = "ERROR" THEN apart ELSE "host"
             /\ UNCHANGED <<rx_seq_nr, renumbered, mangled, retransmit_counter>>
    <2>1. HandlerTypes'
      BY <1>2 DEF Goto, Types, HandlerTypes
    <2>2. HandlerFlags'
      BY <1>2 DEF Goto, Types, HandlerFlags
    <2> QED
      BY <2>1, <2>2
  <1> QED
    BY <1>1, <1>2 DEF Fail

\* ... or the frame is sent again.
LEMMA ResendTyped ==
  ASSUME Types, NEW late, ifx_i2c_dl_resend_frame(late)
  PROVE  HandlerTypes' /\ HandlerFlags'
  <1>1. CASE Fail
    BY <1>1, FailTyped
  <1>2. CASE retransmit_counter' = 0 /\ ifx_i2c_dl_resync("RESEND")
    BY <1>2, ResyncTyped DEF Writing
  <1>3. CASE /\ retransmit_counter # DL_TRANS_REPEAT
             /\ retransmit_counter' = retransmit_counter + 1
             /\ SendAgain(TRUE)
    <2>1. retransmit_counter' \in 0 .. DL_TRANS_REPEAT
      BY <1>3, Constants DEF Types, HandlerTypes
    <2>2. (IF spoilt THEN Unknown ELSE cmd) \in 0 .. Unknown
      BY Constants DEF Types, OtherTypes
    <2>3. state' = "TX" /\ tx_seq_nr' \in Numbers /\ tx' \in Frames /\ resynced' = FALSE
      BY <1>3, <2>2, DataTyped DEF SendAgain
    <2>4. HandlerTypes'
      BY <1>3, <2>1, <2>3 DEF SendAgain, Types, HandlerTypes, Writing
    <2>5. HandlerFlags'
      BY <1>3, <2>3, Zenon DEF SendAgain, Types, HandlerFlags
    <2> QED
      BY <2>4, <2>5
  <1> QED
    BY <1>1, <1>2, <1>3 DEF ifx_i2c_dl_resend_frame

\* The chip's frames and what it does to them.
LEMMA OfferTyped ==
  ASSUME Types
  PROVE  Offer \in Frames /\ \A a \in Numbers : Unacked(a) \in 0 .. Unknown
  <1>1. chip \in Chips /\ 0 \in 0 .. Unknown
    BY Constants DEF Types, ChipTypes
  <1> QED
    BY <1>1, FramesAreFrames DEF Offer, Unacked, Chips

\* The transport layer and the time keep to the types.
LEMMA UserTyped ==
  ASSUME Types, ifx_i2c_dl_send_frame \/ ifx_i2c_dl_receive_frame \/ TimePasses
  PROVE  Types'
  <1>1. CASE ifx_i2c_dl_send_frame
    <2>1. cmd' \in 0 .. MaxCommands /\ cmd' \in 0 .. Unknown /\ 0 \in 0 .. Unknown /\ 0 \in 0 .. DL_TRANS_REPEAT
      BY <1>1, Constants DEF ifx_i2c_dl_send_frame, Types, OtherTypes
    <2>2. \A c \in 0 .. Unknown : SendData(c, FALSE) =>
            tx_seq_nr' \in Numbers /\ tx' \in Frames /\ state' = "TX" /\ resynced' = FALSE
      BY DataTyped
    <2>3. tx_seq_nr' \in Numbers /\ tx' \in Frames /\ state' = "TX" /\ resynced' = FALSE
      BY <1>1, <2>1, <2>2 DEF ifx_i2c_dl_send_frame
    <2>4. HandlerTypes' /\ ChipTypes'
      BY <1>1, <2>1, <2>3 DEF ifx_i2c_dl_send_frame, Types, HandlerTypes, ChipTypes, Writing
    <2>5. HandlerFlags' /\ OtherFlags'
      BY <1>1, <2>3 DEF ifx_i2c_dl_send_frame, Types, HandlerFlags, OtherFlags
    <2>6. OtherTypes'
      BY <1>1, <2>1 DEF ifx_i2c_dl_send_frame, Types, OtherTypes
    <2> QED
      BY <2>4, <2>5, <2>6 DEF Types
  <1>2. CASE ifx_i2c_dl_receive_frame
    <2>1. HandlerTypes' /\ ChipTypes' /\ OtherTypes'
      BY <1>2, Constants DEF ifx_i2c_dl_receive_frame, Goto, userVars, history, Types, HandlerTypes, ChipTypes, OtherTypes
    <2>2. HandlerFlags' /\ OtherFlags'
      BY <1>2 DEF ifx_i2c_dl_receive_frame, Goto, userVars, history, Types, HandlerFlags, OtherFlags
    <2> QED
      BY <2>1, <2>2 DEF Types
  <1>3. CASE TimePasses
    <2>1. HandlerTypes' /\ ChipTypes' /\ OtherTypes'
      BY <1>3 DEF TimePasses, hostVars, history, Types, HandlerTypes, ChipTypes, OtherTypes
    <2>2. HandlerFlags' /\ OtherFlags'
      BY <1>3 DEF TimePasses, hostVars, history, Types, HandlerFlags, OtherFlags
    <2> QED
      BY <2>1, <2>2 DEF Types
  <1> QED
    BY <1>1, <1>2, <1>3

\* A frame has been written.
LEMMA WrittenTyped == Types /\ Written => Types'
  <1> SUFFICES ASSUME Types, Written PROVE Types'
    OBVIOUS
  <1>1. chip' \in Chips /\ faults' \in 0 .. MaxFaults
    BY FramesAreFrames, Constants DEF Written, ToChip, Fault, Types, ChipTypes, Chips, HandlerTypes, OtherTypes
  <1>2. ASSUME state \in {"TX", "DISCARD"} /\ Goto("RX") /\ Rest /\ UNCHANGED answered
        PROVE  HandlerTypes' /\ HandlerFlags' /\ answered' \in 0 .. Unknown
    <2>1. HandlerTypes' /\ answered' \in 0 .. Unknown
      BY <1>2 DEF Goto, Rest, Types, HandlerTypes, OtherTypes
    <2>2. HandlerFlags'
      BY <1>2 DEF Goto, Rest, Types, HandlerFlags
    <2> QED
      BY <2>1, <2>2
  <1>3. ASSUME /\ state = "ACK" /\ Goto("IDLE")
               /\ answered' = rx_buffer /\ asked' = FALSE
               /\ UNCHANGED <<rx_seq_nr, retransmit_counter, apart, renumbered, mangled>>
        PROVE  HandlerTypes' /\ HandlerFlags' /\ answered' \in 0 .. Unknown
    <2>1. HandlerTypes' /\ answered' \in 0 .. Unknown
      BY <1>3 DEF Goto, Types, HandlerTypes, OtherTypes
    <2>2. HandlerFlags'
      BY <1>3 DEF Goto, Types, HandlerFlags
    <2> QED
      BY <2>1, <2>2
  <1>4. ASSUME (ifx_i2c_dl_resend_frame(expired) \/ Fail) /\ UNCHANGED answered
        PROVE  HandlerTypes' /\ HandlerFlags' /\ answered' \in 0 .. Unknown
    BY <1>4, ResendTyped, FailTyped DEF Types, OtherTypes
  <1>5. HandlerTypes' /\ HandlerFlags' /\ answered' \in 0 .. Unknown
    BY <1>2, <1>3, <1>4 DEF Written
  <1>6. OtherTypes'
    BY <1>1, <1>5 DEF Written, Types, OtherTypes
  <1>7. OtherFlags'
    BY DEF Written, Types, OtherFlags
  <1> QED
    BY <1>1, <1>5, <1>6, <1>7 DEF Written, Types, ChipTypes

\* A frame has been read.
LEMMA ReadTyped == Types /\ Read => Types'
  <1> SUFFICES ASSUME Types, Read PROVE Types'
    OBVIOUS
  <1> DEFINE f == chip.out
  <1>1. chip \in Chips /\ f \in Frames /\ chip' \in Chips
    BY FramesAreFrames DEF Read, ChipRead, Types, ChipTypes, Chips
  <1>2. f.nr \in Numbers /\ f.ack \in Numbers /\ f.cmd \in 0 .. Unknown
    BY <1>1 DEF Frames
  <1>3. ASSUME Goto("RX"), Rest
        PROVE  HandlerTypes' /\ HandlerFlags'
    <2>1. HandlerTypes'
      BY <1>3 DEF Goto, Rest, Types, HandlerTypes
    <2>2. HandlerFlags'
      BY <1>3 DEF Goto, Rest, Types, HandlerFlags
    <2> QED
      BY <2>1, <2>2
  <1>4. ASSUME ReadData(f)
        PROVE  HandlerTypes' /\ HandlerFlags' /\ rx_buffer' \in 0 .. Unknown
    <2>1. ASSUME SendControl("ack", rx_seq_nr, "DISCARD"), Rest, UNCHANGED rx_buffer
          PROVE  HandlerTypes' /\ HandlerFlags' /\ rx_buffer' \in 0 .. Unknown
      <3>1. rx_seq_nr \in Numbers /\ "DISCARD" \in Writing /\ rx_buffer \in 0 .. Unknown
        BY DEF Types, HandlerTypes, OtherTypes, Writing
      <3> QED
        BY <2>1, <3>1, ControlTyped
    <2>2. ASSUME Goto("RX"), Rest, UNCHANGED rx_buffer
          PROVE  HandlerTypes' /\ HandlerFlags' /\ rx_buffer' \in 0 .. Unknown
      BY <1>3, <2>2 DEF Types, OtherTypes
    <2>3. ASSUME rx_seq_nr' = f.nr, rx_buffer' = f.cmd, retransmit_counter' = 0,
                 SendControl("ack", f.nr, "ACK"), UNCHANGED <<asked, apart, renumbered, mangled>>
          PROVE  HandlerTypes' /\ HandlerFlags' /\ rx_buffer' \in 0 .. Unknown
      <3>1. HandlerTypes'
        BY <2>3, <1>2, Constants, FramesAreFrames DEF SendControl, Types, HandlerTypes, Writing
      <3>2. HandlerFlags'
        BY <2>3 DEF SendControl, Types, HandlerFlags
      <3> QED
        BY <2>3, <1>2, <3>1, <3>2
    <2> QED
      BY <1>4, <2>1, <2>2, <2>3 DEF ReadData
  <1>5. ASSUME ReadControl(f)
        PROVE  HandlerTypes' /\ HandlerFlags'
    <2>1. ASSUME tx_seq_nr' = DL_MAX_FRAME_NUM, rx_seq_nr' = DL_MAX_FRAME_NUM, resynced' = TRUE,
                 apart' = (IF apart = "chip" /\ chip.in = NoFrame THEN "nobody" ELSE apart),
                 renumbered' = TRUE,
                 UNCHANGED <<state, tx, spoilt, retransmit_counter, asked, mangled>>
          PROVE  HandlerTypes' /\ HandlerFlags'
      <3>1. HandlerTypes'
        BY <2>1, NextNumbers DEF Types, HandlerTypes
      <3>2. HandlerFlags'
        BY <2>1 DEF Types, HandlerFlags
      <3> QED
        BY <3>1, <3>2
    <2>2. ASSUME Goto("IDLE"), Rest
          PROVE  HandlerTypes' /\ HandlerFlags'
      <3>1. HandlerTypes'
        BY <2>2 DEF Goto, Rest, Types, HandlerTypes
      <3>2. HandlerFlags'
        BY <2>2 DEF Goto, Rest, Types, HandlerFlags
      <3> QED
        BY <3>1, <3>2
    <2> QED
      BY <1>3, <1>5, <2>1, <2>2, ResendTyped DEF ReadControl
  <1>6. HandlerTypes' /\ HandlerFlags' /\ rx_buffer' \in 0 .. Unknown
    BY <1>4, <1>5 DEF Read, Types, OtherTypes
  <1>7. OtherTypes'
    BY <1>6 DEF Read, userVars, Types, OtherTypes
  <1>8. OtherFlags'
    BY DEF Read, userVars, Types, OtherFlags
  <1> QED
    BY <1>1, <1>6, <1>7, <1>8 DEF Read, Types, ChipTypes

\* Nothing, or nothing intelligible, has been read, or the bus has failed.
LEMMA FaultsTyped == Types /\ (ReadGarbage \/ NothingToRead \/ BusFails) => Types'
  <1> SUFFICES ASSUME Types, ReadGarbage \/ NothingToRead \/ BusFails PROVE Types'
    OBVIOUS
  <1>1. chip' \in Chips /\ runs' = runs
    BY FramesAreFrames DEF ReadGarbage, NothingToRead, BusFails, ChipRead, Types, ChipTypes, Chips
  <1>2. NextNr(rx_seq_nr) \in Numbers /\ "TX" \in Writing /\ faults' \in 0 .. MaxFaults
    BY NextNumbers, Constants DEF ReadGarbage, NothingToRead, BusFails, Fault, Types, HandlerTypes, OtherTypes, Writing
  <1>3. ASSUME Goto("RX"), Rest
        PROVE  HandlerTypes' /\ HandlerFlags'
    <2>1. HandlerTypes'
      BY <1>3 DEF Goto, Rest, Types, HandlerTypes
    <2>2. HandlerFlags'
      BY <1>3 DEF Goto, Rest, Types, HandlerFlags
    <2> QED
      BY <2>1, <2>2
  <1>4. HandlerTypes' /\ HandlerFlags'
    BY <1>2, <1>3, ControlTyped, ResendTyped, FailTyped DEF ReadGarbage, NothingToRead, BusFails
  <1>5. OtherTypes'
    BY <1>2 DEF ReadGarbage, NothingToRead, BusFails, Types, OtherTypes
  <1>6. OtherFlags'
    BY DEF ReadGarbage, NothingToRead, BusFails, Types, OtherFlags
  <1> QED
    BY <1>1, <1>4, <1>5, <1>6 DEF Types, ChipTypes

\* The chip keeps to the types.
LEMMA ChipTyped == Types /\ (ChipReacts \/ ChipAnswers \/ ChipResyncs) => Types'
  <1> SUFFICES ASSUME Types, ChipReacts \/ ChipAnswers \/ ChipResyncs PROVE Types'
    OBVIOUS
  <1>1. /\ chip \in Chips /\ chip.in \in Frames /\ chip.in.nr \in Numbers /\ chip.in.ack \in Numbers
        /\ chip.in.cmd \in 0 .. Unknown /\ NextNr(chip.tx) \in Numbers /\ NextNr(chip.rx) \in Numbers
        /\ 0 \in 0 .. Unknown /\ DL_MAX_FRAME_NUM \in Numbers /\ 0 \in Numbers
    BY NextNumbers, Constants DEF Types, ChipTypes, Chips, Frames
  <1>2. chip' \in Chips
    <2>0. /\ Control("ack", chip.in.nr) \in Frames /\ Control("ack", chip.rx) \in Frames
          /\ Control("nack", NextNr(chip.rx)) \in Frames /\ NoFrame \in Frames /\ Offer \in Frames
          /\ chip.out \in Frames /\ Unacked(chip.in.ack) \in 0 .. Unknown
      BY <1>1, FramesAreFrames, OfferTyped DEF Chips
    <2>1. CASE ChipGetsCommand
      <3>1. CASE chip' = [chip EXCEPT !.in = NoFrame, !.rx = chip.in.nr, !.todo = chip.in.cmd,
                                      !.unacked = Unacked(chip.in.ack), !.out = Control("ack", chip.in.nr)]
        BY <1>1, <2>0, <3>1 DEF Chips
      <3>2. CASE chip' = [chip EXCEPT !.in = NoFrame, !.unacked = Unacked(chip.in.ack),
                                      !.out = Control("ack", chip.rx)]
        BY <1>1, <2>0, <3>2 DEF Chips
      <3> QED
        BY <2>1, <3>1, <3>2 DEF ChipGetsCommand
    <2>2. CASE ChipGetsControl
      <3>1. CASE chip' = [chip EXCEPT !.in = NoFrame, !.unacked = Unacked(chip.in.ack)]
        BY <1>1, <2>0, <3>1 DEF Chips
      <3>2. ASSUME NEW g \in Frames, chip' = [chip EXCEPT !.in = NoFrame, !.out = g]
            PROVE  chip' \in Chips
        BY <1>1, <2>0, <3>2 DEF Chips
      <3> QED
        BY <2>0, <2>2, <3>1, <3>2 DEF ChipGetsControl
    <2>3. CASE ChipGetsResync
      BY <1>1, <2>3, FramesAreFrames DEF ChipGetsResync, Chips
    <2>4. CASE ChipAnswers
      BY <1>1, <2>4, FramesAreFrames DEF ChipAnswers, Chips
    <2>5. CASE ChipResyncs
      BY <1>1, <2>5, FramesAreFrames DEF ChipResyncs, Chips
    <2> QED
      BY <2>1, <2>2, <2>3, <2>4, <2>5 DEF ChipReacts
  <1>3. runs' \in [Commands -> 0 .. 2]
    <2>1. CASE ChipGetsCommand
      BY <2>1 DEF ChipGetsCommand, Types, ChipTypes
    <2>2. CASE ~ChipGetsCommand
      BY <2>2 DEF ChipReacts, ChipGetsControl, ChipGetsResync, ChipAnswers, ChipResyncs, history, Types, ChipTypes
    <2> QED
      BY <2>1, <2>2
  <1>4. UNCHANGED hostVars /\ UNCHANGED userVars /\ UNCHANGED <<renumbered, mangled>>
    BY DEF ChipReacts, ChipGetsCommand, ChipGetsControl, ChipGetsResync, ChipAnswers, ChipResyncs, history
  <1>5. apart' \in {"nobody", "host", "chip", "both"} /\ leftover' \in BOOLEAN
    BY DEF ChipReacts, ChipGetsCommand, ChipGetsControl, ChipGetsResync, ChipAnswers, ChipResyncs, history,
           Types, HandlerTypes, OtherFlags
  <1>6. faults' \in 0 .. MaxFaults
    BY Constants DEF ChipReacts, ChipGetsCommand, ChipGetsControl, ChipGetsResync, ChipAnswers, ChipResyncs, Fault,
           Types, OtherTypes
  <1>7. HandlerTypes' /\ OtherTypes'
    BY <1>4, <1>5, <1>6 DEF hostVars, userVars, Types, HandlerTypes, OtherTypes
  <1>8. HandlerFlags' /\ OtherFlags'
    BY <1>4, <1>5 DEF hostVars, userVars, Types, HandlerFlags, OtherFlags
  <1> QED
    BY <1>2, <1>3, <1>7, <1>8 DEF Types, ChipTypes

\* Types is inductive, ...
LEMMA TypesInductive ==
  /\ Init => Types
  /\ Types /\ [Next]_vars => Types'
  <1>1. ASSUME Init PROVE Types
    <2>1. HandlerTypes /\ OtherTypes
      BY <1>1, Constants, FramesAreFrames, NextNumbers DEF Init, HandlerTypes, OtherTypes
    <2>2. HandlerFlags /\ OtherFlags
      BY <1>1 DEF Init, HandlerFlags, OtherFlags
    <2>3. ChipTypes
      BY <1>1, Constants, FramesAreFrames, NextNumbers DEF Init, ChipTypes, Chips
    <2> QED
      BY <2>1, <2>2, <2>3 DEF Types
  <1>2. ASSUME Types, UNCHANGED vars PROVE Types'
    <2>1. HandlerTypes' /\ OtherTypes'
      BY <1>2 DEF vars, hostVars, userVars, history, Types, HandlerTypes, OtherTypes
    <2>2. HandlerFlags' /\ OtherFlags'
      BY <1>2 DEF vars, hostVars, userVars, history, Types, HandlerFlags, OtherFlags
    <2>3. ChipTypes'
      BY <1>2 DEF vars, hostVars, userVars, history, Types, ChipTypes
    <2> QED
      BY <2>1, <2>2, <2>3 DEF Types
  <1> QED
    BY <1>1, <1>2, UserTyped, WrittenTyped, ReadTyped, FaultsTyped, ChipTyped
       DEF Next, ifx_i2c_pl_event_handler

\* ... and is what the model calls TypeOK.
LEMMA TypesAreTypeOK == Types => TypeOK
  <1> SUFFICES ASSUME Types PROVE TypeOK
    OBVIOUS
  <1>1. /\ chip.tx \in Numbers /\ chip.rx \in Numbers /\ chip.in \in Frames /\ chip.out \in Frames
        /\ chip.todo \in 0 .. Unknown /\ chip.unacked \in 0 .. Unknown /\ runs \in [Commands -> 0 .. 2]
    BY DEF Types, ChipTypes, Chips
  <1>2. {resynced, action_rx_only, expired, asked, spoilt} \subseteq BOOLEAN
    BY DEF Types, HandlerFlags, OtherFlags
  <1>3. {renumbered, mangled, leftover} \subseteq BOOLEAN
    BY DEF Types, HandlerFlags, OtherFlags
  <1>4. {tx_seq_nr, rx_seq_nr, chip.tx, chip.rx} \subseteq Numbers /\ {tx, chip.in, chip.out} \subseteq Frames
    BY <1>1 DEF Types, HandlerTypes
  <1>5. {rx_buffer, answered, chip.todo, chip.unacked} \subseteq 0 .. Unknown
    BY <1>1 DEF Types, OtherTypes
  <1> QED
    BY <1>1, <1>2, <1>3, <1>4, <1>5 DEF Types, HandlerTypes, OtherTypes, TypeOK

-----------------------------------------------------------------------------
(* The numbers of the two sides *)

\* The chip has got the host's last command, or waits for it.
InStep == chip.rx = tx_seq_nr
Ahead  == NextNr(chip.rx) = tx_seq_nr

\* What the chip offers carries its numbers.
ChipSays ==
  /\ chip.out.kind # "garbage"
  /\ chip.out.kind \in {"ack", "data"} => chip.out.ack = chip.rx
  /\ chip.out.kind = "data" => chip.out.nr = chip.tx
  /\ chip.out.kind = "resync" =>
       /\ chip.rx = DL_MAX_FRAME_NUM /\ chip.tx = DL_MAX_FRAME_NUM /\ chip.unacked = 0
       /\ apart # "nobody"

\* What the host is about to write belongs to its state and its numbers.
HostSays ==
  /\ state # "IDLE" => asked
  /\ asked => cmd # 0 /\ answered = 0
  /\ state \in {"ERROR", "RESEND"} => resynced /\ tx.kind = "resync"
  /\ state \in {"DISCARD", "ACK"} => tx.kind = "ack" /\ tx.ack = rx_seq_nr
  /\ state = "TX" => tx.kind \in {"data", "nack"}
  /\ state = "TX" /\ tx.kind = "data" =>
       /\ ~resynced
       /\ tx.nr = tx_seq_nr /\ tx.ack = rx_seq_nr
       /\ tx.cmd = cmd \/ mangled

\* resynced is the truth: the numbers have been set back and not used since.
SetBack ==
  /\ resynced => tx_seq_nr = DL_MAX_FRAME_NUM /\ renumbered
  /\ resynced /\ asked /\ state # "ACK" => rx_seq_nr = DL_MAX_FRAME_NUM
  /\ resynced /\ asked => action_rx_only \/ state \in {"ERROR", "RESEND"}
  /\ state = "IDLE" /\ asked => ~resynced

\* Nothing is known to the chip of a command that has not been sent.
RunsSoFar ==
  /\ \A c \in Commands : c > cmd => runs[c] = 0
  /\ tx.cmd \in Commands => tx.cmd <= cmd
  /\ chip.in.cmd \in Commands => chip.in.cmd <= cmd

\* A resync on its way to the chip finds a host that has not gone on, or has
\* sent no more than the first frame after it.
Fresh ==
  chip.in.kind = "resync" =>
    /\ answered = 0 /\ rx_seq_nr = DL_MAX_FRAME_NUM
    /\ \/ /\ state = "TX" /\ tx.kind = "data" /\ tx_seq_nr = 0
          /\ renumbered \/ runs[cmd] = 0
       \/ /\ resynced
          /\ state \in {"ERROR", "RESEND"} \/ (state = "IDLE" /\ ~asked)

\* When nobody has started afresh alone, the host is at most one frame ahead, a
\* data frame on its way is the one the chip has got or the one it waits for,
\* and an acknowledgement on its way is of the last frame the host accepted.
Agree ==
  apart = "nobody" =>
    /\ InStep \/ Ahead
    /\ resynced \/ state \in {"IDLE", "ACK"} => InStep
    /\ chip.in.kind = "data" =>
         \/ chip.in.nr = chip.rx
         \/ chip.in.nr = tx_seq_nr /\ (chip.in.cmd = cmd \/ mangled)
    /\ chip.in.kind \in {"data", "ack"} /\ state # "ACK" => chip.in.ack = rx_seq_nr
    /\ cmd # 0 /\ ~renumbered => runs[cmd] <= (IF InStep THEN 1 ELSE 0)

Numbering == ChipSays /\ HostSays /\ SetBack /\ RunsSoFar /\ Fresh /\ Agree

\* What a step of the handler leaves of the chip and of the user's data: a frame
\* has been written, read or neither.
Wire ==
  /\ chip'.rx = chip.rx /\ chip'.tx = chip.tx /\ chip'.todo = chip.todo /\ chip'.unacked = chip.unacked
  /\ chip'.out \in {chip.out, NoFrame}
  /\ \/ chip'.in = chip.in
     \/ /\ chip.in = NoFrame /\ state \in Writing /\ chip'.in \in {tx, Garbage}
  /\ UNCHANGED <<cmd, runs, action_rx_only, leftover>>

LEMMA HandlerWires == Types /\ ifx_i2c_pl_event_handler => Wire
  BY DEF ifx_i2c_pl_event_handler, Written, ToChip, Read, ReadGarbage, NothingToRead, BusFails,
         ChipRead, userVars, Wire, Types, ChipTypes, Chips

\* The kinds and contents of the frames that are built.
LEMMA FrameFields ==
  /\ \A n, a, c : /\ Data(n, a, c).kind = "data" /\ Data(n, a, c).nr = n
                  /\ Data(n, a, c).ack = a /\ Data(n, a, c).cmd = c
  /\ \A k, a : Control(k, a).kind = k /\ Control(k, a).ack = a /\ Control(k, a).cmd = 0
  /\ NoFrame.kind = "none" /\ NoFrame.cmd = 0 /\ Garbage.kind = "garbage" /\ Garbage.cmd = 0
  BY DEF Data, Control, NoFrame, Garbage

\* The numbers and commands are numbers.
LEMMA Numbered ==
  ASSUME Types
  PROVE  /\ tx_seq_nr \in Numbers /\ rx_seq_nr \in Numbers /\ chip.rx \in Numbers /\ chip.tx \in Numbers
         /\ cmd \in Nat /\ MaxCommands \in Nat /\ Unknown = MaxCommands + 1
         /\ Commands \subseteq Nat /\ 0 \notin Commands /\ Unknown \notin Commands
         /\ cmd \in Commands \/ cmd = 0
         /\ \A c \in Commands : runs[c] \in 0 .. 2
  BY Constants DEF Types, HandlerTypes, OtherTypes, ChipTypes, Chips, Unknown, Commands

\* The error branch: a resync is built, or the error is reported.
LEMMA FailKeeps ==
  ASSUME Types, Numbering, Wire, Fail, UNCHANGED answered, state # "IDLE",
         chip'.in # chip.in => state = "ERROR" \/ state = "RESEND"
  PROVE  Numbering'
  <1> USE NextNumbers, FrameFields, Numbered
  <1>1. CASE ~resynced /\ ifx_i2c_dl_resync("ERROR")
    <2>1. /\ tx_seq_nr' = DL_MAX_FRAME_NUM /\ rx_seq_nr' = DL_MAX_FRAME_NUM /\ resynced' /\ renumbered'
          /\ tx'.kind = "resync" /\ tx'.cmd = 0 /\ state' = "ERROR" /\ apart' = "host" /\ asked' = asked
          /\ mangled' = mangled
      BY <1>1 DEF ifx_i2c_dl_resync
    <2>2. chip'.in = chip.in
      BY <1>1 DEF Numbering, HostSays
    <2>3. ChipSays'
      BY <2>1, <2>2 DEF Numbering, ChipSays, Wire
    <2>4. HostSays' /\ SetBack'
      BY <2>1 DEF Numbering, HostSays, SetBack, Wire
    <2>5. RunsSoFar'
      BY <2>1, <2>2 DEF Numbering, RunsSoFar, Wire
    <2>6. Fresh'
      BY <2>1, <2>2 DEF Numbering, Fresh, Wire
    <2>7. Agree'
      BY <2>1 DEF Agree
    <2> QED
      BY <2>3, <2>4, <2>5, <2>6, <2>7 DEF Numbering
  <1>2. CASE resynced
    <2>1. /\ state' = "IDLE" /\ ~asked' /\ apart' = (IF state = "ERROR" THEN apart ELSE "host")
          /\ UNCHANGED <<tx_seq_nr, rx_seq_nr, resynced, tx, renumbered, mangled>>
      BY <1>2 DEF Fail, Goto
    <2>2. chip'.in.kind = "resync" => chip.in.kind = "resync" \/ state \in {"ERROR", "RESEND"}
      BY DEF Wire
    <2>3. ChipSays'
      BY <2>1 DEF Numbering, ChipSays, Wire
    <2>4. HostSays'
      BY <1>2, <2>1 DEF Numbering, HostSays, SetBack, Wire
    <2>5. SetBack'
      BY <1>2, <2>1 DEF Numbering, HostSays, SetBack, Wire
    <2>6. RunsSoFar'
      BY <2>1 DEF Numbering, RunsSoFar, Wire
    <2>7. Fresh'
      BY <1>2, <2>1, <2>2 DEF Numbering, HostSays, SetBack, Fresh, Wire
    <2>8. Agree'
      BY <1>2, <2>1 DEF Numbering, HostSays, SetBack, Agree, InStep, Ahead, Wire
    <2> QED
      BY <2>3, <2>4, <2>5, <2>6, <2>7, <2>8 DEF Numbering
  <1> QED
    BY <1>1, <1>2 DEF Fail

\* The data frame once more, under its number or after a resync.
LEMMA ResendKeeps ==
  ASSUME Types, Numbering, Wire, NEW late, ifx_i2c_dl_resend_frame(late), UNCHANGED answered,
         state \in {"RX", "RESEND"},
         chip'.in # chip.in => state = "RESEND"
  PROVE  Numbering'
  <1> USE NextNumbers, FrameFields, Numbered
  <1>1. CASE Fail
    BY <1>1, FailKeeps
  <1>2. CASE ifx_i2c_dl_resync("RESEND")
    <2>1. /\ tx_seq_nr' = DL_MAX_FRAME_NUM /\ rx_seq_nr' = DL_MAX_FRAME_NUM /\ resynced' /\ renumbered'
          /\ tx'.kind = "resync" /\ tx'.cmd = 0 /\ state' = "RESEND" /\ apart' = "host" /\ asked' = asked
          /\ mangled' = mangled
      BY <1>2 DEF ifx_i2c_dl_resync
    <2>2. ChipSays'
      BY <2>1 DEF Numbering, ChipSays, Wire
    <2>3. HostSays' /\ SetBack'
      BY <2>1 DEF Numbering, HostSays, SetBack, Wire
    <2>4. RunsSoFar'
      BY <2>1 DEF Numbering, RunsSoFar, Wire
    <2>5. Fresh'
      BY <2>1 DEF Numbering, HostSays, Fresh, Wire
    <2>6. Agree'
      BY <2>1 DEF Agree
    <2> QED
      BY <2>2, <2>3, <2>4, <2>5, <2>6 DEF Numbering
  <1>3. CASE SendAgain(TRUE)
    <2>1. /\ tx_seq_nr' = IF resynced THEN NextNr(tx_seq_nr) ELSE tx_seq_nr
          /\ ~resynced' /\ state' = "TX" /\ mangled' = (mangled \/ spoilt)
          /\ tx'.kind = "data" /\ tx'.nr = tx_seq_nr' /\ tx'.ack = rx_seq_nr
          /\ tx'.cmd = (IF spoilt THEN Unknown ELSE cmd)
          /\ UNCHANGED <<rx_seq_nr, asked, apart, renumbered>>
      BY <1>3 DEF SendAgain, SendData
    <2>2. ChipSays'
      BY <2>1 DEF Numbering, ChipSays, Wire
    <2>3. HostSays' /\ SetBack'
      BY <2>1 DEF Numbering, HostSays, SetBack, Wire
    <2>4. RunsSoFar'
      BY <2>1 DEF Numbering, RunsSoFar, Wire
    <2>5. chip'.in.kind = "resync" => state = "RESEND"
      BY DEF Numbering, Fresh, Wire
    <2>6. Fresh'
      BY <2>1, <2>5 DEF Numbering, HostSays, SetBack, Fresh, Wire
    <2>7. Agree'
      <3> SUFFICES ASSUME apart = "nobody" PROVE Agree'
        BY <2>1 DEF Agree
      <3>1. (InStep \/ Ahead)' /\ (resynced => Ahead')
        BY <2>1 DEF Numbering, SetBack, Agree, InStep, Ahead, Wire
      <3>2. chip'.in.kind = "data" => chip'.in = chip.in
        BY DEF Numbering, HostSays, Wire
      <3>3. chip'.in.kind = "data" =>
              \/ chip'.in.nr = chip'.rx
              \/ chip'.in.nr = tx_seq_nr' /\ (chip'.in.cmd = cmd' \/ mangled')
        BY <2>1, <3>2 DEF Numbering, Agree, InStep, Ahead, Wire
      <3>4. chip'.in.kind \in {"data", "ack"} => chip'.in.ack = rx_seq_nr'
        BY <2>1 DEF Numbering, HostSays, Agree, Wire
      <3>5. cmd' # 0 /\ ~renumbered' => runs'[cmd'] <= (IF InStep' THEN 1 ELSE 0)
        BY <2>1 DEF Numbering, SetBack, Agree, InStep, Wire
      <3> QED
        BY <2>1, <3>1, <3>3, <3>4, <3>5 DEF Agree
    <2> QED
      BY <2>2, <2>3, <2>4, <2>6, <2>7 DEF Numbering
  <1> QED
    BY <1>1, <1>2, <1>3 DEF ifx_i2c_dl_resend_frame

\* Reading on, when the frame says nothing.
LEMMA ReadOnKeeps ==
  ASSUME Types, Numbering, Wire, Goto("RX"), Rest, UNCHANGED answered,
         state \in {"TX", "DISCARD", "RX"},
         chip'.in = chip.in => state = "RX"
  PROVE  Numbering'
  <1> USE NextNumbers, FrameFields, Numbered
  <1>1. /\ state' = "RX"
        /\ UNCHANGED <<tx_seq_nr, rx_seq_nr, resynced, tx, asked, apart, renumbered, mangled>>
    BY DEF Goto, Rest
  <1>2. ChipSays'
    BY <1>1 DEF Numbering, ChipSays, Wire
  <1>3. HostSays' /\ SetBack'
    BY <1>1 DEF Numbering, HostSays, SetBack, Wire
  <1>4. RunsSoFar'
    BY <1>1 DEF Numbering, RunsSoFar, Wire
  <1>5. Fresh'
    <2>1. CASE chip'.in = chip.in
      BY <2>1 DEF Numbering, Fresh
    <2>2. CASE state \in {"TX", "DISCARD"} /\ chip'.in \in {tx, Garbage}
      BY <2>2 DEF Numbering, HostSays, Fresh
    <2> QED
      BY <2>1, <2>2 DEF Wire, Writing
  <1>6. Agree'
    <2>1. CASE chip'.in = chip.in
      BY <1>1, <2>1 DEF Numbering, Agree, InStep, Ahead, Wire
    <2>2. CASE state \in {"TX", "DISCARD"} /\ chip'.in \in {tx, Garbage}
      BY <1>1, <2>2 DEF Numbering, HostSays, Agree, InStep, Ahead, Wire
    <2> QED
      BY <2>1, <2>2 DEF Wire, Writing
  <1> QED
    BY <1>2, <1>3, <1>4, <1>5, <1>6 DEF Numbering

\* A frame has been written.
LEMMA WrittenKeeps == Types /\ Numbering /\ Written => Numbering'
  <1> SUFFICES ASSUME Types, Numbering, Written PROVE Numbering'
    OBVIOUS
  <1> USE NextNumbers, FrameFields, Numbered
  <1>1. Wire
    BY HandlerWires DEF ifx_i2c_pl_event_handler
  <1>2. CASE state \in {"TX", "DISCARD"} /\ Goto("RX") /\ Rest /\ UNCHANGED answered
    <2>1. tx \in Frames /\ tx.kind # "none"
      BY <1>2 DEF Numbering, HostSays, Types, HandlerTypes
    <2>2. chip'.in # chip.in
      BY <2>1 DEF Written, ToChip, Types, ChipTypes, Chips
    <2> QED
      BY <1>1, <1>2, <2>2, ReadOnKeeps
  <1>3. CASE /\ state = "ACK" /\ Goto("IDLE")
             /\ answered' = rx_buffer /\ asked' = FALSE
             /\ UNCHANGED <<rx_seq_nr, retransmit_counter, apart, renumbered, mangled>>
    <2>1. /\ state = "ACK" /\ state' = "IDLE" /\ ~asked'
          /\ UNCHANGED <<tx_seq_nr, resynced, tx, rx_seq_nr, apart, renumbered, mangled>>
      BY <1>3 DEF Goto
    <2>2. chip'.in = tx \/ chip'.in = Garbage
      BY DEF Written, ToChip, Types, ChipTypes, Chips
    <2>3. ChipSays'
      BY <1>1, <2>1 DEF Numbering, ChipSays, Wire
    <2>4. HostSays' /\ SetBack'
      BY <1>1, <2>1 DEF Numbering, HostSays, SetBack, Wire
    <2>5. RunsSoFar'
      BY <1>1, <2>1 DEF Numbering, RunsSoFar, Wire
    <2>6. Fresh'
      BY <1>1, <2>1, <2>2 DEF Numbering, HostSays, Fresh
    <2>7. Agree'
      BY <1>1, <2>1, <2>2 DEF Numbering, HostSays, Agree, InStep, Ahead, Wire
    <2> QED
      BY <2>3, <2>4, <2>5, <2>6, <2>7 DEF Numbering
  <1>4. CASE state = "RESEND" /\ ifx_i2c_dl_resend_frame(expired) /\ UNCHANGED answered
    BY <1>1, <1>4, ResendKeeps
  <1>5. CASE state = "ERROR" /\ Fail /\ UNCHANGED answered
    BY <1>1, <1>5, FailKeeps
  <1> QED
    BY <1>2, <1>3, <1>4, <1>5 DEF Written

\* A frame has been read.
LEMMA ReadKeeps == Types /\ Numbering /\ Read => Numbering'
  <1> SUFFICES ASSUME Types, Numbering, Read PROVE Numbering'
    OBVIOUS
  <1> USE NextNumbers, FrameFields, Numbered
  <1>1. Wire
    BY HandlerWires DEF ifx_i2c_pl_event_handler
  <1>2. /\ state = "RX" /\ chip'.in = chip.in /\ chip'.out = NoFrame /\ UNCHANGED answered
    BY DEF Read, ChipRead, userVars, Types, ChipTypes, Chips
  <1>3. chip.in.kind # "resync"
    BY <1>2 DEF Numbering, Fresh
  <1>4. CASE Goto("RX") /\ Rest
    BY <1>1, <1>2, <1>4, ReadOnKeeps
  <1>5. CASE SendControl("ack", rx_seq_nr, "DISCARD") /\ Rest
    <2>1. /\ state' = "DISCARD" /\ tx'.kind = "ack" /\ tx'.ack = rx_seq_nr /\ tx'.cmd = 0
          /\ UNCHANGED <<tx_seq_nr, rx_seq_nr, resynced, asked, apart, renumbered, mangled>>
      BY <1>5 DEF SendControl, Rest
    <2>2. ChipSays' /\ RunsSoFar'
      BY <1>1, <1>2, <2>1 DEF Numbering, ChipSays, RunsSoFar, Wire
    <2>3. HostSays' /\ SetBack'
      BY <1>1, <1>2, <2>1 DEF Numbering, HostSays, SetBack, Wire
    <2>4. Fresh'
      BY <1>2, <1>3 DEF Fresh
    <2>5. Agree'
      BY <1>1, <1>2, <2>1 DEF Numbering, Agree, InStep, Ahead, Wire
    <2> QED
      BY <2>2, <2>3, <2>4, <2>5 DEF Numbering
  <1>6. CASE /\ chip.out.kind = "data" /\ chip.out.ack = tx_seq_nr /\ rx_seq_nr' = chip.out.nr
             /\ SendControl("ack", chip.out.nr, "ACK") /\ UNCHANGED <<asked, apart, renumbered, mangled>>
    <2>1. /\ state' = "ACK" /\ tx'.kind = "ack" /\ tx'.ack = rx_seq_nr' /\ tx'.cmd = 0
          /\ UNCHANGED <<tx_seq_nr, resynced, asked, apart, renumbered, mangled>>
      BY <1>6 DEF SendControl
    <2>2. InStep
      BY <1>6 DEF Numbering, ChipSays, InStep
    <2>3. ChipSays' /\ RunsSoFar'
      BY <1>1, <1>2, <2>1 DEF Numbering, ChipSays, RunsSoFar, Wire
    <2>4. HostSays' /\ SetBack'
      BY <1>1, <1>2, <2>1 DEF Numbering, HostSays, SetBack, Wire
    <2>5. Fresh'
      BY <1>2, <1>3 DEF Fresh
    <2>6. Agree'
      BY <1>1, <1>2, <2>1, <2>2 DEF Numbering, Agree, InStep, Ahead, Wire
    <2> QED
      BY <2>3, <2>4, <2>5, <2>6 DEF Numbering
  <1>7. CASE /\ ~Discarded(chip.out) /\ chip.out.kind = "resync"
             /\ tx_seq_nr' = DL_MAX_FRAME_NUM /\ rx_seq_nr' = DL_MAX_FRAME_NUM /\ resynced' = TRUE
             /\ apart' = (IF apart = "chip" /\ chip.in = NoFrame THEN "nobody" ELSE apart)
             /\ renumbered' = TRUE
             /\ UNCHANGED <<state, tx, spoilt, retransmit_counter, asked, mangled>>
    <2>1. action_rx_only /\ chip.rx = DL_MAX_FRAME_NUM /\ apart # "nobody"
      BY <1>7 DEF Discarded, Numbering, ChipSays
    <2>2. ChipSays' /\ RunsSoFar'
      BY <1>1, <1>2, <1>7 DEF Numbering, ChipSays, RunsSoFar, Wire
    <2>3. HostSays' /\ SetBack'
      BY <1>1, <1>2, <1>7, <2>1 DEF Numbering, HostSays, SetBack, Wire
    <2>4. Fresh'
      BY <1>2, <1>3 DEF Fresh
    <2>5. Agree'
      BY <1>1, <1>2, <1>7, <2>1 DEF Agree, InStep, Ahead, Wire
    <2> QED
      BY <2>2, <2>3, <2>4, <2>5 DEF Numbering
  <1>8. CASE ifx_i2c_dl_resend_frame(expired)
    BY <1>1, <1>2, <1>8, ResendKeeps
  <1>9. CASE ~Discarded(chip.out) /\ chip.out.kind = "ack" /\ Goto("IDLE") /\ Rest
    <2>1. ~action_rx_only /\ InStep
      BY <1>9 DEF Discarded, Numbering, ChipSays, InStep
    <2>2. /\ state' = "IDLE" /\ UNCHANGED <<tx_seq_nr, rx_seq_nr, resynced, tx, asked, apart, renumbered, mangled>>
      BY <1>9 DEF Goto, Rest
    <2>3. ChipSays' /\ RunsSoFar'
      BY <1>1, <1>2, <2>2 DEF Numbering, ChipSays, RunsSoFar, Wire
    <2>4. HostSays' /\ SetBack'
      BY <1>1, <1>2, <2>1, <2>2 DEF Numbering, HostSays, SetBack, Wire
    <2>5. Fresh'
      BY <1>2, <1>3 DEF Fresh
    <2>6. Agree'
      BY <1>1, <1>2, <2>1, <2>2 DEF Numbering, Agree, InStep, Ahead, Wire
    <2> QED
      BY <2>3, <2>4, <2>5, <2>6 DEF Numbering
  <1> QED
    BY <1>4, <1>5, <1>6, <1>7, <1>8, <1>9 DEF Read, ReadData, ReadControl

\* Nothing, or nothing intelligible, has been read, or the bus has failed.
LEMMA FaultsKeep == Types /\ Numbering /\ (ReadGarbage \/ NothingToRead \/ BusFails) => Numbering'
  <1> SUFFICES ASSUME Types, Numbering, ReadGarbage \/ NothingToRead \/ BusFails PROVE Numbering'
    OBVIOUS
  <1> USE NextNumbers, FrameFields, Numbered
  <1>1. Wire
    BY HandlerWires DEF ifx_i2c_pl_event_handler
  <1>2. chip'.in = chip.in /\ UNCHANGED answered
    BY DEF ReadGarbage, NothingToRead, BusFails, ChipRead, Types, ChipTypes, Chips
  <1>3. CASE state = "RX" /\ SendControl("nack", NextNr(rx_seq_nr), "TX") /\ Rest
    <2>1. /\ state = "RX" /\ state' = "TX" /\ tx'.kind = "nack" /\ tx'.cmd = 0
          /\ UNCHANGED <<tx_seq_nr, rx_seq_nr, resynced, asked, apart, renumbered, mangled>>
      BY <1>3 DEF SendControl, Rest
    <2>2. ChipSays' /\ RunsSoFar'
      BY <1>1, <1>2, <2>1 DEF Numbering, ChipSays, RunsSoFar, Wire
    <2>3. HostSays' /\ SetBack'
      BY <1>1, <1>2, <2>1 DEF Numbering, HostSays, SetBack, Wire
    <2>4. Fresh'
      BY <1>2, <2>1 DEF Numbering, Fresh
    <2>5. Agree'
      BY <1>1, <1>2, <2>1 DEF Numbering, Agree, InStep, Ahead, Wire
    <2> QED
      BY <2>2, <2>3, <2>4, <2>5 DEF Numbering
  <1>4. CASE state = "RX" /\ Goto("RX") /\ Rest
    BY <1>1, <1>2, <1>4, ReadOnKeeps
  <1>5. ASSUME NEW late, state = "RX", ifx_i2c_dl_resend_frame(late)
        PROVE  Numbering'
    BY <1>1, <1>2, <1>5, ResendKeeps
  <1>6. CASE state # "IDLE" /\ Fail
    BY <1>1, <1>2, <1>6, FailKeeps
  <1> QED
    BY <1>3, <1>4, <1>5, <1>6 DEF ReadGarbage, NothingToRead, BusFails

\* The transport layer sends a command or asks for the answer.
LEMMA UserKeeps ==
  Types /\ Numbering /\ (ifx_i2c_dl_send_frame \/ ifx_i2c_dl_receive_frame \/ TimePasses) => Numbering'
  <1> SUFFICES ASSUME Types, Numbering, ifx_i2c_dl_send_frame \/ ifx_i2c_dl_receive_frame \/ TimePasses
               PROVE  Numbering'
    OBVIOUS
  <1> USE NextNumbers, FrameFields, Numbered
  <1>1. CASE ifx_i2c_dl_send_frame
    <2>1. /\ state = "IDLE" /\ ~asked /\ cmd' = cmd + 1 /\ cmd' \in Commands /\ answered' = 0 /\ asked'
          /\ ~renumbered' /\ ~mangled' /\ ~action_rx_only'
          /\ tx_seq_nr' = NextNr(tx_seq_nr) /\ ~resynced' /\ state' = "TX"
          /\ tx'.kind = "data" /\ tx'.nr = tx_seq_nr' /\ tx'.ack = rx_seq_nr /\ tx'.cmd = cmd'
          /\ UNCHANGED <<rx_seq_nr, chip, runs, apart>>
      BY <1>1 DEF ifx_i2c_dl_send_frame, SendData, Commands
    <2>2. runs[cmd'] = 0
      BY <2>1 DEF Numbering, RunsSoFar
    <2>3. ChipSays' /\ SetBack'
      BY <2>1 DEF Numbering, ChipSays, SetBack
    <2>4. HostSays'
      BY <2>1 DEF HostSays
    <2>5. RunsSoFar'
      <3>1. /\ \A c \in Commands : c > cmd => runs[c] = 0
            /\ chip.in.cmd \in Commands => chip.in.cmd <= cmd
        BY DEF Numbering, RunsSoFar
      <3>2. \A c \in Commands : (c > cmd + 1 => c > cmd) /\ (c <= cmd => c <= cmd + 1)
        OBVIOUS
      <3>3. \A c \in Commands : c > cmd' => runs'[c] = 0
        BY <2>1, <3>1, <3>2
      <3>4. chip'.in.cmd \in Commands => chip'.in.cmd <= cmd'
        BY <2>1, <3>1, <3>2
      <3> QED
        BY <2>1, <3>3, <3>4 DEF RunsSoFar
    <2>6. Fresh'
      BY <2>1, <2>2 DEF Numbering, SetBack, Fresh
    <2>7. Agree'
      BY <2>1, <2>2 DEF Numbering, Agree, InStep, Ahead
    <2> QED
      BY <2>3, <2>4, <2>5, <2>6, <2>7 DEF Numbering
  <1>2. CASE ifx_i2c_dl_receive_frame
    <2>1. /\ state = "IDLE" /\ asked /\ state' = "RX" /\ action_rx_only'
          /\ UNCHANGED <<tx_seq_nr, rx_seq_nr, resynced, tx, chip, cmd, asked, answered, runs, apart, renumbered, mangled>>
      BY <1>2 DEF ifx_i2c_dl_receive_frame, Goto, userVars, history
    <2>2. ChipSays' /\ RunsSoFar'
      BY <2>1 DEF Numbering, ChipSays, RunsSoFar
    <2>3. HostSays' /\ SetBack'
      BY <2>1 DEF Numbering, HostSays, SetBack
    <2>4. Fresh'
      BY <2>1 DEF Numbering, Fresh
    <2>5. Agree'
      BY <2>1 DEF Numbering, Agree, InStep, Ahead
    <2> QED
      BY <2>2, <2>3, <2>4, <2>5 DEF Numbering
  <1>3. CASE TimePasses
    <2>1. UNCHANGED <<state, tx_seq_nr, rx_seq_nr, resynced, action_rx_only, tx, chip, cmd, asked,
                      answered, runs, apart, renumbered, mangled>>
      BY <1>3 DEF TimePasses, hostVars, history
    <2>2. ChipSays' /\ RunsSoFar'
      BY <2>1 DEF Numbering, ChipSays, RunsSoFar
    <2>3. HostSays' /\ SetBack'
      BY <2>1 DEF Numbering, HostSays, SetBack
    <2>4. Fresh' /\ Agree'
      BY <2>1 DEF Numbering, Fresh, Agree, InStep, Ahead
    <2> QED
      BY <2>2, <2>3, <2>4 DEF Numbering
  <1> QED
    BY <1>1, <1>2, <1>3

\* What a step of the chip leaves of the host.
Inside == UNCHANGED <<state, tx_seq_nr, rx_seq_nr, resynced, action_rx_only, tx, rx_buffer, cmd, asked,
                      answered, renumbered, mangled>>

LEMMA ChipsInside == ChipReacts \/ ChipAnswers \/ ChipResyncs => Inside
  BY DEF ChipReacts, ChipGetsCommand, ChipGetsControl, ChipGetsResync, ChipAnswers, ChipResyncs,
         hostVars, userVars, history, Inside

\* The chip's answer, offered or not.
LEMMA Offered ==
  Types => /\ Offer = chip.out \/ (/\ Offer.kind = "data" /\ Offer.nr = chip.tx /\ Offer.ack = chip.rx
                                   /\ Offer.cmd = chip.unacked /\ chip.unacked # 0)
           /\ chip.unacked = 0 => Offer = chip.out
  BY FrameFields DEF Offer

\* What the chip makes of a frame, field by field.
LEMMA CommandFields ==
  ASSUME Types, ChipGetsCommand
  PROVE  /\ chip.in.kind = "data" /\ chip'.in = NoFrame /\ chip'.tx = chip.tx
         /\ chip'.unacked = Unacked(chip.in.ack)
         /\ chip'.out = Control("ack", chip'.rx)
         /\ UNCHANGED <<apart, leftover>>
         /\ \/ chip.in.nr = NextNr(chip.rx) /\ chip'.rx = chip.in.nr /\ chip'.todo = chip.in.cmd
            \/ chip.in.nr # NextNr(chip.rx) /\ chip'.rx = chip.rx /\ chip'.todo = chip.todo /\ runs' = runs
  <1>1. chip \in Chips
    BY DEF Types, ChipTypes
  <1>2. CASE /\ chip.in.nr = NextNr(chip.rx)
             /\ chip' = [chip EXCEPT !.in = NoFrame, !.rx = chip.in.nr, !.todo = chip.in.cmd,
                                     !.unacked = Unacked(chip.in.ack), !.out = Control("ack", chip.in.nr)]
    <2>1. /\ chip'.in = NoFrame /\ chip'.tx = chip.tx /\ chip'.unacked = Unacked(chip.in.ack)
          /\ chip'.rx = chip.in.nr /\ chip'.todo = chip.in.cmd /\ chip'.out = Control("ack", chip.in.nr)
      BY <1>1, <1>2 DEF Chips
    <2> QED
      BY <1>2, <2>1 DEF ChipGetsCommand
  <1>3. CASE /\ chip.in.nr # NextNr(chip.rx)
             /\ chip' = [chip EXCEPT !.in = NoFrame, !.unacked = Unacked(chip.in.ack),
                                     !.out = Control("ack", chip.rx)]
             /\ UNCHANGED runs
    <2>1. /\ chip'.in = NoFrame /\ chip'.tx = chip.tx /\ chip'.unacked = Unacked(chip.in.ack)
          /\ chip'.rx = chip.rx /\ chip'.todo = chip.todo /\ chip'.out = Control("ack", chip.rx)
      BY <1>1, <1>3 DEF Chips
    <2> QED
      BY <1>3, <2>1 DEF ChipGetsCommand
  <1> QED
    BY <1>2, <1>3 DEF ChipGetsCommand

LEMMA ControlFields ==
  ASSUME Types, ChipGetsControl
  PROVE  /\ chip'.in = NoFrame /\ chip'.rx = chip.rx /\ chip'.tx = chip.tx /\ chip'.todo = chip.todo
         /\ \/ chip.in.kind = "ack" /\ chip'.out = chip.out /\ chip'.unacked = Unacked(chip.in.ack)
            \/ chip'.out \in {Offer, chip.out} /\ chip'.unacked = chip.unacked
            \/ chip'.out.kind = "nack" /\ chip'.unacked = chip.unacked
         /\ UNCHANGED history
  <1>1. chip \in Chips
    BY DEF Types, ChipTypes
  <1>2. CASE chip.in.kind = "ack" /\ chip' = [chip EXCEPT !.in = NoFrame, !.unacked = Unacked(chip.in.ack)]
    <2>1. /\ chip'.in = NoFrame /\ chip'.rx = chip.rx /\ chip'.tx = chip.tx /\ chip'.todo = chip.todo
          /\ chip'.out = chip.out /\ chip'.unacked = Unacked(chip.in.ack)
      BY <1>1, <1>2 DEF Chips
    <2> QED
      BY <1>2, <2>1 DEF ChipGetsControl
  <1>3. ASSUME NEW g, chip' = [chip EXCEPT !.in = NoFrame, !.out = g],
               g \in {Offer, chip.out} \/ g.kind = "nack"
        PROVE  /\ chip'.in = NoFrame /\ chip'.rx = chip.rx /\ chip'.tx = chip.tx /\ chip'.todo = chip.todo
               /\ \/ chip'.out \in {Offer, chip.out} /\ chip'.unacked = chip.unacked
                  \/ chip'.out.kind = "nack" /\ chip'.unacked = chip.unacked
    <2>1. /\ chip'.in = NoFrame /\ chip'.rx = chip.rx /\ chip'.tx = chip.tx /\ chip'.todo = chip.todo
          /\ chip'.out = g /\ chip'.unacked = chip.unacked
      BY <1>1, <1>3 DEF Chips
    <2> QED
      BY <1>3, <2>1
  <1>4. Control("nack", NextNr(chip.rx)).kind = "nack"
    BY FrameFields
  <1> QED
    BY <1>2, <1>3, <1>4 DEF ChipGetsControl

\* The chip's steps.
LEMMA ChipKeeps == Types /\ Numbering /\ (ChipReacts \/ ChipAnswers \/ ChipResyncs) => Numbering'
  <1> SUFFICES ASSUME Types, Numbering, ChipReacts \/ ChipAnswers \/ ChipResyncs PROVE Numbering'
    OBVIOUS
  <1> USE NextNumbers, FrameFields, Numbered
  <1>1. Inside
    BY ChipsInside
  <1>2. HostSays' /\ SetBack'
    BY <1>1 DEF Numbering, HostSays, SetBack, Inside
  <1>3. CASE ChipGetsCommand /\ chip.in.nr = NextNr(chip.rx)
    <2>1. /\ chip.in.kind = "data" /\ chip'.in = NoFrame /\ chip'.rx = chip.in.nr /\ chip'.tx = chip.tx
          /\ chip'.out.kind = "ack" /\ chip'.out.ack = chip'.rx /\ UNCHANGED apart
      BY <1>3, CommandFields
    <2>2. \A c \in Commands : /\ runs'[c] <= runs[c] + 1
                              /\ c # chip.in.cmd => runs'[c] = runs[c]
      BY <1>3 DEF ChipGetsCommand, Types, ChipTypes
    <2>3. ChipSays' /\ Fresh'
      BY <2>1 DEF ChipSays, Fresh
    <2>4. RunsSoFar'
      BY <1>1, <2>1, <2>2 DEF Numbering, RunsSoFar, Inside
    <2>5. Agree'
      <3> SUFFICES ASSUME apart = "nobody" PROVE Agree'
        BY <2>1 DEF Agree
      <3>1. ~InStep /\ InStep'
        BY <1>1, <1>3, <2>1 DEF Numbering, Agree, InStep, Ahead, Inside
      <3>2. cmd # 0 /\ ~renumbered => runs'[cmd] <= 1
        BY <2>2, <3>1 DEF Numbering, Agree
      <3> QED
        BY <1>1, <2>1, <3>1, <3>2 DEF Agree, Inside
    <2> QED
      BY <1>2, <2>3, <2>4, <2>5 DEF Numbering
  <1>4. CASE ChipGetsCommand /\ chip.in.nr # NextNr(chip.rx)
    <2>1. /\ chip'.in = NoFrame /\ chip'.rx = chip.rx /\ chip'.tx = chip.tx
          /\ chip'.out.kind = "ack" /\ chip'.out.ack = chip'.rx /\ UNCHANGED <<apart, runs>>
      BY <1>4, CommandFields
    <2>2. ChipSays' /\ RunsSoFar' /\ Fresh'
      BY <1>1, <2>1 DEF Numbering, ChipSays, RunsSoFar, Fresh, Inside
    <2>3. Agree'
      BY <1>1, <2>1 DEF Numbering, Agree, InStep, Ahead, Inside
    <2> QED
      BY <1>2, <2>2, <2>3 DEF Numbering
  <1>5. CASE ChipGetsControl
    <2>1. /\ chip'.in = NoFrame /\ chip'.rx = chip.rx /\ chip'.tx = chip.tx
          /\ \/ chip'.out = chip.out /\ chip'.unacked \in {0, chip.unacked}
             \/ chip'.out = Offer /\ chip'.unacked = chip.unacked
             \/ chip'.out.kind = "nack" /\ chip'.unacked = chip.unacked
          /\ UNCHANGED <<apart, runs>>
      BY <1>5, ControlFields DEF Unacked, history
    <2>2. ChipSays'
      BY <2>1, Offered DEF Numbering, ChipSays
    <2>3. RunsSoFar' /\ Fresh'
      BY <1>1, <2>1 DEF Numbering, RunsSoFar, Fresh, Inside
    <2>4. Agree'
      BY <1>1, <2>1 DEF Numbering, Agree, InStep, Ahead, Inside
    <2> QED
      BY <1>2, <2>2, <2>3, <2>4 DEF Numbering
  <1>6. CASE ChipGetsResync
    <2>1. /\ chip.in.kind = "resync" /\ chip'.in = NoFrame /\ chip'.out = NoFrame
          /\ chip'.rx = DL_MAX_FRAME_NUM /\ chip'.tx = DL_MAX_FRAME_NUM
          /\ apart' = "nobody" /\ runs' = runs
      BY <1>6 DEF ChipGetsResync
    <2>2. ChipSays' /\ RunsSoFar' /\ Fresh'
      BY <1>1, <2>1 DEF Numbering, ChipSays, RunsSoFar, Fresh, Inside
    <2>3. Agree'
      <3>1. CASE state = "TX" /\ tx.kind = "data" /\ tx_seq_nr = 0 /\ (renumbered \/ runs[cmd] = 0)
        BY <1>1, <2>1, <3>1 DEF Numbering, HostSays, Agree, InStep, Ahead, Inside
      <3>2. CASE resynced
        BY <1>1, <2>1, <3>2 DEF Numbering, SetBack, Agree, InStep, Ahead, Inside
      <3> QED
        BY <2>1, <3>1, <3>2 DEF Numbering, Fresh
    <2> QED
      BY <1>2, <2>2, <2>3 DEF Numbering
  <1>7. CASE ChipAnswers
    <2>1. /\ chip'.in = chip.in /\ chip'.rx = chip.rx
          /\ chip'.out.kind = "data" /\ chip'.out.nr = chip'.tx /\ chip'.out.ack = chip'.rx
          /\ UNCHANGED <<apart, runs>>
      BY <1>7 DEF ChipAnswers, Types, ChipTypes, Chips, history
    <2>2. ChipSays' /\ RunsSoFar' /\ Fresh'
      BY <1>1, <2>1 DEF Numbering, ChipSays, RunsSoFar, Fresh, Inside
    <2>3. Agree'
      BY <1>1, <2>1 DEF Numbering, Agree, InStep, Ahead, Inside
    <2> QED
      BY <1>2, <2>2, <2>3 DEF Numbering
  <1>8. CASE ChipResyncs
    <2>1. /\ chip'.in = NoFrame /\ chip'.rx = DL_MAX_FRAME_NUM /\ chip'.tx = DL_MAX_FRAME_NUM
          /\ chip'.unacked = 0 /\ chip'.out.kind = "resync" /\ apart' # "nobody" /\ UNCHANGED runs
      BY <1>8 DEF ChipResyncs
    <2>2. ChipSays' /\ RunsSoFar' /\ Fresh' /\ Agree'
      BY <1>1, <2>1 DEF Numbering, ChipSays, RunsSoFar, Fresh, Agree, Inside
    <2> QED
      BY <1>2, <2>2 DEF Numbering
  <1> QED
    BY <1>3, <1>4, <1>5, <1>6, <1>7, <1>8 DEF ChipReacts

\* The two layers are inductive.
LEMMA NumberingInductive ==
  /\ Init => Numbering
  /\ Types /\ Numbering /\ [Next]_vars => Numbering'
  <1>1. ASSUME Init PROVE Numbering
    <2>1. ChipSays /\ RunsSoFar /\ Fresh
      BY <1>1, FrameFields, Constants DEF Init, ChipSays, RunsSoFar, Fresh, Commands
    <2>2. HostSays /\ SetBack /\ Agree
      BY <1>1, FrameFields DEF Init, HostSays, SetBack, Agree, InStep
    <2> QED
      BY <2>1, <2>2 DEF Numbering
  <1>2. ASSUME Types, Numbering, UNCHANGED vars PROVE Numbering'
    <2>1. ChipSays' /\ RunsSoFar' /\ Fresh'
      BY <1>2 DEF vars, hostVars, userVars, history, Numbering, ChipSays, RunsSoFar, Fresh
    <2>2. HostSays' /\ SetBack'
      BY <1>2 DEF vars, hostVars, userVars, history, Numbering, HostSays, SetBack
    <2>3. Agree'
      BY <1>2 DEF vars, hostVars, userVars, history, Numbering, Agree, InStep, Ahead
    <2> QED
      BY <2>1, <2>2, <2>3 DEF Numbering
  <1> QED
    BY <1>1, <1>2, UserKeeps, WrittenKeeps, ReadKeeps, FaultsKeep, ChipKeeps
       DEF Next, ifx_i2c_pl_event_handler

-----------------------------------------------------------------------------
(* The commands under way *)

\* The condition of ReportsAreTrue, and the exchange it is about.
Undisturbed == apart = "nobody" /\ ~mangled /\ ~leftover
Clean       == Undisturbed /\ asked

\* What the chip runs, keeps or offers it has run.
Ran ==
  \A c \in Commands :
    chip.todo = c \/ chip.unacked = c \/ (chip.out.kind = "data" /\ chip.out.cmd = c) => runs[c] > 0

\* The host's number has reached the chip with its command.
Arrived == Clean /\ ~resynced /\ InStep => runs[cmd] > 0

\* The chip is busy with this command, except that the answer to the last one is
\* kept until this one acknowledges it; and an answer the host would accept is to
\* this one.
ThisCommand ==
  Clean /\ state # "ACK" =>
    /\ chip.todo \in {0, cmd}
    /\ chip.unacked \in {0, cmd} \/ (~action_rx_only /\ chip.tx = rx_seq_nr /\ Ahead)
    /\ chip.tx = rx_seq_nr \/ chip.unacked = cmd
    /\ chip.out.kind = "data" => chip.out.cmd = cmd \/ chip.out.nr = rx_seq_nr

\* A resync of the chip's that the host will follow comes before the same answer.
AnswersAgain ==
  /\ apart = "chip" /\ chip.out.kind = "resync" /\ asked /\ ~mangled /\ ~leftover
  /\ state # "ACK" /\ (action_rx_only \/ state = "IDLE")
  => chip.todo = cmd

\* The answer accepted and about to be reported, and the one reported.
Accepted == state = "ACK" /\ Clean => rx_buffer = cmd /\ runs[cmd] > 0
Reported == state = "IDLE" /\ Undisturbed /\ answered # 0 => answered = cmd /\ runs[cmd] > 0

Bookkeeping == Ran /\ Arrived /\ ThisCommand /\ AnswersAgain /\ Accepted /\ Reported

\* The handler leaves what the chip has run as it is.
LEMMA WireRan == Bookkeeping /\ Wire => Ran'
  BY FrameFields DEF Bookkeeping, Ran, Wire

\* With the numbers set back, or nothing asked or reported, there is nothing to say.
LEMMA Disturbed ==
  /\ apart' = "host" => Arrived' /\ ThisCommand' /\ AnswersAgain' /\ Accepted' /\ Reported'
  /\ ~asked' /\ answered' = 0 => Arrived' /\ ThisCommand' /\ AnswersAgain' /\ Accepted' /\ Reported'
  BY DEF Undisturbed, Clean, Arrived, ThisCommand, AnswersAgain, Accepted, Reported

LEMMA FailBooks ==
  ASSUME Types, Numbering, Bookkeeping, Wire, Fail, UNCHANGED answered, state # "IDLE"
  PROVE  Bookkeeping'
  <1>1. answered' = 0
    BY DEF Numbering, HostSays
  <1>2. apart' = "host" \/ ~asked'
    BY DEF Fail, ifx_i2c_dl_resync
  <1> QED
    BY <1>1, <1>2, WireRan, Disturbed DEF Bookkeeping

LEMMA ResendBooks ==
  ASSUME Types, Numbering, Bookkeeping, Wire, NEW late, ifx_i2c_dl_resend_frame(late), UNCHANGED answered,
         state \in {"RX", "RESEND"}
  PROVE  Bookkeeping'
  <1> USE NextNumbers, FrameFields, Numbered
  <1>1. CASE Fail
    BY <1>1, FailBooks
  <1>2. CASE ifx_i2c_dl_resync("RESEND")
    BY <1>2, WireRan, Disturbed DEF ifx_i2c_dl_resync, Bookkeeping
  <1>3. CASE SendAgain(TRUE)
    <2>1. /\ tx_seq_nr' = IF resynced THEN NextNr(tx_seq_nr) ELSE tx_seq_nr
          /\ ~resynced' /\ state' = "TX" /\ mangled' = (mangled \/ spoilt)
          /\ UNCHANGED <<rx_seq_nr, asked, apart, renumbered>>
      BY <1>3 DEF SendAgain, SendData
    <2>2. Clean' => /\ Clean /\ (InStep' <=> ~resynced /\ InStep)
                    /\ Ahead' <=> resynced \/ Ahead
                    /\ resynced => ~Ahead
      BY <2>1 DEF Clean, Undisturbed, Numbering, Agree, InStep, Ahead, Wire
    <2>3. Arrived'
      BY <2>1, <2>2 DEF Bookkeeping, Arrived, Wire
    <2>4. ThisCommand'
      BY <2>1, <2>2 DEF Bookkeeping, ThisCommand, Wire
    <2>5. AnswersAgain'
      BY <2>1 DEF Bookkeeping, AnswersAgain, Wire
    <2>6. Accepted' /\ Reported'
      BY <2>1 DEF Accepted, Reported
    <2> QED
      BY <2>3, <2>4, <2>5, <2>6, WireRan DEF Bookkeeping
  <1> QED
    BY <1>1, <1>2, <1>3 DEF ifx_i2c_dl_resend_frame

\* A step that only goes to another state of the exchange.
LEMMA GoOnBooks ==
  ASSUME Types, Numbering, Bookkeeping, Wire, state \in {"TX", "DISCARD", "RX"},
         UNCHANGED <<tx_seq_nr, rx_seq_nr, resynced, asked, answered, apart, mangled>>,
         state' \in {"RX", "TX", "DISCARD"} \/ (state' = "IDLE" /\ chip'.out = NoFrame)
  PROVE  Bookkeeping'
  <1> USE FrameFields
  <1>1. (Clean' <=> Clean) /\ (InStep' <=> InStep) /\ (Ahead' <=> Ahead)
    BY DEF Clean, Undisturbed, InStep, Ahead, Wire
  <1>2. Arrived'
    BY <1>1 DEF Bookkeeping, Arrived, Wire
  <1>3. ThisCommand'
    BY <1>1 DEF Bookkeeping, ThisCommand, Wire
  <1>4. AnswersAgain'
    BY DEF Bookkeeping, AnswersAgain, Wire
  <1>5. Accepted' /\ Reported'
    BY DEF Accepted, Reported, Numbering, HostSays
  <1> QED
    BY <1>2, <1>3, <1>4, <1>5, WireRan DEF Bookkeeping

LEMMA HandlerBooks == Types /\ Numbering /\ Bookkeeping /\ ifx_i2c_pl_event_handler => Bookkeeping'
  <1> SUFFICES ASSUME Types, Numbering, Bookkeeping, ifx_i2c_pl_event_handler PROVE Bookkeeping'
    OBVIOUS
  <1> USE NextNumbers, FrameFields, Numbered
  <1>1. Wire
    BY HandlerWires
  <1>2. CASE Written
    <2>1. CASE state \in {"TX", "DISCARD"} /\ Goto("RX") /\ Rest /\ UNCHANGED answered
      BY <1>1, <2>1, GoOnBooks DEF Goto, Rest
    <2>2. CASE state = "ACK" /\ Goto("IDLE") /\ answered' = rx_buffer /\ asked' = FALSE /\ UNCHANGED <<apart, mangled>>
      <3>1. /\ state = "ACK" /\ state' = "IDLE" /\ ~asked' /\ answered' = rx_buffer /\ UNCHANGED <<apart, mangled>>
        BY <2>2 DEF Goto
      <3>2. Reported'
        BY <1>1, <3>1 DEF Numbering, HostSays, Bookkeeping, Accepted, Reported, Clean, Undisturbed, Wire
      <3>3. Arrived' /\ ThisCommand' /\ AnswersAgain' /\ Accepted'
        BY <3>1 DEF Arrived, ThisCommand, AnswersAgain, Accepted, Clean
      <3> QED
        BY <1>1, <3>2, <3>3, WireRan DEF Bookkeeping
    <2>3. CASE state = "RESEND" /\ ifx_i2c_dl_resend_frame(expired) /\ UNCHANGED answered
      BY <1>1, <2>3, ResendBooks
    <2>4. CASE state = "ERROR" /\ Fail /\ UNCHANGED answered
      BY <1>1, <2>4, FailBooks
    <2> QED
      BY <1>2, <2>1, <2>2, <2>3, <2>4 DEF Written
  <1>3. CASE Read
    <2>1. state = "RX" /\ chip'.out = NoFrame /\ UNCHANGED answered
      BY <1>3 DEF Read, ChipRead, userVars, Types, ChipTypes, Chips
    <2>2. CASE Goto("RX") /\ Rest
      BY <1>1, <2>1, <2>2, GoOnBooks DEF Goto, Rest
    <2>3. CASE SendControl("ack", rx_seq_nr, "DISCARD") /\ Rest
      BY <1>1, <2>1, <2>3, GoOnBooks DEF SendControl, Rest
    <2>4. CASE /\ chip.out.kind = "data" /\ chip.out.nr = NextNr(rx_seq_nr)
               /\ rx_buffer' = chip.out.cmd
               /\ SendControl("ack", chip.out.nr, "ACK") /\ UNCHANGED <<asked, apart, mangled>>
      <3>1. /\ state' = "ACK" /\ UNCHANGED <<tx_seq_nr, resynced, asked, apart, mangled>>
        BY <2>4 DEF SendControl
      <3>2. Accepted'
        BY <1>1, <2>1, <2>4, <3>1 DEF Numbering, HostSays, Bookkeeping, Accepted, ThisCommand, Ran, Clean, Undisturbed, Wire
      <3>3. Arrived'
        BY <1>1, <3>1 DEF Bookkeeping, Arrived, Clean, Undisturbed, InStep, Wire
      <3>4. ThisCommand' /\ AnswersAgain' /\ Reported'
        BY <3>1 DEF ThisCommand, AnswersAgain, Reported
      <3> QED
        BY <1>1, <3>2, <3>3, <3>4, WireRan DEF Bookkeeping
    <2>5. CASE /\ ~Discarded(chip.out) /\ chip.out.kind = "resync"
               /\ rx_seq_nr' = DL_MAX_FRAME_NUM /\ resynced' = TRUE
               /\ apart' = (IF apart = "chip" /\ chip.in = NoFrame THEN "nobody" ELSE apart)
               /\ UNCHANGED <<state, asked, mangled>>
      <3>1. /\ action_rx_only /\ chip.tx = DL_MAX_FRAME_NUM /\ chip.unacked = 0 /\ apart # "nobody"
        BY <2>5 DEF Discarded, Numbering, ChipSays
      <3>2. Clean' => chip.todo = cmd
        BY <1>1, <2>1, <2>5, <3>1 DEF Bookkeeping, AnswersAgain, Clean, Undisturbed, Wire
      <3>3. ThisCommand'
        BY <1>1, <2>1, <2>5, <3>1, <3>2 DEF ThisCommand, Wire
      <3>4. Arrived' /\ AnswersAgain' /\ Accepted' /\ Reported'
        BY <2>1, <2>5 DEF Arrived, AnswersAgain, Accepted, Reported
      <3> QED
        BY <1>1, <3>3, <3>4, WireRan DEF Bookkeeping
    <2>6. CASE ifx_i2c_dl_resend_frame(expired)
      BY <1>1, <2>1, <2>6, ResendBooks
    <2>7. CASE Goto("IDLE") /\ Rest
      BY <1>1, <2>1, <2>7, GoOnBooks DEF Goto, Rest
    <2> QED
      BY <1>3, <2>2, <2>3, <2>4, <2>5, <2>6, <2>7 DEF Read, ReadData, ReadControl
  <1>4. CASE ReadGarbage \/ NothingToRead \/ BusFails
    <2>1. UNCHANGED answered
      BY <1>4 DEF ReadGarbage, NothingToRead, BusFails
    <2>2. CASE state = "RX" /\ SendControl("nack", NextNr(rx_seq_nr), "TX") /\ Rest
      BY <1>1, <2>1, <2>2, GoOnBooks DEF SendControl, Rest
    <2>3. CASE state = "RX" /\ Goto("RX") /\ Rest
      BY <1>1, <2>1, <2>3, GoOnBooks DEF Goto, Rest
    <2>4. ASSUME NEW late, state = "RX", ifx_i2c_dl_resend_frame(late)
          PROVE  Bookkeeping'
      BY <1>1, <2>1, <2>4, ResendBooks
    <2>5. CASE state # "IDLE" /\ Fail
      BY <1>1, <2>1, <2>5, FailBooks
    <2> QED
      BY <1>4, <2>2, <2>3, <2>4, <2>5 DEF ReadGarbage, NothingToRead, BusFails
  <1> QED
    BY <1>2, <1>3, <1>4 DEF ifx_i2c_pl_event_handler

LEMMA UserBooks ==
  Types /\ Numbering /\ Bookkeeping /\ (ifx_i2c_dl_send_frame \/ ifx_i2c_dl_receive_frame \/ TimePasses)
    => Bookkeeping'
  <1> SUFFICES ASSUME Types, Numbering, Bookkeeping,
                      ifx_i2c_dl_send_frame \/ ifx_i2c_dl_receive_frame \/ TimePasses
               PROVE  Bookkeeping'
    OBVIOUS
  <1> USE NextNumbers, FrameFields, Numbered
  <1>1. Ran'
    BY DEF ifx_i2c_dl_send_frame, ifx_i2c_dl_receive_frame, TimePasses, history, Bookkeeping, Ran
  <1>2. CASE ifx_i2c_dl_send_frame
    <2>1. /\ state = "IDLE" /\ state' = "TX" /\ ~action_rx_only' /\ tx_seq_nr' = NextNr(tx_seq_nr)
          /\ leftover' = (chip.todo # 0 \/ chip.tx # rx_seq_nr)
          /\ UNCHANGED <<rx_seq_nr, chip, apart>>
      BY <1>2 DEF ifx_i2c_dl_send_frame, SendData
    <2>2. Clean' => Ahead' /\ ~InStep' /\ chip.todo = 0 /\ chip.tx = rx_seq_nr
      BY <2>1 DEF Numbering, Agree, Clean, Undisturbed, InStep, Ahead
    <2>3. ThisCommand'
      BY <2>1, <2>2 DEF Numbering, ChipSays, ThisCommand
    <2>4. Arrived' /\ AnswersAgain' /\ Accepted' /\ Reported'
      BY <2>1, <2>2 DEF Arrived, AnswersAgain, Accepted, Reported
    <2> QED
      BY <1>1, <2>3, <2>4 DEF Bookkeeping
  <1>3. CASE ifx_i2c_dl_receive_frame
    <2>1. /\ state = "IDLE" /\ asked /\ state' = "RX"
          /\ UNCHANGED <<tx_seq_nr, rx_seq_nr, resynced, chip, cmd, asked, runs, apart, mangled, leftover>>
      BY <1>3 DEF ifx_i2c_dl_receive_frame, Goto, userVars, history
    <2>2. Clean' => Clean /\ ~Ahead
      BY <2>1 DEF Numbering, Agree, Clean, Undisturbed, InStep, Ahead
    <2>3. ThisCommand'
      BY <2>1, <2>2 DEF Bookkeeping, ThisCommand
    <2>4. Arrived'
      BY <2>1, <2>2 DEF Bookkeeping, Arrived, InStep
    <2>5. AnswersAgain' /\ Accepted' /\ Reported'
      BY <2>1 DEF Bookkeeping, AnswersAgain, Accepted, Reported
    <2> QED
      BY <1>1, <2>3, <2>4, <2>5 DEF Bookkeeping
  <1>4. CASE TimePasses
    <2>1. UNCHANGED <<state, tx_seq_nr, rx_seq_nr, resynced, action_rx_only, rx_buffer, chip, cmd, asked,
                      answered, runs, apart, mangled, leftover>>
      BY <1>4 DEF TimePasses, hostVars, history
    <2>2. Arrived' /\ ThisCommand'
      BY <2>1 DEF Bookkeeping, Arrived, ThisCommand, Clean, Undisturbed, InStep, Ahead
    <2>3. AnswersAgain' /\ Accepted' /\ Reported'
      BY <2>1 DEF Bookkeeping, AnswersAgain, Accepted, Reported, Clean, Undisturbed
    <2> QED
      BY <1>1, <2>2, <2>3 DEF Bookkeeping
  <1> QED
    BY <1>2, <1>3, <1>4

LEMMA ChipBooks ==
  Types /\ Numbering /\ Bookkeeping /\ (ChipReacts \/ ChipAnswers \/ ChipResyncs) => Bookkeeping'
  <1> SUFFICES ASSUME Types, Numbering, Bookkeeping, ChipReacts \/ ChipAnswers \/ ChipResyncs
               PROVE  Bookkeeping'
    OBVIOUS
  <1> USE NextNumbers, FrameFields, Numbered
  <1>1. Inside
    BY ChipsInside
  <1>2. \A c \in Commands : runs[c] > 0 => runs'[c] > 0
    BY DEF ChipReacts, ChipGetsCommand, ChipGetsControl, ChipGetsResync, ChipAnswers, ChipResyncs, history,
           Types, ChipTypes
  <1>4. UNCHANGED apart /\ UNCHANGED leftover => Accepted' /\ Reported'
    BY <1>1, <1>2 DEF Numbering, HostSays, Bookkeeping, Accepted, Reported, Clean, Undisturbed, Inside
  <1>5. CASE ChipGetsCommand /\ chip.in.nr = NextNr(chip.rx)
    <2>1. /\ chip.in.kind = "data" /\ chip'.in = NoFrame /\ chip'.rx = chip.in.nr /\ chip'.tx = chip.tx
          /\ chip'.unacked = Unacked(chip.in.ack) /\ chip'.todo = chip.in.cmd
          /\ chip'.out.kind = "ack" /\ UNCHANGED <<apart, leftover>>
      BY <1>5, CommandFields
    <2>2. chip.in.cmd \in Commands => runs'[chip.in.cmd] > 0
      BY <1>5 DEF ChipGetsCommand, Types, ChipTypes
    <2>3. chip'.unacked = IF chip.in.ack = chip.tx THEN 0 ELSE chip.unacked
      BY <2>1 DEF Unacked
    <2>4. Ran'
      BY <1>2, <2>1, <2>2, <2>3 DEF Bookkeeping, Ran
    <2>5. Clean' => /\ Clean /\ Ahead /\ ~InStep /\ InStep'
                    /\ chip.in.cmd = cmd /\ state # "ACK" /\ chip.in.ack = rx_seq_nr
      BY <1>1, <1>5, <2>1 DEF Numbering, Agree, Clean, Undisturbed, InStep, Ahead, Inside
    <2>6. Arrived'
      BY <1>1, <2>2, <2>5 DEF Numbering, HostSays, Arrived, Clean, Inside
    <2>7. ThisCommand'
      <3> SUFFICES ASSUME Clean' PROVE ThisCommand'
        BY DEF ThisCommand
      <3>1. chip'.unacked \in {0, cmd} /\ (chip.tx = rx_seq_nr \/ chip'.unacked = cmd)
        BY <2>3, <2>5 DEF Bookkeeping, ThisCommand
      <3> QED
        BY <1>1, <2>1, <2>5, <3>1 DEF ThisCommand, Inside
    <2>8. AnswersAgain'
      BY <2>1 DEF AnswersAgain
    <2> QED
      BY <1>4, <2>1, <2>4, <2>6, <2>7, <2>8 DEF Bookkeeping
  <1>6. CASE \/ ChipGetsCommand /\ chip.in.nr # NextNr(chip.rx)
             \/ ChipGetsControl
    <2>1. /\ chip'.in = NoFrame /\ chip'.rx = chip.rx /\ chip'.tx = chip.tx /\ chip'.todo = chip.todo
          /\ \/ /\ chip.in.kind \in {"data", "ack"} /\ chip'.unacked = Unacked(chip.in.ack)
                /\ chip'.out.kind = "ack" \/ chip'.out = chip.out
             \/ /\ chip'.unacked = chip.unacked
                /\ chip'.out \in {Offer, chip.out} \/ chip'.out.kind = "nack"
          /\ UNCHANGED <<apart, leftover, runs>>
      BY <1>6, CommandFields, ControlFields DEF history
    <2>2. /\ chip'.unacked \in {0, chip.unacked}
          /\ chip'.unacked # chip.unacked => chip.in.kind \in {"data", "ack"} /\ chip.in.ack = chip.tx
      BY <2>1 DEF Unacked
    <2>3. Ran'
      BY <2>1, <2>2, Offered DEF Bookkeeping, Ran
    <2>4. (Clean' <=> Clean) /\ (InStep' <=> InStep) /\ (Ahead' <=> Ahead)
      BY <1>1, <2>1 DEF Clean, Undisturbed, InStep, Ahead, Inside
    <2>5. Arrived'
      BY <1>1, <2>1, <2>4 DEF Bookkeeping, Arrived, Inside
    <2>6. ThisCommand'
      <3> SUFFICES ASSUME Clean, state # "ACK" PROVE ThisCommand'
        BY <1>1, <2>4 DEF ThisCommand, Inside
      <3>1. chip'.unacked # chip.unacked => chip.tx = rx_seq_nr
        BY <2>2 DEF Numbering, Agree, Clean, Undisturbed
      <3>2. chip'.out.kind = "data" => chip'.out = chip.out \/ chip'.out.cmd = cmd \/ chip'.out.nr = rx_seq_nr
        BY <2>1, Offered DEF Bookkeeping, ThisCommand
      <3>3. /\ chip.todo \in {0, cmd}
            /\ chip.unacked \in {0, cmd} \/ (~action_rx_only /\ chip.tx = rx_seq_nr /\ Ahead)
            /\ chip.tx = rx_seq_nr \/ chip.unacked = cmd
            /\ chip.out.kind = "data" => chip.out.cmd = cmd \/ chip.out.nr = rx_seq_nr
        BY DEF Bookkeeping, ThisCommand
      <3>4. chip'.out.kind = "data" => chip'.out.cmd = cmd \/ chip'.out.nr = rx_seq_nr
        BY <3>2, <3>3
      <3>5. chip'.unacked \in {0, cmd} \/ (~action_rx_only /\ chip'.tx = rx_seq_nr /\ Ahead)
        BY <2>1, <2>2, <3>3
      <3>6. chip'.tx = rx_seq_nr \/ chip'.unacked = cmd
        BY <2>1, <3>1, <3>3
      <3> QED
        BY <1>1, <2>1, <2>4, <3>3, <3>4, <3>5, <3>6 DEF ThisCommand, Inside
    <2>7. AnswersAgain'
      <3>1. chip'.out.kind = "resync" => chip'.out = chip.out
        BY <2>1, Offered
      <3> QED
        BY <1>1, <2>1, <3>1 DEF Bookkeeping, AnswersAgain, Inside
    <2> QED
      BY <1>4, <2>1, <2>3, <2>5, <2>6, <2>7 DEF Bookkeeping
  <1>7. CASE ChipGetsResync
    <2>1. /\ chip.in.kind = "resync" /\ chip'.rx = DL_MAX_FRAME_NUM /\ chip'.tx = DL_MAX_FRAME_NUM
          /\ chip'.out = NoFrame /\ chip'.todo = 0 /\ chip'.unacked = 0
      BY <1>7 DEF ChipGetsResync
    <2>2. answered = 0 /\ rx_seq_nr = DL_MAX_FRAME_NUM /\ state # "ACK"
      BY <2>1 DEF Numbering, Fresh
    <2>3. ~resynced => ~InStep'
      BY <1>1, <2>1 DEF Numbering, Fresh, InStep, Inside
    <2>4. Ran' /\ AnswersAgain'
      BY <2>1 DEF Ran, AnswersAgain
    <2>5. Arrived' /\ ThisCommand'
      BY <1>1, <2>1, <2>2, <2>3 DEF Arrived, ThisCommand, Inside
    <2>6. Accepted' /\ Reported'
      BY <1>1, <2>2 DEF Accepted, Reported, Inside
    <2> QED
      BY <2>4, <2>5, <2>6 DEF Bookkeeping
  <1>8. CASE ChipAnswers
    <2>1. /\ chip.todo # 0 /\ chip'.rx = chip.rx /\ chip'.todo = 0 /\ chip'.unacked = chip.todo
          /\ chip'.out.kind = "data" /\ chip'.out.cmd = chip.todo
          /\ UNCHANGED <<apart, leftover, runs>>
      BY <1>8 DEF ChipAnswers, Types, ChipTypes, Chips, history
    <2>2. Ran'
      BY <2>1 DEF Bookkeeping, Ran
    <2>3. (Clean' <=> Clean) /\ (InStep' <=> InStep)
      BY <1>1, <2>1 DEF Clean, Undisturbed, InStep, Inside
    <2>4. Arrived' /\ ThisCommand'
      BY <1>1, <2>1, <2>3 DEF Bookkeeping, Arrived, ThisCommand, Inside
    <2>5. AnswersAgain'
      BY <2>1 DEF AnswersAgain
    <2> QED
      BY <1>4, <2>1, <2>2, <2>4, <2>5 DEF Bookkeeping
  <1>9. CASE ChipResyncs
    <2>1. /\ chip.unacked # 0 /\ chip'.todo = chip.unacked /\ chip'.unacked = 0
          /\ chip'.out.kind = "resync" /\ UNCHANGED <<runs, leftover>>
          /\ apart' = IF apart = "nobody" THEN "chip" ELSE "both"
      BY <1>9 DEF ChipResyncs
    <2>2. Ran'
      BY <2>1 DEF Bookkeeping, Ran
    <2>3. Arrived' /\ ThisCommand' /\ Accepted' /\ Reported'
      BY <2>1 DEF Arrived, ThisCommand, Accepted, Reported, Clean, Undisturbed
    <2>4. AnswersAgain'
      BY <1>1, <2>1 DEF Numbering, Agree, Bookkeeping, AnswersAgain, ThisCommand, Clean, Undisturbed, InStep, Ahead, Inside
    <2> QED
      BY <2>2, <2>3, <2>4 DEF Bookkeeping
  <1> QED
    BY <1>5, <1>6, <1>7, <1>8, <1>9 DEF ChipReacts, ChipGetsCommand

\* All three layers are inductive.
LEMMA LinkInductive == Spec => [](Types /\ Numbering /\ Bookkeeping)
  <1>1. Init => Bookkeeping
    BY FrameFields DEF Init, Bookkeeping, Ran, Arrived, ThisCommand, AnswersAgain, Accepted, Reported, Clean, Commands
  <1>2. Types /\ Numbering /\ Bookkeeping /\ [Next]_vars => Bookkeeping'
    <2>1. ASSUME Bookkeeping, UNCHANGED vars PROVE Bookkeeping'
      <3>1. Ran' /\ Arrived' /\ ThisCommand'
        BY <2>1 DEF vars, hostVars, userVars, history, Bookkeeping, Ran, Arrived, ThisCommand, Clean, Undisturbed,
                    InStep, Ahead
      <3>2. AnswersAgain' /\ Accepted' /\ Reported'
        BY <2>1 DEF vars, hostVars, userVars, history, Bookkeeping, AnswersAgain, Accepted, Reported, Clean, Undisturbed
      <3> QED
        BY <3>1, <3>2 DEF Bookkeeping
    <2> QED
      BY <2>1, HandlerBooks, UserBooks, ChipBooks DEF Next
  <1> QED
    BY <1>1, <1>2, TypesInductive, NumberingInductive, PTL DEF Spec

-----------------------------------------------------------------------------
(* The results *)

\* The two-bit numbers, the counter of the repetitions, the frames and the commands
\* keep to their types (ifx_i2c_data_link_layer.c:208-307).
THEOREM LinkTyped == Spec => []TypeOK
  BY LinkInductive, TypesAreTypeOK, PTL

\* However often a frame is lost, spoilt, answered with a NACK or sent again, the
\* chip runs the command once, unless numbers are set back in it
\* (ifx_i2c_data_link_layer.c:238-241, 284-289).
THEOREM RunsOnceEach == Spec => []RunsOnce
  <1>1. Types /\ Numbering => RunsOnce
    BY Numbered DEF Numbering, Agree, RunsOnce
  <1> QED
    BY <1>1, LinkInductive, PTL

\* What is reported to the transport layer is true: the chip has run the command
\* that is reported as sent, and the answer is to that command, unless one of the
\* three causes named with ReportsAreTrue has come between
\* (ifx_i2c_data_link_layer.c:338-359, 390-494).
THEOREM ReportsTrue == Spec => []ReportsAreTrue
  <1>1. Types /\ Numbering /\ Bookkeeping => ReportsAreTrue
    <2> SUFFICES ASSUME Types, Numbering, Bookkeeping, state = "IDLE", Undisturbed
                 PROVE  /\ asked => runs[cmd] > 0
                        /\ answered # 0 => answered = cmd /\ runs[cmd] > 0
      BY DEF ReportsAreTrue, Undisturbed
    <2>1. asked => ~resynced /\ InStep
      BY DEF Numbering, SetBack, Agree, Undisturbed
    <2> QED
      BY <2>1 DEF Bookkeeping, Arrived, Reported, Clean
  <1> QED
    BY <1>1, LinkInductive, PTL

=============================================================================
