--------------------------- MODULE TransferProofs ---------------------------
(***************************************************************************)
(* The ways to the keyboard: accesses to the registers of the USB controller *)
(* over SPI, of every length, and control transfers to a device with packets *)
(* of every size, with any number of packets lost.                         *)
(***************************************************************************)
EXTENDS Spi, ControlTransfer, SequenceTheorems, TLAPS

-----------------------------------------------------------------------------
(* Register accesses over SPI.                                             *)

Loop == {"poll", "send", "receive", "drain", "release"}

\* Bytes handed to the master, and answers taken from it.
Sent == write_data + (read_length - write_zeros)
Got == (write_length - read_ignore) + Len(read_data)

Byte(i) == IF i <= write_length THEN i ELSE 0

\* The master shifts only what the driver waits for.
Quiet ==
  /\ ~ROE /\ ~TOE /\ ~tx_holding_primed
  /\ transmitting => ~RRDY
  /\ pc \in {"idle", "reset", "select", "discard"} => ~transmitting

\* Only the write of rPINCTL goes on with a selection.
Selected ==
  /\ pc \in {"idle", "reset"} => ~SSO
  /\ pc = "idle" => ~starting
  /\ pc \in {"boot", "reset"} => starting
  /\ pc = "select" /\ ~starting => ~SSO
  /\ InAccess /\ ~starting => cut_off = <<>>
  /\ (pc = "select" \/ InAccess) /\ starting => write_length = 2 /\ read_length = 0
  /\ pc = "boot" => read_data = <<>>

Lengths == pc \notin {"idle", "boot", "reset"} => write_length > 0

\* Data go before zeros, answers that are ignored before those that are kept.
Counts == InAccess =>
  /\ write_data <= write_length /\ write_zeros <= read_length
  /\ read_ignore <= write_length /\ Len(read_data) <= read_length
  /\ write_zeros < read_length => write_data = write_length
  /\ Len(read_data) > 0 => read_ignore = 0
  /\ credits = 1 - (Sent - Got)
  /\ Len(heard) = IF transmitting THEN Sent - 1 ELSE Sent

\* With the credit, nothing is on the way; without it, a byte or its answer is.
OneByte == pc \in Loop =>
  /\ credits = 1 => ~transmitting /\ ~RRDY
  /\ credits = 0 => transmitting \/ RRDY
  /\ RRDY => rx_holding_reg = Len(cut_off) + Len(heard)
  /\ transmitting => shift_reg = Byte(Sent)

Place ==
  /\ pc = "discard" => Sent = 0 /\ Got = 0
  /\ pc \in {"discard", "poll", "send", "receive"} => ~Complete
  /\ pc \in {"send", "receive"} => (status_RRDY => RRDY)
  /\ pc \in {"drain", "release"} => Complete

Data == InAccess =>
  /\ \A i \in 1..Len(heard) : heard[i] = Byte(i)
  /\ \A i \in 1..Len(read_data) : read_data[i] = Len(cut_off) + (write_length + i)

Counters == Ranges /\ Lengths /\ Counts /\ OneByte /\ Place

SpiInv == Flags /\ Quiet /\ Selected /\ Counters /\ Data

-----------------------------------------------------------------------------
LEMMA InitHolds == SpiInit => SpiInv
<1> SUFFICES ASSUME SpiInit PROVE SpiInv
  OBVIOUS
<1>1. Flags /\ Quiet /\ Selected
  BY DEF SpiInit, Flags, Quiet, Selected, InAccess
<1>2. pc = "boot" /\ read_data = <<>> /\ heard = <<>> /\ ~InAccess /\ pc \notin Loop
  BY DEF SpiInit, InAccess, Loop
<1>3. Ranges
  BY SpiAssumption DEF SpiInit, Ranges
<1> QED  BY <1>1, <1>2, <1>3 DEF SpiInv, Counters, Lengths, Counts, OneByte, Place, Data

-----------------------------------------------------------------------------
LEMMA CallStep ==
  ASSUME SpiInv, NEW w \in 1..MaxBytes + 1, NEW r \in 0..MaxBytes, Call(w, r),
         \/ pc = "idle"
         \/ pc = "boot" /\ ~transmitting /\ w = 2 /\ r = 0
  PROVE  SpiInv'
<1>1. /\ pc' = "select" /\ write_length' = w /\ read_length' = r
      /\ UNCHANGED <<starting, restarts, command, status, shifter, receiver, selection>>
  BY DEF Call
<1>2. ~transmitting
  BY DEF SpiInv, Quiet
<1>3. Flags' /\ Quiet' /\ Selected'
  BY <1>1, <1>2 DEF SpiInv, Flags, Quiet, Selected, InAccess, status, shifter, receiver, command, selection
<1>4. Ranges' /\ Lengths'
  BY <1>1, SpiAssumption DEF SpiInv, Counters, Ranges, Lengths, command, shifter, receiver, selection
<1>5. ~InAccess' /\ pc' \notin Loop
  BY <1>1 DEF InAccess, Loop
<1> QED  BY <1>1, <1>3, <1>4, <1>5 DEF SpiInv, Counters, Counts, OneByte, Place, Data

LEMMA AccessStep == ASSUME SpiInv, Access \/ SetPins PROVE SpiInv'
<1>1. CASE Access
  <2>1. PICK w \in 1..MaxBytes + 1, r \in 0..MaxBytes : Call(w, r)
    BY <1>1, SpiAssumption DEF Access, MAXreg_wr, MAXreg_rd, MAXbytes_wr, MAXbytes_rd
  <2> QED  BY <1>1, <2>1, CallStep DEF Access
<1>2. CASE SetPins
  <2>1. Call(2, 0) /\ 2 \in 1..MaxBytes + 1 /\ 0 \in 0..MaxBytes
    BY <1>2, SpiAssumption DEF SetPins, MAXreg_wr
  <2> QED  BY <1>2, <2>1, CallStep DEF SetPins, TMT
<1> QED  BY <1>1, <1>2

LEMMA SelectStep == ASSUME SpiInv, Select PROVE SpiInv'
<1>1. /\ pc = "select" /\ pc' = "discard" /\ write_data' = 0 /\ read_data' = <<>>
      /\ write_zeros' = read_length /\ read_ignore' = write_length /\ credits' = 1
      /\ UNCHANGED <<caller, status, shifter, receiver>>
  BY DEF Select, Credits
<1>2. SSO' = TRUE /\ heard' = <<>> /\ cut_off' = IF SSO THEN cut_off \o heard ELSE <<>>
  BY DEF Select
<1>3. Flags' /\ Quiet' /\ Selected'
  BY <1>1, <1>2 DEF SpiInv, Flags, Quiet, Selected, status, shifter, receiver, caller, command, selection, InAccess
<1>4. Ranges' /\ Lengths'
  BY <1>1, <1>2, SpiAssumption DEF SpiInv, Counters, Ranges, Lengths, caller, shifter, receiver, selection
<1>5. pc' \notin Loop /\ transmitting' = FALSE /\ write_length' > 0 /\ write_length' \in Nat
      /\ read_length' \in Nat
  BY <1>1, SpiAssumption DEF SpiInv, Counters, Ranges, Lengths, Quiet, Loop, caller, shifter
<1>6. Len(heard') = 0 /\ Len(read_data') = 0
  BY <1>1, <1>2 DEF caller, selection
<1>7. Counts' /\ Data'
  BY <1>1, <1>5, <1>6, <1>2 DEF Counts, Data, Sent, Got, caller, selection
<1>8. OneByte' /\ Place'
  BY <1>1, <1>5, <1>6 DEF OneByte, Place, Sent, Got, Complete, caller, selection
<1> QED  BY <1>3, <1>4, <1>7, <1>8 DEF SpiInv, Counters

LEMMA DiscardStep == ASSUME SpiInv, Discard PROVE SpiInv'
<1>1. /\ pc = "discard" /\ pc' = "poll" /\ RRDY' = FALSE
      /\ UNCHANGED <<caller, command, status, shifter, rx_holding_reg, ROE, selection>>
  BY DEF Discard
<1>2. Flags' /\ Quiet' /\ Selected'
  BY <1>1 DEF SpiInv, Flags, Quiet, Selected, status, shifter, caller, command, selection, InAccess
<1>3. Ranges' /\ Lengths'
  BY <1>1 DEF SpiInv, Counters, Ranges, Lengths, caller, command, shifter, selection
<1>4. InAccess /\ InAccess' /\ transmitting' = FALSE
  BY <1>1 DEF InAccess, SpiInv, Quiet, shifter
<1>5. Counts' /\ Data'
  BY <1>1, <1>4 DEF SpiInv, Counters, Counts, Data, Sent, Got, Byte, caller, command, shifter, selection
<1>6. OneByte' /\ Place'
  BY <1>1, <1>4 DEF SpiInv, Counters, Counts, OneByte, Place, Sent, Got, Complete, caller,
    command, shifter, selection
<1> QED  BY <1>2, <1>3, <1>5, <1>6 DEF SpiInv, Counters

LEMMA PollStep == ASSUME SpiInv, Poll PROVE SpiInv'
<1>1. /\ pc = "poll" /\ pc' \in {"poll", "send"} /\ status_TRDY' = TRDY /\ status_RRDY' = RRDY
      /\ UNCHANGED <<caller, command, shifter, receiver, selection>>
  BY DEF Poll
<1>2. Flags' /\ Quiet' /\ Selected'
  BY <1>1 DEF SpiInv, Flags, Quiet, Selected, TRDY, shifter, receiver, caller, command, selection, InAccess
<1>3. Ranges' /\ Lengths'
  BY <1>1 DEF SpiInv, Counters, Ranges, Lengths, caller, command, shifter, receiver, selection
<1>4. pc \in Loop /\ pc' \in Loop /\ InAccess /\ InAccess'
  BY <1>1 DEF InAccess, Loop
<1>5. Counts' /\ Data'
  BY <1>1, <1>4 DEF SpiInv, Counters, Counts, Data, Sent, Got, Byte, caller, command, shifter, selection
<1>6. OneByte' /\ Place'
  BY <1>1, <1>4 DEF SpiInv, Counters, OneByte, Place, Sent, Got, Byte, Complete, caller,
    command, shifter, receiver, selection
<1> QED  BY <1>2, <1>3, <1>5, <1>6 DEF SpiInv, Counters

\* With the credit and more to do, there is a byte to send.
LEMMA MoreToSend ==
  ASSUME SpiInv, pc = "send", credits > 0
  PROVE  /\ credits = 1 /\ ~transmitting /\ ~RRDY /\ Sent = Got
         /\ write_data < write_length \/ write_zeros > 0
         /\ Len(heard) = Sent
<1>1. InAccess /\ pc \in Loop /\ ~Complete
  BY DEF InAccess, Loop, SpiInv, Counters, Place
<1>2. /\ credits \in 0..1 /\ write_data \in Nat /\ write_zeros \in Nat /\ read_ignore \in Nat
      /\ write_length \in Nat /\ read_length \in Nat /\ Len(read_data) \in Nat
      /\ Len(heard) \in Nat
  BY SpiAssumption DEF SpiInv, Counters, Ranges
<1>3. credits = 1 /\ ~transmitting /\ ~RRDY
  BY <1>1, <1>2 DEF SpiInv, Counters, OneByte
<1>4. /\ write_data <= write_length /\ write_zeros <= read_length
      /\ read_ignore <= write_length /\ Len(read_data) <= read_length
      /\ 1 = 1 - (Sent - Got) /\ Len(heard) = Sent
  BY <1>1, <1>3 DEF SpiInv, Counters, Counts
<1>5. Sent = Got
  BY <1>2, <1>4 DEF Sent, Got
<1>6. read_ignore # 0 \/ Len(read_data) # read_length
  BY <1>1 DEF Complete
<1> QED  BY <1>2, <1>3, <1>4, <1>5, <1>6 DEF Sent, Got

LEMMA TransmitStep ==
  ASSUME SpiInv, pc = "send", pc' = "receive", credits > 0, NEW byte, Transmit(byte),
         byte = Byte(Sent + 1), byte \in Nat, Sent' = Sent + 1,
         write_data' <= write_length, write_zeros' <= read_length,
         write_data' \in 0..MaxBytes + 1, write_zeros' \in 0..MaxBytes,
         write_zeros' < read_length => write_data' = write_length,
         credits' = credits - 1,
         UNCHANGED <<caller, read_ignore, read_data, status, receiver, selection>>
  PROVE  SpiInv'
<1>1. credits = 1 /\ ~transmitting /\ ~RRDY /\ Sent = Got /\ Len(heard) = Sent
  BY MoreToSend
<1>2. /\ transmitting' = TRUE /\ tx_holding_primed' = FALSE /\ TOE' = TOE
      /\ shift_reg' = byte /\ tx_holding_reg' = tx_holding_reg
  BY <1>1 DEF Transmit, TRDY, SpiInv, Quiet, Flags
<1>3. Flags' /\ Quiet' /\ Selected'
  BY <1>1, <1>2 DEF SpiInv, Flags, Quiet, Selected, status, receiver, caller, command, selection, InAccess
<1>4. Ranges' /\ Lengths'
  BY <1>1, <1>2 DEF SpiInv, Counters, Ranges, Lengths, caller, receiver, selection
<1>5. pc \in Loop /\ pc' \in Loop /\ InAccess /\ InAccess'
  BY DEF InAccess, Loop
<1>6. Sent \in Int /\ Got \in Int /\ Got' = Got
  BY SpiAssumption DEF SpiInv, Counters, Ranges, Sent, Got, caller
<1>7. Counts'
  <2>1. credits' = 1 - (Sent' - Got') /\ Len(heard') = Sent' - 1
    BY <1>1, <1>6 DEF caller, selection
  <2>2. /\ read_ignore' <= write_length' /\ Len(read_data') <= read_length'
        /\ Len(read_data') > 0 => read_ignore' = 0
    BY <1>5 DEF SpiInv, Counters, Counts, caller
  <2> QED  BY <1>2, <2>1, <2>2 DEF Counts, caller
<1>8. Data'
  BY <1>5 DEF SpiInv, Data, Byte, caller, selection
<1>9. OneByte'
  BY <1>1, <1>2 DEF OneByte, Byte, caller, receiver, selection
<1>10. Place'
  <2>1. ~Complete' /\ (status_RRDY' => RRDY')
    BY DEF SpiInv, Counters, Place, Complete, caller, status, receiver
  <2> QED  BY <2>1 DEF Place
<1> QED  BY <1>3, <1>4, <1>7, <1>8, <1>9, <1>10 DEF SpiInv, Counters

LEMMA SendStep == ASSUME SpiInv, Send PROVE SpiInv'
<1>1. /\ pc = "send" /\ pc' = "receive"
      /\ SendData \/ SendZero \/ SendNothing
      /\ UNCHANGED <<caller, read_ignore, read_data, status, receiver, selection>>
  BY DEF Send
<1>2. /\ write_data \in 0..MaxBytes + 1 /\ write_zeros \in 0..MaxBytes /\ MaxBytes \in Nat
      /\ write_length \in 0..MaxBytes + 1 /\ read_length \in 0..MaxBytes /\ credits \in 0..1
      /\ write_data <= write_length /\ write_zeros <= read_length
      /\ write_zeros < read_length => write_data = write_length
  BY <1>1, SpiAssumption DEF SpiInv, Counters, Ranges, Counts, InAccess
<1>3. CASE SendData
  <2>1. /\ credits > 0 /\ write_data < write_length /\ Transmit(write_data + 1)
        /\ write_data' = write_data + 1 /\ credits' = credits - 1 /\ write_zeros' = write_zeros
    BY <1>3 DEF SendData, MaySend
  <2>2. Sent = write_data /\ Sent' = Sent + 1 /\ write_data + 1 = Byte(Sent + 1)
    BY <1>1, <1>2, <2>1 DEF Sent, Byte, caller
  <2> QED  BY <1>1, <1>2, <2>1, <2>2, TransmitStep
<1>4. CASE SendZero
  <2>1. /\ credits > 0 /\ write_data >= write_length /\ write_zeros > 0 /\ Transmit(0)
        /\ write_zeros' = write_zeros - 1 /\ credits' = credits - 1 /\ write_data' = write_data
    BY <1>4 DEF SendZero, MaySend
  <2>2. write_data = write_length /\ Sent' = Sent + 1 /\ Byte(Sent + 1) = 0
    BY <1>1, <1>2, <2>1 DEF Sent, Byte, caller
  <2>3. /\ write_data' <= write_length /\ write_zeros' <= read_length
        /\ write_data' \in 0..MaxBytes + 1 /\ write_zeros' \in 0..MaxBytes
        /\ write_zeros' < read_length => write_data' = write_length
    BY <1>2, <2>1, <2>2
  <2> QED  BY <1>1, <2>1, <2>2, <2>3, TransmitStep
<1>5. CASE SendNothing
  <2>1. ~MaySend
    <3>1. SUFFICES ASSUME MaySend PROVE FALSE
      OBVIOUS
    <3>2. write_data >= write_length /\ write_zeros = 0 /\ credits > 0
      BY <1>5, <3>1 DEF SendNothing, MaySend
    <3> QED  BY <1>1, <1>2, <3>2, MoreToSend
  <2>2. UNCHANGED <<shifter, write_data, write_zeros, credits>>
    BY <1>5, <2>1 DEF SendNothing
  <2>3. Flags' /\ Quiet' /\ Selected'
    BY <1>1, <2>2 DEF SpiInv, Flags, Quiet, Selected, status, receiver, shifter, caller, command, selection, InAccess
  <2>4. Ranges' /\ Lengths'
    BY <1>1, <2>2 DEF SpiInv, Counters, Ranges, Lengths, caller, receiver, shifter, selection
  <2>5. pc \in Loop /\ pc' \in Loop /\ InAccess /\ InAccess'
    BY <1>1 DEF InAccess, Loop
  <2>6. Counts' /\ Data'
    BY <1>1, <2>2, <2>5 DEF SpiInv, Counters, Counts, Data, Sent, Got, Byte, caller, shifter, selection
  <2>7. OneByte' /\ Place'
    BY <1>1, <2>2, <2>5 DEF SpiInv, Counters, OneByte, Place, Sent, Got, Byte, Complete,
      caller, shifter, receiver, status, selection
  <2> QED  BY <2>3, <2>4, <2>6, <2>7 DEF SpiInv, Counters
<1> QED  BY <1>1, <1>3, <1>4, <1>5

LEMMA ReceiveStep == ASSUME SpiInv, Receive PROVE SpiInv'
<1>1. /\ pc = "receive" /\ status_RRDY /\ RRDY' = FALSE /\ credits' = credits + 1
      /\ UNCHANGED <<caller, write_data, write_zeros, status, shifter, rx_holding_reg,
                     ROE, selection>>
      /\ pc' = IF Complete' THEN "drain" ELSE "poll"
  BY DEF Receive
<1>2. \/ read_ignore > 0 /\ read_ignore' = read_ignore - 1 /\ read_data' = read_data
      \/ /\ read_ignore = 0 /\ read_data' = Append(read_data, rx_holding_reg)
         /\ read_ignore' = read_ignore
  BY DEF Receive
<1>3. pc \in Loop /\ InAccess /\ pc' \in Loop /\ InAccess'
  BY <1>1 DEF Loop, InAccess
<1>4. /\ MaxBytes \in Nat /\ write_data \in Nat /\ write_zeros \in Nat
      /\ read_ignore \in 0..MaxBytes + 1 /\ write_length \in Nat /\ read_length \in Nat
      /\ credits \in 0..1 /\ read_data \in Seq(Nat) /\ heard \in Seq(Nat) /\ cut_off \in Seq(Nat)
      /\ Len(cut_off) \in Nat
      /\ rx_holding_reg \in Nat /\ Len(read_data) \in Nat /\ Len(heard) \in Nat
  BY SpiAssumption DEF SpiInv, Counters, Ranges
<1>5. RRDY /\ ~transmitting /\ credits = 0
  BY <1>1, <1>3, <1>4 DEF SpiInv, Counters, Place, OneByte, Quiet
<1>6. /\ write_data <= write_length /\ write_zeros <= read_length
      /\ read_ignore <= write_length /\ Len(read_data) <= read_length
      /\ write_zeros < read_length => write_data = write_length
      /\ Len(read_data) > 0 => read_ignore = 0
      /\ 0 = 1 - (Sent - Got) /\ Len(heard) = Sent /\ rx_holding_reg = Len(cut_off) + Sent
  BY <1>3, <1>5 DEF SpiInv, Counters, Counts, OneByte
<1>7. ~Complete
  BY <1>1 DEF SpiInv, Counters, Place
<1>8. /\ read_data' \in Seq(Nat) /\ Len(read_data') \in Nat
      /\ Len(read_data') <= read_length /\ read_ignore' \in 0..MaxBytes + 1
      /\ read_ignore' <= write_length
      /\ Len(read_data') > 0 => read_ignore' = 0
      /\ Sent' = Sent /\ Got' = Got + 1
  <2>1. Sent' = Sent
    BY <1>1 DEF Sent, caller
  <2>2. CASE read_ignore > 0 /\ read_ignore' = read_ignore - 1 /\ read_data' = read_data
    BY <1>1, <1>4, <1>6, <2>1, <2>2 DEF Got, caller
  <2>3. CASE /\ read_ignore = 0 /\ read_data' = Append(read_data, rx_holding_reg)
             /\ read_ignore' = read_ignore
    <3>1. read_data' \in Seq(Nat) /\ Len(read_data') = Len(read_data) + 1
      BY <1>4, <2>3
    <3>2. Len(read_data) # read_length
      BY <1>7, <2>3 DEF Complete
    <3> QED  BY <1>1, <1>4, <1>6, <2>1, <2>3, <3>1, <3>2 DEF Got, caller
  <2> QED  BY <1>2, <2>2, <2>3
<1>9. Flags' /\ Quiet' /\ Selected'
  BY <1>1, <1>3, <1>5 DEF SpiInv, Flags, Quiet, Selected, status, shifter, Loop, caller, command, selection, InAccess
<1>10. Ranges' /\ Lengths'
  BY <1>1, <1>3, <1>5, <1>8 DEF SpiInv, Counters, Ranges, Lengths, caller, shifter, Loop, selection
<1>11. Counts'
  <2>1. Sent \in Int /\ Got \in Int
    BY <1>4 DEF Sent, Got
  <2>2. credits' = 1 - (Sent' - Got') /\ transmitting' = FALSE /\ Len(heard') = Sent'
    BY <1>1, <1>5, <1>6, <1>8, <2>1 DEF shifter, caller, selection
  <2>3. /\ write_data' = write_data /\ write_zeros' = write_zeros
        /\ write_length' = write_length /\ read_length' = read_length
    BY <1>1 DEF caller
  <2> QED  BY <1>6, <1>8, <2>2, <2>3 DEF Counts
<1>12. Data'
  <2>1. \A i \in 1..Len(heard') : heard'[i] = Byte(i)'
    BY <1>1, <1>3 DEF SpiInv, Data, Byte, caller, selection
  <2>2. \A i \in 1..Len(read_data) : read_data[i] = Len(cut_off) + (write_length + i)
    BY <1>3 DEF SpiInv, Data
  <2>3. CASE read_data' = read_data
    BY <1>1, <2>1, <2>2, <2>3 DEF Data, caller, selection, InAccess
  <2>4. CASE read_ignore = 0 /\ read_data' = Append(read_data, rx_holding_reg)
    <3>1. rx_holding_reg = Len(cut_off) + (write_length + (Len(read_data) + 1))
      <4>1. Got = write_length + Len(read_data)
        BY <1>4, <2>4 DEF Got
      <4>2. Sent \in Int
        BY <1>4 DEF Sent
      <4> QED  BY <1>4, <1>6, <4>1, <4>2
    <3>2. ASSUME NEW i \in 1..Len(read_data')
          PROVE  read_data'[i] = Len(cut_off) + (write_length + i)
      <4>1. Len(read_data') = Len(read_data) + 1
        BY <1>4, <2>4
      <4>2. CASE i = Len(read_data) + 1
        BY <1>4, <2>4, <3>1, <4>2
      <4>3. CASE i # Len(read_data) + 1
        <5>1. i \in 1..Len(read_data)
          BY <1>4, <4>1, <4>3
        <5>2. read_data'[i] = read_data[i]
          BY <1>4, <2>4, <5>1
        <5> QED  BY <2>2, <5>1, <5>2
      <4> QED  BY <4>2, <4>3
    <3> QED  BY <1>1, <2>1, <3>2 DEF Data, caller, selection, InAccess
  <2> QED  BY <1>2, <2>3, <2>4
<1>13. OneByte'
  BY <1>1, <1>5 DEF OneByte, shifter, caller, selection
<1>14. Place'
  BY <1>1 DEF Place, caller, selection
<1> QED  BY <1>9, <1>10, <1>11, <1>12, <1>13, <1>14 DEF SpiInv, Counters

\* Steps that change nothing but the place in the loop.
LEMMA LoopStep ==
  ASSUME SpiInv, pc \in Loop, pc' \in Loop,
         UNCHANGED <<caller, command, status, shifter, receiver, selection>>,
         pc' \in {"drain", "release"} => Complete,
         pc' \in {"poll"} => ~Complete,
         pc' \notin {"send", "receive"}
  PROVE  SpiInv'
<1>1. InAccess /\ InAccess' /\ pc' \notin {"idle", "select", "discard", "boot", "reset"}
      /\ pc \notin {"idle", "boot", "reset"}
  BY DEF Loop, InAccess
<1>2. Flags' /\ Quiet' /\ Selected'
  BY <1>1 DEF SpiInv, Flags, Quiet, Selected, status, shifter, receiver, caller, command, selection, InAccess
<1>3. Ranges' /\ Lengths'
  BY <1>1 DEF SpiInv, Counters, Ranges, Lengths, caller, command, shifter, receiver, Loop, selection
<1>4. Counts' /\ Data'
  BY <1>1 DEF SpiInv, Counters, Counts, Data, Sent, Got, Byte, caller, command, shifter, selection
<1>5. OneByte'
  BY DEF SpiInv, Counters, OneByte, Sent, Byte, caller, command, shifter, receiver, selection
<1>6. Place'
  BY <1>1 DEF Place, Complete, caller, command, selection
<1> QED  BY <1>2, <1>3, <1>4, <1>5, <1>6 DEF SpiInv, Counters

LEMMA IdleSteps == ASSUME SpiInv, ReceiveNothing \/ Drain PROVE SpiInv'
<1>1. CASE ReceiveNothing
  BY <1>1, LoopStep DEF ReceiveNothing, Loop, SpiInv, Counters, Place
<1>2. CASE Drain
  BY <1>2, LoopStep DEF Drain, Loop, SpiInv, Counters, Place
<1> QED  BY <1>1, <1>2

\* All is sent and answered when the chip is released.
LEMMA AllDone ==
  ASSUME SpiInv, pc \in {"drain", "release"}
  PROVE  /\ ~transmitting
         /\ Len(heard) = write_length + read_length /\ Len(read_data) = read_length
<1>1. pc \in Loop /\ InAccess /\ read_ignore = 0 /\ Len(read_data) = read_length
  BY DEF Loop, InAccess, SpiInv, Counters, Place, Complete
<1>2. /\ write_data \in Nat /\ write_zeros \in Nat /\ write_length \in Nat
      /\ read_length \in Nat /\ credits \in 0..1
  BY SpiAssumption DEF SpiInv, Counters, Ranges
<1>3. /\ write_data <= write_length /\ write_zeros <= read_length
      /\ credits = 1 - (Sent - Got)
      /\ Len(heard) = IF transmitting THEN Sent - 1 ELSE Sent
  BY <1>1 DEF SpiInv, Counters, Counts
<1>4. credits = 1 /\ Sent = write_length + read_length
  BY <1>1, <1>2, <1>3 DEF Sent, Got
<1>5. ~transmitting
  BY <1>1, <1>4 DEF SpiInv, Counters, OneByte
<1> QED  BY <1>1, <1>3, <1>4, <1>5

LEMMA ReleaseStep == ASSUME SpiInv, Release PROVE SpiInv'
<1>1. /\ pc = "release" /\ pc' = (IF starting THEN "reset" ELSE "idle") /\ SSO' = FALSE
      /\ UNCHANGED <<caller, command, status, shifter, receiver, cut_off, heard>>
  BY DEF Release
<1>2. ~transmitting
  BY <1>1, AllDone
<1>3. Flags' /\ Quiet' /\ Selected'
  BY <1>1, <1>2 DEF SpiInv, Flags, Quiet, Selected, status, shifter, receiver, caller, command, selection, InAccess
<1>4. Ranges' /\ Lengths'
  BY <1>1 DEF SpiInv, Counters, Ranges, Lengths, caller, command, shifter, receiver, selection
<1>5. ~InAccess' /\ pc' \notin Loop
  BY <1>1 DEF InAccess, Loop
<1> QED  BY <1>1, <1>3, <1>4, <1>5 DEF SpiInv, Counters, Counts, OneByte, Place, Data

LEMMA RestartStep == ASSUME SpiInv, Restart PROVE SpiInv'
<1>1. /\ pc' = "boot" /\ starting' = TRUE /\ restarts < MaxRestarts /\ restarts' = restarts + 1
      /\ write_length' = 0 /\ read_length' = 0 /\ write_data' = 0
      /\ write_zeros' = 0 /\ read_ignore' = 0 /\ credits' = 0 /\ read_data' = <<>>
      /\ status_TRDY' = FALSE /\ status_RRDY' = FALSE
      /\ UNCHANGED <<shifter, receiver, selection>>
  BY DEF Restart
<1>2. Flags' /\ Quiet' /\ Selected'
  BY <1>1 DEF SpiInv, Flags, Quiet, Selected, shifter, receiver, caller, command, selection, InAccess
<1>3. Ranges' /\ Lengths'
  BY <1>1, SpiAssumption DEF SpiInv, Counters, Ranges, Lengths, shifter, receiver, caller, selection
<1>4. ~InAccess' /\ pc' \notin Loop
  BY <1>1 DEF InAccess, Loop
<1> QED  BY <1>1, <1>2, <1>3, <1>4 DEF SpiInv, Counters, Counts, OneByte, Place, Data

LEMMA ResetStep == ASSUME SpiInv, ResetChip PROVE SpiInv'
<1>1. /\ pc = "reset" /\ pc' = "idle" /\ starting' = FALSE
      /\ UNCHANGED <<restarts, write_length, read_length, command, status, shifter, receiver, selection>>
  BY DEF ResetChip
<1>2. Flags' /\ Quiet' /\ Selected'
  BY <1>1 DEF SpiInv, Flags, Quiet, Selected, InAccess, status, shifter, receiver, selection
<1>3. Ranges' /\ Lengths'
  BY <1>1 DEF SpiInv, Counters, Ranges, Lengths, command, shifter, receiver, selection
<1>4. ~InAccess' /\ pc' \notin Loop
  BY <1>1 DEF InAccess, Loop
<1> QED  BY <1>1, <1>2, <1>3, <1>4 DEF SpiInv, Counters, Counts, OneByte, Place, Data

LEMMA ByteStep == ASSUME SpiInv, ByteDone PROVE SpiInv'
<1>1. /\ transmitting /\ RRDY' = TRUE /\ heard' = Append(heard, shift_reg)
      /\ rx_holding_reg' = Len(cut_off) + Len(heard')
      /\ UNCHANGED <<pc, caller, command, status, tx_holding_reg, TOE, SSO, cut_off>>
  BY DEF ByteDone
<1>2. ~tx_holding_primed /\ ~RRDY /\ ~ROE
  BY <1>1 DEF SpiInv, Quiet
<1>3. /\ transmitting' = FALSE /\ tx_holding_primed' = FALSE /\ ROE' = FALSE
      /\ shift_reg' = shift_reg
  BY <1>2 DEF ByteDone, SpiInv, Flags
<1>4. pc \notin {"idle", "reset", "select", "discard"}
  BY <1>1 DEF SpiInv, Quiet
<1>5. Flags' /\ Quiet' /\ Selected'
  BY <1>1, <1>3, <1>4 DEF SpiInv, Flags, Quiet, Selected, status, command, caller, selection, InAccess
<1>6. /\ heard \in Seq(Nat) /\ shift_reg \in Nat /\ heard' \in Seq(Nat)
      /\ Len(heard) \in Nat /\ Len(heard') = Len(heard) + 1
  BY <1>1 DEF SpiInv, Counters, Ranges, caller, selection
<1>7. Ranges' /\ Lengths'
  BY <1>1, <1>3, <1>6 DEF SpiInv, Counters, Ranges, Lengths, caller, command, selection
<1>8. Sent' = Sent /\ Got' = Got /\ Complete' = Complete /\ Sent \in Int
  BY <1>1, SpiAssumption DEF Sent, Got, Complete, caller, command, SpiInv, Counters, Ranges
<1>9. InAccess => pc \in Loop
  BY <1>4 DEF InAccess, Loop
<1>10. Counts'
  BY <1>1, <1>3, <1>6, <1>8 DEF SpiInv, Counters, Counts, caller, command, selection, InAccess
<1>11. Data'
  <2> SUFFICES ASSUME InAccess PROVE Data'
    BY <1>1 DEF Data, caller, selection, InAccess
  <2>1. shift_reg = Byte(Sent) /\ Len(heard) = Sent - 1
    BY <1>1, <1>9 DEF SpiInv, Counters, Counts, OneByte
  <2>2. \A i \in 1..Len(heard) : heard[i] = Byte(i)
    BY DEF SpiInv, Data
  <2>3. ASSUME NEW i \in 1..Len(heard') PROVE heard'[i] = Byte(i)
    BY <1>1, <1>6, <1>8, <2>1, <2>2, <2>3 DEF caller, selection
  <2> QED  BY <1>1, <2>3 DEF SpiInv, Data, Byte, caller, command
<1>12. OneByte'
  BY <1>1, <1>2, <1>3 DEF SpiInv, Counters, OneByte, command, caller, selection
<1>13. Place'
  BY <1>1, <1>4, <1>8 DEF SpiInv, Counters, Place, status, caller, selection
<1> QED  BY <1>5, <1>7, <1>10, <1>11, <1>12, <1>13 DEF SpiInv, Counters

LEMMA StutterStep == ASSUME SpiInv, UNCHANGED spiVars PROVE SpiInv'
BY DEF spiVars, SpiInv, Flags, Quiet, Selected, Counters, Ranges, Lengths, Counts, OneByte, Place,
  Data, Sent, Got, Byte, Complete, InAccess, caller, command, status, shifter, receiver,
  selection

-----------------------------------------------------------------------------
\* The inductive invariant of one access after the other, with restarts at any
\* point and the write that goes on with a selection (MAX3421E.c:241).
THEOREM SpiInvariance == SpiSpec => []SpiInv
<1>1. SpiInv /\ [SpiNext]_spiVars => SpiInv'
  <2> SUFFICES ASSUME SpiInv, [SpiNext]_spiVars PROVE SpiInv'
    OBVIOUS
  <2>1. CASE Access \/ SetPins
    BY <2>1, AccessStep
  <2>2. CASE Command
    BY <2>2, SelectStep, DiscardStep, PollStep, SendStep, ReceiveStep, IdleSteps, ReleaseStep
    DEF Command
  <2>3. CASE ByteDone
    BY <2>3, ByteStep
  <2>4. CASE Restart \/ ResetChip
    BY <2>4, RestartStep, ResetStep
  <2>5. CASE UNCHANGED spiVars
    BY <2>5, StutterStep
  <2> QED  BY <2>1, <2>2, <2>3, <2>4, <2>5 DEF SpiNext, Boot
<1> QED  BY InitHolds, <1>1, PTL DEF SpiSpec

\* The counters of an access keep their ranges: no credit is taken twice.
THEOREM SpiTypeCorrect == SpiSpec => []SpiTypeOK
<1>1. SpiInv => SpiTypeOK
  BY DEF SpiInv, Counters, SpiTypeOK
<1> QED  BY SpiInvariance, <1>1, PTL

\* No byte and no answer is lost in the master (altera_avalon_spi.c:53-57,76).
THEOREM NothingLost == SpiSpec => []NothingOverrun
<1>1. SpiInv => NothingOverrun
  BY DEF SpiInv, Quiet, NothingOverrun
<1> QED  BY SpiInvariance, <1>1, PTL

-----------------------------------------------------------------------------
(* The refinement.                                                         *)

\* What the chip has heard, and what it will have once the master is through.
LEMMA Sequences ==
  ASSUME SpiInv
  PROVE  /\ heard \in Seq(Nat) /\ cut_off \in Seq(Nat) /\ Shifting \in Seq(Nat)
         /\ shift_reg \in Nat /\ transmitting \in BOOLEAN
<1>1. heard \in Seq(Nat) /\ cut_off \in Seq(Nat) /\ shift_reg \in Nat
  BY DEF SpiInv, Counters, Ranges
<1> QED  BY <1>1 DEF Shifting, SpiInv, Flags

\* The bytes of an access, heard or on their way, are its first ones.
LEMMA FirstBytes ==
  ASSUME SpiInv, InAccess
  PROVE  /\ Sent \in 0..write_length + read_length
         /\ heard \o Shifting = Chip!Bytes(write_length, Sent)
<1>1. /\ write_data \in Nat /\ write_zeros \in Nat /\ write_length \in Nat /\ read_length \in Nat
      /\ write_data <= write_length /\ write_zeros <= read_length
      /\ Len(heard) = IF transmitting THEN Sent - 1 ELSE Sent
      /\ \A i \in 1..Len(heard) : heard[i] = Byte(i)
  BY SpiAssumption DEF SpiInv, Counters, Ranges, Counts, Data
<1>2. Sent \in 0..write_length + read_length
  BY <1>1 DEF Sent
<1>3. CASE ~transmitting
  <2>1. Shifting = <<>> /\ heard \o <<>> = heard
    BY <1>3, Sequences, ConcatEmptySeq DEF Shifting
  <2>2. heard = [i \in 1..Sent |-> heard[i]]
    BY <1>1, <1>2, <1>3, Sequences
  <2>3. heard = [i \in 1..Sent |-> Byte(i)]
    BY <1>1, <1>3, <2>2
  <2> QED  BY <1>2, <2>1, <2>3 DEF Chip!Bytes, Byte
<1>4. CASE transmitting
  <2>1. Shifting = <<shift_reg>> /\ heard \o <<shift_reg>> = Append(heard, shift_reg)
    BY <1>4, Sequences, AppendIsConcat DEF Shifting
  <2>2. shift_reg = Byte(Sent)
    BY <1>4 DEF SpiInv, Quiet, Counters, OneByte, InAccess, Loop
  <2> DEFINE s == Append(heard, shift_reg)
  <2>3. Len(heard) = Sent - 1 /\ Len(s) = Sent
    BY <1>1, <1>2, <1>4, Sequences
  <2>4. s \in Seq(Nat)
    BY Sequences
  <2>5. ASSUME NEW i \in 1..Sent PROVE s[i] = Byte(i)
    <3>1. CASE i = Sent
      BY <1>2, <2>2, <2>3, <3>1, Sequences
    <3>2. CASE i # Sent
      <4>1. i \in 1..Len(heard)
        BY <1>2, <2>3, <3>2
      <4> QED  BY <1>1, <4>1, Sequences
    <3> QED  BY <3>1, <3>2
  <2> HIDE DEF s
  <2>6. s = [i \in 1..Sent |-> s[i]]
    BY <2>3, <2>4
  <2>7. s = [i \in 1..Sent |-> Byte(i)]
    BY <2>5, <2>6
  <2> QED  BY <1>2, <2>1, <2>7 DEF s, Chip!Bytes, Byte
<1> QED  BY <1>2, <1>3, <1>4

\* A byte that is on its way is counted as heard when its access is cut off.
LEMMA AlreadyHeard ==
  ASSUME SpiInv, ByteDone, ~InAccess
  PROVE  cut_off' \o heard' \o Shifting' = cut_off \o heard \o Shifting
<1>1. /\ transmitting /\ heard' = Append(heard, shift_reg) /\ cut_off' = cut_off
      /\ transmitting' = FALSE
  BY DEF ByteDone, SpiInv, Quiet
<1>2. Shifting = <<shift_reg>> /\ Shifting' = <<>>
  BY <1>1 DEF Shifting
<1>3. heard \in Seq(Nat) /\ cut_off \in Seq(Nat) /\ shift_reg \in Nat /\ heard' \in Seq(Nat)
  BY <1>1, Sequences
<1>4. heard' = heard \o <<shift_reg>>
  BY <1>1, <1>3, AppendIsConcat
<1>5. (cut_off \o heard') \o <<>> = cut_off \o heard'
  BY <1>3, ConcatProperties, ConcatEmptySeq
<1>6. cut_off \o (heard \o <<shift_reg>>) = (cut_off \o heard) \o <<shift_reg>>
  BY <1>3, ConcatAssociative
<1> QED  BY <1>1, <1>2, <1>4, <1>5, <1>6

LEMMA NothingShifting ==
  ASSUME SpiInv, ~transmitting
  PROVE  Shifting = <<>> /\ cut_off \o heard \o Shifting = cut_off \o heard
<1>1. cut_off \o heard \in Seq(Nat)
  BY Sequences, ConcatProperties
<1> QED  BY <1>1, ConcatEmptySeq DEF Shifting

LEMMA Selects ==
  ASSUME SpiInv, Select
  PROVE  /\ pc = "select" /\ pc' = "discard" /\ ~InAccess /\ InAccess'
         /\ SSO' = TRUE /\ UNCHANGED <<starting, write_length, read_length>>
         /\ cut_off' = IF SSO THEN cut_off \o heard \o Shifting ELSE <<>>
<1>1. pc = "select" /\ pc' = "discard" /\ ~transmitting
  BY DEF Select, SpiInv, Quiet
<1>2. /\ SSO' = TRUE /\ UNCHANGED caller
      /\ cut_off' = IF SSO THEN cut_off \o heard ELSE <<>>
  BY DEF Select
<1>3. cut_off \o heard \o Shifting = cut_off \o heard
  BY <1>1, NothingShifting
<1>4. ~InAccess /\ InAccess'
  BY <1>1 DEF InAccess
<1> QED  BY <1>1, <1>2, <1>3, <1>4 DEF caller

LEMMA Begins ==
  ASSUME SpiInv, Select
  PROVE  Chip!Begin \/ Chip!SetPins
<1>1. CASE starting
  <2>1. write_length = 2 /\ read_length = 0
    BY <1>1, Selects DEF SpiInv, Selected
  <2> QED  BY <1>1, <2>1, Selects DEF Chip!SetPins, Chip!None
<1>2. CASE ~starting
  <2>1. ~SSO
    BY <1>2, Selects DEF SpiInv, Selected
  <2>2. write_length \in 1..MaxBytes + 1 /\ read_length \in 0..MaxBytes
    <3>1. write_length \in 0..MaxBytes + 1 /\ read_length \in 0..MaxBytes
      BY DEF SpiInv, Counters, Ranges
    <3>2. write_length > 0
      BY Selects DEF SpiInv, Counters, Lengths
    <3> QED  BY <3>1, <3>2, SpiAssumption
  <2> QED  BY <1>2, <2>1, <2>2, Selects DEF Chip!Begin, Chip!None
<1>3. starting \in BOOLEAN
  BY DEF SpiInv, Flags
<1> QED  BY <1>1, <1>2, <1>3

LEMMA Returns == ASSUME SpiInv, Release PROVE Chip!Return
<1>1. /\ pc = "release" /\ pc' \in {"reset", "idle"} /\ SSO' = FALSE
      /\ UNCHANGED <<caller, command, shifter, cut_off, heard>>
  BY DEF Release
<1>2. InAccess /\ ~InAccess'
  BY <1>1 DEF InAccess
<1>3. /\ ~transmitting
      /\ Len(heard) = write_length + read_length /\ Len(read_data) = read_length
      /\ read_data \in Seq(Nat) /\ write_length \in Nat /\ read_length \in Nat
  BY <1>1, AllDone, SpiAssumption DEF SpiInv, Counters, Ranges
<1>4. heard = Chip!Bytes(write_length, write_length + read_length)
  <2>1. heard \o <<>> = heard
    BY Sequences, ConcatEmptySeq
  <2>2. Len(heard) = Sent
    BY <1>2, <1>3 DEF SpiInv, Counters, Counts
  <2> QED  BY <1>2, <1>3, <2>1, <2>2, NothingShifting, FirstBytes
<1>5. read_data = Chip!Answers(write_length, read_length)
  <2>1. read_length = 0 \/ Len(cut_off) = 0
    BY <1>2 DEF SpiInv, Selected, Flags
  <2>2. \A i \in 1..read_length : read_data[i] = Len(cut_off) + (write_length + i)
    BY <1>2, <1>3 DEF SpiInv, Data
  <2>3. ASSUME NEW i \in 1..read_length PROVE read_data[i] = write_length + i
    <3>1. Len(cut_off) = 0 /\ i \in Nat
      BY <1>3, <2>1
    <3>2. read_data[i] = Len(cut_off) + (write_length + i)
      BY <2>2
    <3> QED  BY <1>3, <3>1, <3>2
  <2>4. read_data = [i \in 1..read_length |-> read_data[i]]
    BY <1>3
  <2>5. read_data = [i \in 1..read_length |-> write_length + i]
    BY <2>3, <2>4
  <2> QED  BY <2>5 DEF Chip!Answers
<1>6. /\ cut_off' \o heard' \o Shifting' = cut_off \o heard
      /\ read_data' = read_data /\ starting' = starting
  <2>1. cut_off' = cut_off /\ heard' = heard /\ Shifting' = Shifting
    BY <1>1 DEF shifter, Shifting
  <2> QED  BY <1>1, <1>3, <2>1, NothingShifting DEF command, caller
<1>7. <<write_length, read_length>> # <<>>
  OBVIOUS
<1> QED  BY <1>1, <1>2, <1>4, <1>5, <1>6, <1>7 DEF Chip!Return, Chip!None

LEMMA Abandons == ASSUME SpiInv, Restart PROVE Chip!Abandon
<1>1. /\ starting' = TRUE /\ pc' = "boot" /\ read_data' = <<>>
      /\ UNCHANGED <<shifter, selection>>
  BY DEF Restart
<1>2. ~InAccess' /\ SSO' = SSO /\ cut_off' = cut_off /\ heard' = heard /\ Shifting' = Shifting
  BY <1>1 DEF InAccess, shifter, selection, Shifting
<1>3. CASE ~InAccess
  BY <1>1, <1>2, <1>3 DEF Chip!Abandon, Chip!None
<1>4. CASE InAccess
  <2>1. (cut_off \o heard) \o Shifting = cut_off \o (heard \o Shifting)
    BY Sequences, ConcatAssociative
  <2>2. /\ Sent \in 0..write_length + read_length
        /\ (cut_off \o heard) \o Shifting = cut_off \o Chip!Bytes(write_length, Sent)
    BY <1>4, <2>1, FirstBytes
  <2>3. <<write_length, read_length>> # <<>>
    OBVIOUS
  <2> QED  BY <1>1, <1>2, <1>4, <2>2, <2>3 DEF Chip!Abandon, Chip!None
<1> QED  BY <1>3, <1>4

\* Every access sends its bytes and gets its answers, in order and in one
\* selection of the chip, once the chip was reset after a restart; the one
\* access before that is heard behind what was cut off
\* (altera_avalon_spi.c:71-76,106-115,130; MAX3421E.c:241-242).
THEOREM SpiRefinement == SpiSpec => AccessesChip
<1> DEFINE ChipVars == <<starting, IF InAccess THEN <<write_length, read_length>> ELSE <<>>, SSO,
                         IF InAccess THEN cut_off ELSE cut_off \o heard \o Shifting,
                         IF InAccess THEN <<>> ELSE read_data>>
<1>1. SpiInit => Chip!Init
  <2> SUFFICES ASSUME SpiInit PROVE Chip!Init
    OBVIOUS
  <2>1. ~InAccess /\ SpiInv /\ ~transmitting
    BY InitHolds DEF SpiInit, InAccess
  <2>2. <<>> \o <<>> = <<>>
    BY ConcatEmptySeq, <<>> \in Seq(Nat)
  <2>3. cut_off \o heard \o Shifting = <<>>
    BY <2>1, <2>2, NothingShifting DEF SpiInit
  <2> QED  BY <2>1, <2>3 DEF SpiInit, Chip!Init, Chip!None
<1>2. SpiInv /\ [SpiNext]_spiVars => [Chip!Next]_ChipVars
  <2> SUFFICES ASSUME SpiInv, [SpiNext]_spiVars PROVE [Chip!Next]_ChipVars
    OBVIOUS
  <2>1. CASE Access \/ SetPins
    <3>1. PICK w, r : Call(w, r)
      BY <2>1 DEF Access, SetPins, MAXreg_wr, MAXreg_rd, MAXbytes_wr, MAXbytes_rd
    <3>2. pc \in {"idle", "boot"} /\ pc' = "select" /\ UNCHANGED <<starting, command, shifter, selection>>
      BY <2>1, <3>1 DEF Access, SetPins, Call
    <3>3. ~InAccess /\ ~InAccess' /\ UNCHANGED <<starting, SSO, cut_off, heard, Shifting, read_data>>
      BY <3>2 DEF InAccess, command, shifter, selection, Shifting
    <3> QED  BY <3>3
  <2>2. CASE Select
    BY <2>2, Begins DEF Chip!Next
  <2>3. CASE Release
    BY <2>3, Returns DEF Chip!Next
  <2>4. CASE Command /\ ~Select /\ ~Release
    <3>1. InAccess /\ InAccess' /\ UNCHANGED <<caller, selection>>
      BY <2>4 DEF Command, Discard, Poll, Send, Receive, ReceiveNothing, Drain, InAccess
    <3> QED  BY <3>1 DEF caller, selection
  <2>5. CASE ByteDone
    <3>1. UNCHANGED <<pc, caller, SSO, cut_off, read_data>> /\ InAccess' = InAccess
      BY <2>5 DEF ByteDone, InAccess, command
    <3>2. CASE InAccess
      BY <3>1, <3>2 DEF caller
    <3>3. CASE ~InAccess
      BY <2>5, <3>1, <3>3, AlreadyHeard DEF caller
    <3> QED  BY <3>2, <3>3
  <2>6. CASE Restart
    BY <2>6, Abandons DEF Chip!Next
  <2>7. CASE ResetChip
    <3>1. /\ pc = "reset" /\ pc' = "idle" /\ starting' = FALSE
          /\ UNCHANGED <<command, shifter, selection>>
      BY <2>7 DEF ResetChip
    <3>2. starting /\ ~SSO
      BY <3>1 DEF SpiInv, Selected
    <3>3. ~InAccess /\ ~InAccess' /\ UNCHANGED <<SSO, cut_off, heard, Shifting, read_data>>
      BY <3>1 DEF InAccess, command, shifter, selection, Shifting
    <3>4. Chip!ResetChip
      BY <3>1, <3>2, <3>3 DEF Chip!ResetChip, Chip!None
    <3> QED  BY <3>4 DEF Chip!Next
  <2>8. CASE UNCHANGED spiVars
    BY <2>8 DEF spiVars, caller, command, shifter, selection, InAccess, Shifting
  <2> QED  BY <2>1, <2>2, <2>3, <2>4, <2>5, <2>6, <2>7, <2>8 DEF SpiNext, Boot
<1> QED  BY <1>1, <1>2, SpiInvariance, PTL DEF SpiSpec, AccessesChip, Chip!Spec

-----------------------------------------------------------------------------
(* Control transfers.                                                      *)

Bytes == Nat \X Nat
Jobs == [number : Nat, request : Requests]
Size(c) == IF c.request.type = "set" THEN 0
           ELSE IF c.request.nbytes < c.request.length
                THEN c.request.nbytes ELSE c.request.length

\* The part of the answer to c that starts after its first n bytes.
PartOf(c, n, s) == \A i \in 1..Len(s) : s[i] = <<c.number, n + i>>

TypeOK ==
  /\ stage \in {"idle", "setup", "data", "status"} /\ step \in {"launch", "wait"}
  /\ current \in Jobs /\ job \in Jobs
  /\ data \in Seq(Bytes) /\ fifo \in Seq(Bytes)
  /\ result \in {"none", "success", "failed"}
  /\ nak_count \in 0..NakLimit /\ retry_count \in 0..RetryLimit
  /\ toggle \in 0..1 /\ devToggle \in 0..1
  /\ {busy, rcvdav, present} \subseteq BOOLEAN
  /\ hrsl \in {"success", "NAK", "TIMEOUT", "TOGERR", "STALL", "error"}
  /\ phase \in {"idle", "data", "status"}
  /\ sent \in 0..Size(job)
  /\ faults \in 0..MaxFaults

\* The firmware is in a stage exactly while a request has no result.
Control ==
  /\ result = "none" <=> stage # "idle"
  /\ busy => stage # "idle" /\ step = "wait"
  /\ stage # "idle" => nak_count < NakLimit /\ retry_count < RetryLimit
  /\ stage = "data" => current.request.type = "get"

\* The packet that the firmware waits for has been answered with success, or
\* with an error that ends the request.
Success == Done /\ hrsl = "success"
Broken == Done /\ hrsl \notin {"success", "NAK", "TIMEOUT"}

\* The buffer holds the beginning of the answer, and all of it in the status
\* stage; what it holds was sent for this request.
Held ==
  /\ Len(data) <= Size(current)
  /\ PartOf(current, 0, data)
  /\ stage = "setup" => data = <<>>
  /\ stage = "status" => Len(data) = Size(current)
  /\ stage \in {"data", "status"} \/ (stage = "setup" /\ Success) => job = current

\* A SETUP packet that was taken makes host and device begin at the same place.
Begun ==
  stage = "setup" /\ Success => sent = 0 /\ devToggle = 1

\* With equal toggles the device sends what the host lacks; with different
\* ones, what the host has already.
InSync ==
  stage = "data" /\ ~Broken =>
    /\ ~Success => (devToggle = toggle => sent = Len(data))
    /\ Success =>
         /\ rcvdav /\ PartOf(current, Len(data), fifo)
         /\ Len(fifo) = IF Len(data) + DevicePkt < Size(current) THEN DevicePkt
                        ELSE Size(current) - Len(data)
         /\ devToggle = toggle => sent = Len(data) + Len(fifo)

\* Nothing was lost and nobody pulled the device out.
Clean == faults = MaxFaults /\ present

\* Then host and device are in the same stage of the same request.
Agree ==
  Clean =>
    /\ Done => hrsl \in {"success", "NAK"} /\ (stage = "setup" => hrsl = "success")
    /\ stage = "setup" /\ Success =>
         phase = IF current.request.type = "get" THEN "data" ELSE "status"
    /\ stage = "data" =>
         /\ devToggle = toggle
         /\ phase = IF Success /\ (Len(fifo) < DevicePkt \/ sent = current.request.nbytes)
                    THEN "status" ELSE "data"
    /\ stage = "status" /\ current.request.type = "set" /\ ~Success => phase = "status"

\* The inductive invariant.
IInv == TypeOK /\ Control /\ Held /\ Begun /\ InSync /\ Agree /\ FailsForAReason

-----------------------------------------------------------------------------
(* Requests, answers and packets.                                          *)

LEMMA RequestIs ==
  ASSUME NEW c \in Jobs
  PROVE  /\ c.number \in Nat /\ c.request \in Requests
         /\ c.request.type \in {"get", "set"}
         /\ c.request.nbytes \in Nat /\ c.request.length \in Nat
         /\ DevicePkt \in Nat /\ c.request.maxpktsize \in Nat
         /\ c.request.maxpktsize <= DevicePkt /\ DevicePkt > 0
         /\ c.request.maxpktsize = DevicePkt \/ c.request.nbytes <= c.request.maxpktsize
         /\ Size(c) \in Nat
<1>1. c.number \in Nat /\ c.request \in Requests
  BY DEF Jobs
<1>2. /\ c.request.type \in {"get", "set"}
      /\ c.request.nbytes \in Nat /\ c.request.length \in Nat
      /\ c.request.maxpktsize \in 1..DevicePkt
      /\ c.request.maxpktsize = DevicePkt \/ c.request.nbytes <= c.request.maxpktsize
  BY <1>1, ControlAssumption
<1>3. DevicePkt \in Nat
  BY ControlAssumption
<1> QED
  BY <1>1, <1>2, <1>3 DEF Size

LEMMA AnswerIs ==
  ASSUME NEW c \in Jobs
  PROVE  /\ Answer(c) \in Seq(Bytes) /\ Len(Answer(c)) = Size(c)
         /\ PartOf(c, 0, Answer(c))
<1> DEFINE n == Size(c)
<1>1. n \in Nat /\ c.number \in Nat
  BY RequestIs
<1>2. Answer(c) = [i \in 1..n |-> <<c.number, i>>]
  <2>1. CASE c.request.type = "set"
    BY <2>1 DEF Answer, Size
  <2>2. CASE c.request.type # "set"
    BY <2>2 DEF Answer, Size
  <2> QED
    BY <2>1, <2>2
<1> HIDE DEF n
<1>3. [i \in 1..n |-> <<c.number, i>>] \in Seq(Bytes)
  BY <1>1 DEF Bytes
<1>4. Len([i \in 1..n |-> <<c.number, i>>]) = n
  BY <1>1
<1> QED
  BY <1>1, <1>2, <1>3, <1>4 DEF PartOf, n

LEMMA PacketIs ==
  ASSUME TypeOK
  PROVE  /\ Packet \in Seq(Bytes)
         /\ Len(Packet) = IF sent + DevicePkt < Size(job) THEN DevicePkt ELSE Size(job) - sent
         /\ PartOf(job, sent, Packet)
<1> DEFINE n == IF sent + DevicePkt < Size(job) THEN sent + DevicePkt ELSE Size(job)
<1>1. job \in Jobs /\ sent \in 0..Size(job)
  BY DEF TypeOK
<1>2. Size(job) \in Nat /\ DevicePkt \in Nat
  BY <1>1, RequestIs
<1>3. /\ Answer(job) \in Seq(Bytes) /\ Len(Answer(job)) = Size(job)
      /\ PartOf(job, 0, Answer(job))
  BY <1>1, AnswerIs
<1>4. n \in sent..Size(job)
  BY <1>1, <1>2
<1>5. Packet = SubSeq(Answer(job), sent + 1, n)
  BY <1>3 DEF Packet
<1> HIDE DEF n
<1>6. /\ SubSeq(Answer(job), sent + 1, n) \in Seq(Bytes)
      /\ Len(SubSeq(Answer(job), sent + 1, n)) = n - sent
      /\ \A i \in 1..n - sent : SubSeq(Answer(job), sent + 1, n)[i] = Answer(job)[sent + i]
  BY <1>1, <1>2, <1>3, <1>4
<1>7. \A i \in 1..n - sent : Answer(job)[sent + i] = <<job.number, sent + i>>
  BY <1>1, <1>2, <1>3, <1>4 DEF PartOf
<1>8. PartOf(job, sent, Packet)
  BY <1>5, <1>6, <1>7 DEF PartOf
<1>9. n - sent = IF sent + DevicePkt < Size(job) THEN DevicePkt ELSE Size(job) - sent
  BY <1>1, <1>2 DEF n
<1> QED
  BY <1>5, <1>6, <1>8, <1>9

LEMMA Appended ==
  ASSUME NEW c, NEW s \in Seq(Bytes), NEW t \in Seq(Bytes),
         PartOf(c, 0, s), PartOf(c, Len(s), t)
  PROVE  /\ s \o t \in Seq(Bytes) /\ Len(s \o t) = Len(s) + Len(t)
         /\ PartOf(c, 0, s \o t)
         /\ IsPrefix(s, s \o t)
<1>1. /\ s \o t \in Seq(Bytes) /\ Len(s \o t) = Len(s) + Len(t)
      /\ Len(s) \in Nat /\ Len(t) \in Nat
  OBVIOUS
<1>2. \A i \in 1..Len(s) : (s \o t)[i] = s[i]
  OBVIOUS
<1>3. \A i \in 1..Len(t) : (s \o t)[Len(s) + i] = t[i]
  OBVIOUS
<1>4. PartOf(c, 0, s \o t)
  <2> SUFFICES ASSUME NEW i \in 1..Len(s \o t) PROVE (s \o t)[i] = <<c.number, 0 + i>>
    BY DEF PartOf
  <2>1. CASE i <= Len(s)
    BY <1>1, <1>2, <2>1 DEF PartOf
  <2>2. CASE i > Len(s)
    <3> DEFINE j == i - Len(s)
    <3>1. j \in 1..Len(t) /\ i = Len(s) + j
      BY <1>1, <2>2
    <3>2. (s \o t)[i] = t[j]
      BY <1>3, <3>1
    <3>3. t[j] = <<c.number, Len(s) + j>>
      BY <3>1 DEF PartOf
    <3> QED
      BY <1>1, <3>1, <3>2, <3>3
  <2> QED
    BY <1>1, <2>1, <2>2
<1>5. SubSeq(s \o t, 1, Len(s)) = s
  BY <1>1, <1>2
<1>6. SubSeq(s, 1, Len(s)) = s
  OBVIOUS
<1>7. IsPrefix(s, s \o t)
  BY <1>1, <1>5, <1>6 DEF IsPrefix
<1> QED
  BY <1>1, <1>4, <1>7

LEMMA Beginning ==
  ASSUME NEW c \in Jobs, NEW s \in Seq(Bytes), Len(s) <= Size(c), PartOf(c, 0, s)
  PROVE  IsPrefix(s, Answer(c)) /\ (Len(s) = Size(c) => s = Answer(c))
<1>1. /\ Answer(c) \in Seq(Bytes) /\ Len(Answer(c)) = Size(c)
      /\ PartOf(c, 0, Answer(c))
  BY AnswerIs
<1>2. ASSUME NEW i \in 1..Len(s) PROVE s[i] = Answer(c)[i]
  <2>1. i \in 1..Size(c)
    BY RequestIs
  <2>2. s[i] = <<c.number, 0 + i>>
    BY DEF PartOf
  <2>3. Answer(c)[i] = <<c.number, 0 + i>>
    BY <1>1, <2>1 DEF PartOf
  <2> QED
    BY <2>2, <2>3
<1>3. SubSeq(s, 1, Len(s)) = s /\ Len(s) \in Nat
  OBVIOUS
<1>4. SubSeq(Answer(c), 1, Len(s)) = s
  BY <1>1, <1>2
<1>5. IsPrefix(s, Answer(c))
  BY <1>1, <1>3, <1>4 DEF IsPrefix
<1> QED
  BY <1>1, <1>2, <1>5

-----------------------------------------------------------------------------
(* The steps. *)

LEMMA TypeNext == IInv /\ Next => TypeOK'
<1> SUFFICES ASSUME IInv, Next PROVE TypeOK'
  OBVIOUS
<1> USE ControlAssumption DEF IInv, TypeOK, Control, firmware, chip, device
<1>1. CASE XferCtrlReq
  <2>1. PICK r \in Requests : current' = [number |-> current.number + 1, request |-> r]
    BY <1>1 DEF XferCtrlReq
  <2>2. current' \in Jobs
    BY <2>1 DEF Jobs
  <2>3. /\ stage' = "setup" /\ step' = "launch" /\ nak_count' = 0 /\ retry_count' = 0
        /\ data' = <<>> /\ result' = "none"
        /\ UNCHANGED <<chip, device, present, faults>>
    BY <1>1 DEF XferCtrlReq, Dispatch
  <2>4. /\ stage' \in {"idle", "setup", "data", "status"} /\ step' \in {"launch", "wait"}
        /\ nak_count' \in 0..NakLimit /\ retry_count' \in 0..RetryLimit
        /\ data' \in Seq(Bytes) /\ result' \in {"none", "success", "failed"}
    BY <2>3
  <2>5. UNCHANGED <<toggle, busy, hrsl, rcvdav, fifo>>
    BY <2>3
  <2>6. UNCHANGED <<job, phase, sent, devToggle, present, faults>>
    BY <2>3
  <2>7. {busy, rcvdav, present}' \subseteq BOOLEAN
    BY <2>5, <2>6
  <2>8. job' \in Jobs /\ sent' \in 0..Size(job')
    BY <2>6
  <2> QED
    BY <2>2, <2>4, <2>5, <2>6, <2>7, <2>8
<1>2. CASE Launch
  BY <1>2 DEF Launch
<1>3. CASE Nak
  BY <1>3 DEF Nak, Done, Again
<1>4. CASE Retry
  BY <1>4 DEF Retry, Done, Again
<1>5. CASE Error
  BY <1>5 DEF Error, Done, Return
<1>6. CASE SetupDone
  BY <1>6 DEF SetupDone, Succeeded, Done, Dispatch
<1>7. CASE Read
  <2>1. data' \in Seq(Bytes)
    BY <1>7 DEF Read
  <2>2. rcvdav' = FALSE
    BY <1>7 DEF Read
  <2>3. /\ stage' \in {"data", "status"} /\ step' = "launch"
        /\ nak_count' = 0 /\ retry_count' = 0
    BY <1>7 DEF Read, Dispatch
  <2>4. UNCHANGED <<current, result, toggle, busy, hrsl, fifo, device, present, faults>>
    BY <1>7 DEF Read
  <2>5. {busy, rcvdav, present}' \subseteq BOOLEAN
    BY <2>2, <2>4
  <2> QED
    BY <2>1, <2>3, <2>4, <2>5
<1>8. CASE StatusDone
  BY <1>8 DEF StatusDone, Succeeded, Done, Return
<1>9. CASE busy /\ TakeSetup
  <2>1. UNCHANGED <<toggle, rcvdav, fifo>>
    BY <1>9 DEF TakeSetup
  <2>2. busy' = FALSE /\ UNCHANGED <<firmware, present>>
    BY <1>9 DEF TakeSetup, Answers
  <2>3. hrsl' \in {"success", "NAK", "TIMEOUT", "TOGERR", "STALL", "error"}
    BY <1>9 DEF TakeSetup, Answers
  <2>4. faults' \in 0..MaxFaults
    BY <1>9 DEF TakeSetup, Fault, Acknowledged
  <2>5. /\ job' = current /\ sent' = 0 /\ devToggle' = 1
        /\ phase' \in {"data", "status"}
    BY <1>9 DEF TakeSetup
  <2>6. sent' \in 0..Size(job')
    BY <2>5, RequestIs
  <2>7. job' \in Jobs /\ devToggle' \in 0..1 /\ phase' \in {"idle", "data", "status"}
    BY <2>5
  <2> QED
    BY <2>1, <2>2, <2>3, <2>4, <2>6, <2>7
<1>10. CASE busy /\ SendPacket
  <2>2. busy' = FALSE /\ UNCHANGED <<firmware, present>>
    BY <1>10 DEF SendPacket, Answers
  <2>3. hrsl' \in {"success", "NAK", "TIMEOUT", "TOGERR", "STALL", "error"}
    BY <1>10 DEF SendPacket, Answers
  <2>4. faults' \in 0..MaxFaults
    BY <1>10 DEF SendPacket, Fault, Acknowledged
  <2>1. /\ Packet \in Seq(Bytes)
        /\ Len(Packet) = IF sent + DevicePkt < Size(job) THEN DevicePkt ELSE Size(job) - sent
    BY PacketIs
  <2>5. DevicePkt \in Nat /\ Size(job) \in Nat
    BY RequestIs
  <2>6. /\ UNCHANGED job /\ devToggle' \in 0..1
        /\ phase' \in {"idle", "data", "status"}
        /\ sent' \in {sent, sent + Len(Packet)}
    BY <1>10 DEF SendPacket, Acknowledged
  <2>7. sent' \in 0..Size(job)
    BY <2>1, <2>5, <2>6
  <2>8. fifo' \in Seq(Bytes) /\ toggle' \in 0..1
    BY <1>10, <2>1 DEF SendPacket
  <2>9. rcvdav' \in BOOLEAN
    BY <1>10 DEF SendPacket
  <2> QED
    BY <2>2, <2>3, <2>4, <2>6, <2>7, <2>8, <2>9
<1>11. CASE busy /\ TakeStatus
  <2>1. UNCHANGED <<toggle, rcvdav, fifo>>
    BY <1>11 DEF TakeStatus
  <2>2. busy' = FALSE /\ UNCHANGED <<firmware, present>>
    BY <1>11 DEF TakeStatus, Answers
  <2>3. hrsl' \in {"success", "NAK", "TIMEOUT", "TOGERR", "STALL", "error"}
    BY <1>11 DEF TakeStatus, Answers
  <2>4. faults' \in 0..MaxFaults
    BY <1>11 DEF TakeStatus, Fault, Acknowledged
  <2>5. phase' \in {"idle", "data", "status"} /\ UNCHANGED <<job, sent, devToggle>>
    BY <1>11 DEF TakeStatus
  <2> QED
    BY <2>1, <2>2, <2>3, <2>4, <2>5
<1>12. CASE busy /\ SendStatus
  <2>1. UNCHANGED <<toggle, rcvdav, fifo>>
    BY <1>12 DEF SendStatus
  <2>2. busy' = FALSE /\ UNCHANGED <<firmware, present>>
    BY <1>12 DEF SendStatus, Answers
  <2>3. hrsl' \in {"success", "NAK", "TIMEOUT", "TOGERR", "STALL", "error"}
    BY <1>12 DEF SendStatus, Answers
  <2>4. faults' \in 0..MaxFaults
    BY <1>12 DEF SendStatus, Fault, Acknowledged
  <2>5. phase' \in {"idle", "data", "status"} /\ UNCHANGED <<job, sent, devToggle>>
    BY <1>12 DEF SendStatus
  <2> QED
    BY <2>1, <2>2, <2>3, <2>4, <2>5
<1>13. CASE busy /\ NotReady
  <2>1. UNCHANGED <<toggle, rcvdav, fifo>>
    BY <1>13 DEF NotReady
  <2>2. busy' = FALSE /\ UNCHANGED <<firmware, present>>
    BY <1>13 DEF NotReady, Answers
  <2>3. hrsl' \in {"success", "NAK", "TIMEOUT", "TOGERR", "STALL", "error"}
    BY <1>13 DEF NotReady, Answers
  <2>4. faults' \in 0..MaxFaults
    BY <1>13 DEF NotReady, Fault, Acknowledged
  <2>5. UNCHANGED device
    BY <1>13 DEF NotReady
  <2> QED
    BY <2>1, <2>2, <2>3, <2>4, <2>5
<1>14. CASE busy /\ Stall
  <2>1. UNCHANGED <<toggle, rcvdav, fifo>>
    BY <1>14 DEF Stall
  <2>2. busy' = FALSE /\ UNCHANGED <<firmware, present>>
    BY <1>14 DEF Stall, Answers
  <2>3. hrsl' \in {"success", "NAK", "TIMEOUT", "TOGERR", "STALL", "error"}
    BY <1>14 DEF Stall, Answers
  <2>4. faults' \in 0..MaxFaults
    BY <1>14 DEF Stall, Fault, Acknowledged
  <2>5. UNCHANGED device
    BY <1>14 DEF Stall
  <2> QED
    BY <2>1, <2>2, <2>3, <2>4, <2>5
<1>15. CASE busy /\ Lost
  <2>1. UNCHANGED <<toggle, rcvdav, fifo>>
    BY <1>15 DEF Lost
  <2>2. busy' = FALSE /\ UNCHANGED <<firmware, present>>
    BY <1>15 DEF Lost, Answers
  <2>3. hrsl' \in {"success", "NAK", "TIMEOUT", "TOGERR", "STALL", "error"}
    BY <1>15 DEF Lost, Answers
  <2>4. faults' \in 0..MaxFaults
    BY <1>15 DEF Lost, Fault, Acknowledged
  <2>5. UNCHANGED device
    BY <1>15 DEF Lost
  <2> QED
    BY <2>1, <2>2, <2>3, <2>4, <2>5
<1>16. CASE Unplug
  BY <1>16 DEF Unplug
<1> QED
  BY <1>1, <1>2, <1>3, <1>4, <1>5, <1>6, <1>7, <1>8, <1>9, <1>10, <1>11, <1>12, <1>13, <1>14, <1>15, <1>16 DEF Next, Firmware, Transfer

LEMMA ControlNext == IInv /\ Next => Control'
<1> SUFFICES ASSUME IInv, Next PROVE Control'
  OBVIOUS
<1> USE ControlAssumption DEF IInv, TypeOK, Control, firmware, chip, device
<1>1. CASE XferCtrlReq
  <2>1. /\ stage' = "setup" /\ nak_count' = 0 /\ retry_count' = 0 /\ result' = "none"
        /\ stage = "idle" /\ UNCHANGED busy
    BY <1>1 DEF XferCtrlReq, Dispatch
  <2> QED
    BY <2>1
<1>2. CASE Launch
  BY <1>2 DEF Launch
<1>3. CASE Nak
  BY <1>3 DEF Nak, Done, Again
<1>4. CASE Retry
  BY <1>4 DEF Retry, Done, Again
<1>5. CASE Error
  BY <1>5 DEF Error, Done, Return
<1>6. CASE SetupDone
  BY <1>6 DEF SetupDone, Succeeded, Done, Dispatch
<1>7. CASE Read
  BY <1>7 DEF Read, Succeeded, Done, Dispatch
<1>8. CASE StatusDone
  BY <1>8 DEF StatusDone, Succeeded, Done, Return
<1>9. CASE busy /\ TakeSetup
  BY <1>9 DEF TakeSetup, Answers, Fault, Token
<1>10. CASE busy /\ SendPacket
  BY <1>10 DEF SendPacket, Answers, Acknowledged, Fault, Token
<1>11. CASE busy /\ TakeStatus
  BY <1>11 DEF TakeStatus, Answers, Fault, Token
<1>12. CASE busy /\ SendStatus
  BY <1>12 DEF SendStatus, Answers, Fault, Token
<1>13. CASE busy /\ NotReady
  BY <1>13 DEF NotReady, Answers, Token
<1>14. CASE busy /\ Stall
  BY <1>14 DEF Stall, Answers, Fault, Token
<1>15. CASE busy /\ Lost
  BY <1>15 DEF Lost, Answers, Fault, Token
<1>16. CASE Unplug
  BY <1>16 DEF Unplug
<1> QED
  BY <1>1, <1>2, <1>3, <1>4, <1>5, <1>6, <1>7, <1>8, <1>9, <1>10, <1>11, <1>12, <1>13, <1>14, <1>15, <1>16 DEF Next, Firmware, Transfer

LEMMA HeldNext == IInv /\ Next /\ TypeOK' => Held'
<1> SUFFICES ASSUME IInv, Next, TypeOK' PROVE Held'
  OBVIOUS
<1> USE ControlAssumption DEF IInv, TypeOK, Control, Held, Success, Done, firmware, chip, device
<1>1. CASE XferCtrlReq
  <2>1. stage' = "setup" /\ step' = "launch" /\ data' = <<>>
    BY <1>1 DEF XferCtrlReq, Dispatch
  <2>2. Size(current') \in Nat
    BY RequestIs
  <2>3. Len(data') = 0 /\ PartOf(current', 0, data')
    BY <2>1 DEF PartOf
  <2> QED
    BY <2>1, <2>2, <2>3
<1>2. CASE Launch
  BY <1>2 DEF Launch
<1>3. CASE Nak
  BY <1>3 DEF Nak, Done, Again
<1>4. CASE Retry
  BY <1>4 DEF Retry, Done, Again
<1>5. CASE Error
  BY <1>5 DEF Error, Done, Return
<1>6. CASE SetupDone
  <2>1. /\ stage = "setup" /\ Success /\ UNCHANGED <<current, data, job>>
        /\ stage' = IF current.request.type = "get" THEN "data" ELSE "status"
    BY <1>6, RequestIs DEF SetupDone, Succeeded, Done, Dispatch
  <2>2. job' = current'
    BY <2>1
  <2>3. stage' = "status" => Len(data') = Size(current')
    BY <2>1, RequestIs DEF Size
  <2> QED
    BY <2>1, <2>2, <2>3 DEF PartOf
<1>7. CASE Read
  <2>1. /\ stage = "data" /\ Success /\ ~Broken
        /\ data' = data \o fifo /\ UNCHANGED <<current, job>>
    BY <1>7 DEF Read, Succeeded, Done, Broken
  <2>2. /\ PartOf(current, Len(data), fifo)
        /\ Len(fifo) = IF Len(data) + DevicePkt < Size(current) THEN DevicePkt
                       ELSE Size(current) - Len(data)
    BY <2>1 DEF InSync
  <2>3. /\ Len(data') = Len(data) + Len(fifo) /\ PartOf(current, 0, data')
        /\ Len(data) \in Nat /\ Len(fifo) \in Nat
    <3>1. data \in Seq(Bytes) /\ fifo \in Seq(Bytes) /\ PartOf(current, 0, data)
      OBVIOUS
    <3> HIDE DEF IInv, TypeOK, Held, Control
    <3>2. Len(data \o fifo) = Len(data) + Len(fifo) /\ PartOf(current, 0, data \o fifo)
      BY <2>2, <3>1, Appended, Zenon
    <3>3. Len(data) \in Nat /\ Len(fifo) \in Nat
      BY <3>1
    <3> QED
      BY <2>1, <3>2, <3>3
  <2>4. /\ Size(current) \in Nat /\ DevicePkt \in Nat
        /\ current.request.nbytes \in Nat /\ current.request.maxpktsize \in Nat
        /\ current.request.maxpktsize <= DevicePkt
        /\ Size(current) <= current.request.nbytes
    BY RequestIs DEF Size
  <2>5. Len(data') <= Size(current)
    BY <2>2, <2>3, <2>4
  <2>6. stage' \in {"data", "status"} /\ (stage' = "status" => EndOfData(Len(fifo), Len(data')))
    BY <1>7 DEF Read, Dispatch
  <2>7. stage' = "status" => Len(data') = Size(current)
    BY <2>2, <2>3, <2>4, <2>5, <2>6 DEF EndOfData
  <2> QED
    BY <2>1, <2>3, <2>5, <2>6, <2>7
<1>8. CASE StatusDone
  BY <1>8 DEF StatusDone, Succeeded, Done, Return
<1>9. CASE busy /\ TakeSetup
  BY <1>9 DEF TakeSetup, Answers, Fault, Token
<1>10. CASE busy /\ SendPacket
  BY <1>10 DEF SendPacket, Answers, Acknowledged, Fault, Token
<1>11. CASE busy /\ TakeStatus
  BY <1>11 DEF TakeStatus, Answers, Fault, Token
<1>12. CASE busy /\ SendStatus
  BY <1>12 DEF SendStatus, Answers, Fault, Token
<1>13. CASE busy /\ NotReady
  BY <1>13 DEF NotReady, Answers, Token
<1>14. CASE busy /\ Stall
  BY <1>14 DEF Stall, Answers, Fault, Token
<1>15. CASE busy /\ Lost
  BY <1>15 DEF Lost, Answers, Fault, Token
<1>16. CASE Unplug
  BY <1>16 DEF Unplug
<1> QED
  BY <1>1, <1>2, <1>3, <1>4, <1>5, <1>6, <1>7, <1>8, <1>9, <1>10, <1>11, <1>12, <1>13, <1>14, <1>15, <1>16 DEF Next, Firmware, Transfer

LEMMA BegunNext == IInv /\ Next => Begun'
<1> SUFFICES ASSUME IInv, Next PROVE Begun'
  OBVIOUS
<1> USE ControlAssumption DEF IInv, TypeOK, Control, Begun, Success, Done, firmware, chip, device
<1>1. CASE XferCtrlReq
  BY <1>1 DEF XferCtrlReq, Dispatch
<1>2. CASE Launch
  BY <1>2 DEF Launch
<1>3. CASE Nak
  BY <1>3 DEF Nak, Done, Again
<1>4. CASE Retry
  BY <1>4 DEF Retry, Done, Again
<1>5. CASE Error
  BY <1>5 DEF Error, Done, Return
<1>6. CASE SetupDone
  BY <1>6 DEF SetupDone, Succeeded, Done, Dispatch
<1>7. CASE Read
  BY <1>7 DEF Read, Succeeded, Done, Dispatch
<1>8. CASE StatusDone
  BY <1>8 DEF StatusDone, Succeeded, Done, Return
<1>9. CASE busy /\ TakeSetup
  BY <1>9 DEF TakeSetup, Answers, Fault, Token
<1>10. CASE busy /\ SendPacket
  BY <1>10 DEF SendPacket, Answers, Acknowledged, Fault, Token
<1>11. CASE busy /\ TakeStatus
  BY <1>11 DEF TakeStatus, Answers, Fault, Token
<1>12. CASE busy /\ SendStatus
  BY <1>12 DEF SendStatus, Answers, Fault, Token
<1>13. CASE busy /\ NotReady
  BY <1>13 DEF NotReady, Answers, Token
<1>14. CASE busy /\ Stall
  BY <1>14 DEF Stall, Answers, Fault, Token
<1>15. CASE busy /\ Lost
  BY <1>15 DEF Lost, Answers, Fault, Token
<1>16. CASE Unplug
  BY <1>16 DEF Unplug
<1> QED
  BY <1>1, <1>2, <1>3, <1>4, <1>5, <1>6, <1>7, <1>8, <1>9, <1>10, <1>11, <1>12, <1>13, <1>14, <1>15, <1>16 DEF Next, Firmware, Transfer

LEMMA SyncNext == IInv /\ Next /\ TypeOK' => InSync'
<1> SUFFICES ASSUME IInv, Next, TypeOK' PROVE InSync'
  OBVIOUS
<1> USE ControlAssumption DEF IInv, TypeOK, Control, InSync, Success, Broken, Done, firmware, chip, device
<1>1. CASE XferCtrlReq
  BY <1>1 DEF XferCtrlReq, Dispatch
<1>2. CASE Launch
  BY <1>2 DEF Launch
<1>3. CASE Nak
  BY <1>3 DEF Nak, Done, Again
<1>4. CASE Retry
  BY <1>4 DEF Retry, Done, Again
<1>5. CASE Error
  BY <1>5 DEF Error, Done, Return
<1>6. CASE SetupDone
  <2>1. /\ stage = "setup" /\ Success /\ UNCHANGED <<current, data, device>>
        /\ step' = "launch" /\ (stage' = "data" => toggle' = 1)
    BY <1>6 DEF SetupDone, Succeeded, Done, Dispatch
  <2>2. data = <<>> /\ sent = 0
    BY <2>1 DEF Held, Begun
  <2> QED
    BY <2>1, <2>2
<1>7. CASE Read
  BY <1>7 DEF Read, Succeeded, Done, Dispatch
<1>8. CASE StatusDone
  BY <1>8 DEF StatusDone, Succeeded, Done, Return
<1>9. CASE busy /\ TakeSetup
  BY <1>9 DEF TakeSetup, Answers, Fault, Token
<1>10. CASE busy /\ SendPacket
  <2>1. /\ stage \in {"setup", "data", "status"} /\ Token = "IN"
        /\ UNCHANGED <<stage, step, current, data, job>>
    BY <1>10 DEF SendPacket, Answers, Acknowledged
  <2>2. stage = "data" /\ job = current
    BY <2>1, RequestIs DEF Token, Held
  <2>3. ~busy' /\ hrsl' \in {"success", "TOGERR"} /\ UNCHANGED <<stage, step, current, data, job>>
    BY <1>10, <2>1 DEF SendPacket, Answers
  <2>4. CASE hrsl' = "TOGERR"
    <3>1. stage' # "idle" /\ step' = "wait" /\ ~busy'
      BY <1>10, <2>2, <2>3
    <3>2. Broken'
      BY <2>4, <3>1
    <3> QED
      BY <3>2
  <2>5. CASE hrsl' = "success"
    <3>1. devToggle = toggle /\ rcvdav' /\ fifo' = Packet /\ toggle' = 1 - toggle
      BY <1>10, <2>5 DEF SendPacket, Answers
    <3>2. sent = Len(data)
      BY <1>10, <2>2, <3>1
    <3>3. /\ Len(Packet) = IF sent + DevicePkt < Size(job) THEN DevicePkt ELSE Size(job) - sent
          /\ PartOf(job, sent, Packet)
      BY PacketIs
    <3>4. /\ PartOf(current', Len(data'), fifo')
          /\ Len(fifo') = IF Len(data') + DevicePkt < Size(current') THEN DevicePkt
                          ELSE Size(current') - Len(data')
      BY <2>2, <2>3, <3>1, <3>2, <3>3
    <3>5. \/ sent' = sent + Len(Packet)
          \/ devToggle' = devToggle
      BY <1>10 DEF SendPacket, Acknowledged
    <3>6. devToggle' = toggle' => sent' = Len(data') + Len(fifo')
      BY <2>3, <3>1, <3>2, <3>5
    <3>7. stage' # "idle" /\ step' = "wait" /\ ~busy'
      BY <1>10, <2>2, <2>3
    <3>8. Success'
      BY <2>5, <3>7
    <3> HIDE DEF Success, Broken
    <3> QED
      BY <3>1, <3>4, <3>6, <3>8
  <2> QED
    BY <2>3, <2>4, <2>5
<1>11. CASE busy /\ TakeStatus
  BY <1>11 DEF TakeStatus, Answers, Fault, Token
<1>12. CASE busy /\ SendStatus
  BY <1>12 DEF SendStatus, Answers, Fault, Token
<1>13. CASE busy /\ NotReady
  BY <1>13 DEF NotReady, Answers, Token
<1>14. CASE busy /\ Stall
  BY <1>14 DEF Stall, Answers, Fault, Token
<1>15. CASE busy /\ Lost
  BY <1>15 DEF Lost, Answers, Fault, Token
<1>16. CASE Unplug
  BY <1>16 DEF Unplug
<1> QED
  BY <1>1, <1>2, <1>3, <1>4, <1>5, <1>6, <1>7, <1>8, <1>9, <1>10, <1>11, <1>12, <1>13, <1>14, <1>15, <1>16 DEF Next, Firmware, Transfer

LEMMA AgreeNext == IInv /\ Next => Agree'
<1> SUFFICES ASSUME IInv, Next PROVE Agree'
  OBVIOUS
<1> USE ControlAssumption DEF IInv, TypeOK, Control, Agree, Clean, Success, Done, firmware, chip, device
<1>1. CASE XferCtrlReq
  BY <1>1 DEF XferCtrlReq, Dispatch
<1>2. CASE Launch
  BY <1>2 DEF Launch
<1>3. CASE Nak
  BY <1>3 DEF Nak, Done, Again
<1>4. CASE Retry
  BY <1>4 DEF Retry, Done, Again
<1>5. CASE Error
  BY <1>5 DEF Error, Done, Return
<1>6. CASE SetupDone
  <2>1. /\ stage = "setup" /\ Success /\ UNCHANGED <<current, device, faults, present>>
        /\ step' = "launch"
        /\ \/ current.request.type = "get" /\ stage' = "data" /\ toggle' = 1
           \/ current.request.type = "set" /\ stage' = "status"
    BY <1>6 DEF SetupDone, Succeeded, Done, Dispatch
  <2>2. devToggle = 1
    BY <2>1 DEF Begun
  <2>3. Clean => phase = IF current.request.type = "get" THEN "data" ELSE "status"
    BY <2>1
  <2>4. ~Done' /\ ~Success'
    BY <2>1
  <2>5. Clean' => Clean
    BY <2>1
  <2> HIDE DEF IInv, TypeOK, Control, Success, Done, Clean
  <2> QED
    BY <2>1, <2>2, <2>3, <2>4, <2>5
<1>7. CASE Read
  <2> SUFFICES ASSUME Clean' PROVE Agree'
    OBVIOUS
  <2>1. /\ stage = "data" /\ Success /\ ~Broken /\ data' = data \o fifo
        /\ UNCHANGED <<current, toggle, fifo, device, faults, present>> /\ step' = "launch"
    BY <1>7 DEF Read, Succeeded, Done, Broken, Dispatch
  <2>2. /\ devToggle = toggle
        /\ phase = IF Len(fifo) < DevicePkt \/ sent = current.request.nbytes
                   THEN "status" ELSE "data"
    BY <2>1
  <2>3. sent = Len(data) + Len(fifo)
    BY <2>1, <2>2 DEF InSync
  <2>4. Len(data') = Len(data) + Len(fifo) /\ Len(data) \in Nat /\ Len(fifo) \in Nat
    BY <2>1
  <2>5. \/ stage' = "status"
        \/ stage' = "data" /\ ~EndOfData(Len(fifo), Len(data'))
    BY <1>7 DEF Read, Dispatch
  <2>6. /\ current.request.nbytes \in Nat /\ current.request.maxpktsize \in Nat
        /\ DevicePkt \in Nat
        /\ current.request.maxpktsize = DevicePkt
           \/ current.request.nbytes <= current.request.maxpktsize
        /\ current.request.type = "get"
    BY <2>1, RequestIs
  <2>7. stage' = "data" => phase' = "data"
    BY <2>1, <2>2, <2>3, <2>4, <2>5, <2>6 DEF EndOfData
  <2>8. ~Done' /\ ~Success'
    BY <2>1
  <2>9. stage' \in {"data", "status"} /\ current'.request.type = "get" /\ devToggle' = toggle'
    BY <2>1, <2>2, <2>5, <2>6
  <2> HIDE DEF IInv, TypeOK, Control, Success, Done
  <2> QED
    BY <2>7, <2>8, <2>9
<1>8. CASE StatusDone
  BY <1>8 DEF StatusDone, Succeeded, Done, Return
<1>9. CASE busy /\ TakeSetup
  BY <1>9 DEF TakeSetup, Answers, Fault, Token
<1>10. CASE busy /\ SendPacket
  <2> SUFFICES ASSUME Clean' PROVE Agree'
    OBVIOUS
  <2>1. Clean /\ UNCHANGED faults
    BY <1>10 DEF SendPacket, Answers, Acknowledged, Fault
  <2>2. /\ stage \in {"setup", "data", "status"} /\ Token = "IN" /\ step = "wait"
        /\ UNCHANGED <<stage, step, current, data, job>> /\ ~busy'
    BY <1>10 DEF SendPacket, Answers, Acknowledged
  <2>3. stage = "data" /\ job = current
    BY <2>2, RequestIs DEF Token, Held
  <2>4. devToggle = toggle
    BY <2>1, <2>3
  <2>5. hrsl' = "success" /\ fifo' = Packet /\ toggle' = 1 - toggle
    BY <1>10, <2>4 DEF SendPacket, Answers
  <2>6. /\ sent' = sent + Len(Packet) /\ devToggle' = 1 - devToggle
        /\ phase' = IF Len(Packet) < DevicePkt \/ sent' = job.request.nbytes
                    THEN "status" ELSE "data"
    BY <1>10, <2>1 DEF SendPacket, Acknowledged, Fault
  <2>7. Done' /\ Success'
    BY <2>2, <2>3, <2>5
  <2>8. phase' = IF Len(fifo') < DevicePkt \/ sent' = current'.request.nbytes
                 THEN "status" ELSE "data"
    BY <2>2, <2>3, <2>5, <2>6
  <2>9. devToggle' = toggle' /\ stage' = "data"
    BY <2>2, <2>3, <2>4, <2>5, <2>6
  <2> HIDE DEF IInv, TypeOK, Control, Success, Done
  <2> QED
    BY <2>5, <2>7, <2>8, <2>9
<1>11. CASE busy /\ TakeStatus
  BY <1>11 DEF TakeStatus, Answers, Fault, Token
<1>12. CASE busy /\ SendStatus
  BY <1>12 DEF SendStatus, Answers, Fault, Token
<1>13. CASE busy /\ NotReady
  BY <1>13 DEF NotReady, Answers, Token
<1>14. CASE busy /\ Stall
  BY <1>14 DEF Stall, Answers, Fault, Token
<1>15. CASE busy /\ Lost
  <2>1. ~Clean'
    BY <1>15 DEF Lost, Answers, Fault
  <2> QED
    BY <2>1
<1>16. CASE Unplug
  BY <1>16 DEF Unplug
<1> QED
  BY <1>1, <1>2, <1>3, <1>4, <1>5, <1>6, <1>7, <1>8, <1>9, <1>10, <1>11, <1>12, <1>13, <1>14, <1>15, <1>16 DEF Next, Firmware, Transfer

LEMMA FailNext == IInv /\ Next => FailsForAReason'
<1> SUFFICES ASSUME IInv, Next PROVE FailsForAReason'
  OBVIOUS
<1> USE ControlAssumption DEF IInv, TypeOK, Control, FailsForAReason, firmware, chip, device
<1>1. CASE XferCtrlReq
  BY <1>1 DEF XferCtrlReq, Dispatch
<1>2. CASE Launch
  BY <1>2 DEF Launch
<1>3. CASE Nak
  BY <1>3 DEF Nak, Done, Again
<1>4. CASE Retry
  <2>1. Done /\ hrsl = "TIMEOUT" /\ UNCHANGED <<faults, present>>
    BY <1>4 DEF Retry
  <2>2. ~Clean
    BY <2>1 DEF Agree
  <2> QED
    BY <2>1, <2>2 DEF Clean
<1>5. CASE Error
  <2>1. Done /\ hrsl \notin {"NAK", "TIMEOUT"} /\ UNCHANGED <<faults, present>>
        /\ ~(hrsl = "success" /\ (stage = "data" => rcvdav))
    BY <1>5 DEF Error
  <2>2. ~Clean
    <3> SUFFICES ASSUME Clean PROVE FALSE
      OBVIOUS
    <3>1. hrsl = "success"
      BY <2>1 DEF Agree
    <3>2. stage = "data" => rcvdav
      BY <2>1, <3>1 DEF InSync, Success, Broken
    <3> QED
      BY <2>1, <3>1, <3>2
  <2> QED
    BY <2>1, <2>2 DEF Clean
<1>6. CASE SetupDone
  BY <1>6 DEF SetupDone, Succeeded, Done, Dispatch
<1>7. CASE Read
  BY <1>7 DEF Read, Succeeded, Done, Dispatch
<1>8. CASE StatusDone
  BY <1>8 DEF StatusDone, Succeeded, Done, Return
<1>9. CASE busy /\ TakeSetup
  BY <1>9 DEF TakeSetup, Answers, Fault, Token
<1>10. CASE busy /\ SendPacket
  BY <1>10 DEF SendPacket, Answers, Acknowledged, Fault, Token
<1>11. CASE busy /\ TakeStatus
  BY <1>11 DEF TakeStatus, Answers, Fault, Token
<1>12. CASE busy /\ SendStatus
  BY <1>12 DEF SendStatus, Answers, Fault, Token
<1>13. CASE busy /\ NotReady
  BY <1>13 DEF NotReady, Answers, Token
<1>14. CASE busy /\ Stall
  BY <1>14 DEF Stall, Answers, Fault, Token
<1>15. CASE busy /\ Lost
  BY <1>15 DEF Lost, Answers, Fault, Token
<1>16. CASE Unplug
  BY <1>16 DEF Unplug
<1> QED
  BY <1>1, <1>2, <1>3, <1>4, <1>5, <1>6, <1>7, <1>8, <1>9, <1>10, <1>11, <1>12, <1>13, <1>14, <1>15, <1>16 DEF Next, Firmware, Transfer

LEMMA InvNext == IInv /\ [Next]_vars => IInv'
<1> SUFFICES ASSUME IInv, [Next]_vars PROVE IInv'
  OBVIOUS
<1>1. CASE Next
  <2>1. TypeOK' /\ Control'
    BY <1>1, TypeNext, ControlNext
  <2>2. Held' /\ Begun' /\ InSync'
    BY <1>1, <2>1, HeldNext, BegunNext, SyncNext
  <2>3. Agree' /\ FailsForAReason'
    BY <1>1, AgreeNext, FailNext
  <2> QED
    BY <2>1, <2>2, <2>3 DEF IInv
<1>2. CASE UNCHANGED vars
  <2> USE <1>2 DEF IInv, vars, firmware, chip, device
  <2>1. TypeOK' /\ Control'
    BY DEF TypeOK, Control
  <2>2. Held' /\ Begun' /\ InSync'
    BY DEF Held, Begun, InSync, Success, Broken, Done, PartOf
  <2>3. Agree' /\ FailsForAReason'
    BY DEF Agree, Clean, Success, Done, FailsForAReason
  <2> QED
    BY <2>1, <2>2, <2>3
<1> QED
  BY <1>1, <1>2

LEMMA InvInit == Init => IInv
<1> SUFFICES ASSUME Init PROVE IInv
  OBVIOUS
<1> USE ControlAssumption DEF Init
<1>1. current \in Jobs /\ job = current
  BY DEF Jobs
<1>2. Size(current) \in Nat
  BY <1>1, RequestIs
<1>3. TypeOK
  <2>1. {busy, rcvdav, present} \subseteq BOOLEAN
    OBVIOUS
  <2> QED
    BY <1>1, <1>2, <2>1 DEF TypeOK
<1>4. Control /\ Held /\ Begun /\ InSync
  BY <1>2 DEF Control, Held, Begun, InSync, Success, Done, PartOf
<1>5. Agree /\ FailsForAReason
  BY DEF Agree, Success, Done, FailsForAReason
<1> QED
  BY <1>3, <1>4, <1>5 DEF IInv

\* The host's and the device's halves of a request agree on how much of the
\* data both have, in every order of lost packets, lost answers, NAKs, stalls
\* and unplugs (transfer.c:77-136,143-226).
THEOREM Invariance == Spec => []IInv
<1> QED
  BY InvInit, InvNext, PTL DEF Spec

\* The counters of a request keep within a BYTE and a char, and the device has
\* no more data sent than it has (transfer.c:137-190).
THEOREM TypeCorrect == Spec => []TypeOK
<1>1. IInv => TypeOK
  BY DEF IInv
<1> QED
  BY <1>1, Invariance, PTL

\* With a device that is there and ready and a bus that loses nothing no
\* request fails: host and device agree where the data ends, for every length
\* of the data and of the packets (transfer.c:214-223).
THEOREM FailuresHaveAReason == Spec => []FailsForAReason
<1>1. IInv => FailsForAReason
  BY DEF IInv
<1> QED
  BY <1>1, Invariance, PTL

-----------------------------------------------------------------------------
(* The promise. *)
PromiseNext == Promise!Ask \/ Promise!Take \/ Promise!Receive \/ Promise!Succeed \/ Promise!Fail

LEMMA PromiseStep == IInv /\ [Next]_vars => [PromiseNext]_(Promise!vars)
<1> SUFFICES ASSUME IInv, [Next]_vars PROVE PromiseNext \/ UNCHANGED <<current, job, data, result>>
  BY DEF Promise!vars
<1> USE DEF PromiseNext, vars, firmware, chip, device
<1>1. CASE XferCtrlReq
  <2>1. result # "none"
    BY <1>1 DEF XferCtrlReq, IInv, Control, TypeOK
  <2> QED
    BY <1>1, <2>1 DEF XferCtrlReq, Promise!Ask
<1>2. CASE Launch \/ SetupDone
  BY <1>2 DEF Launch, SetupDone
<1>3. CASE Nak \/ Retry \/ Error
  <2>1. result = "none" /\ UNCHANGED <<current, job, data>>
    BY <1>3 DEF Nak, Retry, Error, Done, IInv, Control
  <2>2. result' \in {result, "failed"}
    BY <1>3 DEF Nak, Retry, Error, Again, Return
  <2> QED
    BY <2>1, <2>2 DEF Promise!Fail
<1>4. CASE Read
  <2>1. /\ result = "none" /\ job = current /\ data \in Seq(Bytes) /\ fifo \in Seq(Bytes)
        /\ current \in Jobs /\ stage = "data" /\ Success /\ ~Broken /\ PartOf(current, 0, data)
    BY <1>4 DEF Read, Succeeded, Done, Success, Broken, IInv, Control, Held, TypeOK
  <2>2. /\ data' = data \o fifo /\ UNCHANGED <<current, job, result>>
    BY <1>4 DEF Read
  <2>3. PartOf(current, Len(data), fifo)
    BY <2>1 DEF IInv, InSync
  <2>4. IsPrefix(data, data \o fifo) /\ data \o fifo \in Seq(Bytes)
    BY <2>1, <2>3, Appended, Zenon
  <2>5. Held'
    BY <1>4, HeldNext, TypeNext DEF Next, Firmware
  <2>6. Len(data') <= Size(current) /\ PartOf(current, 0, data')
    BY <2>2, <2>5 DEF Held
  <2>7. IsPrefix(data', Answer(current))
    BY <2>1, <2>2, <2>4, <2>6, Beginning
  <2> QED
    BY <2>1, <2>2, <2>4, <2>7 DEF Promise!Receive, Promise!IsPrefix, IsPrefix
<1>5. CASE StatusDone
  <2>1. result = "none" /\ job = current /\ data \in Seq(Bytes) /\ current \in Jobs
    BY <1>5 DEF StatusDone, Succeeded, Done, IInv, Control, Held, TypeOK
  <2>2. Len(data) <= Size(current) /\ Len(data) = Size(current) /\ PartOf(current, 0, data)
    BY <1>5 DEF StatusDone, Succeeded, Done, IInv, Held
  <2>3. data = Answer(current)
    BY <2>1, <2>2, Beginning
  <2> QED
    BY <1>5, <2>1, <2>3 DEF StatusDone, Return, Promise!Succeed
<1>6. CASE busy /\ TakeSetup
  <2>1. result = "none"
    BY <1>6 DEF IInv, Control
  <2> QED
    BY <1>6, <2>1 DEF TakeSetup, Answers, Promise!Take
<1>7. CASE SendPacket
  BY <1>7 DEF SendPacket, Answers, Acknowledged
<1>8. CASE TakeStatus \/ SendStatus \/ NotReady \/ Stall \/ Lost
  BY <1>8 DEF TakeStatus, SendStatus, NotReady, Stall, Lost, Answers
<1>9. CASE Unplug
  BY <1>9 DEF Unplug
<1>10. CASE UNCHANGED vars
  BY <1>10
<1> QED
  BY <1>1, <1>2, <1>3, <1>4, <1>5, <1>6, <1>7, <1>8, <1>9, <1>10 DEF Next, Firmware, Transfer

\* A request that succeeds was taken by the device and brings the whole answer
\* and nothing of an earlier request (transfer.c:77-136,195-226).
THEOREM Refinement == Spec => KeepsPromise
<1>1. Init => Promise!Init
  BY DEF Init, Promise!Init
<1> QED
  BY <1>1, Invariance, PromiseStep, PTL DEF Spec, KeepsPromise, Promise!Spec, PromiseNext
=============================================================================
