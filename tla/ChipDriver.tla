----------------------------- MODULE ChipDriver -----------------------------
(***************************************************************************)
(* The driver of the PEF24628E chip, drv_pef24628e_common.c and            *)
(* pef24628_drv.c, in polling mode: the download of the two firmware       *)
(* images by rt_shdsl_init, frame by frame over a link that loses frames   *)
(* and acks, refuses frames and answers late, and then the messages of the *)
(* started firmware, which come through a mailbox of one message (MPI) and *)
(* the driver's receive FIFO.  The chip is external: its RAM, the registers*)
(* that the download writes, and a CRC over the RAM it is asked about.     *)
(* What is next for a frame:                                               *)
(*   send  Pef24628e_Sci_Tx_Polling transmits it                           *)
(*   ack   the polling loop of Pef24628e_Sci_Tx_Polling                    *)
(*   crc   the loop of a download that waits for the CRC                   *)
(***************************************************************************)
EXTENDS Integers, Sequences, FiniteSets

CONSTANTS
  Blocks,              \* blocks of DL_BLK_SIZE in each part of an image
  Retries,             \* tries of Pef24628e_Send_RS_Msg, 3
  CrcPolls,            \* counter of the wait for a CRC, 10 and 100
  REC_FIFO_BLK_NUM,    \* PEF24628E_REC_FIFO_BLK_NUM, 20
  Msg,                 \* messages of the firmware
  MaxLate              \* bound: answers that come after their timeout

Empty == 0

ASSUME ChipAssumption ==
  /\ {Blocks, Retries, CrcPolls, REC_FIFO_BLK_NUM} \subseteq Nat \ {0}
  /\ MaxLate \in Nat /\ Empty \notin Msg

VARIABLES
  at,     \* phase of rt_shdsl_init, index of the frame and what is next for it
  rs,     \* last_rs_value
  link,   \* answers of the chip that were not read yet
  late,   \* history: timeouts while an answer was on its way
  chip,   \* of each core: the RAM, the half selected, the valid and start bits
  fifo,   \* RxFifo, pRxFifoRead, pRxFifoWrite and bRxFifoFull
  box     \* MPI_EGRESS with EINT and EINT_EN of INTIDC, and IINT
chipVars == <<at, rs, link, late, chip, fifo, box>>

Reg(v)    == [op |-> "reg", adr |-> 0, val |-> v]
Ram(a, v) == [op |-> "ram", adr |-> a, val |-> v]
Chk(part) == [op |-> "chk", adr |-> 0, val |-> part]
Part(p)   == [a \in 1 .. Blocks |-> Ram(a, p)]

Checked(part) == Part(part) \o <<Chk(part)>>

\* The frames of Pef24628e_Send_Aux_Msg, Pef24628e_DSL_Download,
\* Pef24628e_IDC_Download and Pef24628e_IDC_Start.  The device address goes
\* to the beginning of the data RAM when its CRC has been checked.
Script ==
  [aux   |-> <<Reg("mode")>>,
   dsl   |-> <<Reg("stop"), Reg("clear")>> \o Checked("code") \o <<Reg("switch")>>
               \o Checked("data")
               \o <<Reg("dtpnt"), Reg("switch"), Ram(1, "address"), Reg("valid")>>,
   idc   |-> <<Reg("lock"), Reg("clear"), Ram(0, "boot")>> \o Checked("code")
               \o <<Reg("switch")>> \o Checked("data") \o <<Reg("valid")>>,
   start |-> <<Reg("ramloaded")>>]

Core(phase) == IF phase = "dsl" THEN "dsl" ELSE "idc"
Slots == 0 .. REC_FIFO_BLK_NUM - 1
Crc   == {"none", "code", "data", "bad"}   \* of nothing, of either part, of anything else
Content == {"none", "code", "data", "boot", "address"}   \* of a block of the RAM

ChipTypeOK ==
  /\ at \in [phase : DOMAIN Script \cup {"up", "failed"}, i : 1 .. 2 * Blocks + 9,
             next : {"send", "ack", "crc"}, retry : 0 .. Retries, counter : 0 .. CrcPolls,
             err : BOOLEAN]
  /\ at.phase \in DOMAIN Script => at.i \in DOMAIN Script[at.phase]
  /\ rs \in Crc /\ late \in 0 .. MaxLate /\ link \in Seq([ok : BOOLEAN, crc : Crc])
  /\ chip \in [{"dsl", "idc"} -> [ram : [{"code", "data"} -> [0 .. Blocks -> Content]],
                                 half : {"code", "data"}, valid : BOOLEAN, loaded : BOOLEAN]]
  /\ fifo \in [slot : [Slots -> Msg \cup {Empty}], read : Slots, write : Slots, full : BOOLEAN]
  /\ box \in [egress : Msg \cup {Empty}, enabled : BOOLEAN, ingress : BOOLEAN]

\* A function or a download of rt_shdsl_init begins.
Begin(phase, err) ==
  [phase |-> phase, i |-> 1, next |-> "send", retry |-> Retries, counter |-> 0, err |-> err]

ChipInit ==
  /\ at = Begin("aux", FALSE)
  /\ rs = "none" /\ link = <<>> /\ late = 0
  /\ chip = [c \in {"dsl", "idc"} |->
               [ram |-> [p \in {"code", "data"} |-> [a \in 0 .. Blocks |-> "none"]],
                half |-> "code", valid |-> FALSE, loaded |-> FALSE]]
  /\ fifo = [slot |-> [s \in Slots |-> Empty], read |-> 0, write |-> 0, full |-> FALSE]
  /\ box = [egress |-> Empty, enabled |-> TRUE, ingress |-> FALSE]

-----------------------------------------------------------------------------
(* The chip *)

Matches(c, part) == \A a \in 1 .. Blocks : chip[c].ram[part][a] = part

\* FWCTRL is written as a whole: a half is selected with the bits of the rest.
Executed(c, f) ==
  CASE f.op = "ram" -> [chip EXCEPT ![c].ram[chip[c].half][f.adr] = f.val]
    [] f.op = "chk" -> [chip EXCEPT ![c].half = f.val, ![c].valid = FALSE]
    [] f.val = "clear" -> [chip EXCEPT ![c].half = "code", ![c].valid = FALSE]
    [] f.val = "switch" -> [chip EXCEPT ![c].half = "data", ![c].valid = FALSE]
    [] f.val = "valid" -> [chip EXCEPT ![c].half = "code", ![c].valid = TRUE]
    [] f.val = "lock" -> [chip EXCEPT ![c].loaded = FALSE]
    [] f.val = "ramloaded" -> [chip EXCEPT ![c].loaded = TRUE]
    [] OTHER -> chip

Answer(ok, crc) == [ok |-> ok, crc |-> crc]

\* The CRC comes with the ack or in a frame of its own.
Answers(c, f) ==
  IF f.op = "chk"
  THEN LET crc == IF Matches(c, f.val) THEN f.val ELSE "bad"
       IN {<<Answer(TRUE, crc)>>, <<Answer(TRUE, "none"), Answer(TRUE, crc)>>}
  ELSE {<<Answer(TRUE, "none")>>}

\* The started firmware sends a message when the last one was taken.
FirmwareSends(m) ==
  /\ chip["idc"].loaded /\ box.egress = Empty
  /\ box' = [box EXCEPT !.egress = m]
  /\ UNCHANGED <<at, rs, link, late, chip, fifo>>

FirmwareTakes ==
  /\ chip["idc"].loaded /\ box.ingress
  /\ box' = [box EXCEPT !.ingress = FALSE]
  /\ UNCHANGED <<at, rs, link, late, chip, fifo>>

-----------------------------------------------------------------------------
(* The download *)

Busy == at.phase \in DOMAIN Script
TheFrame == Script[at.phase][at.i]

\* Where rt_shdsl_init goes when a phase has ended: the result of the AUX
\* message is ignored, and pef24628_control starts the IDC firmware also after
\* a failed download.
Ended(ok) ==
  CASE at.phase = "aux" -> Begin("dsl", FALSE)
    [] at.phase = "dsl" -> Begin(IF ok THEN "idc" ELSE "failed", FALSE)
    [] at.phase = "idc" -> Begin("start", ~ok)
    [] at.phase = "start" -> Begin(IF ok /\ ~at.err THEN "up" ELSE "failed", at.err)

Advance ==
  IF at.i < Len(Script[at.phase])
  THEN [at EXCEPT !.i = @ + 1, !.next = "send", !.retry = Retries]
  ELSE Ended(TRUE)

Again ==
  IF at.retry > 1 THEN [at EXCEPT !.next = "send", !.retry = @ - 1] ELSE Ended(FALSE)

\* The frame or its answer may be lost, and the chip may refuse the frame.
\* last_rs_value is reset before a check of the CRC.
Transmit ==
  /\ Busy /\ at.next = "send"
  /\ at' = [at EXCEPT !.next = "ack"]
  /\ rs' = IF TheFrame.op = "chk" /\ at.retry = Retries THEN "none" ELSE rs
  /\ \/ UNCHANGED <<chip, link>>
     \/ link' = Append(link, Answer(FALSE, "none")) /\ UNCHANGED chip
     \/ /\ chip' = Executed(Core(at.phase), TheFrame)
        /\ \/ UNCHANGED link
           \/ \E a \in Answers(Core(at.phase), TheFrame) : link' = link \o a
  /\ UNCHANGED <<late, fifo, box>>

\* Pef24628e_Sci_Process_Frame of an answer of the RAM shell or of AUX.
Process(r) ==
  /\ link' = Tail(link)
  /\ rs' = IF r.ok /\ r.crc # "none" THEN r.crc ELSE rs

ReceiveAck ==
  /\ Busy /\ at.next = "ack" /\ link # <<>>
  /\ Process(Head(link))
  /\ at' = IF ~Head(link).ok THEN Again
           ELSE IF TheFrame.op = "chk" THEN [at EXCEPT !.next = "crc", !.counter = CrcPolls]
           ELSE Advance
  /\ UNCHANGED <<late, chip, fifo, box>>

\* The counter of the polling loop runs out, or the transmitter underruns.
AckMissing ==
  /\ Busy /\ at.next = "ack"
  /\ late' = IF link = <<>> THEN late ELSE late + 1
  /\ late' <= MaxLate
  /\ at' = Again
  /\ UNCHANGED <<rs, link, chip, fifo, box>>

\* Fault: any CRC ends the wait.
CrcAny ==
  /\ Busy /\ at.next = "crc"
  /\ at' = Advance
  /\ UNCHANGED <<rs, link, late, chip, fifo, box>>

\* One round of the loop.  The last one counts as a timeout even if the CRC
\* has come.
WaitCrc ==
  /\ Busy /\ at.next = "crc"
  /\ \/ /\ at.counter = 1
        /\ at' = Ended(FALSE)
        /\ UNCHANGED <<rs, link>>
     \/ /\ at.counter > 1 /\ rs = TheFrame.val
        /\ at' = Advance
        /\ UNCHANGED <<rs, link>>
     \/ /\ at.counter > 1 /\ rs # TheFrame.val
        /\ at' = [at EXCEPT !.counter = @ - 1]
        /\ UNCHANGED <<rs, link>> \/ (link # <<>> /\ Process(Head(link)))
  /\ UNCHANGED <<late, chip, fifo, box>>

-----------------------------------------------------------------------------
(* Messages *)

After(s) == (s + 1) % REC_FIFO_BLK_NUM

\* Fault: a full FIFO does not disable the interrupt.
StoredUnstopped ==
  /\ fifo' = [fifo EXCEPT !.slot[fifo.write] = box.egress, !.write = After(@),
                          !.full = After(fifo.write) = fifo.read]
  /\ box' = [box EXCEPT !.egress = Empty]

\* A full FIFO keeps the next message in the chip.
Stored ==
  /\ fifo' = [fifo EXCEPT !.slot[fifo.write] = box.egress, !.write = After(@),
                          !.full = After(fifo.write) = fifo.read]
  /\ box' = [box EXCEPT !.egress = Empty, !.enabled = After(fifo.write) # fifo.read]

\* Pef24628e_IntHandler is called by Pef24628e_Poll_Check and by the loops of
\* a download.
Mpi_RxInt ==
  /\ at.phase = "up" \/ (Busy /\ at.next \in {"ack", "crc"})
  /\ box.egress # Empty /\ box.enabled
  /\ Stored
  /\ UNCHANGED <<at, rs, link, late, chip>>

\* What Pef24628e_Poll_Check returns.
Poll_Check == fifo.read # fifo.write \/ fifo.full

\* Fault: MPI_IINT_EN is written in place of MPI_EINT_EN.
GetIngress ==
  /\ at.phase = "up"
  /\ fifo' = IF Poll_Check THEN [fifo EXCEPT !.slot[fifo.read] = Empty, !.read = After(@)]
             ELSE fifo
  /\ UNCHANGED <<at, rs, link, late, chip, box>>

\* bRxFifoFull stays as it is.
Get_IDC_Msg ==
  /\ at.phase = "up"
  /\ fifo' = IF Poll_Check THEN [fifo EXCEPT !.slot[fifo.read] = Empty, !.read = After(@)]
             ELSE fifo
  /\ box' = [box EXCEPT !.enabled = TRUE]
  /\ UNCHANGED <<at, rs, link, late, chip>>

\* Pef24628e_Send_IDC_Msg with Pef24628e_Mpi_Tx: while the chip has not taken
\* the last message nothing is written, and after two rounds the call fails.
Send_IDC_Msg ==
  /\ at.phase = "up" /\ ~box.ingress
  /\ box' = [box EXCEPT !.ingress = TRUE]
  /\ UNCHANGED <<at, rs, link, late, chip, fifo>>

-----------------------------------------------------------------------------
Download == Transmit \/ ReceiveAck \/ AckMissing \/ WaitCrc

ChipNext ==
  \/ Download \/ Mpi_RxInt \/ Get_IDC_Msg \/ Send_IDC_Msg
  \/ FirmwareTakes \/ \E m \in Msg : FirmwareSends(m)

ChipSpec == ChipInit /\ [][ChipNext]_chipVars

\* rt_shdsl_init runs to its end, and rt_shp_thread_entry polls and reads for
\* ever.
ChipFairSpec == ChipSpec /\ WF_chipVars(Download) /\ WF_chipVars(Mpi_RxInt) /\ WF_chipVars(Get_IDC_Msg)

-----------------------------------------------------------------------------
(* Properties *)

\* What the download has checked of a core, its address aside.
Verified(c) ==
  \A p \in {"code", "data"} : \A a \in 1 .. Blocks :
    chip[c].ram[p][a] \in {p} \cup IF c = "dsl" /\ p = "data" /\ a = 1 THEN {"address"} ELSE {}

\* rt_shdsl_init goes on to the IDC image only with a complete DSL image in the
\* chip, and reports success only with both, whatever frames and answers were
\* lost, refused or taken for the answer of another frame; unless an answer
\* came late, both cores are also marked valid and the firmware is started.
BootVerified ==
  /\ ChipTypeOK
  /\ at.phase \in {"idc", "start", "up"} => Verified("dsl")
  /\ at.phase = "start" /\ ~at.err => Verified("idc")
  /\ at.phase = "up" => Verified("idc")
  /\ at.phase = "up" /\ late = 0 =>
       chip["dsl"].valid /\ chip["idc"].valid /\ chip["idc"].loaded

\* The messages of the firmware come out of the FIFO in their order, none is
\* lost or repeated, also when the FIFO has been full.  They lie before the
\* place of the next one.
Filled == {s \in Slots : fifo.slot[s] # Empty}
Buffered ==
  LET n == Cardinality(Filled)
  IN [i \in 1 .. n |-> fifo.slot[(fifo.write - n + i - 1) % REC_FIFO_BLK_NUM]]
MessageFifo == INSTANCE MailQueue WITH queue <- Buffered, Mail <- Msg, Size <- REC_FIFO_BLK_NUM,
                                       Urgent <- {}, Resets <- FALSE
MessagesInOrder == MessageFifo!Spec

\* The firmware does not wait for ever with a message: reception goes on after
\* the FIFO was full.
ReceptionResumes == at.phase = "up" /\ box.egress # Empty ~> box.egress = Empty

=============================================================================
