-------------------------------- MODULE Net --------------------------------
(***************************************************************************)
(* The Ethernet path: the driver of src/bsp/stm32f107/drivers/stm32_eth.c, *)
(* the erx and etx threads of uip_ethernetif.c, the glue to uIP            *)
(* (uip_tcpip.c, uip_etharp.c) and the uIP thread of uIPmain.c.  The DMA   *)
(* engine and its interrupt run between any two steps of a thread; no      *)
(* thread runs while the handler does.  A kernel call is one step: what    *)
(* happens inside is in Semaphore and Mailbox.  What uip_process leaves in *)
(* uip_buf is left out: uip_len, which both threads write, may be anything *)
(* when it is looked at.  Places:                                          *)
(*   run        at rt_mb_recv, and the uIP thread at rt_thread_delay       *)
(*   rx         erx: before eth_rx                                         *)
(*   ack        ethernetif_linkoutput: before rt_sem_take                  *)
(*   sent       rt_sem_take on its way back                                *)
(*   tx, took   etx: before rt_sem_take, and on its way back               *)
(*   copy, step before the copy into the descriptor, and before the step   *)
(*              of DMATxDescToSet                                          *)
(*   reply      before the ack                                             *)
(*   poll       the uIP thread: before uip_periodic                        *)
(***************************************************************************)
EXTENDS Processor

CONSTANTS
  Erx, Etx, Uip,       \* the threads
  ETH_RXBUFNB,         \* receive descriptors, 4
  ETH_TXBUFNB,         \* transmit descriptors, 2
  MboxSize,            \* RT_LWIP_ETHTHREAD_MBOX_SIZE
  Outcome,             \* whether memory is there: a subset of BOOLEAN
  MaxDirect            \* bound: frames the uIP thread sends by itself

ASSUME NetAssumption ==
  /\ Thread = {Erx, Etx, Uip, Idle}
  /\ Erx \notin {Etx, Uip, Idle} /\ Etx \notin {Uip, Idle} /\ Uip # Idle
  /\ {"erxmb", "etxmb", "tx_ack", "tx_buf_free"} \subseteq WaitList
  /\ {ETH_RXBUFNB, ETH_TXBUFNB, MboxSize} \subseteq Nat \ {0}
  /\ MaxDirect \in Nat /\ Outcome \subseteq BOOLEAN

VARIABLES
  rx,    \* receive descriptors the processor owns, from DMARxDescToGet on
  tx,    \* transmit descriptors the engine owns, DMATxDescToSet, the engine's place
  irq,   \* the R and T bits of DMASR, and the handler with the bits it has read
  obj,   \* entries of the mailboxes and values of the semaphores
  mem    \* blocks erx holds; direct and gaveup are history
vars == <<sys, pc, rx, tx, irq, obj, mem>>

TxDesc == 0 .. ETH_TXBUFNB - 1
Place  == {"run", "rx", "ack", "sent", "tx", "took", "copy", "step", "reply", "poll"}
Mem    == [p : -1 .. 1, pdata : {0, 1}, direct : 0 .. MaxDirect, gaveup : BOOLEAN]

TypeOK ==
  /\ sys \in KernelState
  /\ pc \in [Thread -> Place]
  /\ rx \in 0 .. ETH_RXBUFNB
  /\ tx \in [own : SUBSET TxDesc, set : TxDesc, dma : TxDesc]
  /\ irq \in [pending : SUBSET {"R", "T"}, at : {"none", "r", "t"}, status : SUBSET {"R", "T"}]
  /\ obj \in [erxmb : 0 .. MboxSize, etxmb : 0 .. 1, tx_ack : 0 .. 1,
              tx_buf_free : 0 .. ETH_TXBUFNB + MaxDirect]
  /\ mem \in Mem

\* The threads are started before the scheduler (application.c, startup.c).
Started ==
  LET e == rt_thread_startup(KernelInit, Erx)
      x == rt_thread_startup(e, Etx)
      u == rt_thread_startup(x, Uip)
      k == rt_thread_startup(u, Idle)
  IN [k EXCEPT !.cur = Head(k.ready[HighestReady(k)])]

Init ==
  /\ sys = Started /\ pc = [t \in Thread |-> "run"]
  /\ rx = 0
  /\ tx = [own |-> {}, set |-> 0, dma |-> 0]
  /\ irq = [pending |-> {}, at |-> "none", status |-> {}]
  /\ obj = [erxmb |-> 0, etxmb |-> 0, tx_ack |-> 0, tx_buf_free |-> ETH_TXBUFNB]
  /\ mem = [p |-> 0, pdata |-> 0, direct |-> 0, gaveup |-> FALSE]

-----------------------------------------------------------------------------
(* Kernel objects: taking from and giving to the object o *)

\* The caller leaves the processor until o is given to.
Block(c, o, time, l) ==
  /\ sys' = rt_schedule(WaitOn(sys, o, c, "FIFO", time))
  /\ Goto(c, l)
  /\ UNCHANGED obj

\* A mail wakes its receiver, which looks again.
Post(o, size) ==
  /\ obj' = [obj EXCEPT ![o] = IF @ < size THEN @ + 1 ELSE @]
  /\ sys' = IF obj[o] < size /\ sys.wait[o] # <<>>
            THEN rt_schedule(rt_ipc_list_resume(sys, o)) ELSE sys

\* A permit goes to the first waiting thread.
Release(o) ==
  IF sys.wait[o] # <<>>
  THEN /\ sys' = rt_schedule(rt_ipc_list_resume(sys, o))
       /\ UNCHANGED obj
  ELSE obj' = [obj EXCEPT ![o] = @ + 1] /\ UNCHANGED sys

Receive(c, o, l) ==
  \/ /\ obj[o] > 0
     /\ obj' = [obj EXCEPT ![o] = @ - 1]
     /\ Goto(c, l)
     /\ UNCHANGED sys
  \/ obj[o] = 0 /\ Block(c, o, "forever", "run")

-----------------------------------------------------------------------------
(* The DMA engine and ETH_IRQHandler *)

\* A frame arrives; without a free descriptor it is lost.
DmaReceive ==
  /\ rx < ETH_RXBUFNB
  /\ rx' = rx + 1
  /\ irq' = [irq EXCEPT !.pending = @ \cup {"R"}]
  /\ UNCHANGED <<sys, pc, tx, obj, mem>>

DmaTransmit ==
  /\ tx.dma \in tx.own
  /\ tx' = [tx EXCEPT !.own = @ \ {tx.dma}, !.dma = (@ + 1) % ETH_TXBUFNB]
  /\ irq' = [irq EXCEPT !.pending = @ \cup {"T"}]
  /\ UNCHANGED <<sys, pc, rx, obj, mem>>

\* DMASR is read; eth_device_ready.
IrqEnter ==
  /\ irq.at = "none" /\ irq.pending # {}
  /\ irq' = [irq EXCEPT !.at = "r", !.status = irq.pending]
  /\ IF "R" \in irq.pending THEN Post("erxmb", MboxSize) ELSE UNCHANGED <<sys, obj>>
  /\ UNCHANGED <<pc, rx, tx, mem>>

\* The R bit that was read is cleared; the T bit that was read gives a permit.
IrqRelease ==
  /\ irq.at = "r"
  /\ IF "T" \in irq.status
     THEN /\ irq' = [irq EXCEPT !.at = "t", !.pending = @ \ (irq.status \cap {"R"})]
          /\ Release("tx_buf_free")
     ELSE /\ irq' = [pending |-> irq.pending \ {"R"}, at |-> "none", status |-> {}]
          /\ UNCHANGED <<sys, obj>>
  /\ UNCHANGED <<pc, rx, tx, mem>>

IrqLeave ==
  /\ irq.at = "t"
  /\ irq' = [pending |-> irq.pending \ {"T"}, at |-> "none", status |-> {}]
  /\ UNCHANGED <<sys, pc, rx, tx, obj, mem>>

ETH_IRQHandler == IrqEnter \/ IrqRelease \/ IrqLeave

-----------------------------------------------------------------------------
(* eth_rx_thread_entry *)

RxMail ==
  /\ Running(Erx)
  /\ mem' = [mem EXCEPT !.gaveup = @ /\ obj.erxmb = 0]
  /\ Receive(Erx, "erxmb", "rx")
  /\ UNCHANGED <<rx, tx, irq>>

\* Below 0, a block that is free is freed again.
pbuf_free(m) == [m EXCEPT !.p = @ - 1]

\* eth_input of a frame in the block m.p, with etharp_ip_input, tcpip_input and
\* etharp_arp_input: frames of other types and frames without an answer are
\* freed.  An answer needs memory of its own; when there is none tcpip_input
\* frees p and has eth_input free it again.
Dropped(m) ==
  /\ \/ mem' = pbuf_free(m)
     \/ FALSE \in Outcome /\ mem' = pbuf_free(pbuf_free(m))
  /\ Goto(Erx, "rx")
  /\ UNCHANGED <<sys, obj>>

\* ethernetif_linkoutput with a message on the stack of erx: the first half.
\* There is no ack for a message that a full mailbox refuses.
LinkPost(m) ==
  /\ mem' = [m EXCEPT !.pdata = 1]
  /\ Post("etxmb", MboxSize)
  /\ Goto(Erx, IF obj.etxmb < MboxSize THEN "ack" ELSE "sent")

eth_input(m) == Dropped(m) \/ LinkPost(m)

\* Fault: one frame per mail.
RxOnce ==
  /\ At(Erx, "rx") /\ rx > 0
  /\ rx' = rx - 1
  /\ Goto(Erx, "run")
  /\ UNCHANGED <<sys, tx, irq, obj, mem>>

\* One frame of the loop of erx.  A frame in error and a pbuf_alloc that fails
\* end it like an empty ring.
rt_stm32_eth_rx ==
  /\ At(Erx, "rx")
  /\ \/ /\ rx = 0
        /\ Goto(Erx, "run")
        /\ UNCHANGED <<sys, rx, obj, mem>>
     \/ /\ rx > 0 /\ FALSE \in Outcome
        /\ rx' = rx - 1
        /\ mem' = [mem EXCEPT !.gaveup = rx > 1]
        /\ Goto(Erx, "run")
        /\ UNCHANGED <<sys, obj>>
     \/ /\ rx > 0 /\ TRUE \in Outcome
        /\ rx' = rx - 1
        /\ eth_input([mem EXCEPT !.p = 1, !.gaveup = FALSE])
  /\ UNCHANGED <<tx, irq>>

\* Fault: the ack is not waited for.
LinkNoWait ==
  /\ At(Erx, "ack")
  /\ Goto(Erx, "sent")
  /\ UNCHANGED <<sys, rx, tx, irq, obj, mem>>

LinkWait ==
  /\ At(Erx, "ack")
  /\ \/ /\ obj.tx_ack > 0
        /\ obj' = [obj EXCEPT !.tx_ack = @ - 1]
        /\ Goto(Erx, "sent")
        /\ UNCHANGED sys
     \/ obj.tx_ack = 0 /\ Block(Erx, "tx_ack", "forever", "sent")
  /\ UNCHANGED <<rx, tx, irq, mem>>

\* rt_free of the answer and pbuf_free.
LinkDone ==
  /\ At(Erx, "sent")
  /\ mem' = pbuf_free([mem EXCEPT !.pdata = 0])
  /\ Goto(Erx, "rx")
  /\ UNCHANGED <<sys, rx, tx, irq, obj>>

-----------------------------------------------------------------------------
(* eth_tx_thread_entry and rt_stm32_eth_tx *)

TxMail ==
  /\ Running(Etx)
  /\ Receive(Etx, "etxmb", "tx")
  /\ UNCHANGED <<rx, tx, irq, mem>>

TxClaim ==
  /\ At(Etx, "tx")
  /\ \/ /\ obj.tx_buf_free > 0
        /\ obj' = [obj EXCEPT !.tx_buf_free = @ - 1]
        /\ Goto(Etx, "copy")
        /\ UNCHANGED sys
     \/ obj.tx_buf_free = 0 /\ Block(Etx, "tx_buf_free", "timed", "took")
  /\ UNCHANGED <<rx, tx, irq, mem>>

\* Fault: the result of rt_sem_take is ignored.
TookUnchecked ==
  /\ At(Etx, "took")
  /\ Goto(Etx, "copy")
  /\ UNCHANGED <<sys, rx, tx, irq, obj, mem>>

\* A timeout is reported and the frame dropped.
TxTook ==
  /\ At(Etx, "took")
  /\ Goto(Etx, IF sys.error[Etx] = "EOK" THEN "copy" ELSE "reply")
  /\ UNCHANGED <<sys, rx, tx, irq, obj, mem>>

Own(x)  == [x EXCEPT !.own = @ \cup {x.set}]
Step(x) == [x EXCEPT !.set = (@ + 1) % ETH_TXBUFNB]

\* The frame is copied and OWN is set without a look at it.
TxCopy ==
  /\ At(Etx, "copy")
  /\ tx' = Own(tx)
  /\ Goto(Etx, "step")
  /\ UNCHANGED <<sys, rx, irq, obj, mem>>

\* DMATxDescToSet goes on from where it is by then: the uIP thread may have
\* moved it.
TxStep ==
  /\ At(Etx, "step")
  /\ tx' = Step(tx)
  /\ Goto(Etx, "reply")
  /\ UNCHANGED <<sys, rx, irq, obj, mem>>

\* Fault: a frame that was not sent is not acknowledged.
TxAckSent ==
  /\ At(Etx, "reply")
  /\ IF sys.error[Etx] = "EOK" THEN Release("tx_ack") ELSE UNCHANGED <<sys, obj>>
  /\ Goto(Etx, "run")
  /\ UNCHANGED <<rx, tx, irq, mem>>

TxAck ==
  /\ At(Etx, "reply")
  /\ Release("tx_ack")
  /\ Goto(Etx, "run")
  /\ UNCHANGED <<rx, tx, irq, mem>>

-----------------------------------------------------------------------------
(* uip_tcpip_thread *)

Delay ==
  /\ sys' = rt_schedule(rt_timer_start(rt_thread_suspend(sys, Uip), Uip))
  /\ Goto(Uip, "poll")

FirstDelay ==
  /\ Running(Uip)
  /\ Delay
  /\ UNCHANGED <<rx, tx, irq, obj, mem>>

\* uip_periodic of the connections, of which one may have something to send.
\* ETH_HandleTxPkt takes no permit, and its descriptor raises the T interrupt
\* like any other.
TransmitPacket ==
  /\ At(Uip, "poll")
  /\ \/ UNCHANGED <<tx, mem>>
     \/ /\ mem.direct < MaxDirect /\ tx.set \notin tx.own
        /\ tx' = Step(Own(tx))
        /\ mem' = [mem EXCEPT !.direct = @ + 1]
  /\ Delay
  /\ UNCHANGED <<rx, irq, obj>>

-----------------------------------------------------------------------------
ErxStep ==
  \/ RxMail \/ rt_stm32_eth_rx \/ LinkWait \/ LinkDone
EtxStep == TxMail \/ TxClaim \/ TxTook \/ TxCopy \/ TxStep \/ TxAck
UipStep == FirstDelay \/ TransmitPacket

\* SysTick is the interrupt of lowest priority (SysTick_Config).
Clock == Tick /\ UNCHANGED <<rx, tx, irq, obj, mem>>

Next ==
  \/ DmaReceive \/ DmaTransmit \/ ETH_IRQHandler
  \/ irq.at = "none" /\ (Clock \/ ErxStep \/ EtxStep \/ UipStep)

Spec == Init /\ [][Next]_vars

\* The engine sends, the handler runs, the timeout of etx expires, and neither
\* the uIP thread nor both of erx and etx stand still for ever.
FairSpec ==
  /\ Spec /\ WF_vars(DmaTransmit) /\ WF_vars(ETH_IRQHandler)
  /\ SF_vars(irq.at = "none" /\ TimerExpires(Etx) /\ UNCHANGED <<rx, tx, irq, obj, mem>>)
  /\ SF_vars(irq.at = "none" /\ (ErxStep \/ EtxStep))
  /\ SF_vars(irq.at = "none" /\ UipStep)

-----------------------------------------------------------------------------
(* Properties *)

\* etx only looks at a message while erx, on whose stack it lies, is waiting
\* for the ack, and no ack is left over for the next message: the hand-over of
\* one frame is over before the next begins.
MessageAlive ==
  LET busy    == obj.etxmb > 0 \/ pc[Etx] \in {"tx", "took", "copy", "step", "reply"}
      waiting == pc[Erx] = "ack" \/ (pc[Erx] = "sent" /\ sys.wait["tx_ack"] # <<>>)
  IN /\ TypeOK
     /\ busy => waiting /\ obj.tx_ack = 0
     /\ waiting => busy \/ obj.tx_ack = 1
     /\ busy => mem.p = 1 /\ mem.pdata = 1

\* etx has a permit it has not used yet.
Claimed ==
  \/ pc[Etx] = "copy"
  \/ pc[Etx] = "took" /\ sys.wait["tx_buf_free"] = <<>> /\ sys.error[Etx] = "EOK"

\* Permits given, in use or about to be given by the handler exceed the free
\* descriptors by no more than what the uIP thread sent without one, whatever
\* interrupts were merged into one or lost.
PermitsCovered ==
  obj.tx_buf_free + (IF Claimed THEN 1 ELSE 0)
                  + (IF "T" \in irq.pending /\ irq.at # "t" THEN 1 ELSE 0)
    <= ETH_TXBUFNB - Cardinality(tx.own) + mem.direct

\* No frame lies in a descriptor while erx sleeps, the mailbox is empty and no
\* interrupt is under way, unless erx gave up on a frame before it.
NoFrameStranded ==
  rx > 0 /\ sys.wait["erxmb"] # <<>> /\ obj.erxmb = 0 => "R" \in irq.pending \/ mem.gaveup

\* rt_free is given a block that is in use, as it asserts.
FreedOnce == mem.p >= 0

\* Every frame handed to etx is acknowledged, sent or not, and erx holds no
\* block when it is done with the frame.
Acked == pc[Erx] = "ack" ~> pc[Erx] = "rx" /\ mem.p = 0 /\ mem.pdata = 0
=============================================================================
