------------------------------- MODULE Serial -------------------------------
(***************************************************************************)
(* The serial device of src/components/drivers/serial/serial.c with the    *)
(* data queue and the completion it is built on, the interrupt handler of  *)
(* src/bsp/stm32f107/drivers/usart.c and the shell that reads from it.     *)
(* Writing by DMA, writing by interrupt and reading share no state, so a   *)
(* behaviour uses one of them, its path:                                   *)
(*   dma  writers push onto a data queue that the interrupt handler feeds  *)
(*        to the DMA channel                                               *)
(*   int  writers fill the transmit register and wait for a completion     *)
(*   rx   the handler fills a ring that the shell empties                  *)
(* Places:  push, back   rt_data_queue_push blocked, and woken             *)
(*          pushed, kick the item is queued; the DMA channel was idle      *)
(*          putc, full   before putc, and after it found no room           *)
(*          wait, woken  rt_completion_wait blocked, and woken             *)
(*          halt         its assertion failed: the system has stopped      *)
(*          take, took   the shell blocked on rx_sem, and reading          *)
(***************************************************************************)
EXTENDS Processor

CONSTANTS
  Data,       \* buffers written by DMA
  Size, Lwm,  \* size and low water mark of the data queue, 8 and 4
  IndexWrap,  \* number of values of put_index and get_index, 2^16 in the code
  MaxPush,    \* bound: no rt_data_queue_push once that many buffers were queued
  BufSize,    \* config.bufsz, 64
  MaxChar,    \* bound: number of characters that arrive
  Writer,     \* the threads that write
  Shell       \* the thread that reads

ASSUME SerialAssumption ==
  /\ Size \in Nat \ {0} /\ Lwm \in 0 .. Size - 1 /\ IndexWrap % Size = 0
  /\ IndexWrap \in Nat \ {0}
  /\ MaxPush \in Nat /\ MaxChar \in Nat /\ BufSize \in Nat \ {0, 1}
  /\ Data # {} /\ 0 \notin Data /\ {"push", "done", "rx"} \subseteq WaitList
  /\ Writer \subseteq Thread \ {Idle} /\ Shell \in Thread \ {Idle}

VARIABLES
  path,   \* which part of the driver is used
  value,  \* the buffer each writer is writing
  tx_dma, \* struct rt_serial_tx_dma and what the DMA channel is sending
  reg,    \* the transmit register is full, and the flag of the completion
  rx_fifo \* struct rt_serial_rx_fifo, receive register, rx_sem and the handler
serialVars == <<sys, pc, path, value, tx_dma, reg, rx_fifo>>

Nothing == 0   \* no buffer, no character

SerialTypeOK ==
  /\ sys \in KernelState /\ path \in {"dma", "int", "rx"}
  /\ pc \in [Thread -> {"run", "push", "back", "pushed", "kick", "putc", "full", "wait",
                        "woken", "halt", "take", "took"}]
  /\ value \in [Thread -> Data]
  /\ tx_dma \in [put : 0 .. IndexWrap - 1, get : 0 .. IndexWrap - 1, waiting_lwm : BOOLEAN,
                 item : [0 .. Size - 1 -> Data], activated : BOOLEAN,
                 dma : Data \cup {Nothing}, pushes : Nat]
  /\ reg \in [full : BOOLEAN, flag : BOOLEAN]
  /\ rx_fifo \in [dr : 0 .. MaxChar, ore : BOOLEAN, put : 0 .. BufSize - 1, get : 0 .. BufSize - 1,
                  buffer : [0 .. BufSize - 1 -> 0 .. MaxChar], sem : 0 .. MaxChar,
                  isr : {"none", "rx", "clear", "ore"}, arrived : 0 .. MaxChar,
                  last : 0 .. MaxChar]

\* rt_serial_open has set up both directions.
SerialInit ==
  /\ sys = KernelInit /\ pc = [t \in Thread |-> "run"]
  /\ path \in {"dma", "int", "rx"}
  /\ \E d \in Data :
       /\ value = [t \in Thread |-> d]
       /\ tx_dma = [put |-> 0, get |-> 0, waiting_lwm |-> FALSE,
                    item |-> [i \in 0 .. Size - 1 |-> d],
                    activated |-> FALSE, dma |-> Nothing, pushes |-> 0]
  /\ reg = [full |-> FALSE, flag |-> FALSE]
  /\ rx_fifo = [dr |-> Nothing, ore |-> FALSE, put |-> 0, get |-> 0,
                buffer |-> [i \in 0 .. BufSize - 1 |-> Nothing], sem |-> 0,
                isr |-> "none", arrived |-> 0, last |-> 0]

-----------------------------------------------------------------------------
(* Writing by DMA *)

\* put_index - get_index, both promoted to int.
Count(q) == q.put - q.get

Put(q, d) ==
  [q EXCEPT !.item[q.put % Size] = d, !.put = (@ + 1) % IndexWrap, !.pushes = @ + 1]

\* The loop and the end of rt_data_queue_push, with interrupts disabled.
Push(c, d) ==
  /\ value' = [value EXCEPT ![c] = d]
  /\ \/ /\ Count(tx_dma) = Size
        /\ tx_dma' = [tx_dma EXCEPT !.waiting_lwm = TRUE]
        /\ sys' = WaitOn(sys, "push", c, "FIFO", "forever")
        /\ Goto(c, "push")
     \/ /\ Count(tx_dma) # Size
        /\ tx_dma' = Put(tx_dma, d)
        /\ Goto(c, "pushed")
        /\ UNCHANGED sys
  /\ UNCHANGED <<path, reg, rx_fifo>>

_serial_dma_tx(c, d) ==
  /\ path = "dma" /\ c \in Writer /\ Running(c) /\ tx_dma.pushes < MaxPush
  /\ Push(c, d)

PushAgain(c) == At(c, "back") /\ Push(c, value[c])

\* The test of activated, in a critical section of its own.
Activate(c) ==
  /\ At(c, "pushed")
  /\ tx_dma' = [tx_dma EXCEPT !.activated = TRUE]
  /\ Goto(c, IF tx_dma.activated THEN "run" ELSE "kick")
  /\ UNCHANGED <<sys, path, value, reg, rx_fifo>>

\* dma_transmit of the writer's own buffer.
Kick(c) ==
  /\ At(c, "kick")
  /\ tx_dma' = [tx_dma EXCEPT !.dma = value[c]]
  /\ Goto(c, "run")
  /\ UNCHANGED <<sys, path, value, reg, rx_fifo>>

\* rt_data_queue_pop with timeout 0, in the handler: of an empty queue it
\* returns -RT_ETIMEOUT.
Pop(q) == IF q.get = q.put THEN q ELSE [q EXCEPT !.get = (@ + 1) % IndexWrap]

AtMark(q) == q.get # q.put /\ q.waiting_lwm /\ Count(Pop(q)) <= Lwm

\* Fault: the mark is looked at but nobody is woken.
WakeNobody(k) == k

WakePusher(k) ==
  IF AtMark(tx_dma) /\ k.wait["push"] # <<>> THEN rt_schedule(rt_ipc_list_resume(k, "push")) ELSE k

\* Fault: the end of a transfer does not start the next one.
FeedRests(q) == [q EXCEPT !.activated = FALSE, !.dma = Nothing]

\* rt_data_queue_peak and what follows: the next buffer, or rest.
Feed(q) ==
  IF q.get # q.put THEN [q EXCEPT !.activated = TRUE, !.dma = q.item[q.get % Size]]
                   ELSE [q EXCEPT !.activated = FALSE, !.dma = Nothing]

\* RT_SERIAL_EVENT_TX_DMADONE.  At the mark and with no pusher to wake the
\* code would go on with interrupts disabled: see NoLostWakeup.
DmaDone ==
  /\ sys.cur # NoThread /\ tx_dma.dma # Nothing
  /\ sys' = WakePusher(sys)
  /\ tx_dma' = Feed([Pop(tx_dma) EXCEPT !.waiting_lwm = @ /\ ~AtMark(tx_dma)])
  /\ UNCHANGED <<pc, path, value, reg, rx_fifo>>

-----------------------------------------------------------------------------
(* Writing by interrupt, one character at a time *)

_serial_int_tx(c) ==
  /\ path = "int" /\ c \in Writer /\ Running(c)
  /\ Goto(c, "putc")
  /\ UNCHANGED <<sys, path, value, tx_dma, reg, rx_fifo>>

\* putc of a driver that returns -1 while the register is full.  The one of
\* this board, stm32_putc, waits itself.
Putc(c) ==
  /\ At(c, "putc")
  /\ reg' = [reg EXCEPT !.full = TRUE]
  /\ Goto(c, IF reg.full THEN "full" ELSE "run")
  /\ UNCHANGED <<sys, path, value, tx_dma, rx_fifo>>

\* Only one thread may wait on a completion: RT_ASSERT stops the system.
rt_completion_wait(c) ==
  /\ At(c, "full")
  /\ \/ /\ reg.flag
        /\ reg' = [reg EXCEPT !.flag = FALSE]
        /\ Goto(c, "putc")
        /\ UNCHANGED sys
     \/ /\ ~reg.flag /\ sys.wait["done"] = <<>>
        /\ sys' = WaitOn(sys, "done", c, "FIFO", "forever")
        /\ Goto(c, "wait")
        /\ UNCHANGED reg
     \/ /\ ~reg.flag /\ sys.wait["done"] # <<>>
        /\ Goto(c, "halt")
        /\ UNCHANGED <<sys, reg>>
  /\ UNCHANGED <<path, value, tx_dma, rx_fifo>>

\* The flag is cleared by the thread once it runs.
WaitReturn(c) ==
  /\ At(c, "woken")
  /\ reg' = [reg EXCEPT !.flag = FALSE]
  /\ Goto(c, "putc")
  /\ UNCHANGED <<sys, path, value, tx_dma, rx_fifo>>

\* RT_SERIAL_EVENT_TX_DONE: the register is empty, rt_completion_done.
TxDone ==
  /\ sys.cur # NoThread /\ reg.full
  /\ reg' = [full |-> FALSE, flag |-> TRUE]
  /\ sys' = IF ~reg.flag /\ sys.wait["done"] # <<>>
            THEN rt_schedule(rt_ipc_list_resume(sys, "done")) ELSE sys
  /\ UNCHANGED <<pc, path, value, tx_dma, rx_fifo>>

-----------------------------------------------------------------------------
(* Reading.  Threads do not run while the handler does.                    *)

\* A character arrives.  A register that was not read keeps the old one.
Arrive ==
  /\ path = "rx" /\ sys.cur # NoThread /\ rx_fifo.arrived < MaxChar
  /\ rx_fifo' = [rx_fifo EXCEPT !.arrived = @ + 1,
                                !.dr = IF @ = Nothing THEN rx_fifo.arrived + 1 ELSE @,
                                !.ore = @ \/ rx_fifo.dr # Nothing]
  /\ UNCHANGED <<sys, pc, path, value, tx_dma, reg>>

USART_IRQHandler ==
  /\ sys.cur # NoThread /\ rx_fifo.isr = "none" /\ rx_fifo.dr # Nothing
  /\ rx_fifo' = [rx_fifo EXCEPT !.isr = "rx"]
  /\ UNCHANGED <<sys, pc, path, value, tx_dma, reg>>

Next1(i) == IF i + 1 >= BufSize THEN 0 ELSE i + 1

\* Fault: a full ring loses all it holds.
StoreWraps(r) ==
  [r EXCEPT !.buffer[r.put] = r.dr, !.put = Next1(@), !.dr = Nothing, !.ore = FALSE]

\* The character goes into the ring; a full ring drops the oldest one.
Store(r) ==
  LET p == Next1(r.put)
  IN [r EXCEPT !.buffer[r.put] = r.dr, !.put = p, !.dr = Nothing, !.ore = FALSE,
               !.get = IF @ = p THEN Next1(@) ELSE @]

\* The loop of RT_SERIAL_EVENT_RX_IND, one character read by stm32_getc.
RxStore ==
  /\ rx_fifo.isr = "rx" /\ rx_fifo.dr # Nothing
  /\ rx_fifo' = Store(rx_fifo)
  /\ UNCHANGED <<sys, pc, path, value, tx_dma, reg>>

\* The end of the loop: finsh_rx_ind releases rx_sem.
RxIndicate ==
  /\ rx_fifo.isr = "rx" /\ rx_fifo.dr = Nothing
  /\ sys' = IF sys.wait["rx"] # <<>> THEN rt_schedule(rt_ipc_list_resume(sys, "rx")) ELSE sys
  /\ rx_fifo' = [rx_fifo EXCEPT !.isr = "clear",
                                !.sem = IF sys.wait["rx"] # <<>> THEN @ ELSE @ + 1]
  /\ UNCHANGED <<pc, path, value, tx_dma, reg>>

\* USART_ClearITPendingBit: a character that has just arrived is lost.
RxClear ==
  /\ rx_fifo.isr = "clear"
  /\ rx_fifo' = [rx_fifo EXCEPT !.isr = "ore", !.dr = Nothing]
  /\ UNCHANGED <<sys, pc, path, value, tx_dma, reg>>

\* An overrun is cleared by reading the register once more.
RxLeave ==
  /\ rx_fifo.isr = "ore"
  /\ rx_fifo' = [rx_fifo EXCEPT !.isr = "none", !.ore = FALSE,
                                !.dr = IF rx_fifo.ore THEN Nothing ELSE @]
  /\ UNCHANGED <<sys, pc, path, value, tx_dma, reg>>

\* finsh_thread_entry: rt_sem_take, then reads until the ring is empty.
TakeRxSem(c) ==
  /\ path = "rx" /\ c = Shell /\ Running(c)
  /\ \/ /\ rx_fifo.sem > 0
        /\ rx_fifo' = [rx_fifo EXCEPT !.sem = @ - 1]
        /\ Goto(c, "took")
        /\ UNCHANGED sys
     \/ /\ rx_fifo.sem = 0
        /\ sys' = WaitOn(sys, "rx", c, "FIFO", "forever")
        /\ Goto(c, "take")
        /\ UNCHANGED rx_fifo
  /\ UNCHANGED <<path, value, tx_dma, reg>>

_serial_int_rx(c) ==
  /\ At(c, "took")
  /\ \/ /\ rx_fifo.get # rx_fifo.put
        /\ rx_fifo' = [rx_fifo EXCEPT !.last = rx_fifo.buffer[rx_fifo.get], !.get = Next1(@)]
        /\ UNCHANGED pc
     \/ rx_fifo.get = rx_fifo.put /\ Goto(c, "run") /\ UNCHANGED rx_fifo
  /\ UNCHANGED <<sys, path, value, tx_dma, reg>>

-----------------------------------------------------------------------------
SerialSchedule(c) ==
  /\ Schedule(c, "push", "back") \/ Schedule(c, "wait", "woken") \/ Schedule(c, "take", "took")
  /\ UNCHANGED <<path, value, tx_dma, reg, rx_fifo>>

Continue(c) ==
  /\ rx_fifo.isr = "none"
  /\ \/ PushAgain(c) \/ Activate(c) \/ Kick(c)
     \/ Putc(c) \/ rt_completion_wait(c) \/ WaitReturn(c)
     \/ TakeRxSem(c) \/ _serial_int_rx(c) \/ SerialSchedule(c)

Call(c) ==
  \/ \E d \in Data : _serial_dma_tx(c, d)
  \/ _serial_int_tx(c) \/ Continue(c)

Handler == USART_IRQHandler \/ RxStore \/ RxIndicate \/ RxClear \/ RxLeave

Halted == \E c \in Writer : pc[c] = "halt"

SerialNext ==
  \/ /\ ~Halted
     /\ \/ Boot /\ UNCHANGED <<path, value, tx_dma, reg, rx_fifo>>
        \/ Tick /\ UNCHANGED <<path, value, tx_dma, reg, rx_fifo>>
        \/ DmaDone \/ TxDone \/ Arrive \/ Handler
        \/ \E c \in Thread \ {Idle} : Call(c)
  \/ Halted /\ UNCHANGED serialVars

SerialSpec == SerialInit /\ [][SerialNext]_serialVars

\* The hardware sends what it was given, handlers run, and a thread inside a
\* call that gets the processor again and again goes on.
SerialFairSpec ==
  /\ SerialSpec
  /\ WF_serialVars(~Halted /\ DmaDone) /\ WF_serialVars(~Halted /\ TxDone)
  /\ WF_serialVars(~Halted /\ Handler)
  /\ \A c \in Thread \ {Idle} : SF_serialVars(~Halted /\ Continue(c))

-----------------------------------------------------------------------------
(* Properties *)

\* Nobody sleeps for want of a step that is under way or owed by a writer that
\* can run, for any number of writers.
\*   While a buffer is queued one is being sent, or a writer is about to start
\* the channel.  The low water mark is armed only while there is a pusher to
\* wake: otherwise rt_data_queue_pop returns with interrupts disabled.  A pusher
\* may sleep with the mark no longer armed, behind one that was woken there, but
\* then some writer can run: never do all of them sleep on.  Until put_index
\* wraps the queue holds no more than its slots, and the mark is ahead of an
\* armed queue; after that a full queue is not recognised.
\*   A writer sleeps on a completion only while the register is full or another
\* writer is about to fill it, and the shell only on an empty ring or ahead of
\* the handler's indication.
NoLostWakeup ==
  /\ SerialTypeOK
  /\ tx_dma.get # tx_dma.put =>
       tx_dma.dma # Nothing \/ \E c \in Writer : pc[c] \in {"pushed", "kick"}
  /\ tx_dma.waiting_lwm => sys.wait["push"] # <<>>
  /\ sys.wait["push"] # <<>> =>
       tx_dma.waiting_lwm \/ \E c \in Writer : sys.stat[c] = "READY"
  /\ tx_dma.pushes < IndexWrap =>
       /\ tx_dma.put - tx_dma.get \in 0 .. Size
       /\ tx_dma.waiting_lwm => tx_dma.get # tx_dma.put
  /\ sys.wait["done"] # <<>> => reg.full \/ \E c \in Writer : pc[c] = "putc"
  /\ sys.wait["rx"] # <<>> /\ rx_fifo.get # rx_fifo.put => rx_fifo.isr = "rx"

\* The characters in the ring, from the oldest.
Ring ==
  LET n == (rx_fifo.put - rx_fifo.get + BufSize) % BufSize
  IN [i \in 1 .. n |-> rx_fifo.buffer[(rx_fifo.get + i - 1) % BufSize]]

\* The shell reads characters in the order they were received, none twice, and
\* a character is dropped only to make room in a full ring, the oldest one,
\* whatever the handler does while the shell is reading.
DropsOldest ==
  [][\/ Ring' = Ring
     \/ Ring # <<>> /\ Ring' = Tail(Ring) /\ rx_fifo'.last = Head(Ring)
     \/ Ring' = Append(IF Len(Ring) = BufSize - 1 THEN Tail(Ring) ELSE Ring, rx_fifo.dr)
    ]_serialVars

\* c is the only thread inside a call of the driver, and no other one computes
\* for ever.
Alone(c) == \A d \in Thread \ {Idle, c} : [](pc[d] = "run") /\ []<>(sys.cur # d)

\* Whoever waits is served: a writer that has the device for itself gets its
\* buffer queued or its character out, and what lies in the ring is read once
\* the shell was started.
Served ==
  \A c \in Thread \ {Idle} : Alone(c) =>
    /\ pc[c] \in {"push", "back"} ~> pc[c] = "pushed"
    /\ pc[c] \in {"full", "wait", "woken"} ~> pc[c] = "run"
    /\ c = Shell =>
         sys.stat[c] # "INIT" /\ rx_fifo.get # rx_fifo.put ~> rx_fifo.get = rx_fifo.put
=============================================================================
