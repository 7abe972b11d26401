------------------------------- MODULE Shdsl -------------------------------
(***************************************************************************)
(* The SHDSL application of rt_shdsl.c: the polling thread shp, the state  *)
(* machine thread shs, and the threads of the shell and of the web server, *)
(* which share the DSL chip, the lock g_sh_lock and the mailbox g_mb.      *)
(*                                                                         *)
(* A thread's calls are a sequence of steps that it still has to do: the   *)
(* commands it will send to the chip, each sent and answered under the     *)
(* lock, and the assignments between and after them. The commands that no  *)
(* property tells apart from the others of an initialisation are left out. *)
(***************************************************************************)
EXTENDS Integers, Sequences

CONSTANTS Users,     \* threads that call in: the shell's and the web server's
          Rates,     \* values of maxrate
          MbSize,    \* mails that g_mb holds (32)
          Retries,   \* messages read while an answer is waited for (99)
          MaxOut,    \* bound: from so many messages on that it holds the chip
                     \* reports no link change, and beyond it gets no command
          Faults,    \* what goes wrong: "write" fails, no "memory" for a mail,
                     \* the "answer" to a command does not come or is "late"
          Shell      \* commands of the shell: "STATUSGET", "PARAMGET", "reinit"

VARIABLES chip,      \* link, unit, rate, active; out: messages not read yet
          g,         \* g_init_finished, g_configed, g_rcmode, g_maxbaserate,
                     \* g_lineStatus (line, rate) and the link bit of phy 6
          g_config,  \* what the web page sets
          g_mb,      \* mails, oldest first
          g_sh_lock, \* the thread that holds the lock
          th,        \* per thread: the steps left, reads left in the poll, and
                     \* whether all commands of the initialisation succeeded
          event      \* what became of the chip's last link event: "mailed",
                     \* "lost" or, during an initialisation, "ignored"

vars == <<chip, g, g_config, g_mb, g_sh_lock, th, event>>

Threads == {"shp", "shs"} \cup Users
None == "none"
READY == 0
NOT_READY == 1
CO == 0
CPE == 1

(***************************************************************************)
(* Steps, commands to the chip, its messages and mails are all an id with  *)
(* a value.                                                                *)
(***************************************************************************)
Item(i, v) == [id |-> i, val |-> v]
Commands == {"INVENTORY", "RESET", "PROFILE", "CONTROL", "STATUSGET", "PARAMGET"}
Reported == {"EOC", "DOWN", "STATUSGET", "PARAMGET"}

CO_init == <<Item("RESET", 0), Item("PROFILE", 0), Item("CONTROL", CO), Item("finish", CO)>>
CPE_init == <<Item("RESET", 0), Item("PROFILE", 0), Item("CONTROL", CPE),
              Item("STATUSGET", 0), Item("finish", CPE)>>

At(t, id) == th[t].todo # <<>> /\ Head(th[t].todo).id = id
Idle(t) == th[t].todo = <<>>

(***************************************************************************)
(* The users' threads are less urgent than shs: they run while it sleeps,  *)
(* waits for a mail, or waits for the lock that one of them holds.         *)
(***************************************************************************)
MayRun(t) == t \in Users => Idle("shs") \/ At("shs", "rate") \/ g_sh_lock = t

Do(t, steps) == th' = [th EXCEPT ![t].todo = steps]
Done(t) == Do(t, Tail(th[t].todo))

(***************************************************************************)
(* A command's structure is filled in before the lock is asked for.        *)
(***************************************************************************)
Prepared(steps) == IF steps # <<>> /\ Head(steps).id = "PROFILE"
                     THEN <<Item("PROFILE", g.maxrate)>> \o Tail(steps) ELSE steps

(***************************************************************************)
(* rt_CO_init and rt_CPE_init up to their first command.                   *)
(***************************************************************************)
StartInit(t, globals) ==
  /\ g' = [globals EXCEPT !.configed = IF globals.rcmode = CO THEN 0 ELSE 1,
                           !.finished = FALSE]
  /\ th' = [th EXCEPT ![t].todo = IF globals.rcmode = CO THEN CO_init ELSE CPE_init,
                      ![t].ok = TRUE]

(***************************************************************************)
(* A command or poll returns. Only rt_CPE_init clears g_configed here.     *)
(***************************************************************************)
InInit(t, mode) == \E i \in DOMAIN th[t].todo : th[t].todo[i] = Item("finish", mode)

\* Fault: a command that failed is taken for one that succeeded.
ReturnsAnyway(t, result) ==
  /\ th' = [th EXCEPT ![t] = [todo |-> Prepared(Tail(th[t].todo)), left |-> 0, ok |-> @.ok]]
  /\ UNCHANGED g

Returns(t, result) ==
  /\ th' = [th EXCEPT ![t] = [todo |-> Prepared(Tail(th[t].todo)), left |-> 0,
                              ok |-> InInit(t, CO) => @.ok /\ result]]
  /\ g' = IF InInit(t, CPE) /\ ~result THEN [g EXCEPT !.configed = 0] ELSE g

-----------------------------------------------------------------------------
(***************************************************************************)
(* The chip executes a command and answers it or not. A reset takes the    *)
(* link down and ends its activation. The rate is known while it is up.    *)
(***************************************************************************)
Executed(c, answered) ==
  LET lost == IF c.id = "RESET" /\ chip.link = READY THEN <<Item("EOC", NOT_READY)>> ELSE <<>>
      value == IF c.id = "STATUSGET" /\ chip.link = READY THEN chip.rate ELSE 0
      answer == IF answered THEN <<Item(c.id, value)>> ELSE <<>>
      after == [chip EXCEPT !.out = @ \o lost \o answer]
  IN CASE c.id = "RESET" -> [after EXCEPT !.link = NOT_READY, !.active = FALSE]
       [] c.id = "PROFILE" -> [after EXCEPT !.rate = c.val]
       [] c.id = "CONTROL" -> [after EXCEPT !.unit = c.val, !.active = TRUE]
       [] OTHER -> after

(***************************************************************************)
(* rt_shdsl_send_idc_msg: the lock and the write, which may fail.          *)
(***************************************************************************)
AtCommand(t) == ~Idle(t) /\ Head(th[t].todo).id \in Commands

Write(t) ==
  /\ AtCommand(t) /\ MayRun(t)
  /\ g_sh_lock = None
  /\ g_sh_lock' = t
  /\ Len(chip.out) <= MaxOut
  /\ \E answered \in {TRUE, "answer" \notin Faults} : chip' = Executed(Head(th[t].todo), answered)
  /\ th' = [th EXCEPT ![t].left = Retries]
  /\ UNCHANGED <<g, g_config, g_mb, event>>

WriteFails(t) ==
  /\ "write" \in Faults
  /\ AtCommand(t) /\ MayRun(t)
  /\ g_sh_lock = None
  /\ Returns(t, FALSE)
  /\ UNCHANGED <<chip, g_config, g_mb, g_sh_lock, event>>

(***************************************************************************)
(* rt_pef24628_poll while an answer is waited for. Nothing to read, as yet *)
(* or at all, ends it at once. A message that shs has to see is put into a *)
(* block of memory and mailed, unless an initialisation is going on, there *)
(* is no memory or the mailbox is full.                                    *)
(***************************************************************************)

NothingPolled(t) ==
  /\ g_sh_lock = t
  /\ chip.out = <<>> \/ "late" \in Faults
  /\ g_sh_lock' = None
  /\ Returns(t, FALSE)
  /\ UNCHANGED <<chip, g_config, g_mb, event>>

Mailable(m) == m.id \in Reported /\ g.finished /\ Len(g_mb) < MbSize
Mailed(m) ==
  /\ Mailable(m)
  /\ g_mb' = Append(g_mb, m)
  /\ event' = IF m.id = "EOC" THEN "mailed" ELSE event
NotMailed(m) ==
  /\ Mailable(m) => "memory" \in Faults
  /\ UNCHANGED g_mb
  /\ event' = IF m.id # "EOC" THEN event ELSE IF g.finished THEN "lost" ELSE "ignored"

\* Fault: the answer is waited for through any number of messages.
ReceivedPatiently(t, m) ==
  IF At(t, m.id) THEN g_sh_lock' = None /\ Returns(t, TRUE)
                 ELSE UNCHANGED <<th, g, g_sh_lock>>

Received(t, m) ==
  IF At(t, m.id) \/ th[t].left = 1
    THEN g_sh_lock' = None /\ Returns(t, At(t, m.id))
    ELSE th' = [th EXCEPT ![t].left = @ - 1] /\ UNCHANGED <<g, g_sh_lock>>

Read ==
  /\ chip.out # <<>>
  /\ chip' = [chip EXCEPT !.out = Tail(@)]
  /\ Mailed(Head(chip.out)) \/ NotMailed(Head(chip.out))

Receive(t) ==
  /\ g_sh_lock = t
  /\ Read
  /\ Received(t, Head(chip.out))
  /\ UNCHANGED g_config

(***************************************************************************)
(* The end of rt_CO_init and rt_CPE_init.                                  *)
(***************************************************************************)
FinishInit(t) ==
  /\ At(t, "finish") /\ MayRun(t)
  /\ g' = [g EXCEPT !.line = NOT_READY, !.rate = 0, !.finished = TRUE,
                    !.configed = IF Head(th[t].todo).val = CPE THEN @
                                 ELSE IF th[t].ok THEN 1 ELSE 0]
  /\ th' = [th EXCEPT ![t].todo = Tail(@), ![t].ok = TRUE]
  /\ UNCHANGED <<chip, g_config, g_mb, g_sh_lock, event>>

-----------------------------------------------------------------------------
(***************************************************************************)
(* The polling thread after its inventory request: rt_shdsl_poll for any   *)
(* message reads one at most. It is the most urgent of the threads, so     *)
(* none of them comes between its taking and releasing the lock.           *)
(***************************************************************************)
rt_shp_thread_entry ==
  /\ Idle("shp")
  /\ g_sh_lock = None
  /\ Read
  /\ UNCHANGED <<g, g_config, g_sh_lock, th>>

(***************************************************************************)
(* The state machine thread: the button chooses the mode, initconfig       *)
(* writes g_config accordingly, and the chip is initialised. Its priority  *)
(* is below that of shp, which has sent its request by then.               *)
(***************************************************************************)
rt_shs_thread_entry ==
  /\ At("shs", "boot") /\ Idle("shp")
  /\ \E mode \in {CO, CPE} :
       /\ StartInit("shs", [g EXCEPT !.rcmode = mode])
       /\ g_config' = [rate |-> g.maxrate, mode |-> mode]
  /\ UNCHANGED <<chip, g_mb, g_sh_lock, event>>

Fetch(id) ==
  /\ Idle("shs") /\ g_mb # <<>> /\ Head(g_mb).id = id
  /\ g_mb' = Tail(g_mb)
  /\ UNCHANGED <<chip, g_config, g_sh_lock, event>>

(***************************************************************************)
(* rt_msgdispatch, one action per kind of mail.                            *)
(***************************************************************************)
DispatchConfig == Fetch("CONFIG") /\ Do("shs", <<Item("rate", 0)>>) /\ UNCHANGED g

DispatchDown ==
  /\ Fetch("DOWN")
  /\ IF g.rcmode = CO THEN StartInit("shs", g) ELSE UNCHANGED <<g, th>>

DispatchStatus ==
  /\ Fetch("STATUSGET")
  /\ g' = IF Head(g_mb).val # 0 THEN [g EXCEPT !.rate = Head(g_mb).val] ELSE g
  /\ UNCHANGED th

DispatchParam == Fetch("PARAMGET") /\ UNCHANGED <<g, th>>

\* Fault: the port's link bit is left alone.
DispatchLinkStateOnly ==
  /\ Fetch("EOC")
  /\ g' = [g EXCEPT !.line = Head(g_mb).val, !.rate = 0]
  /\ UNCHANGED th

DispatchLinkState ==
  /\ Fetch("EOC")
  /\ IF Head(g_mb).val = READY
       THEN /\ g' = [g EXCEPT !.line = READY]
            /\ Do("shs", <<Item("STATUSGET", 0), Item("phy", 0)>>)
       ELSE /\ g' = [g EXCEPT !.line = NOT_READY, !.rate = 0, !.phy = FALSE]
            /\ UNCHANGED th

ForceLink ==
  /\ At("shs", "phy")
  /\ g' = [g EXCEPT !.phy = TRUE]
  /\ Done("shs")
  /\ UNCHANGED <<chip, g_config, g_mb, g_sh_lock, event>>

(***************************************************************************)
(* rt_shdsl_apply_config reads g_config field by field. The value of step  *)
(* "mode" is its flag.                                                     *)
(***************************************************************************)
ApplyRate ==
  /\ At("shs", "rate")
  /\ g' = [g EXCEPT !.maxrate = g_config.rate]
  /\ Do("shs", <<Item("mode", IF g.maxrate # g_config.rate THEN 1 ELSE 0)>>)
  /\ UNCHANGED <<chip, g_config, g_mb, g_sh_lock, event>>

ApplyMode ==
  /\ At("shs", "mode")
  /\ IF Head(th["shs"].todo).val = 1 \/ g.rcmode # g_config.mode
       THEN StartInit("shs", [g EXCEPT !.rcmode = g_config.mode])
       ELSE Done("shs") /\ UNCHANGED g
  /\ UNCHANGED <<chip, g_config, g_mb, g_sh_lock, event>>

-----------------------------------------------------------------------------
(***************************************************************************)
(* rt_shdsl_cmd of the shell, and rt_checkSNR of the web server's status   *)
(* page.                                                                   *)
(***************************************************************************)
rt_shdsl_cmd(u) ==
  /\ Idle(u) /\ MayRun(u)
  /\ \E c \in Shell : IF c = "reinit" THEN StartInit(u, g)
                      ELSE Do(u, <<Item(c, 0)>>) /\ UNCHANGED g
  /\ UNCHANGED <<chip, g_config, g_mb, g_sh_lock, event>>

rt_checkSNR(u) ==
  /\ Idle(u) /\ MayRun(u) /\ g.line = READY
  /\ Do(u, <<Item("PARAMGET", 0)>>)
  /\ UNCHANGED <<chip, g, g_config, g_mb, g_sh_lock, event>>

(***************************************************************************)
(* web_dslconfig_func writes dslService, later maxrate, then rt_sendmb.    *)
(***************************************************************************)
web_dslconfig_func(u) ==
  /\ Idle(u) /\ MayRun(u)
  /\ \E mode \in {CO, CPE}, rate \in Rates :
       /\ g_config' = [g_config EXCEPT !.mode = mode]
       /\ Do(u, <<Item("maxrate", rate), Item("mail", 0)>>)
  /\ UNCHANGED <<chip, g, g_mb, g_sh_lock, event>>

SetMaxrate(u) ==
  /\ At(u, "maxrate") /\ MayRun(u)
  /\ g_config' = [g_config EXCEPT !.rate = Head(th[u].todo).val]
  /\ Done(u)
  /\ UNCHANGED <<chip, g, g_mb, g_sh_lock, event>>

rt_sendmb(u) ==
  /\ At(u, "mail") /\ MayRun(u)
  /\ g_mb' = IF Len(g_mb) < MbSize THEN Append(g_mb, Item("CONFIG", 0)) ELSE g_mb
  /\ Done(u)
  /\ UNCHANGED <<chip, g, g_config, g_sh_lock, event>>

-----------------------------------------------------------------------------
(***************************************************************************)
(* The chip reports that the line comes up or goes down.                   *)
(***************************************************************************)
LinkUp ==
  /\ chip.active /\ chip.link = NOT_READY /\ Len(chip.out) < MaxOut
  /\ chip' = [chip EXCEPT !.link = READY, !.out = Append(@, Item("EOC", READY))]
  /\ UNCHANGED <<g, g_config, g_mb, g_sh_lock, th, event>>

LinkDown ==
  /\ chip.link = READY /\ Len(chip.out) < MaxOut
  /\ LET eoc == Item("EOC", NOT_READY)
         pmd == Item("DOWN", 0)
     IN \E events \in {<<eoc, pmd>>, <<pmd, eoc>>} :
          chip' = [chip EXCEPT !.link = NOT_READY, !.out = @ \o events]
  /\ UNCHANGED <<g, g_config, g_mb, g_sh_lock, th, event>>

-----------------------------------------------------------------------------
Init ==
  /\ \E r \in Rates :
       /\ g = [finished |-> FALSE, configed |-> 0, rcmode |-> CPE, maxrate |-> r,
               line |-> 0, rate |-> 0, phy |-> FALSE]
       /\ g_config = [rate |-> r, mode |-> CPE]
  /\ chip = [link |-> NOT_READY, unit |-> CPE, rate |-> 0, active |-> FALSE, out |-> <<>>]
  /\ g_mb = <<>>
  /\ g_sh_lock = None
  /\ th = [t \in Threads |->
             [todo |-> CASE t = "shp" -> <<Item("INVENTORY", 0)>>
                         [] t = "shs" -> <<Item("boot", 0)>>
                         [] OTHER -> <<>>,
              left |-> 0, ok |-> TRUE]]
  /\ event = "mailed"

Dispatch == DispatchConfig \/ DispatchDown \/ DispatchStatus \/ DispatchParam \/ DispatchLinkState
Poll(t) == NothingPolled(t) \/ Receive(t)
Ask(t) == Write(t) \/ WriteFails(t)
User(u) == rt_shdsl_cmd(u) \/ rt_checkSNR(u) \/ web_dslconfig_func(u)
InWeb(u) == SetMaxrate(u) \/ rt_sendmb(u)
Shs == rt_shs_thread_entry \/ Dispatch \/ ForceLink \/ ApplyRate \/ ApplyMode
Chip == LinkUp \/ LinkDown

Next == \/ \E t \in Threads : Ask(t) \/ Poll(t) \/ FinishInit(t)
        \/ \E u \in Users : User(u) \/ InWeb(u)
        \/ rt_shp_thread_entry \/ Shs \/ Chip

(***************************************************************************)
(* shs goes on whenever it is not blocked, which the others are not while  *)
(* they hold the lock, and it is handed the lock when they release it. shp *)
(* polls again and again.                                                  *)
(***************************************************************************)
Fairness == /\ WF_vars(\E t \in Threads : Poll(t))
            /\ SF_vars(Ask("shs")) /\ WF_vars(Shs \/ FinishInit("shs"))
            /\ WF_vars(rt_shp_thread_entry)
Spec == Init /\ [][Next]_vars /\ Fairness

-----------------------------------------------------------------------------
(***************************************************************************)
(* Every variable is in its range, and who waits for an answer has the     *)
(* lock.                                                                   *)
(***************************************************************************)
Link == {READY, NOT_READY}
Unit == {CO, CPE}
Message == [id : Commands \cup {"EOC", "DOWN"}, val : Rates \cup {0, 1}]
TypeOK ==
  /\ chip \in [link : Link, unit : Unit, rate : Rates \cup {0}, active : BOOLEAN,
               out : Seq(Message)]
  /\ g \in [finished : BOOLEAN, configed : {0, 1}, rcmode : Unit, maxrate : Rates,
            line : Link, rate : Rates \cup {0}, phy : BOOLEAN]
  /\ g_config \in [rate : Rates, mode : Unit]
  /\ g_mb \in Seq([id : Reported \cup {"CONFIG"}, val : Rates \cup {0, 1}])
  /\ Len(g_mb) <= MbSize
  /\ g_sh_lock \in Threads \cup {None}
  /\ event \in {"mailed", "lost", "ignored"}
  /\ \A t \in Threads : (g_sh_lock = t) <=> (th[t].left \in 1..Retries)

(***************************************************************************)
(* Nothing is under way.                                                   *)
(***************************************************************************)
Quiet == /\ \A t \in Threads : Idle(t)
         /\ chip.out = <<>> /\ g_mb = <<>>

(***************************************************************************)
(* When everything has been handled, g_lineStatus and the link bit of the  *)
(* Ethernet port agree with the line, through resets of the chip and mails *)
(* older than the last initialisation, unless a command of that failed or  *)
(* the last change of the link came where it is dropped.                   *)
(***************************************************************************)
StatusCurrent ==
  TypeOK /\ (Quiet /\ g.finished /\ g.configed = 1 /\ event = "mailed" =>
    /\ g.line = chip.link
    /\ g.phy <=> g.line = READY
    /\ g.line = NOT_READY => g.rate = 0)

(***************************************************************************)
(* After an initialisation that succeeded the chip has the parameters the  *)
(* program holds, although a thread of the web server reads parameters     *)
(* meanwhile and answers can be taken for those of a later command.  A     *)
(* reinitialisation from the shell (Shell) is not admitted by the runs.    *)
(***************************************************************************)
ChipConfigured ==
  Quiet /\ g.finished /\ g.configed = 1 =>
    chip.active /\ chip.unit = g.rcmode /\ chip.rate = g.maxrate

(***************************************************************************)
(* When the web server has mailed a change, the program comes to hold just *)
(* the parameters that the page shows, even if they are changed again and  *)
(* again: the state machine thread gets to that mail whatever the chip     *)
(* reports or leaves unanswered.                                           *)
(***************************************************************************)
HasMail == \E i \in DOMAIN g_mb : g_mb[i].id = "CONFIG"
ConfigApplied ==
  HasMail ~> g.maxrate = g_config.rate /\ g.rcmode = g_config.mode
=============================================================================
