--------------------------- MODULE CpmacDevProofs ---------------------------
(***************************************************************************)
(* What opening and closing the device guarantees, for every bound on the  *)
(* transmit queue, with and without restarts of the receive channel, with  *)
(* transmit interrupts on or masked, and for a device that is opened by    *)
(* ifconfig or when it is probed.                                          *)
(*                                                                         *)
(* The argument has two layers.  Flags says where the process can be when  *)
(* the flags of the close, the registered handler and the tasklet have     *)
(* their values; it holds whatever happens, and gives NoStaleTasklet,      *)
(* NoNestedIsr and LineNotDead.  Phases follows an undisturbed life with   *)
(* transmit interrupts on, channel by channel; since the line is not dead  *)
(* no teardown in it can time out, and CleanDown is its last phase.  An    *)
(* open that was refused its interrupt stays in the phase of an open       *)
(* device, without a handler, until an open gets one or the module goes.   *)
(***************************************************************************)
EXTENDS CpmacDev, Integers, TLAPS

Pcs == {"idle", "request_irq", "set2", "tasklet_kill", "tear_tx", "wait_tx",
        "tear_rx", "wait_rx", "halClose", "shutdown", "free", "gone"}

BoolTypes ==
  /\ ChIsOpen \in [Chan -> BOOLEAN] /\ Pending \in [Chan -> BOOLEAN]
  /\ run \in [Chan -> BOOLEAN] /\ td \in [Chan -> BOOLEAN]
  /\ mask \in [Chan -> BOOLEAN]
  /\ armed \in BOOLEAN /\ irq \in BOOLEAN /\ timer \in BOOLEAN
  /\ set_to_close \in BOOLEAN /\ non_data_irq_expected \in BOOLEAN
  /\ sched \in BOOLEAN /\ more \in BOOLEAN /\ up \in BOOLEAN
  /\ TxIntDisable \in BOOLEAN /\ InitEnable \in BOOLEAN
  /\ nested \in BOOLEAN /\ refused \in BOOLEAN /\ disturbed \in BOOLEAN

ValueTypes ==
  /\ State \in {"init", "opened", "freed"}
  /\ opened_chan \in Int /\ queued \in 0 .. MaxTx
  /\ int \in [Chan -> {"none", "data", "td"}]
  /\ tasklet \in {"no", "halIsr", "tested"}
  /\ pc \in Pcs
  /\ job \in {"close", "exit", "shutdown"}

Types == BoolTypes /\ ValueTypes

\* The tasklet is neither queued nor running.
TaskletDead == ~sched /\ tasklet = "no"

\* Where a process is that has killed the tasklet, or never had one.
Killed ==
  \/ pc \in Pcs \ {"idle", "request_irq", "set2", "tasklet_kill"}
  \/ ~InitEnable /\ (pc = "request_irq" \/ (pc = "idle" /\ ~up))

Flags ==
  /\ up => pc = "idle"
  /\ up \/ pc \in {"set2", "tasklet_kill", "request_irq"} => State = "opened"
  /\ InitEnable /\ State # "opened" => pc \in {"shutdown", "free", "gone"}
  /\ InitEnable /\ set_to_close => pc \notin {"idle", "request_irq"}
  /\ InitEnable /\ job = "close" => pc \in {"idle", "request_irq"}
  /\ irq /\ ~non_data_irq_expected => up \/ pc = "set2"
  /\ State = "opened" /\ set_to_close /\ ~non_data_irq_expected => pc = "set2"
  /\ pc = "set2" /\ tasklet # "no" => disturbed
  /\ Killed => TaskletDead

\* With transmit interrupts on only the tasklet writes the EOI that lets the
\* next interrupt in, and no second tasklet is queued meanwhile.
OneAtATime ==
  ~TxIntDisable => /\ ~TaskletDead => ~armed
                   /\ tasklet # "no" => ~sched
                   /\ ~nested

LineAlive == State = "opened" => armed \/ ~TaskletDead \/ disturbed

(* The phases of a channel.                                                *)

ChOpen(c) ==
  ChIsOpen[c] /\ run[c] /\ mask[c] /\ ~Pending[c] /\ ~td[c] /\ int[c] # "td"

ChClosing(c) ==
  ChIsOpen[c] /\ mask[c] /\ Pending[c] /\ (IF td[c] THEN int[c] # "td" ELSE int[c] = "td" /\ ~run[c])

ChClosed(c) ==
  ~ChIsOpen[c] /\ ~run[c] /\ ~Pending[c] /\ ~td[c] /\ int[c] = "none"

Down ==
  /\ State \in {"init", "freed"} /\ ~irq /\ ~timer /\ ~non_data_irq_expected
  /\ queued = 0 /\ opened_chan = 0
  /\ ChClosed("tx") /\ ChClosed("rx")

Open == State = "opened" /\ opened_chan = 1 /\ ChOpen("tx") /\ ChOpen("rx")

Tearing == State = "opened" /\ irq /\ job = "close" /\ armed

TxDown == opened_chan = 0 /\ queued = 0 /\ ChClosed("tx")

Undisturbed == ~InitEnable /\ ~TxIntDisable /\ ~disturbed

Closing == {"tear_tx", "wait_tx", "tear_rx", "wait_rx", "halClose"}

\* The open without an interrupt: only cpmac_exit() closes what it has opened.
Stranded ==
  /\ ~up /\ pc \notin {"set2", "tasklet_kill"}
  /\ pc \in {"idle", "request_irq"} => Open /\ ~irq /\ ~non_data_irq_expected
  /\ pc \in Closing => job = "shutdown"

Phases ==
  Undisturbed =>
  IF refused THEN Stranded ELSE
    /\ (pc = "idle" /\ ~up) \/ pc \in {"shutdown", "free", "gone"} => Down
    /\ pc = "request_irq" => Open /\ ~irq /\ ~non_data_irq_expected
    /\ pc = "idle" /\ up => Open /\ irq /\ ~non_data_irq_expected
    /\ pc = "set2" => Open /\ irq /\ ~non_data_irq_expected /\ job = "close"
    /\ pc = "tasklet_kill" => Open /\ irq /\ job = "close"
    /\ pc = "tear_tx" => Tearing /\ Open
    /\ pc = "wait_tx" => /\ Tearing /\ opened_chan = 1 /\ ChOpen("rx")
                         /\ ChClosing("tx") \/ (queued = 0 /\ ChClosed("tx"))
    /\ pc = "tear_rx" => Tearing /\ TxDown /\ ChOpen("rx")
    /\ pc = "wait_rx" => Tearing /\ TxDown /\ (ChClosing("rx") \/ ChClosed("rx"))
    /\ pc = "halClose" => Tearing /\ TxDown /\ ChClosed("rx")

\* What cpmac_drv_tx_setup() and cpmac_drv_tx_teardown() count.  A close that fails
\* leaves the handler registered, the next request_irq() fails on it, and the
\* device never comes up again: so one open on top of it is counted, not more.  A
\* refused open leaves the transmit channel open, and none is counted on top of it.
Counted ==
  /\ opened_chan \in 0 .. 2
  /\ pc \in Closing => State = "opened"
  /\ pc = "wait_tx" /\ job # "shutdown" => opened_chan >= 1
  /\ InitEnable => opened_chan <= 1
  /\ Pending["tx"] => ChIsOpen["tx"]
  /\ ~InitEnable =>
       /\ job # "exit"
       /\ pc \in {"set2", "tasklet_kill"} \/ (pc \in Closing /\ job = "close") \/ up => irq
       /\ State = "opened" /\ pc \in {"idle", "request_irq"} /\ ~irq
          => opened_chan = 1 /\ ChIsOpen["tx"]
       /\ State = "init" /\ pc = "idle" => opened_chan = 0
       /\ \/ up \/ pc \in {"set2", "tasklet_kill"}
          \/ pc \in {"tear_tx", "wait_tx"} /\ job = "close"
          => opened_chan = 1
       /\ pc \in {"tear_rx", "wait_rx", "halClose"} /\ job = "close" => opened_chan = 0
       /\ State = "opened" /\ pc \in {"idle", "request_irq"} /\ (ChIsOpen["tx"] => Pending["tx"])
          => opened_chan <= 1

IInv == Types /\ Flags /\ OneAtATime /\ LineAlive /\ Phases /\ Counted

-----------------------------------------------------------------------------
(* The parts of the state that an action leaves alone, and the invariant.  *)

USE DEF hal, dma, line, os, soft, proc, conf, hist, Chan

\* The probed device satisfies the invariant.
LEMMA InitIInv == Init => IInv
<1>. SUFFICES ASSUME Init PROVE IInv
  OBVIOUS
<1>1. BoolTypes
  BY Zenon DEF Init, BoolTypes
<1>2. ValueTypes
  BY DevAssumption DEF Init, ValueTypes, Pcs
<1>3. Flags /\ OneAtATime /\ LineAlive
  BY DEF Init, Flags, OneAtATime, LineAlive, Killed, TaskletDead
<1>4. Phases
  <2>. SUFFICES ASSUME Undisturbed PROVE Down
    BY DEF Init, Phases
  <2>. QED BY DEF Init, Undisturbed, Down, ChClosed
<1>5. Counted
  BY DEF Init, Counted, Closing
<1>. QED BY <1>1, <1>2, <1>3, <1>4, <1>5 DEF IInv, Types

\* A finished or arrived packet raises the raw interrupt of a running channel.
LEMMA HwDataStep ==
  ASSUME IInv, NEW c \in Chan, HwData(c)
  PROVE  IInv'
<1>1. BoolTypes'
  BY ZenonT(60) DEF IInv, Types, BoolTypes, HwData
<1>2. ValueTypes'
  BY DEF IInv, Types, ValueTypes, HwData
<1>3. Flags'
  BY DEF IInv, Flags, Killed, TaskletDead, HwData
<1>4. OneAtATime' /\ LineAlive'
  BY DEF IInv, OneAtATime, LineAlive, Killed, TaskletDead, HwData
<1>5. Phases'
  BY DEF IInv, Phases, Stranded, Closing, Undisturbed, Open, Down, Tearing, TxDown,
     ChOpen, ChClosing, ChClosed, HwData
<1>6. Counted'
  BY DEF IInv, Counted, Closing, HwData
<1>. QED BY <1>1, <1>2, <1>3, <1>4, <1>5, <1>6 DEF IInv, Types

\* The engine answers a teardown: the channel that was closing has stopped.
LEMMA HwTeardownStep ==
  ASSUME IInv, NEW c \in Chan, HwTeardown(c)
  PROVE  IInv'
<1>1. BoolTypes'
  BY ZenonT(60) DEF IInv, Types, BoolTypes, HwTeardown
<1>2. ValueTypes'
  BY DEF IInv, Types, ValueTypes, HwTeardown
<1>3. Flags'
  BY DEF IInv, Flags, Killed, TaskletDead, HwTeardown
<1>4. OneAtATime' /\ LineAlive'
  BY DEF IInv, OneAtATime, LineAlive, Killed, TaskletDead, HwTeardown
<1>5. Phases'
  BY DEF IInv, Types, BoolTypes, ValueTypes, Phases, Stranded, Closing, Undisturbed,
     Open, Down, Tearing, TxDown, ChOpen, ChClosing, ChClosed, HwTeardown
<1>6. Counted'
  BY DEF IInv, Counted, Closing, HwTeardown
<1>. QED BY <1>1, <1>2, <1>3, <1>4, <1>5, <1>6 DEF IInv, Types

\* A lost teardown is recorded as a disturbed close.
LEMMA HwRestartStep ==
  ASSUME IInv, HwRestart
  PROVE  IInv'
<1>1. BoolTypes'
  BY ZenonT(60) DEF IInv, Types, BoolTypes, HwRestart
<1>2. ValueTypes'
  BY DEF IInv, Types, ValueTypes, HwRestart
<1>3. Flags'
  BY DEF IInv, Flags, Killed, TaskletDead, HwRestart
<1>4. OneAtATime' /\ LineAlive'
  BY DEF IInv, OneAtATime, LineAlive, Killed, TaskletDead, HwRestart
<1>5. Phases'
  BY DEF IInv, Phases, Stranded, Closing, Undisturbed, Open, Down, Tearing, TxDown,
     ChOpen, ChClosing, ChClosed, HwRestart
<1>6. Counted'
  BY DEF IInv, Counted, Closing, HwRestart
<1>. QED BY <1>1, <1>2, <1>3, <1>4, <1>5, <1>6 DEF IInv, Types

\* The tasklet begins; between the two set_bit() of a close it disturbs it.
LEMMA TaskletBeginStep ==
  ASSUME IInv, TaskletBegin
  PROVE  IInv'
<1>1. BoolTypes'
  BY ZenonT(60) DEF IInv, Types, BoolTypes, TaskletBegin
<1>2. ValueTypes'
  BY DEF IInv, Types, ValueTypes, TaskletBegin
<1>3. Flags'
  BY DEF IInv, Flags, Killed, TaskletDead, TaskletBegin
<1>4. OneAtATime' /\ LineAlive'
  BY DEF IInv, OneAtATime, LineAlive, Killed, TaskletDead, TaskletBegin
<1>5. Phases'
  BY DEF IInv, Phases, Stranded, Closing, Undisturbed, Open, Down, Tearing, TxDown,
     ChOpen, ChClosing, ChClosed, TaskletBegin
<1>6. Counted'
  BY DEF IInv, Counted, Closing, TaskletBegin
<1>. QED BY <1>1, <1>2, <1>3, <1>4, <1>5, <1>6 DEF IInv, Types

\* The tasklet ends with an EOI, is queued again, or (closing) neither.
LEMMA TaskletEndStep ==
  ASSUME IInv, TaskletEnd
  PROVE  IInv'
<1>1. BoolTypes'
  BY ZenonT(60) DEF IInv, Types, BoolTypes, TaskletEnd, TaskletAgain
<1>2. ValueTypes'
  BY DEF IInv, Types, ValueTypes, TaskletEnd, TaskletAgain
<1>3. Flags'
  BY DEF IInv, Flags, Killed, TaskletDead, TaskletEnd, TaskletAgain
<1>4. OneAtATime' /\ LineAlive'
  BY DEF IInv, Flags, OneAtATime, LineAlive, Killed, TaskletDead, TaskletEnd,
     TaskletAgain
<1>5. Phases'
  BY DEF IInv, Phases, Stranded, Closing, Undisturbed, Open, Down, Tearing, TxDown,
     ChOpen, ChClosing, ChClosed, TaskletEnd, TaskletAgain
<1>6. Counted'
  BY DEF IInv, Counted, Closing, TaskletEnd, TaskletAgain
<1>. QED BY <1>1, <1>2, <1>3, <1>4, <1>5, <1>6 DEF IInv, Types

\* The timer of a closing device expires.
LEMMA TimerExpiresStep ==
  ASSUME IInv, TimerExpires
  PROVE  IInv'
<1>1. BoolTypes'
  BY ZenonT(60) DEF IInv, Types, BoolTypes, TimerExpires
<1>2. ValueTypes'
  BY DEF IInv, Types, ValueTypes, TimerExpires
<1>3. Flags'
  BY DEF IInv, Flags, Killed, TaskletDead, TimerExpires
<1>4. OneAtATime' /\ LineAlive'
  BY DEF IInv, OneAtATime, LineAlive, Killed, TaskletDead, TimerExpires
<1>5. Phases'
  BY DEF IInv, Phases, Stranded, Closing, Undisturbed, Open, Down, Tearing, TxDown,
     ChOpen, ChClosing, ChClosed, TimerExpires
<1>6. Counted'
  BY DEF IInv, Counted, Closing, TimerExpires
<1>. QED BY <1>1, <1>2, <1>3, <1>4, <1>5, <1>6 DEF IInv, Types

\* A packet is queued; with transmit interrupts on neither mask nor EOI is touched.
LEMMA halSendStep ==
  ASSUME IInv, halSend
  PROVE  IInv'
<1>1. BoolTypes'
  BY ZenonT(60) DEF IInv, Types, BoolTypes, halSend, AtProcess
<1>2. ValueTypes'
  BY DevAssumption DEF IInv, Types, ValueTypes, halSend, AtProcess
<1>3. Flags'
  BY DEF IInv, Flags, Killed, TaskletDead, halSend, AtProcess
<1>4. OneAtATime' /\ LineAlive'
  BY DEF IInv, OneAtATime, LineAlive, Killed, TaskletDead, halSend, AtProcess
<1>5. Phases'
  BY DEF IInv, Phases, Stranded, Closing, Undisturbed, Open, Down, Tearing, TxDown,
     ChOpen, ChClosing, ChClosed, halSend, AtProcess
<1>6. Counted'
  BY DEF IInv, Counted, Closing, halSend, AtProcess
<1>. QED BY <1>1, <1>2, <1>3, <1>4, <1>5, <1>6 DEF IInv, Types

\* An open on a device that a failed close has left open.
LEMMA DevEnableFailsStep ==
  ASSUME IInv, DevEnableFails
  PROVE  IInv'
<1>1. BoolTypes'
  BY ZenonT(60) DEF IInv, Types, BoolTypes, DevEnableFails, AtProcess, Apply
<1>2. ValueTypes'
  BY DEF IInv, Types, ValueTypes, DevEnableFails, AtProcess, Apply, Pcs
<1>3. Flags'
  BY DEF IInv, Flags, Killed, TaskletDead, DevEnableFails, AtProcess, Apply
<1>4. OneAtATime' /\ LineAlive'
  BY DEF IInv, OneAtATime, LineAlive, Killed, TaskletDead, DevEnableFails,
     AtProcess, Apply
<1>5. Phases'
  BY DEF IInv, Phases, Stranded, Closing, Undisturbed, Open, Down, Tearing, TxDown,
     ChOpen, ChClosing, ChClosed, DevEnableFails, AtProcess, Apply
<1>6. Counted'
  BY DEF IInv, Types, BoolTypes, Flags, Counted, Closing, DevEnableFails, AtProcess,
     Apply
<1>. QED BY <1>1, <1>2, <1>3, <1>4, <1>5, <1>6 DEF IInv, Types

\* The open of a device that was opened when it was probed.
LEMMA DevOpenOnlyStep ==
  ASSUME IInv, DevOpenOnly
  PROVE  IInv'
<1>1. BoolTypes'
  BY ZenonT(60) DEF IInv, Types, BoolTypes, DevOpenOnly, AtProcess
<1>2. ValueTypes'
  BY DEF IInv, Types, ValueTypes, DevOpenOnly, AtProcess, Pcs
<1>3. Flags'
  BY DEF IInv, Flags, Killed, TaskletDead, DevOpenOnly, AtProcess
<1>4. OneAtATime' /\ LineAlive'
  BY DEF IInv, OneAtATime, LineAlive, Killed, TaskletDead, DevOpenOnly, AtProcess
<1>5. Phases'
  BY DEF IInv, Phases, Stranded, Closing, Undisturbed, Open, Down, Tearing, TxDown,
     ChOpen, ChClosing, ChClosed, DevOpenOnly, AtProcess
<1>6. Counted'
  BY DEF IInv, Counted, Closing, DevOpenOnly, AtProcess
<1>. QED BY <1>1, <1>2, <1>3, <1>4, <1>5, <1>6 DEF IInv, Types

\* cpmac_dev_open() gets no interrupt and leaves everything as it is.
LEMMA request_irq_failsStep ==
  ASSUME IInv, request_irq_fails
  PROVE  IInv'
<1>1. BoolTypes'
  BY ZenonT(60) DEF IInv, Types, BoolTypes, request_irq_fails, AtProcess
<1>2. ValueTypes'
  BY DEF IInv, Types, ValueTypes, request_irq_fails, AtProcess, Pcs
<1>3. Flags'
  BY DEF IInv, Flags, Killed, TaskletDead, request_irq_fails, AtProcess
<1>4. OneAtATime' /\ LineAlive'
  BY DEF IInv, OneAtATime, LineAlive, Killed, TaskletDead, request_irq_fails,
     AtProcess
<1>5. Phases'
  BY DEF IInv, Flags, Phases, Stranded, Closing, Undisturbed, Open, Down, Tearing,
     TxDown, ChOpen, ChClosing, ChClosed, request_irq_fails, AtProcess
<1>6. Counted'
  BY DEF IInv, Flags, Counted, Closing, request_irq_fails, AtProcess
<1>. QED BY <1>1, <1>2, <1>3, <1>4, <1>5, <1>6 DEF IInv, Types

\* The interface comes up.
LEMMA request_irqStep ==
  ASSUME IInv, request_irq
  PROVE  IInv'
<1>1. BoolTypes'
  BY ZenonT(60) DEF IInv, Types, BoolTypes, request_irq, AtProcess
<1>2. ValueTypes'
  BY DEF IInv, Types, ValueTypes, request_irq, AtProcess, Pcs
<1>3. Flags'
  BY DEF IInv, Flags, Killed, TaskletDead, request_irq, AtProcess
<1>4. OneAtATime' /\ LineAlive'
  BY DEF IInv, OneAtATime, LineAlive, Killed, TaskletDead, request_irq, AtProcess
<1>5. Phases'
  BY DEF IInv, Phases, Stranded, Closing, Undisturbed, Open, Down, Tearing, TxDown,
     ChOpen, ChClosing, ChClosed, request_irq, AtProcess
<1>6. Counted'
  BY DEF IInv, Flags, Counted, Closing, request_irq, AtProcess
<1>. QED BY <1>1, <1>2, <1>3, <1>4, <1>5, <1>6 DEF IInv, Types

\* The close of a device that stays open.
LEMMA DevCloseOnlyStep ==
  ASSUME IInv, DevCloseOnly
  PROVE  IInv'
<1>1. BoolTypes'
  BY ZenonT(60) DEF IInv, Types, BoolTypes, DevCloseOnly, AtProcess
<1>2. ValueTypes'
  BY DEF IInv, Types, ValueTypes, DevCloseOnly, AtProcess
<1>3. Flags'
  BY DEF IInv, Flags, Killed, TaskletDead, DevCloseOnly, AtProcess
<1>4. OneAtATime' /\ LineAlive'
  BY DEF IInv, OneAtATime, LineAlive, Killed, TaskletDead, DevCloseOnly, AtProcess
<1>5. Phases'
  BY DEF IInv, Phases, Stranded, Closing, Undisturbed, Open, Down, Tearing, TxDown,
     ChOpen, ChClosing, ChClosed, DevCloseOnly, AtProcess
<1>6. Counted'
  BY DEF IInv, Counted, Closing, DevCloseOnly, AtProcess
<1>. QED BY <1>1, <1>2, <1>3, <1>4, <1>5, <1>6 DEF IInv, Types

\* A close begins: the first flag is set.
LEMMA DevDisableStep ==
  ASSUME IInv, DevDisable
  PROVE  IInv'
<1>1. BoolTypes'
  BY ZenonT(60) DEF IInv, Types, BoolTypes, DevDisable, AtProcess
<1>2. ValueTypes'
  BY DEF IInv, Types, ValueTypes, DevDisable, AtProcess, Pcs
<1>3. Flags'
  BY DEF IInv, Flags, Killed, TaskletDead, DevDisable, AtProcess
<1>4. OneAtATime' /\ LineAlive'
  BY DEF IInv, OneAtATime, LineAlive, Killed, TaskletDead, DevDisable, AtProcess
<1>5. Phases'
  BY DEF IInv, Phases, Stranded, Closing, Undisturbed, Open, Down, Tearing, TxDown,
     ChOpen, ChClosing, ChClosed, DevDisable, AtProcess
<1>6. Counted'
  BY DEF IInv, Counted, Closing, DevDisable, AtProcess
<1>. QED BY <1>1, <1>2, <1>3, <1>4, <1>5, <1>6 DEF IInv, Types

\* The second flag is set.
LEMMA DevDisableSet2Step ==
  ASSUME IInv, DevDisableSet2
  PROVE  IInv'
<1>1. BoolTypes'
  BY ZenonT(60) DEF IInv, Types, BoolTypes, DevDisableSet2, AtProcess
<1>2. ValueTypes'
  BY DEF IInv, Types, ValueTypes, DevDisableSet2, AtProcess, Pcs
<1>3. Flags'
  BY DEF IInv, Flags, Killed, TaskletDead, DevDisableSet2, AtProcess
<1>4. OneAtATime' /\ LineAlive'
  BY DEF IInv, OneAtATime, LineAlive, Killed, TaskletDead, DevDisableSet2, AtProcess
<1>5. Phases'
  BY DEF IInv, Phases, Stranded, Closing, Undisturbed, Open, Down, Tearing, TxDown,
     ChOpen, ChClosing, ChClosed, DevDisableSet2, AtProcess
<1>6. Counted'
  BY DEF IInv, Counted, Closing, DevDisableSet2, AtProcess
<1>. QED BY <1>1, <1>2, <1>3, <1>4, <1>5, <1>6 DEF IInv, Types

\* tasklet_kill() returns: from here on the tasklet is dead and the line armed.
LEMMA DevDisableKillStep ==
  ASSUME IInv, DevDisableKill
  PROVE  IInv'
<1>1. BoolTypes'
  BY ZenonT(60) DEF IInv, Types, BoolTypes, DevDisableKill, AtProcess, tasklet_killed
<1>2. ValueTypes'
  BY DEF IInv, Types, ValueTypes, DevDisableKill, AtProcess, tasklet_killed, Pcs
<1>3. Flags'
  BY DEF IInv, Flags, Killed, TaskletDead, DevDisableKill, AtProcess, tasklet_killed
<1>4. OneAtATime' /\ LineAlive'
  BY DEF IInv, OneAtATime, LineAlive, Killed, TaskletDead, DevDisableKill,
     AtProcess, tasklet_killed
<1>5. Phases'
  BY DEF IInv, Killed, TaskletDead, LineAlive, Phases, Stranded, Closing,
     Undisturbed, Open, Down, Tearing, TxDown, ChOpen, ChClosing, ChClosed,
     DevDisableKill, AtProcess, tasklet_killed
<1>6. Counted'
  BY DEF IInv, Flags, Counted, Closing, DevDisableKill, AtProcess, tasklet_killed
<1>. QED BY <1>1, <1>2, <1>3, <1>4, <1>5, <1>6 DEF IInv, Types

\* Nothing to tear down; an undisturbed close never comes here.
LEMMA SkipTeardownStep ==
  ASSUME IInv, NEW c \in Chan, SkipTeardown(c)
  PROVE  IInv'
<1>1. BoolTypes'
  BY ZenonT(60) DEF IInv, Types, BoolTypes, SkipTeardown, AtProcess, Tear, After,
     Skips
<1>2. ValueTypes'
  BY DEF IInv, Types, ValueTypes, SkipTeardown, AtProcess, Tear, After, Skips, Pcs
<1>3. Flags'
  BY DEF IInv, Flags, Killed, TaskletDead, Pcs, SkipTeardown, AtProcess, Tear,
     After, Skips
<1>4. OneAtATime' /\ LineAlive'
  BY DEF IInv, OneAtATime, LineAlive, Killed, TaskletDead, SkipTeardown, AtProcess,
     Tear, After, Skips
<1>5. Phases'
  BY DEF IInv, Phases, Stranded, Closing, Undisturbed, Open, Down, Tearing, TxDown,
     ChOpen, ChClosing, ChClosed, SkipTeardown, AtProcess, Tear, After, Skips
<1>6. Counted'
  BY DEF IInv, Counted, Closing, SkipTeardown, AtProcess, Tear, After, Skips
<1>. QED BY <1>1, <1>2, <1>3, <1>4, <1>5, <1>6 DEF IInv, Types

\* A teardown is requested: the open channel is closing.
LEMMA ChannelTeardownStep ==
  ASSUME IInv, NEW c \in Chan, ChannelTeardown(c)
  PROVE  IInv'
<1>1. BoolTypes'
  BY ZenonT(60) DEF IInv, Types, BoolTypes, ChannelTeardown, AtProcess, Tear, Wait,
     Skips
<1>2. ValueTypes'
  BY DEF IInv, Types, ValueTypes, ChannelTeardown, AtProcess, Tear, Wait, Skips, Pcs
<1>3. Flags'
  BY DEF IInv, Flags, Killed, TaskletDead, Pcs, ChannelTeardown, AtProcess, Tear,
     Wait, Skips
<1>4. OneAtATime' /\ LineAlive'
  BY DEF IInv, OneAtATime, LineAlive, Killed, TaskletDead, ChannelTeardown,
     AtProcess, Tear, Wait, Skips
<1>5. Phases'
  BY DEF IInv, Types, BoolTypes, Phases, Stranded, Closing, Undisturbed, Open, Down,
     Tearing, TxDown, ChOpen, ChClosing, ChClosed, ChannelTeardown, AtProcess, Tear,
     Wait, Skips
<1>6. Counted'
  BY DEF IInv, Counted, Closing, ChannelTeardown, AtProcess, Tear, Wait, Skips
<1>. QED BY <1>1, <1>2, <1>3, <1>4, <1>5, <1>6 DEF IInv, Types

\* A refused teardown; an undisturbed close never comes here.
LEMMA ChannelTeardownFailsStep ==
  ASSUME IInv, NEW c \in Chan, ChannelTeardownFails(c)
  PROVE  IInv'
<1>1. BoolTypes'
  BY ZenonT(60) DEF IInv, Types, BoolTypes, ChannelTeardownFails, AtProcess, Tear,
     Skips, Failed
<1>2. ValueTypes'
  BY DEF IInv, Types, ValueTypes, ChannelTeardownFails, AtProcess, Tear, Skips,
     Failed, Pcs
<1>3. Flags'
  BY DEF IInv, Flags, Killed, TaskletDead, Pcs, ChannelTeardownFails, AtProcess,
     Tear, Skips, Failed
<1>4. OneAtATime' /\ LineAlive'
  BY DEF IInv, OneAtATime, LineAlive, Killed, TaskletDead, ChannelTeardownFails,
     AtProcess, Tear, Skips, Failed
<1>5. Phases'
  BY DEF IInv, Phases, Stranded, Closing, Undisturbed, Open, Down, Tearing, TxDown,
     ChOpen, ChClosing, ChClosed, ChannelTeardownFails, AtProcess, Tear, Skips,
     Failed
<1>6. Counted'
  BY DEF IInv, Counted, Closing, ChannelTeardownFails, AtProcess, Tear, Skips,
     Failed
<1>. QED BY <1>1, <1>2, <1>3, <1>4, <1>5, <1>6 DEF IInv, Types

\* The wait is over: the channel is closed.
LEMMA ChannelTeardownDoneStep ==
  ASSUME IInv, NEW c \in Chan, ChannelTeardownDone(c)
  PROVE  IInv'
<1>1. BoolTypes'
  BY ZenonT(60) DEF IInv, Types, BoolTypes, ChannelTeardownDone, AtProcess, Wait,
     After, Failed
<1>2. ValueTypes'
  BY DEF IInv, Types, ValueTypes, ChannelTeardownDone, AtProcess, Wait, After,
     Failed, Pcs
<1>3. Flags'
  BY DEF IInv, Flags, Killed, TaskletDead, Pcs, ChannelTeardownDone, AtProcess,
     Wait, After, Failed
<1>4. OneAtATime' /\ LineAlive'
  BY DEF IInv, OneAtATime, LineAlive, Killed, TaskletDead, ChannelTeardownDone,
     AtProcess, Wait, After, Failed
<1>5. Phases'
  BY DEF IInv, Phases, Stranded, Closing, Undisturbed, Open, Down, Tearing, TxDown,
     ChOpen, ChClosing, ChClosed, ChannelTeardownDone, AtProcess, Wait, After,
     Failed
<1>6. Counted'
  BY DEF IInv, Flags, Counted, Closing, ChannelTeardownDone, AtProcess, Wait, After,
     Failed
<1>. QED BY <1>1, <1>2, <1>3, <1>4, <1>5, <1>6 DEF IInv, Types

\* A teardown times out.  In an undisturbed close it cannot: the interrupt of the
\* engine's answer is let through by mask, handler and EOI.
LEMMA ChannelTeardownTimeoutStep ==
  ASSUME IInv, NEW c \in Chan, ChannelTeardownTimeout(c)
  PROVE  IInv'
<1>1. BoolTypes'
  BY ZenonT(60) DEF IInv, Types, BoolTypes, ChannelTeardownTimeout, AtProcess, Wait,
     Failed
<1>2. ValueTypes'
  BY DEF IInv, Types, ValueTypes, ChannelTeardownTimeout, AtProcess, Wait, Failed,
     Pcs
<1>3. Flags'
  BY DEF IInv, Flags, Killed, TaskletDead, ChannelTeardownTimeout, AtProcess, Wait,
     Failed
<1>4. OneAtATime' /\ LineAlive'
  BY DEF IInv, OneAtATime, LineAlive, Killed, TaskletDead, ChannelTeardownTimeout,
     AtProcess, Wait, Failed
<1>5. Phases'
  BY DEF IInv, Phases, Stranded, Closing, Undisturbed, Open, Down, Tearing, TxDown,
     ChOpen, ChClosing, ChClosed, ChannelTeardownTimeout, AtProcess, Wait, Failed,
     Interrupt, Pend
<1>6. Counted'
  BY DEF IInv, Counted, Closing, ChannelTeardownTimeout, AtProcess, Wait, Failed
<1>. QED BY <1>1, <1>2, <1>3, <1>4, <1>5, <1>6 DEF IInv, Types

\* halClose() stops the engine, and the close unregisters handler and timer.
LEMMA halCloseStep ==
  ASSUME IInv, halClose
  PROVE  IInv'
<1>1. BoolTypes'
  BY ZenonT(60) DEF IInv, Types, BoolTypes, halClose, AtProcess, AfterClose, Failed
<1>2. ValueTypes'
  BY DEF IInv, Types, ValueTypes, halClose, AtProcess, AfterClose, Failed, Pcs
<1>3. Flags'
  BY DEF IInv, Flags, Killed, TaskletDead, Pcs, halClose, AtProcess, AfterClose,
     Failed
<1>4. OneAtATime' /\ LineAlive'
  BY DEF IInv, OneAtATime, LineAlive, Killed, TaskletDead, halClose, AtProcess,
     AfterClose, Failed
<1>5. Phases'
  BY DEF IInv, Flags, Phases, Stranded, Closing, Undisturbed, Open, Down, Tearing,
     TxDown, ChOpen, ChClosing, ChClosed, halClose, AtProcess, AfterClose, Failed
<1>6. Counted'
  BY DEF IInv, Flags, Counted, Closing, halClose, AtProcess, AfterClose, Failed
<1>. QED BY <1>1, <1>2, <1>3, <1>4, <1>5, <1>6 DEF IInv, Types

\* The module is removed while the interface is down.
LEMMA cpmac_exitStep ==
  ASSUME IInv, cpmac_exit
  PROVE  IInv'
<1>1. BoolTypes'
  BY ZenonT(60) DEF IInv, Types, BoolTypes, cpmac_exit, AtProcess
<1>2. ValueTypes'
  BY DEF IInv, Types, ValueTypes, cpmac_exit, AtProcess, Pcs
<1>3. Flags'
  BY DEF IInv, Flags, Killed, TaskletDead, cpmac_exit, AtProcess
<1>4. OneAtATime' /\ LineAlive'
  BY DEF IInv, OneAtATime, LineAlive, Killed, TaskletDead, cpmac_exit, AtProcess
<1>5. Phases'
  BY DEF IInv, Phases, Stranded, Closing, Undisturbed, Open, Down, Tearing, TxDown,
     ChOpen, ChClosing, ChClosed, cpmac_exit, AtProcess
<1>6. Counted'
  BY DEF IInv, Counted, Closing, cpmac_exit, AtProcess
<1>. QED BY <1>1, <1>2, <1>3, <1>4, <1>5, <1>6 DEF IInv, Types

\* halShutdown() begins.
LEMMA halShutdownStep ==
  ASSUME IInv, halShutdown
  PROVE  IInv'
<1>1. BoolTypes'
  BY ZenonT(60) DEF IInv, Types, BoolTypes, halShutdown, AtProcess
<1>2. ValueTypes'
  BY DEF IInv, Types, ValueTypes, halShutdown, AtProcess, Pcs
<1>3. Flags'
  BY DEF IInv, Flags, Killed, TaskletDead, Pcs, halShutdown, AtProcess
<1>4. OneAtATime' /\ LineAlive'
  BY DEF IInv, OneAtATime, LineAlive, Killed, TaskletDead, halShutdown, AtProcess
<1>5. Phases'
  BY DEF IInv, Phases, Stranded, Closing, Undisturbed, Open, Down, Tearing, TxDown,
     ChOpen, ChClosing, ChClosed, halShutdown, AtProcess
<1>6. Counted'
  BY DEF IInv, Counted, Closing, halShutdown, AtProcess
<1>. QED BY <1>1, <1>2, <1>3, <1>4, <1>5, <1>6 DEF IInv, Types

\* halShutdown() frees everything.
LEMMA halShutdownFreeStep ==
  ASSUME IInv, halShutdownFree
  PROVE  IInv'
<1>1. BoolTypes'
  BY ZenonT(60) DEF IInv, Types, BoolTypes, halShutdownFree, AtProcess
<1>2. ValueTypes'
  BY DEF IInv, Types, ValueTypes, halShutdownFree, AtProcess, Pcs
<1>3. Flags'
  BY DEF IInv, Flags, Killed, TaskletDead, Pcs, halShutdownFree, AtProcess
<1>4. OneAtATime' /\ LineAlive'
  BY DEF IInv, OneAtATime, LineAlive, Killed, TaskletDead, halShutdownFree,
     AtProcess
<1>5. Phases'
  BY DEF IInv, Phases, Stranded, Closing, Undisturbed, Open, Down, Tearing, TxDown,
     ChOpen, ChClosing, ChClosed, halShutdownFree, AtProcess
<1>6. Counted'
  BY DEF IInv, Counted, Closing, halShutdownFree, AtProcess
<1>. QED BY <1>1, <1>2, <1>3, <1>4, <1>5, <1>6 DEF IInv, Types

\* An open of a closed device: the channels are open, no teardown is pending.
LEMMA DevEnableStep ==
  ASSUME IInv, DevEnable
  PROVE  IInv'
<1>1. BoolTypes'
  BY ZenonT(60) DEF IInv, Types, BoolTypes, DevEnable, Apply
<1>2. ValueTypes'
  BY DEF IInv, Types, ValueTypes, DevEnable, AtProcess, Pcs
<1>3. Flags'
  BY DEF IInv, Flags, DevEnable, AtProcess, Killed, TaskletDead
<1>4. OneAtATime' /\ LineAlive'
  BY DEF IInv, OneAtATime, LineAlive, DevEnable, AtProcess, TaskletDead
<1>5. ASSUME NEW c \in Chan
      PROVE  ChIsOpen'[c] /\ run'[c] /\ (mask'[c] <=> c = "rx" \/ ~TxIntDisable)
  BY Zenon DEF DevEnable, Apply
<1>6. Phases'
  BY <1>5 DEF IInv, Phases, Stranded, Closing, DevEnable, AtProcess, ChOpen,
     ChClosing, ChClosed, Down, Open, Tearing, TxDown, Undisturbed
<1>7. Counted'
  BY <1>5 DEF IInv, Counted, Closing, DevEnable, AtProcess
<1>. QED BY <1>1, <1>2, <1>3, <1>4, <1>6, <1>7 DEF IInv, Types

\* halIsr() will find the end of a teardown on channel c.
TearsDown(c) == Pend(c) /\ int[c] = "td" /\ Pending[c]

\* What halIsr() does to a channel: a teardown that was found closes it, and
\* otherwise at most its interrupt is acknowledged.  It queues no packet.
LEMMA HalIsrEffect ==
  ASSUME BoolTypes, ValueTypes, NEW M, HalIsr(M)
  PROVE  /\ ChIsOpen' \in [Chan -> BOOLEAN] /\ Pending' \in [Chan -> BOOLEAN]
         /\ mask' \in [Chan -> BOOLEAN]
         /\ int' \in [Chan -> {"none", "data", "td"}]
         /\ queued' \in 0 .. queued
         /\ \A c \in Chan :
              /\ ChIsOpen'[c] <=> ChIsOpen[c] /\ ~TearsDown(c)
              /\ Pending'[c] <=> Pending[c] /\ ~TearsDown(c)
              /\ ~TxIntDisable => (mask'[c] <=> mask[c] /\ ~TearsDown(c))
              /\ int'[c] \in {int[c], "none"}
              /\ TearsDown(c) => int'[c] = "none"
              /\ int[c] = "td" /\ ~TearsDown(c) => int'[c] = "td"
         /\ TearsDown("tx") => queued' = 0
<1>. DEFINE T == {c \in Chan : Pend(c) /\ int[c] = "td" /\ Pending[c]}
            D == {c \in Chan : Pend(c) /\ c \notin T}
            E(c) == (c \in D /\ int[c] = "data" /\ c \notin M) \/ c \in T
<1>1. \A c \in Chan : c \in T <=> TearsDown(c)
  BY DEF TearsDown
<1>2. /\ ChIsOpen' = [c \in Chan |-> ChIsOpen[c] /\ c \notin T]
      /\ Pending' = [c \in Chan |-> Pending[c] /\ c \notin T]
      /\ mask' = [c \in Chan |-> mask[c] /\ c \notin T
                                 /\ ~(TxIntDisable /\ c = "tx" /\ Pend(c))]
      /\ int' = [c \in Chan |-> IF E(c) THEN "none" ELSE int[c]]
      /\ IF "tx" \in T THEN queued' = 0
         ELSE IF "tx" \in D THEN queued' \in (IF "tx" \in M THEN 1 ELSE 0) .. queued
         ELSE queued' = queued
  BY Zenon DEF HalIsr
<1>3. /\ ChIsOpen' \in [Chan -> BOOLEAN] /\ Pending' \in [Chan -> BOOLEAN]
      /\ mask' \in [Chan -> BOOLEAN]
  BY <1>2, Zenon
<1>4. ASSUME NEW c \in Chan
      PROVE  /\ ChIsOpen'[c] <=> ChIsOpen[c] /\ c \notin T
             /\ Pending'[c] <=> Pending[c] /\ c \notin T
             /\ ~TxIntDisable => (mask'[c] <=> mask[c] /\ c \notin T)
             /\ int'[c] = IF E(c) THEN "none" ELSE int[c]
  <2>. HIDE DEF T, E
  <2>. QED BY <1>2, Zenon
<1>5. int' \in [Chan -> {"none", "data", "td"}]
  <2>. HIDE DEF E
  <2>. QED BY <1>2 DEF ValueTypes
<1>6. queued' \in 0 .. queued /\ ("tx" \in T => queued' = 0)
  <2>. HIDE DEF T, D
  <2>. QED BY <1>2 DEF ValueTypes
<1>7. ASSUME NEW c \in Chan
      PROVE  /\ c \in T => E(c)
             /\ int[c] = "td" /\ c \notin T => ~E(c)
  OBVIOUS
<1>. HIDE DEF T, E
<1>. QED BY <1>1, <1>3, <1>4, <1>5, <1>6, <1>7

\* What halIsr() means for the phases of the channels, if the handler or the
\* tasklet calls it at all.
LEMMA ServicePhases ==
  ASSUME Types, UNCHANGED <<run, td, TxIntDisable>>,
         \/ \E M \in SUBSET Chan : HalIsr(M)
         \/ UNCHANGED <<ChIsOpen, Pending, queued, int, mask>>
  PROVE  /\ ChIsOpen' \in [Chan -> BOOLEAN] /\ Pending' \in [Chan -> BOOLEAN]
         /\ mask' \in [Chan -> BOOLEAN]
         /\ int' \in [Chan -> {"none", "data", "td"}]
         /\ queued' \in 0 .. queued
         /\ ~TxIntDisable =>
              \A c \in Chan :
                /\ ChOpen(c) => ChOpen(c)'
                /\ ChClosed(c) => ChClosed(c)'
                /\ ChClosing(c) =>
                     ChClosing(c)' \/ (ChClosed(c)' /\ (c = "tx" => queued' = 0))
         /\ (ChIsOpen'["tx"] => Pending'["tx"]) => (ChIsOpen["tx"] => Pending["tx"])
         /\ (Pending["tx"] => ChIsOpen["tx"]) => (Pending'["tx"] => ChIsOpen'["tx"])
<1>1. CASE UNCHANGED <<ChIsOpen, Pending, queued, int, mask>>
  BY <1>1 DEF Types, BoolTypes, ValueTypes, ChOpen, ChClosing, ChClosed
<1>2. ASSUME NEW M \in SUBSET Chan, HalIsr(M)
      PROVE  /\ ChIsOpen' \in [Chan -> BOOLEAN] /\ Pending' \in [Chan -> BOOLEAN]
             /\ mask' \in [Chan -> BOOLEAN]
             /\ int' \in [Chan -> {"none", "data", "td"}]
             /\ queued' \in 0 .. queued
             /\ ~TxIntDisable =>
                  \A c \in Chan :
                    /\ ChOpen(c) => ChOpen(c)'
                    /\ ChClosed(c) => ChClosed(c)'
                    /\ ChClosing(c) =>
                         ChClosing(c)' \/ (ChClosed(c)' /\ (c = "tx" => queued' = 0))
             /\ (ChIsOpen'["tx"] => Pending'["tx"]) => (ChIsOpen["tx"] => Pending["tx"])
             /\ (Pending["tx"] => ChIsOpen["tx"]) => (Pending'["tx"] => ChIsOpen'["tx"])
  BY <1>2, HalIsrEffect DEF Types, TearsDown, ChOpen, ChClosing, ChClosed
<1>. QED BY <1>1, <1>2

\* The handler works itself once the flags are set, or queues the tasklet.
LEMMA cpmac_hal_isrStep ==
  ASSUME IInv, cpmac_hal_isr
  PROVE  IInv'
<1>0. /\ ChIsOpen' \in [Chan -> BOOLEAN] /\ Pending' \in [Chan -> BOOLEAN]
      /\ mask' \in [Chan -> BOOLEAN]
      /\ int' \in [Chan -> {"none", "data", "td"}]
      /\ queued' \in 0 .. queued
      /\ ~TxIntDisable =>
           \A c \in Chan :
             /\ ChOpen(c) => ChOpen(c)'
             /\ ChClosed(c) => ChClosed(c)'
             /\ ChClosing(c) =>
                  ChClosing(c)' \/ (ChClosed(c)' /\ (c = "tx" => queued' = 0))
      /\ (ChIsOpen'["tx"] => Pending'["tx"]) => (ChIsOpen["tx"] => Pending["tx"])
      /\ (Pending["tx"] => ChIsOpen["tx"]) => (Pending'["tx"] => ChIsOpen'["tx"])
  <2>1. \/ \E M \in SUBSET Chan : HalIsr(M)
        \/ UNCHANGED <<ChIsOpen, Pending, queued, int, mask>>
    BY Zenon DEF cpmac_hal_isr, IsrDirect, IsrSchedules, IsrIgnores
  <2>2. UNCHANGED <<run, td, TxIntDisable>>
    BY Zenon DEF cpmac_hal_isr, IsrDirect, IsrSchedules, IsrIgnores
  <2>. QED BY <2>1, <2>2, ServicePhases DEF IInv
<1>1. /\ irq /\ armed
      /\ \/ /\ non_data_irq_expected /\ armed' = TRUE /\ sched' = sched
            /\ nested' = (nested \/ tasklet = "halIsr")
         \/ /\ ~non_data_irq_expected /\ ~set_to_close
            /\ sched' = TRUE /\ armed' = FALSE /\ nested' = nested
         \/ /\ ~non_data_irq_expected /\ set_to_close
            /\ sched' = sched /\ armed' = FALSE /\ nested' = nested
      /\ disturbed' = (disturbed \/ pc = "set2")
      /\ UNCHANGED <<State, opened_chan, run, td, irq, timer, set_to_close,
                     non_data_irq_expected, up, tasklet, more, pc, job,
                     TxIntDisable, InitEnable, refused>>
  BY DEF cpmac_hal_isr, IsrDirect, IsrSchedules, IsrIgnores, Interrupt
<1>2. BoolTypes'
  BY <1>0, <1>1 DEF IInv, Types, BoolTypes
<1>3. ValueTypes'
  BY <1>0, <1>1, DevAssumption DEF IInv, Types, ValueTypes
<1>4. Flags'
  BY <1>1 DEF IInv, Types, BoolTypes, Flags, Killed, TaskletDead
<1>5. OneAtATime' /\ LineAlive'
  BY <1>1 DEF IInv, Types, BoolTypes, Flags, Killed, TaskletDead, OneAtATime,
     LineAlive
<1>6. Phases'
  <2>. SUFFICES ASSUME Undisturbed' PROVE Phases'
    BY DEF Phases
  <2>1. Undisturbed
    BY <1>1 DEF IInv, Undisturbed
  <2>2. /\ ChOpen("tx") => ChOpen("tx")'
        /\ ChClosed("tx") => ChClosed("tx")'
        /\ ChClosing("tx") => ChClosing("tx")' \/ (ChClosed("tx")' /\ queued' = 0)
        /\ ChOpen("rx") => ChOpen("rx")'
        /\ ChClosed("rx") => ChClosed("rx")'
        /\ ChClosing("rx") => ChClosing("rx")' \/ ChClosed("rx")'
    BY <1>0, <2>1 DEF Undisturbed
  <2>. QED BY <1>0, <1>1, <2>1, <2>2 DEF IInv, Flags, Phases, Stranded, Closing,
     Open, Down, Tearing, TxDown
<1>7. Counted'
  BY <1>0, <1>1 DEF IInv, Counted, Closing
<1>. QED BY <1>2, <1>3, <1>4, <1>5, <1>6, <1>7 DEF IInv, Types

\* The tasklet works.
LEMMA TaskletHalIsrStep ==
  ASSUME IInv, TaskletHalIsr
  PROVE  IInv'
<1>0. /\ ChIsOpen' \in [Chan -> BOOLEAN] /\ Pending' \in [Chan -> BOOLEAN]
      /\ mask' \in [Chan -> BOOLEAN]
      /\ int' \in [Chan -> {"none", "data", "td"}]
      /\ queued' \in 0 .. queued
      /\ ~TxIntDisable =>
           \A c \in Chan :
             /\ ChOpen(c) => ChOpen(c)'
             /\ ChClosed(c) => ChClosed(c)'
             /\ ChClosing(c) =>
                  ChClosing(c)' \/ (ChClosed(c)' /\ (c = "tx" => queued' = 0))
      /\ (ChIsOpen'["tx"] => Pending'["tx"]) => (ChIsOpen["tx"] => Pending["tx"])
      /\ (Pending["tx"] => ChIsOpen["tx"]) => (Pending'["tx"] => ChIsOpen'["tx"])
  <2>1. \/ \E M \in SUBSET Chan : HalIsr(M)
        \/ UNCHANGED <<ChIsOpen, Pending, queued, int, mask>>
    BY Zenon DEF TaskletHalIsr
  <2>2. UNCHANGED <<run, td, TxIntDisable>>
    BY Zenon DEF TaskletHalIsr
  <2>. QED BY <2>1, <2>2, ServicePhases DEF IInv
<1>1. /\ tasklet = "halIsr" /\ tasklet' = "tested" /\ more' \in BOOLEAN
      /\ UNCHANGED <<State, opened_chan, run, td, armed, irq, timer, set_to_close,
                     non_data_irq_expected, up, sched, pc, job,
                     TxIntDisable, InitEnable, nested, refused, disturbed>>
  BY DEF TaskletHalIsr
<1>2. BoolTypes'
  BY <1>0, <1>1 DEF IInv, Types, BoolTypes
<1>3. ValueTypes'
  BY <1>0, <1>1, DevAssumption DEF IInv, Types, ValueTypes
<1>4. Flags'
  BY <1>1 DEF IInv, Flags, Killed, TaskletDead
<1>5. OneAtATime' /\ LineAlive'
  BY <1>1 DEF IInv, Killed, TaskletDead, OneAtATime, LineAlive
<1>6. Phases'
  <2>. SUFFICES ASSUME Undisturbed' PROVE Phases'
    BY DEF Phases
  <2>1. Undisturbed
    BY <1>1 DEF IInv, Undisturbed
  <2>2. /\ ChOpen("tx") => ChOpen("tx")'
        /\ ChClosed("tx") => ChClosed("tx")'
        /\ ChClosing("tx") => ChClosing("tx")' \/ (ChClosed("tx")' /\ queued' = 0)
        /\ ChOpen("rx") => ChOpen("rx")'
        /\ ChClosed("rx") => ChClosed("rx")'
        /\ ChClosing("rx") => ChClosing("rx")' \/ ChClosed("rx")'
    BY <1>0, <2>1 DEF Undisturbed
  <2>. QED BY <1>0, <1>1, <2>1, <2>2 DEF IInv, Flags, Killed, TaskletDead, Phases,
     Stranded, Closing, Open, Down, Tearing, TxDown
<1>7. Counted'
  BY <1>0, <1>1 DEF IInv, Flags, Killed, TaskletDead, Counted, Closing
<1>. QED BY <1>2, <1>3, <1>4, <1>5, <1>6, <1>7 DEF IInv, Types

-----------------------------------------------------------------------------
\* Every step of the device, the engine and the process keeps the invariant.
LEMMA NextIInv == IInv /\ [Next]_vars => IInv'
<1>. SUFFICES ASSUME IInv, [Next]_vars PROVE IInv'
  OBVIOUS
<1>1. ASSUME NEW c \in Chan, HwData(c) \/ HwTeardown(c) PROVE IInv'
  BY <1>1, HwDataStep, HwTeardownStep
<1>2. CASE HwRestart \/ cpmac_hal_isr \/ Tasklet \/ TimerExpires
  BY <1>2, HwRestartStep, cpmac_hal_isrStep, TaskletBeginStep, TaskletHalIsrStep,
     TaskletEndStep, TimerExpiresStep DEF Tasklet
<1>3. CASE \/ halSend \/ DevEnable \/ DevEnableFails \/ DevOpenOnly \/ DevCloseOnly
           \/ DevDisable \/ cpmac_exit
  BY <1>3, halSendStep, DevEnableStep, DevEnableFailsStep, DevOpenOnlyStep,
     DevCloseOnlyStep, DevDisableStep, cpmac_exitStep
<1>4. CASE \/ request_irq \/ request_irq_fails \/ DevDisableSet2 \/ DevDisableKill
           \/ halClose \/ halShutdown \/ halShutdownFree
  BY <1>4, request_irqStep, request_irq_failsStep, DevDisableSet2Step,
     DevDisableKillStep, halCloseStep, halShutdownStep, halShutdownFreeStep
<1>5. ASSUME NEW c \in Chan,
             \/ SkipTeardown(c) \/ ChannelTeardown(c) \/ ChannelTeardownFails(c)
             \/ ChannelTeardownDone(c) \/ ChannelTeardownTimeout(c)
      PROVE  IInv'
  BY <1>5, SkipTeardownStep, ChannelTeardownStep, ChannelTeardownFailsStep,
     ChannelTeardownDoneStep, ChannelTeardownTimeoutStep
<1>6. CASE UNCHANGED vars
  BY <1>6 DEF vars, IInv, Types, BoolTypes, ValueTypes, Flags, Killed, TaskletDead,
     OneAtATime, LineAlive, Phases, Stranded, Undisturbed, Open, Down, Tearing, TxDown,
     ChOpen, ChClosing, ChClosed, Counted
<1>. QED
  BY <1>1, <1>2, <1>3, <1>4, <1>5, <1>6 DEF Next, Process

\* The invariant holds in every state of every behaviour.
THEOREM Invariance == Spec => []IInv
  BY InitIInv, NextIInv, PTL DEF Spec

\* The types, and the count of transmit channels: cpmac_drv_tx_setup() never
\* counts more than one channel on top of one that a failed close left behind.
THEOREM TypeCorrect == Spec => []TypeOK
<1>1. IInv => TypeOK
  <2>. SUFFICES ASSUME IInv PROVE TypeOK
    OBVIOUS
  <2>1. {armed, irq, timer, set_to_close, non_data_irq_expected, sched, more, up,
         TxIntDisable, InitEnable, nested, refused, disturbed} \subseteq BOOLEAN
    BY ZenonT(60) DEF IInv, Types, BoolTypes
  <2>. QED BY <2>1 DEF TypeOK, IInv, Types, BoolTypes, ValueTypes, Counted, Pcs
<1>. QED BY <1>1, Invariance, PTL

\* An interface that is down leaves nothing behind: cpmac_dev_close() has no way
\* to fail if transmit interrupts are on and nothing comes between its two set_bit().
THEOREM DownIsClean == Spec => []CleanDown
<1>1. IInv => CleanDown
  BY DEF IInv, Flags, Killed, TaskletDead, Phases, Undisturbed, Down, ChClosed,
     CleanDown, Pcs
<1>. QED BY <1>1, Invariance, PTL

\* The tasklet is queued or runs on an open device only, and not behind tasklet_kill().
THEOREM TaskletNotStale == Spec => []NoStaleTasklet
<1>1. IInv => NoStaleTasklet
  BY DEF IInv, Types, ValueTypes, Flags, Counted, Closing, Killed, TaskletDead,
     NoStaleTasklet
<1>. QED BY <1>1, Invariance, PTL

\* With transmit interrupts on halIsr() is not entered twice.
THEOREM IsrNotNested == Spec => []NoNestedIsr
<1>1. IInv => NoNestedIsr
  BY DEF IInv, OneAtATime, NoNestedIsr
<1>. QED BY <1>1, Invariance, PTL

\* On an open device the interrupt line is armed, or the tasklet will arm it.
THEOREM LineStaysAlive == Spec => []LineNotDead
<1>1. IInv => LineNotDead
  BY DEF IInv, LineAlive, TaskletDead, LineNotDead
<1>. QED BY <1>1, Invariance, PTL
=============================================================================
