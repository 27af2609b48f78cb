------------------------------ MODULE CpmacDev ------------------------------
(***************************************************************************)
(* Opening and closing of a CPMAC device: cpmac_dev_open(),                *)
(* cpmac_dev_close(), cpmac_exit(), cpmac_p_dev_enable() and               *)
(* cpmac_p_dev_disable() of cpmac.c, cpmac_drv_start() and cpmac_drv_stop()*)
(* of cpmacHalLx.c, halOpen(), halClose(), halChannelSetup(),              *)
(* halChannelTeardown() and halShutdown() of the HAL, against the          *)
(* interrupt handler, the tasklet and the DMA channels.                    *)
(*                                                                         *)
(* Four contexts share one CPU: the handler (atomic, SA_INTERRUPT) comes   *)
(* before the tasklet and the timer, and these before the process that     *)
(* opens and closes.  The tasklet is interrupted by the handler only; a    *)
(* scheduled tasklet may wait (ksoftirqd) while the process goes on.       *)
(*                                                                         *)
(* A channel is abstracted to its raw interrupt and whether it runs; the   *)
(* rings themselves are the subject of CppiTx and CppiRx.                  *)
(***************************************************************************)
EXTENDS Naturals

CONSTANTS
  RxRestarts,     \* RxInt() may restart the receive channel during its teardown
  MaxTx           \* bound: packets in the transmit queue

ASSUME DevAssumption == RxRestarts \in BOOLEAN /\ MaxTx \in Nat

Chan == {"tx", "rx"}

VARIABLES
  TxIntDisable,   \* tx_int_disable: transmit interrupts are masked (shipped: TRUE)
  InitEnable,     \* g_init_enable_flag: the device is opened when it is probed
  State,          \* HalDev->State: "init", "opened"; "freed" after Shutdown
  ChIsOpen,       \* per channel
  Pending,        \* TxTeardownPending, RxTeardownPending
  opened_chan,    \* transmit channels that cpmac_drv_tx_setup() counted
  queued,         \* transmit packets that the HAL holds
  run,            \* DMA: the channel may use its descriptors
  td,             \* DMA: teardown requested
  int,            \* DMA: raw interrupt: "none", "data" or "td"
  mask,           \* TX_INTMASK, RX_INTMASK: TRUE if the interrupt is let through
  armed,          \* an EOI was written since the last interrupt
  irq,            \* cpmac_hal_isr is registered
  timer,          \* the tick timer is queued
  set_to_close, non_data_irq_expected,
  sched,          \* TASKLET_STATE_SCHED
  tasklet,        \* "no", "halIsr" (inside it), "tested" (behind it)
  more,           \* pkts_to_handle of the tasklet
  up,             \* IFF_UP: the network stack may transmit
  pc,             \* where the process is
  job,            \* what it is doing: "close", "exit" or "shutdown"
  nested,         \* history: halIsr() was entered while it was running
  refused,        \* history: the last cpmac_dev_open() got no interrupt
  disturbed       \* history: the device was used between the two set_bit() of
                  \* a close, or RxInt() restarted a channel that was closing

hal  == <<State, ChIsOpen, Pending, opened_chan, queued>>
dma  == <<run, td, int>>
line == <<mask, armed>>
os   == <<irq, timer, set_to_close, non_data_irq_expected, up>>
soft == <<sched, tasklet, more>>
proc == <<pc, job>>
conf == <<TxIntDisable, InitEnable>>
hist == <<nested, refused, disturbed>>
vars == <<hal, dma, line, os, soft, proc, conf, hist>>

-----------------------------------------------------------------------------
\* ChannelConfigApply() for the channels in C, with the effect of "TxIntDisable".
Apply(C) ==
  /\ ChIsOpen' = [c \in Chan |-> ChIsOpen[c] \/ c \in C]
  /\ run' = [c \in Chan |-> run[c] \/ c \in C]
  /\ mask' = [c \in Chan |-> IF c \in C THEN c = "rx" \/ ~TxIntDisable
                             ELSE mask[c]]

\* The device has been probed; with g_init_enable_flag it is open already.
Init ==
  /\ TxIntDisable \in BOOLEAN /\ InitEnable \in BOOLEAN
  /\ State = IF InitEnable THEN "opened" ELSE "init"
  /\ ChIsOpen = [c \in Chan |-> InitEnable]
  /\ Pending = [c \in Chan |-> FALSE]
  /\ opened_chan = IF InitEnable THEN 1 ELSE 0
  /\ queued = 0
  /\ run = [c \in Chan |-> InitEnable]
  /\ td = [c \in Chan |-> FALSE]
  /\ int = [c \in Chan |-> "none"]
  /\ mask = [c \in Chan |-> InitEnable /\ (c = "rx" \/ ~TxIntDisable)]
  /\ armed = TRUE
  /\ irq = FALSE
  /\ timer = InitEnable
  /\ set_to_close = ~InitEnable
  /\ non_data_irq_expected = FALSE
  /\ sched = FALSE /\ tasklet = "no" /\ more = FALSE
  /\ up = FALSE
  /\ pc = "idle" /\ job = "close"
  /\ nested = FALSE /\ refused = FALSE /\ disturbed = FALSE

-----------------------------------------------------------------------------
(* The engine (external).                                                  *)

\* A packet is finished, or has arrived.
HwData(c) ==
  /\ run[c] /\ int[c] = "none"
  /\ c = "tx" => queued > 0
  /\ int' = [int EXCEPT ![c] = "data"]
  /\ UNCHANGED <<hal, run, td, line, os, soft, proc, conf, hist>>

HwTeardown(c) ==
  /\ td[c]
  /\ td' = [td EXCEPT ![c] = FALSE]
  /\ run' = [run EXCEPT ![c] = FALSE]
  /\ int' = [int EXCEPT ![c] = "td"]
  /\ UNCHANGED <<hal, line, os, soft, proc, conf, hist>>

\* The teardown is lost if RxInt() writes the HDP register meanwhile, which
\* CppiRx does with ClosingTraffic.
HwRestart ==
  /\ RxRestarts /\ td["rx"]
  /\ td' = [td EXCEPT !["rx"] = FALSE]
  /\ disturbed' = TRUE
  /\ UNCHANGED <<hal, run, int, line, os, soft, proc, conf, nested, refused>>

Pend(c) == int[c] # "none" /\ mask[c]

\* The CPU takes an interrupt before it does anything else.
Interrupt == irq /\ armed /\ \E c \in Chan : Pend(c)

-----------------------------------------------------------------------------
(* halIsr() and what calls it.                                             *)

\* TxInt() and RxInt() have found a teardown on the channels in T and data on
\* those in D; they stop at their service limit on the channels in M.  A
\* transmit teardown gives all packets back.
HalIsr(M) ==
  LET T == {c \in Chan : Pend(c) /\ int[c] = "td" /\ Pending[c]}
      D == {c \in Chan : Pend(c) /\ c \notin T}
  IN  /\ M \subseteq {c \in D : int[c] = "data"} \ (IF TxIntDisable THEN {"tx"} ELSE {})
      /\ ChIsOpen' = [c \in Chan |-> ChIsOpen[c] /\ c \notin T]
      /\ Pending' = [c \in Chan |-> Pending[c] /\ c \notin T]
      /\ mask' = [c \in Chan |-> mask[c] /\ c \notin T
                                 /\ ~(TxIntDisable /\ c = "tx" /\ Pend(c))]
      /\ int' = [c \in Chan |-> IF (c \in D /\ int[c] = "data" /\ c \notin M) \/ c \in T
                                THEN "none" ELSE int[c]]
      /\ IF "tx" \in T THEN queued' = 0
         ELSE IF "tx" \in D THEN queued' \in (IF "tx" \in M THEN 1 ELSE 0) .. queued
         ELSE queued' = queued

\* cpmac_hal_isr(), by the two flags.  The first alternative writes the EOI.
IsrDirect ==
  /\ non_data_irq_expected
  /\ IF State = "opened" THEN \E M \in SUBSET Chan : HalIsr(M)
     ELSE UNCHANGED <<ChIsOpen, Pending, queued, int, mask>>
  /\ nested' = (nested \/ tasklet = "halIsr")
  /\ armed' = TRUE
  /\ UNCHANGED sched

\* Mutant: the handler does not look at the closing device.
IsrSchedulesAlways ==
  /\ sched' = TRUE
  /\ armed' = FALSE
  /\ UNCHANGED <<ChIsOpen, Pending, queued, int, mask, nested>>

IsrSchedules ==
  /\ ~non_data_irq_expected /\ ~set_to_close
  /\ sched' = TRUE
  /\ armed' = FALSE
  /\ UNCHANGED <<ChIsOpen, Pending, queued, int, mask, nested>>

IsrIgnores ==
  /\ ~non_data_irq_expected /\ set_to_close
  /\ armed' = FALSE
  /\ UNCHANGED <<ChIsOpen, Pending, queued, int, mask, sched, nested>>

cpmac_hal_isr ==
  /\ Interrupt
  /\ IsrDirect \/ IsrSchedules \/ IsrIgnores
  /\ disturbed' = (disturbed \/ pc = "set2")
  /\ UNCHANGED <<State, opened_chan, run, td, os, tasklet, more, proc, conf, refused>>

\* Mutant: the EOI comes before halIsr(), not behind it.
TaskletBeginEoi ==
  /\ sched /\ tasklet = "no" /\ ~Interrupt
  /\ sched' = FALSE
  /\ tasklet' = "halIsr"
  /\ armed' = TRUE
  /\ disturbed' = (disturbed \/ pc = "set2")
  /\ UNCHANGED <<hal, dma, mask, os, more, proc, conf, nested, refused>>

\* cpmac_handle_tasklet(), in three steps: it begins, halIsr() works, and the
\* flags are tested.  The handler may come in between.
TaskletBegin ==
  /\ sched /\ tasklet = "no" /\ ~Interrupt
  /\ sched' = FALSE
  /\ tasklet' = "halIsr"
  /\ disturbed' = (disturbed \/ pc = "set2")
  /\ UNCHANGED <<hal, dma, line, os, more, proc, conf, nested, refused>>

TaskletHalIsr ==
  /\ tasklet = "halIsr" /\ ~Interrupt
  /\ IF State = "opened"
       THEN \E M \in SUBSET Chan : HalIsr(M) /\ more' = (M # {})
       ELSE more' \in BOOLEAN /\ UNCHANGED <<ChIsOpen, Pending, queued, int, mask>>
  /\ tasklet' = "tested"
  /\ UNCHANGED <<State, opened_chan, run, td, armed, os, sched, proc, conf, hist>>

\* Mutant: the closing device is not looked at, and the tasklet runs again.
TaskletAgainAlways ==
  IF more THEN sched' = TRUE /\ UNCHANGED armed
          ELSE armed' = TRUE /\ UNCHANGED sched

\* Mutant: no EOI when the work is done.
TaskletAgainNoEoi ==
  /\ sched' = (more /\ ~set_to_close)
  /\ UNCHANGED armed

\* The EOI, another run, or nothing.
TaskletAgain ==
  IF non_data_irq_expected \/ ~more THEN armed' = TRUE /\ UNCHANGED sched
  ELSE sched' = (sched \/ ~set_to_close) /\ UNCHANGED armed

TaskletEnd ==
  /\ tasklet = "tested" /\ ~Interrupt
  /\ TaskletAgain
  /\ tasklet' = "no" /\ more' = FALSE
  /\ UNCHANGED <<hal, dma, mask, os, proc, conf, hist>>

\* cpmac_p_tick_timer_expiry() does not start the timer again while closing.
TimerExpires ==
  /\ timer /\ set_to_close /\ ~Interrupt /\ tasklet = "no"
  /\ timer' = FALSE
  /\ UNCHANGED <<hal, dma, line, irq, set_to_close, non_data_irq_expected, up,
                 soft, proc, conf, hist>>

-----------------------------------------------------------------------------
(* The process.  It runs when neither handler nor tasklet does.            *)

AtProcess(p) == pc = p /\ ~Interrupt /\ tasklet = "no"

\* halSend() of one packet: queued and no more; queued behind a running packet,
\* which unmasks the interrupt and writes an EOI if transmit interrupts are
\* disabled; or, queued or without a free TCB, with a TxInt() at the threshold.
halSend ==
  /\ AtProcess("idle") /\ up
  /\ \/ queued < MaxTx /\ queued' = queued + 1 /\ UNCHANGED <<int, line>>
     \/ /\ TxIntDisable /\ queued \in 1 .. MaxTx - 1
        /\ queued' = queued + 1
        /\ mask' = [mask EXCEPT !["tx"] = TRUE] /\ armed' = TRUE
        /\ UNCHANGED int
     \/ /\ TxIntDisable /\ int["tx"] = "data"
        /\ queued' \in 0 .. queued
        /\ int' = [int EXCEPT !["tx"] = "none"]
        /\ UNCHANGED line
  /\ UNCHANGED <<State, ChIsOpen, Pending, opened_chan, run, td, os, soft, proc,
                 conf, hist>>

\* cpmac_p_dev_enable(), from cpmac_dev_open(): channel setup and Open() on a
\* closed device.
DevEnable ==
  /\ AtProcess("idle") /\ ~up /\ ~InitEnable
  /\ State = "init"
  /\ State' = "opened"
  /\ Apply(Chan)
  /\ opened_chan' = opened_chan + 1
  /\ int' = [c \in Chan |-> "none"] /\ td' = [c \in Chan |-> FALSE]
  /\ armed' = TRUE
  /\ timer' = TRUE
  /\ sched' = FALSE
  /\ set_to_close' = FALSE
  /\ pc' = "request_irq"
  /\ UNCHANGED <<Pending, queued, irq, non_data_irq_expected, up, tasklet, more,
                 job, conf, hist>>

\* The device is still open, since a close failed or an open was refused its
\* interrupt: ChannelSetup() fails for the first channel that is open; a transmit
\* channel that is not is set up and opened before that.
DevEnableFails ==
  /\ AtProcess("idle") /\ ~up /\ ~InitEnable
  /\ State = "opened"
  /\ IF ChIsOpen["tx"]
       THEN UNCHANGED <<ChIsOpen, run, mask, opened_chan>>
       ELSE Apply({"tx"}) /\ opened_chan' = opened_chan + 1
  /\ set_to_close' = FALSE
  /\ pc' = "request_irq"
  /\ UNCHANGED <<State, Pending, queued, td, int, armed, irq, timer,
                 non_data_irq_expected, up, soft, job, conf, hist>>

\* With g_init_enable_flag cpmac_dev_open() only asks for the interrupt.
DevOpenOnly ==
  /\ AtProcess("idle") /\ ~up /\ InitEnable /\ State # "freed"
  /\ pc' = "request_irq"
  /\ UNCHANGED <<hal, dma, line, os, soft, job, conf, hist>>

\* request_irq() gives the interrupt, unless the handler is registered already, ...
request_irq ==
  /\ AtProcess("request_irq")
  /\ ~irq
  /\ irq' = TRUE /\ up' = TRUE
  /\ refused' = FALSE
  /\ pc' = "idle"
  /\ UNCHANGED <<hal, dma, line, timer, set_to_close, non_data_irq_expected,
                 soft, job, conf, nested, disturbed>>

\* ... or fails, for that or for another reason (no memory): cpmac_dev_open()
\* returns -1 and takes nothing back of what cpmac_p_dev_enable() has done.
request_irq_fails ==
  /\ AtProcess("request_irq")
  /\ refused' = TRUE
  /\ pc' = "idle"
  /\ UNCHANGED <<hal, dma, line, os, soft, job, conf, nested, disturbed>>

\* cpmac_dev_close() of a device that stays open.
DevCloseOnly ==
  /\ AtProcess("idle") /\ up /\ InitEnable
  /\ irq' = FALSE /\ up' = FALSE
  /\ UNCHANGED <<hal, dma, line, timer, set_to_close, non_data_irq_expected,
                 soft, proc, conf, hist>>

\* cpmac_dev_close(), or cpmac_exit() with g_init_enable_flag, calls
\* cpmac_p_dev_disable(), which sets one flag and then the other.
DevDisable ==
  /\ AtProcess("idle")
  /\ \/ up /\ ~InitEnable /\ job' = "close"
     \/ ~up /\ InitEnable /\ State # "freed" /\ job' = "exit"
  /\ up' = FALSE
  /\ set_to_close' = TRUE
  /\ pc' = "set2"
  /\ UNCHANGED <<hal, dma, line, irq, timer, non_data_irq_expected, soft, conf, hist>>

DevDisableSet2 ==
  /\ AtProcess("set2")
  /\ non_data_irq_expected' = TRUE
  /\ pc' = "tasklet_kill"
  /\ UNCHANGED <<hal, dma, line, irq, timer, set_to_close, up, soft, job, conf, hist>>

\* tasklet_kill() yields until the tasklet has run.
tasklet_killed == ~sched

DevDisableKill ==
  /\ AtProcess("tasklet_kill") /\ tasklet_killed
  /\ pc' = "tear_tx"
  /\ UNCHANGED <<hal, dma, line, os, soft, job, conf, hist>>

Tear(c) == IF c = "tx" THEN "tear_tx" ELSE "tear_rx"
Wait(c) == IF c = "tx" THEN "wait_tx" ELSE "wait_rx"
After(c) == IF c = "tx" THEN "tear_rx" ELSE "halClose"

\* Where a failed teardown leads: cpmac_drv_stop() returns without Close(), and
\* halClose() returns to halShutdown(), which goes on all the same.
Failed == IF job = "close" THEN "idle" ELSE IF job = "exit" THEN "shutdown" ELSE "free"

\* cpmac_drv_tx_teardown() goes by its own count of channels, halClose() by
\* ChIsOpen.
Skips(c) == IF job = "shutdown" THEN ~ChIsOpen[c] ELSE c = "tx" /\ opened_chan = 0

SkipTeardown(c) ==
  /\ AtProcess(Tear(c)) /\ Skips(c)
  /\ pc' = After(c)
  /\ UNCHANGED <<hal, dma, line, os, soft, job, conf, hist>>

\* halChannelTeardown(): the request, ...
ChannelTeardown(c) ==
  /\ AtProcess(Tear(c)) /\ ~Skips(c)
  /\ ~Pending[c] /\ ChIsOpen[c]
  /\ Pending' = [Pending EXCEPT ![c] = TRUE]
  /\ td' = [td EXCEPT ![c] = TRUE]
  /\ pc' = Wait(c)
  /\ UNCHANGED <<State, ChIsOpen, opened_chan, queued, run, int, line, os, soft,
                 job, conf, hist>>

\* ... an early return with ..TEARDOWN_ALREADY_PEND, ...
ChannelTeardownFails(c) ==
  /\ AtProcess(Tear(c)) /\ ~Skips(c)
  /\ Pending[c] \/ ~ChIsOpen[c]
  /\ pc' = Failed
  /\ UNCHANGED <<hal, dma, line, os, soft, job, conf, hist>>

\* ... the end of the wait (the next channel that cpmac_drv_tx_teardown() has
\* counted is channel 1, which was never open), ...
ChannelTeardownDone(c) ==
  /\ AtProcess(Wait(c)) /\ ~ChIsOpen[c]
  /\ opened_chan' = IF c = "tx" /\ job # "shutdown" THEN opened_chan - 1
                    ELSE opened_chan
  /\ pc' = IF c = "tx" /\ job # "shutdown" /\ opened_chan > 1 THEN Failed
           ELSE After(c)
  /\ UNCHANGED <<State, ChIsOpen, Pending, queued, dma, line, os, soft, job,
                 conf, hist>>

\* ... or ..TEARDOWN_TIMEOUT.  100000 sleeps are long: the time-out comes only
\* if neither the engine nor the handler nor the tasklet has anything to do.
ChannelTeardownTimeout(c) ==
  /\ AtProcess(Wait(c)) /\ ChIsOpen[c]
  /\ ~td[c] /\ ~sched
  /\ pc' = Failed
  /\ UNCHANGED <<hal, dma, line, os, soft, job, conf, hist>>

\* Mutant: the handler stays registered.
AfterCloseIrq == irq

AfterClose == FALSE

\* halClose() behind the teardowns, and the end of cpmac_p_dev_disable().
halClose ==
  /\ AtProcess("halClose")
  /\ irq' = AfterClose /\ timer' = FALSE
  /\ run' = [c \in Chan |-> FALSE] /\ td' = [c \in Chan |-> FALSE]
  /\ int' = [c \in Chan |-> "none"]
  /\ State' = "init"
  /\ non_data_irq_expected' = (non_data_irq_expected /\ job = "shutdown")
  /\ pc' = IF job = "shutdown" THEN "free" ELSE Failed
  /\ UNCHANGED <<ChIsOpen, Pending, opened_chan, queued, line, set_to_close, up,
                 soft, job, conf, hist>>

\* cpmac_exit() of a module that nobody uses.
cpmac_exit ==
  /\ AtProcess("idle") /\ ~up /\ ~InitEnable /\ State # "freed"
  /\ pc' = "shutdown"
  /\ UNCHANGED <<hal, dma, line, os, soft, job, conf, hist>>

\* halShutdown() closes an open device, ...
halShutdown ==
  /\ AtProcess("shutdown")
  /\ job' = "shutdown"
  /\ pc' = IF State = "opened" THEN "tear_tx" ELSE "free"
  /\ UNCHANGED <<hal, dma, line, os, soft, conf, hist>>

\* ... whatever came of it, frees descriptors, buffers and HalDev.
halShutdownFree ==
  /\ AtProcess("free")
  /\ State' = "freed"
  /\ pc' = "gone"
  /\ UNCHANGED <<ChIsOpen, Pending, opened_chan, queued, dma, line, os, soft, job,
                 conf, hist>>

-----------------------------------------------------------------------------
Tasklet == TaskletBegin \/ TaskletHalIsr \/ TaskletEnd

\* The steps that finish an open or a close that was begun.
Process ==
  \/ request_irq \/ request_irq_fails
  \/ DevDisableSet2 \/ DevDisableKill
  \/ \E c \in Chan : \/ SkipTeardown(c) \/ ChannelTeardown(c)
                     \/ ChannelTeardownFails(c) \/ ChannelTeardownDone(c)
                     \/ ChannelTeardownTimeout(c)
  \/ halClose \/ halShutdown \/ halShutdownFree

Next ==
  \/ \E c \in Chan : HwData(c) \/ HwTeardown(c)
  \/ HwRestart
  \/ cpmac_hal_isr \/ Tasklet \/ TimerExpires
  \/ halSend
  \/ DevEnable \/ DevEnableFails \/ DevOpenOnly \/ DevCloseOnly
  \/ DevDisable \/ cpmac_exit
  \/ Process

Spec == Init /\ [][Next]_vars

\* A run of the handler that leaves no interrupt pending.
Drain == cpmac_hal_isr /\ ~Interrupt'

(* Fairness: interrupts are taken, a scheduled tasklet runs, the engine    *)
(* answers a teardown, and a process that is running goes on.  Strong      *)
(* fairness, since traffic may interrupt the process and the tasklet but   *)
(* does not keep the handler busy for ever: the rings are finite.          *)
Fairness ==
  /\ WF_vars(cpmac_hal_isr) /\ SF_vars(Drain)
  /\ SF_vars(Tasklet)
  /\ \A c \in Chan : WF_vars(HwTeardown(c))
  /\ SF_vars(Process)

FairSpec == Spec /\ Fairness

-----------------------------------------------------------------------------
\* Types; in particular no more transmit channels are counted as open than a failed
\* open on top of a failed close can leave.
TypeOK ==
  /\ State \in {"init", "opened", "freed"}
  /\ ChIsOpen \in [Chan -> BOOLEAN] /\ Pending \in [Chan -> BOOLEAN]
  /\ opened_chan \in 0 .. 2 /\ queued \in 0 .. MaxTx
  /\ run \in [Chan -> BOOLEAN] /\ td \in [Chan -> BOOLEAN]
  /\ int \in [Chan -> {"none", "data", "td"}] /\ mask \in [Chan -> BOOLEAN]
  /\ {armed, irq, timer, set_to_close, non_data_irq_expected, sched, more, up,
      TxIntDisable, InitEnable, nested, refused, disturbed} \subseteq BOOLEAN
  /\ tasklet \in {"no", "halIsr", "tested"}
  /\ pc \in {"idle", "request_irq", "set2", "tasklet_kill", "tear_tx", "wait_tx",
              "tear_rx", "wait_rx", "halClose", "shutdown", "free", "gone"}
  /\ job \in {"close", "exit", "shutdown"}

\* An interface that is down leaves nothing behind: after cpmac_dev_close() no
\* interrupt handler is registered, no timer or tasklet is queued, no channel
\* runs or waits for its teardown, and no packet is kept by the HAL.  The network
\* core calls the close on the understanding that it cannot fail; so it is if
\* transmit interrupts are on and nothing has disturbed a close.  Then neither
\* handler, timer or tasklet nor the DMA can touch the descriptors and HalDev
\* after halShutdown() has freed them.  Only the open that was refused its
\* interrupt leaves a device that is down and not clean; once a later open gets
\* the interrupt, its close cleans up behind both.
CleanDown ==
  (/\ pc \in {"idle", "gone"} /\ ~up /\ ~InitEnable
   /\ ~TxIntDisable /\ ~disturbed /\ ~refused) =>
    /\ State \in {"init", "freed"} /\ ~irq /\ ~timer /\ ~sched /\ tasklet = "no"
    /\ queued = 0 /\ opened_chan = 0
    /\ \A c \in Chan : ~run[c] /\ ~ChIsOpen[c] /\ ~Pending[c] /\ int[c] = "none"

\* The tasklet is queued or runs on an open device only; otherwise halIsr()
\* returns before it sets pkts_to_handle, which the tasklet then reads.  And once
\* tasklet_kill() has returned it is neither queued nor runs: "The driver does
\* not re-schedule the tasklet after kill is called."
NoStaleTasklet ==
  (sched \/ tasklet # "no") =>
    /\ State = "opened"
    /\ ~(job = "close" /\
          pc \in {"tear_tx", "wait_tx", "tear_rx", "wait_rx", "halClose"})

\* halIsr() is not entered by the interrupt handler while the tasklet is in it:
\* both would work on the same queues.  It takes the EOI that halSend() writes
\* when transmit interrupts are disabled.
NoNestedIsr == nested => TxIntDisable

\* No interrupt is the last one: on an open device the interrupt line is armed by
\* an EOI, or the tasklet that will write the EOI is queued or runs.  The one
\* exception is an interrupt between the two set_bit() of a close.
LineNotDead ==
  (irq /\ State = "opened") => (armed \/ sched \/ tasklet # "no" \/ disturbed)

\* A close that has begun comes to an end.
CloseReturns == (pc = "set2") ~> (pc \in {"idle", "gone"})
=============================================================================
