-------------------------- MODULE CriticalSection --------------------------
(***************************************************************************)
(* Interrupt masking in the CPMAC driver.  os_critical_on() and            *)
(* os_critical_off() of cpmacHalLx.c keep the interrupt state of the       *)
(* caller in one static variable, irq_flags, and the CPHAL nests them:     *)
(* halSend() calls TxInt() inside its section, and NeedsCheck() reaches    *)
(* AddToRxQueue() through halRxReturn() inside its own.                    *)
(*                                                                         *)
(* A section is named by the function that opens it; at most two are open. *)
(* For each the interrupt state its function was entered with is recorded. *)
(* The other modules of the transmit and receive rings rely on the first   *)
(* property below when they let the CPU do one thing at a time.            *)
(***************************************************************************)
EXTENDS Integers

CONSTANTS
  TxServiceMax,    \* TxIntThresholdMaster[Ch]
  MaxNeeds         \* bound: RCBs on the Needs list

ASSUME CriticalAssumption ==
  /\ TxServiceMax \in Nat \ {0}
  /\ MaxNeeds \in Nat

Section == {"none", "halSend", "TxInt", "NeedsCheck", "AddToRxQueue"}

VARIABLES
  ie,              \* the interrupt enable bit of the CPU
  irq_flags,       \* the static variable: enable bit saved by os_critical_on()
  outer, inner,    \* the open sections
  outerIe, innerIe,\* enable bit when their functions were entered
  rxPhase,         \* where halIsr() is: "out", "NeedsCheck" or "RxInt"
  TxIntThreshold,  \* sends left before halSend() calls TxInt()
  NeedsCount,      \* RCBs without a buffer
  restored         \* history: the last function to return left interrupts as
                   \* it found them

csVars == <<ie, irq_flags, outer, inner, outerIe, innerIe, rxPhase,
          TxIntThreshold, NeedsCount, restored>>

CSInit ==
  /\ ie = TRUE
  /\ irq_flags = FALSE
  /\ outer = "none" /\ inner = "none"
  /\ outerIe = TRUE /\ innerIe = TRUE
  /\ rxPhase = "out"
  /\ TxIntThreshold = TxServiceMax
  /\ NeedsCount = 0
  /\ restored = TRUE

-----------------------------------------------------------------------------
os_critical_on ==
  /\ irq_flags' = ie
  /\ ie' = FALSE

\* Mutant: leaving a section enables interrupts.
os_critical_off_sti ==
  /\ ie' = TRUE
  /\ UNCHANGED irq_flags

os_critical_off ==
  /\ ie' = irq_flags
  /\ UNCHANGED irq_flags

EnterOuter(f) ==
  /\ outer = "none"
  /\ os_critical_on
  /\ outer' = f
  /\ outerIe' = ie
  /\ UNCHANGED <<inner, innerIe, restored>>

LeaveOuter ==
  /\ inner = "none"
  /\ os_critical_off
  /\ outer' = "none"
  /\ restored' = (ie' = outerIe)
  /\ UNCHANGED <<inner, outerIe, innerIe>>

EnterInner(f) ==
  /\ inner = "none"
  /\ os_critical_on
  /\ inner' = f
  /\ innerIe' = ie
  /\ UNCHANGED <<outer, outerIe, restored>>

LeaveInner ==
  /\ os_critical_off
  /\ inner' = "none"
  /\ restored' = (ie' = innerIe)
  /\ UNCHANGED <<outer, outerIe, innerIe>>

-----------------------------------------------------------------------------
(* halSend(), called by the network stack with interrupts on or off.       *)

SendEnter ==
  /\ rxPhase = "out"
  /\ EnterOuter("halSend")
  /\ TxIntThreshold' = TxIntThreshold - 1
  /\ UNCHANGED <<rxPhase, NeedsCount>>

SendCallsTxInt ==
  /\ outer = "halSend" /\ TxIntThreshold <= 0
  /\ EnterInner("TxInt")
  /\ UNCHANGED <<rxPhase, TxIntThreshold, NeedsCount>>

TxIntBackInSend ==
  /\ inner = "TxInt"
  /\ LeaveInner
  /\ TxIntThreshold' = TxServiceMax
  /\ UNCHANGED <<rxPhase, NeedsCount>>

SendReturn ==
  /\ outer = "halSend" /\ TxIntThreshold > 0
  /\ LeaveOuter
  /\ UNCHANGED <<rxPhase, TxIntThreshold, NeedsCount>>

-----------------------------------------------------------------------------
(* halIsr() in the tasklet, which the kernel runs with interrupts on.      *)

IsrTxInt ==
  /\ rxPhase = "out" /\ ie
  /\ EnterOuter("TxInt")
  /\ UNCHANGED <<rxPhase, TxIntThreshold, NeedsCount>>

TxIntBackInIsr ==
  /\ outer = "TxInt"
  /\ LeaveOuter
  /\ UNCHANGED <<rxPhase, TxIntThreshold, NeedsCount>>

IsrRxInt ==
  /\ outer = "none" /\ rxPhase = "out" /\ ie
  /\ rxPhase' = IF NeedsCount > 0 THEN "NeedsCheck" ELSE "RxInt"
  /\ UNCHANGED <<ie, irq_flags, outer, inner, outerIe, innerIe,
                 TxIntThreshold, NeedsCount, restored>>

NeedsCheckEnter ==
  /\ rxPhase = "NeedsCheck"
  /\ EnterOuter("NeedsCheck")
  /\ UNCHANGED <<rxPhase, TxIntThreshold, NeedsCount>>

\* halRxReturn() finds a buffer for the RCB and queues it ...
NeedsCheckGood ==
  /\ outer = "NeedsCheck" /\ NeedsCount > 0
  /\ EnterInner("AddToRxQueue")
  /\ NeedsCount' = NeedsCount - 1
  /\ UNCHANGED <<rxPhase, TxIntThreshold>>

AddBackInNeedsCheck ==
  /\ inner = "AddToRxQueue"
  /\ LeaveInner
  /\ UNCHANGED <<rxPhase, TxIntThreshold, NeedsCount>>

\* ... or puts it back on the list, which ends the loop as an empty list does.
NeedsCheckReturn ==
  /\ outer = "NeedsCheck"
  /\ LeaveOuter
  /\ rxPhase' = "RxInt"
  /\ UNCHANGED <<TxIntThreshold, NeedsCount>>

\* A packet was passed up: its RCB is queued with a new buffer, or needs one.
ReturnQueues ==
  /\ rxPhase = "RxInt"
  /\ EnterOuter("AddToRxQueue")
  /\ UNCHANGED <<rxPhase, TxIntThreshold, NeedsCount>>

AddBackInRxInt ==
  /\ outer = "AddToRxQueue"
  /\ LeaveOuter
  /\ UNCHANGED <<rxPhase, TxIntThreshold, NeedsCount>>

ReturnNeeds ==
  /\ rxPhase = "RxInt" /\ outer = "none" /\ NeedsCount < MaxNeeds
  /\ NeedsCount' = NeedsCount + 1
  /\ UNCHANGED <<ie, irq_flags, outer, inner, outerIe, innerIe, rxPhase,
                 TxIntThreshold, restored>>

\* The kernel restores its own interrupt state after the tasklet.
RxIntReturn ==
  /\ rxPhase = "RxInt" /\ outer = "none"
  /\ rxPhase' = "out"
  /\ ie' = TRUE
  /\ UNCHANGED <<irq_flags, outer, inner, outerIe, innerIe, TxIntThreshold,
                 NeedsCount, restored>>

\* Outside the driver the kernel turns interrupts on and off.
KernelSetsIe ==
  /\ outer = "none" /\ rxPhase = "out"
  /\ ie' = ~ie
  /\ UNCHANGED <<irq_flags, outer, inner, outerIe, innerIe, rxPhase,
                 TxIntThreshold, NeedsCount, restored>>

CSNext ==
  \/ SendEnter \/ SendCallsTxInt \/ TxIntBackInSend \/ SendReturn
  \/ IsrTxInt \/ TxIntBackInIsr \/ IsrRxInt
  \/ NeedsCheckEnter \/ NeedsCheckGood \/ AddBackInNeedsCheck \/ NeedsCheckReturn
  \/ ReturnQueues \/ AddBackInRxInt \/ ReturnNeeds \/ RxIntReturn
  \/ KernelSetsIe

CSSpec == CSInit /\ [][CSNext]_csVars

-----------------------------------------------------------------------------
(* Properties                                                              *)

\* Interrupts are off as long as any section is open.  The nested sections of
\* halSend() and NeedsCheck() share irq_flags, so the end of the inner one could
\* turn interrupts on in the middle of the outer one.
SectionsMasked == outer # "none" => ~ie

\* A section leaves interrupts as it found them: local_irq_save() and
\* local_irq_restore() "are reentrant; saving the previous state in their one
\* unsigned long flags argument" (Documentation/DocBook/kernel-hacking.tmpl).
InterruptsRestored == restored

\* What makes the first property inductive: the state an inner section saved
\* is that of the outer one, with interrupts off ...
NestedSavesOff ==
  /\ inner # "none" => outer # "none"
  /\ inner # "none" => irq_flags = FALSE

\* ... and halSend() reloads its threshold before it returns.
ThresholdReloaded ==
  /\ TxIntThreshold \in 0 .. TxServiceMax
  /\ TxIntThreshold = 0 => outer = "halSend"

=============================================================================
