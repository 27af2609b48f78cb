----------------------------- MODULE MdioProofs -----------------------------
(***************************************************************************)
(* The link state machine for every set of modes, partners and cables,     *)
(* every time-out and any number of events: the types hold, every change   *)
(* of the link that is not hidden by a host error has been reported, and a *)
(* negotiated link runs in the best common mode.                           *)
(*                                                                         *)
(* Reported needs one more fact, that a device without a carrier has no    *)
(* mode.  LinkedIsAgreed needs the history of a negotiation: while the     *)
(* machine trusts one, the PHY has not been set to a fixed mode; a link    *)
(* that is up follows a finished negotiation with a common mode; and one   *)
(* that begins anew under a machine in LINKED does not finish before the   *)
(* next tick, which sees the link down.                                    *)
(***************************************************************************)
EXTENDS Mdio, TLAPS

-----------------------------------------------------------------------------
(* The invariant.                                                          *)

Negotiated == {"NWAY_START", "NWAY_WAIT", "LINK_WAIT", "LINKED"}

\* Without a carrier the device shows no mode.
NoStaleMode == ~carrier => link_mode = NoLink

\* A machine that negotiates, or has negotiated, has not turned that off.
NwayOn == (p.auto /\ p.state \in Negotiated) => d.nway # "off"

\* A negotiated link is up only after the negotiation found a common mode.
LinkHasCommon ==
  (d.link /\ d.nway # "off") => (d.nway = "done" /\ d.adv \cap partner # {})

\* The negotiation that LINK_WAIT relies on is over.
WaitIsSettled ==
  (p.auto /\ ~swapped /\ p.state = "LINK_WAIT") => d.nway = "done"

\* A negotiation that begins anew below LINKED has not lasted a tick.
RestartIsFresh == (p.auto /\ p.state = "LINKED" /\ d.nway # "done") => ~seen

\* The mode that was noted is the best one that both ends have.
ModeIsBest ==
  (p.auto /\ ~swapped /\ p.state \in {"LINK_WAIT", "LINKED"} /\ d.link)
    => p.mode = Max(d.adv \cap partner)

NwayInv == NwayOn /\ LinkHasCommon /\ WaitIsSettled /\ RestartIsFresh /\ ModeIsBest

IInv == TypeOK /\ NoStaleMode /\ Reported /\ NwayInv

-----------------------------------------------------------------------------
(* The types of the two records, and the modes that are chosen.            *)

TimeOuts == {FIND_TO, RECK_TO, LINK_TO, NWST_TO, NWDN_TO, MDIX_TO}

Ticks == 0 .. Max(TimeOuts)

PhyDev(F) ==
  [state : PhyStates, mode : Mode, tim : Ticks, auto : BOOLEAN, modes : SUBSET Mode,
   chng : BOOLEAN, flip : F, mdix : BOOLEAN, amdix : BOOLEAN]

Phy ==
  [alive : BOOLEAN, capable : BOOLEAN, nway : {"off", "start", "busy", "done"},
   adv : SUBSET Mode, forced : Mode, link : BOOLEAN, low : BOOLEAN]

\* The best of some modes is one of them, and none of the others is better.
LEMMA MaxOfModes ==
  ASSUME NEW S \in SUBSET Mode, S # {}
  PROVE  Max(S) \in S /\ \A x \in S : Max(S) >= x
<1>1. Mode = {1, 2, 3, 4}
  BY DEF Mode, HD10, FD100
<1>2. \E x \in S : \A y \in S : x >= y
  <2>1. CASE 4 \in S BY <1>1, <2>1
  <2>2. CASE 4 \notin S /\ 3 \in S BY <1>1, <2>2
  <2>3. CASE 4 \notin S /\ 3 \notin S /\ 2 \in S BY <1>1, <2>3
  <2>4. CASE 4 \notin S /\ 3 \notin S /\ 2 \notin S
    <3>1. \A x \in S : x = 1 BY <1>1, <2>4
    <3> QED BY <3>1
  <2> QED BY <2>1, <2>2, <2>3, <2>4
<1> QED BY <1>2 DEF Max

\* The mode without a negotiation is a mode.
LEMMA HalfDuplex == HD10 \in Mode
  BY DEF Mode, HD10, FD100

\* Best() of a set of modes is a mode.
LEMMA BestIsMode == ASSUME NEW S \in SUBSET Mode PROVE Best(S) \in Mode
<1>1. S \cup {HD10} \in SUBSET Mode /\ S \cup {HD10} # {}
  BY DEF Mode, HD10, FD100
<1> QED BY <1>1, MaxOfModes DEF Best

\* The mode of a finished negotiation is a mode, or 0.
LEMMA NegModeIsMode == ASSUME d \in Phy PROVE NegMode \in Mode \cup {0}
<1> DEFINE common == d.adv \cap partner
           neg == IF common # {} THEN common ELSE {HD100, HD10} \cap d.adv
<1>1. neg \in SUBSET Mode
  BY DEF Phy
<1>2. neg # {} => Max(neg) \in Mode
  BY <1>1, MaxOfModes
<1> QED BY <1>2 DEF NegMode

\* Every time-out is within the range of the timer.
LEMMA TicksHold ==
  /\ TimeOuts \subseteq Ticks /\ 0 \in Ticks
  /\ \A t \in Ticks : t \in Nat /\ (t > 0 => t - 1 \in Ticks)
<1>1. TimeOuts \subseteq Nat /\ TimeOuts # {}
  BY MdioAssumption DEF TimeOuts
<1>2. \E x \in TimeOuts : \A y \in TimeOuts : x >= y
  BY <1>1 DEF TimeOuts
<1>3. Max(TimeOuts) \in TimeOuts /\ \A y \in TimeOuts : Max(TimeOuts) >= y
  BY <1>2 DEF Max
<1>4. PICK m \in Nat : m = Max(TimeOuts)
  BY <1>1, <1>3
<1>5. TimeOuts \subseteq 0 .. m
  BY <1>1, <1>3, <1>4
<1>6. 0 \in 0 .. m /\ \A t \in 0 .. m : t \in Nat /\ (t > 0 => t - 1 \in 0 .. m)
  BY <1>4
<1> QED BY <1>4, <1>5, <1>6 DEF Ticks

-----------------------------------------------------------------------------
(* One step of the machine: q is the new PhyDev, e the new PHY.            *)

Typed == p \in PhyDev({FALSE}) /\ d \in Phy

\* The timer of a state counts down, or a time-out asks for the other cable.
LEMMA WaitIsTyped ==
  ASSUME p \in PhyDev({FALSE})
  PROVE  /\ Wait(p) \in PhyDev(BOOLEAN)
         /\ Wait(p).auto = p.auto /\ Wait(p).mode = p.mode /\ Wait(p).chng = p.chng
         /\ Wait(p).state = p.state \/ Wait(p).state = "FOUND"
<1>1. p.tim \in Ticks /\ p.tim \in Nat /\ (p.tim > 0 => p.tim - 1 \in Ticks)
  BY TicksHold DEF PhyDev
<1>2. CASE p.tim > 0
  BY <1>1, <1>2 DEF Wait, PhyDev
<1>3. CASE ~(p.tim > 0)
  BY <1>3 DEF Wait, PhyTimeOut, PhyDev, PhyStates
<1> QED BY <1>2, <1>3

\* MdixDelay() only sets the timer.
LEMMA MdixDelayIsTyped ==
  ASSUME NEW q \in PhyDev({FALSE})
  PROVE  /\ MdixDelay(q) \in PhyDev({FALSE})
         /\ MdixDelay(q).state = q.state /\ MdixDelay(q).auto = q.auto
         /\ MdixDelay(q).mode = q.mode /\ MdixDelay(q).chng = q.chng
  BY TicksHold DEF MdixDelay, PhyDev, TimeOuts

\* Reading the status register changes the latch alone.
LEMMA ReadStatusIsTyped ==
  ASSUME d \in Phy
  PROVE  /\ ReadStatus(d) \in Phy
         /\ ReadStatus(d).link = d.link /\ ReadStatus(d).nway = d.nway
         /\ ReadStatus(d).adv = d.adv
  BY DEF ReadStatus, Phy

\* What the step of each state gives: its state, what it notes and what it does
\* to the registers that the negotiation is about.
StepOf(q, e) ==
  /\ q \in PhyDev(BOOLEAN) /\ e \in Phy
  /\ q.state # "INIT"
  /\ \/ /\ p.state = "INIT" /\ q.state = "FINDING" /\ q.chng /\ e = d
     \/ /\ p.state = "FINDING" /\ e = d
        /\ q.state \in {"FINDING", "FOUND"}
        /\ ~q.chng => ~p.chng
     \/ /\ p.state = "FOUND" /\ q = p /\ e = d
     \/ /\ p.state = "FOUND" /\ q.state = "NWAY_START" /\ q.chng
        /\ ~e.link /\ e.nway = "start"
     \/ /\ p.state = "FOUND" /\ q.state = "LINK_WAIT" /\ q.chng /\ ~q.auto
        /\ ~e.link
     \/ /\ p.state = "NWAY_START" /\ e.link = d.link /\ e.nway = d.nway /\ e.adv = d.adv
        /\ q.state \in {"NWAY_START", "NWAY_WAIT", "FOUND"} /\ q.auto = p.auto
        /\ ~q.chng => ~p.chng
     \/ /\ p.state = "NWAY_WAIT" /\ e.link = d.link /\ e.nway = d.nway /\ e.adv = d.adv
        /\ q.auto = p.auto
        /\ ~q.chng => ~p.chng
        /\ \/ q.state \in {"NWAY_WAIT", "FOUND"}
           \/ /\ q.state \in {"LINK_WAIT", "LINKED"} /\ q.chng
              /\ d.nway = "done" /\ q.mode = NegMode
              /\ q.state = "LINKED" => d.link
     \/ /\ p.state = "LINK_WAIT" /\ e.link = d.link /\ e.nway = d.nway /\ e.adv = d.adv
        /\ q.auto = p.auto /\ q.mode = p.mode
        /\ ~q.chng => ~p.chng
        /\ \/ q.state \in {"LINK_WAIT", "FOUND"}
           \/ q.state = "LINKED" /\ q.chng /\ d.link
     \/ /\ p.state = "LINKED" /\ q = p /\ e = d /\ d.link
     \/ /\ p.state = "LINKED" /\ e = d /\ q.auto = p.auto /\ q.chng
        /\ q.state = IF p.auto THEN "NWAY_WAIT" ELSE "LINK_WAIT"

\* A tick takes the step of the state that the machine is in.
LEMMA StepCases == ASSUME Typed PROVE StepOf(StateStep[1], StateStep[2])
<1> USE DEF Typed
<1>0. p.state \in PhyStates
  BY DEF PhyDev
<1>1. CASE p.state = "INIT"
  <2>1. StateStep = InitState
    BY <1>1 DEF StateStep
  <2>2. FIND_TO \in Ticks
    BY TicksHold DEF TimeOuts
  <2> DEFINE q1 == [p EXCEPT !.tim = FIND_TO, !.state = "FINDING", !.mode = HD10, !.chng = TRUE]
  <2>3. q1 \in PhyDev(BOOLEAN)
    BY <2>2, HalfDuplex DEF PhyDev, PhyStates
  <2>4. q1.state = "FINDING" /\ q1.chng
    BY DEF PhyDev
  <2>5. InitState = <<q1, d>>
    BY DEF InitState
  <2> HIDE DEF q1
  <2> QED BY <1>1, <2>1, <2>3, <2>4, <2>5 DEF StepOf
<1>2. CASE p.state = "FINDING"
  <2>1. StateStep = FindingState
    BY <1>2 DEF StateStep
  <2>2. RECK_TO \in Ticks /\ p.tim \in Ticks /\ p.tim \in Nat /\ (p.tim > 0 => p.tim - 1 \in Ticks)
    BY TicksHold DEF TimeOuts, PhyDev
  <2> QED BY <1>2, <2>1, <2>2 DEF FindingState, StepOf, PhyDev, PhyStates
<1>3. CASE p.state = "FOUND"
  <2>1. StateStep = FoundState
    BY <1>3 DEF StateStep
  <2>2. NWST_TO \in Ticks /\ LINK_TO \in Ticks
    BY TicksHold DEF TimeOuts
  <2> DEFINE reset == [d EXCEPT !.link = FALSE, !.low = TRUE, !.nway = "off"]
             q1 == [p EXCEPT !.state = "NWAY_START", !.tim = NWST_TO, !.chng = TRUE]
             q2 == [p EXCEPT !.auto = FALSE, !.mode = Best(p.modes), !.state = "LINK_WAIT",
                             !.tim = LINK_TO, !.chng = TRUE]
  <2>3. CASE ~p.auto /\ p.modes = {}
    <3>1. FoundState = <<p, d>>
      BY <2>3 DEF FoundState
    <3> QED BY <1>3, <2>1, <3>1 DEF StepOf, PhyDev
  <2>4. CASE ~(~p.auto /\ p.modes = {}) /\ p.auto /\ d.capable
    <3>1. FoundState = <<MdixDelay(q1), [reset EXCEPT !.adv = p.modes, !.nway = "start"]>>
      BY <2>4 DEF FoundState
    <3>2. q1 \in PhyDev({FALSE}) /\ q1.state = "NWAY_START" /\ q1.chng
      BY <2>2 DEF PhyDev, PhyStates
    <3>3. MdixDelay(q1) \in PhyDev({FALSE}) /\ MdixDelay(q1).state = "NWAY_START" /\ MdixDelay(q1).chng
      BY <3>2, MdixDelayIsTyped
    <3>4. MdixDelay(q1) \in PhyDev(BOOLEAN)
      BY <3>3 DEF PhyDev
    <3>5. /\ [reset EXCEPT !.adv = p.modes, !.nway = "start"] \in Phy
          /\ ~[reset EXCEPT !.adv = p.modes, !.nway = "start"].link
          /\ [reset EXCEPT !.adv = p.modes, !.nway = "start"].nway = "start"
      BY DEF Phy, PhyDev
    <3> HIDE DEF q1, reset
    <3> QED BY <1>3, <2>1, <3>1, <3>3, <3>4, <3>5 DEF StepOf
  <2>5. CASE ~(~p.auto /\ p.modes = {}) /\ ~(p.auto /\ d.capable)
    <3>0. Best(p.modes) \in Mode
      BY BestIsMode DEF PhyDev
    <3>1. FoundState = <<MdixDelay(q2), [reset EXCEPT !.forced = Best(p.modes)]>>
      BY <2>5 DEF FoundState
    <3>2. q2 \in PhyDev({FALSE}) /\ q2.state = "LINK_WAIT" /\ q2.chng /\ ~q2.auto
      BY <2>2, <3>0 DEF PhyDev, PhyStates
    <3>3. /\ MdixDelay(q2) \in PhyDev({FALSE}) /\ MdixDelay(q2).state = "LINK_WAIT"
          /\ MdixDelay(q2).chng /\ ~MdixDelay(q2).auto
      BY <3>2, MdixDelayIsTyped
    <3>4. MdixDelay(q2) \in PhyDev(BOOLEAN)
      BY <3>3 DEF PhyDev
    <3>5. /\ [reset EXCEPT !.forced = Best(p.modes)] \in Phy
          /\ ~[reset EXCEPT !.forced = Best(p.modes)].link
      BY <3>0 DEF Phy
    <3> HIDE DEF q2, reset
    <3> QED BY <1>3, <2>1, <3>1, <3>3, <3>4, <3>5 DEF StepOf
  <2> QED BY <2>3, <2>4, <2>5
<1>4. CASE p.state = "NWAY_START"
  <2>1. StateStep = NwayStartState
    BY <1>4 DEF StateStep
  <2>2. NWDN_TO \in Ticks
    BY TicksHold DEF TimeOuts
  <2> DEFINE q1 == [p EXCEPT !.state = "NWAY_WAIT", !.tim = NWDN_TO, !.chng = TRUE]
  <2>3. CASE d.nway # "start"
    <3>1. q1 \in PhyDev({FALSE}) /\ q1.state = "NWAY_WAIT" /\ q1.chng /\ q1.auto = p.auto
      BY <2>2 DEF PhyDev, PhyStates
    <3>2. /\ MdixDelay(q1) \in PhyDev({FALSE}) /\ MdixDelay(q1).state = "NWAY_WAIT"
          /\ MdixDelay(q1).chng /\ MdixDelay(q1).auto = p.auto
      BY <3>1, MdixDelayIsTyped
    <3>3. MdixDelay(q1) \in PhyDev(BOOLEAN)
      BY <3>2 DEF PhyDev
    <3>4. NwayStartState = <<MdixDelay(q1), ReadStatus(d)>>
      BY <2>3 DEF NwayStartState
    <3> HIDE DEF q1
    <3> QED BY <1>4, <2>1, <3>2, <3>3, <3>4, ReadStatusIsTyped DEF StepOf
  <2>4. CASE d.nway = "start"
    <3>1. NwayStartState = <<Wait(p), d>>
      BY <2>4 DEF NwayStartState
    <3> QED BY <1>4, <2>1, <3>1, WaitIsTyped DEF StepOf
  <2> QED BY <2>3, <2>4
<1>5. CASE p.state = "NWAY_WAIT"
  <2>1. StateStep = NwayWaitState
    BY <1>5 DEF StateStep
  <2>2. NegMode \in Mode \cup {0}
    BY NegModeIsMode
  <2>3. CASE d.nway # "done"
    <3>1. NwayWaitState = <<Wait(p), ReadStatus(d)>>
      BY <2>3 DEF NwayWaitState
    <3> QED BY <1>5, <2>1, <3>1, WaitIsTyped, ReadStatusIsTyped DEF StepOf
  <2>4. CASE d.nway = "done" /\ NegMode = 0
    <3>1. NwayWaitState = <<[p EXCEPT !.chng = TRUE, !.mode = HD10], ReadStatus(d)>>
      BY <2>4 DEF NwayWaitState
    <3>2. [p EXCEPT !.chng = TRUE, !.mode = HD10] \in PhyDev(BOOLEAN)
      BY HalfDuplex DEF PhyDev
    <3>3. /\ [p EXCEPT !.chng = TRUE, !.mode = HD10].state = "NWAY_WAIT"
          /\ [p EXCEPT !.chng = TRUE, !.mode = HD10].chng
          /\ [p EXCEPT !.chng = TRUE, !.mode = HD10].auto = p.auto
      BY <1>5 DEF PhyDev
    <3> QED BY <1>5, <2>1, <3>1, <3>2, <3>3, ReadStatusIsTyped DEF StepOf
  <2>5. CASE d.nway = "done" /\ NegMode # 0
    <3> DEFINE q1 == [p EXCEPT !.chng = TRUE, !.mode = NegMode,
                               !.state = IF LinkBit THEN "LINKED" ELSE "LINK_WAIT"]
    <3>1. NwayWaitState = <<q1, ReadStatus(d)>>
      BY <2>5 DEF NwayWaitState
    <3>2. q1 \in PhyDev(BOOLEAN)
      BY <2>2, <2>5 DEF PhyDev, PhyStates
    <3>3. /\ q1.state \in {"LINK_WAIT", "LINKED"} /\ q1.chng /\ q1.mode = NegMode
          /\ q1.auto = p.auto /\ (q1.state = "LINKED" => d.link)
      BY DEF PhyDev, LinkBit
    <3> HIDE DEF q1
    <3> QED BY <1>5, <2>1, <2>5, <3>1, <3>2, <3>3, ReadStatusIsTyped DEF StepOf
  <2> QED BY <2>3, <2>4, <2>5
<1>6. CASE p.state = "LINK_WAIT"
  <2>1. StateStep = LinkWaitState
    BY <1>6 DEF StateStep
  <2>2. CASE LinkBit
    <3>1. LinkWaitState = <<[p EXCEPT !.state = "LINKED", !.chng = TRUE], ReadStatus(d)>>
      BY <2>2 DEF LinkWaitState
    <3>2. [p EXCEPT !.state = "LINKED", !.chng = TRUE] \in PhyDev(BOOLEAN)
      BY DEF PhyDev, PhyStates
    <3>3. /\ [p EXCEPT !.state = "LINKED", !.chng = TRUE].state = "LINKED"
          /\ [p EXCEPT !.state = "LINKED", !.chng = TRUE].chng
          /\ [p EXCEPT !.state = "LINKED", !.chng = TRUE].auto = p.auto
          /\ [p EXCEPT !.state = "LINKED", !.chng = TRUE].mode = p.mode
      BY DEF PhyDev
    <3>4. d.link
      BY <2>2 DEF LinkBit
    <3> QED BY <1>6, <2>1, <3>1, <3>2, <3>3, <3>4, ReadStatusIsTyped DEF StepOf
  <2>3. CASE ~LinkBit
    <3>1. LinkWaitState = <<Wait(p), ReadStatus(d)>>
      BY <2>3 DEF LinkWaitState
    <3> QED BY <1>6, <2>1, <3>1, WaitIsTyped, ReadStatusIsTyped DEF StepOf
  <2> QED BY <2>2, <2>3
<1>7. CASE p.state = "LINKED"
  <2>1. StateStep = LinkedState
    BY <1>7 DEF StateStep
  <2>2. NWDN_TO \in Ticks /\ LINK_TO \in Ticks
    BY TicksHold DEF TimeOuts
  <2> DEFINE q1 == [p EXCEPT !.chng = TRUE, !.state = "NWAY_WAIT", !.tim = NWDN_TO]
             q2 == [p EXCEPT !.chng = TRUE, !.state = "LINK_WAIT", !.tim = LINK_TO]
  <2>3. CASE d.link
    <3>1. LinkedState = <<p, d>>
      BY <2>3 DEF LinkedState
    <3> QED BY <1>7, <2>1, <2>3, <3>1 DEF StepOf, PhyDev
  <2>4. CASE ~d.link /\ p.auto
    <3>1. LinkedState = <<MdixDelay(q1), d>>
      BY <2>4 DEF LinkedState
    <3>2. q1 \in PhyDev({FALSE}) /\ q1.state = "NWAY_WAIT" /\ q1.chng /\ q1.auto = p.auto
      BY <2>2 DEF PhyDev, PhyStates
    <3>3. /\ MdixDelay(q1) \in PhyDev({FALSE}) /\ MdixDelay(q1).state = "NWAY_WAIT"
          /\ MdixDelay(q1).chng /\ MdixDelay(q1).auto = p.auto
      BY <3>2, MdixDelayIsTyped
    <3>4. MdixDelay(q1) \in PhyDev(BOOLEAN)
      BY <3>3 DEF PhyDev
    <3> HIDE DEF q1
    <3> QED BY <1>7, <2>1, <2>4, <3>1, <3>3, <3>4 DEF StepOf
  <2>5. CASE ~d.link /\ ~p.auto
    <3>1. LinkedState = <<MdixDelay(q2), d>>
      BY <2>5 DEF LinkedState
    <3>2. q2 \in PhyDev({FALSE}) /\ q2.state = "LINK_WAIT" /\ q2.chng /\ q2.auto = p.auto
      BY <2>2 DEF PhyDev, PhyStates
    <3>3. /\ MdixDelay(q2) \in PhyDev({FALSE}) /\ MdixDelay(q2).state = "LINK_WAIT"
          /\ MdixDelay(q2).chng /\ MdixDelay(q2).auto = p.auto
      BY <3>2, MdixDelayIsTyped
    <3>4. MdixDelay(q2) \in PhyDev(BOOLEAN)
      BY <3>3 DEF PhyDev
    <3> HIDE DEF q2
    <3> QED BY <1>7, <2>1, <2>5, <3>1, <3>3, <3>4 DEF StepOf
  <2> QED BY <2>3, <2>4, <2>5
<1> QED BY <1>0, <1>1, <1>2, <1>3, <1>4, <1>5, <1>6, <1>7 DEF PhyStates

-----------------------------------------------------------------------------
(* A tick keeps the invariant.                                             *)

\* The types, with the two records named.
Rest ==
  /\ phyMdix \in BOOLEAN /\ cross \in BOOLEAN /\ seen \in BOOLEAN /\ swapped \in BOOLEAN
  /\ Linked \in BOOLEAN /\ HostErr \in BOOLEAN /\ carrier \in BOOLEAN /\ stopped \in BOOLEAN
  /\ partner \in Partners
  /\ mac \in Mode /\ link_mode \in Mode \cup {NoLink}
  /\ events \in 0 .. MaxEvents

\* TypeOK in two parts.
LEMMA TypeParts == TypeOK <=> Typed /\ Rest
<1>1. Max({FIND_TO, RECK_TO, LINK_TO, NWST_TO, NWDN_TO, MDIX_TO}) = Max(TimeOuts)
  BY DEF TimeOuts
<1>2. ({phyMdix, cross, seen, swapped, Linked, HostErr, carrier, stopped} \subseteq BOOLEAN)
        <=> (/\ phyMdix \in BOOLEAN /\ cross \in BOOLEAN /\ seen \in BOOLEAN
             /\ swapped \in BOOLEAN /\ Linked \in BOOLEAN /\ HostErr \in BOOLEAN
             /\ carrier \in BOOLEAN /\ stopped \in BOOLEAN)
  OBVIOUS
<1> QED BY <1>1, <1>2 DEF TypeOK, Typed, Rest, PhyDev, Phy, Ticks

\* What a tick does to the machine and to the network device.
LEMMA TickCases ==
  ASSUME Typed, Rest, halTick
  PROVE  \E q, e :
           /\ StepOf(q, e) /\ d' = e
           /\ p' \in PhyDev({FALSE})
           /\ p'.state = q.state /\ p'.mode = q.mode /\ p'.auto = q.auto
           /\ seen' = TRUE
           /\ swapped' <=> swapped /\ q.state \in {"LINK_WAIT", "LINKED"}
           /\ phyMdix' \in BOOLEAN
           /\ UNCHANGED <<partner, cross, HostErr, events>>
           /\ \/ /\ p'.chng = q.chng
                 /\ UNCHANGED <<Linked, mac, net>>
                 /\ q.flip \/ ~q.chng
              \/ /\ q.chng /\ ~p'.chng
                 /\ DuplexUpdate(q)
                 /\ StatusInd(q.state = "LINKED", q)
<1>1. PICK q, e : q = StateStep[1] /\ e = StateStep[2]
  OBVIOUS
<1>2. StepOf(q, e)
  BY <1>1, StepCases
<1>3. q \in PhyDev(BOOLEAN)
  BY <1>2 DEF StepOf
<1>4. /\ d' = e /\ seen' = TRUE
      /\ swapped' = (swapped /\ q.state \in {"LINK_WAIT", "LINKED"})
      /\ \/ /\ q.flip
            /\ p' = [q EXCEPT !.flip = FALSE]
            /\ phyMdix' = q.mdix
            /\ UNCHANGED <<Linked, mac, net>>
         \/ /\ ~q.flip /\ q.chng
            /\ p' = [q EXCEPT !.chng = FALSE]
            /\ DuplexUpdate(q)
            /\ StatusInd(q.state = "LINKED", q)
            /\ UNCHANGED phyMdix
         \/ /\ ~q.flip /\ ~q.chng
            /\ p' = q
            /\ UNCHANGED <<phyMdix, Linked, mac, net>>
      /\ UNCHANGED <<partner, cross, HostErr, events>>
  BY <1>1 DEF halTick
<1>5. swapped' <=> swapped /\ q.state \in {"LINK_WAIT", "LINKED"}
  BY <1>4
<1>6. CASE /\ q.flip
           /\ p' = [q EXCEPT !.flip = FALSE]
           /\ phyMdix' = q.mdix
           /\ UNCHANGED <<Linked, mac, net>>
  <2>1. /\ p' \in PhyDev({FALSE}) /\ phyMdix' \in BOOLEAN
        /\ p'.state = q.state /\ p'.mode = q.mode /\ p'.auto = q.auto /\ p'.chng = q.chng
    BY <1>3, <1>6 DEF PhyDev
  <2> QED BY <1>2, <1>4, <1>5, <1>6, <2>1
<1>7. CASE /\ ~q.flip /\ q.chng
           /\ p' = [q EXCEPT !.chng = FALSE]
           /\ DuplexUpdate(q)
           /\ StatusInd(q.state = "LINKED", q)
           /\ UNCHANGED phyMdix
  <2>1. /\ p' \in PhyDev({FALSE}) /\ phyMdix' \in BOOLEAN
        /\ p'.state = q.state /\ p'.mode = q.mode /\ p'.auto = q.auto /\ ~p'.chng
    BY <1>3, <1>7 DEF PhyDev, Rest
  <2> QED BY <1>2, <1>4, <1>5, <1>7, <2>1
<1>8. CASE /\ ~q.flip /\ ~q.chng
           /\ p' = q
           /\ UNCHANGED <<phyMdix, Linked, mac, net>>
  <2>1. p' \in PhyDev({FALSE}) /\ phyMdix' \in BOOLEAN
    BY <1>3, <1>8 DEF PhyDev, Rest
  <2> QED BY <1>2, <1>4, <1>5, <1>8, <2>1
<1> QED BY <1>4, <1>6, <1>7, <1>8

\* A tick reports what it found, or finds what was reported.
LEMMA TickReports ==
  ASSUME Typed, Rest, NoStaleMode, Reported, halTick
  PROVE  Typed' /\ Rest' /\ NoStaleMode' /\ Reported'
<1>1. PICK q, e :
           /\ StepOf(q, e) /\ d' = e
           /\ p' \in PhyDev({FALSE})
           /\ p'.state = q.state /\ p'.mode = q.mode /\ p'.auto = q.auto
           /\ seen' = TRUE
           /\ swapped' <=> swapped /\ q.state \in {"LINK_WAIT", "LINKED"}
           /\ phyMdix' \in BOOLEAN
           /\ UNCHANGED <<partner, cross, HostErr, events>>
           /\ \/ /\ p'.chng = q.chng
                 /\ UNCHANGED <<Linked, mac, net>>
                 /\ q.flip \/ ~q.chng
              \/ /\ q.chng /\ ~p'.chng
                 /\ DuplexUpdate(q)
                 /\ StatusInd(q.state = "LINKED", q)
  BY TickCases
<1>2. Typed'
  BY <1>1 DEF Typed, StepOf
<1>3. q.mode \in Mode /\ q.chng \in BOOLEAN /\ p.chng \in BOOLEAN
  BY <1>1 DEF StepOf, PhyDev, Typed
<1>4. swapped' \in BOOLEAN
  BY <1>1, Zenon DEF halTick
<1>5. CASE /\ p'.chng = q.chng
           /\ UNCHANGED <<Linked, mac, net>>
           /\ q.flip \/ ~q.chng
  <2>1. Rest'
    BY <1>1, <1>4, <1>5 DEF Rest, net
  <2>2. NoStaleMode'
    BY <1>5 DEF NoStaleMode, net
  <2>3. ~q.chng => /\ ~p.chng /\ p.state # "INIT" /\ q.state # "INIT"
                   /\ (q.state = "LINKED") <=> (p.state = "LINKED")
                   /\ q.state = "LINKED" => q.mode = p.mode
    BY <1>1 DEF StepOf
  <2>4. Reported'
    BY <1>1, <1>5, <2>3 DEF Reported, net
  <2> QED BY <1>2, <2>1, <2>2, <2>4
<1>6. CASE /\ q.chng /\ ~p'.chng
           /\ DuplexUpdate(q)
           /\ StatusInd(q.state = "LINKED", q)
  <2>1. Linked' = (q.state = "LINKED") /\ mac' = (IF q.state = "LINKED" THEN q.mode ELSE mac)
    BY <1>6 DEF DuplexUpdate
  <2>2. CASE HostErr
    <3>1. UNCHANGED net
      BY <1>6, <2>2 DEF StatusInd
    <3>2. HostErr'
      BY <1>1, <2>2
    <3>3. Rest'
      BY <1>1, <1>3, <1>4, <2>1, <3>1 DEF Rest, net
    <3> QED BY <1>2, <3>1, <3>2, <3>3 DEF NoStaleMode, Reported, net
  <2>3. CASE ~HostErr
    <3>1. /\ carrier' = (q.state = "LINKED")
          /\ stopped' = ~(q.state = "LINKED")
          /\ link_mode' = IF q.state = "LINKED" THEN q.mode
                          ELSE IF carrier THEN NoLink ELSE link_mode
      BY <1>6, <2>3 DEF StatusInd
    <3>2. q.state # "LINKED" => link_mode' = NoLink
      BY <3>1 DEF NoStaleMode
    <3>3. Rest'
      BY <1>1, <1>3, <1>4, <2>1, <3>1 DEF Rest
    <3>4. NoStaleMode'
      BY <3>1, <3>2 DEF NoStaleMode
    <3>5. Reported'
      BY <1>1, <2>1, <3>1, <3>2 DEF Reported
    <3> QED BY <1>2, <3>3, <3>4, <3>5
  <2> QED BY <2>2, <2>3
<1> QED BY <1>1, <1>5, <1>6

\* A tick trusts a negotiation only where it has ended in a common mode.
LEMMA TickNegotiates ==
  ASSUME Typed, Rest, NwayInv, halTick
  PROVE  NwayInv'
<1>1. PICK q, e :
           /\ StepOf(q, e) /\ d' = e
           /\ p'.state = q.state /\ p'.mode = q.mode /\ p'.auto = q.auto
           /\ seen' = TRUE
           /\ swapped' <=> swapped /\ q.state \in {"LINK_WAIT", "LINKED"}
           /\ partner' = partner
  BY TickCases
<1>2. q.state = "LINKED" => e.link /\ d.link /\ e.nway = d.nway /\ e.adv = d.adv /\ q.auto = p.auto
  BY <1>1 DEF StepOf
<1>3. LinkHasCommon'
  BY <1>1 DEF StepOf, LinkHasCommon, NwayInv
<1>4. NwayOn'
  BY <1>1 DEF StepOf, NwayOn, NwayInv, Negotiated
<1>5. WaitIsSettled'
  BY <1>1 DEF StepOf, WaitIsSettled, NwayInv
<1>6. RestartIsFresh'
  BY <1>1, <1>2, <1>3, <1>4 DEF RestartIsFresh, LinkHasCommon, NwayOn, Negotiated
<1>7. ModeIsBest'
  <2>1. SUFFICES ASSUME q.auto, ~swapped', q.state \in {"LINK_WAIT", "LINKED"}, e.link
                 PROVE  q.mode = Max(e.adv \cap partner)
    BY <1>1 DEF ModeIsBest
  <2>2. ~swapped
    BY <1>1, <2>1
  <2>3. CASE p.state = "NWAY_WAIT"
    <3>1. d.link /\ d.nway = "done" /\ e.adv = d.adv /\ q.mode = NegMode
      BY <1>1, <2>1, <2>3 DEF StepOf
    <3>2. d.adv \cap partner # {}
      BY <3>1 DEF LinkHasCommon, NwayInv
    <3> QED BY <3>1, <3>2 DEF NegMode
  <2>4. CASE p.state # "NWAY_WAIT"
    <3>1. /\ p.state \in {"LINK_WAIT", "LINKED"} /\ p.auto /\ d.link
          /\ q.mode = p.mode /\ e.adv = d.adv
      BY <1>1, <2>1, <2>4 DEF StepOf
    <3> QED BY <2>2, <3>1 DEF ModeIsBest, NwayInv
  <2> QED BY <2>3, <2>4
<1> QED BY <1>3, <1>4, <1>5, <1>6, <1>7 DEF NwayInv

-----------------------------------------------------------------------------
(* The other actions.                                                      *)

\* A machine that is given new modes keeps its types, and leaves a state that
\* relies on the old ones with a change noted.
LEMMA SetPhyModeGives ==
  ASSUME NEW q \in PhyDev({FALSE}), NEW m \in [auto : BOOLEAN, modes : SUBSET Mode]
  PROVE  /\ SetPhyMode(q, m) \in PhyDev({FALSE})
         /\ SetPhyMode(q, m).state \in PhyStates \ Negotiated
         /\ \/ SetPhyMode(q, m).chng
            \/ /\ q.state \notin Negotiated /\ SetPhyMode(q, m).state = q.state
               /\ SetPhyMode(q, m).chng = q.chng
<1>1. CASE q.state \in {"NWAY_START", "NWAY_WAIT", "LINK_WAIT", "LINKED"}
  BY <1>1 DEF SetPhyMode, PhyDev, PhyStates, Negotiated
<1>2. CASE q.state \notin {"NWAY_START", "NWAY_WAIT", "LINK_WAIT", "LINKED"}
  BY <1>2 DEF SetPhyMode, PhyDev, PhyStates, Negotiated
<1> QED BY <1>1, <1>2

\* A new machine is in its first state with nothing noted.
LEMMA MdioInitGives ==
  ASSUME NEW m \in [auto : BOOLEAN, modes : SUBSET Mode], NEW am \in BOOLEAN
  PROVE  /\ MdioInit(m, am) \in PhyDev({FALSE})
         /\ MdioInit(m, am).state = "INIT" /\ ~MdioInit(m, am).chng
<1> DEFINE q == [state |-> "INIT", mode |-> HD10, tim |-> 0, auto |-> FALSE,
                 modes |-> {}, chng |-> FALSE, flip |-> FALSE, mdix |-> FALSE,
                 amdix |-> am]
<1>1. q \in PhyDev({FALSE})
  BY TicksHold, HalfDuplex DEF PhyDev, PhyStates
<1>2. MdioInit(m, am) = [q EXCEPT !.auto = m.auto, !.modes = m.modes]
  BY DEF MdioInit, SetPhyMode
<1> QED BY <1>1, <1>2 DEF PhyDev

\* Outside the states of a negotiation nothing is claimed but what the PHY knows.
LEMMA NoClaim ==
  ASSUME p.state \notin Negotiated, LinkHasCommon
  PROVE  NwayInv
  BY DEF NwayInv, NwayOn, WaitIsSettled, RestartIsFresh, ModeIsBest, Negotiated

\* The machine starts with the invariant.
LEMMA InitInv == Init => IInv
<1> SUFFICES ASSUME Init PROVE IInv
  OBVIOUS
<1>1. p \in PhyDev({FALSE}) /\ p.state = "INIT" /\ ~p.chng
  <2>1. PICK m \in ModeChoices, am \in BOOLEAN : p = MdioInit(m, am)
    BY DEF Init
  <2> QED BY <2>1, MdioInitGives, MdioAssumption
<1>2. d \in Phy /\ ~d.link
  BY HalfDuplex DEF Init, Phy
<1>3. Rest
  <2>1. mac \in Mode /\ events \in 0 .. MaxEvents
    BY MdioAssumption, HalfDuplex DEF Init
  <2>2. cross \in BOOLEAN
    BY MdioAssumption, Zenon DEF Init
  <2> QED BY <2>1, <2>2 DEF Init, Rest
<1>4. NwayInv
  BY <1>1, <1>2, NoClaim DEF Negotiated, LinkHasCommon
<1>5. NoStaleMode /\ Reported
  BY <1>1 DEF Init, NoStaleMode, Reported
<1> QED BY <1>1, <1>2, <1>3, <1>4, <1>5, TypeParts DEF IInv, Typed

\* New modes take effect at the next tick, which reports the link as lost.
LEMMA SetModeInv == IInv /\ MdioSetPhyMode => IInv'
<1> SUFFICES ASSUME IInv, MdioSetPhyMode PROVE IInv'
  OBVIOUS
<1>0. Typed /\ Rest
  BY TypeParts DEF IInv
<1>1. /\ p' \in PhyDev({FALSE})
      /\ p'.state \in PhyStates \ Negotiated
      /\ \/ p'.chng
         \/ p.state \notin Negotiated /\ p'.state = p.state /\ p'.chng = p.chng
  <2>1. PICK m \in ModeChoices : p' = SetPhyMode(p, m)
    BY DEF MdioSetPhyMode
  <2> QED BY <1>0, <2>1, SetPhyModeGives, MdioAssumption DEF Typed
<1>2. ~Linked' /\ Linked' \in BOOLEAN /\ mac' = mac
  BY <1>1 DEF MdioSetPhyMode, DuplexUpdate, Negotiated
<1>3. /\ UNCHANGED <<d, phyMdix, partner, cross, seen, swapped, HostErr, carrier, stopped, link_mode>>
      /\ events' = events + 1 /\ events < MaxEvents
  BY DEF MdioSetPhyMode, cable, net
<1>4. Typed' /\ Rest'
  BY <1>0, <1>1, <1>2, <1>3, MdioAssumption DEF Typed, Rest
<1>5. NwayInv'
  <2>1. LinkHasCommon'
    BY <1>3 DEF IInv, NwayInv, LinkHasCommon
  <2> QED BY <1>1, <2>1 DEF NwayInv, NwayOn, WaitIsSettled, RestartIsFresh, ModeIsBest, Negotiated
<1>6. NoStaleMode' /\ Reported'
  BY <1>1, <1>2, <1>3 DEF IInv, NoStaleMode, Reported, Negotiated
<1>7. TypeOK'
  BY <1>4, TypeParts, PTL
<1> QED BY <1>5, <1>6, <1>7 DEF IInv

\* A device that is opened again starts anew, whatever its PHY still does.
LEMMA ReopenInv == IInv /\ Reopen => IInv'
<1> SUFFICES ASSUME IInv, Reopen PROVE IInv'
  OBVIOUS
<1>0. Typed /\ Rest
  BY TypeParts DEF IInv
<1>1. p' \in PhyDev({FALSE}) /\ p'.state = "INIT" /\ ~p'.chng
  <2>1. [auto |-> p.auto, modes |-> p.modes] \in [auto : BOOLEAN, modes : SUBSET Mode]
    BY <1>0 DEF Typed, PhyDev
  <2>2. p.amdix \in BOOLEAN
    BY <1>0 DEF Typed, PhyDev
  <2> QED BY <2>1, <2>2, MdioInitGives DEF Reopen
<1>2. ~Linked' /\ Linked' \in BOOLEAN /\ mac' = mac
  BY <1>1 DEF Reopen, DuplexUpdate
<1>3. /\ UNCHANGED <<d, phyMdix, partner, cross, seen, swapped>>
      /\ ~HostErr' /\ HostErr' \in BOOLEAN /\ ~carrier' /\ carrier' \in BOOLEAN
      /\ stopped' \in BOOLEAN /\ link_mode' = NoLink
      /\ events' = events + 1 /\ events < MaxEvents
  BY DEF Reopen, cable
<1>4. Typed' /\ Rest'
  BY <1>0, <1>1, <1>2, <1>3, MdioAssumption DEF Typed, Rest
<1>5. NwayInv'
  <2>1. LinkHasCommon'
    BY <1>3 DEF IInv, NwayInv, LinkHasCommon
  <2> QED BY <1>1, <2>1 DEF NwayInv, NwayOn, WaitIsSettled, RestartIsFresh, ModeIsBest, Negotiated
<1>6. NoStaleMode' /\ Reported'
  BY <1>1, <1>2, <1>3 DEF NoStaleMode, Reported
<1>7. TypeOK'
  BY <1>4, TypeParts, PTL
<1> QED BY <1>5, <1>6, <1>7 DEF IInv

\* What neither the machine nor the driver does: the cable, the PHY's own steps
\* and a host error leave the machine and what it reported alone.
Outside ==
  /\ UNCHANGED <<p, phyMdix, Linked, mac, carrier, stopped, link_mode>>
  /\ partner' \in Partners /\ cross' \in BOOLEAN
  /\ d' \in Phy
  /\ seen' \in BOOLEAN /\ swapped' \in BOOLEAN /\ HostErr' \in BOOLEAN
  /\ ~HostErr' => ~HostErr
  /\ events' \in 0 .. MaxEvents

\* Such a step keeps all but what is said of the negotiation.
LEMMA OutsideInv == TypeOK /\ NoStaleMode /\ Reported /\ Outside
                      => TypeOK' /\ NoStaleMode' /\ Reported'
<1> SUFFICES ASSUME TypeOK, NoStaleMode, Reported, Outside
             PROVE  TypeOK' /\ NoStaleMode' /\ Reported'
  OBVIOUS
<1>1. Typed /\ Rest
  BY TypeParts
<1>2. Typed' /\ Rest'
  BY <1>1 DEF Typed, Rest, Outside
<1>3. NoStaleMode' /\ Reported'
  BY DEF NoStaleMode, Reported, Outside
<1>4. TypeOK'
  BY <1>2, TypeParts, PTL
<1> QED BY <1>3, <1>4

\* The cable: the link goes down, and a negotiation that had ended begins anew.
LEMMA CableInv == IInv /\ Cable => IInv'
<1> SUFFICES ASSUME IInv, Cable PROVE IInv'
  OBVIOUS
<1>0. Typed /\ Rest
  BY TypeParts DEF IInv
<1>1. /\ d' \in Phy /\ ~d'.link /\ d'.adv = d.adv
      /\ d'.nway = IF d.nway = "done" THEN "busy" ELSE d.nway
  BY <1>0 DEF Cable, Typed, Phy
<1>2. /\ UNCHANGED <<p, phyMdix, Linked, mac, carrier, stopped, link_mode, HostErr>>
      /\ ~seen' /\ seen' \in BOOLEAN /\ swapped' \in BOOLEAN
      /\ swapped' <=> (swapped \/ (p.state = "LINK_WAIT" /\ p.auto))
      /\ partner' \in Partners /\ cross' \in BOOLEAN
      /\ events' = events + 1 /\ events < MaxEvents
  BY MdioAssumption, Zenon DEF Cable, hal, net
<1>3. Outside
  BY <1>0, <1>1, <1>2, MdioAssumption DEF Outside, Rest
<1>4. TypeOK' /\ NoStaleMode' /\ Reported'
  BY <1>3, OutsideInv DEF IInv
<1>5. NwayInv'
  BY <1>1, <1>2 DEF IInv, NwayInv, NwayOn, LinkHasCommon, WaitIsSettled, RestartIsFresh,
                    ModeIsBest
<1> QED BY <1>4, <1>5 DEF IInv

\* The PHY comes alive, and begins to negotiate.
LEMMA PhyStepInv == IInv /\ (PhyAlive \/ NwayStarts) => IInv'
<1> SUFFICES ASSUME IInv, PhyAlive \/ NwayStarts PROVE IInv'
  OBVIOUS
<1>0. Typed /\ Rest
  BY TypeParts DEF IInv
<1>1. /\ d' \in Phy /\ d'.link = d.link /\ d'.adv = d.adv
      /\ d'.nway = d.nway \/ (d.nway = "start" /\ d'.nway = "busy")
  BY <1>0 DEF PhyAlive, NwayStarts, Typed, Phy
<1>2. /\ UNCHANGED <<p, phyMdix, partner, cross, seen, swapped, Linked, mac, HostErr>>
      /\ UNCHANGED <<carrier, stopped, link_mode, events>>
  BY DEF PhyAlive, NwayStarts, cable, hal, net
<1>3. Outside
  BY <1>0, <1>1, <1>2 DEF Outside, Rest
<1>4. TypeOK' /\ NoStaleMode' /\ Reported'
  BY <1>3, OutsideInv DEF IInv
<1>5. NwayInv'
  BY <1>1, <1>2 DEF IInv, NwayInv, NwayOn, LinkHasCommon, WaitIsSettled, RestartIsFresh,
                    ModeIsBest
<1> QED BY <1>4, <1>5 DEF IInv

\* A negotiation ends: not below a machine that relies on an earlier one, unless
\* the cable was moved while it waited for the link.
LEMMA NwayCompletesInv == IInv /\ NwayCompletes => IInv'
<1> SUFFICES ASSUME IInv, NwayCompletes PROVE IInv'
  OBVIOUS
<1>0. Typed /\ Rest
  BY TypeParts DEF IInv
<1>1. /\ d.nway = "busy" /\ seen
      /\ d' \in Phy /\ d'.nway = "done" /\ d'.adv = d.adv
      /\ d'.link <=> d.adv \cap partner # {}
  BY <1>0 DEF NwayCompletes, Typed, Phy
<1>2. /\ UNCHANGED <<p, phyMdix, partner, cross, seen, swapped, Linked, mac, HostErr>>
      /\ UNCHANGED <<carrier, stopped, link_mode, events>>
  BY DEF NwayCompletes, cable, hal, net
<1>3. Outside
  BY <1>0, <1>1, <1>2 DEF Outside, Rest
<1>4. TypeOK' /\ NoStaleMode' /\ Reported'
  BY <1>3, OutsideInv DEF IInv
<1>5. ~(p.auto /\ ~swapped /\ p.state \in {"LINK_WAIT", "LINKED"})
  BY <1>1 DEF IInv, NwayInv, WaitIsSettled, RestartIsFresh
<1>6. NwayInv'
  BY <1>1, <1>2, <1>5 DEF NwayInv, NwayOn, LinkHasCommon, WaitIsSettled, RestartIsFresh,
                          ModeIsBest
<1> QED BY <1>4, <1>6 DEF IInv

\* A link in a fixed mode comes up below a machine that does not negotiate.
LEMMA ForcedLinkInv == IInv /\ ForcedLink => IInv'
<1> SUFFICES ASSUME IInv, ForcedLink PROVE IInv'
  OBVIOUS
<1>0. Typed /\ Rest
  BY TypeParts DEF IInv
<1>1. /\ p.state = "LINK_WAIT" /\ d.nway = "off"
      /\ d' \in Phy /\ d'.nway = "off" /\ d'.adv = d.adv
  BY <1>0 DEF ForcedLink, Typed, Phy
<1>2. /\ UNCHANGED <<p, phyMdix, partner, cross, seen, swapped, Linked, mac, HostErr>>
      /\ UNCHANGED <<carrier, stopped, link_mode, events>>
  BY DEF ForcedLink, cable, hal, net
<1>3. Outside
  BY <1>0, <1>1, <1>2 DEF Outside, Rest
<1>4. TypeOK' /\ NoStaleMode' /\ Reported'
  BY <1>3, OutsideInv DEF IInv
<1>5. ~p.auto
  BY <1>1 DEF IInv, NwayInv, NwayOn, Negotiated
<1>6. NwayInv'
  BY <1>1, <1>2, <1>5 DEF NwayInv, NwayOn, LinkHasCommon, WaitIsSettled, RestartIsFresh,
                          ModeIsBest
<1> QED BY <1>4, <1>6 DEF IInv

\* A host error leaves the link alone.
LEMMA HostIntInv == IInv /\ HostInt => IInv'
<1> SUFFICES ASSUME IInv, HostInt PROVE IInv'
  OBVIOUS
<1>0. Typed /\ Rest
  BY TypeParts DEF IInv
<1>1. /\ UNCHANGED <<p, d, phyMdix, partner, cross, seen, swapped, Linked, mac>>
      /\ UNCHANGED <<carrier, stopped, link_mode, events>>
      /\ HostErr' /\ HostErr' \in BOOLEAN
  BY DEF HostInt, cable, net
<1>2. Outside
  BY <1>0, <1>1 DEF Outside, Rest, Typed
<1>3. TypeOK' /\ NoStaleMode' /\ Reported'
  BY <1>2, OutsideInv DEF IInv
<1>4. NwayInv'
  BY <1>1 DEF IInv, NwayInv, NwayOn, LinkHasCommon, WaitIsSettled, RestartIsFresh,
              ModeIsBest
<1> QED BY <1>3, <1>4 DEF IInv

\* Every step keeps the invariant.
LEMMA NextInv == IInv /\ [Next]_vars => IInv'
<1> SUFFICES ASSUME IInv, [Next]_vars PROVE IInv'
  OBVIOUS
<1>1. CASE halTick
  <2>1. Typed /\ Rest
    BY TypeParts DEF IInv
  <2>2. Typed' /\ Rest' /\ NoStaleMode' /\ Reported'
    BY <1>1, <2>1, TickReports DEF IInv
  <2>3. NwayInv'
    BY <1>1, <2>1, TickNegotiates DEF IInv
  <2>4. TypeOK'
    BY <2>2, TypeParts, PTL
  <2> QED BY <2>2, <2>3, <2>4 DEF IInv
<1>2. CASE MdioSetPhyMode
  BY <1>2, SetModeInv
<1>3. CASE Reopen
  BY <1>3, ReopenInv
<1>4. CASE HostInt
  BY <1>4, HostIntInv
<1>5. CASE Cable
  BY <1>5, CableInv
<1>6. CASE PhyAlive \/ NwayStarts
  BY <1>6, PhyStepInv
<1>7. CASE NwayCompletes
  BY <1>7, NwayCompletesInv
<1>8. CASE ForcedLink
  BY <1>8, ForcedLinkInv
<1>9. CASE UNCHANGED vars
  <2>1. /\ UNCHANGED <<p, d, phyMdix, partner, cross, seen, swapped, Linked, mac>>
        /\ UNCHANGED <<HostErr, carrier, stopped, link_mode, events>>
    BY <1>9 DEF vars, cable, hal, net
  <2>2. UNCHANGED <<TypeOK, NoStaleMode, Reported>>
    BY <2>1 DEF TypeOK, NoStaleMode, Reported
  <2>3. NwayInv'
    BY <2>1 DEF IInv, NwayInv, NwayOn, LinkHasCommon, WaitIsSettled, RestartIsFresh,
                ModeIsBest
  <2> QED BY <2>2, <2>3 DEF IInv
<1> QED BY <1>1, <1>2, <1>3, <1>4, <1>5, <1>6, <1>7, <1>8, <1>9 DEF Next

-----------------------------------------------------------------------------
(* The theorems.                                                           *)

\* The invariant holds in every state of the link state machine.
THEOREM Invariance == Spec => []IInv
  BY InitInv, NextInv, PTL DEF Spec

\* The types of cpmdio.c's PhyDev, of the PHY and of the device hold; the timer of
\* a state never runs below zero, and a flip is carried out in the tick that asks
\* for it.
THEOREM TypeCorrect == Spec => []TypeOK
<1>1. IInv => TypeOK
  BY DEF IInv
<1> QED BY <1>1, Invariance, PTL

\* halTick() and cpmac_p_process_status_ind() together report every change of the
\* link: a machine with no change noted agrees with HalDev->Linked, the carrier, the
\* mode shown, the MAC's duplex and the transmit queue.
THEOREM ChangesAreReported == Spec => []Reported
<1>1. IInv => Reported
  BY DEF IInv
<1> QED BY <1>1, Invariance, PTL

\* A link that cpMacMdioTic() calls negotiated runs in the best mode of both ends,
\* unless the cable was moved while it waited for that link.
THEOREM NegotiatedIsBest == Spec => []LinkedIsAgreed
<1>1. IInv => LinkedIsAgreed
  BY DEF IInv, NwayInv, ModeIsBest, LinkedIsAgreed
<1> QED BY <1>1, Invariance, PTL
=============================================================================
