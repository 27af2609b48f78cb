-------------------------------- MODULE Mdio --------------------------------
(***************************************************************************)
(* The link state machine of the CPMAC: cpMacMdioTic() of cpmdio.c, which  *)
(* polls the PHY every 10 ms, the report of a change by halTick() and      *)
(* DuplexUpdate() of hcpmac.c, and what cpmac_p_process_status_ind() of    *)
(* cpmac.c makes of it: the carrier and the transmit queue of the network  *)
(* device.                                                                 *)
(*                                                                         *)
(* Left out: the PHYs of the bus that are not chosen, the loop-back modes  *)
(* and _CPMDIO_NOPHY.                                                      *)
(***************************************************************************)
EXTENDS Integers, FiniteSetsExt

CONSTANTS
  ModeChoices,    \* what cpMacMdioSetPhyMode() may be asked for: [auto, modes]
  Partners,       \* what the other end may offer: sets of modes, {}: no cable
  FIND_TO, RECK_TO, LINK_TO, NWST_TO, NWDN_TO, MDIX_TO,   \* time-outs in ticks
  Crossed,        \* the kinds of cable: straight (FALSE), crossed (TRUE)
  MaxEvents       \* bound: cables, modes and re-opens

\* The modes by priority: NWAY_HD10, NWAY_FD10, NWAY_HD100, NWAY_FD100.
HD10 == 1
FD10 == 2
HD100 == 3
FD100 == 4
Mode == HD10 .. FD100

ASSUME MdioAssumption ==
  /\ ModeChoices \subseteq [auto : BOOLEAN, modes : SUBSET Mode] /\ ModeChoices # {}
  /\ Partners \subseteq SUBSET Mode
  /\ {FIND_TO, RECK_TO, LINK_TO, NWST_TO, NWDN_TO, MDIX_TO} \subseteq Nat \ {0}
  /\ Crossed \subseteq BOOLEAN /\ Crossed # {}
  /\ MaxEvents \in Nat

VARIABLES
  p,          \* PhyDev: state, speed and duplex (mode), timer, SMODE bits (auto,
              \* modes), PHY_CHANGE (chng), PHY_MDIX_SWITCH (flip), PHY_MDIX
              \* (mdix), AutoMdix wanted and possible (amdix)
  d,          \* the PHY: its registers and its link
  phyMdix,    \* the PHY is switched to MDIX
  partner, cross,   \* the other end and the cable
  seen,       \* a tick has passed since the cable was moved
  swapped,    \* history: it was moved while the machine waited for the link
              \* that it had negotiated
  Linked, mac,      \* HalDev->Linked; EmacSpeed and EmacDuplex, as a mode
  HostErr,
  carrier, stopped,
  link_mode,  \* link_speed and link_mode of the network device, NoLink without one
  events

NoLink == 0

hal   == <<Linked, mac, HostErr>>
net   == <<carrier, stopped, link_mode>>
cable == <<phyMdix, partner, cross>>
vars  == <<p, d, cable, seen, swapped, hal, net, events>>

PhyStates == {"INIT", "FINDING", "FOUND", "NWAY_START", "NWAY_WAIT", "LINK_WAIT",
              "LINKED"}

\* The highest bit of an advertisement; NWAY_SEL alone gives half duplex 10.
Best(S) == Max(S \cup {HD10})

-----------------------------------------------------------------------------
(* cpMacMdioInit() and cpMacMdioSetPhyMode().                              *)

SetPhyMode(q, m) ==
  LET s == [q EXCEPT !.auto = m.auto, !.modes = m.modes]
  IN  IF q.state \in {"NWAY_START", "NWAY_WAIT", "LINK_WAIT", "LINKED"}
        THEN [s EXCEPT !.state = "FOUND", !.chng = TRUE] ELSE s

MdioInit(m, am) ==
  SetPhyMode([state |-> "INIT", mode |-> HD10, tim |-> 0, auto |-> FALSE,
              modes |-> {}, chng |-> FALSE, flip |-> FALSE, mdix |-> FALSE,
              amdix |-> am], m)

Init ==
  /\ \E m \in ModeChoices, am \in BOOLEAN : p = MdioInit(m, am)
  /\ d \in [alive : BOOLEAN, capable : BOOLEAN, nway : {"off"}, adv : {{}},
            forced : {HD10}, link : {FALSE}, low : {TRUE}]
  /\ phyMdix = FALSE
  /\ partner \in Partners /\ cross \in Crossed
  /\ seen = TRUE /\ swapped = FALSE
  /\ Linked = FALSE /\ mac = HD10 /\ HostErr = FALSE
  /\ carrier = FALSE /\ stopped = FALSE /\ link_mode = NoLink
  /\ events = 0

-----------------------------------------------------------------------------
(* The PHY (external).                                                     *)

\* Reading the status register: the link bit is latched low until it is read.
LinkBit == d.link /\ ~d.low
ReadStatus(e) == [e EXCEPT !.low = ~e.link]

\* The cable is moved: the link goes down and a PHY that negotiates begins anew.
Cable ==
  /\ events < MaxEvents
  /\ partner' \in Partners /\ cross' \in Crossed
  /\ <<partner', cross'>> # <<partner, cross>>
  /\ d' = [d EXCEPT !.link = FALSE, !.low = TRUE,
                    !.nway = IF @ = "done" THEN "busy" ELSE @]
  /\ seen' = FALSE
  /\ swapped' = (swapped \/ (p.state = "LINK_WAIT" /\ p.auto))
  /\ events' = events + 1
  /\ UNCHANGED <<p, phyMdix, hal, net>>

PhyAlive ==
  /\ ~d.alive
  /\ d' = [d EXCEPT !.alive = TRUE]
  /\ UNCHANGED <<p, cable, seen, swapped, hal, net, events>>

\* RENEGOTIATE clears itself.
NwayStarts ==
  /\ d.nway = "start"
  /\ d' = [d EXCEPT !.nway = "busy"]
  /\ UNCHANGED <<p, cable, seen, swapped, hal, net, events>>

\* A negotiation takes longer than a tick.
NwayCompletes ==
  /\ d.nway = "busy" /\ partner # {} /\ phyMdix = cross /\ seen
  /\ d' = [d EXCEPT !.nway = "done", !.link = d.adv \cap partner # {}]
  /\ UNCHANGED <<p, cable, seen, swapped, hal, net, events>>

\* A PHY in a fixed mode links if the other end has that mode.
ForcedLink ==
  /\ p.state = "LINK_WAIT" /\ d.nway = "off" /\ ~d.link
  /\ d.forced \in partner /\ phyMdix = cross /\ seen
  /\ d' = [d EXCEPT !.link = TRUE]
  /\ UNCHANGED <<p, cable, seen, swapped, hal, net, events>>

-----------------------------------------------------------------------------
(* The states of the machine.  Each gives the new PhyDev and the new PHY.  *)

MdixDelay(q) == IF q.amdix THEN [q EXCEPT !.tim = MDIX_TO] ELSE q

\* Mutant: the other kind is noted, but not asked for.
PhyTimeOutNoFlip(q) ==
  IF q.amdix THEN [q EXCEPT !.mdix = ~@, !.state = "FOUND"] ELSE q

\* _mdioPhyTimeOut(): with AutoMdix the other kind of cable is tried.
PhyTimeOut(q) ==
  IF q.amdix THEN [q EXCEPT !.flip = TRUE, !.mdix = ~@, !.state = "FOUND"] ELSE q

Wait(q) == IF q.tim > 0 THEN [q EXCEPT !.tim = @ - 1] ELSE PhyTimeOut(q)

InitState ==
  <<[p EXCEPT !.tim = FIND_TO, !.state = "FINDING", !.mode = HD10, !.chng = TRUE], d>>

FindingState ==
  <<IF p.tim > 0 THEN [p EXCEPT !.tim = @ - 1]
    ELSE IF d.alive THEN [p EXCEPT !.state = "FOUND", !.chng = TRUE]
    ELSE [p EXCEPT !.tim = RECK_TO],
    d>>

\* _MdioFoundState(): the PHY is reset, then negotiates or is set to one mode.
FoundState ==
  LET reset == [d EXCEPT !.link = FALSE, !.low = TRUE, !.nway = "off"]
      best == Best(p.modes)
  IN  IF ~p.auto /\ p.modes = {} THEN <<p, d>>
      ELSE IF p.auto /\ d.capable
        THEN <<MdixDelay([p EXCEPT !.state = "NWAY_START", !.tim = NWST_TO, !.chng = TRUE]),
               [reset EXCEPT !.adv = p.modes, !.nway = "start"]>>
        ELSE <<MdixDelay([p EXCEPT !.auto = FALSE, !.mode = best, !.state = "LINK_WAIT",
                                   !.tim = LINK_TO, !.chng = TRUE]),
               [reset EXCEPT !.forced = best]>>

NwayStartState ==
  IF d.nway # "start"
    THEN <<MdixDelay([p EXCEPT !.state = "NWAY_WAIT", !.tim = NWDN_TO, !.chng = TRUE]),
           ReadStatus(d)>>
    ELSE <<Wait(p), d>>

\* Mutant: the lowest common mode is taken.
NegModeLow ==
  LET common == d.adv \cap partner
      neg == IF common # {} THEN common ELSE {HD100, HD10} \cap d.adv
  IN  IF neg = {} THEN 0 ELSE Min(neg)

\* The mode of a finished negotiation, 0 if there is none.
NegMode ==
  LET common == d.adv \cap partner
      neg == IF common # {} THEN common ELSE {HD100, HD10} \cap d.adv
  IN  IF neg = {} THEN 0 ELSE Max(neg)

NwayWaitState ==
  <<IF d.nway # "done" THEN Wait(p)
    ELSE IF NegMode = 0 THEN [p EXCEPT !.chng = TRUE, !.mode = HD10]
    ELSE [p EXCEPT !.chng = TRUE, !.mode = NegMode,
                   !.state = IF LinkBit THEN "LINKED" ELSE "LINK_WAIT"],
    ReadStatus(d)>>

\* Mutant: the change is not noted.
LinkWaitStateSilent ==
  <<IF LinkBit THEN [p EXCEPT !.state = "LINKED"] ELSE Wait(p), ReadStatus(d)>>

LinkWaitState ==
  <<IF LinkBit THEN [p EXCEPT !.state = "LINKED", !.chng = TRUE] ELSE Wait(p),
    ReadStatus(d)>>

\* Mutant: the machine goes on without looking at the link.
LinkedStateBlind == <<p, d>>

LinkedState ==
  <<IF d.link THEN p
    ELSE IF p.auto
      THEN MdixDelay([p EXCEPT !.chng = TRUE, !.state = "NWAY_WAIT", !.tim = NWDN_TO])
    ELSE MdixDelay([p EXCEPT !.chng = TRUE, !.state = "LINK_WAIT", !.tim = LINK_TO]),
    d>>

StateStep ==
  CASE p.state = "INIT"       -> InitState
    [] p.state = "FINDING"    -> FindingState
    [] p.state = "FOUND"      -> FoundState
    [] p.state = "NWAY_START" -> NwayStartState
    [] p.state = "NWAY_WAIT"  -> NwayWaitState
    [] p.state = "LINK_WAIT"  -> LinkWaitState
    [] p.state = "LINKED"     -> LinkedState

-----------------------------------------------------------------------------
(* halTick(): the step, then the report.                                   *)

\* DuplexUpdate() after the step that gives q.
DuplexUpdate(q) ==
  /\ Linked' = (q.state = "LINKED")
  /\ mac' = IF q.state = "LINKED" THEN q.mode ELSE mac

\* cpmac_p_process_status_ind(): a host error hides the state of the link.
StatusInd(up, q) ==
  IF HostErr THEN UNCHANGED net
  ELSE /\ carrier' = up
       /\ stopped' = ~up
       /\ link_mode' = IF up THEN q.mode ELSE IF carrier THEN NoLink ELSE link_mode

\* A switch of MDI and MDIX goes before a change, which stays noted.
halTick ==
  LET r == StateStep
      q == r[1]
  IN  /\ d' = r[2]
      /\ seen' = TRUE
      /\ swapped' = (swapped /\ q.state \in {"LINK_WAIT", "LINKED"})
      /\ \/ /\ q.flip
            /\ p' = [q EXCEPT !.flip = FALSE]
            /\ phyMdix' = q.mdix
            /\ UNCHANGED <<Linked, mac, net>>
         \/ /\ ~q.flip /\ q.chng
            /\ p' = [q EXCEPT !.chng = FALSE]
            /\ DuplexUpdate(q)
            /\ StatusInd(q.state = "LINKED", q)
            /\ UNCHANGED phyMdix
         \/ /\ ~q.flip /\ ~q.chng
            /\ p' = q
            /\ UNCHANGED <<phyMdix, Linked, mac, net>>
      /\ UNCHANGED <<partner, cross, HostErr, events>>

\* MdioSetPhyMode() through Control("MdioConnect").
MdioSetPhyMode ==
  /\ events < MaxEvents
  /\ \E m \in ModeChoices : p' = SetPhyMode(p, m)
  /\ DuplexUpdate(p')
  /\ events' = events + 1
  /\ UNCHANGED <<d, cable, seen, swapped, HostErr, net>>

\* cpmac_dev_close() and cpmac_dev_open(): a new PhyDev, the same PHY.
Reopen ==
  /\ events < MaxEvents
  /\ p' = MdioInit([auto |-> p.auto, modes |-> p.modes], p.amdix)
  /\ DuplexUpdate(p')
  /\ HostErr' = FALSE
  /\ carrier' = FALSE /\ stopped' = FALSE /\ link_mode' = NoLink
  /\ events' = events + 1
  /\ UNCHANGED <<d, cable, seen, swapped>>

\* halIsr() on a host interrupt.
HostInt ==
  /\ ~HostErr
  /\ HostErr' = TRUE
  /\ UNCHANGED <<p, d, cable, seen, swapped, Linked, mac, net, events>>

-----------------------------------------------------------------------------
Next ==
  \/ halTick \/ MdioSetPhyMode \/ Reopen \/ HostInt
  \/ Cable \/ PhyAlive \/ NwayStarts \/ NwayCompletes \/ ForcedLink

Spec == Init /\ [][Next]_vars

\* What the PHY does in time: before the machine has given up, and before the
\* last tick of a time-out.
StartInTime(b) == p.state = "NWAY_START" /\ phyMdix = b /\ NwayStarts
NwayInTime == p.state \in {"NWAY_WAIT", "LINK_WAIT"} /\ NwayCompletes
EarlyLink == ForcedLink /\ (p.amdix => p.tim > 0)

(* Fairness: the timer ticks, and the PHY comes alive, starts and finishes *)
(* a negotiation or links.  Strong fairness for these, since a time-out of *)
(* AutoMdix may cut them short: it is longer than they take.               *)
Fairness ==
  /\ WF_vars(halTick) /\ WF_vars(PhyAlive)
  /\ \A b \in BOOLEAN : SF_vars(StartInTime(b))
  /\ SF_vars(NwayInTime) /\ SF_vars(EarlyLink)

FairSpec == Spec /\ Fairness

-----------------------------------------------------------------------------
\* Types; in particular the counter of a state stays between zero and the largest
\* time-out, and a flip asked for by PhyTimeOut() is carried out in the same tick.
TypeOK ==
  /\ p \in [state : PhyStates, mode : Mode,
            tim : 0 .. Max({FIND_TO, RECK_TO, LINK_TO, NWST_TO, NWDN_TO, MDIX_TO}),
            auto : BOOLEAN, modes : SUBSET Mode, chng : BOOLEAN, flip : {FALSE},
            mdix : BOOLEAN, amdix : BOOLEAN]
  /\ d \in [alive : BOOLEAN, capable : BOOLEAN, nway : {"off", "start", "busy", "done"},
            adv : SUBSET Mode, forced : Mode, link : BOOLEAN, low : BOOLEAN]
  /\ {phyMdix, cross, seen, swapped, Linked, HostErr, carrier, stopped} \subseteq BOOLEAN
  /\ partner \in Partners
  /\ mac \in Mode /\ link_mode \in Mode \cup {NoLink}
  /\ events \in 0 .. MaxEvents

\* Every change of the link has been reported: unless a change is noted, the
\* carrier, HalDev->Linked, the MAC's duplex and the transmit queue are those of
\* the state machine.
Reported ==
  (~p.chng /\ ~HostErr) =>
    /\ carrier = (p.state = "LINKED") /\ Linked = carrier
    /\ link_mode = IF carrier THEN p.mode ELSE NoLink
    /\ carrier => mac = p.mode
    /\ p.state # "INIT" => stopped = ~carrier

\* A negotiated link runs in the best mode that both ends have in common, unless
\* the partner was changed between negotiation and link: LINK_WAIT does not look
\* at the negotiation again.
LinkedIsAgreed ==
  (p.state = "LINKED" /\ p.auto /\ d.link /\ ~swapped) =>
    p.mode = Max(d.adv \cap partner)

\* A link that is lost stops the transmit queue, as long as there was no host
\* error, which hides every later change of the link.
LossStopsQueue == (carrier /\ partner = {}) ~> (stopped \/ partner # {} \/ HostErr)

\* The cable and the modes allow for a link.
Linkable ==
  /\ p.amdix \/ phyMdix = cross
  /\ IF p.auto /\ d.capable THEN p.modes \cap partner # {}
     ELSE (p.auto \/ p.modes # {}) /\ Best(p.modes) \in partner

\* A link that is possible comes up, with AutoMdix over either kind of cable.
LinkComesUp == Linkable ~> (carrier \/ ~Linkable \/ HostErr)
=============================================================================
