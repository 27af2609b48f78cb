------------------------------ MODULE RxFilter ------------------------------
(***************************************************************************)
(* The receive filter of the CPMAC: which frames the hardware accepts, as  *)
(* the kernel's wishes (promiscuous mode, all multicast, a list of groups, *)
(* the station address) travel through cpmac_dev_mcast_set() and the       *)
(* Control() calls of the HAL into the fields of HAL_DEVICE and from there *)
(* into the registers.  The fields survive a close, the registers do not.  *)
(*                                                                         *)
(* The hardware receives while the driver reprograms it, so each Control() *)
(* call is a step.  cpmac_dev_mcast_set() runs with bottom halves disabled *)
(* on one processor: nothing else changes the wishes in the meantime.      *)
(* dev_open() and dev_close() run in process context, and a bottom half    *)
(* that joins or leaves a group may come between their steps.              *)
(*                                                                         *)
(* Left out: RX_PROM_CH and RX_MULT_CH always name channel 0; RX_MULT_EN   *)
(* and RX_BROAD_EN are set once at probe and never cleared; user counts    *)
(* are taken at their first and last user, which is when the kernel calls  *)
(* the driver.  MACHASH1 and MACHASH2 are one set of positions 0 .. 63.    *)
(***************************************************************************)
EXTENDS McastHash

CONSTANTS
  Group,        \* multicast addresses
  Address,      \* station addresses
  NoAddress     \* the address registers of a device in reset

ASSUME GroupAssumption == Group \subseteq EthAddress

ASSUME AddressAssumption == NoAddress \notin Address

Bit == 0 .. 63

\* The position of the filter that HashAdd() sets for a group.
Hash == [g \in Group |-> HashGet(g)]

VARIABLES
  stage,        \* where dev_open() and dev_close() are, see below
  promisc,      \* IFF_PROMISC of dev->flags
  allmulti,     \* IFF_ALLMULTI of dev->flags
  mc,           \* dev->mc_list
  mac_addr,     \* the address of the device, which HalDev->MacAddr points to
  MacHash,      \* HalDev->MacHash1 and MacHash2
  CAF,          \* RX_CAF_EN in HalDev->RxMbpEnable: copy all frames
  regHash,      \* MACHASH1 and MACHASH2
  regCAF,       \* RX_CAF_EN in RX_MBP_ENABLE
  regAddr,      \* MACADDRLO, MID and HI
  pc,           \* the next Control() call of cpmac_dev_mcast_set()
  left          \* groups of the list that it has not come to yet

vars == <<stage, promisc, allmulti, mc, mac_addr, MacHash, CAF, regHash,
          regCAF, regAddr, pc, left>>
wishes == <<promisc, allmulti, mc, mac_addr>>

(* dev_open(): "down", "opened" (the driver is open), "flagged" (IFF_UP is *)
(* set), "up" (dev_mc_upload() has been called); dev_close(): "closed" (the *)
(* driver is closed, IFF_UP is still set) and back to "down".              *)
Stage == {"down", "opened", "flagged", "up", "closed"}
HalOpened == stage \in {"opened", "flagged", "up"}
IFF_UP == stage \in {"flagged", "up", "closed"}

Calls == {"idle", "prom_multi", "prom_caf", "all_caf", "all_multi",
          "list_multi", "list_caf", "list_add", "uni_multi", "uni_caf"}

\* Types of the registers, of the wishes of the stack and of the place in the call.
TypeOK ==
  /\ stage \in Stage
  /\ promisc \in BOOLEAN /\ allmulti \in BOOLEAN
  /\ mc \subseteq Group
  /\ mac_addr \in Address
  /\ MacHash \subseteq Bit /\ regHash \subseteq Bit
  /\ CAF \in BOOLEAN /\ regCAF \in BOOLEAN
  /\ regAddr \in Address \cup {NoAddress}
  /\ pc \in Calls
  /\ left \subseteq Group

(* After cpmac_p_reset_to_defaults at probe: the interface is down.        *)
Init ==
  /\ stage = "down"
  /\ promisc = FALSE /\ allmulti = FALSE /\ mc = {}
  /\ mac_addr \in Address
  /\ MacHash = {} /\ CAF = FALSE
  /\ regHash = {} /\ regCAF = FALSE /\ regAddr = NoAddress
  /\ pc = "idle" /\ left = {}
-----------------------------------------------------------------------------
(* The HAL.                                                                *)

\* An open device is given the new values only at the next open.
ConfigApplyLate(hash, caf) ==
  UNCHANGED <<regHash, regCAF, regAddr>>

(* ConfigApply() writes the fields to the registers; MacHashSet() and its  *)
(* siblings do nothing unless the device is open.                          *)
ConfigApply(hash, caf) ==
  /\ regHash' = IF HalOpened THEN hash ELSE regHash
  /\ regCAF' = IF HalOpened THEN caf ELSE regCAF
  /\ regAddr' = IF HalOpened THEN mac_addr ELSE regAddr

\* A key that InfoAccess() handles: the field changes and is applied.
Update(hash, caf) ==
  /\ MacHash' = hash
  /\ CAF' = caf
  /\ ConfigApply(hash, caf)

RX_MULTI_ALL_Set == Update(Bit, CAF)
RX_MULTI_ALL_Clear == Update({}, CAF)
RX_MULTI_SINGLE_Set(g) == Update(MacHash \cup {Hash[g]}, CAF)
RX_CAF_EN_Set(val) == Update(MacHash, val)

(* InfoAccess() knows RX_CAF_EN only with the action Set.                  *)
RX_CAF_EN_Clear == UNCHANGED <<MacHash, CAF, regHash, regCAF, regAddr>>
-----------------------------------------------------------------------------
(* cpmac_dev_mcast_set(): which branch is taken, and its calls.            *)

FirstCall(prom, all, list) ==
  IF prom THEN "prom_multi"
  ELSE IF all THEN "all_caf"
  ELSE IF list # {} THEN "list_multi"
  ELSE "uni_multi"

Call(from, to) == pc = from /\ pc' = to /\ UNCHANGED <<stage, wishes>>

PromiscClearHash ==
  Call("prom_multi", "prom_caf") /\ RX_MULTI_ALL_Clear /\ UNCHANGED left

PromiscSetCaf ==
  Call("prom_caf", "idle") /\ RX_CAF_EN_Set(TRUE) /\ UNCHANGED left

AllMultiClearCaf ==
  Call("all_caf", "all_multi") /\ RX_CAF_EN_Clear /\ UNCHANGED left

AllMultiSetHash ==
  Call("all_multi", "idle") /\ RX_MULTI_ALL_Set /\ UNCHANGED left

\* Mutant: the list is added to what the filter held before.
ListClearHashNot == Call("list_multi", "list_caf") /\ left' = mc
                    /\ UNCHANGED <<MacHash, CAF, regHash, regCAF, regAddr>>

ListClearHash ==
  Call("list_multi", "list_caf") /\ RX_MULTI_ALL_Clear /\ left' = mc

ListClearCaf ==
  Call("list_caf", "list_add") /\ RX_CAF_EN_Set(FALSE) /\ UNCHANGED left

\* Mutant: the loop ends at the last address instead of after it.
ListAddShort(g) ==
  /\ Call("list_add", IF left \ {g} = {} THEN "idle" ELSE "list_add")
  /\ g \in left
  /\ left' = left \ {g}
  /\ IF left = {g} THEN UNCHANGED <<MacHash, CAF, regHash, regCAF, regAddr>>
     ELSE RX_MULTI_SINGLE_Set(g)

ListAdd(g) ==
  /\ Call("list_add", IF left \ {g} = {} THEN "idle" ELSE "list_add")
  /\ g \in left
  /\ left' = left \ {g}
  /\ RX_MULTI_SINGLE_Set(g)

UnicastClearHash ==
  Call("uni_multi", "uni_caf") /\ RX_MULTI_ALL_Clear /\ UNCHANGED left

UnicastClearCaf ==
  Call("uni_caf", "idle") /\ RX_CAF_EN_Set(FALSE) /\ UNCHANGED left
-----------------------------------------------------------------------------
(* The kernel.  __dev_mc_upload() calls the driver when IFF_UP is set.     *)

hal == <<MacHash, CAF, regHash, regCAF, regAddr>>

Upload(prom, all, list) ==
  pc' = IF IFF_UP THEN FirstCall(prom, all, list) ELSE pc

dev_set_promiscuity ==
  /\ pc = "idle"
  /\ promisc' = ~promisc
  /\ Upload(promisc', allmulti, mc)
  /\ UNCHANGED <<stage, allmulti, mc, mac_addr, hal, left>>

dev_set_allmulti ==
  /\ pc = "idle"
  /\ allmulti' = ~allmulti
  /\ Upload(promisc, allmulti', mc)
  /\ UNCHANGED <<stage, promisc, mc, mac_addr, hal, left>>

dev_mc_add(g) ==
  /\ pc = "idle"
  /\ g \notin mc
  /\ mc' = mc \cup {g}
  /\ Upload(promisc, allmulti, mc')
  /\ UNCHANGED <<stage, promisc, allmulti, mac_addr, hal, left>>

dev_mc_delete(g) ==
  /\ pc = "idle"
  /\ g \in mc
  /\ mc' = mc \ {g}
  /\ Upload(promisc, allmulti, mc')
  /\ UNCHANGED <<stage, promisc, allmulti, mac_addr, hal, left>>

(* cpmac_dev_set_mac_addr(): HalDev->MacAddr points to the copy, and       *)
(* MacAddressSet() writes the registers of an open device.                 *)
cpmac_dev_set_mac_addr(a) ==
  /\ pc = "idle"
  /\ mac_addr' = a
  /\ regAddr' = IF HalOpened THEN a ELSE regAddr
  /\ UNCHANGED <<stage, promisc, allmulti, mc, MacHash, CAF, regHash, regCAF,
                 pc, left>>

(* cpmac_dev_open(): halOpen() resets the device and applies the fields    *)
(* that it kept from before the last close.                                *)
DevOpenHal ==
  /\ pc = "idle" /\ stage = "down"
  /\ stage' = "opened"
  /\ regHash' = MacHash /\ regCAF' = CAF /\ regAddr' = mac_addr
  /\ UNCHANGED <<wishes, MacHash, CAF, pc, left>>

DevOpenFlag ==
  /\ pc = "idle" /\ stage = "opened"
  /\ stage' = "flagged"
  /\ UNCHANGED <<wishes, hal, pc, left>>

DevOpenUpload ==
  /\ pc = "idle" /\ stage = "flagged"
  /\ stage' = "up"
  /\ pc' = FirstCall(promisc, allmulti, mc)
  /\ UNCHANGED <<wishes, hal, left>>

(* dev->stop: halClose() resets the device.                                *)
DevCloseHal ==
  /\ pc = "idle" /\ stage = "up"
  /\ stage' = "closed"
  /\ regHash' = {} /\ regCAF' = FALSE /\ regAddr' = NoAddress
  /\ UNCHANGED <<wishes, MacHash, CAF, pc, left>>

DevCloseFlag ==
  /\ pc = "idle" /\ stage = "closed"
  /\ stage' = "down"
  /\ UNCHANGED <<wishes, hal, pc, left>>

Next ==
  \/ PromiscClearHash \/ PromiscSetCaf
  \/ AllMultiClearCaf \/ AllMultiSetHash
  \/ ListClearHash \/ ListClearCaf \/ (\E g \in Group : ListAdd(g))
  \/ UnicastClearHash \/ UnicastClearCaf
  \/ dev_set_promiscuity \/ dev_set_allmulti
  \/ (\E g \in Group : dev_mc_add(g) \/ dev_mc_delete(g))
  \/ (\E a \in Address : cpmac_dev_set_mac_addr(a))
  \/ DevOpenHal \/ DevOpenFlag \/ DevOpenUpload
  \/ DevCloseHal \/ DevCloseFlag

Spec == Init /\ [][Next]_vars
-----------------------------------------------------------------------------
Settled == stage = "up" /\ pc = "idle"

Accepts(g) == regCAF \/ Hash[g] \in regHash

(* Once the interface is up and the last change has been programmed, no    *)
(* wanted frame is filtered out, whatever was joined or left while the     *)
(* interface was down or halfway up: frames of every joined group, of all  *)
(* groups when all multicast is asked for, everything in promiscuous mode, *)
(* and those for the address the device has now.                           *)
NoWantedFrameLost ==
  Settled =>
    /\ promisc => regCAF
    /\ \A g \in Group : (allmulti \/ g \in mc) => Accepts(g)
    /\ regAddr = mac_addr

(* Once programmed, and unless all multicast frames are asked for, the     *)
(* hardware takes no more than it was asked to: it is promiscuous only     *)
(* when the device is, and its hash holds the positions of the joined      *)
(* groups and no other, so a group that was left, or a past promiscuous or *)
(* all multicast mode, leaves nothing behind.                              *)
NothingUnwanted ==
  Settled /\ ~allmulti =>
    /\ regCAF => promisc
    /\ ~promisc => regHash = {Hash[g] : g \in mc}

FoldedGroup ==
  {g \in Group : \A a \in Near(g), i \in 0 .. 5 : BitOf(HashGet(a), i) = Parity(a, i)}

(* The shifts of HashGet() fold the eight 6-bit groups of the address: bit *)
(* i of its value is the parity of every sixth address bit from bit i on,  *)
(* so the bits that cross a byte boundary land where they belong; for the  *)
(* groups on the list and all addresses near them.                         *)
HashFoldsGroups == mc \subseteq FoldedGroup

(* What makes the two properties inductive: registers of an open device    *)
(* follow the fields; a branch is taken by the wishes that hold; and each  *)
(* call leaves what the calls after it rely on.                            *)
IInv ==
  /\ TypeOK
  /\ HalOpened => regHash = MacHash /\ regCAF = CAF /\ regAddr = mac_addr
  /\ pc # "idle" => IFF_UP
  /\ pc \in {"prom_multi", "prom_caf"} => promisc
  /\ pc \in {"all_caf", "all_multi"} => ~promisc /\ allmulti
  /\ pc \in {"list_multi", "list_caf", "list_add"} =>
       ~promisc /\ ~allmulti /\ mc # {}
  /\ pc \in {"uni_multi", "uni_caf"} => ~promisc /\ ~allmulti /\ mc = {}
  /\ pc \in {"list_caf", "uni_caf"} => MacHash = {}
  /\ pc = "list_caf" => left = mc
  /\ pc = "list_add" =>
       /\ ~CAF /\ left \subseteq mc /\ left # {}
       /\ MacHash = {Hash[g] : g \in mc \ left}
  /\ stage = "up" /\ pc = "idle" =>
       /\ promisc => CAF
       /\ ~promisc /\ allmulti => MacHash = Bit
       /\ ~promisc /\ ~allmulti =>
            ~CAF /\ MacHash = {Hash[g] : g \in mc}
=============================================================================
