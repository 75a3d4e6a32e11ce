-------------------- MODULE TunerSubscriptionsProofs --------------------
(***************************************************************************)
(* What holds of the table of subscriptions of a device for any number of  *)
(* subscribers of each type and any number of transponders.                *)
(***************************************************************************)
EXTENDS TunerSubscriptions, TLAPS

(* The table is a sequence: `before' is a strict total order of `active'.   *)
TableOrdered ==
  /\ before \subseteq active \X active
  /\ \A c \in active : <<c, c>> \notin before
  /\ \A c, d \in active : c # d => (<<c, d>> \in before <=> <<d, c>> \notin before)
  /\ \A c, d, e \in active : <<c, d>> \in before /\ <<d, e>> \in before => <<c, e>> \in before

Subscribed == {"notifying", "switching", "tuning", "holding", "releasing"}

(* Whoever is not registered although its Acquire() or its handle says so   *)
(* was erased by a call that told it or is about to.                        *)
ErasedAreTold ==
  \A c \in Clients :
    at[c] \in {"notifying", "switching", "tuning", "holding"} /\ c \notin active =>
      c \in told \/ \E d \in Clients : at[d] = "notifying" /\ c \in lowerPrio[d]

(* What m_mutex keeps true of the table.                                    *)
TableInv ==
  /\ \A c \in active : at[c] \in Subscribed
  /\ ErasedAreTold
  /\ LaterIsHigherPriority

(* What a call knows of itself, and that calls which never overlapped do    *)
(* not.                                                                     *)
CallInv ==
  /\ \A c \in Clients : at[c] # "out" => transponder[c] \in Transponders
  /\ \A c \in Clients : at[c] \in {"out", "acquiring", "notifying", "switching", "tuning"} => c \notin wanted
  /\ ~overlapped => \A c, d \in Clients : InCall(c) /\ InCall(d) => c = d

(* Where a call that runs alone finds the device.                           *)
OrderlyInv ==
  ~overlapped /\ ~sidelined =>
    /\ \A c \in active : at[c] = "holding" => tuned = transponder[c] /\ (c \in wanted => c \in receivers)
    /\ \A c \in Clients : at[c] = "notifying" =>
         /\ c \in active
         /\ lowerPrio[c] \cap active = {}
         /\ IF switchNeeded[c] THEN active = {c} ELSE tuned = transponder[c]
    /\ \A c \in Clients : at[c] \in {"switching", "tuning"} => active = {c}
    /\ \A c \in Clients : at[c] = "releasing" /\ active = {c} => tuned \in {None, transponder[c]}
    /\ \A c \in Clients : at[c] = "clearing" => active = {} /\ tuned \in {None, transponder[c]}
    /\ active = {} /\ (\A c \in Clients : at[c] # "clearing") => tuned = None

(* The inductive invariant of the device.                                   *)
IndInv == TypeOK /\ TableOrdered /\ TableInv /\ CallInv /\ OrderlyInv

LEMMA InitInd ==
  Init => IndInv
<1> SUFFICES ASSUME Init
             PROVE  IndInv
  OBVIOUS
<1>1. TypeOK
  <2>1. overlapped \in BOOLEAN /\ sidelined \in BOOLEAN
    BY Zenon DEF Init
  <2>2. switchNeeded \in [Clients -> BOOLEAN]
    BY DEF Init
  <2> QED
    BY <2>1, <2>2 DEF Init, TypeOK
<1>2. TableOrdered /\ TableInv
  BY DEF Init, TableOrdered, TableInv, ErasedAreTold, LaterIsHigherPriority
<1>3. CallInv /\ OrderlyInv
  BY DEF Init, CallInv, InCall, OrderlyInv
<1> QED
  BY <1>1, <1>2, <1>3 DEF IndInv

LEMMA StartScanInd ==
  ASSUME IndInv, NEW c \in Clients, c \in Scanners /\ StartScan(c)
  PROVE  IndInv'
<1>1. TypeOK'
  BY DEF IndInv, TypeOK, StartScan, tableVars, callVars
<1>2. TableOrdered'
  BY DEF IndInv, TypeOK, TableOrdered, StartScan, tableVars
<1>3. (\A x \in active : at[x] \in Subscribed)'
  BY DEF IndInv, TypeOK, TableInv, Subscribed, StartScan, tableVars
<1>4. ErasedAreTold'
  BY DEF IndInv, TypeOK, TableInv, ErasedAreTold, StartScan, tableVars, callVars
<1>5. LaterIsHigherPriority'
  BY DEF IndInv, TypeOK, TableInv, LaterIsHigherPriority, StartScan, tableVars
<1>6. CallInv'
  BY DEF IndInv, TypeOK, CallInv, InCall, StartScan, callVars
<1>7. OrderlyInv'
  BY DEF IndInv, TypeOK, OrderlyInv, StartScan, tableVars, callVars
<1> QED
  BY <1>1, <1>2, <1>3, <1>4, <1>5, <1>6, <1>7 DEF IndInv, TableInv

LEMMA AcquireInd ==
  ASSUME IndInv, NEW c \in Clients, NEW t \in Transponders, Acquire(c, t)
  PROVE  IndInv'
<1>1. TypeOK'
  BY DEF IndInv, TypeOK, Acquire, Overlap, Goto, tableVars
<1>2. TableOrdered'
  BY DEF IndInv, TypeOK, TableOrdered, Acquire, tableVars
<1>3. (\A x \in active : at[x] \in Subscribed)'
  BY DEF IndInv, TypeOK, TableInv, Subscribed, Acquire, Goto, tableVars
<1>4. ErasedAreTold'
  BY DEF IndInv, TypeOK, TableInv, ErasedAreTold, Acquire, Goto, tableVars
<1>5. LaterIsHigherPriority'
  BY DEF IndInv, TypeOK, TableInv, LaterIsHigherPriority, Acquire, tableVars
<1>6. CallInv'
  <2>1. \A x \in Clients : at'[x] = IF x = c THEN "acquiring" ELSE at[x]
    BY DEF IndInv, TypeOK, Acquire, Goto
  <2>2. \A x \in Clients : at'[x] # "out" => transponder'[x] \in Transponders
    BY <2>1 DEF IndInv, TypeOK, CallInv, Acquire
  <2>3. ~overlapped' => \A x \in Clients : at[x] \in {"out", "holding"}
    BY DEF Acquire, Overlap, InCall
  <2> QED
    BY <2>1, <2>2, <2>3 DEF IndInv, CallInv, InCall, Acquire
<1>7. OrderlyInv'
  BY DEF IndInv, TypeOK, OrderlyInv, Acquire, Overlap, Goto, tableVars
<1> QED
  BY <1>1, <1>2, <1>3, <1>4, <1>5, <1>6, <1>7 DEF IndInv, TableInv

LEMMA RefuseInd ==
  ASSUME IndInv, NEW c \in Clients, Refuse(c)
  PROVE  IndInv'
<1>1. TypeOK'
  BY DEF IndInv, TypeOK, Refuse, Goto, tableVars
<1>2. TableOrdered'
  BY DEF IndInv, TypeOK, TableOrdered, Refuse, tableVars
<1>3. (\A x \in active : at[x] \in Subscribed)'
  BY DEF IndInv, TypeOK, TableInv, Subscribed, Refuse, Goto, tableVars
<1>4. ErasedAreTold'
  BY DEF IndInv, TypeOK, TableInv, ErasedAreTold, Refuse, Goto, tableVars
<1>5. LaterIsHigherPriority'
  BY DEF IndInv, TypeOK, TableInv, LaterIsHigherPriority, Refuse, tableVars
<1>6. CallInv'
  BY DEF IndInv, TypeOK, CallInv, InCall, Refuse, Goto
<1>7. OrderlyInv'
  BY DEF IndInv, TypeOK, TableInv, Subscribed, OrderlyInv, Refuse, Goto, tableVars
<1> QED
  BY <1>1, <1>2, <1>3, <1>4, <1>5, <1>6, <1>7 DEF IndInv, TableInv

(* The block under m_mutex: the preempted are erased from the table and the *)
(* caller is put at its end.                                                *)
LEMMA RegisterInd ==
  ASSUME IndInv, NEW c \in Clients, Register(c)
  PROVE  IndInv'
<1> DEFINE kept == active \ LowerPriority(c)
<1>1. /\ active' = kept \cup {c} /\ before' = (before \cap (kept \X kept)) \cup (kept \X {c})
      /\ c \notin active /\ at[c] = "acquiring" /\ CanTune(c)
      /\ at' = [at EXCEPT ![c] = "notifying"]
      /\ lowerPrio' = [lowerPrio EXCEPT ![c] = LowerPriority(c)]
      /\ switchNeeded' = [switchNeeded EXCEPT ![c] = SwitchNeeded(c)]
      /\ tuned' = IF kept = {} THEN Untuned(transponder[c]) ELSE tuned
      /\ sidelined' = (sidelined \/ (SwitchNeeded(c) /\ kept # {}))
      /\ UNCHANGED <<receivers, scanning, transponder, pass, told, wanted, overlapped>>
  BY DEF IndInv, TableInv, Subscribed, Register, Goto
<1>2. kept \subseteq active /\ active \subseteq Clients /\ LowerPriority(c) \subseteq active
  BY DEF IndInv, TypeOK, LowerPriority
<1>3. \A d \in active : Type(d) >= Type(c)
  BY <1>1 DEF CanTune
<1> HIDE DEF kept
<1>4. TypeOK'
  <2>1. active' \subseteq Clients /\ before' \subseteq Clients \X Clients
    BY <1>1, <1>2 DEF IndInv
  <2>2. /\ tuned' \in Transponders \cup {None}
        /\ at' \in [Clients -> {"out", "acquiring", "notifying", "switching", "tuning", "holding",
                               "releasing", "clearing", "detaching"}]
    BY <1>1 DEF IndInv, TypeOK, Untuned
  <2>3. lowerPrio' \in [Clients -> SUBSET Clients]
    BY <1>1, <1>2 DEF IndInv, TypeOK
  <2>4. switchNeeded' \in [Clients -> BOOLEAN] /\ sidelined' \in BOOLEAN
    BY <1>1 DEF IndInv, TypeOK, SwitchNeeded
  <2> QED
    BY <1>1, <2>1, <2>2, <2>3, <2>4 DEF IndInv, TypeOK
<1>5. TableOrdered'
  <2>1. before' \subseteq active' \X active'
    BY <1>1, <1>2
  <2>2. \A d, e \in active' : <<d, e>> \in before' <=> \/ d \in kept /\ e \in kept /\ <<d, e>> \in before
                                                       \/ d \in kept /\ e = c
    BY <1>1
  <2>3. c \notin kept
    BY <1>1, <1>2
  <2>4. \A d \in active' : <<d, d>> \notin before'
    BY <1>1, <1>2, <2>2, <2>3 DEF IndInv, TableOrdered
  <2>5. \A d, e \in active' : d # e => (<<d, e>> \in before' <=> <<e, d>> \notin before')
    <3> SUFFICES ASSUME NEW d \in active', NEW e \in active', d # e
                 PROVE  <<d, e>> \in before' <=> <<e, d>> \notin before'
      OBVIOUS
    <3>1. CASE d \in kept /\ e \in kept
      BY <1>2, <2>2, <2>3, <3>1 DEF IndInv, TableOrdered
    <3>2. CASE d = c \/ e = c
      BY <1>1, <2>2, <2>3, <3>2
    <3> QED
      BY <1>1, <3>1, <3>2
  <2>6. \A d, e, f \in active' : <<d, e>> \in before' /\ <<e, f>> \in before' => <<d, f>> \in before'
    BY <1>1, <1>2, <2>2, <2>3 DEF IndInv, TableOrdered
  <2> QED
    BY <2>1, <2>4, <2>5, <2>6 DEF TableOrdered
<1>6. (\A d \in active : at[d] \in Subscribed)'
  BY <1>1, <1>2 DEF IndInv, TypeOK, TableInv, Subscribed
<1>7. ErasedAreTold'
  BY <1>1, <1>2 DEF IndInv, TypeOK, TableInv, ErasedAreTold, kept
<1>8. LaterIsHigherPriority'
  BY <1>1, <1>2, <1>3 DEF IndInv, TableInv, LaterIsHigherPriority
<1>9. CallInv'
  BY <1>1 DEF IndInv, TypeOK, CallInv, InCall
<1>10. OrderlyInv'
  <2> SUFFICES ASSUME ~overlapped, ~sidelined'
               PROVE  OrderlyInv'
    BY <1>1 DEF OrderlyInv
  <2>1. ~sidelined /\ (SwitchNeeded(c) => kept = {})
    BY <1>1 DEF IndInv
  <2>2. \A d \in Clients : d # c => at[d] \in {"out", "holding"}
    BY <1>1 DEF IndInv, CallInv, InCall
  <2>3. \A d \in active : at[d] = "holding" /\ tuned = transponder[d] /\ (d \in wanted => d \in receivers)
    BY <1>1, <1>2, <2>1, <2>2 DEF IndInv, TableInv, Subscribed, OrderlyInv
  <2>4. ASSUME ~SwitchNeeded(c)
        PROVE  tuned' = transponder[c]
    <3>1. PICK d \in active : Shares(c, d)
      BY <2>4 DEF SwitchNeeded
    <3>2. d \in kept
      BY <3>1 DEF kept, LowerPriority, IndInv, TableOrdered
    <3> QED
      BY <1>1, <2>3, <3>1, <3>2 DEF Shares
  <2>5. ASSUME NEW d \in active', at'[d] = "holding"
        PROVE  tuned' = transponder'[d] /\ (d \in wanted' => d \in receivers')
    <3>1. d \in kept
      BY <1>1, <2>5 DEF IndInv
    <3> QED
      BY <1>1, <1>2, <2>3, <3>1
  <2>6. /\ c \in active' /\ lowerPrio'[c] \cap active' = {}
        /\ IF switchNeeded'[c] THEN active' = {c} ELSE tuned' = transponder'[c]
    <3>1. lowerPrio'[c] = LowerPriority(c) /\ (switchNeeded'[c] <=> SwitchNeeded(c))
      BY <1>1 DEF IndInv, TypeOK
    <3>2. LowerPriority(c) \cap active' = {}
      BY <1>1, <1>2 DEF kept
    <3> QED
      BY <1>1, <2>1, <2>4, <3>1, <3>2
  <2>7. \A d \in Clients : d # c => at'[d] \in {"out", "holding"}
    BY <1>1, <2>2 DEF IndInv
  <2>8. at'[c] = "notifying"
    BY <1>1 DEF IndInv, TypeOK
  <2> QED
    BY <2>5, <2>6, <2>7, <2>8 DEF OrderlyInv
<1> QED
  BY <1>4, <1>5, <1>6, <1>7, <1>8, <1>9, <1>10 DEF IndInv, TableInv

LEMMA NotifyInd ==
  ASSUME IndInv, NEW c \in Clients, NotifyLowerPriority(c)
  PROVE  IndInv'
<1>1. TypeOK'
  BY DEF IndInv, TypeOK, NotifyLowerPriority, Goto, tableVars
<1>2. TableOrdered'
  BY DEF IndInv, TypeOK, TableOrdered, NotifyLowerPriority, tableVars
<1>3. (\A x \in active : at[x] \in Subscribed)'
  BY DEF IndInv, TypeOK, TableInv, Subscribed, NotifyLowerPriority, Goto, tableVars
<1>4. ErasedAreTold'
  BY DEF IndInv, TypeOK, TableInv, ErasedAreTold, NotifyLowerPriority, Goto, tableVars
<1>5. LaterIsHigherPriority'
  BY DEF IndInv, TypeOK, TableInv, LaterIsHigherPriority, NotifyLowerPriority, tableVars
<1>6. CallInv'
  BY DEF IndInv, TypeOK, CallInv, InCall, NotifyLowerPriority, Goto
<1>7. OrderlyInv'
  BY DEF IndInv, TypeOK, CallInv, OrderlyInv, NotifyLowerPriority, Goto, tableVars
<1> QED
  BY <1>1, <1>2, <1>3, <1>4, <1>5, <1>6, <1>7 DEF IndInv, TableInv

LEMMA DetachAllInd ==
  ASSUME IndInv, NEW c \in Clients, DetachAllReceivers(c)
  PROVE  IndInv'
<1>1. TypeOK'
  BY DEF IndInv, TypeOK, DetachAllReceivers, Goto, tableVars, callVars
<1>2. TableOrdered'
  BY DEF IndInv, TypeOK, TableOrdered, DetachAllReceivers, tableVars
<1>3. (\A x \in active : at[x] \in Subscribed)'
  BY DEF IndInv, TypeOK, TableInv, Subscribed, DetachAllReceivers, Goto, tableVars
<1>4. ErasedAreTold'
  BY DEF IndInv, TypeOK, TableInv, ErasedAreTold, DetachAllReceivers, Goto, tableVars, callVars
<1>5. LaterIsHigherPriority'
  BY DEF IndInv, TypeOK, TableInv, LaterIsHigherPriority, DetachAllReceivers, tableVars
<1>6. CallInv'
  BY DEF IndInv, TypeOK, CallInv, InCall, DetachAllReceivers, Goto, callVars
<1>7. OrderlyInv'
  BY DEF IndInv, TypeOK, OrderlyInv, DetachAllReceivers, Goto, tableVars
<1> QED
  BY <1>1, <1>2, <1>3, <1>4, <1>5, <1>6, <1>7 DEF IndInv, TableInv

LEMMA SwitchChannelInd ==
  ASSUME IndInv, NEW c \in Clients, SwitchChannel(c)
  PROVE  IndInv'
<1>1. TypeOK'
  BY DEF IndInv, TypeOK, SwitchChannel, Goto, tableVars
<1>2. TableOrdered'
  BY DEF IndInv, TypeOK, TableOrdered, SwitchChannel, tableVars
<1>3. (\A x \in active : at[x] \in Subscribed)'
  BY DEF IndInv, TypeOK, TableInv, Subscribed, SwitchChannel, Goto, tableVars
<1>4. ErasedAreTold'
  BY DEF IndInv, TypeOK, TableInv, ErasedAreTold, SwitchChannel, Goto, tableVars
<1>5. LaterIsHigherPriority'
  BY DEF IndInv, TypeOK, TableInv, LaterIsHigherPriority, SwitchChannel, tableVars
<1>6. CallInv'
  BY DEF IndInv, TypeOK, CallInv, InCall, SwitchChannel, Goto
<1>7. OrderlyInv'
  BY DEF IndInv, TypeOK, CallInv, OrderlyInv, SwitchChannel, Goto, tableVars
<1> QED
  BY <1>1, <1>2, <1>3, <1>4, <1>5, <1>6, <1>7 DEF IndInv, TableInv

LEMMA AttachInd ==
  ASSUME IndInv, NEW c \in Clients, Attach(c)
  PROVE  IndInv'
<1>1. TypeOK'
  BY DEF IndInv, TypeOK, Attach, tableVars, callVars
<1>2. TableOrdered'
  BY DEF IndInv, TypeOK, TableOrdered, Attach, tableVars
<1>3. (\A x \in active : at[x] \in Subscribed)'
  BY DEF IndInv, TypeOK, TableInv, Subscribed, Attach, tableVars
<1>4. ErasedAreTold'
  BY DEF IndInv, TypeOK, TableInv, ErasedAreTold, Attach, tableVars, callVars
<1>5. LaterIsHigherPriority'
  BY DEF IndInv, TypeOK, TableInv, LaterIsHigherPriority, Attach, tableVars
<1>6. CallInv'
  BY DEF IndInv, TypeOK, CallInv, InCall, Attach, callVars
<1>7. OrderlyInv'
  BY DEF IndInv, TypeOK, OrderlyInv, Attach, tableVars, callVars
<1> QED
  BY <1>1, <1>2, <1>3, <1>4, <1>5, <1>6, <1>7 DEF IndInv, TableInv

LEMMA ReleaseInd ==
  ASSUME IndInv, NEW c \in Clients, Release(c)
  PROVE  IndInv'
<1>1. TypeOK'
  BY DEF IndInv, TypeOK, Release, Goto, Overlap, tableVars
<1>2. TableOrdered'
  BY DEF IndInv, TypeOK, TableOrdered, Release, tableVars
<1>3. (\A x \in active : at[x] \in Subscribed)'
  BY DEF IndInv, TypeOK, TableInv, Subscribed, Release, Goto, tableVars
<1>4. ErasedAreTold'
  BY DEF IndInv, TypeOK, TableInv, ErasedAreTold, Release, Goto, tableVars
<1>5. LaterIsHigherPriority'
  BY DEF IndInv, TypeOK, TableInv, LaterIsHigherPriority, Release, tableVars
<1>6. CallInv'
  <2>1. \A x \in Clients : at'[x] = IF x = c THEN "releasing" ELSE at[x]
    BY DEF IndInv, TypeOK, Release, Goto
  <2>2. \A x \in Clients : at'[x] # "out" => transponder'[x] \in Transponders
    BY <2>1 DEF IndInv, TypeOK, CallInv, Release
  <2>3. ~overlapped' => \A x \in Clients : at[x] \in {"out", "holding"}
    BY DEF Release, Overlap, InCall
  <2> QED
    BY <2>1, <2>2, <2>3 DEF IndInv, CallInv, InCall, Release
<1>7. OrderlyInv'
  BY DEF IndInv, TypeOK, OrderlyInv, Release, Goto, Overlap, tableVars
<1> QED
  BY <1>1, <1>2, <1>3, <1>4, <1>5, <1>6, <1>7 DEF IndInv, TableInv

LEMMA UnregisterInd ==
  ASSUME IndInv, NEW c \in Clients, Unregister(c)
  PROVE  IndInv'
<1>1. TypeOK'
  BY DEF IndInv, TypeOK, Unregister, Erase, Goto, callVars
<1>2. TableOrdered'
  BY DEF IndInv, TypeOK, TableOrdered, Unregister, Erase
<1>3. (\A x \in active : at[x] \in Subscribed)'
  BY DEF IndInv, TypeOK, TableInv, Subscribed, Unregister, Erase, Goto
<1>4. ErasedAreTold'
  BY DEF IndInv, TypeOK, TableInv, ErasedAreTold, Unregister, Erase, Goto, callVars
<1>5. LaterIsHigherPriority'
  BY DEF IndInv, TypeOK, TableInv, LaterIsHigherPriority, Unregister, Erase
<1>6. CallInv'
  BY DEF IndInv, TypeOK, CallInv, InCall, Unregister, Goto, callVars
<1>7. OrderlyInv'
  BY DEF IndInv, TypeOK, CallInv, InCall, OrderlyInv, Unregister, Erase, Goto, callVars
<1> QED
  BY <1>1, <1>2, <1>3, <1>4, <1>5, <1>6, <1>7 DEF IndInv, TableInv

LEMMA ClearChannelInd ==
  ASSUME IndInv, NEW c \in Clients, ClearChannel(c)
  PROVE  IndInv'
<1>1. TypeOK'
  BY DEF IndInv, TypeOK, ClearChannel, Untuned, Goto, tableVars, callVars
<1>2. TableOrdered'
  BY DEF IndInv, TypeOK, TableOrdered, ClearChannel, tableVars
<1>3. (\A x \in active : at[x] \in Subscribed)'
  BY DEF IndInv, TypeOK, TableInv, Subscribed, ClearChannel, Goto, tableVars
<1>4. ErasedAreTold'
  BY DEF IndInv, TypeOK, TableInv, ErasedAreTold, ClearChannel, Goto, tableVars, callVars
<1>5. LaterIsHigherPriority'
  BY DEF IndInv, TypeOK, TableInv, LaterIsHigherPriority, ClearChannel, tableVars
<1>6. CallInv'
  BY DEF IndInv, TypeOK, CallInv, InCall, ClearChannel, Goto, callVars
<1>7. OrderlyInv'
  BY DEF IndInv, TypeOK, OrderlyInv, ClearChannel, Untuned, Goto, tableVars
<1> QED
  BY <1>1, <1>2, <1>3, <1>4, <1>5, <1>6, <1>7 DEF IndInv, TableInv

LEMMA DetachInd ==
  ASSUME IndInv, NEW c \in Clients, DetachReceivers(c)
  PROVE  IndInv'
<1>1. TypeOK'
  BY DEF IndInv, TypeOK, DetachReceivers, DropHandle, Goto, tableVars
<1>2. TableOrdered'
  BY DEF IndInv, TypeOK, TableOrdered, DetachReceivers, tableVars
<1>3. (\A x \in active : at[x] \in Subscribed)'
  BY DEF IndInv, TypeOK, TableInv, Subscribed, DetachReceivers, Goto, tableVars
<1>4. ErasedAreTold'
  BY DEF IndInv, TypeOK, TableInv, ErasedAreTold, DetachReceivers, DropHandle, Goto, tableVars
<1>5. LaterIsHigherPriority'
  BY DEF IndInv, TypeOK, TableInv, LaterIsHigherPriority, DetachReceivers, tableVars
<1>6. CallInv'
  BY DEF IndInv, TypeOK, CallInv, InCall, DetachReceivers, DropHandle, Goto
<1>7. OrderlyInv'
  BY DEF IndInv, TypeOK, TableInv, Subscribed, OrderlyInv, DetachReceivers, DropHandle, Goto, tableVars
<1> QED
  BY <1>1, <1>2, <1>3, <1>4, <1>5, <1>6, <1>7 DEF IndInv, TableInv

LEMMA StepInd ==
  IndInv /\ [Next]_vars => IndInv'
<1> SUFFICES ASSUME IndInv, [Next]_vars
             PROVE  IndInv'
  OBVIOUS
<1>1. ASSUME NEW c \in Clients, Continue(c)
      PROVE  IndInv'
  BY <1>1, RefuseInd, RegisterInd, NotifyInd, DetachAllInd, SwitchChannelInd, UnregisterInd,
     ClearChannelInd, DetachInd DEF Continue
<1>2. CASE Next
  BY <1>1, <1>2, StartScanInd, AcquireInd, AttachInd, ReleaseInd DEF Next
<1>3. CASE UNCHANGED vars
  BY <1>3 DEF IndInv, TypeOK, TableOrdered, TableInv, ErasedAreTold, LaterIsHigherPriority, CallInv, InCall,
     OrderlyInv, vars, tableVars, callVars
<1> QED
  BY <1>2, <1>3

-----------------------------------------------------------------------------
(* The theorems.                                                            *)

(* The inductive invariant holds of every behaviour of the device.          *)
THEOREM Inductive ==
  Spec => []IndInv
BY InitInd, StepInd, PTL DEF Spec

(* The table, the device and the calls stay within their types: Release()   *)
(* runs at most twice per handle.                                           *)
THEOREM SubscriptionTypesCorrect ==
  Spec => []TypeOK
<1>1. IndInv => TypeOK
  BY DEF IndInv
<1> QED
  BY <1>1, Inductive, PTL

(* The set of active handles and the order between them are a sequence      *)
(* without repetition, as m_activeTransponders is.                          *)
THEOREM TableIsASequence ==
  Spec => []TableOrdered
<1>1. IndInv => TableOrdered
  BY DEF IndInv
<1> QED
  BY <1>1, Inductive, PTL

(* Whoever holds a handle is registered, has been told that it lost its     *)
(* priority, or is about to be told by the call that erased it.             *)
THEOREM ErasedIsTold ==
  Spec => []RegisteredUntilTold
<1>1. IndInv => RegisteredUntilTold
  BY DEF IndInv, TableInv, ErasedAreTold, RegisteredUntilTold
<1> QED
  BY <1>1, Inductive, PTL

(* m_activeTransponders is sorted by priority, however calls interleave:    *)
(* CanTune() looks at it under the mutex that also guards the insertion.    *)
THEOREM TableIsByPriority ==
  Spec => []LaterIsHigherPriority
<1>1. IndInv => LaterIsHigherPriority
  BY DEF IndInv, TableInv
<1> QED
  BY <1>1, Inductive, PTL

(* A client is registered once, and only between its Acquire() and its      *)
(* Release(), failed switches and repeated releases included.               *)
THEOREM OnlySubscribersRegistered ==
  Spec => []RegisteredAreSubscribed
<1>1. IndInv => RegisteredAreSubscribed
  BY DEF IndInv, TableOrdered, TableInv, Subscribed, RegisteredAreSubscribed
<1> QED
  BY <1>1, Inductive, PTL

(* While calls come one at a time and nobody is switched away from by a     *)
(* subscriber of its own type, every registered handle is served.           *)
THEOREM RegisteredAreServed ==
  Spec => []HoldersAreServed
<1>1. IndInv => HoldersAreServed
  <2> SUFFICES ASSUME IndInv, ~overlapped, ~sidelined, \A c \in Clients : ~InCall(c), NEW c \in active
               PROVE  tuned = transponder[c] /\ (c \in wanted => c \in receivers)
    BY DEF HoldersAreServed
  <2>1. at[c] = "holding"
    BY DEF IndInv, TypeOK, TableInv, Subscribed, InCall
  <2> QED
    BY <2>1 DEF IndInv, OrderlyInv
<1> QED
  BY <1>1, Inductive, PTL

(* And a device nobody is registered on is not left tuned.                  *)
THEOREM UnusedIsCleared ==
  Spec => []UnusedIsUntuned
<1>1. IndInv => UnusedIsUntuned
  BY DEF IndInv, OrderlyInv, UnusedIsUntuned, InCall
<1> QED
  BY <1>1, Inductive, PTL
=============================================================================
