---------------------------- MODULE SdCardProofs ----------------------------
(***************************************************************************)
(* Proofs about SdCard, for every set of cards, every command that may     *)
(* fail and any number of failures and exchanges.                          *)
(***************************************************************************)
EXTENDS SdCard, TLAPS

Errors    == {"none", "timeout", "other"}
Devices   == [alloc : {"live", "freed"}, rca : {0, 1}, sdhc : BOOLEAN,
              v18 : BOOLEAN, failedSwitch : BOOLEAN, removal : BOOLEAN, error : Errors]
Command   == InitCommand \cup {"status", "select", "stop", "data"}

\* the commands of an initialisation before the card has an address
Early == {"CMD0", "CMD8", "CMD5", "OCR", "ACMD41", "SWITCH", "CMD2", "CMD3"}

\* a card that has told its capacity
Identified == {"ident", "stby", "tran", "data", "rcv"}

\* The capacity class in the structure is that of the card in the slot, if this
\* has got so far; a card that is put in begins at "idle".
Known ==
    dev.alloc = "live" /\ pc # "reset" /\ card # None
        /\ (card.state \in Identified \/ (card.state = "ready" /\ pc \in {"SWITCH", "CMD2"})) =>
            dev.sdhc = card.kind.sdhc

NoAddressYet == pc \in Early => dev.rca = 0

\* nothing but a removal comes between sd_ensure_data_mode and the first try
InTran == pc = "data" /\ tries = 0 /\ ~removal /\ ~dev.removal =>
    card # None /\ card.state = "tran"

TriesCounted ==
    /\ pc \in {"status", "select", "stop", "recheck"} => tries = 0
    /\ pc \in InitCommand \cup {"reset", "done"} /\ init.caller # "libfs" => tries = 0
    /\ pc = "data" => tries < 3

\* a card that has just been put in, or reset, has no address
Forgotten ==
    pc = "idle" /\ ret = "fail" /\ dev.alloc = "live" /\ dev.rca # 0 =>
        card = None \/ card.rca = 0

Inv ==
    /\ TypeOK
    /\ Known /\ NoAddressYet /\ InTran /\ TriesCounted /\ Forgotten
    /\ RightUnit /\ FirstTryInTran

-----------------------------------------------------------------------------
(* Commands *)

LEMMA Types ==
    ASSUME TypeOK
    PROVE  /\ card = None \/ card \in CardState
           /\ dev \in Devices
           /\ removal \in BOOLEAN
  BY DEF TypeOK, CardState, State, Devices, Errors

LEMMA ToStates ==
    ASSUME NEW c \in Command, card \in CardState
    PROVE  To(c) \subseteq State
  BY DEF To, CardState, State, Command, InitCommand

LEMMA AfterCard ==
    ASSUME NEW c \in Command, card \in CardState, NEW d \in After(c)
    PROVE  /\ d \in CardState
           /\ d.kind = card.kind
           /\ d.state \in To(c)
  <1>1. PICK s \in To(c) : d = [card EXCEPT !.state = s,
            !.rca = IF s = "idle" THEN 0 ELSE IF c = "CMD3" THEN 1 ELSE card.rca]
    BY DEF After
  <1>2. s \in State
    BY ToStates
  <1> QED
    BY <1>1, <1>2 DEF CardState

\* what a result says of the card: a command that failed may have moved it or not
LEMMA ResultOfCommand ==
    ASSUME TypeOK, NEW c \in Command, NEW r \in Results(c)
    PROVE  /\ r.ok \in BOOLEAN
           /\ r.error \in Errors
           /\ \/ r.card = card
              \/ /\ card # None /\ card.state \in From(c)
                 /\ r.card \in After(c)
           /\ r.ok => /\ ~removal /\ ~dev.removal
                      /\ card # None /\ card.state \in From(c)
                      /\ r.card \in After(c)
  <1>1. dev.error \in Errors
    BY Types DEF Devices
  <1>2. CASE Barred
    <2>1. r = Result(FALSE, dev.error, card)
      BY <1>2 DEF Results
    <2> QED
      BY <1>1, <2>1 DEF Result
  <1>3. CASE ~Barred /\ ~Obeys(c)
    <2>1. r = Result(FALSE, "timeout", card)
      BY <1>3 DEF Results
    <2> QED
      BY <2>1 DEF Result, Errors
  <1>4. CASE ~Barred /\ Obeys(c)
    <2>1. card # None /\ card.state \in From(c) /\ ~removal /\ ~dev.removal
      BY <1>4 DEF Barred, Obeys
    <2>2. CASE \E d \in After(c) : r = Result(TRUE, dev.error, d)
      BY <1>1, <2>1, <2>2 DEF Result
    <2>3. CASE \E e \in {"none", "timeout", "other"}, d \in After(c) \cup {card} :
                  r = Result(FALSE, e, d)
      BY <2>1, <2>3 DEF Result, Errors
    <2>4. r \in Obeyed(c) \/ r \in FailsOnCard(c)
      BY <1>4 DEF Results
    <2>5. r \in Obeyed(c) => \E d \in After(c) : r = Result(TRUE, dev.error, d)
      BY DEF Obeyed
    <2>6. r \in FailsOnCard(c) =>
            \E e \in {"none", "timeout", "other"}, d \in After(c) \cup {card} : r = Result(FALSE, e, d)
      BY DEF FailsOnCard, Result
    <2> QED
      BY <2>2, <2>3, <2>4, <2>5, <2>6
  <1> QED
    BY <1>2, <1>3, <1>4

LEMMA ResultCard ==
    ASSUME TypeOK, NEW c \in Command, NEW r \in Results(c)
    PROVE  /\ r.card = None \/ r.card \in CardState
           /\ r.ok => r.card \in CardState /\ r.card.kind = card.kind /\ r.card.state \in To(c)
           /\ \/ r.card = card
              \/ /\ card # None /\ card.state \in From(c)
                 /\ r.card \in CardState /\ r.card.kind = card.kind /\ r.card.state \in To(c)
  <1>1. card = None \/ card \in CardState
    BY Types
  <1>2. card # None => \A d \in After(c) : d \in CardState /\ d.kind = card.kind /\ d.state \in To(c)
    BY <1>1, AfterCard
  <1> QED
    BY <1>1, <1>2, ResultOfCommand

\* from which state a command may have brought the card
LEMMA WhereFrom ==
    ASSUME TypeOK, NEW c \in Command, NEW r \in Results(c), r.card # None
    PROVE  /\ r.card.state \in Identified =>
                /\ card # None /\ r.card.kind = card.kind
                /\ card.state \in Identified \/ (c = "CMD2" /\ card.state = "ready")
           /\ r.card.state = "ready" /\ c # "ACMD41" =>
                card # None /\ r.card.kind = card.kind /\ card.state = "ready"
  <1>1. CASE r.card = card
    BY <1>1
  <1>2. CASE /\ card # None /\ card.state \in From(c)
             /\ r.card \in CardState /\ r.card.kind = card.kind /\ r.card.state \in To(c)
    <2>1. r.card.state \in Identified => card.state \in Identified \/ (c = "CMD2" /\ card.state = "ready")
      BY <1>2 DEF From, To, Identified, Command, InitCommand
    <2>2. r.card.state = "ready" /\ c # "ACMD41" => card.state = "ready"
      BY <1>2 DEF From, To, Command, InitCommand
    <2> QED
      BY <1>2, <2>1, <2>2
  <1> QED
    BY <1>1, <1>2, ResultCard

\* a card becomes ready if it may know its own capacity
LEMMA ReadyCard ==
    ASSUME TypeOK, NEW r \in Results("ACMD41"), r.ok, r.card.state = "ready"
    PROVE  r.card \in CardState /\ (r.card.kind.sdhc => init.v2)
  <1>1. "ACMD41" \in Command
    BY DEF Command, InitCommand
  <1>2. r.card \in CardState /\ r.card.kind = card.kind /\ r.card.state \in To("ACMD41")
    BY <1>1, ResultCard
  <1> QED
    BY <1>2 DEF To

LEMMA Hears ==
    ASSUME TypeOK, NEW r, r.error \in Errors
    PROVE  /\ Heard(r) \in Devices
           /\ Heard(r).alloc = dev.alloc /\ Heard(r).rca = dev.rca
           /\ Heard(r).sdhc = dev.sdhc
           /\ Heard(r).removal = Barred
  <1>1. dev \in Devices
    BY Types
  <1>2. Barred \in BOOLEAN
    BY Types DEF Barred, Devices
  <1> QED
    BY <1>1, <1>2 DEF Heard, Devices

LEMMA Counted ==
    ASSUME TypeOK, NEW c \in Command, NEW r, sd_issue_command(c, r)
    PROVE  faults' \in 0 .. MaxFaults /\ swaps' \in 0 .. MaxSwaps
  <1>1. faults \in 0 .. MaxFaults /\ swaps \in 0 .. MaxSwaps
    BY DEF TypeOK
  <1>2. swaps' = swaps
    BY DEF sd_issue_command
  <1>3. CASE ~Barred /\ Obeys(c) /\ ~r.ok
    <2>1. r \in Obeyed(c) \/ (faults < MaxFaults /\ r \in FailsOnCard(c))
      BY <1>3 DEF sd_issue_command, Results
    <2>2. r \notin Obeyed(c)
      BY <1>3 DEF Obeyed, Result
    <2>3. faults' = faults + 1
      BY <1>3 DEF sd_issue_command
    <2> QED
      BY <1>1, <1>2, <2>1, <2>2, <2>3, SdAssumption
  <1>4. CASE ~(~Barred /\ Obeys(c) /\ ~r.ok)
    <2>1. faults' = faults
      BY <1>4 DEF sd_issue_command
    <2> QED
      BY <1>1, <1>2, <2>1
  <1> QED
    BY <1>3, <1>4

\* a command that does not teach the driver the capacity keeps what it knows
LEMMA KnownKept ==
    ASSUME TypeOK, Known, NEW c \in Command, NEW r \in Results(c),
           pc # "reset", c = "CMD2" => pc = "CMD2",
           card' = r.card, dev'.sdhc = dev.sdhc,
           dev'.alloc = "live" => dev.alloc = "live",
           pc' \in {"SWITCH", "CMD2"} => pc \in {"SWITCH", "CMD2"} /\ c # "ACMD41"
    PROVE  Known'
  <1>1. r.card # None /\ r.card.state \in Identified =>
          /\ card # None /\ r.card.kind = card.kind
          /\ card.state \in Identified \/ (pc = "CMD2" /\ card.state = "ready")
    BY WhereFrom
  <1>2. r.card # None /\ r.card.state = "ready" /\ pc' \in {"SWITCH", "CMD2"} =>
          /\ card # None /\ r.card.kind = card.kind
          /\ pc \in {"SWITCH", "CMD2"} /\ card.state = "ready"
    BY WhereFrom
  <1> QED
    BY <1>1, <1>2 DEF Known

-----------------------------------------------------------------------------
(* sd_card_init *)

InitVars == [caller : {"libfs", "status", "recheck"}, nested : BOOLEAN, v2 : BOOLEAN]
Returns  == {"none", "ok", "fail"}

\* the ways on from a command of the initialisation
GoesOn(r) ==
    /\ pc \in Early
    /\ dev' = Heard(r)
    /\ pc' \in Early \cup {"idle"}
    /\ pc' \in {"SWITCH", "CMD2"} => pc = "SWITCH"
TellsCapacity(r) ==
    /\ pc = "ACMD41" /\ r.ok /\ r.card.state = "ready"
    /\ dev'.sdhc = SupportsSdhc(r.card.kind)
    /\ dev' \in Devices /\ dev'.alloc = dev.alloc /\ dev'.rca = dev.rca
    /\ pc' \in {"SWITCH", "CMD2"}
BeginsAgain(r) ==
    /\ pc = "SWITCH"
    /\ dev' = [Heard(r) EXCEPT !.failedSwitch = TRUE]
    /\ pc' = "reset"
GetsAddress(r) ==
    /\ pc = "CMD3" /\ r.ok
    /\ dev' = [Heard(r) EXCEPT !.rca = r.card.rca]
    /\ pc' = "CMD7"
HasAddress(r) ==
    /\ pc \in {"CMD7", "CMD16", "SCR", "CMD6"}
    /\ dev' = Heard(r)
    /\ pc' \in {"CMD16", "SCR", "CMD6", "done"}
IsFreed(r) ==
    /\ dev' = Freed(Heard(r))
    /\ pc' = "idle"

LEMMA InitStepKinds ==
    ASSUME TypeOK, pc \in InitCommand, NEW r \in Results(pc), InitStep(pc, r)
    PROVE  /\ \/ GoesOn(r) \/ TellsCapacity(r) \/ BeginsAgain(r)
              \/ GetsAddress(r) \/ HasAddress(r) \/ IsFreed(r)
           /\ init' \in InitVars /\ init'.caller = init.caller
           /\ ret' \in Returns /\ given' \in BOOLEAN /\ gaveUp' \in BOOLEAN
  <1>0. /\ init \in InitVars /\ ret \in Returns /\ given \in BOOLEAN /\ gaveUp \in BOOLEAN
        /\ r.ok \in BOOLEAN /\ r.error \in Errors
    BY ResultOfCommand DEF TypeOK, InitVars, Returns, Command
  <1>1. CASE pc = "CMD0"
    BY <1>0, <1>1 DEF InitStep, Proceed, Fail, GoesOn, Early, Returns, InitVars
  <1>2. CASE pc = "CMD8"
    BY <1>0, <1>2 DEF InitStep, SendIfCond, Fail, GoesOn, Early, Returns, InitVars
  <1>3. CASE pc = "CMD5"
    BY <1>0, <1>3 DEF InitStep, Proceed, Fail, GoesOn, Early, Returns, InitVars
  <1>4. CASE pc = "OCR"
    BY <1>0, <1>4 DEF InitStep, Proceed, Fail, GoesOn, Early, Returns, InitVars
  <1>5. CASE pc = "ACMD41"
    <2>1. SendOpCond(r)
      BY <1>5 DEF InitStep
    <2>2. CASE ~r.ok
      BY <1>0, <1>5, <2>1, <2>2 DEF SendOpCond, Fail, GoesOn, Early, Returns, InitVars
    <2>3. CASE r.ok /\ r.card.state # "ready"
      BY <1>0, <1>5, <2>1, <2>3 DEF SendOpCond, Proceed, GoesOn, Early, Returns, InitVars
    <2>4. CASE r.ok /\ r.card.state = "ready"
      <3> DEFINE s18 == r.card.kind.s18 /\ init.v2 /\ ~dev.failedSwitch
                 sdhc == SupportsSdhc(r.card.kind)
      <3>1. Proceed([Heard(r) EXCEPT !.sdhc = sdhc, !.v18 = s18], IF s18 THEN "SWITCH" ELSE "CMD2")
        BY <2>1, <2>4 DEF SendOpCond
      <3>2. s18 \in BOOLEAN /\ sdhc \in BOOLEAN
        BY DEF SupportsSdhc
      <3> HIDE DEF s18, sdhc
      <3>3. Heard(r) \in Devices /\ Heard(r).alloc = dev.alloc /\ Heard(r).rca = dev.rca
        BY <1>0, Hears
      <3>4. dev' = [Heard(r) EXCEPT !.sdhc = sdhc, !.v18 = s18] /\ pc' \in {"SWITCH", "CMD2"}
            /\ UNCHANGED <<init, given, ret, gaveUp>>
        BY <3>1 DEF Proceed
      <3>5. dev' \in Devices /\ dev'.alloc = dev.alloc /\ dev'.rca = dev.rca /\ dev'.sdhc = sdhc
        BY <3>2, <3>3, <3>4 DEF Devices
      <3> QED
        BY <1>0, <1>5, <2>4, <3>4, <3>5 DEF TellsCapacity, sdhc, Returns, InitVars
    <2> QED
      BY <1>0, <2>2, <2>3, <2>4
  <1>6. CASE pc = "SWITCH"
    <2>1. VoltageSwitch(r)
      BY <1>6 DEF InitStep
    <2>2. CASE r.ok
      BY <1>0, <1>6, <2>1, <2>2 DEF VoltageSwitch, Proceed, GoesOn, Early, Returns, InitVars
    <2>3. CASE ~r.ok
      BY <1>0, <1>6, <2>1, <2>3 DEF VoltageSwitch, BeginsAgain, Returns, InitVars
    <2> QED
      BY <2>2, <2>3
  <1>7. CASE pc \in {"CMD2", "CMD3", "CMD7", "CMD16", "SCR"}
    <2>1. Identify(pc, r)
      BY <1>7 DEF InitStep
    <2>2. CASE ~r.ok
      BY <1>0, <1>7, <2>1, <2>2 DEF Identify, Fail, GoesOn, IsFreed, Early, Returns, InitVars
    <2>3. CASE r.ok /\ pc = "CMD2"
      BY <1>0, <2>1, <2>3 DEF Identify, Proceed, GoesOn, Early, Returns, InitVars
    <2>4. CASE r.ok /\ pc = "CMD3"
      BY <1>0, <2>1, <2>4 DEF Identify, Proceed, GetsAddress, Returns, InitVars
    <2>5. CASE r.ok /\ pc \in {"CMD7", "CMD16", "SCR"}
      BY <1>0, <2>1, <2>5 DEF Identify, Proceed, HasAddress, Returns, InitVars
    <2> QED
      BY <1>0, <1>7, <2>2, <2>3, <2>4, <2>5
  <1>8. CASE pc = "CMD6"
    BY <1>0, <1>8 DEF InitStep, Proceed, HasAddress, Returns, InitVars
  <1> QED
    BY <1>1, <1>2, <1>3, <1>4, <1>5, <1>6, <1>7, <1>8 DEF InitCommand

LEMMA InitCommandInv ==
    ASSUME Inv, InitCommandSent
    PROVE  Inv'
  <1>1. pc \in InitCommand /\ UNCHANGED <<call, tries, sent>> /\ TypeOK /\ pc \in Command
    BY DEF InitCommandSent, Inv, Command
  <1>2. PICK r \in Results(pc) : sd_issue_command(pc, r) /\ InitStep(pc, r)
    BY DEF InitCommandSent
  <1>3. /\ GoesOn(r) \/ TellsCapacity(r) \/ BeginsAgain(r)
           \/ GetsAddress(r) \/ HasAddress(r) \/ IsFreed(r)
        /\ init' \in InitVars /\ init'.caller = init.caller
        /\ ret' \in Returns /\ given' \in BOOLEAN /\ gaveUp' \in BOOLEAN
    BY <1>1, <1>2, InitStepKinds
  <1>4. card' = r.card /\ removal' = FALSE
    BY <1>2 DEF sd_issue_command
  <1>5. r.card = None \/ r.card \in CardState
    BY <1>1, ResultCard
  <1>6. /\ Heard(r) \in Devices /\ Heard(r).alloc = dev.alloc
        /\ Heard(r).rca = dev.rca /\ Heard(r).sdhc = dev.sdhc
    BY <1>1, ResultOfCommand, Hears
  <1>7. /\ dev' \in Devices
        /\ pc' \in InitCommand \cup {"idle", "reset", "done"}
        /\ pc' \in Early => dev'.rca = 0
        /\ pc' = "idle" /\ dev'.alloc = "live" => dev'.rca = 0
        /\ Known'
    <2>1. pc \in Early => dev.rca = 0
      BY DEF Inv, NoAddressYet
    <2>2. Known
      BY DEF Inv
    <2>3. ASSUME dev'.sdhc = dev.sdhc, dev'.alloc = "live" => dev.alloc = "live",
                 pc' \in {"SWITCH", "CMD2"} => pc = "SWITCH"
          PROVE  Known'
      <3>1. pc # "reset" /\ (pc' \in {"SWITCH", "CMD2"} => pc \in {"SWITCH", "CMD2"} /\ pc # "ACMD41")
        BY <1>1, <2>3 DEF InitCommand
      <3> QED
        BY <1>1, <1>2, <1>4, <2>2, <2>3, <3>1, KnownKept
    <2>4. CASE GoesOn(r)
      <3>1. Known'
        BY <1>6, <2>3, <2>4 DEF GoesOn
      <3> QED
        BY <1>6, <2>1, <2>4, <3>1 DEF GoesOn, Early, InitCommand
    <2>5. CASE TellsCapacity(r)
      <3>1. r \in Results("ACMD41") /\ r.ok /\ r.card.state = "ready"
        BY <2>5 DEF TellsCapacity
      <3>2. r.card \in CardState /\ (r.card.kind.sdhc => init.v2)
        BY <1>1, <3>1, ReadyCard
      <3>3. r.card.kind.sdhc \in BOOLEAN
        BY <3>2, SdAssumption DEF CardState
      <3>4. dev'.sdhc = r.card.kind.sdhc
        BY <2>5, <3>2, <3>3 DEF TellsCapacity, SupportsSdhc
      <3>5. Known'
        BY <1>4, <3>4 DEF Known
      <3>6. pc \in Early
        BY <2>5 DEF TellsCapacity, Early
      <3> QED
        BY <2>1, <2>5, <3>5, <3>6 DEF TellsCapacity, InitCommand
    <2>6. CASE BeginsAgain(r)
      <3>1. pc' = "reset" /\ dev' \in Devices
        BY <1>6, <2>6 DEF BeginsAgain, Devices
      <3>2. Known'
        BY <3>1 DEF Known
      <3> QED
        BY <3>1, <3>2 DEF Early
    <2>7. CASE GetsAddress(r)
      <3>1. r.card \in CardState /\ r.card.rca \in {0, 1}
        BY <1>1, <2>7, ResultCard DEF GetsAddress, CardState
      <3>2. dev' \in Devices /\ dev'.alloc = dev.alloc /\ dev'.sdhc = dev.sdhc /\ pc' = "CMD7"
        BY <1>6, <2>7, <3>1 DEF GetsAddress, Devices
      <3>3. Known'
        BY <2>3, <3>2
      <3> QED
        BY <3>2, <3>3 DEF Early, InitCommand
    <2>8. CASE HasAddress(r)
      <3>1. Known'
        BY <1>6, <2>3, <2>8 DEF HasAddress
      <3> QED
        BY <1>6, <2>8, <3>1 DEF HasAddress, Early, InitCommand
    <2>9. CASE IsFreed(r)
      <3>1. dev' \in Devices /\ dev'.alloc = "freed" /\ pc' = "idle"
        BY <1>6, <2>9 DEF IsFreed, Freed, Devices
      <3>2. Known'
        BY <3>1 DEF Known
      <3> QED
        BY <3>1, <3>2 DEF Early
    <2> QED
      BY <1>3, <2>4, <2>5, <2>6, <2>7, <2>8, <2>9
  <1>8. faults' \in 0 .. MaxFaults /\ swaps' \in 0 .. MaxSwaps
    BY <1>1, <1>2, Counted
  <1>9. TypeOK'
    BY <1>1, <1>3, <1>4, <1>5, <1>7, <1>8
       DEF TypeOK, Devices, Errors, InitVars, Returns
  <1>10. NoAddressYet' /\ InTran' /\ Forgotten'
    BY <1>7 DEF NoAddressYet, InTran, Forgotten, InitCommand
  <1>11. TriesCounted'
    BY <1>1, <1>3, <1>7 DEF Inv, TriesCounted, InitCommand
  <1>12. RightUnit' /\ FirstTryInTran'
    BY <1>1 DEF Inv, RightUnit, FirstTryInTran
  <1> QED
    BY <1>7, <1>9, <1>10, <1>11, <1>12 DEF Inv

\* a card that is put in, or that the power cycle of an initialisation resets
LEMMA FreshCard ==
    ASSUME NEW k \in Cards
    PROVE  /\ Inserted(k) \in CardState
           /\ Inserted(k).state = "idle" /\ Inserted(k).rca = 0
  BY DEF Inserted, CardState, State

LEMMA ResetInv ==
    ASSUME Inv, Reset
    PROVE  Inv'
  <1>1. /\ pc = "reset" /\ card # None /\ card' = Inserted(card.kind) /\ removal' = FALSE
        /\ dev' = Cleared /\ pc' = "CMD0"
        /\ UNCHANGED <<init, given, ret, gaveUp>> /\ UNCHANGED <<call, tries, faults, swaps, sent>>
    BY DEF Reset, Proceed
  <1>2. TypeOK /\ dev \in Devices /\ card \in CardState
    BY <1>1, Types DEF Inv
  <1>3. card' \in CardState /\ card'.state = "idle"
    BY <1>1, <1>2, FreshCard DEF CardState
  <1>4. dev' \in Devices /\ dev'.rca = 0
    BY <1>1, <1>2 DEF Cleared, Blank, Devices, Errors
  <1>5. TypeOK'
    <2>1. card' \in {None} \cup CardState /\ pc' \in InitCommand /\ removal' = FALSE
      BY <1>1, <1>3 DEF InitCommand
    <2>2. UNCHANGED <<init, given, ret, gaveUp, call, tries, faults, swaps>>
      BY <1>1
    <2>3. dev' \in [alloc : {"live", "freed"}, rca : {0, 1}, sdhc : BOOLEAN,
                    v18 : BOOLEAN, failedSwitch : BOOLEAN, removal : BOOLEAN,
                    error : {"none", "timeout", "other"}]
      BY <1>4 DEF Devices, Errors
    <2>4. removal' \in BOOLEAN
      BY <2>1
    <2>5. /\ init \in [caller : {"libfs", "status", "recheck"}, nested : BOOLEAN, v2 : BOOLEAN]
          /\ call \in [op : {"none", "init", "read", "write"}, multi : BOOLEAN]
          /\ ret \in {"none", "ok", "fail"} /\ given \in BOOLEAN /\ gaveUp \in BOOLEAN
          /\ tries \in 0 .. 3 /\ faults \in 0 .. MaxFaults /\ swaps \in 0 .. MaxSwaps
      BY <1>2 DEF TypeOK
    <2>6. /\ init' \in [caller : {"libfs", "status", "recheck"}, nested : BOOLEAN, v2 : BOOLEAN]
          /\ call' \in [op : {"none", "init", "read", "write"}, multi : BOOLEAN]
          /\ ret' \in {"none", "ok", "fail"} /\ given' \in BOOLEAN /\ gaveUp' \in BOOLEAN
          /\ tries' \in 0 .. 3 /\ faults' \in 0 .. MaxFaults /\ swaps' \in 0 .. MaxSwaps
      BY <2>2, <2>5
    <2> QED
      BY <2>1, <2>3, <2>4, <2>6 DEF TypeOK
  <1>6. Known' /\ NoAddressYet' /\ InTran' /\ Forgotten'
    BY <1>1, <1>3, <1>4 DEF Known, NoAddressYet, InTran, Forgotten, Identified
  <1>7. TriesCounted'
    BY <1>1 DEF Inv, TriesCounted, InitCommand
  <1>8. RightUnit' /\ FirstTryInTran'
    BY <1>1 DEF Inv, RightUnit, FirstTryInTran
  <1> QED
    BY <1>5, <1>6, <1>7, <1>8 DEF Inv

LEMMA ResetFailsInv ==
    ASSUME Inv, ResetFails
    PROVE  Inv'
  <1>1. /\ pc = "reset" /\ dev' = dev /\ pc' = "idle" /\ ret' = "fail"
        /\ UNCHANGED <<init, given, gaveUp>> /\ UNCHANGED <<removal, call, tries, swaps, sent>>
    BY DEF ResetFails, Fail
  <1>2. TypeOK /\ dev \in Devices /\ (card = None \/ card \in CardState)
    BY Types DEF Inv
  <1>3. \/ card' = None /\ faults' = faults
        \/ card' \in CardState /\ card'.state = "idle" /\ card'.rca = 0 /\ faults' \in 0 .. MaxFaults
    <2>1. CASE card = None
      BY <2>1 DEF ResetFails
    <2>2. CASE card # None
      <3>1. card' = Inserted(card.kind) /\ faults < MaxFaults /\ faults' = faults + 1
        BY <2>2 DEF ResetFails
      <3>2. faults' \in 0 .. MaxFaults
        BY <1>2, <3>1, SdAssumption DEF TypeOK
      <3> QED
        BY <1>2, <2>2, <3>1, <3>2, FreshCard DEF CardState
    <2> QED
      BY <2>1, <2>2
  <1>4. TypeOK'
    BY <1>1, <1>2, <1>3 DEF TypeOK, CardState, State, Devices, Errors
  <1>5. Known' /\ NoAddressYet' /\ InTran' /\ Forgotten'
    BY <1>1, <1>3 DEF Known, NoAddressYet, InTran, Forgotten, Identified, Early
  <1>6. TriesCounted'
    BY <1>1 DEF TriesCounted, InitCommand
  <1>7. RightUnit' /\ FirstTryInTran'
    BY <1>1 DEF Inv, RightUnit, FirstTryInTran
  <1> QED
    BY <1>4, <1>5, <1>6, <1>7 DEF Inv

LEMMA CommandResetFailsInv ==
    ASSUME Inv, CommandResetFails
    PROVE  Inv'
  <1>1. TypeOK /\ Known /\ NoAddressYet
    BY DEF Inv
  <1>2. PICK c \in {"CMD8", "CMD5"} : \E r \in Results(c) :
          pc = c /\ card' = r.card /\ Fail(Heard(r))
    BY DEF CommandResetFails
  <1>3. PICK r \in Results(c) : pc = c /\ card' = r.card /\ Fail(Heard(r))
    BY <1>2
  <1>4. c \in Command /\ c # "CMD2" /\ pc \in Early /\ pc # "reset"
    BY <1>3 DEF Command, InitCommand, Early
  <1>5. card' = None \/ card' \in CardState
    BY <1>1, <1>3, <1>4, ResultCard
  <1>6. Heard(r) \in Devices /\ Heard(r).alloc = dev.alloc
        /\ Heard(r).sdhc = dev.sdhc /\ Heard(r).rca = dev.rca
    BY <1>1, <1>4, ResultOfCommand, Hears
  <1>7. /\ dev' = Heard(r) /\ pc' = "idle" /\ ret' = "fail" /\ UNCHANGED <<init, given, gaveUp>>
        /\ removal' = FALSE /\ faults' = faults + 1 /\ faults < MaxFaults
        /\ UNCHANGED <<call, tries, swaps, sent>>
    BY <1>3 DEF CommandResetFails, Fail
  <1>8. faults' \in 0 .. MaxFaults
    BY <1>1, <1>7, SdAssumption DEF TypeOK
  <1>9. TypeOK'
    <2>1. dev' \in Devices
      BY <1>6, <1>7
    <2>2. card' \in {None} \cup CardState /\ removal' \in BOOLEAN
      BY <1>5, <1>7
    <2>3. pc' = "idle" /\ ret' \in Returns
      BY <1>7 DEF Returns
    <2>4. /\ init' \in InitVars /\ given' \in BOOLEAN /\ gaveUp' \in BOOLEAN
          /\ call' \in [op : {"none", "init", "read", "write"}, multi : BOOLEAN]
          /\ tries' \in 0 .. 3 /\ swaps' \in 0 .. MaxSwaps
      BY <1>1, <1>7 DEF TypeOK, InitVars
    <2> QED
      BY <1>8, <2>1, <2>2, <2>3, <2>4 DEF TypeOK, Devices, Errors, InitVars, Returns
  <1>10. Known'
    BY <1>1, <1>3, <1>4, <1>6, <1>7, KnownKept
  <1>11. NoAddressYet' /\ InTran' /\ Forgotten' /\ TriesCounted'
    BY <1>1, <1>4, <1>6, <1>7
       DEF NoAddressYet, InTran, Forgotten, TriesCounted, Early, InitCommand
  <1>12. RightUnit' /\ FirstTryInTran'
    BY <1>7 DEF Inv, RightUnit, FirstTryInTran
  <1> QED
    BY <1>9, <1>10, <1>11, <1>12 DEF Inv

LEMMA InitDoneInv ==
    ASSUME Inv, InitDone
    PROVE  Inv'
  <1>1. /\ pc = "done" /\ removal' = FALSE
        /\ UNCHANGED <<card, dev, init, call, tries, faults, swaps, sent, gaveUp>>
        /\ \/ pc' = "idle" /\ ret' = "ok" /\ given' = ~init.nested
           \/ init.caller # "libfs" /\ pc' = init.caller /\ UNCHANGED <<ret, given>>
    BY DEF InitDone
  <1>2. init.caller \in {"libfs", "status", "recheck"} /\ init.nested \in BOOLEAN
    BY DEF Inv, TypeOK
  <1>3. pc' \in {"idle", "status", "recheck"} /\ given' \in BOOLEAN /\ ret' \in Returns
    BY <1>1, <1>2 DEF Inv, TypeOK, Returns
  <1>4. TypeOK'
    <2>1. TypeOK /\ removal' \in BOOLEAN /\ UNCHANGED <<card, dev, init, call, tries, faults, swaps, gaveUp>>
      BY <1>1 DEF Inv
    <2> QED
      BY <1>3, <2>1 DEF TypeOK, Returns
  <1>5. Known'
    BY <1>1, <1>3 DEF Inv, Known
  <1>6. NoAddressYet' /\ InTran'
    BY <1>3 DEF NoAddressYet, InTran, Early
  <1>7. Forgotten'
    <2>1. pc' = "idle" => ret' = "ok"
      BY <1>1, <1>2
    <2> QED
      BY <2>1 DEF Forgotten
  <1>8. TriesCounted'
    <2>1. init.caller # "libfs" => tries = 0
      BY <1>1 DEF Inv, TriesCounted
    <2> QED
      BY <1>1, <1>3, <2>1 DEF TriesCounted, InitCommand
  <1>9. RightUnit' /\ FirstTryInTran'
    BY <1>1 DEF Inv, RightUnit, FirstTryInTran
  <1> QED
    BY <1>4, <1>5, <1>6, <1>7, <1>8, <1>9 DEF Inv

-----------------------------------------------------------------------------
(* sd_ensure_data_mode and sd_do_data_command *)

GivesUp(r) ==
    /\ dev' = [Heard(r) EXCEPT !.rca = 0]
    /\ pc' = "idle" /\ ret' = "fail"
    /\ UNCHANGED <<init, given, gaveUp>>
Initialises(r) ==
    /\ dev' = Heard(r) /\ pc' = "reset"
    /\ init' = [caller |-> "recheck", nested |-> FALSE, v2 |-> FALSE]
    /\ gaveUp' = FALSE /\ UNCHANGED <<given, ret>>
Continues(r) ==
    /\ dev' = Heard(r) /\ pc' \in {"select", "stop", "recheck", "data"}
    /\ pc' = "data" => r.ok /\ r.card.state = "tran"
    /\ UNCHANGED <<init, given, ret, gaveUp>>

LEMMA EnsureKinds ==
    ASSUME TypeOK, EnsureDataMode
    PROVE  /\ pc \in {"status", "select", "stop", "recheck"}
           /\ \E c \in {"status", "select", "stop"} : \E r \in Results(c) :
                /\ sd_issue_command(c, r)
                /\ GivesUp(r) \/ Initialises(r) \/ Continues(r)
  <1>1. \A r : Forget(r) => GivesUp(r)
    BY DEF Forget, Fail, GivesUp
  <1>2. \A r, x : Proceed(Heard(r), x) /\ x \in {"select", "stop", "recheck"} => Continues(r)
    BY DEF Proceed, Continues
  <1>3. \A r : Proceed(Heard(r), "data") /\ r.ok /\ r.card.state = "tran" => Continues(r)
    BY DEF Proceed, Continues
  <1>4. CASE pc = "status" /\ \E r \in Results("status") : sd_issue_command("status", r) /\ Status(r)
    <2>1. PICK r \in Results("status") : sd_issue_command("status", r) /\ Status(r)
      BY <1>4
    <2>2. CASE ~r.ok
      BY <1>1, <1>4, <2>1, <2>2 DEF Status
    <2>3. CASE r.ok /\ ByState(r.card.state) = "reset"
      <3>1. Initialises(r)
        BY <2>1, <2>3 DEF Status, CallInit, Initialises
      <3> QED
        BY <1>4, <2>1, <3>1
    <2>4. CASE r.ok /\ ByState(r.card.state) # "reset"
      <3>1. Proceed(Heard(r), ByState(r.card.state))
        BY <2>1, <2>4 DEF Status
      <3>2. \/ ByState(r.card.state) \in {"select", "stop", "recheck"}
            \/ ByState(r.card.state) = "data" /\ r.card.state = "tran"
        BY <2>4 DEF ByState
      <3>3. Continues(r)
        BY <1>2, <1>3, <2>4, <3>1, <3>2
      <3> QED
        BY <1>4, <2>1, <3>3
    <2> QED
      BY <2>2, <2>3, <2>4
  <1>5. CASE pc = "recheck" /\ \E r \in Results("status") : sd_issue_command("status", r) /\ Recheck(r)
    <2>1. PICK r \in Results("status") : sd_issue_command("status", r) /\ Recheck(r)
      BY <1>5
    <2>2. GivesUp(r) \/ Continues(r)
      BY <1>1, <1>3, <2>1 DEF Recheck
    <2> QED
      BY <1>5, <2>1, <2>2
  <1>6. CASE pc \in {"select", "stop"} /\ \E r \in Results(pc) : sd_issue_command(pc, r) /\ SelectOrStop(r)
    <2>1. PICK r \in Results(pc) : sd_issue_command(pc, r) /\ SelectOrStop(r)
      BY <1>6
    <2>2. GivesUp(r) \/ Continues(r)
      BY <1>1, <1>2, <2>1 DEF SelectOrStop
    <2> QED
      BY <1>6, <2>1, <2>2
  <1> QED
    BY <1>4, <1>5, <1>6 DEF EnsureDataMode

LEMMA EnsureDataModeInv ==
    ASSUME Inv, EnsureDataMode, UNCHANGED <<call, tries, sent>>
    PROVE  Inv'
  <1>1. TypeOK /\ Known /\ pc \in {"status", "select", "stop", "recheck"} /\ tries = 0
    BY EnsureKinds DEF Inv, TriesCounted
  <1>0. PICK c \in {"status", "select", "stop"} : \E r \in Results(c) :
          /\ sd_issue_command(c, r)
          /\ GivesUp(r) \/ Initialises(r) \/ Continues(r)
    BY <1>1, EnsureKinds
  <1>2. PICK r \in Results(c) :
          /\ sd_issue_command(c, r)
          /\ GivesUp(r) \/ Initialises(r) \/ Continues(r)
    BY <1>0
  <1>3. c \in Command /\ c # "CMD2" /\ c # "ACMD41"
    BY DEF Command
  <1>4. card' = r.card /\ removal' = FALSE /\ (r.card = None \/ r.card \in CardState)
    BY <1>1, <1>2, <1>3, ResultCard DEF sd_issue_command
  <1>5. Heard(r) \in Devices /\ Heard(r).alloc = dev.alloc /\ Heard(r).sdhc = dev.sdhc
    BY <1>1, <1>3, ResultOfCommand, Hears
  <1>6. /\ dev' \in Devices /\ dev'.alloc = dev.alloc /\ dev'.sdhc = dev.sdhc
        /\ pc' \in {"idle", "reset", "select", "stop", "recheck", "data"}
        /\ pc' = "data" => r.ok /\ card'.state = "tran"
        /\ pc' = "idle" => dev'.rca = 0
    BY <1>2, <1>4, <1>5 DEF GivesUp, Initialises, Continues, Devices
  <1>7. init' \in InitVars /\ ret' \in Returns /\ given' \in BOOLEAN /\ gaveUp' \in BOOLEAN
    <2>1. init \in InitVars /\ ret \in Returns /\ given \in BOOLEAN /\ gaveUp \in BOOLEAN
      BY <1>1 DEF TypeOK, InitVars, Returns
    <2>2. CASE GivesUp(r)
      BY <2>1, <2>2 DEF GivesUp, Returns
    <2>3. CASE Initialises(r)
      BY <2>1, <2>3 DEF Initialises, InitVars
    <2>4. CASE Continues(r)
      BY <2>1, <2>4 DEF Continues
    <2> QED
      BY <1>2, <2>2, <2>3, <2>4
  <1>8. faults' \in 0 .. MaxFaults /\ swaps' \in 0 .. MaxSwaps
    BY <1>1, <1>2, <1>3, Counted
  <1>9. TypeOK'
    BY <1>1, <1>4, <1>6, <1>7, <1>8
       DEF TypeOK, Devices, Errors, InitVars, Returns
  <1>10. Known'
    BY <1>1, <1>2, <1>3, <1>4, <1>6, KnownKept
  <1>11. NoAddressYet' /\ InTran' /\ Forgotten'
    <2>1. r.ok => card' # None
      BY <1>1, <1>3, <1>4, ResultCard, SdAssumption
    <2> QED
      BY <1>6, <2>1 DEF NoAddressYet, InTran, Forgotten, Early
  <1>12. TriesCounted'
    BY <1>1 DEF TriesCounted
  <1>13. RightUnit' /\ FirstTryInTran'
    BY DEF Inv, RightUnit, FirstTryInTran
  <1> QED
    BY <1>9, <1>10, <1>11, <1>12, <1>13 DEF Inv

LEMMA DataCommandInv ==
    ASSUME Inv, DataCommand
    PROVE  Inv'
  <1>1. TypeOK /\ Known /\ pc = "data" /\ tries \in 0 .. 2 /\ call' = call
    BY DEF Inv, DataCommand, TriesCounted, TypeOK
  <1>2. PICK r \in Results("data") : sd_issue_command("data", r) /\ DataStep(r)
    BY DEF DataCommand
  <1>3. "data" \in Command
    BY DEF Command
  <1>4. card' = r.card /\ removal' = FALSE /\ (r.card = None \/ r.card \in CardState)
    BY <1>1, <1>2, <1>3, ResultCard DEF sd_issue_command
  <1>5. Heard(r) \in Devices /\ Heard(r).alloc = dev.alloc /\ Heard(r).sdhc = dev.sdhc
    BY <1>1, <1>3, ResultOfCommand, Hears
  <1>6. \/ /\ dev' = Heard(r) /\ pc' = "idle" /\ ret' = "ok" /\ tries' = tries
        \/ /\ dev' = [Heard(r) EXCEPT !.rca = 0] /\ pc' = "idle" /\ ret' = "fail" /\ tries' = 3
        \/ /\ dev' = Heard(r) /\ pc' = "data" /\ ret' = ret /\ tries' = tries + 1 /\ tries' # 3
    BY <1>2 DEF DataStep, Forget, Fail, Proceed, MaxRetries
  <1>7. UNCHANGED <<init, given, gaveUp>>
    BY <1>2 DEF DataStep, Forget, Fail, Proceed
  <1>8. /\ dev' \in Devices /\ dev'.alloc = dev.alloc /\ dev'.sdhc = dev.sdhc
        /\ pc' \in {"idle", "data"}
        /\ tries' \in 0 .. 3
        /\ pc' = "data" => tries' \in 1 .. 2
        /\ pc' = "idle" => ret' = "ok" \/ dev'.rca = 0
    BY <1>1, <1>5, <1>6 DEF Devices
  <1>9. ret' \in Returns
    BY <1>1, <1>6 DEF TypeOK, Returns
  <1>10. faults' \in 0 .. MaxFaults /\ swaps' \in 0 .. MaxSwaps
    BY <1>1, <1>2, <1>3, Counted
  <1>11. TypeOK'
    <2>1. init' = init /\ given' = given /\ gaveUp' = gaveUp /\ call' = call /\ removal' \in BOOLEAN
      BY <1>1, <1>4, <1>7
    <2>2. pc' \in {"idle", "data"} /\ tries' \in 0 .. 3
      BY <1>8
    <2> QED
      BY <1>1, <1>4, <1>8, <1>9, <1>10, <2>1, <2>2
         DEF TypeOK, CardState, State, Devices, Errors, Returns
  <1>12. Known'
    BY <1>1, <1>2, <1>3, <1>4, <1>8, KnownKept
  <1>13. NoAddressYet' /\ InTran' /\ Forgotten' /\ TriesCounted'
    BY <1>8 DEF NoAddressYet, InTran, Forgotten, TriesCounted, Early, InitCommand
  <1>14. RightUnit' /\ FirstTryInTran'
    <2>1. CASE Barred \/ card = None
      <3>1. sent' = sent
        BY <2>1 DEF DataCommand
      <3> QED
        BY <3>1 DEF Inv, RightUnit, FirstTryInTran
    <2>2. CASE ~(Barred \/ card = None)
      <3>1. sent' = [live |-> dev.alloc = "live", sdhc |-> dev.sdhc, card |-> card, try |-> tries]
        BY <2>2 DEF DataCommand
      <3>2. dev.alloc = "live" /\ card.state = "tran" => dev.sdhc = card.kind.sdhc
        BY <1>1, <2>2 DEF Known, Identified
      <3>3. tries = 0 => card.state = "tran"
        BY <1>1, <2>2 DEF Inv, InTran, Barred
      <3> QED
        BY <3>1, <3>2, <3>3 DEF RightUnit, FirstTryInTran
    <2> QED
      BY <2>1, <2>2
  <1> QED
    BY <1>11, <1>12, <1>13, <1>14 DEF Inv

-----------------------------------------------------------------------------
(* Calls and the slot *)

LEMMA LibfsInitInv ==
    ASSUME Inv, libfs_init
    PROVE  Inv'
  <1>1. /\ pc' = "reset" /\ dev' = Blank /\ ret' = "none" /\ gaveUp' = FALSE
        /\ init' = [caller |-> "libfs", nested |-> FALSE, v2 |-> FALSE]
        /\ call' = [op |-> "init", multi |-> FALSE]
        /\ UNCHANGED <<card, removal, tries, given, faults, swaps, sent>>
    BY DEF libfs_init, CallInit
  <1>2. TypeOK
    BY DEF Inv
  <1>3. dev' \in Devices
    BY <1>1 DEF Blank, Devices, Errors
  <1>4. TypeOK'
    BY <1>1, <1>2, <1>3 DEF TypeOK, Devices, Errors
  <1>5. Known' /\ NoAddressYet' /\ InTran' /\ Forgotten' /\ TriesCounted'
    BY <1>1 DEF Known, NoAddressYet, InTran, Forgotten, TriesCounted, Early
  <1>6. RightUnit' /\ FirstTryInTran'
    BY <1>1 DEF Inv, RightUnit, FirstTryInTran
  <1> QED
    BY <1>4, <1>5, <1>6 DEF Inv

LEMMA ReadOrWriteInv ==
    ASSUME Inv, NEW op \in {"read", "write"}, NEW multi \in BOOLEAN, sd_read_or_write(op, multi)
    PROVE  Inv'
  <1>1. /\ pc = "idle" /\ ret' = "none" /\ tries' = 0 /\ dev' \in Found
        /\ call' = [op |-> op, multi |-> multi]
        /\ UNCHANGED <<card, removal, given, faults, swaps, sent>>
    BY DEF sd_read_or_write
  <1>2. \/ /\ pc' = "reset" /\ gaveUp' = FALSE
           /\ init' = [caller |-> "status", nested |-> FALSE, v2 |-> FALSE]
        \/ pc' = "status" /\ UNCHANGED <<init, gaveUp>>
    BY DEF sd_read_or_write, CallInit
  <1>3. TypeOK /\ dev \in Devices
    BY Types DEF Inv
  <1>4. dev' \in Devices /\ (dev'.alloc = "live" => dev' = dev)
    BY <1>1, <1>3 DEF Found, Devices, Errors
  <1>5. init' \in InitVars /\ gaveUp' \in BOOLEAN /\ pc' \in {"reset", "status"}
    <2>1. init \in InitVars /\ gaveUp \in BOOLEAN
      BY <1>3 DEF TypeOK, InitVars
    <2>2. [caller |-> "status", nested |-> FALSE, v2 |-> FALSE] \in InitVars
      BY DEF InitVars
    <2> QED
      BY <1>2, <2>1, <2>2
  <1>6. call' \in [op : {"none", "init", "read", "write"}, multi : BOOLEAN]
    BY <1>1
  <1>7. TypeOK'
    BY <1>1, <1>3, <1>4, <1>5, <1>6 DEF TypeOK, Devices, Errors, InitVars
  <1>8. Known'
    BY <1>1, <1>4, <1>5 DEF Inv, Known
  <1>9. NoAddressYet' /\ InTran' /\ Forgotten' /\ TriesCounted'
    BY <1>1, <1>5 DEF NoAddressYet, InTran, Forgotten, TriesCounted, Early
  <1>10. RightUnit' /\ FirstTryInTran'
    BY <1>1 DEF Inv, RightUnit, FirstTryInTran
  <1> QED
    BY <1>7, <1>8, <1>9, <1>10 DEF Inv

LEMMA SlotInv ==
    ASSUME Inv, Remove \/ Insert
    PROVE  Inv'
  <1>1. /\ UNCHANGED <<dev, pc, init, call, tries, ret, given, faults, sent, gaveUp>>
        /\ \/ card' = None /\ removal' = TRUE /\ swaps < MaxSwaps /\ swaps' = swaps + 1
           \/ card = None /\ card' \in {Inserted(k) : k \in Cards} /\ UNCHANGED <<removal, swaps>>
    BY DEF Remove, Insert
  <1>2. card' = None \/ (card' \in CardState /\ card'.state = "idle" /\ card'.rca = 0)
    BY <1>1, FreshCard
  <1>3. TypeOK
    BY DEF Inv
  <1>4. swaps' \in 0 .. MaxSwaps
    BY <1>1, <1>3, SdAssumption DEF TypeOK
  <1>5. removal' \in BOOLEAN
    BY <1>1, Types, <1>3
  <1>6. TypeOK'
    BY <1>1, <1>2, <1>3, <1>4, <1>5 DEF TypeOK, CardState, State
  <1>7. Known' /\ NoAddressYet' /\ InTran' /\ Forgotten' /\ TriesCounted'
    BY <1>1, <1>2 DEF Inv, Known, NoAddressYet, InTran, Forgotten, TriesCounted, Identified
  <1>8. RightUnit' /\ FirstTryInTran'
    BY <1>1 DEF Inv, RightUnit, FirstTryInTran
  <1> QED
    BY <1>6, <1>7, <1>8 DEF Inv

-----------------------------------------------------------------------------
(* The theorems *)

LEMMA InitInv == Init => Inv
  <1> SUFFICES ASSUME Init PROVE Inv
    OBVIOUS
  <1>1. PICK k \in Cards : card = Inserted(k)
    BY DEF Init
  <1>2. card \in CardState /\ card.state = "idle"
    BY <1>1, FreshCard
  <1>3. /\ removal = FALSE /\ given = FALSE /\ gaveUp = FALSE
        /\ pc = "idle" /\ tries = 0 /\ ret = "none" /\ faults = 0 /\ swaps = 0 /\ sent = None
        /\ init = [caller |-> "libfs", nested |-> FALSE, v2 |-> FALSE]
        /\ call = [op |-> "none", multi |-> FALSE]
    BY DEF Init
  <1>4. dev \in Devices
    BY DEF Init, Blank, Devices, Errors
  <1>5. faults \in 0 .. MaxFaults /\ swaps \in 0 .. MaxSwaps
    BY <1>3, SdAssumption
  <1>6. TypeOK
    <2>1. init \in InitVars /\ call \in [op : {"none", "init", "read", "write"}, multi : BOOLEAN]
      BY <1>3 DEF InitVars
    <2>2. removal \in BOOLEAN /\ given \in BOOLEAN /\ gaveUp \in BOOLEAN
      BY <1>3
    <2>3. pc = "idle" /\ tries \in 0 .. 3 /\ ret \in Returns
      BY <1>3 DEF Returns
    <2> QED
      BY <1>2, <1>4, <1>5, <2>1, <2>2, <2>3 DEF TypeOK, Devices, Errors, InitVars, Returns
  <1>7. Known /\ NoAddressYet /\ InTran /\ TriesCounted /\ Forgotten
    BY <1>2, <1>3 DEF Known, NoAddressYet, InTran, TriesCounted, Forgotten, Identified, Early
  <1> QED
    BY <1>3, <1>6, <1>7 DEF Inv, RightUnit, FirstTryInTran

\* What the driver knows of the card in the slot is true of that card, whatever
\* fails and however often cards are exchanged.  Code behaviour: sd_card_init,
\* sd_ensure_data_mode, sd_do_data_command.
THEOREM SdInvariant == Spec => []Inv
  <1>1. Inv /\ [Next]_vars => Inv'
    <2> SUFFICES ASSUME Inv, [Next]_vars PROVE Inv'
      OBVIOUS
    <2>1. CASE Call
      BY <2>1, LibfsInitInv, ReadOrWriteInv DEF Call
    <2>2. CASE Reset
      BY <2>2, ResetInv
    <2>3. CASE ResetFails
      BY <2>3, ResetFailsInv
    <2>4. CASE InitCommandSent
      BY <2>4, InitCommandInv
    <2>5. CASE InitDone
      BY <2>5, InitDoneInv
    <2>6. CASE EnsureDataMode /\ UNCHANGED <<call, tries, sent>>
      BY <2>6, EnsureDataModeInv
    <2>7. CASE DataCommand
      BY <2>7, DataCommandInv
    <2>8. CASE Remove \/ Insert
      BY <2>8, SlotInv
    <2>9. CASE CommandResetFails
      BY <2>9, CommandResetFailsInv
    <2>10. CASE UNCHANGED vars
      BY <2>10 DEF vars, Inv, TypeOK, Known, NoAddressYet, InTran, TriesCounted, Forgotten,
                  RightUnit, FirstTryInTran
    <2> QED
      BY <2>1, <2>2, <2>3, <2>4, <2>5, <2>6, <2>7, <2>8, <2>9, <2>10 DEF Next, Driver
  <1> QED
    BY InitInv, <1>1, PTL DEF Spec

\* Every variable of the driver keeps its type; three tries at most are made.
\* Code behaviour: retry_count of sd_do_data_command.
THEOREM SdTypeCorrect == Spec => []TypeOK
  <1>1. Inv => TypeOK
    BY DEF Inv
  <1> QED
    BY <1>1, SdInvariant, PTL

\* A data command that a card obeys carries the block number in the unit of that
\* card.  Code behaviour: card_supports_sdhc in sd_do_data_command.
THEOREM RightUnitHolds == Spec => []RightUnit
  <1>1. Inv => RightUnit
    BY DEF Inv
  <1> QED
    BY <1>1, SdInvariant, PTL

\* The first data command of a call meets a card in its transfer state.  Code
\* behaviour: sd_ensure_data_mode.
THEOREM FirstTryInTranHolds == Spec => []FirstTryInTran
  <1>1. Inv => FirstTryInTran
    BY DEF Inv
  <1> QED
    BY <1>1, SdInvariant, PTL

\* After a call that failed no card in the slot answers to the address that the
\* driver holds.  Code behaviour: card_rca = 0.
THEOREM FailureForgetsCardHolds == Spec => []FailureForgetsCard
  <1>1. Inv => FailureForgetsCard
    <2> SUFFICES ASSUME Inv PROVE FailureForgetsCard
      OBVIOUS
    <2> QED
      BY DEF Inv, Forgotten, FailureForgetsCard
  <1> QED
    BY <1>1, SdInvariant, PTL
=============================================================================
