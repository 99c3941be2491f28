------------------------------- MODULE SdCard -------------------------------
(***************************************************************************)
(* rboot/emmc.c: the driver of the SD card.  A step is one command, from   *)
(* sd_issue_command to what its caller makes of the result.                *)
(*                                                                         *)
(* sd_card_init is called by libfs_init, by sd_ensure_data_mode and, when  *)
(* the switch to 1.8V fails, by itself.  sd_read and sd_write first make   *)
(* sure that the card is in its transfer state.  Meanwhile the card may be *)
(* taken out and another one put in.                                       *)
(*                                                                         *)
(* The card follows the state machine of the SD specification; the numbers *)
(* that the driver compares its state with are 3 (stby), 4 (tran), 5 (data)*)
(***************************************************************************)
EXTENDS Integers

CONSTANTS
    Cards,       \* kinds of card: [v2, sdhc, s18 : BOOLEAN]
    Faulty,      \* the commands that may fail although the card is there
    MaxFaults,   \* bound: commands that fail
    MaxSwaps,    \* bound: times a card is taken out
    None         \* the empty slot, no command

InitCommand == {"CMD0", "CMD8", "CMD5", "OCR", "ACMD41", "SWITCH", "CMD2",
                "CMD3", "CMD7", "CMD16", "SCR", "CMD6"}

State     == {"idle", "ready", "ident", "stby", "tran", "data", "rcv"}
CardState == [kind : Cards, rca : {0, 1}, state : State]

ASSUME SdAssumption ==
    /\ Cards \subseteq [v2 : BOOLEAN, sdhc : BOOLEAN, s18 : BOOLEAN]
    /\ Faulty \subseteq InitCommand \cup {"reset", "status", "select", "stop", "data"}
    /\ MaxFaults \in Nat
    /\ MaxSwaps \in Nat
    /\ None \notin CardState

VARIABLES
    card,      \* the card in the slot
    removal,   \* the removal bit of the INTERRUPT register
    dev,       \* struct emmc_block_dev
    pc,        \* the command to be issued next
    init,      \* the locals of sd_card_init
    call,      \* the call of the block layer or of libfs_init
    tries,     \* retry_count of sd_do_data_command
    ret,       \* what the last call returned
    given,     \* libfs_init has a device
    faults, swaps,
    sent,      \* history: the last data command that a card obeyed
    gaveUp     \* history: the switch to 1.8V has failed in this initialisation

vars == <<card, removal, dev, pc, init, call, tries, ret, given, faults, swaps,
          sent, gaveUp>>

\* a card after power on
Inserted(k) == [kind |-> k, state |-> "idle", rca |-> 0]

\* the device structure after memset
Blank == [alloc |-> "live", rca |-> 0, sdhc |-> FALSE, v18 |-> FALSE,
          failedSwitch |-> FALSE, removal |-> FALSE, error |-> "none"]

Init ==
    /\ card \in {Inserted(k) : k \in Cards}
    /\ removal = FALSE
    /\ dev = Blank
    /\ pc = "idle"
    /\ init = [caller |-> "libfs", nested |-> FALSE, v2 |-> FALSE]
    /\ call = [op |-> "none", multi |-> FALSE]
    /\ tries = 0
    /\ ret = "none"
    /\ given = FALSE
    /\ faults = 0 /\ swaps = 0
    /\ sent = None
    /\ gaveUp = FALSE

-----------------------------------------------------------------------------
(* The card and its slot *)

Remove ==
    /\ card # None
    /\ swaps < MaxSwaps
    /\ card' = None
    /\ removal' = TRUE
    /\ swaps' = swaps + 1
    /\ UNCHANGED <<dev, pc, init, call, tries, ret, given, faults, sent, gaveUp>>

Insert ==
    /\ card = None
    /\ card' \in {Inserted(k) : k \in Cards}
    /\ UNCHANGED <<removal, dev, pc, init, call, tries, ret, given, faults,
                   swaps, sent, gaveUp>>

\* the state in which a card obeys a command, and the one it goes to
From(c) ==
    CASE c = "CMD0" -> State
      [] c \in {"CMD8", "OCR", "ACMD41"} -> {"idle"}
      [] c = "CMD5" -> {}
      [] c \in {"SWITCH", "CMD2"} -> {"ready"}
      [] c = "CMD3" -> {"ident"}
      [] c \in {"CMD7", "select"} -> {"stby"}
      [] c \in {"CMD16", "SCR", "CMD6", "data"} -> {"tran"}
      [] c = "status" -> {"stby", "tran", "data", "rcv"}
      [] c = "stop" -> {"data", "rcv"}

To(c) ==
    CASE c = "CMD0" -> {"idle"}
      [] c = "ACMD41" -> IF card.kind.sdhc /\ ~init.v2 THEN {"idle"}
                                                       ELSE {"idle", "ready"}
      [] c = "CMD2" -> {"ident"}
      [] c = "CMD3" -> {"stby"}
      [] c \in {"CMD7", "select", "stop"} -> {"tran"}
      [] c = "data" -> IF ~call.multi THEN {"tran"}
                       ELSE IF call.op = "read" THEN {"data"} ELSE {"rcv"}
      [] OTHER -> {card.state}

Obeys(c) ==
    /\ card # None
    /\ card.state \in From(c)
    /\ c = "CMD8" => card.kind.v2
    /\ c = "status" => card.rca = dev.rca

After(c) == {[card EXCEPT !.state = s, !.rca = IF s = "idle" THEN 0 ELSE IF c = "CMD3" THEN 1 ELSE @]
               : s \in To(c)}

-----------------------------------------------------------------------------
(* sd_issue_command *)

\* sd_handle_interrupts: a removal bars every command until the structure is
\* cleared
Barred == dev.removal \/ removal

Result(ok, e, d) == [ok |-> ok, error |-> e, card |-> d]

Obeyed(c) == {Result(TRUE, dev.error, d) : d \in After(c)}

\* the card may have changed or not
FailsOnCard(c) == [ok : {FALSE}, error : {"none", "timeout", "other"},
                   card : After(c) \cup {card}]

\* what can come of command c: one the card does not obey times out, one it
\* obeys may still fail
Results(c) ==
    IF Barred THEN {Result(FALSE, dev.error, card)}
    ELSE IF ~Obeys(c) THEN {Result(FALSE, "timeout", card)}
    ELSE Obeyed(c) \cup (IF c \in Faulty /\ faults < MaxFaults THEN FailsOnCard(c) ELSE {})

sd_issue_command(c, r) ==
    /\ r \in Results(c)
    /\ card' = r.card
    /\ removal' = FALSE
    /\ faults' = IF ~Barred /\ Obeys(c) /\ ~r.ok THEN faults + 1 ELSE faults
    /\ UNCHANGED swaps

\* the structure after it: last_error keeps its value when a command succeeds
Heard(r) == [dev EXCEPT !.error = r.error, !.removal = Barred]

-----------------------------------------------------------------------------
(* sd_card_init *)

CallInit(from) ==
    /\ pc' = "reset"
    /\ init' = [caller |-> from, nested |-> FALSE, v2 |-> FALSE]
    /\ gaveUp' = FALSE

libfs_init ==
    /\ pc = "idle" /\ ~given
    /\ CallInit("libfs")
    /\ call' = [op |-> "init", multi |-> FALSE]
    /\ dev' = Blank
    /\ ret' = "none"
    /\ UNCHANGED <<card, removal, tries, given, faults, swaps, sent>>

Fail(d) ==
    /\ dev' = d
    /\ pc' = "idle" /\ ret' = "fail"
    /\ UNCHANGED <<init, given, gaveUp>>

Freed(d) == [d EXCEPT !.alloc = "freed"]

Proceed(d, c) ==
    /\ dev' = d
    /\ pc' = c
    /\ UNCHANGED <<init, given, ret, gaveUp>>

\* a deviation: only the address of the card is cleared
OnlyAddressCleared == [dev EXCEPT !.rca = 0]

\* memset; the flag of a failed switch goes with the rest
Cleared == [Blank EXCEPT !.alloc = dev.alloc]

\* power cycle, reset of the controller, check for a card, clock, memset
Reset ==
    /\ pc = "reset"
    /\ card # None
    /\ card' = Inserted(card.kind)
    /\ removal' = FALSE
    /\ Proceed(Cleared, "CMD0")
    /\ UNCHANGED <<call, tries, faults, swaps, sent>>

\* there is no card, or the controller does not come out of its reset
ResetFails ==
    /\ pc = "reset"
    /\ IF card = None THEN UNCHANGED <<card, faults>>
       ELSE /\ "reset" \in Faulty /\ faults < MaxFaults
            /\ card' = Inserted(card.kind) /\ faults' = faults + 1
    /\ Fail(dev)
    /\ UNCHANGED <<removal, call, tries, swaps, sent>>

TimedOut(r) == ~r.ok /\ r.error \in {"none", "timeout"}

\* a card that does not answer CMD8 is taken for one of version 1
SendIfCond(r) ==
    IF r.ok \/ TimedOut(r)
    THEN /\ dev' = Heard(r) /\ pc' = "CMD5"
         /\ init' = [init EXCEPT !.v2 = r.ok]
         /\ UNCHANGED <<given, ret, gaveUp>>
    ELSE Fail(Heard(r))

\* a deviation: every card of version 2 is taken for one of high capacity
CapacityFromVersion(k) == init.v2

\* the capacity bit of the answer, set only if the driver has set its own
SupportsSdhc(k) == k.sdhc /\ init.v2

SendOpCond(r) ==
    IF ~r.ok THEN Fail(Heard(r))
    ELSE IF r.card.state # "ready" THEN Proceed(Heard(r), "ACMD41")
    ELSE LET k == r.card.kind
             s18 == k.s18 /\ init.v2 /\ ~dev.failedSwitch
         IN  Proceed([Heard(r) EXCEPT !.sdhc = SupportsSdhc(k), !.v18 = s18],
                     IF s18 THEN "SWITCH" ELSE "CMD2")

\* a switch that fails at any point starts sd_card_init again, from within
VoltageSwitch(r) ==
    IF r.ok THEN Proceed(Heard(r), "CMD2")
    ELSE /\ dev' = [Heard(r) EXCEPT !.failedSwitch = TRUE]
         /\ pc' = "reset"
         /\ init' = [init EXCEPT !.nested = TRUE]
         /\ gaveUp' = TRUE
         /\ UNCHANGED <<given, ret>>

\* from CMD3 on the structure is freed when a command fails
Identify(c, r) ==
    IF ~r.ok THEN Fail(IF c = "CMD2" THEN Heard(r) ELSE Freed(Heard(r)))
    ELSE CASE c = "CMD2" -> Proceed(Heard(r), "CMD3")
           [] c = "CMD3" -> Proceed([Heard(r) EXCEPT !.rca = r.card.rca], "CMD7")
           [] c = "CMD7" -> Proceed(Heard(r), IF dev.sdhc THEN "SCR" ELSE "CMD16")
           [] c = "CMD16" -> Proceed(Heard(r), "SCR")
           [] c = "SCR" -> \E n \in {"CMD6", "done"} : Proceed(Heard(r), n)

InitStep(c, r) ==
    CASE c = "CMD0" -> IF r.ok THEN Proceed(Heard(r), "CMD8") ELSE Fail(Heard(r))
      [] c = "CMD8" -> SendIfCond(r)
      [] c = "CMD5" -> IF TimedOut(r) THEN Proceed(Heard(r), "OCR") ELSE Fail(Heard(r))
      [] c = "OCR" -> IF r.ok THEN Proceed(Heard(r), "ACMD41") ELSE Fail(Heard(r))
      [] c = "ACMD41" -> SendOpCond(r)
      [] c = "SWITCH" -> VoltageSwitch(r)
      [] c = "CMD6" -> Proceed(Heard(r), "done")
      [] OTHER -> Identify(c, r)

InitCommandSent ==
    /\ pc \in InitCommand
    /\ \E r \in Results(pc) : sd_issue_command(pc, r) /\ InitStep(pc, r)
    /\ UNCHANGED <<call, tries, sent>>

\* the command line is reset after a CMD8 or CMD5 that timed out, and does not
\* come out of it
CommandResetFails ==
    /\ pc \in {"CMD8", "CMD5"}
    /\ "reset" \in Faulty /\ faults < MaxFaults
    /\ \E r \in Results(pc) : ~r.ok /\ r.error = "timeout" /\ card' = r.card /\ Fail(Heard(r))
    /\ removal' = FALSE
    /\ faults' = faults + 1
    /\ UNCHANGED <<call, tries, swaps, sent>>

\* the interrupts are reset, a pending removal with them; *dev is set, which
\* is a local variable in an inner call
InitDone ==
    /\ pc = "done"
    /\ removal' = FALSE
    /\ IF init.caller = "libfs"
       THEN pc' = "idle" /\ ret' = "ok" /\ given' = ~init.nested
       ELSE pc' = init.caller /\ UNCHANGED <<ret, given>>
    /\ UNCHANGED <<card, dev, init, call, tries, faults, swaps, sent, gaveUp>>

-----------------------------------------------------------------------------
(* sd_ensure_data_mode *)

\* a structure that has been freed holds anything
Found == IF dev.alloc = "live" THEN {dev}
         ELSE [alloc : {"freed"}, rca : {0, 1}, sdhc : BOOLEAN, v18 : {FALSE},
               failedSwitch : {FALSE}, removal : BOOLEAN, error : {"none"}]

sd_read_or_write(op, multi) ==
    /\ pc = "idle" /\ given
    /\ call' = [op |-> op, multi |-> multi]
    /\ ret' = "none"
    /\ tries' = 0
    /\ dev' \in Found
    /\ IF dev'.rca = 0 THEN CallInit("status")
                       ELSE pc' = "status" /\ UNCHANGED <<init, gaveUp>>
    /\ UNCHANGED <<card, removal, given, faults, swaps, sent>>

\* a deviation: the address is kept
FailKeepingAddress(r) == Fail(Heard(r))

Forget(r) == Fail([Heard(r) EXCEPT !.rca = 0])

\* a deviation: a transfer is not stopped
NoStop(state) == IF state = "stby" THEN "select"
                 ELSE IF state \in {"tran", "data"} THEN "data" ELSE "reset"

ByState(state) ==
    CASE state = "stby" -> "select"
      [] state = "data" -> "stop"
      [] state = "tran" -> "data"
      [] OTHER -> "reset"

Status(r) ==
    IF ~r.ok THEN Forget(r)
    ELSE IF ByState(r.card.state) = "reset"
    THEN CallInit("recheck") /\ dev' = Heard(r) /\ UNCHANGED <<given, ret>>
    ELSE Proceed(Heard(r), ByState(r.card.state))

SelectOrStop(r) == IF r.ok THEN Proceed(Heard(r), "recheck") ELSE Forget(r)

Recheck(r) == IF r.ok /\ r.card.state = "tran" THEN Proceed(Heard(r), "data") ELSE Forget(r)

EnsureDataMode ==
    \/ pc = "status" /\ \E r \in Results("status") : sd_issue_command("status", r) /\ Status(r)
    \/ pc = "recheck" /\ \E r \in Results("status") : sd_issue_command("status", r) /\ Recheck(r)
    \/ pc \in {"select", "stop"} /\ \E r \in Results(pc) : sd_issue_command(pc, r) /\ SelectOrStop(r)

-----------------------------------------------------------------------------
(* sd_do_data_command *)

\* a deviation: one more
FourRetries == 4

MaxRetries == 3

\* a deviation: refused commands are not counted
UncountedStep(r) ==
    IF r.ok
    THEN /\ dev' = Heard(r) /\ pc' = "idle" /\ ret' = "ok"
         /\ UNCHANGED <<init, tries, given, gaveUp>>
    ELSE Proceed(Heard(r), "data") /\ UNCHANGED tries

\* the block layer asks for whole blocks only: the two tests of the size are
\* always passed
DataStep(r) ==
    IF r.ok
    THEN /\ dev' = Heard(r) /\ pc' = "idle" /\ ret' = "ok"
         /\ UNCHANGED <<init, tries, given, gaveUp>>
    ELSE /\ tries' = tries + 1
         /\ IF tries' = MaxRetries THEN Forget(r) ELSE Proceed(Heard(r), "data")

DataCommand ==
    /\ pc = "data"
    /\ \E r \in Results("data") : sd_issue_command("data", r) /\ DataStep(r)
    /\ sent' = IF Barred \/ card = None THEN sent
               ELSE [live |-> dev.alloc = "live", sdhc |-> dev.sdhc,
                     card |-> card, try |-> tries]
    /\ UNCHANGED call

Call ==
    \/ libfs_init
    \/ \E op \in {"read", "write"}, multi \in BOOLEAN : sd_read_or_write(op, multi)

Driver ==
    \/ Reset \/ ResetFails \/ InitCommandSent \/ CommandResetFails \/ InitDone
    \/ (EnsureDataMode /\ UNCHANGED <<call, tries, sent>>)
    \/ DataCommand

Next == Call \/ Driver \/ Remove \/ Insert

Spec == Init /\ [][Next]_vars

\* a card does not stay busy for ever
CardReady == pc = "ACMD41" /\ InitCommandSent /\ pc' # "ACMD41"

FairSpec ==
    /\ Spec
    /\ WF_vars(Driver) /\ WF_vars(CardReady)
    /\ WF_vars(Call) /\ WF_vars(Insert)

-----------------------------------------------------------------------------
(* Properties *)

TypeOK ==
    /\ card \in {None} \cup CardState
    /\ removal \in BOOLEAN /\ given \in BOOLEAN /\ gaveUp \in BOOLEAN
    /\ dev \in [alloc : {"live", "freed"}, rca : {0, 1}, sdhc : BOOLEAN,
               v18 : BOOLEAN, failedSwitch : BOOLEAN, removal : BOOLEAN,
               error : {"none", "timeout", "other"}]
    /\ pc \in InitCommand \cup
             {"idle", "reset", "done", "status", "select", "stop", "recheck", "data"}
    /\ init \in [caller : {"libfs", "status", "recheck"},
                nested : BOOLEAN, v2 : BOOLEAN]
    /\ call \in [op : {"none", "init", "read", "write"}, multi : BOOLEAN]
    /\ tries \in 0 .. 3
    /\ ret \in {"none", "ok", "fail"}
    /\ faults \in 0 .. MaxFaults /\ swaps \in 0 .. MaxSwaps

\* A data command that a card obeys carries the block number in the unit of
\* that very card, bytes or blocks, after any exchange of cards and any
\* failure.  Code behaviour: "SDSC cards use byte addresses rather than block
\* addresses" in sd_do_data_command.
RightUnit ==
    sent # None /\ sent.live /\ sent.card.state = "tran" =>
        sent.sdhc = sent.card.kind.sdhc

\* The first data command of a call finds the card in its transfer state, and
\* so not in the middle of an earlier transfer nor fresh in the slot.  Code
\* behaviour: sd_ensure_data_mode, "in the correct mode".
FirstTryInTran ==
    sent # None /\ sent.live /\ sent.try = 0 => sent.card.state = "tran"

\* After a call has failed the driver holds no address that the card in the
\* slot answers to: the next call starts with initialisation, at the latest
\* once its first command has failed.  Code behaviour: card_rca = 0.
FailureForgetsCard ==
    pc = "idle" /\ ret = "fail" /\ call.op \in {"read", "write"}
        /\ dev.alloc = "live" /\ dev.rca # 0 =>
            card = None \/ card.rca # dev.rca

\* a high capacity card whose answer to CMD8 was lost is told that the driver
\* does not know of high capacity, and stays busy
StaysBusy == pc = "ACMD41" /\ card # None /\ card.kind.sdhc /\ ~init.v2

\* Every call of the driver ends: its loops over retries and over a busy card,
\* and sd_card_init calling itself; but a card may stay busy as above.  Code
\* behaviour: the loop of sd_card_init over ACMD41, retry_count.
CallEnds == (pc # "idle" ~> pc = "idle") \/ <>[]StaysBusy

\* When commands have ceased to fail and cards to be exchanged, calls succeed
\* again and again, unless the structure was freed or the card stays busy.
\* Code behaviour: "Try again to initialise the card".
Recovers == []<>(ret = "ok") \/ <>[](dev.alloc = "freed") \/ <>[]StaysBusy

\* Once the switch to 1.8V has failed it is not tried again.  Code behaviour:
\* failed_voltage_switch, "Switch to 1.8V mode if possible".  It does not hold:
\* the call of sd_card_init from inside clears the structure, and the mark.
SwitchGivenUp == pc = "SWITCH" => ~gaveUp

\* No call works on a structure that has been freed.  Code behaviour:
\* sd_ensure_data_mode may "Try again to initialise the card" of a device.  It
\* does not hold: sd_card_init frees the device it was given when a command
\* from CMD3 on fails, and the file system keeps its pointer.
NoUseAfterFree ==
    call.op \in {"read", "write"} /\ ret = "none" => dev.alloc = "live"
=============================================================================
