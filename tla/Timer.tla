------------------------------- MODULE Timer -------------------------------
(***************************************************************************)
(* rboot/timer.c: busy waits on the free-running microsecond counter of    *)
(* the BCM2835, of which the code reads the low 32 bits (TIMER_CLO).  Both *)
(* usleep and TIMEOUT_WAIT take a time stamp with register_timer and poll  *)
(* compare_timer; usleep is the wait whose condition never comes true.     *)
(*                                                                         *)
(* The counter runs on between two polls, by MaxGap at most.               *)
(***************************************************************************)
EXTENDS Integers

CONSTANTS
    Modulus,   \* 2^32, the number of values of TIMER_CLO
    MaxGap,    \* bound: the most the counter moves between two polls
    Usecs,     \* the delays asked for (usecs_t is an int)
    Cap        \* bound: the history variable elapsed stops counting here

ASSUME TimerAssumption ==
    /\ Modulus \in Nat \ {0}
    /\ MaxGap \in 1 .. Modulus
    /\ Usecs \subseteq Int
    /\ Cap \in Nat
    /\ \A u \in Usecs : u < Modulus /\ u <= Cap

VARIABLES
    clo,       \* TIMER_CLO
    tw,        \* struct timer_wait of the wait in progress
    pc,        \* "idle", or the next half of the polling loop
    ready,     \* the hardware condition of TIMEOUT_WAIT
    outcome,   \* how the last wait ended
    usec,      \* history: the delay asked for
    elapsed    \* history: microseconds since register_timer, up to Cap

timerVars == <<clo, tw, pc, ready, outcome, usec, elapsed>>

Counter == 0 .. Modulus - 1

TimerInit ==
    /\ clo \in Counter
    /\ tw = [trigger_value |-> 0, rollover |-> FALSE]
    /\ pc = "idle"
    /\ ready \in BOOLEAN
    /\ outcome = "none"
    /\ usec = 0
    /\ elapsed = 0

\* a deviation: the sum is kept in a wider type than the counter's
WideTrigger(u) == clo + u

\* cur_timer + (uint32_t)usec
Trigger(u) == (clo + u) % Modulus

register_timer(u) ==
    IF u < 0
    THEN [trigger_value |-> 0, rollover |-> FALSE]
    ELSE [trigger_value |-> Trigger(u), rollover |-> ~(Trigger(u) > clo)]

\* deviations: the flag is left out; the comparison is strict, or for equality
ComparedWithoutRollover(c) == ~(c < tw.trigger_value)
ComparedStrictly(c) == tw.trigger_value < c /\ ~tw.rollover
ComparedForEquality(c) == c = tw.trigger_value /\ ~tw.rollover

\* compare_timer at counter value c: its argument is a copy, so the flag it
\* clears once the counter has wrapped is still set at the next call
compare_timer(c) == ~(c < tw.trigger_value) /\ ~tw.rollover

\* the counter moves on by d
Passes(d) ==
    /\ clo' = (clo + d) % Modulus
    /\ elapsed' = IF elapsed + d > Cap THEN Cap ELSE elapsed + d

Wait(u) ==
    /\ pc = "idle"
    /\ tw' = register_timer(u)
    /\ usec' = u
    /\ elapsed' = 0
    /\ outcome' = "none"
    /\ pc' = "check"
    /\ UNCHANGED <<clo, ready>>

\* a deviation: the condition is read once, before the loop
CheckNothing ==
    /\ pc = "check"
    /\ pc' = "compare"
    /\ UNCHANGED <<clo, tw, ready, outcome, usec, elapsed>>

\* if(stop_if_true) break; usleep has no such line
Check ==
    /\ pc = "check"
    /\ IF ready
       THEN pc' = "idle" /\ outcome' = "met"
       ELSE pc' = "compare" /\ UNCHANGED outcome
    /\ UNCHANGED <<clo, tw, ready, usec, elapsed>>

\* while(!compare_timer(tw))
Compare(d) ==
    /\ pc = "compare"
    /\ Passes(d)
    /\ IF compare_timer(clo')
       THEN pc' = "idle" /\ outcome' = "timeout"
       ELSE pc' = "check" /\ UNCHANGED outcome
    /\ UNCHANGED <<tw, ready, usec>>

\* the counter runs while nobody waits
Run(d) ==
    /\ pc = "idle"
    /\ clo' = (clo + d) % Modulus
    /\ UNCHANGED <<tw, pc, ready, outcome, usec, elapsed>>

\* the controller raises or clears the bits that are waited for
Hardware ==
    /\ ready' = ~ready
    /\ UNCHANGED <<clo, tw, pc, outcome, usec, elapsed>>

Poll == Check \/ \E d \in 1 .. MaxGap : Compare(d)

TimerNext ==
    \/ \E u \in Usecs : Wait(u)
    \/ Poll
    \/ \E d \in 1 .. MaxGap : Run(d)
    \/ Hardware

TimerSpec == TimerInit /\ [][TimerNext]_timerVars

\* the processor executes nothing but the loop until it ends
TimerFairSpec == TimerSpec /\ WF_timerVars(Poll)

-----------------------------------------------------------------------------
(* Properties *)

TimerTypeOK ==
    /\ clo \in Counter
    /\ tw \in [trigger_value : Counter, rollover : BOOLEAN]
    /\ pc \in {"idle", "check", "compare"}
    /\ ready \in BOOLEAN
    /\ outcome \in {"none", "met", "timeout"}
    /\ usec \in Usecs \cup {0}
    /\ elapsed \in 0 .. Cap

\* A wait that gives up has lasted as long as was asked, wherever the counter
\* stood when it began.  Code behaviour: trigger_value and rollover.
NeverEarly == outcome = "timeout" => elapsed >= usec

\* the trigger lies far enough below the wrap for some poll to see it passed
InReach == ~tw.rollover /\ tw.trigger_value + MaxGap <= Modulus

\* Such a wait is not late either: while it still polls, its time has not
\* come, and it gives up at the first poll after.
NeverLate ==
    /\ pc # "idle" /\ InReach /\ usec > 0 => elapsed < usec
    /\ outcome = "timeout" /\ InReach /\ usec > 0 => elapsed < usec + MaxGap

\* A wait for a condition that comes and stays ends, even if its time stamp
\* wrapped: only silent hardware can hold it for ever.
AnsweredWaitEnds == <>[]ready => []<>(pc = "idle")

\* A wait whose time stamp does not wrap ends without any answer.
WaitInReachEnds == pc # "idle" /\ InReach ~> pc = "idle"

\* Both: the time asked for is kept.  Code behaviour: register_timer and
\* compare_timer.
KeepsTime == NeverEarly /\ NeverLate

\* A wait ends if its hardware answers and if its time stamp does not wrap.
\* Code behaviour: the loop of TIMEOUT_WAIT.
WaitsEnd == AnsweredWaitEnds /\ WaitInReachEnds

\* Every delay comes to an end.  Code behaviour: usleep in emmc.c, "Wait 5 ms".
DelayEnds == pc # "idle" ~> pc = "idle"
=============================================================================
