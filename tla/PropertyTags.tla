---------------------------- MODULE PropertyTags ----------------------------
(***************************************************************************)
(* valvers/rpi-mailbox-interface.c over rpi-mailbox.c: a list of property  *)
(* tags is built in the array pt, handed to the GPU through the mailbox,   *)
(* and read back from pt when the GPU has filled in its answers.           *)
(*                                                                         *)
(* pt is never cleared: a list is built over what is left of the last one. *)
(* Sizes are in bytes, as in the list itself; the words are 32 bits wide.  *)
(***************************************************************************)
EXTENDS Integers, Sequences

CONSTANTS
    Size,      \* tag that rpi_property_add_tag knows -> bytes of its value
    Foreign,   \* tags that it does not know
    PtWords,   \* bound: the words of pt, 8192
    MaxTags,   \* bound: tags of one list
    Answer,    \* the words that the GPU may answer
    MaxOther   \* bound: messages of other channels that wait in the mailbox

PT_OSIZE == 0
PT_OREQUEST_OR_RESPONSE == 1
T_OVALUE_SIZE == 1
T_ORESPONSE == 2
T_OVALUE == 3
MB0_TAGS_ARM_TO_VC == 8
Other == 0

Known == DOMAIN Size

\* the words of a tag: its header and its value
TagWords(tag) == T_OVALUE + Size[tag] \div 4

\* pt has room for every list and the word behind it; the code does not check that
ASSUME TagAssumption ==
    /\ Size \in [Known -> {4 * n : n \in 1 .. 64}]
    /\ Known \subseteq Nat \ {0} /\ Foreign \subseteq Nat \ ({0} \cup Known)
    /\ PtWords \in Nat /\ MaxTags \in Nat /\ MaxOther \in Nat
    /\ \E words \in 1 .. 64 :
          /\ \A tag \in Known : Size[tag] <= 4 * words
          /\ 4 + MaxTags * (T_OVALUE + words) <= PtWords
    /\ Answer \subseteq Int

VARIABLES
    pt, pt_index,
    phase,    \* what the caller and the GPU have done: "list", "sent", "done"
    mailbox,  \* the channels of the messages that wait to be read
    listed,   \* history: the tags of the list, in order
    answers   \* history: what the GPU answered to them

tagVars == <<pt, pt_index, phase, mailbox, listed, answers>>

\* rpi_property_init
Emptied(words) == [words EXCEPT ![PT_OSIZE] = 12, ![PT_OREQUEST_OR_RESPONSE] = 0, ![2] = 0]

TagInit ==
    /\ pt = Emptied([i \in 0 .. PtWords - 1 |-> 0])
    /\ pt_index = 2
    /\ phase = "list"
    /\ mailbox = <<>>
    /\ listed = <<>> /\ answers = <<>>

rpi_property_init ==
    /\ phase = "done"
    /\ pt' = Emptied(pt)
    /\ pt_index' = 2
    /\ phase' = "list"
    /\ listed' = <<>> /\ answers' = <<>>
    /\ UNCHANGED mailbox

-----------------------------------------------------------------------------
(* rpi_property_add_tag *)

\* of the value only the words that are passed are set; the size and the
\* request code are, and a zero behind it all
Tagged(tag, args) ==
    LET v == pt_index + T_OVALUE
        end == v + Size[tag] \div 4
    IN  [i \in DOMAIN pt |->
            CASE i = pt_index -> tag
              [] i = pt_index + T_OVALUE_SIZE -> Size[tag]
              [] i \in {pt_index + T_ORESPONSE, end} -> 0
              [] i \in v .. end - 1 -> IF i - v < args THEN 0 ELSE pt[i]
              [] OTHER -> pt[i]]

\* a deviation: a tag that is not known stays in the list
KeepForeign(tag) == pt' = [pt EXCEPT ![pt_index] = tag, ![pt_index + 1] = 0] /\ pt_index' = pt_index + 1

\* "Unsupported tags, just remove the tag from the list"
DropForeign(tag) == pt' = [pt EXCEPT ![pt_index] = 0] /\ UNCHANGED pt_index

rpi_property_add_tag(tag) ==
    /\ phase = "list" /\ Len(listed) < MaxTags
    /\ IF tag \in Known
       THEN /\ \E args \in {0, Size[tag] \div 4} : pt' = Tagged(tag, args)
            /\ pt_index' = pt_index + TagWords(tag)
            /\ listed' = Append(listed, tag)
       ELSE DropForeign(tag) /\ UNCHANGED listed
    /\ UNCHANGED <<phase, mailbox, answers>>

-----------------------------------------------------------------------------
(* rpi_property_process, rpi_mbox_write, rpi_mbox_read *)

Process ==
    /\ phase = "list"
    /\ pt' = [pt EXCEPT ![PT_OSIZE] = 4 * (pt_index + 1), ![PT_OREQUEST_OR_RESPONSE] = 0]
    /\ phase' = "sent"
    /\ UNCHANGED <<pt_index, mailbox, listed, answers>>

\* where the tags of a list begin, and where it ends
StartsAt(tags) ==
    LET start[n \in 1 .. Len(tags) + 1] ==
          IF n = 1 THEN 2 ELSE start[n - 1] + TagWords(tags[n - 1])
    IN  start

\* the sign bit and the length of what is answered
Response(bytes) == bytes - 2147483647 - 1

\* what the GPU leaves in pt, its answer to the n-th tag being a[n]
Filled(a) ==
    LET Holder(i) == {n \in 1 .. Len(listed) :
                        i \in StartsAt(listed)[n] .. StartsAt(listed)[n] + T_OVALUE + Len(a[n]) - 1}
    IN  [i \in DOMAIN pt |->
            IF i = PT_OREQUEST_OR_RESPONSE THEN Response(0)
            ELSE IF Holder(i) = {} THEN pt[i]
            ELSE LET n == CHOOSE n \in Holder(i) : TRUE
                     o == i - StartsAt(listed)[n]
                 IN  IF o < T_ORESPONSE THEN pt[i]
                     ELSE IF o = T_ORESPONSE THEN Response(4 * Len(a[n]))
                     ELSE a[n][o - T_ORESPONSE]]

\* answers to the tags of a list, one word repeated, none longer than asked for
AnswersTo(tags) ==
    {a \in [1 .. Len(tags) -> {[i \in 1 .. k |-> w] : k \in UNION {1 .. Size[t] \div 4 : t \in Known}, w \in Answer}] :
        \A n \in 1 .. Len(tags) : Len(a[n]) <= Size[tags[n]] \div 4}

Gpu ==
    /\ phase = "sent" /\ answers = <<>> /\ MB0_TAGS_ARM_TO_VC \notin {mailbox[i] : i \in DOMAIN mailbox}
    /\ \E a \in AnswersTo(listed) : pt' = Filled(a) /\ answers' = a
    /\ mailbox' = Append(mailbox, MB0_TAGS_ARM_TO_VC)
    /\ UNCHANGED <<pt_index, phase, listed>>

OtherMessage ==
    /\ Len(mailbox) < MaxOther
    /\ mailbox' = Append(mailbox, Other)
    /\ UNCHANGED <<pt, pt_index, phase, listed, answers>>

\* a deviation: any message ends the wait
AnyChannel(c) == TRUE

\* "Keep reading the register until the desired channel gives us a value"
Desired(c) == c = MB0_TAGS_ARM_TO_VC

rpi_mbox_read ==
    /\ phase = "sent" /\ mailbox # <<>>
    /\ mailbox' = Tail(mailbox)
    /\ phase' = IF Desired(Head(mailbox)) THEN "done" ELSE "sent"
    /\ UNCHANGED <<pt, pt_index, listed, answers>>

-----------------------------------------------------------------------------
(* rpi_property_get *)

\* a deviation: the header is not stepped over
HeaderForgotten(i) == i + pt[i + T_OVALUE_SIZE] \div 4

\* the next tag; beyond the list the size is any word that was left there
After(i) == i + pt[i + T_OVALUE_SIZE] \div 4 + T_OVALUE

\* the loop is over: the index has left pt or the list, or the tag is there
WalkEnds(i, tag) == i < 0 \/ i >= pt[PT_OSIZE] \div 4 \/ pt[i] = tag

\* the index after so many turns of the loop
IndexAfter(tag) ==
    LET index[n \in 0 .. PtWords] ==
          IF n = 0 THEN 2
          ELSE LET i == index[n - 1] IN IF WalkEnds(i, tag) THEN i ELSE After(i)
    IN  index

TagMissing == 0
Astray   == -1

\* where the walk over the list finds the tag, if it does not leave pt or go round in it
rpi_property_get(tag) ==
    LET i == IndexAfter(tag)[PtWords]
    IN  CASE i < 0 \/ ~WalkEnds(i, tag) -> Astray
          [] i >= 0 /\ i >= pt[PT_OSIZE] \div 4 -> TagMissing
          [] i >= 0 /\ i < pt[PT_OSIZE] \div 4 /\ pt[i] = tag -> i

\* the low sixteen bits of the response are the length of the answer
AnswerAt(i) == [k \in 1 .. (pt[i + T_ORESPONSE] % 65536) \div 4 |-> pt[i + T_ORESPONSE + k]]

TagCall ==
    \/ rpi_property_init
    \/ \E tag \in Known \cup Foreign : rpi_property_add_tag(tag)
    \/ Process

TagNext == TagCall \/ Gpu \/ OtherMessage \/ rpi_mbox_read

TagSpec == TagInit /\ [][TagNext]_tagVars

-----------------------------------------------------------------------------
(* Properties *)

First(tag) == CHOOSE n \in 1 .. Len(listed) : listed[n] = tag /\ \A m \in 1 .. n - 1 : listed[m] # tag

\* A tag of the list that has been processed is found, with the answer the GPU
\* gave to it, whatever the words of earlier lists and answers in pt are.
\* Code behaviour: rpi_property_get after rpi_property_process.
GetReturnsAnswer ==
    phase = "done" =>
        \A tag \in {listed[n] : n \in DOMAIN listed} :
            LET i == rpi_property_get(tag)
            IN  i > 0 /\ answers # <<>> /\ AnswerAt(i) = answers[First(tag)]

\* A tag that is not in the list is not found.  Code behaviour: "Return NULL
\* of the property tag cannot be found in the buffer".  It does not hold: the
\* walk steps over the zero that ends the list, by a size that is any word of
\* an earlier list; if that is a response code it goes far below pt.
AbsentTagIsNotFound ==
    phase = "done" =>
        \A tag \in (Known \cup Foreign) \ {listed[n] : n \in DOMAIN listed} :
            rpi_property_get(tag) = TagMissing
=============================================================================
