--------------------------- MODULE MCConversation ---------------------------
(* Instances of Conversation and of DatePicker for TLC.  The two machines  *)
(* share no variable: each is explored while the other stands at its start. *)
EXTENDS Conversation, DatePicker, TLC

CONSTANTS p1, p2, b1, b2, small, large

Sizes == small :> 1 @@ large :> 2

Slotted == Permutations({p1, p2})
Booked == Permutations({b1, b2})
Both == Slotted \cup Booked

(* 30 January 2028, before a February of 29 days. *)
FirstDay == 759
Minutes == {355, 1425}

TapRows ==
    [tap : {"month"}, row : {24, 25, 33}] \cup [tap : {"week"}, row : {0, 4, 5}]
    \cup [tap : {"other months", "other weeks"}, row : {0}]

Written ==
    [kind : {"weekday"}, weekday : {1}] \cup [kind : {"next weekday"}, weekday : {0}]
    \cup [kind : {"day"}, day : {29, 31}]
    \cup [kind : {"full date"}, month : {24}, day : {29, 30}]
    \cup [kind : {"day and month"}, month : {1}, day : {29}]
    \cup [kind : {"tomorrow", "words"}]

HoursWritten ==
    [kind : {"now"}] \cup [kind : {"am"}, hour : {12}, minute : {0}]
    \cup [kind : {"clock"}, hour : {6}, minute : {0}]
    \cup [kind : {"hour and part"}, hour : {11}, minute : {45}, part : {"night"}]

Underway == ConversationInit /\ PickerInit
Talk ==
    /\ Underway
    /\ [][\/ PickerInit /\ ConversationNext /\ UNCHANGED pickerVars
          \/ ConversationInit /\ PickerNext /\ UNCHANGED conversationVars]_<<conversationVars, pickerVars>>
=============================================================================
