------------------------------ MODULE MCSendRun ------------------------------
(* Two rows of one dataset, or of two, for TLC. *)
EXTENDS SendRun

OneDataset  == <<"a", "a">>
TwoDatasets == <<"a", "b">>

FourBit  == [tenths |-> 40, scale |-> 1, bits |-> TRUE]
KiloBits == [tenths |-> 15, scale |-> 1000, bits |-> TRUE]

Unlimited  == {<<NoLimit, NoLimit>>}
OneTooLow  == {<<FourBit, NoLimit>>}
SomeTooLow == {<<KiloBits, NoLimit>>, <<FourBit, KiloBits>>}
=============================================================================
