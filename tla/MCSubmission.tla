---------------------------- MODULE MCSubmission ----------------------------
(* Payloads for the runs of SubmissionManager, in the order of the row ids. *)
EXTENDS SubmissionManager

OneXen11 == <<"Xen11">>
Xen11Pair == <<"Xen11", "Xen11">>
XuniFirstOfThree == <<"Xuni", "Xen11", "Xen11">>

AtFloor == <<1>>
ThreeAtFloor == <<1, 1, 1>>
FloorAndAbove == <<1, 2>>
=============================================================================
