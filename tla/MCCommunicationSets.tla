------------------------ MODULE MCCommunicationSets ------------------------
(* Two rules: the first changes the grade of a student and mails, the second *)
(* matches the student before and after the change, were it not claimed.     *)
EXTENDS CommunicationSets

MCMatches == <<{"pass"}, {"pass", "credit"}>>
MCActions == <<<<"credit", "email">>, <<"credit">>>>
=============================================================================
