------------------------------ MODULE MCDesktop ------------------------------
(***************************************************************************)
(* A small desktop for TLC.                                                *)
(***************************************************************************)
EXTENDS Desktop

S == << "Super", "Shift", "S" >>
R == << "Super", "Shift", "R" >>
MCTokens == {"Super", "Ctrl", "Alt", "Shift", "S", "R", "F5", "shift", "win", "r", "Space"}
MCTexts == {<< "shift", "win", "r" >>, << "Super", "F5" >>, << "Super" >>}
MCStrokes == {<< "Super", "Shift", "S" >>, << "Ctrl", "Space" >>}
MCOnDisk == {[a \in Actions |-> IF a = "read" THEN S ELSE R]}
MCInit == Init /\ stt.selected = (CHOOSE m \in SttModels : TRUE) /\ clipboard.kind = "user" /\ copy
MCSpec == MCInit /\ [][Next]_vars /\ Fairness
=============================================================================
