------------------------------ MODULE ModelSlots ------------------------------
(***************************************************************************)
(* What the worker manager promises of the memory of its workers, without  *)
(* processes, pids, requests and answers.                                  *)
(*                                                                         *)
(* Each role has a slot: the model it counts as loaded, and what its       *)
(* worker holds.  A model enters only by a load that asked for it and is   *)
(* counted in the same step.  It leaves only for a command that wants it   *)
(* out or because its worker ends; a load takes the model of another role  *)
(* only while its own slot is empty, and never its own model again.  A     *)
(* load can be mislaid: it failed, nothing is counted, and what the worker *)
(* holds is not known until it is asked to load or unload once more.       *)
(***************************************************************************)
CONSTANTS
  Roles,
  NoModel,   \* nothing is counted, nothing is held
  Adrift,    \* what is held is not known
  Gone       \* there is no worker

VARIABLES
  counted,   \* by role: the model that counts as loaded
  held,      \* by role: the model its worker holds
  serving    \* the command at hand: kind, role, model

slotVars == << counted, held, serving >>

Init ==
  /\ counted = [r \in Roles |-> NoModel]
  /\ held = [r \in Roles |-> Gone]

For(kind, r) == serving.kind = kind /\ serving.role = r

\* The command wants the model of r out of memory, or has it thrown out.
WantsOut(r) ==
  \/ For("Unload", r) \/ serving.kind \in {"UnloadAll", "Shutdown"}
  \/ For("Load", r) /\ serving.model # counted[r]
  \/ \E s \in Roles \ {r} : For("Load", s) /\ counted[s] = NoModel

\* It may cost the worker of r its life.
Risks(r) == For("Work", r) \/ For("CancelTtsWorker", r)

Becomes(r, model, memory) == counted'[r] = model /\ held'[r] = memory

Start(r) ==
  /\ For("Load", r) \/ For("ListTones", r)
  /\ counted[r] = NoModel /\ held[r] = Gone
  /\ Becomes(r, NoModel, NoModel)

Fill(r) ==
  /\ For("Load", r)
  /\ counted[r] = NoModel /\ held[r] \in {NoModel, Adrift}
  /\ Becomes(r, serving.model, serving.model)

Mislay(r) ==
  /\ For("Load", r)
  /\ counted[r] = NoModel /\ held[r] # Gone
  /\ Becomes(r, NoModel, Adrift)

Empty(r) ==
  /\ WantsOut(r) /\ held[r] # Gone
  /\ Becomes(r, NoModel, NoModel)

\* The worker reports an error, though it dropped its model.
Refuse(r) ==
  /\ WantsOut(r) /\ held[r] # Gone
  /\ Becomes(r, counted[r], NoModel)

Die(r) == Becomes(r, counted[r], Gone)

GiveUp(r) ==
  /\ WantsOut(r) \/ Risks(r)
  /\ Becomes(r, NoModel, Gone)

Stay(r) == Becomes(r, counted[r], held[r])

SlotStep(r) ==
  Start(r) \/ Fill(r) \/ Mislay(r) \/ Empty(r) \/ Refuse(r) \/ Die(r) \/ GiveUp(r) \/ Stay(r)

Next == \A r \in Roles : SlotStep(r)

Spec == Init /\ [][Next]_slotVars
=============================================================================
