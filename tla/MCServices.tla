----------------------------- MODULE MCServices ------------------------------
(* The services beside the core on small instances.  They share no table   *)
(* here: a behaviour uses one of them, so that a run explores the sum of   *)
(* their states and not the product.  Each set of operations names the     *)
(* service, what may be called, and the troubles it is exposed to.         *)
EXTENDS Board, Clearances, Documents, Digest, Reminders, Assignments, Chat,
        Contracts, TLC

On(op) == op \in mix

Operations ==
  {{"file", "review", "item", kind} : kind \in Kinds}
  \cup {{"clear"}, {"clear", "leave"}}
  \cup {{"upload", "dd254"}, {"upload", "discard", "wiki"},
        {"upload", "discard", "travel"}, {"upload", "discard", "wiki", "stop"}}
  \cup {{"digest", "announce"} \cup trouble :
          trouble \in {{}, {"switch"}, {"reassign"}, {"retry"}, {"stop"},
                       {"transient"}, {"astray", "reassign"}, {"again"}}}
  \cup {{"remind"} \cup trouble :
          trouble \in {{}, {"change"}, {"overlap"}, {"stop"}}}
  \cup {{"assign", "admin"}, {"assign", "fso"}, {"chat"},
        {"declare", "panel"}}

(* For the runs on one service alone.                                      *)
OnlyReminders == {{"remind"}}
OnlyClearances == {{"clear"}}
OnlyContracts == {{"declare", "panel"}}

(* A form that reaches the level or not, spans the visit or not.           *)
Terms ==
  [level : {"secret", "top_secret_sci"}, class : [Forms -> {"confidential", "ts_sci"}],
   spans : {Forms, {}}]
Default == {[level |-> "secret", class |-> [f \in Forms |-> "none"], spans |-> {}]}

vars == <<mix, req, boardVars, clearanceVars, documentVars, digestVars,
          reminderVars, assignmentVars, chatVars, contractVars>>

Init ==
  /\ HandlersInit
  /\ BoardInit /\ ClearancesInit /\ DocumentsInit /\ ChatInit
  /\ ContractsInit /\ terms \in (IF On("declare") THEN Terms ELSE Default)
  /\ DigestInit /\ (~On("digest") => ~daily)
  /\ RemindersInit /\ (~On("remind") => left = 0 /\ summary = {})
  /\ AssignmentsInit /\ (~On("assign") => members = {})

Next ==
  \/ /\ On("file") /\ BoardNext
     /\ UNCHANGED <<clearanceVars, documentVars, digestVars, reminderVars,
                    assignmentVars, chatVars, contractVars>>
  \/ /\ On("clear") /\ ClearancesNext
     /\ UNCHANGED <<boardVars, documentVars, digestVars, reminderVars,
                    assignmentVars, chatVars, contractVars>>
  \/ /\ On("upload") /\ DocumentsNext
     /\ UNCHANGED <<boardVars, clearanceVars, digestVars, reminderVars,
                    assignmentVars, chatVars, contractVars>>
  \/ /\ On("digest") /\ DigestNext
     /\ UNCHANGED <<boardVars, clearanceVars, documentVars, reminderVars,
                    assignmentVars, chatVars, contractVars>>
  \/ /\ On("remind") /\ RemindersNext
     /\ UNCHANGED <<boardVars, clearanceVars, documentVars, digestVars,
                    assignmentVars, chatVars, contractVars>>
  \/ /\ On("assign") /\ AssignmentsNext
     /\ UNCHANGED <<boardVars, clearanceVars, documentVars, digestVars,
                    reminderVars, chatVars, contractVars>>
  \/ /\ On("chat") /\ ChatNext
     /\ UNCHANGED <<boardVars, clearanceVars, documentVars, digestVars,
                    reminderVars, assignmentVars, contractVars>>
  \/ /\ On("declare") /\ ContractsNext
     /\ UNCHANGED <<boardVars, clearanceVars, documentVars, digestVars,
                    reminderVars, assignmentVars, chatVars>>

Spec == Init /\ [][Next]_vars

(* Every variable has its type, and references what is there.              *)
TypeOK ==
  /\ mix \in Mixes
  /\ BoardOK /\ ClearancesOK /\ DocumentsOK /\ DigestOK
  /\ RemindersOK /\ AssignmentsOK /\ ChatOK /\ ContractsOK

Symmetry == Permutations(Requests) \cup Permutations(FSOs)
              \cup Permutations(Staff) \cup Permutations(Requirements)
              \cup Permutations(Forms)
=============================================================================
