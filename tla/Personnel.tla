----------------------------- MODULE Personnel -----------------------------
(***************************************************************************)
(* The commercial staff: who may act and who may be given work             *)
(* (jwt.strategy.ts, staff-offboarding.service.ts and the triggers of      *)
(* migration 20260731233000_staff_credential_offboarding).                 *)
(*                                                                         *)
(* A request is authenticated when it starts and its transaction comes     *)
(* later, so somebody who is suspended in between still acts once.         *)
(***************************************************************************)
EXTENDS FiniteSets

CONSTANTS
    Admins,     \* administrators
    Support,    \* support agents
    Supply,     \* supply agents, who look after the companions
    Finance,    \* finance staff
    None        \* no value

Staff == Admins \cup Support \cup Supply \cup Finance

ASSUME PersonnelAssumption ==
    /\ Admins \cap (Support \cup Supply \cup Finance) = {}
    /\ Support \cap (Supply \cup Finance) = {} /\ Supply \cap Finance = {}
    /\ None \notin Staff

VARIABLES
    active,     \* staff whose StaffCredential is active
    late        \* suspended staff with a request that was authenticated before

personnel == <<active, late>>

PersonnelTypeOK == active \subseteq Staff /\ late \subseteq Staff \ active

\* Only those on duty have a credential yet.
PersonnelInit(crew) == active = crew /\ late = {}

\* Who may carry out an operation now.
Acting(s) == s \in active \cup late

\* Mutant of Assignable: the trigger does not look at the credential.
AssignableUnchecked(s, holder) == s \in Staff

\* Whether s may become the assignee of work that holder has had.
Assignable(s, holder) == s = holder \/ s \in active

\* A late request has been answered.
Answered(s) == late' = late \ {s} /\ UNCHANGED active

=============================================================================
