------------------------------- MODULE Rights -------------------------------
(***************************************************************************)
(* Requests of users about their data (account-governance.service.ts).     *)
(* Support agents claim them, an administrator may take any of them over,  *)
(* and an answer of the user to a question puts one back into the queue.   *)
(* What a user may ask for, which happens once per kind at a time, is one  *)
(* identifier here; texts and evidence references are left out.            *)
(***************************************************************************)
EXTENDS Personnel

CONSTANTS
    Requests    \* requests about data

VARIABLES
    right       \* DataRightsRequest: status, handler

ActiveRight == {"submitted", "inReview", "needsInformation"}

RightRows == [status : ActiveRight \cup {"completed", "rejected"}, handler : Staff \cup {None}]

ASSUME RightsAssumption == None \notin RightRows

RightsTypeOK == right \in [Requests -> RightRows \cup {None}]

RightsInit == right = [k \in Requests |-> None]

RightIn(k, statuses) == right[k] # None /\ right[k].status \in statuses

RequestRight(k) ==
    /\ right[k] = None
    /\ right' = [right EXCEPT ![k] = [status |-> "submitted", handler |-> None]]

\* The user says what was asked; whoever comes first goes on with the request.
AddFollowUp(k) ==
    /\ RightIn(k, {"needsInformation"})
    /\ right' = [right EXCEPT ![k] = [status |-> "submitted", handler |-> None]]

ClaimRight(s, k) ==
    /\ RightIn(k, ActiveRight)
    /\ right[k].handler \in {None, s} \/ s \in Admins
    /\ Assignable(s, right[k].handler)
    /\ right' = [right EXCEPT ![k].handler = s]

DataRightsTransitions ==
    [submitted        |-> {"inReview", "needsInformation", "completed", "rejected"},
     inReview         |-> {"needsInformation", "completed", "rejected"},
     needsInformation |-> {"inReview", "completed", "rejected"}]

TransitionRight(s, k) ==
    /\ RightIn(k, ActiveRight)
    /\ s \in Admins \/ right[k].handler = s
    /\ Assignable(s, right[k].handler)
    /\ \E next \in DataRightsTransitions[right[k].status] :
          right' = [right EXCEPT ![k] = [status |-> next, handler |-> s]]

RightArises == \E k \in Requests : RequestRight(k) \/ AddFollowUp(k)

RightByStaff(s) ==
    /\ s \in Admins \cup Support
    /\ \E k \in Requests : ClaimRight(s, k) \/ TransitionRight(s, k)

RightHandedOver(s) == {k \in Requests : RightIn(k, ActiveRight) /\ right[k].handler = s}

=============================================================================
