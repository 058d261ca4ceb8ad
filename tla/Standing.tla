------------------------------ MODULE Standing ------------------------------
(***************************************************************************)
(* The standing of one companion: the commercial profile, its publication, *)
(* restrictions and suspensions with their appeals, the review that has to *)
(* restore what was taken away, and the revocation of the owner's verified *)
(* identity, which nobody can grant at present                             *)
(* (companion-lifecycle.service.ts, commercial.service.ts,                 *)
(* companions.service.ts, identity-verification.service.ts).               *)
(*                                                                         *)
(* Everything else that must hold of the owner or the content and only     *)
(* refuses a step is left out; warnings and the incidents a companion      *)
(* reports change nothing here.                                            *)
(***************************************************************************)
EXTENDS Personnel

CONSTANT Actions    \* account actions against the companion

VARIABLES
    profile,    \* CompanionCommercialProfile
    published,  \* CompanionProfile.isPublished
    actions,    \* CompanionAccountAction with its CompanionAccountAppeal
    identity    \* the owner is verified; who has asked to revoke that

standingVars == <<profile, published, actions, identity>>

Curators == Admins \cup Supply
Kinds == {"serviceRestriction", "suspension"}
Reactivation == {"notRequired", "required", "completed"}

ActionRecords ==
    [kind : Kinds, temporary : BOOLEAN, ended : BOOLEAN, revoked : BOOLEAN,
     creator : Curators, review : Reactivation,
     appeal : {"none", "pending", "upheld", "overturned"},
     assignee : Staff \cup {None}, resolver : Staff \cup {None},
     appealReview : Reactivation]

ProfileRows ==
    [status : {"pendingReview", "verified", "suspended"}, adult : BOOLEAN,
     submitter : Curators, verifier : Curators \cup {None}, cause : Actions \cup {None}]

ASSUME StandingAssumption == None \notin ActionRecords

StandingTypeOK ==
    /\ profile \in ProfileRows
    /\ published \in BOOLEAN
    /\ actions \in [Actions -> ActionRecords \cup {None}]
    /\ identity \in [verified : BOOLEAN, revoker : Curators \cup {None}]

StandingInit ==
    /\ profile \in [status : {"pendingReview"}, adult : {FALSE}, submitter : Curators,
                    verifier : {None}, cause : {None}]
    /\ published = FALSE
    /\ actions = [x \in Actions |-> None]
    /\ identity = [verified |-> TRUE, revoker |-> None]

InForce(x) == actions[x] # None /\ ~actions[x].revoked /\ ~actions[x].ended

-----------------------------------------------------------------------------
(* The commercial profile and its publication. *)

SubmitProfile(s) ==
    /\ profile' = [status |-> "pendingReview", adult |-> FALSE, submitter |-> s,
                   verifier |-> None, cause |-> None]
    /\ published' = FALSE
    /\ UNCHANGED <<actions, identity>>

VerifyProfile(s) ==
    /\ profile.status = "pendingReview"
    /\ profile.submitter # s
    /\ profile' = [profile EXCEPT !.status = "verified", !.adult = TRUE, !.verifier = s]
    /\ UNCHANGED <<published, actions, identity>>

SuspendProfile(s) ==
    /\ profile' = [profile EXCEPT !.status = "suspended", !.cause = None]
    /\ published' = FALSE
    /\ UNCHANGED <<actions, identity>>

Publishable ==
    /\ \A x \in Actions : ~InForce(x)
    /\ \A x \in Actions : actions[x] # None =>
           "required" \notin {actions[x].review, actions[x].appealReview}
    /\ identity.verified
    /\ profile.status = "verified" /\ profile.adult

Publish(s) ==
    /\ ~published
    /\ Publishable
    /\ published' = TRUE
    /\ UNCHANGED <<profile, actions, identity>>

Unpublish(s) ==
    /\ published
    /\ published' = FALSE
    /\ UNCHANGED <<profile, actions, identity>>

-----------------------------------------------------------------------------
(* The owner's identity. *)

RequestRevocation(s) ==
    /\ identity.verified /\ identity.revoker = None
    /\ identity' = [identity EXCEPT !.revoker = s]
    /\ UNCHANGED <<profile, published, actions>>

\* By somebody else than who asked for it; a revocation takes the companion off offer.
ReviewRevocation(s, approved) ==
    /\ identity.revoker \notin {None, s}
    /\ identity' = [verified |-> ~approved, revoker |-> None]
    /\ published' = (published /\ ~approved)
    /\ UNCHANGED <<profile, actions>>

IdentityByStaff(s) ==
    /\ s \in Curators
    /\ RequestRevocation(s) \/ \E approved \in BOOLEAN : ReviewRevocation(s, approved)

-----------------------------------------------------------------------------
(* Account actions and appeals. *)

CreateAction(s, x, kind, temporary) ==
    /\ actions[x] = None
    /\ actions' = [actions EXCEPT ![x] =
         [kind |-> kind, temporary |-> temporary, ended |-> FALSE, revoked |-> FALSE,
          creator |-> s, review |-> "notRequired", appeal |-> "none", assignee |-> None,
          resolver |-> None, appealReview |-> "notRequired"]]
    /\ published' = FALSE
    /\ profile' = IF kind = "suspension"
                  THEN [profile EXCEPT !.status = "suspended", !.cause = x] ELSE profile
    /\ UNCHANGED identity

\* The end of a temporary action passes.
EndAction(x) ==
    /\ InForce(x) /\ actions[x].temporary
    /\ actions' = [actions EXCEPT ![x].ended = TRUE]
    /\ UNCHANGED <<profile, published, identity>>

AppealAction(x) ==
    /\ InForce(x)
    /\ actions[x].appeal = "none"
    /\ actions' = [actions EXCEPT ![x].appeal = "pending"]
    /\ UNCHANGED <<profile, published, identity>>

\* Who may handle an appeal: whoever did not take the action.
Reviewable(s, x) ==
    /\ actions[x] # None /\ actions[x].appeal = "pending"
    /\ actions[x].creator # s

ClaimActionAppeal(s, x) ==
    /\ Reviewable(s, x)
    /\ actions[x].assignee = None
    /\ s \in active
    /\ actions' = [actions EXCEPT ![x].assignee = s]
    /\ UNCHANGED <<profile, published, identity>>

AssignActionAppeal(s, x, t) ==
    /\ Reviewable(s, x) /\ Reviewable(t, x)
    /\ {s, t} \subseteq active
    /\ actions' = [actions EXCEPT ![x].assignee = t]
    /\ UNCHANGED <<profile, published, identity>>

\* An action that is overturned is revoked; what it took away is not given back.
ResolveActionAppeal(s, x, outcome) ==
    /\ Reviewable(s, x)
    /\ actions[x].assignee = s
    /\ s \in active
    /\ actions' = [actions EXCEPT
         ![x].appeal = outcome, ![x].resolver = s,
         ![x].appealReview = IF outcome = "overturned" THEN "required" ELSE "notRequired",
         ![x].revoked = (outcome = "overturned"),
         ![x].review = IF outcome = "overturned" /\ @ = "required" THEN "completed" ELSE @]
    /\ UNCHANGED <<profile, published, identity>>

-----------------------------------------------------------------------------
(* Restoring what an action took away. *)

\* Suspensions that ended by themselves and are not being appealed.
DueForReview ==
    {x \in Actions : /\ actions[x] # None /\ actions[x].kind = "suspension"
                     /\ actions[x].ended /\ ~actions[x].revoked
                     /\ actions[x].review = "notRequired" /\ actions[x].appeal # "pending"}

\* The worker's sweep.
RequireReviews ==
    /\ DueForReview # {}
    /\ actions' = [x \in Actions |-> IF x \in DueForReview
                                     THEN [actions[x] EXCEPT !.review = "required"] ELSE actions[x]]
    /\ UNCHANGED <<profile, published, identity>>

\* Nothing else keeps the companion from serving.
NoCompeting(x) == \A y \in Actions \ {x} : ~InForce(y)

\* A profile the suspension x took down stands again, but stays unpublished.
Restored(x) ==
    /\ profile' = IF profile.cause = x /\ profile.status = "suspended"
                  THEN [profile EXCEPT !.status = "verified", !.cause = None] ELSE profile
    /\ published' = FALSE
    /\ UNCHANGED identity

\* Mutant of ReviewPasses: the adult eligibility of the profile is not checked.
ReviewPassesAnyAge(x) ==
    /\ NoCompeting(x)
    /\ \/ profile.status = "suspended" /\ profile.cause = x
       \/ profile.status = "verified" /\ profile.cause = None

\* The profile was taken down by x, or has been verified anew.
ReviewPasses(x) ==
    /\ NoCompeting(x)
    /\ profile.adult
    /\ \/ profile.status = "suspended" /\ profile.cause = x
       \/ profile.status = "verified" /\ profile.cause = None

CompleteExpiredReview(s, x) ==
    /\ actions[x] # None /\ ~actions[x].revoked /\ actions[x].review = "required"
    /\ actions[x].creator # s
    /\ ReviewPasses(x)
    /\ actions' = [actions EXCEPT ![x].review = "completed"]
    /\ Restored(x)

\* After an appeal a third person reviews, and the profile must stand as the
\* action left it.
CompleteAppealReview(s, x) ==
    /\ actions[x] # None /\ actions[x].appealReview = "required"
    /\ s \notin {actions[x].creator, actions[x].resolver}
    /\ NoCompeting(x)
    /\ profile.adult
    /\ IF actions[x].kind = "suspension"
       THEN profile.status = "suspended" /\ profile.cause = x
       ELSE profile.status = "verified"
    /\ actions' = [actions EXCEPT ![x].appealReview = "completed"]
    /\ Restored(x)

StandingSteps ==
    \/ RequireReviews
    \/ \E x \in Actions : EndAction(x) \/ AppealAction(x)

StandingByStaff(s) ==
    /\ s \in Curators
    /\ \/ SubmitProfile(s) \/ VerifyProfile(s) \/ SuspendProfile(s)
       \/ Publish(s) \/ Unpublish(s)
       \/ \E x \in Actions :
            \/ \E kind \in Kinds, temporary \in BOOLEAN : CreateAction(s, x, kind, temporary)
            \/ s \in Supply /\ ClaimActionAppeal(s, x)
            \/ s \in Admins /\ \E t \in Curators : AssignActionAppeal(s, x, t)
            \/ \E outcome \in {"upheld", "overturned"} : ResolveActionAppeal(s, x, outcome)
            \/ CompleteExpiredReview(s, x) \/ CompleteAppealReview(s, x)

=============================================================================
