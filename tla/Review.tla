-------------------------------- MODULE Review --------------------------------
(***************************************************************************)
(* The review department: the moderation cases about one message of one    *)
(* sender, their decisions and appeals, and reviewers who are suspended    *)
(* (review-case.service.ts, review-staff-offboarding.service.ts,           *)
(* moderation-case.service.ts, chat-restriction.service.ts).               *)
(*                                                                         *)
(* Every decision locks its reviewer before its case and checks both       *)
(* again, so it is one step.  An appeal reads the case before its          *)
(* transaction, and a blocked text is restricted in a transaction of its   *)
(* own after the one that opened its case.                                 *)
(***************************************************************************)
EXTENDS Personnel

CONSTANTS
    Leads, Reviewers,   \* the staff of the department
    Files               \* moderation cases

Department == Leads \cup Reviewers

ASSUME ReviewAssumption == Leads \cap Reviewers = {} /\ None \notin Department

VARIABLES
    onDuty,     \* ReviewStaff who are active
    files,      \* ModerationCase with its ModerationAppeal and ChatRestriction
    message,    \* Message, as its readers see it
    appealing,  \* appeals whose request has read the case: the original reviewer
    striking    \* cases whose automatic restriction is still to come

reviewVars == <<onDuty, files, message, appealing, striking>>

\* adverse and original are kept while an appeal may still ask for them.
FileRecords ==
    [source : {"blocked", "held", "report"}, status : {"open", "resolved", "dismissed"},
     assignee : Department \cup {None}, adverse : Department \cup {None},
     verdict : {"none", "against", "for"}, restriction : {"none", "inForce", "belated"},
     appeal : {"none", "pending", "upheld", "overturned"}, original : Department \cup {None}]

ReviewTypeOK ==
    /\ onDuty \subseteq Department
    /\ DOMAIN files \subseteq Files /\ \A f \in DOMAIN files : files[f] \in FileRecords
    /\ message \in {"none", "published", "withheld"}
    /\ DOMAIN appealing \subseteq DOMAIN files
    /\ \A f \in DOMAIN appealing : appealing[f] \in Department \cup {None}
    /\ striking \subseteq DOMAIN files

ReviewInit(crew) ==
    /\ onDuty = crew
    /\ files = [f \in {} |-> None]
    /\ message = "none"
    /\ appealing = [f \in {} |-> None]
    /\ striking = {}

With(function, x, value) == [y \in DOMAIN function \cup {x} |-> IF y = x THEN value ELSE function[y]]

-----------------------------------------------------------------------------
(* Messages, reports, automatic restrictions and appeals. *)

NewFile(source) ==
    [source |-> source, status |-> "open", assignee |-> None, adverse |-> None,
     verdict |-> IF source = "blocked" THEN "against" ELSE "none", restriction |-> "none",
     appeal |-> "none", original |-> None]

\* A message the rules let through.
Send ==
    /\ message = "none"
    /\ message' = "published"
    /\ UNCHANGED <<onDuty, files, appealing, striking>>

\* A message the rules block or keep for a reviewer; the second block of a day
\* restricts its sender.
SendSuspicious(f, source) ==
    /\ message = "none"
    /\ message' = "withheld"
    /\ files' = With(files, f, NewFile(source))
    /\ striking' \in {striking, IF source = "blocked" THEN {f} ELSE striking}
    /\ UNCHANGED <<onDuty, appealing>>

Report(f) ==
    /\ message # "none" /\ f \notin DOMAIN files
    /\ files' = With(files, f, NewFile("report"))
    /\ UNCHANGED <<onDuty, message, appealing, striking>>

\* The restriction comes after the case, or is lost with the process.
RestrictAutomatically(f) ==
    /\ f \in striking
    /\ striking' = striking \ {f}
    /\ \/ files' = [files EXCEPT ![f].restriction = IF files[f].status = "open" THEN "inForce" ELSE "belated"]
       \/ UNCHANGED files
    /\ UNCHANGED <<onDuty, message, appealing>>

EndRestriction(f) ==
    /\ files[f].restriction \in {"inForce", "belated"}
    /\ files' = [files EXCEPT ![f].restriction = "none"]
    /\ UNCHANGED <<onDuty, message, appealing, striking>>

\* Blocked content, restrictions and adverse decisions can be appealed once.
ReadForAppeal(f) ==
    /\ f \notin DOMAIN appealing
    /\ \/ files[f].source = "blocked" \/ files[f].adverse # None
       \/ files[f].restriction \in {"inForce", "belated"}
    /\ files[f].appeal = "none"
    /\ appealing' = With(appealing, f, files[f].adverse)
    /\ UNCHANGED <<onDuty, files, message, striking>>

FileAppeal(f) ==
    /\ f \in DOMAIN appealing
    /\ files' = [files EXCEPT ![f] = [@ EXCEPT
         !.appeal = "pending", !.original = appealing[f], !.adverse = None,
         !.status = "open", !.assignee = None]]
    /\ appealing' = [g \in DOMAIN appealing \ {f} |-> appealing[g]]
    /\ UNCHANGED <<onDuty, message, striking>>

-----------------------------------------------------------------------------
(* The reviewers. *)

\* Who may be responsible for a case: with an appeal, not its first reviewer.
Independent(v, f) == files[f].appeal = "pending" => files[f].original # v

\* Escalating a case to human review has the same effect.
ClaimFile(v, f) ==
    /\ files[f].status = "open" /\ files[f].assignee \in {None, v}
    /\ Independent(v, f)
    /\ files' = [files EXCEPT ![f].assignee = v]
    /\ UNCHANGED <<onDuty, message, appealing, striking>>

\* A lead gives a case to a colleague or back to the queue.
AssignFile(f, to) ==
    /\ files[f].status = "open"
    /\ to # None => to \in onDuty /\ Independent(to, f)
    /\ files' = [files EXCEPT ![f].assignee = to]
    /\ UNCHANGED <<onDuty, message, appealing, striking>>

\* A reviewer decides a case that is nobody's or the reviewer's own.
Take(v, f) == files[f].assignee \in {None, v}

\* An adverse decision that can be appealed.
Adverse(f, v) == IF files[f].appeal = "none" THEN v ELSE None

\* A third confirmation within a month puts the case back on the queue.
Condemn(v, f, repeated) ==
    /\ Take(v, f) /\ files[f].status = "open"
    /\ files' = [files EXCEPT ![f] = [@ EXCEPT
         !.status = IF repeated THEN "open" ELSE "resolved",
         !.assignee = v, !.adverse = Adverse(f, v), !.verdict = "against"]]
    /\ message' = "withheld"
    /\ UNCHANGED <<onDuty, appealing, striking>>

Clear(v, f) ==
    /\ Take(v, f) /\ files[f].status = "open"
    /\ files' = [files EXCEPT ![f] = [@ EXCEPT !.status = "dismissed", !.assignee = v, !.verdict = "for"]]
    /\ message' = "published"
    /\ UNCHANGED <<onDuty, appealing, striking>>

RestrictSender(v, f) ==
    /\ Take(v, f) /\ files[f].status = "open"
    /\ files' = [files EXCEPT ![f] = [@ EXCEPT
         !.status = "resolved", !.assignee = v, !.adverse = Adverse(f, v), !.restriction = "inForce"]]
    /\ UNCHANGED <<onDuty, message, appealing, striking>>

LiftRestriction(v, f) ==
    /\ Take(v, f)
    /\ files' = [files EXCEPT ![f] = [@ EXCEPT
         !.status = "dismissed", !.assignee = v, !.restriction = "none"]]
    /\ UNCHANGED <<onDuty, message, appealing, striking>>

UpholdAppealed(v, f) ==
    /\ Take(v, f) /\ files[f].appeal = "pending" /\ Independent(v, f)
    /\ files' = [files EXCEPT ![f] = [@ EXCEPT !.status = "resolved", !.assignee = v, !.appeal = "upheld", !.original = None]]
    /\ UNCHANGED <<onDuty, message, appealing, striking>>

\* Mutant of Overturned: the restriction of the case is left in force.
OverturnedMessageOnly(file, v) ==
    [file EXCEPT !.status = "dismissed", !.assignee = v, !.appeal = "overturned", !.verdict = "for",
                 !.original = None]

Overturned(file, v) ==
    [file EXCEPT !.status = "dismissed", !.assignee = v, !.appeal = "overturned", !.verdict = "for",
                 !.original = None, !.restriction = "none"]

OverturnAppealed(v, f) ==
    /\ Take(v, f) /\ files[f].appeal = "pending" /\ Independent(v, f)
    /\ files' = [files EXCEPT ![f] = Overturned(@, v)]
    /\ message' = "published"
    /\ UNCHANGED <<onDuty, appealing, striking>>

\* The lead l suspends s, whose open cases go to the queue or to r.
SuspendReviewer(l, s, r) ==
    /\ l \in Leads /\ s \in onDuty \ {l}
    /\ s \in Leads => Leads \cap onDuty # {s}
    /\ LET handed == {f \in DOMAIN files : files[f].status = "open" /\ files[f].assignee = s}
       IN  /\ r # None => r \in onDuty \ {s} /\ \A f \in handed : Independent(r, f)
           /\ files' = [f \in DOMAIN files |-> IF f \in handed THEN [files[f] EXCEPT !.assignee = r] ELSE files[f]]
    /\ onDuty' = onDuty \ {s}
    /\ UNCHANGED <<message, appealing, striking>>

-----------------------------------------------------------------------------

FilesArise ==
    \/ Send
    \/ \E f \in Files :
          Report(f) \/ \E source \in {"blocked", "held"} : SendSuspicious(f, source)
    \/ \E f \in DOMAIN files :
          RestrictAutomatically(f) \/ EndRestriction(f) \/ ReadForAppeal(f) \/ FileAppeal(f)

FilesByReviewer(v) ==
    /\ v \in onDuty
    /\ \/ \E f \in DOMAIN files :
             \/ ClaimFile(v, f) \/ Clear(v, f)
             \/ \E repeated \in BOOLEAN : Condemn(v, f, repeated)
             \/ UpholdAppealed(v, f) \/ OverturnAppealed(v, f)
             \/ v \in Leads /\ (RestrictSender(v, f) \/ LiftRestriction(v, f))
             \/ v \in Leads /\ \E to \in Department \cup {None} : AssignFile(f, to)
       \/ \E s \in Department, r \in Department \cup {None} : SuspendReviewer(v, s, r)

=============================================================================
