------------------------------- MODULE Feedings -------------------------------
(***************************************************************************)
(* One activity that is, was or becomes a feeding: how much was prepared,  *)
(* what was left and what became of it, and the note that goes with it.    *)
(* The note is a person's, or one the server writes and rewrites as the    *)
(* details change; all the server can tell is whether the stored note is   *)
(* the one it would write.  Every request works on the row under its lock, *)
(* in one step; who may send it, and times, are left out.                  *)
(***************************************************************************)
EXTENDS Naturals

CONSTANTS
    MaxML,          \* bound of the model: amounts, in no unit
    Subjects,       \* whom a feeding is about
    Nil

VARIABLES
    activity,       \* the row, or Nil
    written,        \* whether a person has given a note (taken to be no text of the server)
    strayed         \* whether it was edited as another kind since

vars == <<activity, written, strayed>>

Amounts == 0..MaxML \union {Nil}
Outcomes == {"finished", "expired", Nil}
Details == [ volume : Amounts \ {0}, leftover : Amounts, expired : Amounts,
             outcome : Outcomes ]
Kinds == {"feeding", "other"}

\* FeedingReportedKeys, without the time of the report
ReportedKeys == {"leftover", "expired", "outcome"}
Unreported(d) == [ d EXCEPT !.leftover = Nil, !.expired = Nil, !.outcome = Nil ]

-----------------------------------------------------------------------------
(* Notes and details *)

\* What the note says: of what was reported, the amount that matters.
FeedingNote(subject, d) ==
    [ subject |-> subject, volume |-> d.volume, outcome |-> d.outcome,
      amount |-> CASE d.outcome = "finished" -> Nil
                   [] d.outcome = "expired" -> d.expired
                   [] OTHER -> d.leftover ]

Notes == { FeedingNote(s, d) : s \in Subjects, d \in Details }
Row == [ kind : Kinds, subject : Subjects, details : Details, note : Notes \union {Nil} ]

FeedingsAssumption ==
    /\ MaxML \in Nat \ {0}
    /\ Nil \notin Nat /\ Nil \notin {"finished", "expired"} /\ Nil \notin Notes \union Row

IsGeneratedFeedingNote(row) == row.note = FeedingNote(row.subject, row.details)

NotAbove(x, y) == Nil \notin {x, y} => x <= y

validateFeeding(d) ==
    /\ NotAbove(d.leftover, d.volume)
    /\ NotAbove(d.expired, d.volume)
    /\ NotAbove(d.expired, d.leftover)
    /\ d.outcome = "expired" => d.expired # Nil

\* Seeded fault: the amount that had expired stays.
ReopenedInPart(d) == [ d EXCEPT !.outcome = Nil ]

\* A report of what is left, without an outcome, corrects one.
Reopened(d) == [ d EXCEPT !.outcome = Nil, !.expired = Nil ]

Reportable(d, report) ==
    /\ report.leftover # Nil \/ report.outcome # Nil
    /\ CASE report.outcome = Nil -> report.expired = Nil
         [] report.outcome = "finished" -> report.expired \in {Nil, 0}
         [] OTHER -> report.expired = Nil =>
                       d.expired # Nil /\ ~ (d.outcome = "finished" /\ d.expired = 0)

ApplyFeedingReport(d, report) ==
    LET next == IF report.leftover = Nil THEN d ELSE [ d EXCEPT !.leftover = report.leftover ]
    IN  CASE report.outcome = Nil -> Reopened(next)
          [] report.outcome = "finished" ->
               [ next EXCEPT !.outcome = "finished", !.expired = 0 ]
          [] OTHER ->
               [ next EXCEPT !.outcome = "expired",
                             !.expired = IF report.expired = Nil THEN d.expired
                                         ELSE report.expired ]

-----------------------------------------------------------------------------
(* Requests *)

\* What was reported at once goes through the rules of a report.
feedingCreate(d) == IF d = Unreported(d) THEN d ELSE ApplyFeedingReport(Unreported(d), d)

\* A feeding whose volume is known has a note of the server's, if none is given.
createDetails(kind, d, given) ==
    IF kind = "other" THEN given
    ELSE /\ validateFeeding(d)
         /\ d.volume # Nil \/ (given /\ d = Unreported(d))
         /\ d # Unreported(d) =>
              Reportable(Unreported(d), d) /\ validateFeeding(feedingCreate(d))

Create(kind, subject, d, given) ==
    LET details == IF kind = "feeding" THEN feedingCreate(d) ELSE d
    IN  /\ activity = Nil
        /\ createDetails(kind, d, given)
        /\ activity' = [ kind |-> kind, subject |-> subject, details |-> details,
                         note |-> IF given THEN Nil ELSE FeedingNote(subject, details) ]
        /\ written' = given /\ strayed' = FALSE

\* A patch sets or removes a key, or removes all that was reported.
Patches(d) ==
    {d, Unreported(d)}
        \union (UNION { { [ d EXCEPT ![key] = v ] : v \in IF key = "outcome" THEN Outcomes
                                                           ELSE Amounts } : key \in ReportedKeys })
        \union { [ base EXCEPT !.volume = v ] : base \in {d, Unreported(d)},
                                                v \in Amounts \ {0} }

\* What a report has said is not edited, nor brought along from another kind.
feedingUpdate(row, d) ==
    IF row.kind = "feeding" THEN \A key \in ReportedKeys : d[key] = row.details[key]
    ELSE d = Unreported(d)

prepareDetailsUpdate(row, kind, d) ==
    kind = "feeding" =>
        /\ feedingUpdate(row, d)
        /\ kind # row.kind \/ d # row.details => validateFeeding(d)

\* The note is rewritten if it was the server's before the change.
Update(kind, subject, d, given) ==
    LET row == activity
        note == IF given THEN Nil
                ELSE IF kind = "feeding" /\ IsGeneratedFeedingNote(row)
                     THEN FeedingNote(subject, d) ELSE row.note
    IN  /\ prepareDetailsUpdate(row, kind, d)
        /\ activity' = [ kind |-> kind, subject |-> subject, details |-> d, note |-> note ]
        /\ written' = (written \/ given)
        /\ strayed' = (~ given /\ (strayed \/ (kind = "other"
                                     /\ <<subject, d>> # <<row.subject, row.details>>)))

\* A report names its feeding by id or time, or is for the one that is open.
SelectFeeding(named) == named \/ activity.details.outcome = Nil

ReportFeeding(report, named) ==
    LET row == activity
        next == ApplyFeedingReport(row.details, report)
    IN  /\ row.kind = "feeding" /\ SelectFeeding(named)
        /\ Reportable(row.details, report) /\ validateFeeding(next)
        /\ activity' = [ row EXCEPT
                           !.details = next,
                           !.note = IF IsGeneratedFeedingNote(row)
                                    THEN FeedingNote(row.subject, next) ELSE @ ]
        /\ UNCHANGED <<written, strayed>>

\* Another activity may take its place here.
Delete ==
    /\ activity # Nil
    /\ activity' = Nil /\ written' = FALSE /\ strayed' = FALSE

-----------------------------------------------------------------------------
Init == activity = Nil /\ written = FALSE /\ strayed = FALSE

Next ==
    \/ \E kind \in Kinds, s \in Subjects, d \in Details, given \in BOOLEAN :
         Create(kind, s, d, given)
    \/ /\ activity # Nil
       /\ \/ \E kind \in Kinds, s \in Subjects, d \in Patches(activity.details),
               given \in BOOLEAN : Update(kind, s, d, given)
          \/ \E leftover \in Amounts, expired \in Amounts, outcome \in Outcomes,
               named \in BOOLEAN :
               ReportFeeding([ leftover |-> leftover, expired |-> expired,
                               outcome |-> outcome ], named)
    \/ Delete

Spec == Init /\ [][Next]_vars

-----------------------------------------------------------------------------
(* Properties *)

\* Every variable has its type.
TypeOK == activity \in Row \union {Nil} /\ written \in BOOLEAN /\ strayed \in BOOLEAN

\* Through any sequence of reports, corrections, edits and changes of kind, what a
\* feeding says adds up, a person's note is left alone, and the server's note tells
\* what the details say, unless they were edited as those of another kind.
FeedingsAddUp ==
    activity # Nil =>
        /\ written => activity.note = Nil
        /\ activity.kind = "feeding" =>
             /\ validateFeeding(activity.details)
             /\ activity.details.outcome = "finished" => activity.details.expired = 0
             /\ activity.details.outcome = Nil => activity.details.expired = Nil
             /\ written \/ strayed \/ IsGeneratedFeedingNote(activity)
===============================================================================
