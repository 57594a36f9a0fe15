--------------------------- MODULE CalendarUpdate ---------------------------
(***************************************************************************)
(* The authoritative trading calendar and the operator's command that      *)
(* replaces it: validate against what was already used, archive, publish,  *)
(* audit.  The command holds the writer lease, so the daemon uses no       *)
(* session meanwhile, but it may die at any step.  A calendar stands for   *)
(* its digest.                                                             *)
(***************************************************************************)
EXTENDS Integers, FiniteSets, FiniteSetsExt

CONSTANTS
    LastDay,       \* bound: days are 1..LastDay
    MaxCalendars,  \* bound: different calendars that are ever replaced
    WarningDays,   \* coverage left at which status warns
    MayCrash,      \* whether the command may die
    NoCalendar

CalendarAssumption == LastDay \in Nat \ {0} /\ {WarningDays, MaxCalendars} \subseteq Nat

Day == 1..LastDay
Calendar ==
    {c \in [from : Day, through : Day, sessions : SUBSET Day] :
        c.from <= c.through /\ c.sessions \subseteq c.from..c.through}

VARIABLES
    calendar,   \* the published manifest
    used,       \* the sessions decisions, orders, fills, snapshots and receipts name
    history,    \* archived manifests
    audit,      \* proposed calendars with an audit event
    latest,     \* the calendar of the last audit event
    replaced,   \* ghost: every manifest that was ever replaced
    step,
    proposed    \* the calendar being installed

calendarVars == <<calendar, used, history, audit, latest, replaced, step, proposed>>

-----------------------------------------------------------------------------
(* Queries.  Each one refuses a day outside the coverage.                  *)

Covers(c, d) == c.from <= d /\ d <= c.through

NextSession(c, d) == Min({s \in c.sessions : s > d})

PreviousSession(c, d) == Max({s \in c.sessions : s < d})

CoverageState(c, d) ==
    CASE d < c.from \/ c.through < d -> "EXPIRED"
      [] Covers(c, d) /\ c.through - d <= WarningDays -> "WARNING"
      [] OTHER -> "HEALTHY"

UsedThrough == IF used = {} THEN calendar.from ELSE Max(used)

\* Coverage only grows, and nothing up to the last used session changes.
Valid(new) ==
    /\ new.from <= calendar.from /\ calendar.through <= new.through
    /\ Covers(new, UsedThrough)
    /\ {s \in new.sessions : s <= UsedThrough} = {s \in calendar.sessions : s <= UsedThrough}

-----------------------------------------------------------------------------
CalendarInit ==
    /\ calendar \in {c \in Calendar : c.sessions # {}}
    /\ used = {} /\ history = {} /\ audit = {} /\ replaced = {} /\ latest = calendar
    /\ step = "idle" /\ proposed = NoCalendar

\* The daemon decides, trades or closes on a session; it refuses days the calendar does not cover.
Use(d) ==
    /\ step = "idle" /\ d \in calendar.sessions
    /\ used' = used \cup {d}
    /\ UNCHANGED <<calendar, history, audit, latest, replaced, step, proposed>>

\* The manifest is read and confirmed, and read again under the lease with the runtime idle.
Begin(c) ==
    /\ step = "idle" /\ Valid(c)
    /\ c = calendar \/ Cardinality(history \cup {calendar}) <= MaxCalendars
    /\ proposed' = c
    /\ step' = IF c = calendar THEN "audit" ELSE "archive"
    /\ UNCHANGED <<calendar, used, history, audit, latest, replaced>>

\* Mutant: the old manifest is archived only when the audit event is written.
Archive_Late ==
    /\ step = "archive"
    /\ step' = "publish"
    /\ UNCHANGED <<calendar, used, history, audit, latest, replaced, proposed>>

Archive ==
    /\ step = "archive"
    /\ history' = history \cup {calendar} /\ step' = "publish"
    /\ UNCHANGED <<calendar, used, audit, latest, replaced, proposed>>

PublishManifest ==
    /\ step = "publish"
    /\ replaced' = replaced \cup {calendar}
    /\ calendar' = proposed /\ step' = "audit"
    /\ UNCHANGED <<used, history, audit, latest, proposed>>

\* The event is identified by the proposed calendar alone: one that is there is kept, and if
\* it says something else the command raises, after the manifest was published.
AuditUpdate ==
    /\ step = "audit"
    /\ audit' = audit \cup {proposed}
    /\ latest' = IF proposed \in audit THEN latest ELSE proposed
    /\ step' = "idle" /\ proposed' = NoCalendar
    /\ UNCHANGED <<calendar, used, history, replaced>>

CommandDies ==
    /\ MayCrash /\ step # "idle"
    /\ step' = "idle" /\ proposed' = NoCalendar
    /\ UNCHANGED <<calendar, used, history, audit, latest, replaced>>

CalendarNext ==
    \/ \E d \in Day : Use(d)
    \/ \E c \in Calendar : Begin(c)
    \/ Archive \/ PublishManifest \/ AuditUpdate \/ CommandDies

CalendarSpec == CalendarInit /\ [][CalendarNext]_calendarVars

-----------------------------------------------------------------------------
(* Properties.                                                             *)

\* Every variable keeps its type; every used session lies in the published coverage.
CalendarTypeOK ==
    /\ calendar \in Calendar /\ history \cup replaced \subseteq Calendar
    /\ \A d \in used : Covers(calendar, d) /\ CoverageState(calendar, d) # "EXPIRED"

\* A session that was decided, traded or closed stays a session, and no update puts another
\* one before it, however many updates and crashes follow (calendar_manifest.py
\* validate_calendar_update, data_calendar_control.py _used_through).
UsedSessionsKept ==
    [][\A d \in used : {s \in calendar'.sessions : s <= d} = {s \in calendar.sessions : s <= d}]_calendarVars

\* A manifest that was replaced can be found in the archive, wherever the command died.
ReplacedIsArchived == replaced \subseteq history

\* The session a decision is executed on looks back to the session it was decided on: next and
\* previous are inverse on the calendar's sessions (calendar.py).
NextLooksBack ==
    \A d \in calendar.sessions :
        (\E s \in calendar.sessions : s > d)
            => /\ NextSession(calendar, d) > d
               /\ PreviousSession(calendar, NextSession(calendar, d)) = d

\* Every calendar that was replaced is archived, wherever the command died; the session after a
\* day and the session before it are each other's inverse; and no update removes or adds a
\* session up to the last one used (data_calendar_control.py, calendar_manifest.py, calendar.py).
CalendarIsSound ==
    [](CalendarTypeOK /\ ReplacedIsArchived /\ NextLooksBack) /\ UsedSessionsKept

\* Claimed of the operator's command: the calendar in force is the one the audit chain names
\* last, as long as no command died.
AuditNamesCalendar == step = "idle" => calendar = latest
=============================================================================
