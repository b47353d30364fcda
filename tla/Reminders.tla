------------------------------ MODULE Reminders ------------------------------
(***************************************************************************)
(* What the activities of a Machine's records say of its scheduled rules   *)
(* (internal/execution/events.go): the texts a rule may log, how often     *)
(* each is on a record, and how often somebody was told of it.             *)
(***************************************************************************)
EXTENDS Naturals

CONSTANTS
    Recs,          \* records of the Machine
    Titles,        \* what a title may be
    MarkerFields,  \* the Fields whose values the logged text names
    MaxDay         \* bound: days that pass

VARIABLES
    marks,    \* how many activities of a record bear a text
    told,     \* how often somebody was told of a record under a text
    missed    \* how often the activity with that text could not be written

Days == 1 .. MaxDay
Rows == [title : Titles, due : Days, status : {"open", "late", "done"}]

\* scheduleMarker: the text of the first matched Event that logs an activity.
Marker(v) == [f \in MarkerFields |-> v[f]]
Markers == {Marker(v) : v \in Rows}
Texts == Recs \X Markers

\* However the ticks are cut short, a record's activity under one text is written once, and
\* nobody is told of it twice, unless the mark could not be written ("a schedule Event fires at
\* most once per record", activityExists): the mark comes before what it guards, so a stop loses
\* a reminder rather than repeat it.
OncePerText == \A x \in Texts : marks[x] <= 1 /\ told[x] <= 1 + missed[x]
=============================================================================
