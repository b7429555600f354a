--------------------------- MODULE ActivityMonitor ---------------------------
(* The activities of the application as ActivityMonitor.java sees them: the *)
(* callbacks of the main thread, in the orders Android calls them in.       *)
EXTENDS Integers, Sequences, SequencesExt

CONSTANTS
  Activities,    \* the activities
  MaxActivities  \* MAX_ACTIVITY_NUM

ASSUME MonitorAssumption == MaxActivities \in Nat

VARIABLES
  activities,                       \* the list, newest first
  activityReferences,
  isActivityChangingConfigurations,
  isAppForeground,
  living,                           \* activities created and not destroyed, newest first
  visible,                          \* activities started and not stopped
  relaunched                        \* activities Android is about to create anew

monitorVars == <<activities, activityReferences, isActivityChangingConfigurations,
                 isAppForeground, living, visible, relaunched>>

MonitorTypeOK ==
  /\ activities \in Seq(Activities) /\ living \in Seq(Activities)
  /\ activityReferences \in Nat
  /\ isActivityChangingConfigurations \in BOOLEAN /\ isAppForeground \in BOOLEAN
  /\ visible \subseteq Activities /\ relaunched \subseteq Activities

\* Registered before the first activity is created, as in Application.attachBaseContext.
InitMonitor ==
  /\ activities = <<>> /\ activityReferences = 0
  /\ isActivityChangingConfigurations = FALSE /\ isAppForeground = FALSE
  /\ living = <<>> /\ visible = {} /\ relaunched = {}

AddActivity(list, activity) ==
  LET added == <<activity>> \o list
  IN IF Len(added) > MaxActivities THEN Front(added) ELSE added

Created(activity) ==
  /\ ~Contains(living, activity)
  /\ relaunched \subseteq {activity}
  /\ living' = <<activity>> \o living
  /\ activities' = AddActivity(activities, activity)
  /\ UNCHANGED <<activityReferences, isActivityChangingConfigurations, isAppForeground, visible,
                 relaunched>>

Started(activity) ==
  /\ Contains(living, activity) /\ activity \notin visible
  /\ relaunched \subseteq {activity}
  /\ visible' = visible \cup {activity} /\ relaunched' = {}
  /\ activityReferences' = activityReferences + 1
  /\ isAppForeground' = (isAppForeground
                          \/ (activityReferences' = 1 /\ ~isActivityChangingConfigurations))
  /\ UNCHANGED <<activities, isActivityChangingConfigurations, living>>

\* In place of Foreground: the flag of the stop before this one decides.
ForegroundBefore(references, changing) ==
  isAppForeground /\ ~(references = 0 /\ ~isActivityChangingConfigurations)

Foreground(references, changing) == isAppForeground /\ ~(references = 0 /\ ~changing)

\* An activity stopped for a configuration change is destroyed, created and started anew.
Stopped(activity, changing) ==
  /\ activity \in visible /\ relaunched = {}
  /\ visible' = visible \ {activity}
  /\ relaunched' = IF changing THEN {activity} ELSE {}
  /\ isActivityChangingConfigurations' = changing
  /\ activityReferences' = activityReferences - 1
  /\ isAppForeground' = Foreground(activityReferences', changing)
  /\ UNCHANGED <<activities, living>>

\* One that finishes itself in onCreate is destroyed without having been started.
Destroyed(activity) ==
  /\ Contains(living, activity) /\ activity \notin visible
  /\ relaunched \subseteq {activity}
  /\ living' = RemoveFirst(living, activity) /\ activities' = RemoveFirst(activities, activity)
  /\ \/ UNCHANGED relaunched
     \/ relaunched' = {}
  /\ UNCHANGED <<activityReferences, isActivityChangingConfigurations, isAppForeground, visible>>

NextMonitor ==
  \E activity \in Activities :
    \/ Created(activity) \/ Started(activity) \/ Destroyed(activity)
    \/ \E changing \in BOOLEAN : Stopped(activity, changing)

SpecMonitor == InitMonitor /\ [][NextMonitor]_monitorVars

-----------------------------------------------------------------------------
(* Properties *)

\* A crash report says "foreground: yes" (JavaCrashHandler.java:172) exactly while an activity is
\* visible, or the last one was stopped only for a change of the configuration and is (or was to
\* be) relaunched.  One that finishes itself while it is relaunched leaves the "yes" behind.
ForegroundTrue ==
  /\ visible # {} => isAppForeground
  /\ isAppForeground => visible # {} \/ isActivityChangingConfigurations

\* The list that is finished before the process is killed holds the newest of the living
\* activities, in order, and none that is destroyed.
NewestListed == IsPrefix(activities, living)

\* What a crash report and the end of the process rely on of the monitor.
MonitorTrue == MonitorTypeOK /\ ForegroundTrue /\ NewestListed
=============================================================================
