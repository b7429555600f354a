---------------------------- MODULE SingletonPlus ----------------------------
(* SingletonPlus.java: a singleton whose resource follows the life of an    *)
(* activity, with the activity of MainActivity.java that uses it.           *)
EXTENDS Naturals

CONSTANT Screens  \* activities, each of them one instance

VARIABLES
  state,      \* STATES of the singleton
  resource,   \* resource is not null
  made,       \* how often initRes was called
  stage,      \* each activity: "none", "created" (onCreate), "alive" (ON_CREATE came),
              \* "ending" (between ON_DESTROY and onDestroy, in either order), "gone"
  releases,   \* onDestroy of the activity calls releaseRes
  modern,     \* ON_DESTROY comes before onDestroy (Android 10), not after it
  overlap     \* a second activity may be created before the first is destroyed

singletonVars == <<state, resource, made, stage, releases, modern, overlap>>

SingletonTypeOK ==
  /\ state \in {"null", "STARTED", "END_RELEASED", "END_UNRELEASED"}
  /\ made \in Nat
  /\ stage \in [Screens -> {"none", "created", "alive", "ending", "gone"}]
  /\ {resource, releases, modern, overlap} \subseteq BOOLEAN

InitSingleton ==
  /\ state = "null" /\ resource = FALSE /\ made = 0
  /\ stage = [a \in Screens |-> "none"]
  /\ releases \in BOOLEAN /\ modern \in BOOLEAN /\ overlap \in BOOLEAN

Move(a, from, to) ==
  stage[a] = from /\ stage' = [stage EXCEPT ![a] = to] /\ UNCHANGED <<releases, modern, overlap>>

\* In place of ReleaseRes: the state is left as it is.
ReleaseOnly(called) ==
  /\ resource' = (resource /\ ~called)
  /\ UNCHANGED <<state, made>>

\* releaseRes, if the application calls it.  STARTING is over when onActivityCreate returns.
ReleaseRes(called) ==
  /\ resource' = (resource /\ ~called)
  /\ state' = IF called THEN "END_RELEASED" ELSE state
  /\ UNCHANGED made

\* MainActivity.onCreate registers the observer.
OnCreate(a) ==
  /\ Move(a, "none", "created")
  /\ overlap \/ \A b \in Screens : stage[b] \in {"none", "gone"}
  /\ UNCHANGED <<state, resource, made>>

InitRes == resource' = TRUE /\ state' = "STARTED" /\ made' = made + 1

\* onActivityCreate, with initRes in it.
OnActivityCreate(a) ==
  /\ Move(a, "created", "alive")
  /\ IF state = "END_UNRELEASED" THEN UNCHANGED <<state, resource, made>> ELSE InitRes

OnActivityDestroy == state' = "END_UNRELEASED" /\ UNCHANGED <<resource, made>>

\* MainActivity.onDestroy and ON_DESTROY, in the order of this version of Android.
Ending(a) == Move(a, "alive", "ending") /\ IF modern THEN OnActivityDestroy ELSE ReleaseRes(releases)
Gone(a) == Move(a, "ending", "gone") /\ IF modern THEN ReleaseRes(releases) ELSE OnActivityDestroy

NextSingleton == \E a \in Screens : OnCreate(a) \/ OnActivityCreate(a) \/ Ending(a) \/ Gone(a)

SpecSingleton == InitSingleton /\ [][NextSingleton]_singletonVars

-----------------------------------------------------------------------------
(* Properties *)

\* An activity that got ON_CREATE has the resource, with one activity at a time, if the
\* application never releases it or ON_DESTROY comes first.  (If it comes last it overwrites
\* END_RELEASED, and the next activity is taken for one whose resource was kept; and with two
\* activities the end of one takes the resource of the other.)
ResourceForLiving ==
  ~overlap /\ (modern \/ ~releases) => \A a \in Screens : stage[a] = "alive" => resource

\* An application that never releases the resource makes it once for all its activities, one at
\* a time.  (A second one that overlaps the first makes it anew under it.)
MadeOnce == ~overlap /\ ~releases => made <= 1

\* Where the application keeps to its rules the resource is there, and made no oftener than asked.
SingletonServes == SingletonTypeOK /\ ResourceForLiving /\ MadeOnce
=============================================================================
