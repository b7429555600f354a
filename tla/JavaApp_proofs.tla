---------------------------- MODULE JavaApp_proofs ----------------------------
(***************************************************************************)
(* The handler of uncaught exceptions, the singleton, the monitor of the   *)
(* activities and a run of the compatibility test keep their promises for  *)
(* any number of threads, activities, processes, conflicts and             *)
(* placeholders.                                                           *)
(***************************************************************************)
EXTENDS JavaCrash, ActivityMonitor, SingletonPlus, LockTest, FiniteSetTheorems, SequenceTheorems,
        WellFoundedInduction, TLAPS

-----------------------------------------------------------------------------
(* The handler of uncaught exceptions.  *)

Acts(t) == Throw(t) \/ Handles(t) \/ ErrorEscapes(t)

\* The file a thread was given and the one it has open, by the thread's place.
FileAt(t) ==
  /\ jpc[t] \in {"runs", "handling", "create"} => t \notin file
  /\ jpc[t] \in {"runs", "handling", "create", "emergency", "open"} => raf[t] = Nobody
  /\ jpc[t] \in {"runs", "handling", "create", "emergency", "open", "write"} => position[t] = 0
  /\ jpc[t] \in {"open", "write", "rest"} => t \in file
  /\ jpc[t] \in {"write", "rest"} => raf[t] \in Throwers
  /\ raf[t] # Nobody => t \in file /\ raf[t] \in file
  /\ raf[t] # Nobody /\ path = t => raf[t] = t

\* There is a file of the name as soon as a thread was given one, so one that opens it finds it.
FileInv ==
  /\ file # {} => path # Nobody
  /\ path # Nobody => path \in file
  /\ room = 0 => \A s, t \in file : s = t
  /\ \A t \in Throwers : FileAt(t)

-----------------------------------------------------------------------------
(* Types *)

LEMMA JavaTypeInit == InitJava => JavaTypeOK
<1> SUFFICES ASSUME InitJava PROVE JavaTypeOK
  OBVIOUS
<1>1. Untold \in [log : BOOLEAN, emergency : BOOLEAN, called : BOOLEAN]
  BY DEF Untold
<1>2. /\ told \in [Throwers -> [log : BOOLEAN, emergency : BOOLEAN, called : BOOLEAN]]
      /\ raf \in [Throwers -> Throwers \cup {Nobody}] /\ path \in Throwers \cup {Nobody}
      /\ content \in [Throwers -> Files] /\ jpc \in [Throwers -> JavaPlaces]
      /\ position \in [Throwers -> 0..LogSize]
  BY <1>1, JavaAssumption DEF InitJava, JavaPlaces, Files
<1>3. room \in 0..MostPlaceholders /\ clean \in 0..room
  BY JavaAssumption DEF InitJava
<1>4. QED
  BY <1>2, <1>3 DEF InitJava, JavaTypeOK

LEMMA TypeStart ==
  ASSUME JavaTypeOK, NEW t \in Throwers,
         Throw(t) \/ SetDefault(t) \/ GetEmergency(t) \/ OpenLog(t) \/ Rethrow(t) \/ Kill(t)
           \/ ErrorEscapes(t)
  PROVE  JavaTypeOK'
<1> USE DEF JavaTypeOK, JavaPlaces, At, Goto, SystemHandler, AfterNoOpen, optionVars
<1>1. CASE Throw(t)
  BY <1>1 DEF Throw
<1>2. CASE SetDefault(t)
  BY <1>2 DEF SetDefault
<1>3. CASE GetEmergency(t)
  <2>1. jpc' \in [Throwers -> JavaPlaces]
    BY <1>3 DEF GetEmergency
  <2>2. emergency' \subseteq Throwers /\ unmade' \subseteq Throwers
    BY <1>3 DEF GetEmergency
  <2>3. QED
    BY <1>3, <2>1, <2>2 DEF GetEmergency
<1>4. CASE OpenLog(t)
  <2>1. jpc' \in [Throwers -> JavaPlaces]
    BY <1>4 DEF OpenLog
  <2>2. raf' \in [Throwers -> Throwers \cup {Nobody}]
    BY <1>4 DEF OpenLog
  <2>3. QED
    BY <1>4, <2>1, <2>2 DEF OpenLog
<1>5. CASE Rethrow(t)
  BY <1>5 DEF Rethrow
<1>6. CASE Kill(t)
  BY <1>6 DEF Kill
<1>7. CASE ErrorEscapes(t)
  BY <1>7 DEF ErrorEscapes
<1>8. QED
  BY <1>1, <1>2, <1>3, <1>4, <1>5, <1>6, <1>7

LEMMA TypeCreate ==
  ASSUME JavaTypeOK, NEW t \in Throwers, CreateLogFile(t)
  PROVE  JavaTypeOK'
<1> USE DEF JavaTypeOK, CreateLogFile, At, Goto, optionVars
<1>1. clean' \in 0..room'
  <2>1. CASE RenamePlaceholder(t)
    BY <2>1, JavaAssumption DEF RenamePlaceholder
  <2>2. CASE NewFile(t) \/ NoFile(t)
    BY <2>2, JavaAssumption DEF NewFile, NoFile
  <2>3. QED
    BY <2>1, <2>2
<1>2. path' \in Throwers \cup {Nobody} /\ file' \subseteq Throwers
  BY DEF RenamePlaceholder, NewFile, NoFile
<1>3. jpc' \in [Throwers -> JavaPlaces]
  BY DEF JavaPlaces
<1>4. QED
  BY <1>1, <1>2, <1>3

\* A write makes the offsets from the position on the writer's, in the file it has open.
LEMMA WroteEffect ==
  ASSUME JavaTypeOK, NEW t \in Throwers, raf[t] \in Throwers, NEW to \in 0..LogSize, Wrote(t, to)
  PROVE  /\ content' \in [Throwers -> Files] /\ position' \in [Throwers -> 0..LogSize]
         /\ position'[t] = to /\ \A u \in Throwers : u # t => position'[u] = position[u]
         /\ \A f \in Throwers : f # raf[t] => content'[f] = content[f]
         /\ \A o \in Offsets : content'[raf[t]][o] =
              IF o \in position[t] + 1..to THEN t ELSE content[raf[t]][o]
<1> DEFINE now == [o \in Offsets |-> IF o \in position[t] + 1..to THEN t ELSE content[raf[t]][o]]
<1>1. now \in Files
  <2>1. content[raf[t]] \in Files
    BY DEF JavaTypeOK
  <2>2. QED
    BY <2>1 DEF Files
<1>2. content' = [content EXCEPT ![raf[t]] = now]
  BY DEF Wrote
<1>3. \A o \in Offsets : now[o] = IF o \in position[t] + 1..to THEN t ELSE content[raf[t]][o]
  OBVIOUS
<1>4. position' = [position EXCEPT ![t] = to]
  BY DEF Wrote
<1> HIDE DEF now
<1>5. QED
  BY <1>1, <1>2, <1>3, <1>4 DEF JavaTypeOK

LEMMA TypeWrite ==
  ASSUME JavaTypeOK, FileInv, NEW t \in Throwers, WriteEmergency(t) \/ WriteRest(t)
  PROVE  JavaTypeOK'
<1> USE DEF JavaTypeOK, At, Goto, optionVars
<1>1. raf[t] \in Throwers /\ position[t] \in 0..LogSize /\ size[t] \in 1..LogSize
  BY DEF WriteEmergency, WriteRest, FileInv, FileAt, Offsets
<1>2. \/ UNCHANGED <<content, position>>
      \/ \E to \in 0..LogSize : Wrote(t, to)
  BY <1>1, JavaAssumption DEF WriteEmergency, WriteFails, WriteRest
<1>3. content' \in [Throwers -> Files] /\ position' \in [Throwers -> 0..LogSize]
  BY <1>1, <1>2, WroteEffect
<1>4. jpc' \in [Throwers -> JavaPlaces]
  BY DEF WriteEmergency, WriteFails, WriteRest, JavaPlaces
<1>5. emergency' \subseteq Throwers
  BY DEF WriteEmergency, WriteFails, WriteRest
<1>6. QED
  BY <1>3, <1>4, <1>5 DEF WriteEmergency, WriteRest

LEMMA TypeCrashCallback ==
  ASSUME JavaTypeOK, NEW t \in Throwers, OnCrash(t)
  PROVE  JavaTypeOK'
<1> USE DEF JavaTypeOK, OnCrash, At, Goto, optionVars
<1>1. jpc' \in [Throwers -> JavaPlaces]
  BY DEF JavaPlaces
<1>2. [log |-> t \in file, emergency |-> t \in emergency, called |-> TRUE]
        \in [log : BOOLEAN, emergency : BOOLEAN, called : BOOLEAN]
  OBVIOUS
<1>3. told' \in [Throwers -> [log : BOOLEAN, emergency : BOOLEAN, called : BOOLEAN]]
  BY <1>2
<1>4. QED
  BY <1>1, <1>3

LEMMA JavaTypeStep ==
  ASSUME JavaTypeOK, FileInv, NEW t \in Throwers, Acts(t)
  PROVE  JavaTypeOK'
BY TypeStart, TypeCreate, TypeWrite, TypeCrashCallback DEF Acts, Handles

-----------------------------------------------------------------------------
(* What a step of one thread leaves alone *)

LEMMA OwnSteps ==
  ASSUME JavaTypeOK, NEW u \in Throwers, Acts(u), NEW t \in Throwers, t # u
  PROVE  /\ jpc'[t] = jpc[t] /\ told'[t] = told[t] /\ raf'[t] = raf[t]
         /\ position'[t] = position[t]
         /\ t \in emergency' <=> t \in emergency
         /\ t \in unmade' <=> t \in unmade
         /\ t \in file' <=> t \in file
<1> USE DEF JavaTypeOK, Goto, optionVars
<1>1. CASE Throw(u) \/ SetDefault(u) \/ ErrorEscapes(u) \/ Rethrow(u) \/ Kill(u)
  BY <1>1 DEF Throw, SetDefault, ErrorEscapes, Rethrow, Kill, SystemHandler
<1>2. CASE CreateLogFile(u)
  BY <1>2 DEF CreateLogFile, RenamePlaceholder, NewFile, NoFile
<1>3. CASE GetEmergency(u) \/ OpenLog(u) \/ OnCrash(u)
  BY <1>3 DEF GetEmergency, OpenLog, OnCrash
<1>4. CASE WriteEmergency(u) \/ WriteRest(u)
  BY <1>4 DEF WriteEmergency, WriteFails, WriteRest, Wrote
<1>5. QED
  BY <1>1, <1>2, <1>3, <1>4 DEF Acts, Handles

\* The options and the sizes stay; a thread given a file keeps it, and only its own name comes up.
LEMMA Steady ==
  ASSUME NEW u \in Throwers, Acts(u)
  PROVE  /\ room' = room /\ size' = size
         /\ file \subseteq file' /\ path' \in {path, u}
         /\ path' # path => u \in file'
BY DEF optionVars, Acts, Handles, Throw, SetDefault, CreateLogFile, RenamePlaceholder, NewFile,
       NoFile, GetEmergency, OpenLog, WriteEmergency, WriteRest, OnCrash, Rethrow, Kill,
       ErrorEscapes

\* A thread changes only the file it has open, to its own text.
LEMMA ContentOwn ==
  ASSUME JavaTypeOK, FileInv, NEW u \in Throwers, Acts(u), NEW f \in Throwers, NEW o \in Offsets
  PROVE  /\ content'[f][o] \in {content[f][o], u}
         /\ content'[f][o] # content[f][o] => f = raf[u] /\ raf'[u] = raf[u]
<1>1. CASE WriteEmergency(u) \/ WriteRest(u)
  <2>1. /\ raf[u] \in Throwers /\ position[u] \in 0..LogSize /\ size[u] \in 1..LogSize
        /\ raf' = raf
    BY <1>1 DEF WriteEmergency, WriteRest, At, FileInv, FileAt, JavaTypeOK, Offsets
  <2>2. UNCHANGED content \/ \E to \in 0..LogSize : Wrote(u, to)
    BY <1>1, <2>1, JavaAssumption DEF WriteEmergency, WriteFails, WriteRest
  <2>3. CASE UNCHANGED content
    BY <2>3
  <2>4. CASE \E to \in 0..LogSize : Wrote(u, to)
    BY <2>1, <2>4, WroteEffect
  <2>5. QED
    BY <2>2, <2>3, <2>4
<1>2. CASE ~WriteEmergency(u) /\ ~WriteRest(u)
  BY <1>2 DEF Acts, Handles, Throw, SetDefault, CreateLogFile, GetEmergency, OpenLog, OnCrash,
         Rethrow, Kill, ErrorEscapes
<1>3. QED
  BY <1>1, <1>2

-----------------------------------------------------------------------------
(* The log file *)

LEMMA FileInit == InitJava => FileInv
BY DEF InitJava, FileInv, FileAt

LEMMA NamedNext ==
  ASSUME JavaTypeOK, FileInv, NEW u \in Throwers, Acts(u)
  PROVE  /\ file' # {} => path' # Nobody
         /\ path' # Nobody => path' \in file'
         /\ room' = 0 => \A s, t \in file' : s = t
<1>1. CASE CreateLogFile(u)
  <2>1. CASE NoFile(u)
    BY <1>1, <2>1 DEF CreateLogFile, NoFile, FileInv, optionVars
  <2>2. CASE RenamePlaceholder(u)
    <3>1. room # 0
      BY <2>2, JavaAssumption DEF RenamePlaceholder, JavaTypeOK
    <3>2. QED
      BY <2>2, <3>1, Steady, JavaAssumption DEF RenamePlaceholder
  <2>3. CASE NewFile(u)
    <3>1. file = {} /\ file' = {u} /\ path' = u
      BY <2>3 DEF NewFile, FileInv
    <3>2. QED
      BY <3>1, JavaAssumption
  <2>4. QED
    BY <1>1, <2>1, <2>2, <2>3 DEF CreateLogFile
<1>2. CASE ~CreateLogFile(u)
  <2>1. UNCHANGED <<file, path>>
    BY <1>2 DEF Acts, Handles, Throw, SetDefault, GetEmergency, OpenLog, WriteEmergency, WriteRest,
           OnCrash, Rethrow, Kill, ErrorEscapes
  <2>2. QED
    BY <2>1, Steady DEF FileInv
<1>3. QED
  BY <1>1, <1>2

LEMMA FileOfActor ==
  ASSUME JavaTypeOK, FileInv, NEW t \in Throwers, Acts(t)
  PROVE  FileAt(t)'
<1> USE DEF JavaTypeOK, At, Goto, optionVars
<1>0. FileAt(t) /\ (file # {} => path # Nobody) /\ (path # Nobody => path \in file)
  BY DEF FileInv
<1>1. CASE Throw(t) \/ SetDefault(t)
  <2>1. jpc[t] \in {"runs", "handling"} /\ jpc'[t] \in {"handling", "create", "ended"}
    BY <1>1 DEF Throw, SetDefault, SystemHandler
  <2>2. UNCHANGED <<file, raf, position>>
    BY <1>1 DEF Throw, SetDefault
  <2>3. QED
    BY <1>0, <2>1, <2>2 DEF FileAt
<1>2. CASE CreateLogFile(t)
  <2>1. jpc[t] = "create" /\ jpc'[t] = "emergency" /\ UNCHANGED <<raf, position>>
    BY <1>2 DEF CreateLogFile
  <2>2. QED
    BY <1>0, <2>1 DEF FileAt
<1>3. CASE GetEmergency(t)
  <2>1. /\ jpc[t] = "emergency" /\ jpc'[t] = IF t \in file THEN "open" ELSE "callback"
        /\ UNCHANGED <<file, raf, position, path>>
    BY <1>3 DEF GetEmergency
  <2>2. QED
    BY <1>0, <2>1 DEF FileAt
<1>4. CASE OpenLog(t)
  <2>1. jpc[t] = "open" /\ t \in file /\ path \in Throwers /\ UNCHANGED <<file, position, path>>
    BY <1>0, <1>4 DEF OpenLog, FileAt
  <2>2. CASE raf' = [raf EXCEPT ![t] = path] /\ Goto(t, "write")
    BY <1>0, <2>1, <2>2 DEF FileAt
  <2>3. CASE jpc' = [jpc EXCEPT ![t] = "callback"] /\ UNCHANGED raf
    BY <1>0, <2>1, <2>3 DEF FileAt
  <2>4. QED
    BY <1>4, <2>2, <2>3 DEF OpenLog, AfterNoOpen
<1>5. CASE WriteEmergency(t) \/ WriteRest(t)
  <2>1. /\ jpc[t] \in {"write", "rest"} /\ jpc'[t] \in {"rest", "callback"}
        /\ UNCHANGED <<file, raf, path>>
    BY <1>5 DEF WriteEmergency, WriteFails, WriteRest
  <2>2. QED
    BY <1>0, <2>1 DEF FileAt
<1>6. CASE OnCrash(t) \/ Rethrow(t) \/ Kill(t) \/ ErrorEscapes(t)
  <2>1. jpc'[t] \in {"finish", "ended"} /\ UNCHANGED <<file, raf, path>>
    BY <1>6 DEF OnCrash, Rethrow, Kill, ErrorEscapes, SystemHandler
  <2>2. QED
    BY <1>0, <2>1 DEF FileAt
<1>7. QED
  BY <1>1, <1>2, <1>3, <1>4, <1>5, <1>6 DEF Acts, Handles

LEMMA FileNext ==
  ASSUME JavaTypeOK, FileInv, NEW u \in Throwers, Acts(u)
  PROVE  FileInv'
<1>1. ASSUME NEW t \in Throwers, t # u PROVE FileAt(t)'
  BY <1>1, OwnSteps, Steady DEF FileInv, FileAt
<1>2. QED
  BY <1>1, NamedNext, FileOfActor DEF FileInv

LEMMA FileInvariant == JavaSpec => [](JavaTypeOK /\ FileInv)
<1>1. InitJava => JavaTypeOK /\ FileInv
  BY JavaTypeInit, FileInit
<1>2. JavaTypeOK /\ FileInv /\ [NextJava]_javaVars => JavaTypeOK' /\ FileInv'
  <2> SUFFICES ASSUME JavaTypeOK, FileInv, [NextJava]_javaVars PROVE JavaTypeOK' /\ FileInv'
    OBVIOUS
  <2>1. CASE UNCHANGED javaVars
    BY <2>1 DEF javaVars, optionVars, JavaTypeOK, FileInv, FileAt
  <2>2. QED
    BY <2>1, JavaTypeStep, FileNext DEF NextJava, Acts
<1>3. QED
  BY <1>1, <1>2, PTL DEF JavaSpec

(* Type correctness of the state of the handler. *)
THEOREM JavaTypes == JavaSpec => []JavaTypeOK
BY FileInvariant, PTL

-----------------------------------------------------------------------------
(* The emergency text *)

Settled(t) == jpc[t] \in {"rest", "callback"} \/ told[t].called

\* Nobody else has opened the file t has opened.
Alone(t) == \A u \in Throwers \ {t} : raf[u] # raf[t]

\* A text that is settled and not left for the callback was written whole, and stays so while
\* nobody else has the file open.
KeptAt(t) ==
  Settled(t) /\ t \notin emergency /\ t \notin unmade =>
    raf[t] \in Throwers /\ (Alone(t) => Whole(t, raf[t]))

\* What t wrote is in the file it has open; a text that is not yet written has no end anywhere.
WroteAt(t) ==
  /\ \A f \in Throwers, o \in Offsets : content[f][o] = t => raf[t] = f
  /\ t \in emergency => t \notin unmade /\ \A f \in Throwers : content[f][size[t]] # t

\* Where the text of one thread is, by the thread's place.
TextAt(t) ==
  /\ jpc[t] \in {"runs", "handling", "create", "emergency"} => t \notin emergency /\ t \notin unmade
  /\ jpc[t] \in {"open", "write"} => (t \in emergency <=> t \notin unmade)
  /\ jpc[t] = "rest" => t \notin emergency
  /\ jpc[t] = "finish" => told[t].called
  /\ told[t].called =>
       /\ jpc[t] \in {"finish", "ended"}
       /\ told[t].emergency <=> t \in emergency
       /\ told[t].log <=> t \in file
  /\ told[t].emergency => told[t].called

EmergencyInv == \A t \in Throwers : TextAt(t) /\ WroteAt(t) /\ KeptAt(t)

LEMMA EmergencyInit == InitJava => EmergencyInv
<1> SUFFICES ASSUME InitJava, NEW t \in Throwers PROVE TextAt(t) /\ WroteAt(t) /\ KeptAt(t)
  BY DEF EmergencyInv
<1>1. jpc[t] = "runs" /\ told[t].called = FALSE /\ told[t].emergency = FALSE
  BY DEF InitJava, Untold
<1>2. t \notin emergency /\ t \notin unmade
  BY DEF InitJava
<1>3. \A f \in Throwers, o \in Offsets : content[f][o] # t
  BY JavaAssumption DEF InitJava
<1>4. QED
  BY <1>1, <1>2, <1>3 DEF TextAt, WroteAt, KeptAt, Settled

LEMMA TextOfOthers ==
  ASSUME JavaTypeOK, FileInv, NEW u \in Throwers, Acts(u), NEW t \in Throwers, t # u,
         TextAt(t), WroteAt(t), KeptAt(t)
  PROVE  TextAt(t)' /\ WroteAt(t)' /\ KeptAt(t)'
<1>1. size' = size /\ size[t] \in Offsets /\ 1..size[t] \subseteq Offsets
  BY Steady, JavaAssumption DEF JavaTypeOK, Offsets
<1>2. TextAt(t)'
  BY OwnSteps DEF TextAt
<1>3. \A f \in Throwers, o \in Offsets : content'[f][o] = t => content[f][o] = t
  BY ContentOwn
<1>4. WroteAt(t)'
  BY <1>1, <1>3, OwnSteps DEF WroteAt
<1>5. KeptAt(t)'
  <2> SUFFICES ASSUME Settled(t)', t \notin emergency', t \notin unmade'
               PROVE  raf'[t] \in Throwers /\ (Alone(t)' => Whole(t, raf[t])')
    BY DEF KeptAt
  <2>1. /\ raf[t] \in Throwers /\ raf'[t] = raf[t]
        /\ Alone(t) => Whole(t, raf[t])
    BY OwnSteps DEF KeptAt, Settled
  <2>2. ASSUME Alone(t)' PROVE Whole(t, raf[t])'
    <3>1. \A s \in Throwers \ {t} : raf'[s] # raf[t]
      BY <2>1, <2>2 DEF Alone
    <3>2. raf[u] # raf[t]
      <4>1. raf'[u] # raf[t]
        BY <3>1
      <4>2. raf'[u] = raf[u] \/ raf[u] = Nobody
        BY DEF Acts, Handles, Throw, SetDefault, CreateLogFile, GetEmergency, OpenLog,
           WriteEmergency, WriteRest, OnCrash, Rethrow, Kill, ErrorEscapes, At, FileInv, FileAt
      <4>3. QED
        BY <2>1, <4>1, <4>2, JavaAssumption
    <3>3. \A s \in Throwers \ {t} : raf[s] # raf[t]
      BY <3>1, <3>2, OwnSteps
    <3>4. Whole(t, raf[t])
      BY <2>1, <3>3 DEF Alone
    <3>5. \A o \in Offsets : content'[raf[t]][o] = content[raf[t]][o]
      BY <2>1, <3>2, ContentOwn
    <3>6. QED
      BY <1>1, <2>1, <3>4, <3>5 DEF Whole
  <2>3. QED
    BY <2>1, <2>2
<1>6. QED
  BY <1>2, <1>4, <1>5

LEMMA TextOfActor ==
  ASSUME JavaTypeOK, FileInv, NEW t \in Throwers, Acts(t), TextAt(t), WroteAt(t), KeptAt(t)
  PROVE  TextAt(t)' /\ WroteAt(t)' /\ KeptAt(t)'
<1> USE DEF At, Goto, optionVars
<1>0. /\ FileAt(t) /\ size' = size /\ size[t] \in 1..LogSize
      /\ position[t] \in 0..LogSize /\ raf[t] \in Throwers \cup {Nobody}
      /\ Nobody \notin Throwers /\ LogSize \in Nat
  BY Steady, JavaAssumption DEF FileInv, JavaTypeOK, Offsets
<1>1. CASE Throw(t) \/ SetDefault(t) \/ CreateLogFile(t)
  <2>1. /\ jpc[t] \in {"runs", "handling", "create"}
        /\ jpc'[t] \in {"handling", "create", "emergency", "ended"}
    BY <1>1 DEF Throw, SetDefault, CreateLogFile, SystemHandler, JavaTypeOK
  <2>2. UNCHANGED <<content, raf, emergency, unmade, told>>
    BY <1>1 DEF Throw, SetDefault, CreateLogFile
  <2>3. ~told[t].called
    BY <2>1 DEF TextAt
  <2>4. TextAt(t)' /\ KeptAt(t)'
    BY <2>1, <2>2, <2>3 DEF TextAt, KeptAt, Settled
  <2>5. QED
    BY <1>0, <2>2, <2>4 DEF WroteAt
<1>2. CASE GetEmergency(t)
  <2>1. /\ jpc[t] = "emergency" /\ jpc'[t] \in {"open", "callback"}
        /\ UNCHANGED <<content, raf, told>>
    BY <1>2 DEF GetEmergency, JavaTypeOK
  <2>2. t \in emergency' <=> t \notin unmade'
    BY <1>2, <2>1 DEF GetEmergency, TextAt
  <2>3. ~told[t].called /\ raf[t] = Nobody
    BY <1>0, <2>1 DEF TextAt, FileAt
  <2>4. TextAt(t)' /\ KeptAt(t)'
    BY <2>1, <2>2, <2>3 DEF TextAt, KeptAt, Settled
  <2>5. \A f \in Throwers, o \in Offsets : content[f][o] # t
    BY <1>0, <2>3 DEF WroteAt
  <2>6. WroteAt(t)'
    BY <1>0, <2>1, <2>2, <2>5 DEF WroteAt, Offsets
  <2>7. QED
    BY <2>4, <2>6
<1>3. CASE OpenLog(t)
  <2>1. /\ jpc[t] = "open" /\ jpc'[t] \in {"write", "callback"} /\ raf[t] = Nobody
        /\ UNCHANGED <<content, emergency, unmade, told>>
    BY <1>0, <1>3 DEF OpenLog, AfterNoOpen, FileAt, JavaTypeOK
  <2>2. ~told[t].called /\ (t \in emergency <=> t \notin unmade)
    BY <2>1 DEF TextAt
  <2>3. TextAt(t)' /\ KeptAt(t)'
    BY <2>1, <2>2 DEF TextAt, KeptAt, Settled
  <2>4. \A f \in Throwers, o \in Offsets : content[f][o] # t
    BY <1>0, <2>1 DEF WroteAt
  <2>5. QED
    BY <1>0, <2>1, <2>3, <2>4 DEF WroteAt
<1>4. CASE WriteEmergency(t)
  <2>1. /\ jpc[t] = "write" /\ jpc'[t] \in {"rest", "callback"}
        /\ UNCHANGED <<raf, unmade, told>>
        /\ raf[t] \in Throwers /\ position[t] = 0
    BY <1>0, <1>4 DEF WriteEmergency, WriteFails, FileAt, JavaTypeOK
  <2>2. ~told[t].called /\ (t \in emergency <=> t \notin unmade)
    BY <2>1 DEF TextAt
  <2>3. \A f \in Throwers, o \in Offsets : content'[f][o] = t => raf'[t] = f
    BY <1>4, <2>1, ContentOwn DEF WroteAt
  <2>4. CASE t \in emergency /\ WriteFails(t)
    <3>1. PICK to \in 0..size[t] - 1 : Wrote(t, to)
      BY <2>4 DEF WriteFails
    <3>2. to \in 0..LogSize /\ size[t] \notin position[t] + 1..to /\ size[t] \in Offsets
      BY <1>0, <2>1, <3>1 DEF Offsets
    <3>3. \A f \in Throwers : content'[f][size[t]] = content[f][size[t]]
      BY <2>1, <3>1, <3>2, WroteEffect
    <3>4. emergency' = emergency /\ jpc'[t] = "callback"
      BY <2>4 DEF WriteFails, JavaTypeOK
    <3>5. WroteAt(t)'
      BY <1>0, <2>1, <2>3, <3>3, <3>4 DEF WroteAt
    <3>6. QED
      BY <2>1, <2>2, <2>4, <3>4, <3>5 DEF TextAt, KeptAt, Settled
  <2>5. CASE jpc'[t] = "rest" /\ t \notin emergency'
             /\ IF t \in emergency THEN Wrote(t, size[t]) ELSE UNCHANGED content
    <3>1. TextAt(t)' /\ WroteAt(t)'
      BY <2>1, <2>2, <2>3, <2>5 DEF TextAt, WroteAt
    <3>2. CASE t \in emergency
      <4>1. \A o \in 1..size[t] : content'[raf[t]][o] = t
        BY <1>0, <2>1, <2>5, <3>2, WroteEffect DEF Offsets
      <4>2. Whole(t, raf[t])'
        BY <1>0, <2>1, <4>1 DEF Whole
      <4>3. QED
        BY <2>1, <3>1, <4>2 DEF KeptAt
    <3>3. CASE t \notin emergency
      BY <2>1, <2>2, <3>1, <3>3 DEF KeptAt
    <3>4. QED
      BY <3>2, <3>3
  <2>6. QED
    BY <1>4, <2>4, <2>5 DEF WriteEmergency, JavaTypeOK
<1>5. CASE WriteRest(t)
  <2>1. /\ jpc[t] = "rest" /\ jpc'[t] \in {"rest", "callback"}
        /\ UNCHANGED <<raf, emergency, unmade, told>>
        /\ raf[t] \in Throwers
    BY <1>0, <1>5 DEF WriteRest, FileAt, JavaTypeOK
  <2>2. ~told[t].called /\ t \notin emergency
    BY <2>1 DEF TextAt
  <2>3. \A f \in Throwers, o \in Offsets : content'[f][o] = t => raf'[t] = f
    BY <1>5, <2>1, ContentOwn DEF WroteAt
  <2>4. TextAt(t)' /\ WroteAt(t)'
    BY <2>1, <2>2, <2>3 DEF TextAt, WroteAt
  <2>5. \A o \in Offsets : content[raf[t]][o] = t => content'[raf[t]][o] = t
    BY <2>1, ContentOwn
  <2>6. Whole(t, raf[t]) => Whole(t, raf[t])'
    BY <1>0, <2>1, <2>5 DEF Whole, Offsets
  <2>7. KeptAt(t)'
    BY <2>1, <2>2, <2>6 DEF KeptAt, Settled, Alone
  <2>8. QED
    BY <2>4, <2>7
<1>6. CASE OnCrash(t)
  <2>1. /\ jpc[t] = "callback" /\ jpc'[t] = "finish"
        /\ UNCHANGED <<content, raf, emergency, unmade, file>>
        /\ told'[t].called /\ (told'[t].emergency <=> t \in emergency)
        /\ told'[t].log <=> t \in file
    BY <1>6 DEF OnCrash, JavaTypeOK
  <2>2. TextAt(t)' /\ WroteAt(t)'
    BY <1>0, <2>1 DEF TextAt, WroteAt
  <2>3. QED
    BY <1>0, <2>1, <2>2 DEF KeptAt, Settled, Alone, Whole
<1>7. CASE Rethrow(t) \/ Kill(t) \/ ErrorEscapes(t)
  <2>1. jpc'[t] = "ended" /\ UNCHANGED <<content, raf, emergency, unmade, told, file>>
    BY <1>7 DEF Rethrow, Kill, ErrorEscapes, SystemHandler, JavaTypeOK
  <2>2. TextAt(t)' /\ WroteAt(t)'
    BY <1>0, <2>1 DEF TextAt, WroteAt
  <2>3. QED
    BY <1>0, <2>1, <2>2 DEF KeptAt, Settled, Alone, Whole
<1>8. QED
  BY <1>1, <1>2, <1>3, <1>4, <1>5, <1>6, <1>7 DEF Acts, Handles

LEMMA TextNext ==
  ASSUME JavaTypeOK, FileInv, EmergencyInv, [NextJava]_javaVars
  PROVE  EmergencyInv'
<1>1. ASSUME NEW u \in Throwers, Acts(u) PROVE EmergencyInv'
  BY <1>1, TextOfOthers, TextOfActor DEF EmergencyInv
<1>2. CASE UNCHANGED javaVars
  BY <1>2 DEF javaVars, optionVars, EmergencyInv, TextAt, WroteAt, KeptAt, Settled, Alone, Whole
<1>3. QED
  BY <1>1, <1>2 DEF NextJava, Acts

LEMMA TextInvariant == JavaSpec => [](JavaTypeOK /\ FileInv /\ EmergencyInv)
<1>1. JavaTypeOK /\ FileInv /\ EmergencyInv /\ [NextJava]_javaVars => EmergencyInv'
  BY TextNext
<1>2. QED
  BY <1>1, EmergencyInit, FileInvariant, PTL DEF JavaSpec

(* Whoever else writes to the same file: a text the callback gets was made, and is whole in no
   file. *)
THEOREM EmergencyKept == JavaSpec => []EmergencyOnceJava
<1>1. JavaTypeOK /\ EmergencyInv => EmergencyOnceJava
  <2> SUFFICES ASSUME JavaTypeOK, EmergencyInv, NEW t \in Throwers, told[t].emergency
               PROVE  t \notin unmade /\ \A f \in Throwers : ~Whole(t, f)
    BY DEF EmergencyOnceJava
  <2>1. t \notin unmade /\ \A f \in Throwers : content[f][size[t]] # t
    BY DEF EmergencyInv, TextAt, WroteAt
  <2>2. size[t] \in 1..size[t]
    BY JavaAssumption DEF JavaTypeOK, Offsets
  <2>3. QED
    BY <2>1, <2>2 DEF Whole
<1>2. QED
  BY <1>1, TextInvariant, PTL

-----------------------------------------------------------------------------
(* The first crash *)

\* The handler of the system is back only after a thread threw, and nobody else kills the process.
KillInv ==
  /\ handler = "system" => \E t \in Throwers : jpc[t] # "runs"
  /\ FirstCrashReported

LEMMA KillInit == InitJava => KillInv
BY DEF InitJava, KillInv, FirstCrashReported

LEMMA KillNext ==
  ASSUME JavaTypeOK, EmergencyInv, KillInv, NEW u \in Throwers, Acts(u)
  PROVE  KillInv'
<1> USE DEF JavaTypeOK, At, Goto, optionVars
<1>1. ~killed
  BY DEF Acts, Handles, Throw, SetDefault, CreateLogFile, GetEmergency, OpenLog, WriteEmergency,
         WriteRest, OnCrash, Rethrow, Kill, ErrorEscapes
<1>2. jpc'[u] # "runs" /\ \A t \in Throwers : t # u => jpc'[t] = jpc[t] /\ told'[t] = told[t]
  <2>1. jpc'[u] # "runs"
    BY DEF Acts, Handles, Throw, SetDefault, CreateLogFile, GetEmergency, OpenLog, WriteEmergency,
           WriteFails, WriteRest, OnCrash, Rethrow, Kill, ErrorEscapes, SystemHandler, AfterNoOpen
  <2>2. QED
    BY <2>1, OwnSteps
<1>3. (handler = "system" => \E t \in Throwers : jpc[t] # "runs")'
  BY <1>2
<1>4. ASSUME NEW t \in Throwers, killed', Thrown' = {t}
      PROVE  told'[t].called
  <2>1. t = u
    BY <1>2, <1>4 DEF Thrown
  <2>2. CASE Throw(u)
    <3>1. handler = "system" /\ jpc[u] = "runs"
      BY <1>1, <1>4, <2>2 DEF Throw
    <3>2. PICK s \in Throwers : jpc[s] # "runs"
      BY <3>1 DEF KillInv
    <3>3. s # u /\ s \in Thrown'
      BY <1>2, <3>1, <3>2 DEF Thrown
    <3>4. QED
      BY <1>4, <2>1, <3>3
  <2>3. CASE Rethrow(u) \/ Kill(u)
    BY <2>1, <2>3 DEF Rethrow, Kill, EmergencyInv, TextAt
  <2>4. CASE ~Throw(u) /\ ~Rethrow(u) /\ ~Kill(u)
    BY <1>1, <1>4, <2>4 DEF Acts, Handles, SetDefault, CreateLogFile, GetEmergency, OpenLog,
       WriteEmergency, WriteRest, OnCrash, ErrorEscapes
  <2>5. QED
    BY <2>2, <2>3, <2>4
<1>5. QED
  BY <1>3, <1>4 DEF KillInv, FirstCrashReported

(* If a single thread throws, the process is killed only after the application was told. *)
THEOREM FirstReported == JavaSpec => []FirstCrashReported
<1>1. JavaTypeOK /\ EmergencyInv /\ KillInv /\ [NextJava]_javaVars => KillInv'
  <2> SUFFICES ASSUME JavaTypeOK, EmergencyInv, KillInv, [NextJava]_javaVars PROVE KillInv'
    OBVIOUS
  <2>1. CASE UNCHANGED javaVars
    BY <2>1 DEF javaVars, optionVars, KillInv, FirstCrashReported, Thrown
  <2>2. QED
    BY <2>1, KillNext DEF NextJava, Acts
<1>2. KillInv => FirstCrashReported
  BY DEF KillInv
<1>3. QED
  BY <1>1, <1>2, KillInit, TextInvariant, PTL DEF JavaSpec

-----------------------------------------------------------------------------
(* The report in the log *)

(* A text that was made and that the callback does not get is whole in the log, with nothing of
   another thread in it, unless another thread took the name of the log or opened the file. *)
THEOREM ReportKept == JavaSpec => []JavaReportNotLost
<1>1. JavaTypeOK /\ FileInv /\ EmergencyInv => JavaReportNotLost
  <2> SUFFICES ASSUME JavaTypeOK, FileInv, EmergencyInv, NEW t \in Throwers,
                      told[t].called, ~told[t].emergency, t \notin unmade, ~Disturbed(t)
               PROVE  /\ told[t].log /\ path # Nobody /\ Whole(t, path)
                      /\ \A o \in Offsets : content[path][o] \in {t, Nobody}
    BY DEF JavaReportNotLost
  <2>1. t \notin emergency /\ raf[t] \in Throwers /\ (Alone(t) => Whole(t, raf[t]))
    BY DEF EmergencyInv, TextAt, KeptAt, Settled
  <2>2. t \in file /\ told[t].log
    BY <2>1, JavaAssumption DEF FileInv, FileAt, EmergencyInv, TextAt
  <2>3. path = t
    BY <2>2 DEF FileInv, JavaTypeOK, Disturbed
  <2>4. raf[t] = t
    BY <2>1, <2>3, JavaAssumption DEF FileInv, FileAt
  <2>5. Whole(t, path)
    BY <2>1, <2>3, <2>4 DEF Alone, Disturbed
  <2>6. ASSUME NEW o \in Offsets PROVE content[path][o] \in {t, Nobody}
    <3>1. content[path][o] \in Throwers \cup {Nobody}
      BY <2>3 DEF JavaTypeOK, Files
    <3>2. ASSUME NEW u \in Throwers \ {t} PROVE content[path][o] # u
      BY <2>3 DEF EmergencyInv, WroteAt, Disturbed
    <3>3. QED
      BY <3>1, <3>2
  <2>7. QED
    BY <2>2, <2>3, <2>5, <2>6, JavaAssumption
<1>2. QED
  BY <1>1, TextInvariant, PTL

(* A report no other thread disturbed is whole in the log or in the callback, and not in both; no
   report is disturbed if there was no placeholder. *)
THEOREM ReportOnce == JavaSpec => []JavaReportOnce
<1>1. JavaTypeOK /\ FileInv => NoneWithoutPlaceholder
  <2> SUFFICES ASSUME JavaTypeOK, FileInv, room = 0, NEW t \in file, NEW u \in Throwers \ {t}
               PROVE  path # u /\ raf[u] # t
    BY DEF NoneWithoutPlaceholder, Disturbed
  <2>1. u \notin file
    BY DEF FileInv
  <2>2. t \in Throwers /\ path # u
    BY <2>1, JavaAssumption DEF FileInv, JavaTypeOK
  <2>3. QED
    BY <2>1, <2>2, JavaAssumption DEF FileInv, FileAt
<1>2. EmergencyOnceJava /\ JavaReportNotLost /\ NoneWithoutPlaceholder => JavaReportOnce
  BY DEF JavaReportOnce
<1>3. QED
  BY <1>1, <1>2, EmergencyKept, ReportKept, TextInvariant, PTL

-----------------------------------------------------------------------------
(* The singleton.  One activity at a time is between onCreate and          *)
(* onDestroy; the state says what the last of them has left.               *)

InUse(a) == stage[a] \in {"created", "alive", "ending"}

\* Between initRes of an activity and the ON_DESTROY that ends it.
Owns(a) == stage[a] = "alive" \/ (stage[a] = "ending" /\ ~modern)

SingletonInv ==
  /\ SingletonTypeOK
  /\ ~overlap => \A a, b \in Screens : InUse(a) /\ InUse(b) => a = b
  /\ ~overlap /\ (modern \/ ~releases) =>
       /\ state = "END_UNRELEASED" => resource
       /\ \A a \in Screens : Owns(a) \/ (~releases /\ stage[a] = "ending") => resource
  /\ ~overlap /\ ~releases =>
       /\ state = "null" => made = 0
       /\ state = "STARTED" => \E a \in Screens : Owns(a)
       /\ state # "END_RELEASED"
       /\ made <= 1

LEMMA SingletonStart == InitSingleton => SingletonInv
<1> SUFFICES ASSUME InitSingleton PROVE SingletonInv
  OBVIOUS
<1> USE DEF InitSingleton
<1>1. SingletonTypeOK
  BY DEF SingletonTypeOK
<1>2. (\A a \in Screens : ~InUse(a) /\ ~Owns(a) /\ stage[a] # "ending") /\ state = "null" /\ made = 0
  BY DEF InUse, Owns
<1>3. QED
  BY <1>1, <1>2 DEF SingletonInv

LEMMA SingletonStep ==
  ASSUME SingletonInv, NEW a \in Screens, OnCreate(a) \/ OnActivityCreate(a) \/ Ending(a) \/ Gone(a)
  PROVE  SingletonInv'
<1> USE DEF SingletonInv, SingletonTypeOK, InUse, Owns, Move
<1>1. CASE OnCreate(a)
  BY <1>1 DEF OnCreate
<1>2. CASE OnActivityCreate(a)
  <2>1. CASE state = "END_UNRELEASED"
    BY <1>2, <2>1 DEF OnActivityCreate
  <2>2. CASE state # "END_UNRELEASED"
    <3>1. /\ resource' = TRUE /\ state' = "STARTED" /\ made' = made + 1
          /\ stage[a] = "created" /\ stage' = [stage EXCEPT ![a] = "alive"]
          /\ UNCHANGED <<releases, modern, overlap>>
      BY <1>2, <2>2 DEF OnActivityCreate, InitRes
    <3>2. ~overlap /\ ~releases => made = 0
      BY <2>2, <3>1
    <3>3. QED
      BY <3>1, <3>2
  <2>3. QED
    BY <2>1, <2>2
<1>3. CASE Ending(a)
  BY <1>3 DEF Ending, OnActivityDestroy, ReleaseRes
<1>4. CASE Gone(a)
  BY <1>4 DEF Gone, OnActivityDestroy, ReleaseRes
<1>5. QED
  BY <1>1, <1>2, <1>3, <1>4

(* An activity that lives has the resource, and an application that never releases it makes it    *)
(* once, for any number of activities one after the other.                                        *)
THEOREM SingletonKeepsResource == SpecSingleton => []SingletonServes
<1>1. SingletonInv /\ [NextSingleton]_singletonVars => SingletonInv'
  <2>1. ASSUME SingletonInv, NextSingleton PROVE SingletonInv'
    BY <2>1, SingletonStep DEF NextSingleton
  <2>2. ASSUME SingletonInv, UNCHANGED singletonVars PROVE SingletonInv'
    BY <2>2 DEF SingletonInv, singletonVars, SingletonTypeOK, InUse, Owns
  <2>3. QED
    BY <2>1, <2>2
<1>2. SingletonInv => SingletonServes
  BY DEF SingletonInv, SingletonServes, ResourceForLiving, MadeOnce, Owns
<1>3. QED
  BY <1>1, <1>2, SingletonStart, PTL DEF SpecSingleton

-----------------------------------------------------------------------------
(* The monitor of the activities                                           *)

Different(list) == \A i, j \in DOMAIN list : list[i] = list[j] => i = j

\* The list is the beginning of the living, position by position.
Begins(list, whole) ==
  /\ Len(list) <= Len(whole)
  /\ \A i \in 1..Len(list) : list[i] = whole[i]

MonitorInv ==
  /\ MonitorTypeOK
  /\ Different(living) /\ Begins(activities, living)
  /\ IsFiniteSet(visible) /\ activityReferences = Cardinality(visible)
  /\ visible # {} => isAppForeground
  /\ isActivityChangingConfigurations => isAppForeground
  /\ isAppForeground => visible # {} \/ isActivityChangingConfigurations

LEMMA BeginsIsPrefix ==
  ASSUME NEW S, NEW list \in Seq(S), NEW all \in Seq(S), Begins(list, all)
  PROVE  IsPrefix(list, all)
<1>1. Len(list) \in Nat /\ Len(all) \in Nat /\ Len(list) <= Len(all)
  BY DEF Begins
<1>2. /\ SubSeq(list, 1, Len(list)) \in Seq(S) /\ SubSeq(all, 1, Len(list)) \in Seq(S)
      /\ Len(SubSeq(list, 1, Len(list))) = Len(list) /\ Len(SubSeq(all, 1, Len(list))) = Len(list)
      /\ \A i \in 1..Len(list) : /\ SubSeq(list, 1, Len(list))[i] = list[i]
                                 /\ SubSeq(all, 1, Len(list))[i] = all[i]
  BY <1>1
<1>3. SubSeq(list, 1, Len(list)) = SubSeq(all, 1, Len(list))
  BY <1>2, SeqEqual DEF Begins
<1>4. QED
  BY <1>1, <1>3 DEF IsPrefix

\* An activity that is created comes first, and the oldest is dropped.
LEMMA AddActivityBegins ==
  ASSUME NEW S, NEW list \in Seq(S), NEW all \in Seq(S), Begins(list, all), NEW x \in S
  PROVE  /\ AddActivity(list, x) \in Seq(S) /\ <<x>> \o all \in Seq(S)
         /\ Begins(AddActivity(list, x), <<x>> \o all)
<1> DEFINE added == <<x>> \o list
           longer == <<x>> \o all
<1>1. /\ added \in Seq(S) /\ longer \in Seq(S)
      /\ Len(added) = Len(list) + 1 /\ Len(longer) = Len(all) + 1
      /\ \A i \in 1..Len(list) + 1 : added[i] = IF i = 1 THEN x ELSE list[i - 1]
      /\ \A i \in 1..Len(all) + 1 : longer[i] = IF i = 1 THEN x ELSE all[i - 1]
  OBVIOUS
<1>2. Begins(added, longer)
  <2> SUFFICES ASSUME NEW i \in 1..Len(added) PROVE added[i] = longer[i]
    BY <1>1 DEF Begins
  <2>1. i = 1 \/ i - 1 \in 1..Len(list)
    BY <1>1
  <2>2. QED
    BY <1>1, <2>1 DEF Begins
<1>3. CASE Len(added) > MaxActivities
  <2>1. /\ AddActivity(list, x) = SubSeq(added, 1, Len(added) - 1)
        /\ Len(added) - 1 \in Nat
    BY <1>1, <1>3 DEF AddActivity, Front
  <2>2. /\ SubSeq(added, 1, Len(added) - 1) \in Seq(S)
        /\ Len(SubSeq(added, 1, Len(added) - 1)) = Len(added) - 1
        /\ \A i \in 1..Len(added) - 1 : SubSeq(added, 1, Len(added) - 1)[i] = added[i]
    BY <1>1, <2>1
  <2>3. QED
    BY <1>1, <1>2, <2>1, <2>2 DEF Begins
<1>4. CASE ~(Len(added) > MaxActivities)
  BY <1>1, <1>2, <1>4 DEF AddActivity
<1>5. QED
  BY <1>3, <1>4

\* The first place of an element is its only one in a list of different elements.
LEMMA FirstPlace ==
  ASSUME NEW S, NEW list \in Seq(S), Different(list), NEW k \in 1..Len(list)
  PROVE  RemoveFirst(list, list[k]) = RemoveAt(list, k)
<1> DEFINE places == {i \in 1..Len(list) : list[i] = list[k]}
<1>1. places = {k}
  BY DEF Different
<1>2. SelectInSeq(list, LAMBDA v : v = list[k]) = k
  <2>1. k \in Int /\ k <= k
    OBVIOUS
  <2>2. (CHOOSE x \in {k} : \A y \in {k} : x <= y) = k
    BY <2>1
  <2>3. QED
    BY <1>1, <2>2 DEF SelectInSeq, Min
<1>3. QED
  BY <1>2 DEF RemoveFirst

LEMMA WithoutPlace ==
  ASSUME NEW S, NEW s \in Seq(S), NEW k \in 1..Len(s)
  PROVE  /\ RemoveAt(s, k) \in Seq(S) /\ Len(RemoveAt(s, k)) = Len(s) - 1
         /\ DOMAIN RemoveAt(s, k) = 1..Len(s) - 1
         /\ \A i \in 1..Len(s) - 1 : RemoveAt(s, k)[i] = IF i < k THEN s[i] ELSE s[i + 1]
<1> DEFINE before == SubSeq(s, 1, k - 1)
           after == SubSeq(s, k + 1, Len(s))
<1>1. Len(s) \in Nat /\ k \in Nat /\ k >= 1 /\ k <= Len(s) /\ k - 1 \in Nat
  OBVIOUS
<1>2. /\ before \in Seq(S) /\ Len(before) = k - 1 /\ \A i \in 1..k - 1 : before[i] = s[i]
  BY <1>1
<1>3. /\ after \in Seq(S) /\ Len(after) = Len(s) - k
      /\ \A i \in 1..Len(s) - k : after[i] = s[k + i]
  <2>1. CASE k = Len(s)
    BY <1>1, <2>1
  <2>2. CASE k < Len(s)
    BY <1>1, <2>2
  <2>3. QED
    BY <1>1, <2>1, <2>2
<1> HIDE DEF before, after
<1>4. /\ before \o after \in Seq(S) /\ Len(before \o after) = Len(s) - 1
      /\ \A i \in 1..Len(s) - 1 : (before \o after)[i] = IF i <= k - 1 THEN before[i] ELSE after[i - (k - 1)]
  <2>1. Len(before) + Len(after) = Len(s) - 1
    BY <1>1, <1>2, <1>3
  <2>2. /\ before \o after \in Seq(S) /\ Len(before \o after) = Len(before) + Len(after)
        /\ \A i \in 1..Len(before) + Len(after) :
             (before \o after)[i] = IF i <= Len(before) THEN before[i] ELSE after[i - Len(before)]
    BY <1>2, <1>3, ConcatProperties
  <2>3. QED
    BY <1>2, <2>1, <2>2
<1>5. \A i \in 1..Len(s) - 1 : (before \o after)[i] = IF i < k THEN s[i] ELSE s[i + 1]
  <2> SUFFICES ASSUME NEW i \in 1..Len(s) - 1
               PROVE  (before \o after)[i] = IF i < k THEN s[i] ELSE s[i + 1]
    OBVIOUS
  <2>1. CASE i < k
    <3>1. i \in 1..k - 1 /\ i <= k - 1
      BY <1>1, <2>1
    <3>2. QED
      BY <1>2, <1>4, <2>1, <3>1
  <2>2. CASE ~(i < k)
    <3>1. i - (k - 1) \in 1..Len(s) - k /\ k + (i - (k - 1)) = i + 1 /\ ~(i <= k - 1)
      BY <1>1, <2>2
    <3>2. QED
      BY <1>3, <1>4, <2>2, <3>1
  <2>3. QED
    BY <2>1, <2>2
<1>6. RemoveAt(s, k) = before \o after
  BY DEF RemoveAt, before, after
<1>7. DOMAIN (before \o after) = 1..Len(s) - 1
  BY <1>4
<1>8. QED
  BY <1>4, <1>5, <1>6, <1>7

\* An element is taken out of the list and of its beginning at the same place.
LEMMA RemoveBegins ==
  ASSUME NEW S, NEW list \in Seq(S), NEW all \in Seq(S), Begins(list, all), Different(all),
         NEW x \in S, Contains(all, x)
  PROVE  /\ RemoveFirst(list, x) \in Seq(S) /\ RemoveFirst(all, x) \in Seq(S)
         /\ Begins(RemoveFirst(list, x), RemoveFirst(all, x)) /\ Different(RemoveFirst(all, x))
<1>1. PICK k \in 1..Len(all) : all[k] = x
  BY DEF Contains
<1>2. /\ Len(list) \in Nat /\ Len(all) \in Nat /\ Len(list) <= Len(all) /\ k \in Nat /\ k >= 1 /\ k <= Len(all)
      /\ DOMAIN list = 1..Len(list) /\ DOMAIN all = 1..Len(all)
      /\ \A i \in 1..Len(list) : list[i] = all[i]
  BY DEF Begins
<1>4. RemoveFirst(all, x) = RemoveAt(all, k)
  BY <1>1, FirstPlace
<1>3. /\ RemoveAt(all, k) \in Seq(S) /\ Len(RemoveAt(all, k)) = Len(all) - 1
      /\ DOMAIN RemoveAt(all, k) = 1..Len(all) - 1
      /\ \A i \in 1..Len(all) - 1 : RemoveAt(all, k)[i] = IF i < k THEN all[i] ELSE all[i + 1]
  BY WithoutPlace
<1>5. Different(RemoveFirst(all, x))
  <2> SUFFICES ASSUME NEW i \in 1..Len(all) - 1, NEW j \in 1..Len(all) - 1,
                      RemoveAt(all, k)[i] = RemoveAt(all, k)[j]
               PROVE  i = j
    BY <1>3, <1>4 DEF Different
  <2> DEFINE old(n) == IF n < k THEN n ELSE n + 1
  <2>1. old(i) \in 1..Len(all) /\ old(j) \in 1..Len(all)
    BY <1>2
  <2>2. all[old(i)] = all[old(j)]
    BY <1>2, <1>3
  <2>3. old(i) = old(j)
    BY <1>2, <2>1, <2>2 DEF Different
  <2>4. QED
    BY <1>2, <2>3
<1>6. CASE k <= Len(list)
  <2>1. Different(list) /\ list[k] = x
    BY <1>1, <1>2, <1>6 DEF Different
  <2>2. RemoveFirst(list, x) = RemoveAt(list, k)
    BY <1>2, <1>6, <2>1, FirstPlace
  <2>3. /\ RemoveAt(list, k) \in Seq(S) /\ Len(RemoveAt(list, k)) = Len(list) - 1
        /\ \A i \in 1..Len(list) - 1 : RemoveAt(list, k)[i] = IF i < k THEN list[i] ELSE list[i + 1]
    <3>1. k \in 1..Len(list)
      BY <1>2, <1>6
    <3>2. QED
      BY <3>1, WithoutPlace
  <2>4. ASSUME NEW i \in 1..Len(list) - 1
        PROVE  RemoveAt(list, k)[i] = RemoveAt(all, k)[i]
    <3>1. i \in 1..Len(list) /\ i + 1 \in 1..Len(list) /\ i \in 1..Len(all) - 1
      BY <1>2
    <3>2. RemoveAt(list, k)[i] = IF i < k THEN list[i] ELSE list[i + 1]
      BY <2>3
    <3>3. RemoveAt(all, k)[i] = IF i < k THEN all[i] ELSE all[i + 1]
      BY <1>3, <3>1
    <3>4. QED
      BY <1>2, <3>1, <3>2, <3>3
  <2>5. QED
    BY <1>2, <1>3, <1>4, <1>5, <2>2, <2>3, <2>4 DEF Begins
<1>7. CASE k > Len(list)
  <2>1. \A i \in 1..Len(list) : list[i] # x
    BY <1>1, <1>2, <1>7 DEF Different
  <2>2. RemoveFirst(list, x) = list
    BY <2>1 DEF RemoveFirst
  <2>4. ASSUME NEW i \in 1..Len(list)
        PROVE  list[i] = RemoveAt(all, k)[i]
    <3>1. i < k /\ i \in 1..Len(all) - 1
      BY <1>2, <1>7
    <3>2. QED
      BY <1>2, <1>3, <3>1
  <2>5. QED
    BY <1>2, <1>3, <1>4, <1>5, <1>7, <2>2, <2>4 DEF Begins
<1>8. QED
  BY <1>2, <1>6, <1>7

LEMMA MonitorStart == InitMonitor => MonitorInv
<1> SUFFICES ASSUME InitMonitor PROVE MonitorInv
  OBVIOUS
<1> USE DEF InitMonitor
<1>1. MonitorTypeOK
  <2>1. activities \in Seq(Activities) /\ living \in Seq(Activities) /\ activityReferences \in Nat
    OBVIOUS
  <2>2. QED
    BY <2>1 DEF MonitorTypeOK
<1>2. Different(living) /\ Begins(activities, living)
  BY DEF Different, Begins
<1>3. IsFiniteSet(visible) /\ activityReferences = Cardinality(visible)
  BY FS_EmptySet
<1>4. QED
  BY <1>1, <1>2, <1>3 DEF MonitorInv

\* Activities that come and go leave the visible ones alone.
LEMMA MonitorLists ==
  ASSUME MonitorInv, NEW activity \in Activities, Created(activity) \/ Destroyed(activity)
  PROVE  MonitorInv'
<1>1. activities \in Seq(Activities) /\ living \in Seq(Activities)
  BY DEF MonitorInv, MonitorTypeOK
<1>2. /\ activities' \in Seq(Activities) /\ living' \in Seq(Activities)
      /\ Begins(activities', living') /\ Different(living')
  <2>1. CASE Created(activity)
    <3>1. activities' = AddActivity(activities, activity) /\ living' = <<activity>> \o living
          /\ ~Contains(living, activity)
      BY <2>1 DEF Created
    <3>2. /\ Len(living') = Len(living) + 1
          /\ \A i \in 1..Len(living) + 1 : living'[i] = IF i = 1 THEN activity ELSE living[i - 1]
          /\ DOMAIN living' = 1..Len(living) + 1 /\ DOMAIN living = 1..Len(living) /\ Len(living) \in Nat
      BY <1>1, <3>1
    <3>3. Different(living')
      <4> SUFFICES ASSUME NEW i \in 1..Len(living) + 1, NEW j \in 1..Len(living) + 1, living'[i] = living'[j]
                   PROVE  i = j
        BY <3>2 DEF Different
      <4>1. \A n \in 1..Len(living) + 1 : n # 1 => n - 1 \in 1..Len(living) /\ living[n - 1] # activity
        BY <3>1, <3>2 DEF Contains
      <4>2. \A n, m \in 1..Len(living) : living[n] = living[m] => n = m
        BY <3>2 DEF MonitorInv, Different
      <4>3. CASE i = 1 \/ j = 1
        BY <3>2, <4>1, <4>3
      <4>4. CASE i # 1 /\ j # 1
        <5>1. i - 1 \in 1..Len(living) /\ j - 1 \in 1..Len(living) /\ living[i - 1] = living[j - 1]
          BY <3>2, <4>4
        <5>2. i - 1 = j - 1
          BY <4>2, <5>1
        <5>3. QED
          BY <3>2, <5>2
      <4>5. QED
        BY <4>3, <4>4
    <3>4. QED
      BY <1>1, <3>1, <3>3, AddActivityBegins DEF MonitorInv
  <2>2. CASE Destroyed(activity)
    BY <1>1, <2>2, RemoveBegins DEF Destroyed, MonitorInv
  <2>3. QED
    BY <2>1, <2>2
<1>3. /\ UNCHANGED <<activityReferences, isActivityChangingConfigurations, isAppForeground, visible>>
      /\ relaunched' \subseteq relaunched
  BY DEF Created, Destroyed
<1>4. MonitorTypeOK'
  BY <1>2, <1>3 DEF MonitorInv, MonitorTypeOK
<1>5. QED
  BY <1>2, <1>3, <1>4 DEF MonitorInv

\* The references are the visible activities, so that the first and the last are noticed.
LEMMA MonitorVisible ==
  ASSUME MonitorInv, NEW activity \in Activities,
         Started(activity) \/ \E changing \in BOOLEAN : Stopped(activity, changing)
  PROVE  MonitorInv'
<1>1. UNCHANGED <<activities, living>>
  BY DEF Started, Stopped
<1>2. IsFiniteSet(visible) /\ Cardinality(visible) \in Nat /\ activityReferences = Cardinality(visible)
      /\ visible \subseteq Activities
  BY FS_CardinalityType DEF MonitorInv, MonitorTypeOK
<1>3. CASE Started(activity)
  <2>1. IsFiniteSet(visible') /\ Cardinality(visible') = Cardinality(visible) + 1
    BY <1>2, <1>3, FS_AddElement DEF Started
  <2>2. activityReferences' = Cardinality(visible') /\ activityReferences' \in Nat
    BY <1>2, <1>3, <2>1 DEF Started
  <2>3. visible' = visible \cup {activity} /\ relaunched' = {}
        /\ isActivityChangingConfigurations' = isActivityChangingConfigurations
    BY <1>3 DEF Started
  <2>4. isAppForeground' = (isAppForeground
                               \/ (activityReferences' = 1 /\ ~isActivityChangingConfigurations))
    BY <1>3 DEF Started
  <2>5. isAppForeground' \in BOOLEAN /\ isAppForeground'
    <3>1. CASE visible = {}
      <4>1. activityReferences' = 1
        BY <1>2, <2>1, <2>2, <3>1, FS_EmptySet
      <4>2. isAppForeground \/ ~isActivityChangingConfigurations
        BY DEF MonitorInv, MonitorTypeOK
      <4>3. QED
        BY <2>4, <4>1, <4>2, Zenon
    <3>2. CASE visible # {}
      BY <2>4, <3>2 DEF MonitorInv, MonitorTypeOK
    <3>3. QED
      BY <3>1, <3>2
  <2>6. MonitorTypeOK'
    BY <1>1, <1>2, <2>2, <2>3, <2>5 DEF MonitorInv, MonitorTypeOK
  <2>7. QED
    BY <1>1, <2>1, <2>2, <2>3, <2>5, <2>6 DEF MonitorInv
<1>4. ASSUME NEW changing \in BOOLEAN, Stopped(activity, changing)
      PROVE  MonitorInv'
  <2>1. visible' = visible \ {activity} /\ activity \in visible
        /\ isActivityChangingConfigurations' = changing
        /\ activityReferences' = activityReferences - 1 /\ relaunched' \subseteq Activities
    BY <1>4 DEF Stopped
  <2>2. IsFiniteSet(visible') /\ Cardinality(visible') = Cardinality(visible) - 1
        /\ Cardinality(visible') \in Nat
    BY <1>2, <2>1, FS_RemoveElement, FS_CardinalityType
  <2>3. visible' = {} <=> activityReferences' = 0
    BY <1>2, <2>1, <2>2, FS_EmptySet
  <2>4. isAppForeground
    BY <2>1 DEF MonitorInv
  <2>5. isAppForeground' = (isAppForeground /\ ~(activityReferences' = 0 /\ ~changing))
    BY <1>4 DEF Stopped, Foreground
  <2>6. isAppForeground' \in BOOLEAN
    BY <2>5
  <2>7. isAppForeground' <=> visible' # {} \/ changing
    BY <2>3, <2>4, <2>5
  <2>8. MonitorTypeOK'
    BY <1>1, <1>2, <2>1, <2>2, <2>6 DEF MonitorInv, MonitorTypeOK
  <2>9. QED
    BY <1>1, <1>2, <2>1, <2>2, <2>7, <2>8 DEF MonitorInv
<1>5. QED
  BY <1>3, <1>4

(* A crash report is told "foreground" just when an activity is visible or being relaunched, and  *)
(* the activities that are finished before the process ends are the newest of the living ones.    *)
THEOREM MonitorKnows == SpecMonitor => []MonitorTrue
<1>1. MonitorInv /\ [NextMonitor]_monitorVars => MonitorInv'
  <2>1. ASSUME MonitorInv, NextMonitor PROVE MonitorInv'
    BY <2>1, MonitorLists, MonitorVisible DEF NextMonitor
  <2>2. ASSUME MonitorInv, UNCHANGED monitorVars PROVE MonitorInv'
    BY <2>2 DEF MonitorInv, monitorVars, MonitorTypeOK, Different, Begins
  <2>3. QED
    BY <2>1, <2>2
<1>2. MonitorInv => MonitorTrue
  <2>1. MonitorInv => NewestListed
    BY BeginsIsPrefix DEF MonitorInv, MonitorTypeOK, NewestListed
  <2>2. QED
    BY <2>1 DEF MonitorInv, MonitorTrue, ForegroundTrue
<1>3. QED
  BY <1>1, <1>2, MonitorStart, PTL DEF SpecMonitor

-----------------------------------------------------------------------------
(* Numbers of the members of a set                                         *)

LEMMA LeastOf ==
  ASSUME NEW T \in SUBSET Nat, T # {}
  PROVE  \E x \in T : \A y \in T : x <= y
<1>1. PICK x \in T : \A y \in T : ~ (<<y, x>> \in OpToRel(<, Nat))
  BY NatLessThanWellFounded, WFMin
<1>2. \A y \in T : ~(y < x)
  BY <1>1 DEF OpToRel
<1>3. QED
  BY <1>2

LEMMA UpToOf ==
  ASSUME NEW S \in SUBSET Int, IsFiniteSet(S), NEW x \in S
  PROVE  /\ Cardinality(S) \in Nat /\ Rank(S, x) \in 1..Cardinality(S)
         /\ IsFiniteSet({y \in S : y <= x})
<1> DEFINE upto == {y \in S : y <= x}
<1>1. upto \in SUBSET S /\ x \in upto
  OBVIOUS
<1>2. Rank(S, x) = Cardinality(upto)
  BY DEF Rank
<1> HIDE DEF upto
<1>3. IsFiniteSet(upto) /\ Cardinality(upto) <= Cardinality(S)
  BY <1>1, FS_Subset
<1>4. Cardinality(upto) \in Nat /\ Cardinality(S) \in Nat /\ Cardinality(upto) # 0
  BY <1>1, <1>3, FS_CardinalityType, FS_EmptySet
<1>5. QED
  BY <1>2, <1>3, <1>4 DEF upto

LEMMA RankGrows ==
  ASSUME NEW S \in SUBSET Int, IsFiniteSet(S), NEW x \in S, NEW y \in S, x < y
  PROVE  Rank(S, x) < Rank(S, y)
<1> DEFINE low == {z \in S : z <= x}
           high == {z \in S : z <= y}
<1>1. \A z \in S : z \in Int
  OBVIOUS
<1>2. x \in Int /\ y \in Int
  OBVIOUS
<1>3. low \in SUBSET high /\ y \in high /\ y \notin low
  <2>1. \A z \in S : z <= x => z <= y
    BY <1>1, <1>2
  <2>2. ~(y <= x)
    BY <1>2
  <2>3. \A z \in low : z \in high
    BY <2>1
  <2>4. y \in high /\ y \notin low
    BY <1>2, <2>2
  <2>5. QED
    BY <2>3, <2>4
<1>4. Rank(S, x) = Cardinality(low) /\ Rank(S, y) = Cardinality(high)
  BY DEF Rank
<1>5. Rank(S, x) \in Nat /\ Rank(S, y) \in Nat /\ IsFiniteSet(high)
  <2>1. Cardinality(S) \in Nat /\ Rank(S, x) \in 1..Cardinality(S)
    BY UpToOf
  <2>2. Rank(S, y) \in 1..Cardinality(S) /\ IsFiniteSet(high)
    BY UpToOf
  <2>3. QED
    BY <2>1, <2>2
<1> HIDE DEF low, high
<1>6. Cardinality(low) <= Cardinality(high) /\ Cardinality(low) # Cardinality(high)
  BY <1>3, <1>5, FS_Subset
<1>7. QED
  BY <1>4, <1>5, <1>6

\* The rank of a member counts from one, and tells the members apart.
LEMMA RankOf ==
  ASSUME NEW S \in SUBSET Int, IsFiniteSet(S)
  PROVE  /\ Cardinality(S) \in Nat
         /\ \A x \in S : Rank(S, x) \in 1..Cardinality(S)
         /\ \A x, y \in S : Rank(S, x) = Rank(S, y) => x = y
<1>1. Cardinality(S) \in Nat
  BY FS_CardinalityType
<1>2. \A x \in S : Rank(S, x) \in 1..Cardinality(S)
  BY UpToOf
<1>3. ASSUME NEW x \in S, NEW y \in S, Rank(S, x) = Rank(S, y)
      PROVE  x = y
  <2>1. x \in Int /\ y \in Int
    OBVIOUS
  <2>2. Rank(S, x) \in Int
    BY <1>1, <1>2
  <2>3. ~(x < y) /\ ~(y < x)
    BY <1>3, <2>2, RankGrows
  <2>4. QED
    BY <2>1, <2>3
<1>4. QED
  BY <1>1, <1>2, <1>3

\* Every number has its member.
LEMMA NthOf ==
  ASSUME NEW S \in SUBSET Int, IsFiniteSet(S)
  PROVE  /\ \A k \in 1..Cardinality(S) : Nth(S, k) \in S /\ Rank(S, Nth(S, k)) = k
         /\ \A x \in S : Nth(S, Rank(S, x)) = x
<1>1. /\ Cardinality(S) \in Nat
      /\ \A x \in S : Rank(S, x) \in 1..Cardinality(S)
      /\ \A x, y \in S : Rank(S, x) = Rank(S, y) => x = y
  BY RankOf
<1> DEFINE numbers == 1..Cardinality(S)
           rank == [x \in S |-> Rank(S, x)]
<1>2. IsFiniteSet(numbers) /\ Cardinality(numbers) = Cardinality(S)
  BY <1>1, FS_Interval
<1>3. rank \in Injection(S, numbers)
  BY <1>1 DEF Injection, IsInjective
<1>4. rank \in Surjection(S, numbers)
  BY <1>2, <1>3, FS_Injection
<1>5. ASSUME NEW k \in numbers
      PROVE  Nth(S, k) \in S /\ Rank(S, Nth(S, k)) = k
  <2>1. \E x \in S : Rank(S, x) = k
    BY <1>4 DEF Surjection
  <2>2. QED
    BY <2>1 DEF Nth
<1>6. QED
  BY <1>1, <1>5

LEMMA NextPlaceOf ==
  ASSUME NEW n \in Nat, NEW j \in 1..n
  PROVE  NextPlace(j, n) = IF j = n THEN 1 ELSE j + 1
<1>1. CASE j = n
  <2>1. n % n = 0
    BY <1>1
  <2>2. QED
    BY <1>1, <2>1 DEF NextPlace
<1>2. CASE j # n
  <2>1. j < n /\ j >= 0
    BY <1>2
  <2>2. j % n = j
    BY <2>1
  <2>3. QED
    BY <1>2, <2>2 DEF NextPlace
<1>3. QED
  BY <1>1, <1>2

\* Whoever goes on to the next member, and from the last to the first, comes to all.
LEMMA RoundAll ==
  ASSUME NEW S \in SUBSET Int, IsFiniteSet(S), NEW W \in SUBSET S, W # {},
         \A u \in W : Nth(S, NextPlace(Rank(S, u), Cardinality(S))) \in W
  PROVE  W = S
<1> DEFINE n == Cardinality(S)
           places == {Rank(S, u) : u \in W}
<1>1. /\ n \in Nat /\ \A x \in S : Rank(S, x) \in 1..n
      /\ \A x, y \in S : Rank(S, x) = Rank(S, y) => x = y
      /\ \A k \in 1..n : Nth(S, k) \in S /\ Rank(S, Nth(S, k)) = k
  BY RankOf, NthOf
<1>2. places \subseteq 1..n /\ places # {}
  <2>1. PICK u \in W : TRUE
    OBVIOUS
  <2>2. Rank(S, u) \in places
    BY <2>1
  <2>3. \A v \in W : Rank(S, v) \in 1..n
    BY <1>1
  <2>4. QED
    BY <2>2, <2>3
<1>3. ASSUME NEW p \in places
      PROVE  (p = n => 1 \in places) /\ (p # n => p + 1 \in places)
  <2>1. PICK u \in W : p = Rank(S, u)
    OBVIOUS
  <2>2. NextPlace(p, n) \in 1..n /\ NextPlace(p, n) = IF p = n THEN 1 ELSE p + 1
    BY <1>1, <1>2, NextPlaceOf
  <2>3. Rank(S, Nth(S, NextPlace(p, n))) \in places
    BY <2>1
  <2>4. QED
    BY <1>1, <2>2, <2>3
<1> HIDE DEF places
<1>4. n \in places
  <2> DEFINE ahead == {d \in Nat : n - d \in places}
  <2>1. ahead # {}
    <3>1. PICK p \in places : TRUE
      BY <1>2
    <3>2. n - p \in Nat /\ n - (n - p) = p
      BY <1>1, <1>2
    <3>3. QED
      BY <3>1, <3>2
  <2>2. PICK d \in ahead : \A e \in ahead : d <= e
    BY <2>1, LeastOf
  <2>3. CASE d = 0
    BY <1>1, <2>3
  <2>4. CASE d # 0
    <3>1. n - d \in places /\ n - d # n /\ d - 1 \in Nat
      BY <1>1, <2>4
    <3>2. (n - d) + 1 \in places
      BY <1>3, <3>1
    <3>3. n - (d - 1) = (n - d) + 1
      BY <1>1
    <3>4. d - 1 \in ahead
      BY <3>1, <3>2, <3>3
    <3>5. QED
      BY <2>2, <3>1, <3>4
  <2>5. QED
    BY <2>3, <2>4
<1>5. ASSUME NEW k \in 1..n, k \notin places
      PROVE  FALSE
  <2> DEFINE missing == {j \in Nat : j \in 1..n /\ j \notin places}
  <2>1. PICK j \in missing : \A e \in missing : j <= e
    <3>1. k \in missing
      BY <1>1, <1>5
    <3>2. QED
      BY <3>1, LeastOf
  <2>2. j # 1
    BY <1>3, <1>4
  <2>3. j - 1 \in 1..n /\ j - 1 # n /\ j - 1 \in Nat /\ (j - 1) + 1 = j
    BY <1>1, <2>2
  <2>4. j - 1 \in places
    BY <2>1, <2>3
  <2>5. QED
    BY <1>3, <2>3, <2>4
<1>6. ASSUME NEW x \in S
      PROVE  x \in W
  <2>1. Rank(S, x) \in places
    BY <1>1, <1>5
  <2>2. PICK u \in W : Rank(S, x) = Rank(S, u)
    BY <2>1 DEF places
  <2>3. QED
    BY <1>1, <2>2
<1>7. QED
  BY <1>6

-----------------------------------------------------------------------------
(* The invariant of a run of the test *)

\* The conflict a thread is at.
Current(t) == Nth(Tasks(t), turn[t])

\* How often a thread holds a lock.
Holding(l, t) ==
  (IF tpc[t] # "self" /\ l = Pair(t).selfLock THEN 1 ELSE 0)
    + (IF tpc[t] = "has" /\ l = Pair(t).requireLock THEN 1 ELSE 0)

Entered == \A t \in Procs : tpc[t] # "self" => t \in group /\ ~Over(t)

HoldsTold == \A l \in Locks, t \in Procs : holds[l][t] = Holding(l, t)

\* Without late threads a report means that the whole conflict is in the group.
BlamedWhole ==
  prompt => \A t \in Procs : res[t] # -1 =>
              threadName[res[t]] \subseteq group /\ Cardinality(threadName[res[t]]) > 1

\* The threads of a conflict, if all are in the group, meet: until one of them reports it, all are
\* at their first pair, and none asks for the second lock before all have their first.
Circle ==
  prompt /\ Disjoint =>
    \A i \in DOMAIN threadName :
      Cardinality(threadName[i]) > 1 /\ threadName[i] \subseteq group =>
        \/ \E t \in threadName[i] : res[t] # -1
        \/ /\ \A t \in threadName[i] : turn[t] = 1 /\ tpc[t] \in {"self", "sleep", "require"}
           /\ \A t, u \in threadName[i] : tpc[t] = "require" => tpc[u] # "self"

LocksInv == TestTypeOK /\ Entered /\ HoldsTold
TestInv == LocksInv /\ BlamedTruly /\ BlamedWhole /\ Circle

LEMMA ConflictOf ==
  ASSUME TestTypeOK, NEW i \in DOMAIN threadName
  PROVE  /\ threadName[i] \in SUBSET Int /\ IsFiniteSet(threadName[i])
         /\ threadName[i] \subseteq Procs /\ Cardinality(Procs) \in Nat
         /\ Cardinality(threadName[i]) \in 0..Cardinality(Procs)
<1>1. threadName \in Seq(SUBSET Procs) /\ Procs \subseteq Int /\ IsFiniteSet(Procs)
  BY LockTestAssumption DEF TestTypeOK
<1>2. threadName[i] \in SUBSET Procs
  BY <1>1
<1>3. IsFiniteSet(threadName[i]) /\ Cardinality(threadName[i]) <= Cardinality(Procs)
  BY <1>1, <1>2, FS_Subset
<1>4. Cardinality(threadName[i]) \in Nat /\ Cardinality(Procs) \in Nat
  BY <1>1, <1>3, FS_CardinalityType
<1>5. Cardinality(threadName[i]) \in 0..Cardinality(Procs)
  BY <1>3, <1>4
<1>6. threadName[i] \in SUBSET Int /\ threadName[i] \subseteq Procs
  BY <1>1, <1>2
<1>7. QED
  BY <1>3, <1>4, <1>5, <1>6

LEMMA TasksOf ==
  ASSUME TestTypeOK, NEW t \in Procs
  PROVE  /\ Tasks(t) \in SUBSET Int /\ IsFiniteSet(Tasks(t)) /\ Tasks(t) \subseteq DOMAIN threadName
         /\ Len(threadName) \in Nat /\ Cardinality(Tasks(t)) \in 0..Len(threadName)
<1>1. threadName \in Seq(SUBSET Procs)
  BY LockTestAssumption DEF TestTypeOK
<1>2. Len(threadName) \in Nat /\ DOMAIN threadName = 1..Len(threadName)
  BY <1>1
<1>3. IsFiniteSet(1..Len(threadName)) /\ Cardinality(1..Len(threadName)) = Len(threadName)
  <2> DEFINE n == Len(threadName)
  <2>1. n \in Nat
    BY <1>2
  <2> HIDE DEF n
  <2>2. IsFiniteSet(1..n) /\ Cardinality(1..n) = n
    BY <2>1, FS_Interval
  <2>3. QED
    BY <2>2 DEF n
<1>4. Tasks(t) \in SUBSET (1..Len(threadName))
  BY <1>2 DEF Tasks
<1>5. IsFiniteSet(Tasks(t)) /\ Cardinality(Tasks(t)) <= Len(threadName)
  BY <1>3, <1>4, FS_Subset
<1>6. Cardinality(Tasks(t)) \in Nat
  BY <1>5, FS_CardinalityType
<1>7. QED
  BY <1>2, <1>4, <1>5, <1>6

LEMMA PairOf ==
  ASSUME TestTypeOK, NEW t \in Procs, ~Over(t)
  PROVE  /\ Current(t) \in DOMAIN threadName /\ t \in threadName[Current(t)]
         /\ Place(t, Current(t)) \in 1..Cardinality(threadName[Current(t)])
         /\ NextPlace(Place(t, Current(t)), Cardinality(threadName[Current(t)]))
              \in 1..Cardinality(threadName[Current(t)])
         /\ Pair(t).taskId = Current(t)
         /\ Pair(t).selfLock = <<Current(t), Place(t, Current(t))>>
         /\ Pair(t).requireLock =
              <<Current(t), NextPlace(Place(t, Current(t)), Cardinality(threadName[Current(t)]))>>
         /\ Pair(t).selfLock \in Locks /\ Pair(t).requireLock \in Locks
<1>1. turn[t] \in 1..Cardinality(Tasks(t))
  <2>1. turn[t] \in 1..Len(threadName) + 1
    BY DEF TestTypeOK
  <2>2. QED
    BY <2>1, TasksOf DEF Over
<1>2. Current(t) \in Tasks(t)
  BY <1>1, TasksOf, NthOf DEF Current
<1>3. Current(t) \in DOMAIN threadName /\ t \in threadName[Current(t)]
  BY <1>2 DEF Tasks
<1> DEFINE i == Current(t)
<1>4. /\ threadName[i] \in SUBSET Int /\ IsFiniteSet(threadName[i])
      /\ Cardinality(Procs) \in Nat /\ Cardinality(threadName[i]) \in 0..Cardinality(Procs)
  BY <1>3, ConflictOf
<1>5. Place(t, i) \in 1..Cardinality(threadName[i])
  BY <1>3, <1>4, RankOf DEF Place
<1>6. NextPlace(Place(t, i), Cardinality(threadName[i])) \in 1..Cardinality(threadName[i])
  BY <1>4, <1>5, NextPlaceOf
<1>7. /\ Pair(t).taskId = i /\ Pair(t).selfLock = <<i, Place(t, i)>>
      /\ Pair(t).requireLock = <<i, NextPlace(Place(t, i), Cardinality(threadName[i]))>>
  BY DEF Pair, Current
<1> HIDE DEF i
<1>8. Pair(t).selfLock \in Locks /\ Pair(t).requireLock \in Locks
  BY <1>3, <1>4, <1>5, <1>6, <1>7 DEF Locks, i
<1>9. QED
  BY <1>3, <1>5, <1>6, <1>7, <1>8 DEF i

\* Who holds a lock.
LEMMA HeldBy ==
  ASSUME LocksInv, NEW l \in Locks, NEW u \in Procs, holds[l][u] # 0
  PROVE  /\ tpc[u] # "self" /\ u \in group /\ ~Over(u)
         /\ l = Pair(u).selfLock \/ (tpc[u] = "has" /\ l = Pair(u).requireLock)
<1>1. Holding(l, u) # 0
  BY DEF LocksInv, HoldsTold
<1>2. tpc[u] # "self" /\ (l = Pair(u).selfLock \/ (tpc[u] = "has" /\ l = Pair(u).requireLock))
  BY <1>1 DEF Holding
<1>3. QED
  BY <1>2 DEF LocksInv, Entered

\* Two members of a conflict that go on to the same place are the same.
LEMMA NextTold ==
  ASSUME NEW S \in SUBSET Int, IsFiniteSet(S), NEW x \in S, NEW y \in S,
         NextPlace(Rank(S, x), Cardinality(S)) = NextPlace(Rank(S, y), Cardinality(S))
  PROVE  x = y
<1>1. Cardinality(S) \in Nat /\ Rank(S, x) \in 1..Cardinality(S) /\ Rank(S, y) \in 1..Cardinality(S)
  BY RankOf
<1>2. Rank(S, x) = Rank(S, y)
  BY <1>1, NextPlaceOf
<1>3. QED
  BY <1>2, RankOf

\* Who keeps a thread from its second lock is the next member, whose first lock it is.
LEMMA NextHolder ==
  ASSUME LocksInv, NEW t \in Procs, ~Over(t), ~Free(Pair(t).requireLock, t)
  PROVE  LET i == Current(t)
             u == Member(i, NextPlace(Place(t, i), Cardinality(threadName[i])))
         IN /\ u \in Procs /\ u # t /\ u \in group /\ ~Over(u) /\ Current(u) = i
            /\ u \in threadName[i] /\ tpc[u] # "self"
<1> USE DEF LocksInv
<1>1. PICK u \in Procs \ {t} : holds[Pair(t).requireLock][u] # 0
  BY DEF Free
<1>2. Pair(t).requireLock \in Locks
  BY PairOf
<1>3. /\ tpc[u] # "self" /\ u \in group /\ ~Over(u)
      /\ \/ Pair(t).requireLock = Pair(u).selfLock
         \/ tpc[u] = "has" /\ Pair(t).requireLock = Pair(u).requireLock
  BY <1>1, <1>2, HeldBy
<1> DEFINE i == Current(t)
           S == threadName[i]
<1>4. Pair(t).requireLock = <<i, NextPlace(Rank(S, t), Cardinality(S))>> /\ t \in S /\ i \in DOMAIN threadName
  BY PairOf DEF Place
<1>5. /\ Pair(u).selfLock = <<Current(u), Rank(threadName[Current(u)], u)>>
      /\ Pair(u).requireLock = <<Current(u), NextPlace(Rank(threadName[Current(u)], u),
                                                       Cardinality(threadName[Current(u)]))>>
      /\ u \in threadName[Current(u)]
  BY <1>1, <1>3, PairOf DEF Place
<1> HIDE DEF i
<1>6. Current(u) = i
  BY <1>3, <1>4, <1>5
<1>7. S \in SUBSET Int /\ IsFiniteSet(S) /\ u \in S
  BY <1>4, <1>5, <1>6, ConflictOf
<1>8. ~(tpc[u] = "has" /\ Pair(t).requireLock = Pair(u).requireLock)
  <2>1. SUFFICES ASSUME Pair(t).requireLock = Pair(u).requireLock
                 PROVE  FALSE
    OBVIOUS
  <2>2. NextPlace(Rank(S, t), Cardinality(S)) = NextPlace(Rank(S, u), Cardinality(S))
    BY <1>4, <1>5, <1>6, <2>1
  <2>3. t = u
    BY <1>4, <1>7, <2>2, NextTold
  <2>4. QED
    BY <1>1, <2>3
<1>9. Rank(S, u) = NextPlace(Rank(S, t), Cardinality(S))
  BY <1>3, <1>4, <1>5, <1>6, <1>8
<1>10. u = Nth(S, NextPlace(Rank(S, t), Cardinality(S)))
  BY <1>7, <1>9, NthOf
<1>11. QED
  BY <1>1, <1>3, <1>6, <1>7, <1>10 DEF Member, Place, i

\* Who keeps a thread from its first lock has taken it as its second.
LEMMA SelfHolder ==
  ASSUME LocksInv, NEW t \in Procs, ~Over(t), ~Free(Pair(t).selfLock, t)
  PROVE  \E u \in Procs \ {t} : tpc[u] = "has" /\ u \in threadName[Current(t)]
<1> USE DEF LocksInv
<1>1. PICK u \in Procs \ {t} : holds[Pair(t).selfLock][u] # 0
  BY DEF Free
<1>2. Pair(t).selfLock \in Locks
  BY PairOf
<1>3. /\ ~Over(u)
      /\ \/ Pair(t).selfLock = Pair(u).selfLock
         \/ tpc[u] = "has" /\ Pair(t).selfLock = Pair(u).requireLock
  BY <1>1, <1>2, HeldBy
<1> DEFINE i == Current(t)
           S == threadName[i]
<1>4. Pair(t).selfLock = <<i, Rank(S, t)>> /\ t \in S /\ i \in DOMAIN threadName
  BY PairOf DEF Place
<1>5. /\ Pair(u).selfLock = <<Current(u), Rank(threadName[Current(u)], u)>>
      /\ Pair(u).requireLock = <<Current(u), NextPlace(Rank(threadName[Current(u)], u),
                                                       Cardinality(threadName[Current(u)]))>>
      /\ u \in threadName[Current(u)]
  BY <1>1, <1>3, PairOf DEF Place
<1> HIDE DEF i
<1>6. Current(u) = i
  BY <1>3, <1>4, <1>5
<1>7. S \in SUBSET Int /\ IsFiniteSet(S) /\ u \in S
  BY <1>4, <1>5, <1>6, ConflictOf
<1>8. Pair(t).selfLock # Pair(u).selfLock
  <2>1. SUFFICES ASSUME Rank(S, t) = Rank(S, u)
                 PROVE  FALSE
    BY <1>4, <1>5, <1>6
  <2>2. QED
    BY <1>1, <1>4, <1>7, <2>1, RankOf
<1>9. QED
  BY <1>1, <1>3, <1>7, <1>8 DEF i

LEMMA PairKept ==
  ASSUME UNCHANGED threadName, NEW u \in Procs, turn'[u] = turn[u]
  PROVE  /\ Over(u)' = Over(u) /\ Pair(u)' = Pair(u) /\ Current(u)' = Current(u)
         /\ Locks' = Locks
<1>1. Tasks(u)' = Tasks(u)
  BY DEF Tasks
<1>2. QED
  BY <1>1 DEF Over, Pair, Current, Place, Locks

\* A step of one thread leaves the others where they are.
LEMMA OthersKept ==
  ASSUME LocksInv, NEW t \in Procs, Runs(t)
  PROVE  /\ UNCHANGED <<threadName, group, prompt>> /\ t \in group /\ ~Over(t)
         /\ \A u \in Procs \ {t} :
              /\ turn'[u] = turn[u] /\ tpc'[u] = tpc[u] /\ res'[u] = res[u]
              /\ \A l \in Locks : holds'[l][u] = holds[l][u]
<1> USE DEF LocksInv, TestTypeOK, Step, InRun, Lock, Unlock, NextPair
<1>1. CASE TakeSelf(t)
  BY <1>1, PairOf DEF TakeSelf
<1>2. CASE TakeRequire(t)
  BY <1>2, PairOf DEF TakeRequire
<1>3. CASE GiveRequire(t)
  BY <1>3, PairOf DEF GiveRequire
<1>4. CASE GiveSelf(t)
  BY <1>4, PairOf DEF GiveSelf
<1>5. CASE SleepEnds(t)
  BY <1>5 DEF SleepEnds
<1>6. CASE SelfTimeout(t)
  BY <1>6 DEF SelfTimeout
<1>7. CASE RequireTimeout(t)
  BY <1>7 DEF RequireTimeout
<1>8. QED
  BY <1>1, <1>2, <1>3, <1>4, <1>5, <1>6, <1>7 DEF Runs, Busy

\* What a step does to the thread that takes it.
LEMMA OwnStep ==
  ASSUME LocksInv, NEW t \in Procs, Runs(t)
  PROVE  /\ tpc' \in [Procs -> {"self", "sleep", "require", "has", "release"}]
         /\ turn' \in [Procs -> 1..Len(threadName) + 1]
         /\ res' \in [Procs -> {-1} \cup DOMAIN threadName]
         /\ tpc'[t] # "self" => turn'[t] = turn[t]
         /\ holds' \in [Locks -> [Procs -> Int]]
         /\ \A l \in Locks :
              holds'[l][t] = (IF tpc'[t] # "self" /\ l = Pair(t).selfLock THEN 1 ELSE 0)
                             + (IF tpc'[t] = "has" /\ l = Pair(t).requireLock THEN 1 ELSE 0)
<1> DEFINE next(l) == (IF tpc'[t] # "self" /\ l = Pair(t).selfLock THEN 1 ELSE 0)
                      + (IF tpc'[t] = "has" /\ l = Pair(t).requireLock THEN 1 ELSE 0)
<1>1. /\ tpc \in [Procs -> {"self", "sleep", "require", "has", "release"}]
      /\ turn \in [Procs -> 1..Len(threadName) + 1]
      /\ holds \in [Locks -> [Procs -> Int]]
      /\ res \in [Procs -> {-1} \cup DOMAIN threadName]
  BY DEF LocksInv, TestTypeOK
<1>2. /\ Pair(t).selfLock \in Locks /\ Pair(t).requireLock \in Locks
      /\ Pair(t).taskId \in DOMAIN threadName /\ turn[t] + 1 \in 1..Len(threadName) + 1
  <2>1. turn[t] + 1 \in 1..Len(threadName) + 1
    BY <1>1, OthersKept, TasksOf DEF LocksInv, Over
  <2>2. QED
    BY <2>1, OthersKept, PairOf DEF LocksInv
<1>3. \A l \in Locks : holds[l][t] = Holding(l, t)
  BY DEF LocksInv, HoldsTold
<1> USE DEF Step, InRun, Holding
<1>4. CASE TakeSelf(t)
  <2>1. /\ tpc[t] = "self" /\ tpc' = [tpc EXCEPT ![t] = "sleep"] /\ UNCHANGED <<turn, res>>
        /\ holds' = [holds EXCEPT ![Pair(t).selfLock][t] = @ + 1]
    BY <1>4 DEF TakeSelf, Lock
  <2>2. holds' \in [Locks -> [Procs -> Int]]
    BY <1>1, <1>2, <2>1
  <2>3. \A l \in Locks : holds'[l][t] = holds[l][t] + (IF l = Pair(t).selfLock THEN 1 ELSE 0)
    BY <1>1, <1>2, <2>1
  <2>4. \A l \in Locks : holds'[l][t] = next(l)
    BY <1>1, <1>3, <2>1, <2>3
  <2>5. QED
    BY <1>1, <2>1, <2>2, <2>4
<1>5. CASE TakeRequire(t)
  <2>1. /\ tpc[t] = "require" /\ tpc' = [tpc EXCEPT ![t] = "has"] /\ UNCHANGED <<turn, res>>
        /\ holds' = [holds EXCEPT ![Pair(t).requireLock][t] = @ + 1]
    BY <1>5 DEF TakeRequire, Lock
  <2>2. holds' \in [Locks -> [Procs -> Int]]
    BY <1>1, <1>2, <2>1
  <2>3. \A l \in Locks : holds'[l][t] = holds[l][t] + (IF l = Pair(t).requireLock THEN 1 ELSE 0)
    BY <1>1, <1>2, <2>1
  <2>4. \A l \in Locks : holds'[l][t] = next(l)
    BY <1>1, <1>3, <2>1, <2>3
  <2>5. QED
    BY <1>1, <2>1, <2>2, <2>4
<1>6. CASE GiveRequire(t)
  <2>1. /\ tpc[t] = "has" /\ tpc' = [tpc EXCEPT ![t] = "release"] /\ UNCHANGED <<turn, res>>
        /\ holds' = [holds EXCEPT ![Pair(t).requireLock][t] = @ - 1]
    BY <1>6 DEF GiveRequire, Unlock
  <2>2. holds' \in [Locks -> [Procs -> Int]]
    BY <1>1, <1>2, <2>1
  <2>3. \A l \in Locks : holds'[l][t] = holds[l][t] - (IF l = Pair(t).requireLock THEN 1 ELSE 0)
    BY <1>1, <1>2, <2>1
  <2>4. \A l \in Locks : holds'[l][t] = next(l)
    BY <1>1, <1>3, <2>1, <2>3
  <2>5. QED
    BY <1>1, <2>1, <2>2, <2>4
<1>7. CASE GiveSelf(t)
  <2>1. /\ tpc[t] = "release" /\ tpc' = [tpc EXCEPT ![t] = "self"] /\ UNCHANGED res
        /\ holds' = [holds EXCEPT ![Pair(t).selfLock][t] = @ - 1]
        /\ turn' = [turn EXCEPT ![t] = @ + 1]
    BY <1>7 DEF GiveSelf, Unlock, NextPair
  <2>2. holds' \in [Locks -> [Procs -> Int]]
    BY <1>1, <1>2, <2>1
  <2>3. \A l \in Locks : holds'[l][t] = holds[l][t] - (IF l = Pair(t).selfLock THEN 1 ELSE 0)
    BY <1>1, <1>2, <2>1
  <2>4. \A l \in Locks : holds'[l][t] = next(l)
    BY <1>1, <1>3, <2>1, <2>3
  <2>5. QED
    BY <1>1, <1>2, <2>1, <2>2, <2>4
<1>8. CASE SleepEnds(t)
  BY <1>1, <1>3, <1>8 DEF SleepEnds
<1>9. CASE SelfTimeout(t)
  BY <1>1, <1>2, <1>3, <1>9 DEF SelfTimeout, NextPair
<1>10. CASE RequireTimeout(t)
  BY <1>1, <1>2, <1>3, <1>10 DEF RequireTimeout
<1>11. QED
  BY <1>4, <1>5, <1>6, <1>7, <1>8, <1>9, <1>10 DEF Runs, Busy

LEMMA LocksKept ==
  ASSUME LocksInv, NEW t \in Procs, Runs(t)
  PROVE  LocksInv'
<1>1. UNCHANGED <<threadName, group, prompt>> /\ t \in group /\ ~Over(t)
  BY OthersKept
<1>2. Locks' = Locks
  BY <1>1, PairKept DEF Locks
<1>3. /\ tpc' \in [Procs -> {"self", "sleep", "require", "has", "release"}]
      /\ tpc'[t] # "self" => turn'[t] = turn[t]
  BY OwnStep
<1>4. Entered'
  <2>1. ASSUME NEW u \in Procs, tpc'[u] # "self"
        PROVE  u \in group' /\ ~Over(u)'
    <3>1. CASE u = t
      BY <1>1, <1>3, <2>1, <3>1, PairKept
    <3>2. CASE u # t
      <4>1. turn'[u] = turn[u] /\ tpc'[u] = tpc[u]
        BY <3>2, OthersKept
      <4>2. u \in group /\ ~Over(u)
        BY <2>1, <4>1 DEF LocksInv, Entered
      <4>3. QED
        BY <1>1, <4>1, <4>2, PairKept
    <3>3. QED
      BY <3>1, <3>2
  <2>2. QED
    BY <2>1 DEF Entered
<1>5. ASSUME NEW l \in Locks, NEW u \in Procs
      PROVE  holds'[l][u] = Holding(l, u)'
  <2>1. CASE u = t
    <3>1. CASE tpc'[t] = "self"
      BY <2>1, <3>1, OwnStep DEF Holding
    <3>2. CASE tpc'[t] # "self"
      <4>1. Pair(t)' = Pair(t)
        BY <1>1, <1>3, <3>2, PairKept
      <4>2. QED
        BY <2>1, <4>1, OwnStep DEF Holding
    <3>3. QED
      BY <3>1, <3>2
  <2>2. CASE u # t
    <3>1. turn'[u] = turn[u] /\ tpc'[u] = tpc[u] /\ holds'[l][u] = holds[l][u]
      BY <2>2, OthersKept
    <3>2. Pair(u)' = Pair(u)
      BY <1>1, <3>1, PairKept
    <3>3. holds[l][u] = Holding(l, u)
      BY DEF LocksInv, HoldsTold
    <3>4. QED
      BY <3>1, <3>2, <3>3 DEF Holding
  <2>3. QED
    BY <2>1, <2>2
<1>6. HoldsTold'
  BY <1>2, <1>5 DEF HoldsTold
<1>7. TestTypeOK'
  <2>1. \A l \in Locks, u \in Procs : holds'[l][u] \in 0..2
    BY <1>5 DEF Holding
  <2>2. holds' \in [Locks -> [Procs -> Int]]
    BY OwnStep
  <2>3. holds' \in [Locks' -> [Procs -> 0..2]]
    BY <1>2, <2>1, <2>2
  <2>4. threadName \in Setups /\ group \subseteq Procs /\ prompt \in BOOLEAN
    BY DEF LocksInv, TestTypeOK
  <2>5. QED
    BY <1>1, <2>3, <2>4, OwnStep DEF TestTypeOK
<1>8. QED
  BY <1>4, <1>6, <1>7 DEF LocksInv

\* A thread changes its result only by reporting the conflict it is at.
LEMMA ResultKept ==
  ASSUME LocksInv, NEW t \in Procs, Runs(t), NEW u \in Procs, res'[u] # -1
  PROVE  \/ res'[u] = res[u]
         \/ /\ u = t /\ RequireTimeout(t) /\ res'[u] = Current(t) /\ tpc[t] = "require"
            /\ t \in group /\ ~Over(t) /\ ~Free(Pair(t).requireLock, t) /\ SecondOver
<1>1. CASE u # t
  BY <1>1, OthersKept
<1>2. CASE u = t /\ RequireTimeout(t)
  BY <1>2, PairOf DEF RequireTimeout, InRun, LocksInv, TestTypeOK
<1>3. CASE ~RequireTimeout(t)
  BY <1>3 DEF Runs, Busy, TakeSelf, TakeRequire, GiveRequire, GiveSelf, SleepEnds, SelfTimeout
<1>4. QED
  BY <1>1, <1>2, <1>3

LEMMA BlamedKept ==
  ASSUME LocksInv, BlamedTruly, NEW t \in Procs, Runs(t)
  PROVE  BlamedTruly'
<1> DEFINE next(u, i) == Member(i, NextPlace(Place(u, i), Cardinality(threadName[i])))
<1>1. UNCHANGED <<threadName, group>>
  BY OthersKept
<1>2. ASSUME NEW u \in Procs, res'[u] # -1
      PROVE  u \in threadName[res'[u]] /\ next(u, res'[u]) # u /\ next(u, res'[u]) \in group
  <2>1. CASE res'[u] = res[u]
    BY <1>2, <2>1 DEF BlamedTruly
  <2>2. CASE res'[u] # res[u]
    <3>1. /\ u = t /\ res'[u] = Current(t) /\ ~Over(t) /\ ~Free(Pair(t).requireLock, t)
      BY <1>2, <2>2, ResultKept
    <3>2. next(t, Current(t)) # t /\ next(t, Current(t)) \in group
      BY <3>1, NextHolder
    <3>3. t \in threadName[Current(t)]
      BY <3>1, PairOf DEF LocksInv
    <3>4. QED
      BY <3>1, <3>2, <3>3
  <2>3. QED
    BY <2>1, <2>2
<1>3. QED
  BY <1>1, <1>2 DEF BlamedTruly, Member, Place

\* When a second is over and no thread is late, the threads of the conflict that is reported
\* all wait for their second locks.
LEMMA WholeWaits ==
  ASSUME LocksInv, prompt, SecondOver, NEW t \in Procs, tpc[t] = "require",
         t \in group, ~Over(t), ~Free(Pair(t).requireLock, t)
  PROVE  threadName[Current(t)] \subseteq group /\ Cardinality(threadName[Current(t)]) > 1
<1> DEFINE i == Current(t)
           S == threadName[i]
           W == {u \in S : tpc[u] = "require" /\ u \in group /\ ~Over(u) /\ Current(u) = i}
<1>1. i \in DOMAIN threadName /\ t \in S
  BY PairOf DEF LocksInv
<1>2. S \in SUBSET Int /\ IsFiniteSet(S) /\ S \subseteq Procs /\ Cardinality(S) \in Nat
  BY <1>1, ConflictOf DEF LocksInv
<1>3. Idle /\ \A u \in group : ~InRun(u, "sleep")
  BY DEF SecondOver
<1>4. ASSUME NEW u \in W
      PROVE  Nth(S, NextPlace(Rank(S, u), Cardinality(S))) \in W \ {u}
  <2> DEFINE v == Nth(S, NextPlace(Rank(S, u), Cardinality(S)))
  <2>1. u \in Procs /\ u \in S /\ tpc[u] = "require" /\ u \in group /\ ~Over(u) /\ Current(u) = i
    BY <1>2
  <2>2. ~Free(Pair(u).requireLock, u)
    BY <1>3, <2>1 DEF Idle, InRun
  <2>3. /\ v \in Procs /\ v # u /\ v \in group /\ ~Over(v) /\ Current(v) = i
        /\ v \in S /\ tpc[v] # "self"
    BY <2>1, <2>2, NextHolder DEF Member, Place
  <2> HIDE DEF v
  <2>4. tpc[v] # "has" /\ tpc[v] # "release" /\ tpc[v] # "sleep"
    BY <1>3, <2>3 DEF Idle, InRun
  <2>5. tpc[v] = "require"
    BY <2>3, <2>4 DEF LocksInv, TestTypeOK
  <2>6. QED
    BY <2>3, <2>5 DEF v
<1>5. t \in W
  BY <1>1
<1> HIDE DEF W
<1>6. W = S
  <2>1. W \in SUBSET S /\ W # {}
    BY <1>5 DEF W
  <2>2. \A u \in W : Nth(S, NextPlace(Rank(S, u), Cardinality(S))) \in W
    BY <1>4
  <2> HIDE DEF S
  <2>3. QED
    BY <1>2, <2>1, <2>2, RoundAll
<1>7. S \subseteq group
  BY <1>6 DEF W
<1>8. Cardinality(S) # 1
  <2>1. SUFFICES ASSUME Cardinality(S) = 1
                 PROVE  FALSE
    OBVIOUS
  <2>2. PICK x : S = {x}
    BY <1>2, <2>1, FS_Singleton
  <2>3. Nth(S, NextPlace(Rank(S, t), Cardinality(S))) \in S \ {t}
    BY <1>4, <1>5, <1>6
  <2>4. QED
    BY <1>1, <2>2, <2>3
<1>9. Cardinality(S) # 0
  BY <1>1, <1>2, FS_EmptySet
<1>10. QED
  BY <1>2, <1>7, <1>8, <1>9

LEMMA WholeKept ==
  ASSUME LocksInv, BlamedWhole, NEW t \in Procs, Runs(t)
  PROVE  BlamedWhole'
<1>1. UNCHANGED <<threadName, group, prompt>>
  BY OthersKept
<1>2. ASSUME prompt, NEW u \in Procs, res'[u] # -1
      PROVE  threadName[res'[u]] \subseteq group /\ Cardinality(threadName[res'[u]]) > 1
  <2>1. CASE res'[u] = res[u]
    BY <1>2, <2>1 DEF BlamedWhole
  <2>2. CASE res'[u] # res[u]
    <3>1. /\ u = t /\ res'[u] = Current(t) /\ tpc[t] = "require"
          /\ t \in group /\ ~Over(t) /\ ~Free(Pair(t).requireLock, t) /\ SecondOver
      BY <1>2, <2>2, ResultKept
    <3>2. QED
      BY <1>2, <3>1, WholeWaits
  <2>3. QED
    BY <2>1, <2>2
<1>3. QED
  BY <1>1, <1>2 DEF BlamedWhole

\* In disjoint conflicts every thread is in one.
LEMMA OneTask ==
  ASSUME LocksInv, Disjoint, NEW i \in DOMAIN threadName, NEW t \in threadName[i]
  PROVE  /\ t \in Procs /\ Tasks(t) = {i} /\ Cardinality(Tasks(t)) = 1
         /\ turn[t] = 1 => ~Over(t) /\ Current(t) = i
<1>1. t \in Procs
  BY ConflictOf DEF LocksInv
<1>2. Tasks(t) = {i}
  BY DEF Disjoint, Tasks
<1>3. Cardinality(Tasks(t)) = 1
  BY <1>2, FS_Singleton
<1>4. turn[t] = 1 => Current(t) = i
  <2>1. Tasks(t) \in SUBSET Int /\ IsFiniteSet(Tasks(t))
    BY <1>1, TasksOf DEF LocksInv
  <2>2. Nth(Tasks(t), 1) \in Tasks(t)
    BY <1>3, <2>1, NthOf
  <2>3. QED
    BY <1>2, <2>2 DEF Current
<1>5. QED
  BY <1>1, <1>2, <1>3, <1>4 DEF Over

LEMMA CircleKept ==
  ASSUME LocksInv, Circle, NEW t \in Procs, Runs(t)
  PROVE  Circle'
<1>1. UNCHANGED <<threadName, group, prompt>> /\ t \in group /\ ~Over(t)
  BY OthersKept
<1>2. SUFFICES ASSUME prompt, Disjoint, NEW i \in DOMAIN threadName,
                      Cardinality(threadName[i]) > 1, threadName[i] \subseteq group,
                      \A u \in threadName[i] : res'[u] = -1
               PROVE  /\ \A u \in threadName[i] :
                           turn'[u] = 1 /\ tpc'[u] \in {"self", "sleep", "require"}
                      /\ \A u, v \in threadName[i] : tpc'[u] = "require" => tpc'[v] # "self"
  BY <1>1 DEF Circle, Disjoint
<1> DEFINE S == threadName[i]
<1>3. S \in SUBSET Int /\ IsFiniteSet(S) /\ S \subseteq Procs
  BY ConflictOf DEF LocksInv
<1>4. \A u \in S : res[u] = -1
  <2>1. ASSUME NEW u \in S, res[u] # -1
        PROVE  FALSE
    <3>1. res'[u] = res[u] \/ RequireTimeout(t)
      BY DEF Runs, Busy, TakeSelf, TakeRequire, GiveRequire, GiveSelf, SleepEnds, SelfTimeout
    <3>2. RequireTimeout(t) /\ u = t
      BY <1>2, <1>3, <2>1, <3>1, OthersKept
    <3>3. res'[t] = Current(t) /\ Current(t) \in DOMAIN threadName
      BY <1>1, <3>2, PairOf DEF RequireTimeout, LocksInv, TestTypeOK
    <3>4. res'[t] = -1 /\ DOMAIN threadName \subseteq Nat
      BY <1>2, <3>2, LockTestAssumption DEF LocksInv, TestTypeOK
    <3>5. QED
      BY <3>3, <3>4
  <2>2. QED
    BY <2>1
<1>5. /\ \A u \in S : turn[u] = 1 /\ tpc[u] \in {"self", "sleep", "require"}
      /\ \A u, v \in S : tpc[u] = "require" => tpc[v] # "self"
  BY <1>2, <1>4 DEF Circle
<1>6. \A u \in S \ {t} : turn'[u] = turn[u] /\ tpc'[u] = tpc[u]
  BY <1>3, OthersKept
<1>7. CASE t \notin S
  BY <1>5, <1>6, <1>7
<1>8. CASE t \in S
  <2>1. Current(t) = i
    BY <1>2, <1>5, <1>8, OneTask
  <2>2. Free(Pair(t).selfLock, t) \/ tpc[t] # "self"
    BY <1>1, <1>5, <2>1, SelfHolder
  <2>3. CASE TakeSelf(t)
    <3>1. tpc[t] = "self" /\ tpc'[t] = "sleep" /\ turn' = turn
      BY <2>3 DEF TakeSelf, InRun, Step, LocksInv, TestTypeOK
    <3>2. QED
      BY <1>5, <1>6, <3>1
  <2>4. CASE TakeRequire(t)
    <3>1. tpc[t] = "require" /\ Free(Pair(t).requireLock, t)
      BY <2>4 DEF TakeRequire, InRun
    <3> DEFINE v == Nth(S, NextPlace(Rank(S, t), Cardinality(S)))
    <3>2. Pair(t).requireLock = <<i, NextPlace(Rank(S, t), Cardinality(S))>>
          /\ NextPlace(Rank(S, t), Cardinality(S)) \in 1..Cardinality(S)
          /\ Pair(t).requireLock \in Locks /\ Rank(S, t) \in 1..Cardinality(S)
      BY <1>1, <2>1, PairOf DEF Place, LocksInv
    <3>3. v \in S /\ Rank(S, v) = NextPlace(Rank(S, t), Cardinality(S))
      BY <1>3, <3>2, NthOf
    <3>4. Cardinality(S) \in Nat
      BY <1>3, FS_CardinalityType
    <3>5. NextPlace(Rank(S, t), Cardinality(S)) # Rank(S, t)
      BY <1>2, <3>2, <3>4, NextPlaceOf
    <3>6. v # t
      BY <3>3, <3>5
    <3> HIDE DEF v
    <3>7. turn[v] = 1 /\ tpc[v] \in {"sleep", "require"}
      BY <1>5, <1>8, <3>1, <3>3
    <3>8. ~Over(v) /\ Current(v) = i /\ v \in Procs
      BY <1>2, <1>3, <3>3, <3>7, OneTask
    <3>9. Pair(v).selfLock = Pair(t).requireLock
      BY <3>2, <3>3, <3>8, PairOf DEF Place, LocksInv
    <3>10. holds[Pair(t).requireLock][v] = Holding(Pair(t).requireLock, v)
      BY <3>2, <3>8 DEF LocksInv, HoldsTold
    <3>11. holds[Pair(t).requireLock][v] # 0
      BY <3>7, <3>9, <3>10 DEF Holding
    <3>12. QED
      BY <3>1, <3>6, <3>8, <3>11 DEF Free
  <2>5. CASE GiveRequire(t) \/ GiveSelf(t)
    BY <1>5, <1>8, <2>5 DEF GiveRequire, GiveSelf, InRun
  <2>6. CASE SleepEnds(t)
    <3>1. tpc[t] = "sleep" /\ tpc'[t] = "require" /\ turn' = turn /\ Idle
      BY <1>2, <2>6 DEF SleepEnds, InRun, Step, LocksInv, TestTypeOK
    <3>2. ASSUME NEW v \in S, tpc[v] = "self"
          PROVE  FALSE
      <4>1. v \in Procs /\ v \in group /\ ~Over(v) /\ Current(v) = i
        BY <1>2, <1>3, <1>5, OneTask
      <4>2. ~Free(Pair(v).selfLock, v)
        BY <3>1, <3>2, <4>1 DEF Idle, InRun
      <4>3. QED
        BY <1>5, <4>1, <4>2, SelfHolder
    <3>3. QED
      BY <1>5, <1>6, <3>1, <3>2
  <2>7. CASE SelfTimeout(t)
    BY <2>2, <2>7 DEF SelfTimeout, InRun
  <2>8. CASE RequireTimeout(t)
    <3>1. res'[t] = Current(t)
      BY <1>1, <2>8, PairOf DEF RequireTimeout, LocksInv, TestTypeOK
    <3>2. DOMAIN threadName \subseteq Nat
      BY LockTestAssumption DEF LocksInv, TestTypeOK
    <3>3. QED
      BY <1>2, <1>8, <2>1, <3>1, <3>2
  <2>9. QED
    BY <2>3, <2>4, <2>5, <2>6, <2>7, <2>8 DEF Runs, Busy
<1>9. QED
  BY <1>7, <1>8

LEMMA TestStart ==
  InitTest => TestInv
<1>1. SUFFICES ASSUME InitTest
               PROVE  TestInv
  OBVIOUS
<1>2. \A l \in Locks, t \in Procs : holds[l][t] = 0 /\ Holding(l, t) = 0
  BY <1>1 DEF InitTest, Holding
<1>3. TestTypeOK
  <2>1. threadName \in Seq(SUBSET Procs)
    BY <1>1, LockTestAssumption DEF InitTest
  <2>2. Len(threadName) \in Nat
    BY <2>1
  <2>3. holds \in [Locks -> [Procs -> 0..2]]
    BY <1>1 DEF InitTest
  <2>4. QED
    BY <1>1, <2>2, <2>3 DEF InitTest, TestTypeOK
<1>4. Entered /\ HoldsTold /\ BlamedTruly /\ BlamedWhole
  BY <1>1, <1>2 DEF InitTest, Entered, HoldsTold, BlamedTruly, BlamedWhole
<1>5. Circle
  <2>1. ASSUME NEW i \in DOMAIN threadName, NEW t \in threadName[i]
        PROVE  t \in Procs
    BY <1>3, ConflictOf
  <2>2. QED
    BY <1>1, <2>1 DEF InitTest, Circle
<1>6. QED
  BY <1>3, <1>4, <1>5 DEF TestInv, LocksInv

LEMMA TestInductive ==
  TestInv /\ [NextTest]_testVars => TestInv'
<1>1. SUFFICES ASSUME TestInv, [NextTest]_testVars
               PROVE  TestInv'
  OBVIOUS
<1>2. CASE UNCHANGED testVars
  <2> USE <1>2 DEF testVars
  <2>1. \A t : Tasks(t)' = Tasks(t) /\ Over(t)' = Over(t) /\ Pair(t)' = Pair(t)
    BY DEF Over, Tasks, Pair, Place
  <2>2. Locks' = Locks /\ Disjoint' = Disjoint
    BY DEF Locks, Disjoint
  <2>3. TestTypeOK' /\ Entered'
    BY <1>1, <2>1, <2>2 DEF TestInv, LocksInv, TestTypeOK, Entered
  <2>4. HoldsTold'
    BY <1>1, <2>1, <2>2 DEF TestInv, LocksInv, HoldsTold, Holding
  <2>5. BlamedTruly'
    BY <1>1 DEF TestInv, BlamedTruly, Member, Place
  <2>6. BlamedWhole' /\ Circle'
    BY <1>1, <2>2 DEF TestInv, BlamedWhole, Circle
  <2>7. QED
    BY <2>3, <2>4, <2>5, <2>6 DEF TestInv, LocksInv
<1>3. ASSUME NEW t \in Procs, Runs(t)
      PROVE  TestInv'
  BY <1>1, <1>3, LocksKept, BlamedKept, WholeKept, CircleKept DEF TestInv
<1>4. QED
  BY <1>1, <1>2, <1>3 DEF NextTest

\* The circle of a whole conflict cannot come apart unreported.
LEMMA ExactOf ==
  TestInv => ConflictExact
<1>1. SUFFICES ASSUME TestInv, Joined, prompt, Disjoint
               PROVE  Verdict <=> \E i \in DOMAIN threadName :
                        Cardinality(threadName[i]) > 1 /\ threadName[i] \subseteq group
  BY DEF ConflictExact
<1>2. ASSUME Verdict
      PROVE  \E i \in DOMAIN threadName :
               Cardinality(threadName[i]) > 1 /\ threadName[i] \subseteq group
  <2>1. PICK t \in group : res[t] # -1
    BY <1>2 DEF Verdict
  <2>2. t \in Procs /\ res[t] \in DOMAIN threadName
    BY <1>1, <2>1 DEF TestInv, LocksInv, TestTypeOK
  <2>3. QED
    BY <1>1, <2>1, <2>2 DEF TestInv, BlamedWhole
<1>3. ASSUME NEW i \in DOMAIN threadName,
             Cardinality(threadName[i]) > 1, threadName[i] \subseteq group
      PROVE  Verdict
  <2>1. threadName[i] # {}
    BY <1>3, FS_EmptySet
  <2>2. PICK t \in threadName[i] : TRUE
    BY <2>1
  <2>3. turn[t] # 1
    BY <1>1, <1>3, OneTask DEF TestInv, Joined
  <2>4. \E u \in threadName[i] : res[u] # -1
    BY <1>1, <1>3, <2>3 DEF TestInv, Circle
  <2>5. QED
    BY <1>3, <2>4 DEF Verdict
<1>4. QED
  BY <1>2, <1>3

\* However many processes there are and however the conflicts lie, a verdict of the test means
\* what the study takes it for.
THEOREM VerdictMeans == SpecTest => []VerdictTrue
<1>1. TestInv => VerdictTrue
  BY ExactOf DEF TestInv, LocksInv, VerdictTrue
<1>2. QED
  BY <1>1, TestStart, TestInductive, PTL DEF SpecTest
=============================================================================
