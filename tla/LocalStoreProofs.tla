-------------------------- MODULE LocalStoreProofs --------------------------
(***************************************************************************)
(* Theorems about the artifact store. Types and the backing of indexes     *)
(* hold for any number of clients at a time; immutability and links hold   *)
(* for one client at a time. Calls may die and writes may fail anywhere,   *)
(* up to MaxDeaths times, whatever MaxDeaths is.                           *)
(***************************************************************************)
EXTENDS LocalStore, TLAPS

\* The store is used by one client at a time.
OneClient == \A c, d \in Clients : c = d

(***************************************************************************)
(* Paths.                                                                  *)
(***************************************************************************)
LEMMA PathsDiffer ==
    /\ \A n, x, e : Object(n, x) # IndexOf(e)
    /\ \A n, x, e : Object(n, x) # StateOf(e)
    /\ \A e, d : IndexOf(e) # StateOf(d)
    /\ \A n, x, m, y : Object(n, x) = Object(m, y) => n = m /\ x = y
    /\ \A e, d : IndexOf(e) = IndexOf(d) => e = d
    /\ \A e, d : StateOf(e) = StateOf(d) => e = d
BY DEF Object, IndexOf, StateOf

LEMMA PathsExist ==
    /\ \A n \in Names, x \in Contents : Object(n, x) \in Paths
    /\ \A e \in Episodes : IndexOf(e) \in Paths /\ StateOf(e) \in Paths
BY DEF Paths

(***************************************************************************)
(* Types. What a call holds has the type its step asks for.                *)
(***************************************************************************)
PutSteps == {"stat", "openObject", "fillObject", "openIndex", "fillIndex"}
StateSteps == {"openState", "fillState"}

PutCalls == [ref: Refs, index: Indexes]
StateCalls == [episode: Episodes, record: Records, link: SUBSET Refs]

Holds(s, k) ==
    /\ s \in PutSteps => k \in PutCalls
    /\ s \in StateSteps => k \in StateCalls

TypeInv == TypeOK /\ \A c \in Clients : Holds(pc[c], call[c])

DiskTyped ==
    /\ DOMAIN disk \subseteq Paths
    /\ \A n \in Names, x \in Contents :
         Present(Object(n, x)) => disk[Object(n, x)] \in {x} \cup Unreadable
    /\ \A e \in Episodes :
         /\ Present(IndexOf(e)) => disk[IndexOf(e)] \in Indexes \cup Unreadable
         /\ Present(StateOf(e)) => disk[StateOf(e)] \in Records \cup Unreadable

\* The content v has the type of the path p.
Fits(p, v) ==
    /\ p \in Paths
    /\ \A n \in Names, x \in Contents : p = Object(n, x) => v \in {x} \cup Unreadable
    /\ \A e \in Episodes : /\ p = IndexOf(e) => v \in Indexes \cup Unreadable
                           /\ p = StateOf(e) => v \in Records \cup Unreadable

LEMMA WriteTyped ==
    ASSUME DiskTyped, NEW p, NEW v, Fits(p, v), disk' = With(p, v)
    PROVE  DiskTyped'
BY DEF DiskTyped, Fits, With, Present

LEMMA FitsAll ==
    /\ \A n \in Names, x \in Contents : \A v \in {x} \cup Unreadable : Fits(Object(n, x), v)
    /\ \A e \in Episodes : \A v \in Indexes \cup Unreadable : Fits(IndexOf(e), v)
    /\ \A e \in Episodes : \A v \in Records \cup Unreadable : Fits(StateOf(e), v)
BY PathsDiffer, PathsExist DEF Fits

LEMMA GoesTyped ==
    ASSUME TypeInv, NEW c \in Clients, NEW to \in Steps, NEW k, Holds(to, k), Goes(c, to, k)
    PROVE  /\ pc' \in [Clients -> Steps]
           /\ DOMAIN call' = Clients
           /\ \A d \in Clients : Holds(pc'[d], call'[d])
BY DEF TypeInv, TypeOK, Goes

LEMMA EndsTyped ==
    ASSUME TypeInv, NEW c \in Clients, Ends(c)
    PROVE  /\ pc' \in [Clients -> Steps]
           /\ DOMAIN call' = Clients
           /\ \A d \in Clients : Holds(pc'[d], call'[d])
<1>1. "idle" \in Steps /\ Holds("idle", NoCall)
  BY DEF Steps, Holds, PutSteps, StateSteps
<1> QED BY <1>1, GoesTyped DEF Ends

LEMMA IndexRead ==
    ASSUME TypeInv, NEW e \in Episodes, NEW index \in ReadIndex(e)
    PROVE  index \in Indexes
<1>1. NoRefs \in [{} -> Contents]
  BY DEF NoRefs
<1>2. NoRefs \in Indexes
  BY <1>1 DEF Indexes
<1> QED BY <1>2 DEF ReadIndex, Document, Whole, TypeInv, TypeOK

LEMMA RecordRead ==
    ASSUME TypeInv, NEW e \in Episodes, NEW record \in LoadRecord(e)
    PROVE  record \in Records
<1>1. NewRecord \in Records
  BY StoreAssumption DEF NewRecord, Records
<1> QED BY <1>1 DEF LoadRecord, Document, Whole, TypeInv, TypeOK

LEMMA PutHolds ==
    ASSUME TypeInv, NEW c \in Clients, pc[c] \in PutSteps
    PROVE  /\ call[c] \in PutCalls
           /\ call[c].ref \in Refs
           /\ call[c].ref.episode \in Episodes
           /\ call[c].ref.name \in Names
           /\ call[c].ref.hash \in Contents
           /\ call[c].index \in Indexes
<1>1. call[c] \in PutCalls
  BY DEF TypeInv, Holds
<1>2. call[c].ref \in Refs /\ call[c].index \in Indexes
  BY <1>1 DEF PutCalls
<1> QED BY <1>1, <1>2 DEF Refs

LEMMA StateHolds ==
    ASSUME TypeInv, NEW c \in Clients, pc[c] \in StateSteps
    PROVE  /\ call[c] \in StateCalls
           /\ call[c].episode \in Episodes
           /\ call[c].record \in Records
           /\ call[c].link \subseteq Refs
<1>1. call[c] \in StateCalls
  BY DEF TypeInv, Holds
<1> QED BY <1>1 DEF StateCalls

LEMMA NewIndexTyped ==
    ASSUME TypeInv, NEW c \in Clients, pc[c] \in PutSteps
    PROVE  NewIndex(c) \in Indexes
<1> DEFINE r == call[c].ref
<1>1. r.name \in Names /\ r.hash \in Contents /\ call[c].index \in Indexes
  BY PutHolds
<1>2. PICK N \in SUBSET Names : call[c].index \in [N -> Contents]
  BY <1>1 DEF Indexes
<1>3. NewIndex(c) \in [N \cup {r.name} -> Contents]
  BY <1>1, <1>2 DEF NewIndex
<1>4. N \cup {r.name} \in SUBSET Names
  BY <1>1, <1>2
<1> QED BY <1>3, <1>4 DEF Indexes

\* What a client may be in the middle of writing.
LEMMA WritingIs ==
    ASSUME NEW c \in Clients, NEW w \in Writing(c)
    PROVE  \/ pc[c] = "fillObject" /\ w = <<ObjectPath(c), call[c].ref.hash>>
           \/ pc[c] = "fillIndex" /\ w = <<IndexOf(call[c].ref.episode), NewIndex(c)>>
           \/ pc[c] = "fillState" /\ w = <<StateOf(call[c].episode), call[c].record>>
BY DEF Writing

\* The content a client writes has the type of the path it writes to.
LEMMA WritesFit ==
    ASSUME TypeInv, NEW c \in Clients
    PROVE  /\ pc[c] \in PutSteps => /\ Fits(ObjectPath(c), Empty)
                                    /\ Fits(ObjectPath(c), Torn)
                                    /\ Fits(ObjectPath(c), call[c].ref.hash)
                                    /\ Fits(IndexOf(call[c].ref.episode), Empty)
                                    /\ Fits(IndexOf(call[c].ref.episode), Torn)
                                    /\ Fits(IndexOf(call[c].ref.episode), NewIndex(c))
           /\ pc[c] \in StateSteps => /\ Fits(StateOf(call[c].episode), Empty)
                                      /\ Fits(StateOf(call[c].episode), Torn)
                                      /\ Fits(StateOf(call[c].episode), call[c].record)
<1>1. Empty \in Unreadable /\ Torn \in Unreadable
  BY DEF Unreadable
<1>2. ASSUME pc[c] \in PutSteps
      PROVE  /\ Fits(ObjectPath(c), Empty)
             /\ Fits(ObjectPath(c), Torn)
             /\ Fits(ObjectPath(c), call[c].ref.hash)
             /\ Fits(IndexOf(call[c].ref.episode), Empty)
             /\ Fits(IndexOf(call[c].ref.episode), Torn)
             /\ Fits(IndexOf(call[c].ref.episode), NewIndex(c))
  BY <1>1, <1>2, PutHolds, NewIndexTyped, FitsAll DEF ObjectPath
<1>3. ASSUME pc[c] \in StateSteps
      PROVE  /\ Fits(StateOf(call[c].episode), Empty)
             /\ Fits(StateOf(call[c].episode), Torn)
             /\ Fits(StateOf(call[c].episode), call[c].record)
  BY <1>1, <1>3, StateHolds, FitsAll
<1> QED BY <1>2, <1>3

LEMMA TypeInit == Init => TypeInv
<1> SUFFICES ASSUME Init PROVE TypeInv
  OBVIOUS
<1>1. "idle" \in Steps
  BY DEF Steps
<1>2. Holds("idle", NoCall)
  BY DEF Holds, PutSteps, StateSteps
<1>3. 0 \in 0 .. MaxDeaths
  BY StoreAssumption
<1> QED BY <1>1, <1>2, <1>3 DEF Init, TypeInv, TypeOK, Present

\* A step of a call: its step and call are typed, the disk is typed, and so is
\* what the callers know.
LEMMA TypeParts ==
    ASSUME DiskTyped', pc' \in [Clients -> Steps], DOMAIN call' = Clients,
           \A d \in Clients : Holds(pc'[d], call'[d]),
           told' \subseteq Refs, linked' \in [Episodes -> SUBSET Refs],
           deaths' \in 0 .. MaxDeaths
    PROVE  TypeInv'
BY DEF TypeInv, TypeOK, DiskTyped, Present

LEMMA DiskKept ==
    ASSUME TypeInv, disk' = disk
    PROVE  DiskTyped'
BY DEF TypeInv, TypeOK, DiskTyped, Present

LEMMA DiskWritten ==
    ASSUME TypeInv, NEW p, NEW v, Fits(p, v), disk' = With(p, v)
    PROVE  DiskTyped'
<1>1. DiskTyped
  BY DEF TypeInv, TypeOK, DiskTyped
<1> QED BY <1>1, WriteTyped

LEMMA FilledIs ==
    ASSUME NEW p, NEW v, NEW u \in Filled(p, v)
    PROVE  u = v \/ u = Torn
BY DEF Filled

\* The types of a step that only writes and moves on in the same call.
LEMMA MoveTyped ==
    ASSUME TypeInv, NEW c \in Clients, NEW to \in Steps, Holds(to, call[c]),
           Goes(c, to, call[c]), DiskTyped', UNCHANGED <<told, linked, deaths>>
    PROVE  TypeInv'
<1>1. /\ told' \subseteq Refs /\ linked' \in [Episodes -> SUBSET Refs]
      /\ deaths' \in 0 .. MaxDeaths
  BY DEF TypeInv, TypeOK
<1> QED BY <1>1, GoesTyped, TypeParts

LEMMA TypeStep == TypeInv /\ [Next]_vars => TypeInv'
<1> SUFFICES ASSUME TypeInv, [Next]_vars PROVE TypeInv'
  OBVIOUS
<1>T. /\ told \subseteq Refs /\ linked \in [Episodes -> SUBSET Refs]
      /\ deaths \in 0 .. MaxDeaths
  BY DEF TypeInv, TypeOK
<1>S. ASSUME NEW c \in Clients, StartPut(c) PROVE TypeInv'
  <2>1. PICK r \in Refs : \E index \in ReadIndex(r.episode) :
               Goes(c, "stat", [ref |-> r, index |-> index])
    BY <1>S DEF StartPut
  <2>2. PICK index \in ReadIndex(r.episode) :
               Goes(c, "stat", [ref |-> r, index |-> index])
    BY <2>1
  <2>3. r.episode \in Episodes
    BY DEF Refs
  <2>4. index \in Indexes
    BY <2>2, <2>3, IndexRead
  <2>5. Holds("stat", [ref |-> r, index |-> index])
    BY <2>4 DEF Holds, PutSteps, StateSteps, PutCalls
  <2>6. "stat" \in Steps
    BY DEF Steps
  <2>7. DiskTyped' /\ told' = told /\ linked' = linked /\ deaths' = deaths
    BY <1>S, DiskKept DEF StartPut
  <2> QED BY <1>T, <2>2, <2>5, <2>6, <2>7, GoesTyped, TypeParts
<1>R. ASSUME NEW c \in Clients, RepeatPut(c) PROVE TypeInv'
  <2>1. told' \subseteq Refs
    BY <1>R, <1>T DEF RepeatPut
  <2>2. /\ disk' = disk /\ pc' = pc /\ call' = call /\ linked' = linked
        /\ deaths' = deaths
    BY <1>R DEF RepeatPut
  <2> QED BY <2>1, <2>2 DEF TypeInv, TypeOK, Present
<1>O. ASSUME NEW c \in Clients, StatObject(c) PROVE TypeInv'
  <2> DEFINE to == IF Present(ObjectPath(c)) THEN "openIndex" ELSE "openObject"
  <2>1. to \in Steps /\ to \in PutSteps /\ to \notin StateSteps
    BY DEF Steps, PutSteps, StateSteps
  <2>2. pc[c] \in PutSteps
    BY <1>O DEF StatObject, PutSteps
  <2>3. Holds(to, call[c])
    BY <2>1, <2>2, PutHolds DEF Holds
  <2>4. Goes(c, to, call[c]) /\ DiskTyped' /\ UNCHANGED <<told, linked, deaths>>
    BY <1>O, DiskKept DEF StatObject
  <2> HIDE DEF to
  <2> QED BY <2>1, <2>3, <2>4, MoveTyped
<1>P. ASSUME NEW c \in Clients, OpenObject(c) PROVE TypeInv'
  <2>1. pc[c] \in PutSteps /\ "fillObject" \in Steps
    BY <1>P DEF OpenObject, Open, PutSteps, Steps
  <2>2. Holds("fillObject", call[c])
    BY <2>1, PutHolds DEF Holds, PutSteps, StateSteps
  <2>3. /\ disk' = With(ObjectPath(c), Empty) /\ Goes(c, "fillObject", call[c])
        /\ UNCHANGED <<told, linked, deaths>>
    BY <1>P DEF OpenObject, Open
  <2>4. DiskTyped'
    BY <2>1, <2>3, WritesFit, DiskWritten
  <2> QED BY <2>1, <2>2, <2>3, <2>4, MoveTyped
<1>F. ASSUME NEW c \in Clients, FillObject(c) PROVE TypeInv'
  <2>1. pc[c] \in PutSteps /\ "openIndex" \in Steps
    BY <1>F DEF FillObject, PutSteps, Steps
  <2>2. Holds("openIndex", call[c])
    BY <2>1, PutHolds DEF Holds, PutSteps, StateSteps
  <2>3. /\ disk' = With(ObjectPath(c), call[c].ref.hash) /\ Goes(c, "openIndex", call[c])
        /\ UNCHANGED <<told, linked, deaths>>
    BY <1>F DEF FillObject
  <2>4. DiskTyped'
    BY <2>1, <2>3, WritesFit, DiskWritten
  <2> QED BY <2>1, <2>2, <2>3, <2>4, MoveTyped
<1>I. ASSUME NEW c \in Clients, OpenIndex(c) PROVE TypeInv'
  <2>1. pc[c] \in PutSteps /\ "fillIndex" \in Steps
    BY <1>I DEF OpenIndex, Open, PutSteps, Steps
  <2>2. Holds("fillIndex", call[c])
    BY <2>1, PutHolds DEF Holds, PutSteps, StateSteps
  <2>3. /\ disk' = With(IndexOf(call[c].ref.episode), Empty)
        /\ Goes(c, "fillIndex", call[c]) /\ UNCHANGED <<told, linked, deaths>>
    BY <1>I DEF OpenIndex, Open
  <2>4. DiskTyped'
    BY <2>1, <2>3, WritesFit, DiskWritten
  <2> QED BY <2>1, <2>2, <2>3, <2>4, MoveTyped
<1>X. ASSUME NEW c \in Clients, FillIndex(c) PROVE TypeInv'
  <2>1. pc[c] \in PutSteps
    BY <1>X DEF FillIndex, PutSteps
  <2>2. PICK v \in Filled(IndexOf(call[c].ref.episode), NewIndex(c)) :
               disk' = With(IndexOf(call[c].ref.episode), v)
    BY <1>X DEF FillIndex
  <2>3. DiskTyped'
    BY <2>1, <2>2, FilledIs, WritesFit, DiskWritten
  <2>4. /\ told' = told \cup {call[c].ref} /\ linked' = linked /\ deaths' = deaths
        /\ Ends(c)
    BY <1>X DEF FillIndex
  <2>5. told' \subseteq Refs
    BY <1>T, <2>1, <2>4, PutHolds
  <2> QED BY <1>T, <2>3, <2>4, <2>5, EndsTyped, TypeParts
<1>V. ASSUME NEW c \in Clients, StartSave(c) PROVE TypeInv'
  <2>1. PICK e \in Episodes, s \in States :
               \E R \in {{}} \cup {record.refs : record \in LoadRecord(e)} :
                 /\ Goes(c, "openState",
                      [episode |-> e, record |-> [state |-> s, refs |-> R], link |-> {}])
                 /\ linked' = [linked EXCEPT ![e] = @ \cap R]
    BY <1>V DEF StartSave
  <2>2. PICK R \in {{}} \cup {record.refs : record \in LoadRecord(e)} :
                 /\ Goes(c, "openState",
                      [episode |-> e, record |-> [state |-> s, refs |-> R], link |-> {}])
                 /\ linked' = [linked EXCEPT ![e] = @ \cap R]
    BY <2>1
  <2>3. R \subseteq Refs
    <3>1. ASSUME NEW record \in LoadRecord(e) PROVE record.refs \subseteq Refs
      BY <3>1, RecordRead DEF Records
    <3> QED BY <2>2, <3>1
  <2> DEFINE k == [episode |-> e, record |-> [state |-> s, refs |-> R], link |-> {}]
  <2>4. k \in StateCalls
    BY <2>3 DEF StateCalls, Records
  <2>5. Holds("openState", k) /\ "openState" \in Steps
    BY <2>4 DEF Holds, PutSteps, StateSteps, Steps
  <2>6. DiskTyped' /\ told' = told /\ deaths' = deaths
    BY <1>V, DiskKept DEF StartSave
  <2>7. linked' \in [Episodes -> SUBSET Refs]
    BY <1>T, <2>2
  <2>8. Goes(c, "openState", k)
    BY <2>2
  <2> HIDE DEF k
  <2> QED BY <1>T, <2>5, <2>6, <2>7, <2>8, GoesTyped, TypeParts
<1>L. ASSUME NEW c \in Clients, StartLink(c) PROVE TypeInv'
  <2>1. PICK r \in told : \E record \in LoadRecord(r.episode) :
               Goes(c, "openState", [episode |-> r.episode, link |-> {r},
                                     record |-> [record EXCEPT !.refs = @ \cup {r}]])
    BY <1>L DEF StartLink
  <2>2. PICK record \in LoadRecord(r.episode) :
               Goes(c, "openState", [episode |-> r.episode, link |-> {r},
                                     record |-> [record EXCEPT !.refs = @ \cup {r}]])
    BY <2>1
  <2>3. r \in Refs /\ r.episode \in Episodes
    BY <1>T DEF Refs
  <2>4. record \in Records
    BY <2>2, <2>3, RecordRead
  <2>5. [record EXCEPT !.refs = @ \cup {r}] \in Records
    BY <2>3, <2>4 DEF Records
  <2> DEFINE k == [episode |-> r.episode, link |-> {r},
                   record |-> [record EXCEPT !.refs = @ \cup {r}]]
  <2>6. k \in StateCalls
    BY <2>3, <2>5 DEF StateCalls
  <2>7. Holds("openState", k) /\ "openState" \in Steps
    BY <2>6 DEF Holds, PutSteps, StateSteps, Steps
  <2>8. /\ DiskTyped' /\ told' = told /\ linked' = linked /\ deaths' = deaths
        /\ Goes(c, "openState", k)
    BY <1>L, <2>2, DiskKept DEF StartLink
  <2> HIDE DEF k
  <2> QED BY <1>T, <2>7, <2>8, GoesTyped, TypeParts
<1>K. ASSUME NEW c \in Clients, RepeatLink(c) PROVE TypeInv'
  <2>1. PICK r \in told : linked' = [linked EXCEPT ![r.episode] = @ \cup {r}]
    BY <1>K DEF RepeatLink
  <2>2. linked' \in [Episodes -> SUBSET Refs]
    BY <1>T, <2>1 DEF Refs
  <2>3. /\ disk' = disk /\ pc' = pc /\ call' = call /\ told' = told
        /\ deaths' = deaths
    BY <1>K DEF RepeatLink
  <2> QED BY <2>2, <2>3 DEF TypeInv, TypeOK, Present
<1>M. ASSUME NEW c \in Clients, OpenState(c) PROVE TypeInv'
  <2>1. pc[c] \in StateSteps /\ "fillState" \in Steps
    BY <1>M DEF OpenState, Open, StateSteps, Steps
  <2>2. Holds("fillState", call[c])
    BY <2>1, StateHolds DEF Holds, PutSteps, StateSteps
  <2>3. /\ disk' = With(StateOf(call[c].episode), Empty)
        /\ Goes(c, "fillState", call[c]) /\ UNCHANGED <<told, linked, deaths>>
    BY <1>M DEF OpenState, Open
  <2>4. DiskTyped'
    BY <2>1, <2>3, WritesFit, DiskWritten
  <2> QED BY <2>1, <2>2, <2>3, <2>4, MoveTyped
<1>N. ASSUME NEW c \in Clients, FillState(c) PROVE TypeInv'
  <2>1. pc[c] \in StateSteps
    BY <1>N DEF FillState, StateSteps
  <2>2. PICK v \in Filled(StateOf(call[c].episode), call[c].record) :
               disk' = With(StateOf(call[c].episode), v)
    BY <1>N DEF FillState
  <2>3. DiskTyped'
    BY <2>1, <2>2, FilledIs, WritesFit, DiskWritten
  <2>4. /\ told' = told /\ deaths' = deaths /\ Ends(c)
        /\ linked' = [linked EXCEPT ![call[c].episode] = @ \cup call[c].link]
    BY <1>N DEF FillState
  <2>5. linked' \in [Episodes -> SUBSET Refs]
    BY <1>T, <2>1, <2>4, StateHolds
  <2> QED BY <1>T, <2>3, <2>4, <2>5, EndsTyped, TypeParts
<1>D. ASSUME NEW c \in Clients, Die(c) PROVE TypeInv'
  <2>1. /\ deaths < MaxDeaths /\ deaths' = deaths + 1 /\ Ends(c)
        /\ told' = told /\ linked' = linked
    BY <1>D DEF Die
  <2>2. deaths' \in 0 .. MaxDeaths
    BY <1>T, <2>1, StoreAssumption
  <2>3. DiskTyped'
    <3>1. CASE disk' = disk
      BY <3>1, DiskKept
    <3>2. CASE \E w \in Writing(c) : \E v \in {Torn, w[2]} : disk' = With(w[1], v)
      <4>1. PICK w \in Writing(c) : \E v \in {Torn, w[2]} : disk' = With(w[1], v)
        BY <3>2
      <4>2. PICK v \in {Torn, w[2]} : disk' = With(w[1], v)
        BY <4>1
      <4>3. Fits(w[1], v)
        BY <4>2, WritingIs, WritesFit DEF PutSteps, StateSteps
      <4> QED BY <4>2, <4>3, DiskWritten
    <3> QED BY <1>D, <3>1, <3>2 DEF Die
  <2> QED BY <1>T, <2>1, <2>2, <2>3, EndsTyped, TypeParts
<1>U. CASE UNCHANGED vars
  BY <1>U DEF vars, TypeInv, TypeOK, Present
<1> QED
  BY <1>S, <1>R, <1>O, <1>P, <1>F, <1>I, <1>X, <1>V, <1>L, <1>K, <1>M, <1>N, <1>D, <1>U
     DEF Next, PutArtifact, KeepEpisode

\* Every file always holds content of its kind or an unfinished write, and a call
\* what its step needs.
THEOREM StoreTypeCorrect == Spec => []TypeOK
<1>1. TypeInv => TypeOK
  BY DEF TypeInv
<1> QED BY TypeInit, TypeStep, <1>1, PTL DEF Spec
-----------------------------------------------------------------------------
(***************************************************************************)
(* Backing. Objects are never removed, so what was true of an index when   *)
(* it was read is still true when it is written; the object of the new     *)
(* reference exists from the first step that touches the index.            *)
(***************************************************************************)
\* The files include the object of every reference in the index.
Backs(files, index) == \A n \in DOMAIN index : Object(n, index[n]) \in files

IndexesBacked == \A e \in Episodes : Whole(IndexOf(e)) => Backs(DOMAIN disk, disk[IndexOf(e)])
ToldBacked == \A r \in told : Present(Object(r.name, r.hash))
CallsBacked ==
    \A c \in Clients :
        /\ pc[c] \in PutSteps => Backs(DOMAIN disk, call[c].index)
        /\ pc[c] \in {"openIndex", "fillIndex"} => Present(ObjectPath(c))

BackedInv == IndexesBacked /\ ToldBacked /\ CallsBacked

\* No step removes a file.
LEMMA DiskGrows ==
    ASSUME NEW p, NEW v, disk' = With(p, v)
    PROVE  DOMAIN disk' = DOMAIN disk \cup {p} /\ disk'[p] = v
           /\ \A q \in DOMAIN disk : q # p => disk'[q] = disk[q]
BY DEF With

LEMMA StaysBacked ==
    ASSUME NEW F, NEW G, F \subseteq G, NEW index, Backs(F, index)
    PROVE  Backs(G, index)
BY DEF Backs

\* A write to a path other than an index, or of an unreadable content, or of a
\* backed index, keeps the indexes backed.
LEMMA IndexesStayBacked ==
    ASSUME IndexesBacked, NEW p, NEW v, disk' = With(p, v),
           \A e \in Episodes : p = IndexOf(e) => v \in Unreadable \/ Backs(DOMAIN disk, v)
    PROVE  IndexesBacked'
<1>0. DOMAIN disk' = DOMAIN disk \cup {p} /\ disk'[p] = v
      /\ \A q \in DOMAIN disk : q # p => disk'[q] = disk[q]
  BY DiskGrows
<1>1. DOMAIN disk \subseteq DOMAIN disk'
  BY <1>0
<1>2. ASSUME NEW e \in Episodes, IndexOf(e) \in DOMAIN disk',
             disk'[IndexOf(e)] \notin Unreadable
      PROVE  Backs(DOMAIN disk', disk'[IndexOf(e)])
  <2>1. CASE p = IndexOf(e)
    <3>1. disk'[IndexOf(e)] = v /\ Backs(DOMAIN disk, v)
      BY <1>0, <1>2, <2>1
    <3> QED BY <1>1, <3>1, StaysBacked
  <2>2. CASE p # IndexOf(e)
    <3>1. IndexOf(e) \in DOMAIN disk /\ disk'[IndexOf(e)] = disk[IndexOf(e)]
      BY <1>0, <1>2, <2>2
    <3>2. Backs(DOMAIN disk, disk[IndexOf(e)])
      BY <1>2, <3>1 DEF IndexesBacked, Whole, Present
    <3> QED BY <1>1, <3>1, <3>2, StaysBacked
  <2> QED BY <2>1, <2>2
<1> QED BY <1>2 DEF IndexesBacked, Whole, Present

LEMMA Reads ==
    ASSUME IndexesBacked, NEW e \in Episodes, NEW index \in ReadIndex(e)
    PROVE  Backs(DOMAIN disk, index)
BY DEF ReadIndex, Document, Whole, IndexesBacked, Backs, NoRefs

LEMMA NewIndexBacked ==
    ASSUME NEW c \in Clients, Backs(DOMAIN disk, call[c].index), Present(ObjectPath(c))
    PROVE  Backs(DOMAIN disk, NewIndex(c))
BY DEF Backs, NewIndex, ObjectPath, Present

\* The calls of the clients that do not move stay backed; so does the call of one
\* that moves on to a step its objects are ready for, or ends.
LEMMA CallsStayBacked ==
    ASSUME TypeInv, CallsBacked, DOMAIN disk \subseteq DOMAIN disk',
           NEW c \in Clients, NEW to, NEW k, Goes(c, to, k),
           to \in PutSteps => Backs(DOMAIN disk, k.index),
           to \in {"openIndex", "fillIndex"} => Object(k.ref.name, k.ref.hash) \in DOMAIN disk'
    PROVE  CallsBacked'
<1>1. pc'[c] = to /\ call'[c] = k
  BY DEF Goes, TypeInv, TypeOK
<1>2. ASSUME NEW d \in Clients, d # c
      PROVE  pc'[d] = pc[d] /\ call'[d] = call[d]
  BY <1>2 DEF Goes, TypeInv, TypeOK
<1>3. ASSUME NEW d \in Clients
      PROVE  /\ pc'[d] \in PutSteps => Backs(DOMAIN disk', call'[d].index)
             /\ pc'[d] \in {"openIndex", "fillIndex"}
                  => Object(call'[d].ref.name, call'[d].ref.hash) \in DOMAIN disk'
  <2>1. CASE d = c
    BY <2>1, <1>1, StaysBacked
  <2>2. CASE d # c
    BY <2>2, <1>2, StaysBacked DEF CallsBacked, Present, ObjectPath
  <2> QED BY <2>1, <2>2
<1> QED BY <1>3 DEF CallsBacked, Present, ObjectPath

LEMMA BackedInit == Init => BackedInv
BY DEF Init, BackedInv, IndexesBacked, ToldBacked, CallsBacked, Whole, Present, PutSteps

\* A step that writes no file.
LEMMA BackedRead ==
    ASSUME TypeInv, BackedInv, disk' = disk, told' = told,
           NEW c \in Clients, NEW to, NEW k, Goes(c, to, k),
           to \in PutSteps => Backs(DOMAIN disk, k.index),
           to \in {"openIndex", "fillIndex"} => Object(k.ref.name, k.ref.hash) \in DOMAIN disk
    PROVE  BackedInv'
<1>1. IndexesBacked' /\ ToldBacked'
  BY DEF BackedInv, IndexesBacked, ToldBacked, Whole, Present
<1>2. CallsBacked'
  BY CallsStayBacked DEF BackedInv
<1> QED BY <1>1, <1>2 DEF BackedInv

\* A step that writes one, after which callers know r or no more than before.
LEMMA BackedWrite ==
    ASSUME TypeInv, BackedInv, NEW p, NEW v, disk' = With(p, v),
           \A e \in Episodes : p = IndexOf(e) => v \in Unreadable \/ Backs(DOMAIN disk, v),
           NEW r, told' \subseteq told \cup {r},
           r \in told' => Object(r.name, r.hash) \in DOMAIN disk',
           NEW c \in Clients, NEW to, NEW k, Goes(c, to, k),
           to \in PutSteps => Backs(DOMAIN disk, k.index),
           to \in {"openIndex", "fillIndex"} => Object(k.ref.name, k.ref.hash) \in DOMAIN disk'
    PROVE  BackedInv'
<1>1. DOMAIN disk \subseteq DOMAIN disk'
  BY DiskGrows
<1>2. IndexesBacked'
  BY IndexesStayBacked DEF BackedInv
<1>3. ToldBacked'
  BY <1>1 DEF BackedInv, ToldBacked, Present
<1>4. CallsBacked'
  BY <1>1, CallsStayBacked DEF BackedInv
<1> QED BY <1>2, <1>3, <1>4 DEF BackedInv

LEMMA BackedStep == TypeInv /\ BackedInv /\ [Next]_vars => BackedInv'
<1> SUFFICES ASSUME TypeInv, BackedInv, [Next]_vars PROVE BackedInv'
  OBVIOUS
<1>E. Empty \in Unreadable /\ Torn \in Unreadable
  BY DEF Unreadable
<1>C. ASSUME NEW c \in Clients
      PROVE  /\ pc[c] \in PutSteps => Backs(DOMAIN disk, call[c].index)
             /\ pc[c] \in {"openIndex", "fillIndex"} =>
                  Object(call[c].ref.name, call[c].ref.hash) \in DOMAIN disk
  BY <1>C DEF BackedInv, CallsBacked, Present, ObjectPath
<1>S. ASSUME NEW c \in Clients, StartPut(c) PROVE BackedInv'
  <2>1. PICK r \in Refs : \E index \in ReadIndex(r.episode) :
               Goes(c, "stat", [ref |-> r, index |-> index])
    BY <1>S DEF StartPut
  <2>2. PICK index \in ReadIndex(r.episode) :
               Goes(c, "stat", [ref |-> r, index |-> index])
    BY <2>1
  <2>3. Backs(DOMAIN disk, index)
    BY <2>2, Reads DEF BackedInv, Refs
  <2>4. disk' = disk /\ told' = told
    BY <1>S DEF StartPut
  <2> DEFINE k == [ref |-> r, index |-> index]
  <2>5. Goes(c, "stat", k) /\ Backs(DOMAIN disk, k.index)
    BY <2>2, <2>3
  <2> HIDE DEF k
  <2> QED BY <2>4, <2>5, BackedRead
<1>R. ASSUME NEW c \in Clients, RepeatPut(c) PROVE BackedInv'
  <2>1. PICK r \in Refs : \E index \in ReadIndex(r.episode) :
               r.name \in DOMAIN index /\ index[r.name] = r.hash /\ told' = told \cup {r}
    BY <1>R DEF RepeatPut
  <2>2. PICK index \in ReadIndex(r.episode) :
               r.name \in DOMAIN index /\ index[r.name] = r.hash /\ told' = told \cup {r}
    BY <2>1
  <2>3. Backs(DOMAIN disk, index)
    BY <2>2, Reads DEF BackedInv, Refs
  <2>4. Object(r.name, r.hash) \in DOMAIN disk
    BY <2>2, <2>3 DEF Backs
  <2>5. disk' = disk /\ pc' = pc /\ call' = call
    BY <1>R DEF RepeatPut
  <2>6. ToldBacked'
    BY <2>2, <2>4, <2>5 DEF BackedInv, ToldBacked, Present
  <2>7. IndexesBacked' /\ CallsBacked'
    BY <2>5 DEF BackedInv, IndexesBacked, CallsBacked, Whole, Present, ObjectPath
  <2> QED BY <2>6, <2>7 DEF BackedInv
<1>O. ASSUME NEW c \in Clients, StatObject(c) PROVE BackedInv'
  <2> DEFINE to == IF Present(ObjectPath(c)) THEN "openIndex" ELSE "openObject"
  <2>1. pc[c] \in PutSteps
    BY <1>O DEF StatObject, PutSteps
  <2>2. Goes(c, to, call[c]) /\ disk' = disk /\ told' = told
    BY <1>O DEF StatObject
  <2>3. to \in {"openIndex", "fillIndex"} =>
               Object(call[c].ref.name, call[c].ref.hash) \in DOMAIN disk
    BY DEF Present, ObjectPath
  <2> HIDE DEF to
  <2> QED BY <1>C, <2>1, <2>2, <2>3, BackedRead
<1>P. ASSUME NEW c \in Clients, OpenObject(c) PROVE BackedInv'
  <2>1. /\ pc[c] \in PutSteps /\ disk' = With(ObjectPath(c), Empty)
        /\ Goes(c, "fillObject", call[c]) /\ told' = told
    BY <1>P DEF OpenObject, Open, PutSteps
  <2>2. \A e \in Episodes : ObjectPath(c) # IndexOf(e)
    BY PathsDiffer DEF ObjectPath
  <2>3. call[c].ref \in told => Object(call[c].ref.name, call[c].ref.hash) \in DOMAIN disk
    BY DEF BackedInv, ToldBacked, Present
  <2>4. call[c].ref \in told' => Object(call[c].ref.name, call[c].ref.hash) \in DOMAIN disk'
    BY <2>1, <2>3, DiskGrows
  <2> QED BY <1>C, <2>1, <2>2, <2>4, BackedWrite
<1>F. ASSUME NEW c \in Clients, FillObject(c) PROVE BackedInv'
  <2>1. /\ pc[c] \in PutSteps /\ disk' = With(ObjectPath(c), call[c].ref.hash)
        /\ Goes(c, "openIndex", call[c]) /\ told' = told
    BY <1>F DEF FillObject, PutSteps
  <2>2. \A e \in Episodes : ObjectPath(c) # IndexOf(e)
    BY PathsDiffer DEF ObjectPath
  <2>3. Object(call[c].ref.name, call[c].ref.hash) \in DOMAIN disk'
    BY <2>1, DiskGrows DEF ObjectPath
  <2> QED BY <1>C, <2>1, <2>2, <2>3, BackedWrite
<1>I. ASSUME NEW c \in Clients, OpenIndex(c) PROVE BackedInv'
  <2>1. /\ pc[c] \in PutSteps /\ pc[c] \in {"openIndex", "fillIndex"}
        /\ disk' = With(IndexOf(call[c].ref.episode), Empty)
        /\ Goes(c, "fillIndex", call[c]) /\ told' = told
    BY <1>I DEF OpenIndex, Open, PutSteps
  <2>2. Object(call[c].ref.name, call[c].ref.hash) \in DOMAIN disk'
    BY <1>C, <2>1, DiskGrows
  <2> QED BY <1>C, <1>E, <2>1, <2>2, BackedWrite
<1>X. ASSUME NEW c \in Clients, FillIndex(c) PROVE BackedInv'
  <2>1. /\ pc[c] \in PutSteps /\ pc[c] \in {"openIndex", "fillIndex"}
        /\ told' = told \cup {call[c].ref} /\ Goes(c, "idle", NoCall)
    BY <1>X DEF FillIndex, Ends, PutSteps
  <2>2. PICK v \in Filled(IndexOf(call[c].ref.episode), NewIndex(c)) :
               disk' = With(IndexOf(call[c].ref.episode), v)
    BY <1>X DEF FillIndex
  <2>3. Backs(DOMAIN disk, NewIndex(c))
    BY <1>C, <2>1, NewIndexBacked DEF Present, ObjectPath
  <2>4. v \in Unreadable \/ Backs(DOMAIN disk, v)
    BY <1>E, <2>2, <2>3, FilledIs
  <2>5. Object(call[c].ref.name, call[c].ref.hash) \in DOMAIN disk'
    BY <1>C, <2>1, <2>2, DiskGrows
  <2>6. "idle" \notin PutSteps /\ "idle" \notin {"openIndex", "fillIndex"}
    BY DEF PutSteps
  <2> QED BY <2>1, <2>2, <2>4, <2>5, <2>6, BackedWrite
<1>V. ASSUME NEW c \in Clients, NEW k, Goes(c, "openState", k), disk' = disk, told' = told
      PROVE  BackedInv'
  <2>1. "openState" \notin PutSteps /\ "openState" \notin {"openIndex", "fillIndex"}
    BY DEF PutSteps
  <2> QED BY <1>V, <2>1, BackedRead
<1>K. ASSUME NEW c \in Clients, RepeatLink(c) PROVE BackedInv'
  BY <1>K DEF RepeatLink, BackedInv, IndexesBacked, ToldBacked, CallsBacked, Whole, Present,
              ObjectPath
<1>M. ASSUME NEW c \in Clients, NEW to \in {"idle", "fillState"}, NEW k, Goes(c, to, k),
             NEW e, NEW v, disk' = With(StateOf(e), v), told' = told
      PROVE  BackedInv'
  <2>1. to \notin PutSteps /\ to \notin {"openIndex", "fillIndex"}
    BY DEF PutSteps
  <2>2. \A d \in Episodes : StateOf(e) # IndexOf(d)
    BY PathsDiffer
  <2>4. DOMAIN disk \subseteq DOMAIN disk'
    BY <1>M, DiskGrows
  <2>5. IndexesBacked'
    BY <1>M, <2>2, IndexesStayBacked DEF BackedInv
  <2>6. ToldBacked'
    BY <1>M, <2>4 DEF BackedInv, ToldBacked, Present
  <2>7. CallsBacked'
    BY <1>M, <2>1, <2>4, CallsStayBacked DEF BackedInv
  <2> QED BY <2>5, <2>6, <2>7 DEF BackedInv
<1>D. ASSUME NEW c \in Clients, Die(c) PROVE BackedInv'
  <2>1. Goes(c, "idle", NoCall) /\ told' = told
    BY <1>D DEF Die, Ends
  <2>2. "idle" \notin PutSteps /\ "idle" \notin {"openIndex", "fillIndex"}
    BY DEF PutSteps
  <2>3. CASE disk' = disk
    BY <2>1, <2>2, <2>3, BackedRead
  <2>4. CASE \E w \in Writing(c) : \E v \in {Torn, w[2]} : disk' = With(w[1], v)
    <3>1. PICK w \in Writing(c) : \E v \in {Torn, w[2]} : disk' = With(w[1], v)
      BY <2>4
    <3>2. PICK v \in {Torn, w[2]} : disk' = With(w[1], v)
      BY <3>1
    <3>3. \A e \in Episodes : w[1] = IndexOf(e) => v \in Unreadable \/ Backs(DOMAIN disk, v)
      <4>1. CASE pc[c] = "fillObject" /\ w = <<ObjectPath(c), call[c].ref.hash>>
        BY <4>1, PathsDiffer DEF ObjectPath
      <4>2. CASE pc[c] = "fillIndex" /\ w = <<IndexOf(call[c].ref.episode), NewIndex(c)>>
        <5>1. Backs(DOMAIN disk, NewIndex(c))
          BY <1>C, <4>2, NewIndexBacked DEF Present, ObjectPath, PutSteps
        <5> QED BY <1>E, <3>2, <4>2, <5>1
      <4>3. CASE pc[c] = "fillState" /\ w = <<StateOf(call[c].episode), call[c].record>>
        BY <4>3, PathsDiffer
      <4> QED BY <4>1, <4>2, <4>3, WritingIs
    <3>4. DOMAIN disk \subseteq DOMAIN disk'
      BY <3>2, DiskGrows
    <3>5. IndexesBacked'
      BY <3>2, <3>3, IndexesStayBacked DEF BackedInv
    <3>6. ToldBacked'
      BY <2>1, <3>4 DEF BackedInv, ToldBacked, Present
    <3>7. CallsBacked'
      BY <2>1, <2>2, <3>4, CallsStayBacked DEF BackedInv
    <3> QED BY <3>5, <3>6, <3>7 DEF BackedInv
  <2> QED BY <1>D, <2>3, <2>4 DEF Die
<1>N. ASSUME NEW c \in Clients, KeepEpisode(c) PROVE BackedInv'
  <2>1. CASE StartSave(c)
    BY <1>V, <2>1 DEF StartSave
  <2>2. CASE StartLink(c)
    BY <1>V, <2>2 DEF StartLink
  <2>3. CASE OpenState(c)
    BY <1>M, <2>3 DEF OpenState, Open
  <2>4. CASE FillState(c)
    BY <1>M, <2>4 DEF FillState, Ends
  <2> QED BY <1>K, <1>N, <2>1, <2>2, <2>3, <2>4 DEF KeepEpisode
<1>U. CASE UNCHANGED vars
  BY <1>U DEF vars, BackedInv, IndexesBacked, ToldBacked, CallsBacked, Whole, Present,
              ObjectPath
<1> QED
  BY <1>S, <1>R, <1>O, <1>P, <1>F, <1>I, <1>X, <1>N, <1>D, <1>U DEF Next, PutArtifact

\* Whatever the calls of any number of clients do to each other, and wherever they
\* die, the objects of listed and of returned references exist.
THEOREM BackedCorrect == Spec => []IndexBacked
<1>1. BackedInv => IndexBacked
  BY DEF BackedInv, IndexesBacked, ToldBacked, Backs, IndexBacked, Present, Whole
<1> QED BY TypeInit, TypeStep, BackedInit, BackedStep, <1>1, PTL DEF Spec
-----------------------------------------------------------------------------
(***************************************************************************)
(* Whole objects, as long as no call dies: an object that is not whole is  *)
(* being filled by a client that truncated it.                             *)
(***************************************************************************)
Filling(n, x) == \E c \in Clients : pc[c] = "fillObject" /\ ObjectPath(c) = Object(n, x)

ObjectsWhole ==
    deaths = 0 => \A n \in Names, x \in Contents :
        Present(Object(n, x)) => Whole(Object(n, x)) \/ Filling(n, x)

LEMMA WholeInit == Init => ObjectsWhole
BY DEF Init, ObjectsWhole, Present

\* A write keeps the objects at other paths.
LEMMA OthersWhole ==
    ASSUME NEW p, NEW v, disk' = With(p, v), NEW n, NEW x, p # Object(n, x)
    PROVE  /\ Present(Object(n, x))' <=> Present(Object(n, x))
           /\ Whole(Object(n, x)) => Whole(Object(n, x))'
<1> DEFINE o == Object(n, x)
<1>1. /\ DOMAIN disk' = DOMAIN disk \cup {p} /\ \A q \in DOMAIN disk : q # p => disk'[q] = disk[q]
  BY DiskGrows
<1>2. p # o
  OBVIOUS
<1> HIDE DEF o
<1>3. (o \in DOMAIN disk' <=> o \in DOMAIN disk) /\ (o \in DOMAIN disk => disk'[o] = disk[o])
  BY <1>1, <1>2
<1> QED BY <1>3 DEF Present, Whole, o

\* A step of a client that is not filling an object, and writes no object.
LEMMA WholeBeside ==
    ASSUME TypeInv, ObjectsWhole, deaths' = deaths, NEW c \in Clients, pc[c] # "fillObject",
           \/ UNCHANGED <<pc, call>>
           \/ \E to, k : Goes(c, to, k),
           \/ disk' = disk
           \/ \E p, v : /\ disk' = With(p, v)
                        /\ \A n \in Names, x \in Contents : p # Object(n, x)
    PROVE  ObjectsWhole'
<1>1. \A d \in Clients : d # c => pc'[d] = pc[d] /\ call'[d] = call[d]
  BY DEF Goes, TypeInv, TypeOK
<1>2. ASSUME NEW n \in Names, NEW x \in Contents, Filling(n, x) PROVE Filling(n, x)'
  <2>1. PICK d \in Clients : pc[d] = "fillObject" /\ ObjectPath(d) = Object(n, x)
    BY <1>2 DEF Filling
  <2>2. pc'[d] = pc[d] /\ call'[d] = call[d]
    BY <1>1, <2>1
  <2> QED BY <2>1, <2>2 DEF Filling, ObjectPath
<1>3. ASSUME NEW n \in Names, NEW x \in Contents
      PROVE  /\ Present(Object(n, x))' <=> Present(Object(n, x))
             /\ Whole(Object(n, x)) => Whole(Object(n, x))'
  <2>1. CASE disk' = disk
    BY <2>1 DEF Present, Whole
  <2>2. CASE disk' # disk
    <3>1. PICK p, v : disk' = With(p, v) /\ p # Object(n, x)
      BY <2>2
    <3> QED BY <3>1, OthersWhole
  <2> QED BY <2>1, <2>2
<1> QED BY <1>2, <1>3 DEF ObjectsWhole

LEMMA WholeStep == TypeInv /\ ObjectsWhole /\ [Next]_vars => ObjectsWhole'
<1> SUFFICES ASSUME TypeInv, ObjectsWhole, [Next]_vars PROVE ObjectsWhole'
  OBVIOUS
<1>0. ASSUME NEW c \in Clients, NEW to, Goes(c, to, call[c])
      PROVE  /\ pc'[c] = to /\ \A d \in Clients : call'[d] = call[d]
             /\ \A d \in Clients : d # c => pc'[d] = pc[d]
  BY <1>0 DEF Goes, TypeInv, TypeOK
<1>1. ASSUME NEW c \in Clients, OpenObject(c) PROVE ObjectsWhole'
  <2>1. /\ disk' = With(ObjectPath(c), Empty) /\ deaths' = deaths
        /\ Goes(c, "fillObject", call[c])
    BY <1>1 DEF OpenObject, Open
  <2>2. ASSUME NEW n \in Names, NEW x \in Contents, Filling(n, x) \/ ObjectPath(c) = Object(n, x)
        PROVE  Filling(n, x)'
    <3>1. PICK d \in Clients : (d = c \/ pc[d] = "fillObject") /\ ObjectPath(d) = Object(n, x)
      BY <2>2 DEF Filling
    <3>2. pc'[d] = "fillObject" /\ call'[d] = call[d]
      BY <1>0, <2>1, <3>1
    <3> QED BY <3>1, <3>2 DEF Filling, ObjectPath
  <2>3. ASSUME NEW n \in Names, NEW x \in Contents, ObjectPath(c) # Object(n, x)
        PROVE  /\ Present(Object(n, x))' <=> Present(Object(n, x))
               /\ Whole(Object(n, x)) => Whole(Object(n, x))'
    BY <2>1, <2>3, OthersWhole
  <2> QED BY <2>1, <2>2, <2>3 DEF ObjectsWhole
<1>2. ASSUME NEW c \in Clients, FillObject(c) PROVE ObjectsWhole'
  <2>1. /\ pc[c] = "fillObject" /\ disk' = With(ObjectPath(c), call[c].ref.hash)
        /\ deaths' = deaths /\ Goes(c, "openIndex", call[c])
    BY <1>2 DEF FillObject
  <2>2. call[c].ref.hash \notin Unreadable
    BY <2>1, PutHolds, StoreAssumption DEF PutSteps
  <2>3. ASSUME NEW n \in Names, NEW x \in Contents, ObjectPath(c) = Object(n, x)
        PROVE  Whole(Object(n, x))'
    <3>1. DOMAIN disk' = DOMAIN disk \cup {ObjectPath(c)} /\ disk'[ObjectPath(c)] = call[c].ref.hash
      BY <2>1, DiskGrows
    <3>2. Object(n, x) \in DOMAIN disk' /\ disk'[Object(n, x)] \notin Unreadable
      BY <2>2, <2>3, <3>1
    <3> QED BY <3>2 DEF Present, Whole
  <2>4. ASSUME NEW n \in Names, NEW x \in Contents, ObjectPath(c) # Object(n, x)
        PROVE  /\ Present(Object(n, x))' <=> Present(Object(n, x))
               /\ Whole(Object(n, x)) => Whole(Object(n, x))'
    BY <2>1, <2>4, OthersWhole
  <2>5. ASSUME NEW n \in Names, NEW x \in Contents, ObjectPath(c) # Object(n, x), Filling(n, x)
        PROVE  Filling(n, x)'
    <3>1. PICK d \in Clients : pc[d] = "fillObject" /\ ObjectPath(d) = Object(n, x)
      BY <2>5 DEF Filling
    <3>2. d # c
      BY <2>5, <3>1
    <3>3. pc'[d] = pc[d] /\ call'[d] = call[d]
      BY <1>0, <2>1, <3>2
    <3> QED BY <3>1, <3>3 DEF Filling, ObjectPath
  <2> QED BY <2>1, <2>3, <2>4, <2>5 DEF ObjectsWhole
<1>3. ASSUME NEW c \in Clients, StartPut(c) \/ RepeatPut(c) \/ StatObject(c) PROVE ObjectsWhole'
  BY <1>3, WholeBeside DEF StartPut, RepeatPut, StatObject
<1>4. ASSUME NEW c \in Clients, OpenIndex(c) \/ FillIndex(c) PROVE ObjectsWhole'
  <2>1. \A n \in Names, x \in Contents : IndexOf(call[c].ref.episode) # Object(n, x)
    BY PathsDiffer
  <2>2. /\ pc[c] # "fillObject" /\ deaths' = deaths
        /\ \E v : disk' = With(IndexOf(call[c].ref.episode), v)
        /\ \E to, k : Goes(c, to, k)
    BY <1>4 DEF OpenIndex, FillIndex, Open, Ends
  <2> QED BY <2>1, <2>2, WholeBeside
<1>5. ASSUME NEW c \in Clients, StartSave(c) \/ StartLink(c) \/ RepeatLink(c) PROVE ObjectsWhole'
  BY <1>5, WholeBeside DEF StartSave, StartLink, RepeatLink
<1>6. ASSUME NEW c \in Clients, OpenState(c) \/ FillState(c) PROVE ObjectsWhole'
  <2>1. \A n \in Names, x \in Contents : StateOf(call[c].episode) # Object(n, x)
    BY PathsDiffer
  <2>2. /\ pc[c] # "fillObject" /\ deaths' = deaths
        /\ \E v : disk' = With(StateOf(call[c].episode), v)
        /\ \E to, k : Goes(c, to, k)
    BY <1>6 DEF OpenState, FillState, Open, Ends
  <2> QED BY <2>1, <2>2, WholeBeside
<1>7. ASSUME NEW c \in Clients, Die(c) PROVE ObjectsWhole'
  <2>1. deaths' # 0
    BY <1>7, StoreAssumption DEF Die, TypeInv, TypeOK
  <2> QED BY <2>1 DEF ObjectsWhole
<1>8. CASE UNCHANGED vars
  BY <1>8 DEF vars, ObjectsWhole, Filling, ObjectPath, Whole, Present
<1> QED
  BY <1>1, <1>2, <1>3, <1>4, <1>5, <1>6, <1>7, <1>8 DEF Next, PutArtifact, KeepEpisode

\* As long as no call dies, what PutArtifact returned can be read, or another of any
\* number of clients is just writing the same bytes to it (writeObject).
THEOREM WholeCorrect == Spec => []ToldObjectWhole
<1>1. ASSUME TypeInv, BackedInv, ObjectsWhole PROVE ToldObjectWhole
  <2>1. \A r \in told : r.name \in Names /\ r.hash \in Contents
    BY <1>1 DEF TypeInv, TypeOK, Refs
  <2>2. \A r \in told : Present(Object(r.name, r.hash))
    BY <1>1 DEF BackedInv, ToldBacked
  <2>3. \A c \in Clients : pc[c] = "fillObject" =>
          <<ObjectPath(c), call[c].ref.hash>> \in Writing(c)
    BY DEF Writing
  <2> QED BY <1>1, <2>1, <2>2, <2>3 DEF ObjectsWhole, Filling, ToldObjectWhole
<1> QED BY <1>1, TypeInit, TypeStep, BackedInit, BackedStep, WholeInit, WholeStep, PTL DEF Spec
-----------------------------------------------------------------------------
(***************************************************************************)
(* Immutability, for one client at a time. Any index that can be read      *)
(* binds all that callers were told; so does the one a put has read, and   *)
(* the put adds a name to it. Immutable itself is a part of the invariant: *)
(* an index that was lost binds nothing, and what was told before stays    *)
(* told.                                                                   *)
(***************************************************************************)
Binds(index, r) == r.name \in DOMAIN index /\ index[r.name] = r.hash

ToldBound == \A r \in told : \A index \in ReadIndex(r.episode) : Binds(index, r)

PutsFresh ==
    \A c \in Clients : pc[c] \in PutSteps =>
        /\ call[c].ref.name \notin DOMAIN call[c].index
        /\ \A r \in told : r.episode = call[c].ref.episode => Binds(call[c].index, r)

BoundInv == ToldBound /\ PutsFresh /\ Immutable

LEMMA BoundInit == Init => BoundInv
BY DEF Init, BoundInv, ToldBound, PutsFresh, Immutable, PutSteps

\* What can be read after a write: what could be read before it, nothing, or the
\* document that was written.
LEMMA ReadsAfter ==
    ASSUME NEW p, NEW v, disk' = With(p, v), NEW e \in Episodes
    PROVE  /\ p # IndexOf(e) => ReadIndex(e)' = ReadIndex(e)
           /\ p = IndexOf(e) /\ v \in Unreadable => ReadIndex(e)' = {}
           /\ p = IndexOf(e) /\ v \notin Unreadable => ReadIndex(e)' = {v}
<1>1. /\ DOMAIN disk' = DOMAIN disk \cup {p} /\ disk'[p] = v
      /\ \A q \in DOMAIN disk : q # p => disk'[q] = disk[q]
  BY DiskGrows
<1> QED BY <1>1 DEF ReadIndex, Document, Whole, Present

LEMMA NewIndexBinds ==
    ASSUME NEW c \in Clients, call[c].ref.name \notin DOMAIN call[c].index
    PROVE  /\ Binds(NewIndex(c), call[c].ref)
           /\ \A r : Binds(call[c].index, r) => Binds(NewIndex(c), r)
BY DEF Binds, NewIndex

\* The only client moves on in its call, or ends it, and tells nobody.
LEMMA PutsStayFresh ==
    ASSUME OneClient, TypeInv, PutsFresh, told' = told, NEW c \in Clients, NEW to, NEW k,
           Goes(c, to, k), to \in PutSteps => pc[c] \in PutSteps /\ k = call[c]
    PROVE  PutsFresh'
<1>1. pc'[c] = to /\ call'[c] = k /\ \A d \in Clients : d = c
  BY DEF Goes, TypeInv, TypeOK, OneClient
<1> QED BY <1>1 DEF PutsFresh

\* A step that leaves every index as it was or makes it unreadable, and tells nobody.
LEMMA ToldStayBound ==
    ASSUME TypeInv, ToldBound, told' = told,
           \A e \in Episodes : ReadIndex(e)' \subseteq ReadIndex(e)
    PROVE  ToldBound'
<1>1. \A r \in told : r.episode \in Episodes
  BY DEF TypeInv, TypeOK, Refs
<1>2. \A r \in told : \A index \in ReadIndex(r.episode)' : Binds(index, r)
  BY <1>1 DEF ToldBound
<1> QED BY <1>2 DEF ToldBound

LEMMA BoundMove ==
    ASSUME OneClient, TypeInv, BoundInv, told' = told, NEW c \in Clients, NEW to, NEW k,
           Goes(c, to, k), to \in PutSteps => pc[c] \in PutSteps /\ k = call[c],
           \A e \in Episodes : ReadIndex(e)' \subseteq ReadIndex(e)
    PROVE  BoundInv'
<1>1. Immutable'
  BY DEF BoundInv, Immutable
<1> QED BY <1>1, ToldStayBound, PutsStayFresh DEF BoundInv

LEMMA ReadsKept ==
    ASSUME disk' = disk
    PROVE  \A e \in Episodes : ReadIndex(e)' \subseteq ReadIndex(e)
BY DEF ReadIndex, Document, Whole, Present

LEMMA ReadsShrink ==
    ASSUME NEW p, NEW v, disk' = With(p, v),
           (\A e \in Episodes : p # IndexOf(e)) \/ v \in Unreadable
    PROVE  \A e \in Episodes : ReadIndex(e)' \subseteq ReadIndex(e)
BY ReadsAfter

\* The index that a put writes binds what callers know.
LEMMA ToldBoundByPut ==
    ASSUME TypeInv, BoundInv, NEW c \in Clients, pc[c] \in PutSteps,
           disk' = With(IndexOf(call[c].ref.episode), NewIndex(c)),
           told' \subseteq told \cup {call[c].ref}
    PROVE  ToldBound'
<1> DEFINE r == call[c].ref
<1>1. r \in Refs /\ r.episode \in Episodes
  BY PutHolds
<1>2. /\ Binds(NewIndex(c), r)
      /\ \A t \in told : t.episode = r.episode => Binds(NewIndex(c), t)
  BY NewIndexBinds DEF BoundInv, PutsFresh
<1>3. ASSUME NEW t \in told', NEW index \in ReadIndex(t.episode)'
      PROVE  Binds(index, t)
  <2>1. t.episode \in Episodes
    BY <1>1, <1>3 DEF TypeInv, TypeOK, Refs
  <2>2. CASE t.episode = r.episode
    <3>1. index = NewIndex(c)
      BY <1>3, <2>1, <2>2, ReadsAfter
    <3> QED BY <1>2, <1>3, <2>2, <3>1
  <2>3. CASE t.episode # r.episode
    <3>1. IndexOf(r.episode) # IndexOf(t.episode)
      BY <2>3, PathsDiffer
    <3>2. index \in ReadIndex(t.episode)
      BY <1>3, <2>1, <3>1, ReadsAfter
    <3>3. t \in told
      BY <1>3, <2>3
    <3> QED BY <3>2, <3>3 DEF BoundInv, ToldBound
  <2> QED BY <2>2, <2>3
<1> QED BY <1>3 DEF ToldBound

LEMMA BoundStep ==
    ASSUME OneClient
    PROVE  TypeInv /\ BoundInv /\ [Next]_vars => BoundInv'
<1> SUFFICES ASSUME TypeInv, BoundInv, [Next]_vars PROVE BoundInv'
  OBVIOUS
<1>E. Empty \in Unreadable /\ Torn \in Unreadable
  BY DEF Unreadable
<1>T. \A r \in told : r \in Refs /\ r.episode \in Episodes
  BY DEF TypeInv, TypeOK, Refs
<1>S. ASSUME NEW c \in Clients, StartPut(c) PROVE BoundInv'
  <2>1. PICK r \in Refs : \E index \in ReadIndex(r.episode) :
               /\ r.name \notin DOMAIN index
               /\ Goes(c, "stat", [ref |-> r, index |-> index])
    BY <1>S DEF StartPut
  <2>2. PICK index \in ReadIndex(r.episode) :
               /\ r.name \notin DOMAIN index
               /\ Goes(c, "stat", [ref |-> r, index |-> index])
    BY <2>1
  <2>3. \A t \in told : t.episode = r.episode => Binds(index, t)
    BY <2>2 DEF BoundInv, ToldBound
  <2>4. disk' = disk /\ told' = told
    BY <1>S DEF StartPut
  <2>5. call'[c] = [ref |-> r, index |-> index] /\ \A d \in Clients : d = c
    BY <2>2 DEF Goes, TypeInv, TypeOK, OneClient
  <2>6. PutsFresh'
    BY <2>2, <2>3, <2>4, <2>5 DEF PutsFresh
  <2>7. ToldBound'
    BY <2>4, ReadsKept, ToldStayBound DEF BoundInv
  <2> QED BY <2>4, <2>6, <2>7 DEF BoundInv, Immutable
<1>R. ASSUME NEW c \in Clients, RepeatPut(c) PROVE BoundInv'
  <2>1. PICK r \in Refs : \E index \in ReadIndex(r.episode) :
               r.name \in DOMAIN index /\ index[r.name] = r.hash /\ told' = told \cup {r}
    BY <1>R DEF RepeatPut
  <2>2. PICK index \in ReadIndex(r.episode) :
               r.name \in DOMAIN index /\ index[r.name] = r.hash /\ told' = told \cup {r}
    BY <2>1
  <2>3. disk' = disk /\ pc' = pc /\ call' = call /\ pc[c] = "idle"
    BY <1>R DEF RepeatPut
  <2>4. ReadIndex(r.episode) = {index}
    BY <2>2 DEF ReadIndex, Document
  <2>5. \A t \in told : t.episode = r.episode => Binds(index, t)
    BY <2>2 DEF BoundInv, ToldBound
  <2>6. Immutable'
    BY <2>2, <2>5 DEF BoundInv, Immutable, Binds
  <2>7. \A t \in told' : \A i \in ReadIndex(t.episode) : Binds(i, t)
    BY <2>2, <2>4 DEF BoundInv, ToldBound, Binds
  <2>8. ToldBound'
    BY <2>3, <2>7 DEF ToldBound, ReadIndex, Document, Whole, Present
  <2>9. PutsFresh'
    BY <2>3 DEF PutsFresh, PutSteps, OneClient
  <2> QED BY <2>6, <2>8, <2>9 DEF BoundInv
<1>O. ASSUME NEW c \in Clients, StatObject(c) PROVE BoundInv'
  <2> DEFINE to == IF Present(ObjectPath(c)) THEN "openIndex" ELSE "openObject"
  <2>1. Goes(c, to, call[c]) /\ disk' = disk /\ told' = told /\ pc[c] \in PutSteps
    BY <1>O DEF StatObject, PutSteps
  <2> HIDE DEF to
  <2> QED BY <2>1, ReadsKept, BoundMove
<1>P. ASSUME NEW c \in Clients, NEW to, Goes(c, to, call[c]), pc[c] \in PutSteps, NEW v,
             disk' = With(ObjectPath(c), v), told' = told
      PROVE  BoundInv'
  <2>1. \A e \in Episodes : ObjectPath(c) # IndexOf(e)
    BY PathsDiffer DEF ObjectPath
  <2>2. \A e \in Episodes : ReadIndex(e)' \subseteq ReadIndex(e)
    BY <1>P, <2>1, ReadsShrink
  <2> QED BY <1>P, <2>2, BoundMove
<1>I. ASSUME NEW c \in Clients, OpenIndex(c) PROVE BoundInv'
  <2>1. /\ Goes(c, "fillIndex", call[c]) /\ pc[c] \in PutSteps /\ told' = told
        /\ disk' = With(IndexOf(call[c].ref.episode), Empty)
    BY <1>I DEF OpenIndex, Open, PutSteps
  <2>2. \A e \in Episodes : ReadIndex(e)' \subseteq ReadIndex(e)
    BY <1>E, <2>1, ReadsShrink
  <2> QED BY <2>1, <2>2, BoundMove
<1>X. ASSUME NEW c \in Clients, FillIndex(c) PROVE BoundInv'
  <2>0. PICK r : r = call[c].ref
    OBVIOUS
  <2>1. /\ pc[c] \in PutSteps /\ told' = told \cup {r} /\ Goes(c, "idle", NoCall)
    BY <1>X, <2>0 DEF FillIndex, Ends, PutSteps
  <2>2. PICK v \in Filled(IndexOf(r.episode), NewIndex(c)) :
               disk' = With(IndexOf(r.episode), v)
    BY <1>X, <2>0 DEF FillIndex
  <2>3. r \in Refs /\ r.episode \in Episodes
    BY <2>0, <2>1, PutHolds
  <2>4. /\ r.name \notin DOMAIN call[c].index
        /\ \A t \in told : t.episode = r.episode => Binds(call[c].index, t)
    BY <2>0, <2>1 DEF BoundInv, PutsFresh
  <2>5. Immutable'
    BY <2>0, <2>1, <2>4 DEF BoundInv, Immutable, Binds
  <2>6. PutsFresh'
    <3>1. \A d \in Clients : pc'[d] = "idle"
      BY <2>1 DEF Goes, TypeInv, TypeOK, OneClient
    <3> QED BY <3>1 DEF PutsFresh, PutSteps
  <2>7. CASE v = NewIndex(c)
    BY <2>0, <2>1, <2>2, <2>5, <2>6, <2>7, ToldBoundByPut DEF BoundInv
  <2>8. CASE v = Torn
    <3>1. \A e \in Episodes : ReadIndex(e)' \subseteq ReadIndex(e)
      BY <1>E, <2>2, <2>8, ReadsShrink
    <3>2. ReadIndex(r.episode)' = {}
      BY <1>E, <2>2, <2>3, <2>8, ReadsAfter
    <3>3. ASSUME NEW t \in told', NEW index \in ReadIndex(t.episode)'
          PROVE  Binds(index, t)
      <4>1. t # r
        BY <3>2, <3>3
      <4>2. t \in told /\ index \in ReadIndex(t.episode)
        BY <1>T, <2>1, <3>1, <3>3, <4>1
      <4> QED BY <4>2 DEF BoundInv, ToldBound
    <3>4. ToldBound'
      BY <3>3 DEF ToldBound
    <3> QED BY <2>5, <2>6, <3>4 DEF BoundInv
  <2> QED BY <2>2, <2>7, <2>8, FilledIs
<1>M. ASSUME NEW c \in Clients, NEW to \in {"idle", "openState", "fillState"}, NEW k,
             Goes(c, to, k), told' = told,
             disk' = disk \/ \E e, v : disk' = With(StateOf(e), v)
      PROVE  BoundInv'
  <2>1. to \notin PutSteps
    BY DEF PutSteps
  <2>2. \A e \in Episodes : ReadIndex(e)' \subseteq ReadIndex(e)
    <3>1. CASE disk' = disk
      BY <3>1, ReadsKept
    <3>2. CASE \E e, v : disk' = With(StateOf(e), v)
      <4>1. PICK e, v : disk' = With(StateOf(e), v)
        BY <3>2
      <4>2. \A d \in Episodes : StateOf(e) # IndexOf(d)
        BY PathsDiffer
      <4> QED BY <4>1, <4>2, ReadsShrink
    <3> QED BY <1>M, <3>1, <3>2
  <2> QED BY <1>M, <2>1, <2>2, BoundMove
<1>K. ASSUME NEW c \in Clients, RepeatLink(c) PROVE BoundInv'
  BY <1>K DEF RepeatLink, BoundInv, ToldBound, PutsFresh, Immutable, ReadIndex, Document,
              Whole, Present
<1>N. ASSUME NEW c \in Clients, KeepEpisode(c) PROVE BoundInv'
  <2>1. CASE StartSave(c)
    BY <1>M, <2>1 DEF StartSave
  <2>2. CASE StartLink(c)
    BY <1>M, <2>2 DEF StartLink
  <2>3. CASE OpenState(c)
    BY <1>M, <2>3 DEF OpenState, Open
  <2>4. CASE FillState(c)
    BY <1>M, <2>4 DEF FillState, Ends
  <2> QED BY <1>K, <1>N, <2>1, <2>2, <2>3, <2>4 DEF KeepEpisode
<1>D. ASSUME NEW c \in Clients, Die(c) PROVE BoundInv'
  <2>1. Goes(c, "idle", NoCall) /\ told' = told
    BY <1>D DEF Die, Ends
  <2>2. "idle" \notin PutSteps
    BY DEF PutSteps
  <2>3. CASE disk' = disk
    BY <1>M, <2>1, <2>3
  <2>4. CASE \E w \in Writing(c) : \E v \in {Torn, w[2]} : disk' = With(w[1], v)
    <3>1. PICK w \in Writing(c) : \E v \in {Torn, w[2]} : disk' = With(w[1], v)
      BY <2>4
    <3>2. PICK v \in {Torn, w[2]} : disk' = With(w[1], v)
      BY <3>1
    <3>3. CASE pc[c] = "fillIndex" /\ w = <<IndexOf(call[c].ref.episode), NewIndex(c)>>
                 /\ v = NewIndex(c)
      <4>1. ToldBound'
        BY <2>1, <3>2, <3>3, ToldBoundByPut DEF PutSteps
      <4>2. PutsFresh'
        BY <2>1, <2>2, PutsStayFresh DEF BoundInv
      <4> QED BY <2>1, <4>1, <4>2 DEF BoundInv, Immutable
    <3>4. CASE v = Torn
      <4>1. \A e \in Episodes : ReadIndex(e)' \subseteq ReadIndex(e)
        BY <1>E, <3>2, <3>4, ReadsShrink
      <4> QED BY <2>1, <2>2, <4>1, BoundMove
    <3>5. CASE pc[c] # "fillIndex"
      <4>1. \A e \in Episodes : w[1] # IndexOf(e)
        BY <3>5, WritingIs, PathsDiffer DEF ObjectPath
      <4>2. \A e \in Episodes : ReadIndex(e)' \subseteq ReadIndex(e)
        BY <3>2, <4>1, ReadsShrink
      <4> QED BY <2>1, <2>2, <4>2, BoundMove
    <3> QED BY <3>2, <3>3, <3>4, <3>5, WritingIs
  <2> QED BY <1>D, <2>3, <2>4 DEF Die
<1>U. CASE UNCHANGED vars
  BY <1>U DEF vars, BoundInv, ToldBound, PutsFresh, Immutable, ReadIndex, Document, Whole,
              Present
<1>Q. ASSUME NEW c \in Clients, OpenObject(c) \/ FillObject(c) PROVE BoundInv'
  BY <1>P, <1>Q DEF OpenObject, Open, FillObject, PutSteps
<1> QED
  BY <1>S, <1>R, <1>O, <1>Q, <1>I, <1>X, <1>N, <1>D, <1>U DEF Next, PutArtifact

\* With one client at a time, callers are never told two contents for a name of an
\* episode, wherever calls died and writes failed.
THEOREM ImmutableCorrect == ASSUME OneClient PROVE Spec => []Immutable
<1>1. BoundInv => Immutable
  BY DEF BoundInv
<1> QED BY TypeInit, TypeStep, BoundInit, BoundStep, <1>1, PTL DEF Spec
-----------------------------------------------------------------------------
(***************************************************************************)
(* Links, for one client at a time: any record that can be read has what   *)
(* was confirmed, and so has the record a call is about to write.          *)
(***************************************************************************)
LinkedKept == \A e \in Episodes : \A record \in LoadRecord(e) : linked[e] \subseteq record.refs

LinksFresh ==
    \A c \in Clients : pc[c] \in StateSteps =>
        linked[call[c].episode] \cup call[c].link \subseteq call[c].record.refs

LinkInv == LinkedKept /\ LinksFresh

LEMMA LinkInit == Init => LinkInv
BY DEF Init, LinkInv, LinkedKept, LinksFresh, StateSteps

LEMMA RecordsAfter ==
    ASSUME NEW p, NEW v, disk' = With(p, v), NEW e \in Episodes
    PROVE  /\ p # StateOf(e) => LoadRecord(e)' = LoadRecord(e)
           /\ p = StateOf(e) /\ v \in Unreadable => LoadRecord(e)' = {}
           /\ p = StateOf(e) /\ v \notin Unreadable => LoadRecord(e)' = {v}
<1>1. /\ DOMAIN disk' = DOMAIN disk \cup {p} /\ disk'[p] = v
      /\ \A q \in DOMAIN disk : q # p => disk'[q] = disk[q]
  BY DiskGrows
<1> QED BY <1>1 DEF LoadRecord, Document, Whole, Present

\* The only client moves on in its call, or ends it, and confirms nothing.
LEMMA LinkMove ==
    ASSUME OneClient, TypeInv, LinkInv, linked' = linked, NEW c \in Clients, NEW to, NEW k,
           Goes(c, to, k), to \in StateSteps => pc[c] \in StateSteps /\ k = call[c],
           \/ disk' = disk
           \/ \E p, v : /\ disk' = With(p, v)
                        /\ (\A e \in Episodes : p # StateOf(e)) \/ v \in Unreadable
    PROVE  LinkInv'
<1>1. pc'[c] = to /\ call'[c] = k /\ \A d \in Clients : d = c
  BY DEF Goes, TypeInv, TypeOK, OneClient
<1>2. LinksFresh'
  BY <1>1 DEF LinkInv, LinksFresh
<1>3. \A e \in Episodes : LoadRecord(e)' \subseteq LoadRecord(e)
  <2>1. CASE disk' = disk
    BY <2>1 DEF LoadRecord, Document, Whole, Present
  <2>2. CASE \E p, v : /\ disk' = With(p, v)
                       /\ (\A e \in Episodes : p # StateOf(e)) \/ v \in Unreadable
    BY <2>2, RecordsAfter
  <2> QED BY <2>1, <2>2
<1>4. \A e \in Episodes : \A record \in LoadRecord(e)' : linked'[e] \subseteq record.refs
  BY <1>3 DEF LinkInv, LinkedKept
<1>5. LinkedKept'
  BY <1>4 DEF LinkedKept
<1> QED BY <1>2, <1>5 DEF LinkInv

\* The only client writes its record, which has what was and what it confirms.
LEMMA LinkWrite ==
    ASSUME OneClient, TypeInv, LinkInv, NEW c \in Clients, pc[c] = "fillState",
           Goes(c, "idle", NoCall), NEW e, e = call[c].episode, NEW v,
           disk' = With(StateOf(e), v), v = call[c].record \/ v = Torn,
           linked' = linked \/ linked' = [linked EXCEPT ![e] = @ \cup call[c].link]
    PROVE  LinkInv'
<1>1. pc'[c] = "idle" /\ \A d \in Clients : d = c
  BY DEF Goes, TypeInv, TypeOK, OneClient
<1>2. LinksFresh'
  BY <1>1 DEF LinksFresh, StateSteps
<1>3. e \in Episodes /\ linked \in [Episodes -> SUBSET Refs] /\ call[c].record \in Records
  BY StateHolds DEF TypeInv, TypeOK, StateSteps
<1>4. linked'[e] \subseteq call[c].record.refs
  BY <1>3 DEF LinkInv, LinksFresh, StateSteps
<1>5. ASSUME NEW d \in Episodes, NEW record \in LoadRecord(d)'
      PROVE  linked'[d] \subseteq record.refs
  <2>1. CASE d = e
    <3>1. Torn \in Unreadable /\ call[c].record \notin Unreadable
      BY <1>3, StoreAssumption DEF Unreadable
    <3>2. record = call[c].record
      BY <1>5, <2>1, <3>1, RecordsAfter
    <3> QED BY <1>4, <2>1, <3>2
  <2>2. CASE d # e
    <3>1. StateOf(d) # StateOf(e)
      BY <2>2, PathsDiffer
    <3>2. record \in LoadRecord(d)
      BY <1>5, <3>1, RecordsAfter
    <3>3. linked'[d] = linked[d]
      BY <1>3, <2>2
    <3> QED BY <3>2, <3>3 DEF LinkInv, LinkedKept
  <2> QED BY <2>1, <2>2
<1>6. LinkedKept'
  BY <1>5 DEF LinkedKept
<1> QED BY <1>2, <1>6 DEF LinkInv

LEMMA LinkStep ==
    ASSUME OneClient
    PROVE  TypeInv /\ LinkInv /\ [Next]_vars => LinkInv'
<1> SUFFICES ASSUME TypeInv, LinkInv, [Next]_vars PROVE LinkInv'
  OBVIOUS
<1>E. Empty \in Unreadable /\ Torn \in Unreadable
  BY DEF Unreadable
<1>T. linked \in [Episodes -> SUBSET Refs] /\ \A r \in told : r.episode \in Episodes
  BY DEF TypeInv, TypeOK, Refs
<1>R. ASSUME NEW c \in Clients, RepeatPut(c) PROVE LinkInv'
  BY <1>R DEF RepeatPut, LinkInv, LinkedKept, LinksFresh, LoadRecord, Document, Whole, Present
<1>A. ASSUME NEW c \in Clients, NEW to \in PutSteps \cup {"idle"}, NEW k, Goes(c, to, k),
             linked' = linked,
             disk' = disk \/ \E p, v : disk' = With(p, v) /\ \A e \in Episodes : p # StateOf(e)
      PROVE  LinkInv'
  <2>1. to \notin StateSteps
    BY DEF PutSteps, StateSteps
  <2> QED BY <1>A, <2>1, LinkMove
<1>B. ASSUME NEW c \in Clients, StartPut(c) \/ StatObject(c) PROVE LinkInv'
  BY <1>A, <1>B DEF StartPut, StatObject, PutSteps
<1>P. ASSUME NEW c \in Clients, OpenObject(c) \/ FillObject(c) PROVE LinkInv'
  <2>1. \A e \in Episodes : ObjectPath(c) # StateOf(e)
    BY PathsDiffer DEF ObjectPath
  <2> QED BY <1>A, <1>P, <2>1 DEF OpenObject, FillObject, Open, PutSteps
<1>X. ASSUME NEW c \in Clients, OpenIndex(c) \/ FillIndex(c) PROVE LinkInv'
  <2>1. PICK p : p = IndexOf(call[c].ref.episode)
    OBVIOUS
  <2>2. \A e \in Episodes : p # StateOf(e)
    BY <2>1, PathsDiffer
  <2>3. \E v : disk' = With(p, v)
    BY <1>X, <2>1 DEF OpenIndex, FillIndex, Open
  <2>4. PICK to \in PutSteps \cup {"idle"} : \E k : Goes(c, to, k)
    BY <1>X DEF OpenIndex, FillIndex, Open, Ends, PutSteps
  <2>5. linked' = linked
    BY <1>X DEF OpenIndex, FillIndex, Open
  <2> QED BY <1>A, <2>2, <2>3, <2>4, <2>5
<1>V. ASSUME NEW c \in Clients, StartSave(c) PROVE LinkInv'
  <2>1. PICK e \in Episodes, s \in States :
               \E R \in {{}} \cup {record.refs : record \in LoadRecord(e)} :
                 /\ Goes(c, "openState",
                      [episode |-> e, record |-> [state |-> s, refs |-> R], link |-> {}])
                 /\ linked' = [linked EXCEPT ![e] = @ \cap R]
    BY <1>V DEF StartSave
  <2>2. PICK R \in {{}} \cup {record.refs : record \in LoadRecord(e)} :
                 /\ Goes(c, "openState",
                      [episode |-> e, record |-> [state |-> s, refs |-> R], link |-> {}])
                 /\ linked' = [linked EXCEPT ![e] = @ \cap R]
    BY <2>1
  <2>3. /\ call'[c] = [episode |-> e, record |-> [state |-> s, refs |-> R], link |-> {}]
        /\ \A d \in Clients : d = c
    BY <2>2 DEF Goes, TypeInv, TypeOK, OneClient
  <2>4. linked'[e] \subseteq R /\ \A d \in Episodes : linked'[d] \subseteq linked[d]
    BY <1>T, <2>2
  <2>5. LinksFresh'
    BY <2>3, <2>4 DEF LinksFresh
  <2>6. disk' = disk
    BY <1>V DEF StartSave
  <2>7. LinkedKept'
    BY <2>4, <2>6 DEF LinkInv, LinkedKept, LoadRecord, Document, Whole, Present
  <2> QED BY <2>5, <2>7 DEF LinkInv
<1>L. ASSUME NEW c \in Clients, StartLink(c) PROVE LinkInv'
  <2>1. PICK r \in told : \E record \in LoadRecord(r.episode) :
               Goes(c, "openState", [episode |-> r.episode, link |-> {r},
                                     record |-> [record EXCEPT !.refs = @ \cup {r}]])
    BY <1>L DEF StartLink
  <2>2. PICK record \in LoadRecord(r.episode) :
               Goes(c, "openState", [episode |-> r.episode, link |-> {r},
                                     record |-> [record EXCEPT !.refs = @ \cup {r}]])
    BY <2>1
  <2>3. record \in Records /\ r.episode \in Episodes
    BY <1>T, <2>2, RecordRead
  <2>4. [record EXCEPT !.refs = @ \cup {r}].refs = record.refs \cup {r}
    BY <2>3 DEF Records
  <2>5. linked[r.episode] \subseteq record.refs
    BY <2>2, <2>3 DEF LinkInv, LinkedKept
  <2>6. /\ call'[c] = [episode |-> r.episode, link |-> {r},
                       record |-> [record EXCEPT !.refs = @ \cup {r}]]
        /\ \A d \in Clients : d = c
    BY <2>2 DEF Goes, TypeInv, TypeOK, OneClient
  <2>7. disk' = disk /\ linked' = linked
    BY <1>L DEF StartLink
  <2>8. LinksFresh'
    <3>1. call'[c].episode = r.episode /\ call'[c].link = {r}
          /\ call'[c].record = [record EXCEPT !.refs = @ \cup {r}]
      BY <2>6
    <3>2. linked'[call'[c].episode] \cup call'[c].link \subseteq call'[c].record.refs
      BY <2>4, <2>5, <2>7, <3>1
    <3> QED BY <2>6, <3>2 DEF LinksFresh
  <2>9. LinkedKept'
    BY <2>7 DEF LinkInv, LinkedKept, LoadRecord, Document, Whole, Present
  <2> QED BY <2>8, <2>9 DEF LinkInv
<1>K. ASSUME NEW c \in Clients, RepeatLink(c) PROVE LinkInv'
  <2>1. PICK r \in told : \E record \in LoadRecord(r.episode) :
               r \in record.refs /\ linked' = [linked EXCEPT ![r.episode] = @ \cup {r}]
    BY <1>K DEF RepeatLink
  <2>2. PICK record \in LoadRecord(r.episode) :
               r \in record.refs /\ linked' = [linked EXCEPT ![r.episode] = @ \cup {r}]
    BY <2>1
  <2>3. disk' = disk /\ pc' = pc /\ pc[c] = "idle"
    BY <1>K DEF RepeatLink
  <2>4. LoadRecord(r.episode) = {record} /\ r.episode \in Episodes
    BY <1>T, <2>2 DEF LoadRecord, Document
  <2>5. \A d \in Episodes : \A x \in LoadRecord(d) : linked'[d] \subseteq x.refs
    BY <1>T, <2>2, <2>4 DEF LinkInv, LinkedKept
  <2>6. LinkedKept'
    BY <2>3, <2>5 DEF LinkedKept, LoadRecord, Document, Whole, Present
  <2>7. LinksFresh'
    BY <2>3 DEF LinksFresh, StateSteps, OneClient
  <2> QED BY <2>6, <2>7 DEF LinkInv
<1>M. ASSUME NEW c \in Clients, OpenState(c) PROVE LinkInv'
  <2>1. /\ pc[c] \in StateSteps /\ disk' = With(StateOf(call[c].episode), Empty)
        /\ Goes(c, "fillState", call[c]) /\ linked' = linked
    BY <1>M DEF OpenState, Open, StateSteps
  <2> QED BY <1>E, <2>1, LinkMove
<1>N. ASSUME NEW c \in Clients, FillState(c) PROVE LinkInv'
  <2>1. PICK e : e = call[c].episode
    OBVIOUS
  <2>2. PICK v \in Filled(StateOf(e), call[c].record) : disk' = With(StateOf(e), v)
    BY <1>N, <2>1 DEF FillState
  <2>3. /\ pc[c] = "fillState" /\ Goes(c, "idle", NoCall)
        /\ linked' = [linked EXCEPT ![e] = @ \cup call[c].link]
    BY <1>N, <2>1 DEF FillState, Ends
  <2> QED BY <2>1, <2>2, <2>3, FilledIs, LinkWrite
<1>D. ASSUME NEW c \in Clients, Die(c) PROVE LinkInv'
  <2>1. Goes(c, "idle", NoCall) /\ linked' = linked
    BY <1>D DEF Die, Ends
  <2>2. "idle" \notin StateSteps
    BY DEF StateSteps
  <2>3. CASE disk' = disk
    BY <2>1, <2>2, <2>3, LinkMove
  <2>4. CASE \E w \in Writing(c) : \E v \in {Torn, w[2]} : disk' = With(w[1], v)
    <3>1. PICK w \in Writing(c) : \E v \in {Torn, w[2]} : disk' = With(w[1], v)
      BY <2>4
    <3>2. PICK v \in {Torn, w[2]} : disk' = With(w[1], v)
      BY <3>1
    <3>3. CASE pc[c] = "fillState" /\ w = <<StateOf(call[c].episode), call[c].record>>
      <4>1. PICK e : e = call[c].episode
        OBVIOUS
      <4>2. disk' = With(StateOf(e), v) /\ (v = call[c].record \/ v = Torn)
        BY <3>2, <3>3, <4>1
      <4> QED BY <2>1, <3>3, <4>1, <4>2, LinkWrite
    <3>4. CASE pc[c] # "fillState"
      <4>1. \A e \in Episodes : w[1] # StateOf(e)
        BY <3>4, WritingIs, PathsDiffer DEF ObjectPath
      <4> QED BY <2>1, <2>2, <3>2, <4>1, LinkMove
    <3> QED BY <3>3, <3>4, WritingIs
  <2> QED BY <1>D, <2>3, <2>4 DEF Die
<1>U. CASE UNCHANGED vars
  BY <1>U DEF vars, LinkInv, LinkedKept, LinksFresh, LoadRecord, Document, Whole, Present
<1> QED
  BY <1>R, <1>B, <1>P, <1>X, <1>V, <1>L, <1>K, <1>M, <1>N, <1>D, <1>U
     DEF Next, PutArtifact, KeepEpisode

\* With one client at a time, a confirmed link is in every record that can be read,
\* wherever calls died and writes failed: a record that is unreadable is never taken
\* for one that does not exist.
THEOREM LinkedCorrect == ASSUME OneClient PROVE Spec => []LinkedStay
<1>1. LinkInv => LinkedStay
  BY DEF LinkInv, LinkedKept, LinkedStay, LoadRecord, Document, Whole
<1> QED BY TypeInit, TypeStep, LinkInit, LinkStep, <1>1, PTL DEF Spec
=============================================================================
