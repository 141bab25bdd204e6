--------------------- MODULE LocalStoreRefinementProofs ---------------------
(***************************************************************************)
(* With one client at a time, LocalStore implements ImmutableStore. The    *)
(* bindings of an episode are what Shown says: what the index in the       *)
(* middle of being rewritten was read from, or the index itself.           *)
(***************************************************************************)
EXTENDS LocalStoreRefinement, LocalStoreProofs

Shown(e) ==
    IF Rewriting(e) # {} THEN {call[c].index : c \in Rewriting(e)} ELSE ReadIndex(e)

ShownIs ==
    \A e \in Episodes :
        /\ Shown(e) = {} => Bound(e) = NoRefs /\ e \in Lost
        /\ \A index : Shown(e) = {index} => Bound(e) = index /\ e \notin Lost

LEMMA ShownBound == ShownIs
<1> SUFFICES ASSUME NEW e \in Episodes
             PROVE  /\ Shown(e) = {} => Bound(e) = NoRefs /\ e \in Lost
                    /\ \A index : Shown(e) = {index} => Bound(e) = index /\ e \notin Lost
  BY DEF ShownIs
<1>1. CASE Rewriting(e) # {}
  <2>1. (CHOOSE c \in Rewriting(e) : TRUE) \in Rewriting(e)
    BY <1>1
  <2>2. Bound(e) \in Shown(e)
    BY <1>1, <2>1 DEF Bound, Shown
  <2> QED BY <1>1, <2>2 DEF Lost
<1>2. CASE Rewriting(e) = {}
  BY <1>2 DEF Bound, Shown, Lost, ReadIndex, Document, Whole
<1> QED BY <1>1, <1>2

LEMMA ShownOnce ==
    ASSUME OneClient, NEW e \in Episodes
    PROVE  Shown(e) = {} \/ \E index : Shown(e) = {index}
<1>1. ASSUME NEW c \in Rewriting(e) PROVE Shown(e) = {call[c].index}
  <2>1. \A d \in Rewriting(e) : d = c
    BY <1>1 DEF Rewriting, OneClient
  <2> QED BY <1>1, <2>1 DEF Shown
<1>2. CASE Rewriting(e) = {}
  BY <1>2 DEF Shown, ReadIndex, Document
<1> QED BY <1>1, <1>2

(***************************************************************************)
(* The steps of the store without files, in these terms.                   *)
(***************************************************************************)
LEMMA ShownSame ==
    ASSUME OneClient, NEW e \in Episodes, Shown(e)' = Shown(e)
    PROVE  Bound(e)' = Bound(e) /\ (e \in Lost' <=> e \in Lost)
<1>1. ShownIs /\ ShownIs'
  BY ShownBound, PTL
<1> QED BY <1>1, ShownOnce DEF ShownIs

LEMMA Stutters ==
    ASSUME OneClient, \A e \in Episodes : Shown(e)' = Shown(e), told' = told
    PROVE  UNCHANGED Store!vars
<1>1. \A e \in Episodes : Bound(e)' = Bound(e) /\ (e \in Lost' <=> e \in Lost)
  BY ShownSame
<1>2. Lost \subseteq Episodes /\ Lost' \subseteq Episodes
  BY DEF Lost
<1>3. Lost' = Lost
  BY <1>1, <1>2
<1>4. [e \in Episodes |-> Bound(e)]' = [e \in Episodes |-> Bound(e)]
  BY <1>1
<1> QED BY <1>3, <1>4 DEF Store!vars

LEMMA Binding ==
    ASSUME OneClient, NEW r \in Refs, NEW index,
           Shown(r.episode) = {index}, r.name \notin DOMAIN index,
           Shown(r.episode)' = {[n \in DOMAIN index \cup {r.name} |->
                                   IF n = r.name THEN r.hash ELSE index[n]]},
           \A e \in Episodes : e # r.episode => Shown(e)' = Shown(e),
           told' \in {told, told \cup {r}}
    PROVE  Store!Bind(r)
<1>0. r.episode \in Episodes
  BY DEF Refs
<1>1. ShownIs /\ ShownIs'
  BY ShownBound, PTL
<1>2. /\ Bound(r.episode) = index /\ r.episode \notin Lost /\ r.episode \notin Lost'
      /\ Bound(r.episode)' = [n \in DOMAIN index \cup {r.name} |->
                                IF n = r.name THEN r.hash ELSE index[n]]
  BY <1>0, <1>1 DEF ShownIs
<1>3. \A e \in Episodes : e # r.episode => Bound(e)' = Bound(e) /\ (e \in Lost' <=> e \in Lost)
  BY ShownSame
<1>4. Lost \subseteq Episodes /\ Lost' \subseteq Episodes
  BY DEF Lost
<1>5. Lost' = Lost
  BY <1>2, <1>3, <1>4
<1>6. [e \in Episodes |-> Bound(e)]' =
        [[e \in Episodes |-> Bound(e)] EXCEPT ![r.episode] =
            [n \in DOMAIN index \cup {r.name} |-> IF n = r.name THEN r.hash ELSE index[n]]]
  BY <1>0, <1>2, <1>3
<1> QED BY <1>0, <1>2, <1>5, <1>6 DEF Store!Bind

LEMMA Telling ==
    ASSUME OneClient, NEW r \in Refs, NEW index, Shown(r.episode) = {index},
           r.name \in DOMAIN index, index[r.name] = r.hash, told' = told \cup {r},
           \A e \in Episodes : Shown(e)' = Shown(e)
    PROVE  Store!Tell(r)
<1>0. r.episode \in Episodes
  BY DEF Refs
<1>1. Bound(r.episode) = index /\ r.episode \notin Lost
  BY <1>0, ShownBound DEF ShownIs
<1>2. \A e \in Episodes : Bound(e)' = Bound(e) /\ (e \in Lost' <=> e \in Lost)
  BY ShownSame
<1>3. Lost \subseteq Episodes /\ Lost' \subseteq Episodes
  BY DEF Lost
<1>4. Lost' = Lost
  BY <1>2, <1>3
<1>5. [e \in Episodes |-> Bound(e)]' = [e \in Episodes |-> Bound(e)]
  BY <1>2
<1> QED BY <1>0, <1>1, <1>4, <1>5 DEF Store!Tell

LEMMA Losing ==
    ASSUME OneClient, NEW e \in Episodes, Shown(e)' = {}, told' = told,
           \A d \in Episodes : d # e => Shown(d)' = Shown(d)
    PROVE  Store!Lose(e)
<1>1. ShownIs'
  BY ShownBound, PTL
<1>2. Bound(e)' = NoRefs /\ e \in Lost'
  BY <1>1 DEF ShownIs, NoRefs
<1>3. \A d \in Episodes : d # e => Bound(d)' = Bound(d) /\ (d \in Lost' <=> d \in Lost)
  BY ShownSame
<1>4. Lost \subseteq Episodes /\ Lost' \subseteq Episodes
  BY DEF Lost
<1>5. Lost' = Lost \cup {e}
  BY <1>2, <1>3, <1>4
<1>6. NoRefs = [n \in {} |-> {}]
  BY DEF NoRefs
<1>7. [d \in Episodes |-> Bound(d)]' =
        [[d \in Episodes |-> Bound(d)] EXCEPT ![e] = [n \in {} |-> {}]]
  BY <1>2, <1>3, <1>6
<1> QED BY <1>5, <1>7 DEF Store!Lose
-----------------------------------------------------------------------------
(***************************************************************************)
(* The index that a put has read is the one it replaces: until the put     *)
(* opens it the file still reads so, and then it is empty until the put    *)
(* fills it. So a fill never mixes two contents.                           *)
(***************************************************************************)
PutsCurrent ==
    \A c \in Clients :
        /\ pc[c] \in PutSteps \ {"fillIndex"} =>
             ReadIndex(call[c].ref.episode) = {call[c].index}
        /\ pc[c] = "fillIndex" =>
             /\ Present(IndexOf(call[c].ref.episode))
             /\ disk[IndexOf(call[c].ref.episode)] = Empty

\* The only client moves on to a step for which its index still reads as it did.
LEMMA CurrentMove ==
    ASSUME OneClient, TypeInv, NEW c \in Clients, NEW to, NEW k, Goes(c, to, k),
           to # "fillIndex",
           to \in PutSteps => ReadIndex(k.ref.episode)' = {k.index}
    PROVE  PutsCurrent'
<1>1. pc'[c] = to /\ call'[c] = k /\ \A d \in Clients : d = c
  BY DEF Goes, TypeInv, TypeOK, OneClient
<1> QED BY <1>1 DEF PutsCurrent, ReadIndex, Document, Whole, Present

\* Outside of a rewriting, the bindings are what can be read.
LEMMA ShownRead ==
    ASSUME OneClient, TypeInv, NEW c \in Clients, NEW e \in Episodes
    PROVE  /\ pc[c] # "fillIndex" => Shown(e) = ReadIndex(e)
           /\ pc[c] = "fillIndex" /\ call[c].ref.episode = e => Shown(e) = {call[c].index}
           /\ pc[c] = "fillIndex" /\ call[c].ref.episode # e => Shown(e) = ReadIndex(e)
<1>1. \A d \in Clients : d = c
  BY DEF OneClient
<1>2. CASE pc[c] = "fillIndex" /\ call[c].ref.episode = e
  <2>1. Rewriting(e) = {c}
    BY <1>1, <1>2 DEF Rewriting
  <2> QED BY <1>2, <2>1 DEF Shown
<1>3. CASE ~(pc[c] = "fillIndex" /\ call[c].ref.episode = e)
  <2>1. Rewriting(e) = {}
    BY <1>1, <1>3 DEF Rewriting
  <2> QED BY <1>3, <2>1 DEF Shown
<1> QED BY <1>2, <1>3

\* A step outside of a rewriting that leaves every index as it was.
LEMMA ShownKept ==
    ASSUME OneClient, TypeInv, NEW c \in Clients, NEW to, NEW k, Goes(c, to, k),
           pc[c] # "fillIndex", to # "fillIndex",
           \A e \in Episodes : ReadIndex(e)' = ReadIndex(e)
    PROVE  \A e \in Episodes : Shown(e)' = Shown(e)
<1>1. pc'[c] = to /\ \A d \in Clients : d = c
  BY DEF Goes, TypeInv, TypeOK, OneClient
<1>2. \A e \in Episodes : Rewriting(e) = {}
  BY <1>1 DEF Rewriting
<1>3. \A e \in Episodes : Rewriting(e)' = {}
  BY <1>1 DEF Rewriting
<1> QED BY <1>2, <1>3 DEF Shown

\* Such a step that also tells nobody is a stutter of the store.
LEMMA KeptStutters ==
    ASSUME OneClient, TypeInv, NEW c \in Clients, NEW to, NEW k, Goes(c, to, k),
           pc[c] # "fillIndex", to # "fillIndex", told' = told,
           to \in PutSteps =>
             ReadIndex(k.ref.episode) = {k.index} /\ k.ref.episode \in Episodes,
           disk' = disk \/ \E p, v : disk' = With(p, v) /\ \A e \in Episodes : p # IndexOf(e)
    PROVE  PutsCurrent' /\ UNCHANGED Store!vars
<1>1. \A e \in Episodes : ReadIndex(e)' = ReadIndex(e)
  <2>1. CASE disk' = disk
    BY <2>1 DEF ReadIndex, Document, Whole, Present
  <2>2. CASE \E p, v : disk' = With(p, v) /\ \A e \in Episodes : p # IndexOf(e)
    BY <2>2, ReadsAfter
  <2> QED BY <2>1, <2>2
<1>2. \A e \in Episodes : Shown(e)' = Shown(e)
  BY <1>1, ShownKept
<1>3. to \in PutSteps => ReadIndex(k.ref.episode)' = {k.index}
  BY <1>1
<1>4. PutsCurrent'
  BY <1>3, CurrentMove
<1> QED BY <1>2, <1>4, Stutters

\* What the only client makes of the index that it rewrites: it binds, or the
\* bindings are lost.
LEMMA Rewritten ==
    ASSUME OneClient, TypeInv, PutsFresh, NEW c \in Clients, pc[c] = "fillIndex",
           Goes(c, "idle", NoCall), NEW r, r = call[c].ref,
           \/ /\ disk' = With(IndexOf(r.episode), NewIndex(c))
              /\ told' \in {told, told \cup {r}}
           \/ /\ disk' = With(IndexOf(r.episode), Torn)
              /\ told' = told
           \/ /\ disk' = disk /\ PutsCurrent
              /\ told' = told
    PROVE  PutsCurrent' /\ Store!Next
<1>0. r \in Refs /\ r.episode \in Episodes /\ call[c].index \in Indexes
  BY PutHolds DEF PutSteps
<1>1. pc'[c] = "idle" /\ \A d \in Clients : d = c
  BY DEF Goes, TypeInv, TypeOK, OneClient
<1>2. PutsCurrent'
  BY <1>1 DEF PutsCurrent, PutSteps
<1>3. \A e \in Episodes : Shown(e)' = ReadIndex(e)'
  <2>1. \A e \in Episodes : Rewriting(e)' = {}
    BY <1>1 DEF Rewriting
  <2> QED BY <2>1 DEF Shown
<1>4. \A e \in Episodes : e # r.episode => Shown(e) = ReadIndex(e)
  BY ShownRead
<1>5. Shown(r.episode) = {call[c].index}
  BY <1>0, ShownRead
<1>6. Empty \in Unreadable /\ Torn \in Unreadable
  BY DEF Unreadable
<1>7. \A e \in Episodes : e # r.episode => IndexOf(e) # IndexOf(r.episode)
  BY PathsDiffer
<1>8. CASE disk' = With(IndexOf(r.episode), NewIndex(c)) /\ told' \in {told, told \cup {r}}
  <2>1. PICK index : index = call[c].index
    OBVIOUS
  <2>2. PICK new : new = NewIndex(c)
    OBVIOUS
  <2>3. new \notin Unreadable
    <3>1. new \in Indexes
      BY <2>2, NewIndexTyped DEF PutSteps
    <3> QED BY <3>1, StoreAssumption
  <2>4. ReadIndex(r.episode)' = {new}
    BY <1>0, <1>8, <2>2, <2>3, ReadsAfter
  <2>5. \A e \in Episodes : e # r.episode => Shown(e)' = Shown(e)
    BY <1>3, <1>4, <1>7, <1>8, ReadsAfter
  <2>6. r.name \notin DOMAIN index
    BY <2>1 DEF PutsFresh, PutSteps
  <2>7. new = [n \in DOMAIN index \cup {r.name} |-> IF n = r.name THEN r.hash ELSE index[n]]
    BY <2>1, <2>2 DEF NewIndex
  <2>8. Shown(r.episode) = {index} /\ Shown(r.episode)' = {new}
    BY <1>0, <1>3, <1>5, <2>1, <2>4
  <2>9. Store!Bind(r)
    BY <1>0, <1>8, <2>5, <2>6, <2>7, <2>8, Binding
  <2> QED BY <1>0, <1>2, <2>9 DEF Store!Next, Store!Refs, Refs
<1>9. CASE \/ disk' = With(IndexOf(r.episode), Torn) /\ told' = told
           \/ disk' = disk /\ PutsCurrent /\ told' = told
  <2>1. /\ ReadIndex(r.episode)' = {}
        /\ \A e \in Episodes : e # r.episode => ReadIndex(e)' = ReadIndex(e)
    <3>1. CASE disk' = With(IndexOf(r.episode), Torn)
      BY <1>0, <1>6, <1>7, <3>1, ReadsAfter
    <3>2. CASE disk' = disk /\ PutsCurrent
      <4>1. Present(IndexOf(r.episode)) /\ disk[IndexOf(r.episode)] = Empty
        BY <3>2 DEF PutsCurrent
      <4>2. IndexOf(r.episode) \in DOMAIN disk' /\ disk'[IndexOf(r.episode)] \in Unreadable
        BY <1>6, <3>2, <4>1 DEF Present
      <4>3. ReadIndex(r.episode)' = {}
        BY <4>2 DEF ReadIndex, Document, Whole, Present
      <4>4. \A e \in Episodes : ReadIndex(e)' = ReadIndex(e)
        BY <3>2 DEF ReadIndex, Document, Whole, Present
      <4> QED BY <4>3, <4>4
    <3> QED BY <1>9, <3>1, <3>2
  <2>2. Shown(r.episode)' = {} /\ \A e \in Episodes : e # r.episode => Shown(e)' = Shown(e)
    BY <1>0, <1>3, <1>4, <2>1
  <2>3. Store!Lose(r.episode)
    BY <1>0, <1>9, <2>2, Losing
  <2> QED BY <1>0, <1>2, <2>3 DEF Store!Next
<1> QED BY <1>8, <1>9

LEMMA StoreStep ==
    ASSUME OneClient
    PROVE  TypeInv /\ BoundInv /\ PutsCurrent /\ [Next]_vars
             => PutsCurrent' /\ [Store!Next]_(Store!vars)
<1> SUFFICES ASSUME TypeInv, BoundInv, PutsCurrent, [Next]_vars
             PROVE  PutsCurrent' /\ [Store!Next]_(Store!vars)
  OBVIOUS
<1>C. ASSUME NEW c \in Clients, pc[c] \in PutSteps \ {"fillIndex"}
      PROVE  /\ ReadIndex(call[c].ref.episode) = {call[c].index}
             /\ call[c].ref.episode \in Episodes
  BY <1>C, PutHolds DEF PutsCurrent
<1>S. ASSUME NEW c \in Clients, StartPut(c)
      PROVE  PutsCurrent' /\ UNCHANGED Store!vars
  <2>1. PICK r \in Refs : \E index \in ReadIndex(r.episode) :
               Goes(c, "stat", [ref |-> r, index |-> index])
    BY <1>S DEF StartPut
  <2>2. PICK index \in ReadIndex(r.episode) :
               Goes(c, "stat", [ref |-> r, index |-> index])
    BY <2>1
  <2> DEFINE k == [ref |-> r, index |-> index]
  <2>3. ReadIndex(k.ref.episode) = {k.index} /\ k.ref.episode \in Episodes
    BY <2>2 DEF ReadIndex, Document, Refs
  <2>4. /\ Goes(c, "stat", k) /\ pc[c] # "fillIndex" /\ disk' = disk /\ told' = told
    BY <1>S, <2>2 DEF StartPut
  <2> HIDE DEF k
  <2> QED BY <2>3, <2>4, KeptStutters
<1>R. ASSUME NEW c \in Clients, RepeatPut(c)
      PROVE  PutsCurrent' /\ Store!Next
  <2>1. PICK r \in Refs : \E index \in ReadIndex(r.episode) :
               r.name \in DOMAIN index /\ index[r.name] = r.hash /\ told' = told \cup {r}
    BY <1>R DEF RepeatPut
  <2>2. PICK index \in ReadIndex(r.episode) :
               r.name \in DOMAIN index /\ index[r.name] = r.hash /\ told' = told \cup {r}
    BY <2>1
  <2>3. disk' = disk /\ pc' = pc /\ call' = call /\ pc[c] = "idle"
    BY <1>R DEF RepeatPut
  <2>4. r.episode \in Episodes
    BY DEF Refs
  <2>5. Shown(r.episode) = {index}
    <3>1. ReadIndex(r.episode) = {index}
      BY <2>2 DEF ReadIndex, Document
    <3> QED BY <2>3, <2>4, <3>1, ShownRead
  <2>6. \A e \in Episodes : Shown(e)' = Shown(e)
    BY <2>3 DEF Shown, Rewriting, ReadIndex, Document, Whole, Present
  <2>7. Store!Tell(r)
    BY <2>2, <2>5, <2>6, Telling
  <2>8. PutsCurrent'
    BY <2>3 DEF PutsCurrent, ReadIndex, Document, Whole, Present
  <2> QED BY <2>7, <2>8 DEF Store!Next, Store!Refs, Refs
<1>O. ASSUME NEW c \in Clients, StatObject(c)
      PROVE  PutsCurrent' /\ UNCHANGED Store!vars
  <2> DEFINE to == IF Present(ObjectPath(c)) THEN "openIndex" ELSE "openObject"
  <2>1. /\ pc[c] \in PutSteps \ {"fillIndex"} /\ Goes(c, to, call[c])
        /\ disk' = disk /\ told' = told
    BY <1>O DEF StatObject, PutSteps
  <2>2. to # "fillIndex"
    OBVIOUS
  <2> HIDE DEF to
  <2> QED BY <1>C, <2>1, <2>2, KeptStutters
<1>P. ASSUME NEW c \in Clients, OpenObject(c) \/ FillObject(c)
      PROVE  PutsCurrent' /\ UNCHANGED Store!vars
  <2>1. PICK to, v : /\ to \in {"fillObject", "openIndex"} /\ Goes(c, to, call[c])
                     /\ disk' = With(ObjectPath(c), v)
    BY <1>P DEF OpenObject, Open, FillObject
  <2>2. pc[c] \in PutSteps \ {"fillIndex"} /\ told' = told
    BY <1>P DEF OpenObject, Open, FillObject, PutSteps
  <2>3. \A e \in Episodes : ObjectPath(c) # IndexOf(e)
    BY PathsDiffer DEF ObjectPath
  <2> QED BY <1>C, <2>1, <2>2, <2>3, KeptStutters
<1>I. ASSUME NEW c \in Clients, OpenIndex(c)
      PROVE  PutsCurrent' /\ UNCHANGED Store!vars
  <2>1. PICK r, index : r = call[c].ref /\ index = call[c].index
    OBVIOUS
  <2>2. /\ disk' = With(IndexOf(r.episode), Empty) /\ told' = told
        /\ Goes(c, "fillIndex", call[c]) /\ pc[c] = "openIndex"
    BY <1>I, <2>1 DEF OpenIndex, Open
  <2>3. /\ pc'[c] = "fillIndex" /\ call'[c].ref = r /\ call'[c].index = index
        /\ \A d \in Clients : d = c
    BY <2>1, <2>2 DEF Goes, TypeInv, TypeOK, OneClient
  <2>4. ReadIndex(r.episode) = {index} /\ r.episode \in Episodes
    BY <1>C, <2>1, <2>2 DEF PutSteps
  <2>5. IndexOf(r.episode) \in DOMAIN disk' /\ disk'[IndexOf(r.episode)] = Empty
    BY <2>2, DiskGrows
  <2>6. PutsCurrent'
    BY <2>3, <2>5 DEF PutsCurrent, Present
  <2>7. Rewriting(r.episode)' = {c} /\ \A e \in Episodes : e # r.episode => Rewriting(e)' = {}
    BY <2>3 DEF Rewriting
  <2>8. Shown(r.episode)' = {index}
    BY <2>3, <2>7 DEF Shown
  <2>9. Shown(r.episode) = {index}
    BY <2>2, <2>4, ShownRead
  <2>10. \A e \in Episodes : e # r.episode => Shown(e)' = Shown(e)
    <3>1. ASSUME NEW e \in Episodes, e # r.episode PROVE Shown(e)' = Shown(e)
      <4>1. IndexOf(r.episode) # IndexOf(e)
        BY <3>1, PathsDiffer
      <4>2. ReadIndex(e)' = ReadIndex(e)
        BY <2>2, <4>1, ReadsAfter
      <4>3. Shown(e) = ReadIndex(e)
        BY <2>2, ShownRead
      <4>4. Shown(e)' = ReadIndex(e)'
        BY <2>7, <3>1 DEF Shown
      <4> QED BY <4>2, <4>3, <4>4
    <3> QED BY <3>1
  <2> QED BY <2>2, <2>6, <2>8, <2>9, <2>10, Stutters
<1>X. ASSUME NEW c \in Clients, FillIndex(c)
      PROVE  PutsCurrent' /\ Store!Next
  <2>1. PICK r : r = call[c].ref
    OBVIOUS
  <2>2. pc[c] = "fillIndex" /\ Goes(c, "idle", NoCall) /\ told' = told \cup {r}
    BY <1>X, <2>1 DEF FillIndex, Ends
  <2>3. Filled(IndexOf(r.episode), NewIndex(c)) = {NewIndex(c)}
    BY <2>1, <2>2 DEF PutsCurrent, Filled
  <2>4. disk' = With(IndexOf(r.episode), NewIndex(c))
    BY <1>X, <2>1, <2>3 DEF FillIndex
  <2> QED BY <2>1, <2>2, <2>4, Rewritten DEF BoundInv
<1>M. ASSUME NEW c \in Clients, NEW to \in {"idle", "openState", "fillState"}, NEW k,
             Goes(c, to, k), told' = told, pc[c] # "fillIndex",
             disk' = disk \/ \E e, v : disk' = With(StateOf(e), v)
      PROVE  PutsCurrent' /\ UNCHANGED Store!vars
  <2>1. to \notin PutSteps /\ to # "fillIndex"
    BY DEF PutSteps
  <2>2. disk' = disk \/ \E p, v : disk' = With(p, v) /\ \A e \in Episodes : p # IndexOf(e)
    BY <1>M, PathsDiffer
  <2> QED BY <1>M, <2>1, <2>2, KeptStutters
<1>K. ASSUME NEW c \in Clients, RepeatLink(c)
      PROVE  PutsCurrent' /\ UNCHANGED Store!vars
  <2>1. disk' = disk /\ pc' = pc /\ call' = call /\ told' = told
    BY <1>K DEF RepeatLink
  <2>2. \A e \in Episodes : Shown(e)' = Shown(e)
    BY <2>1 DEF Shown, Rewriting, ReadIndex, Document, Whole, Present
  <2>3. PutsCurrent'
    BY <2>1 DEF PutsCurrent, ReadIndex, Document, Whole, Present
  <2> QED BY <2>1, <2>2, <2>3, Stutters
<1>N. ASSUME NEW c \in Clients, KeepEpisode(c)
      PROVE  PutsCurrent' /\ UNCHANGED Store!vars
  <2>1. CASE StartSave(c)
    BY <1>M, <2>1 DEF StartSave
  <2>2. CASE StartLink(c)
    BY <1>M, <2>2 DEF StartLink
  <2>3. CASE OpenState(c)
    BY <1>M, <2>3 DEF OpenState, Open
  <2>4. CASE FillState(c)
    BY <1>M, <2>4 DEF FillState, Ends
  <2> QED BY <1>K, <1>N, <2>1, <2>2, <2>3, <2>4 DEF KeepEpisode
<1>D. ASSUME NEW c \in Clients, Die(c)
      PROVE  PutsCurrent' /\ [Store!Next]_(Store!vars)
  <2>1. Goes(c, "idle", NoCall) /\ told' = told
    BY <1>D DEF Die, Ends
  <2>2. \/ disk' = disk
        \/ \E w \in Writing(c) : \E v \in {Torn, w[2]} : disk' = With(w[1], v)
    BY <1>D DEF Die
  <2>3. CASE pc[c] = "fillIndex"
    <3>1. PICK r : r = call[c].ref
      OBVIOUS
    <3>2. \A w \in Writing(c) : w[1] = IndexOf(r.episode) /\ w[2] = NewIndex(c)
      BY <2>3, <3>1, WritingIs
    <3>3. \/ disk' = disk
          \/ disk' = With(IndexOf(r.episode), NewIndex(c))
          \/ disk' = With(IndexOf(r.episode), Torn)
      BY <2>2, <3>2
    <3> QED BY <2>1, <2>3, <3>1, <3>3, Rewritten DEF BoundInv
  <2>4. CASE pc[c] # "fillIndex"
    <3>1. \A w \in Writing(c) : \A e \in Episodes : w[1] # IndexOf(e)
      BY <2>4, WritingIs, PathsDiffer DEF ObjectPath
    <3>2. disk' = disk \/ \E p, v : disk' = With(p, v) /\ \A e \in Episodes : p # IndexOf(e)
      BY <2>2, <3>1
    <3>3. "idle" \notin PutSteps /\ "idle" # "fillIndex"
      BY DEF PutSteps
    <3> QED BY <2>1, <2>4, <3>2, <3>3, KeptStutters
  <2> QED BY <2>3, <2>4
<1>U. CASE UNCHANGED vars
  <2>1. disk' = disk /\ pc' = pc /\ call' = call /\ told' = told
    BY <1>U DEF vars
  <2>2. \A e \in Episodes : Shown(e)' = Shown(e)
    BY <2>1 DEF Shown, Rewriting, ReadIndex, Document, Whole, Present
  <2>3. PutsCurrent'
    BY <2>1 DEF PutsCurrent, ReadIndex, Document, Whole, Present
  <2> QED BY <2>1, <2>2, <2>3, Stutters
<1> QED
  BY <1>S, <1>R, <1>O, <1>P, <1>I, <1>X, <1>N, <1>D, <1>U DEF Next, PutArtifact

LEMMA StoreInit == Init => Store!Init /\ PutsCurrent
<1> SUFFICES ASSUME Init PROVE Store!Init /\ PutsCurrent
  OBVIOUS
<1>1. \A e \in Episodes : ReadIndex(e) = {NoRefs} /\ Rewriting(e) = {}
  BY DEF Init, ReadIndex, Document, Present, Rewriting
<1>2. \A e \in Episodes : Shown(e) = {NoRefs}
  BY <1>1 DEF Shown
<1>3. \A e \in Episodes : Bound(e) = NoRefs /\ e \notin Lost
  BY <1>2, ShownBound DEF ShownIs
<1>4. NoRefs = [n \in {} |-> {}]
  BY DEF NoRefs
<1>5. [e \in Episodes |-> Bound(e)] = [e \in Episodes |-> [n \in {} |-> {}]]
  BY <1>3, <1>4
<1>6. Lost = {}
  BY <1>3 DEF Lost
<1>7. Store!Init
  BY <1>5, <1>6 DEF Store!Init, Init
<1>8. PutsCurrent
  BY DEF Init, PutsCurrent, PutSteps
<1> QED BY <1>7, <1>8

\* With one client at a time, wherever calls die and writes fail, a put binds its
\* name in one step or not at all, callers are told only bindings, and bindings
\* are lost only all together (PutArtifact, readIndex, writeIndex).
THEOREM StoreImplements == ASSUME OneClient PROVE Spec => ImplementsStore
BY TypeInit, TypeStep, BoundInit, BoundStep, StoreInit, StoreStep, PTL
   DEF Spec, ImplementsStore, Store!Spec
=============================================================================
