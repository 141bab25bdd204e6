----------------------------- MODULE LocalStore -----------------------------
(***************************************************************************)
(* The file system artifact store (internal/storage/store.go).             *)
(*                                                                         *)
(* disk is a function from the paths that exist to their contents. A hash  *)
(* is the content it was computed from. os.WriteFile first truncates the   *)
(* file (Empty), then fills it; a write that fails or whose process dies   *)
(* in between leaves Empty, Torn or the whole content behind. Neither      *)
(* Empty nor Torn is a JSON document, and neither has the hash of an       *)
(* artifact. A call that is refused before it writes is no step, and so is *)
(* GetArtifact, ListArtifacts or GetEpisode, which only read.              *)
(***************************************************************************)
EXTENDS Naturals

CONSTANTS
    Clients,    \* concurrent users of one store root
    Episodes, Names, Contents, States,
    Backlog,    \* the state AddArtifactRef gives a new record
    Empty,      \* the content of a file that was truncated
    Torn,       \* the content of a file only part of which was written
    NoCall,     \* a client is between two calls
    MaxDeaths   \* bound on the calls that die or fail on a write

\* The paths of the three kinds of files.
Object(n, x) == <<"objects", n, x>>
IndexOf(e) == <<"artifacts.json", e>>
StateOf(e) == <<"state.json", e>>

NoRefs == [n \in {} |-> Empty]
Indexes == UNION {[N -> Contents] : N \in SUBSET Names}
Refs == [episode: Episodes, name: Names, hash: Contents]
Records == [state: States, refs: SUBSET Refs]

Paths == {Object(n, x) : n \in Names, x \in Contents}
           \cup {IndexOf(e) : e \in Episodes} \cup {StateOf(e) : e \in Episodes}
Unreadable == {Empty, Torn}

ASSUME StoreAssumption ==
    /\ Backlog \in States
    /\ Unreadable \cap Contents = {}
    /\ Unreadable \cap Indexes = {}
    /\ Unreadable \cap Records = {}
    /\ MaxDeaths \in Nat

VARIABLES
    disk,     \* the files under the store's root
    pc,       \* pc[c]: the step client c takes next
    call,     \* call[c]: the arguments of its call and what it has read
    told,     \* the references PutArtifact has returned
    linked,   \* linked[e]: references AddArtifactRef confirmed for e and no
              \* SaveEpisode of another list has dropped since
    deaths    \* how many calls died

vars == <<disk, pc, call, told, linked, deaths>>

Init ==
    /\ disk = [p \in {} |-> Empty]
    /\ pc = [c \in Clients |-> "idle"]
    /\ call = [c \in Clients |-> NoCall]
    /\ told = {}
    /\ linked = [e \in Episodes |-> {}]
    /\ deaths = 0
-----------------------------------------------------------------------------
Present(p) == p \in DOMAIN disk
Whole(p) == Present(p) /\ disk[p] \notin Unreadable
With(p, v) == [q \in DOMAIN disk \cup {p} |-> IF q = p THEN v ELSE disk[q]]

\* A bug: a document that cannot be read counts as one that does not exist.
DocumentOrNone(p, none) == IF Whole(p) THEN {disk[p]} ELSE {none}

\* The document at path p, none when it is missing, as a set that is empty when
\* reading it is an error.
Document(p, none) ==
    IF ~Present(p) THEN {none} ELSE IF Whole(p) THEN {disk[p]} ELSE {}

ReadIndex(e) == Document(IndexOf(e), NoRefs)

\* Client c goes to a step of its call k.
Goes(c, to, k) ==
    /\ pc' = [pc EXCEPT ![c] = to]
    /\ call' = [call EXCEPT ![c] = k]

Ends(c) == Goes(c, "idle", NoCall)

\* Client c truncates the file p, or completes the write of v to it. Two writers
\* that truncated the same file overwrite each other from its start: the later
\* one leaves its own content or, when that is shorter, a mixture.
Open(c, at, p, to) ==
    /\ pc[c] = at
    /\ disk' = With(p, Empty)
    /\ Goes(c, to, call[c])
    /\ UNCHANGED <<told, linked, deaths>>

Filled(p, v) == {v} \cup (IF disk[p] = Empty THEN {} ELSE {Torn})
-----------------------------------------------------------------------------
(***************************************************************************)
(* PutArtifact.                                                            *)
(***************************************************************************)
StartPut(c) ==
    /\ pc[c] = "idle"
    /\ \E r \in Refs : \E index \in ReadIndex(r.episode) :
         /\ r.name \notin DOMAIN index
         /\ Goes(c, "stat", [ref |-> r, index |-> index])
    /\ UNCHANGED <<disk, told, linked, deaths>>

\* A put of the content a name already has returns the existing reference; any
\* other content for it is refused.
RepeatPut(c) ==
    /\ pc[c] = "idle"
    /\ \E r \in Refs : \E index \in ReadIndex(r.episode) :
         /\ r.name \in DOMAIN index /\ index[r.name] = r.hash
         /\ told' = told \cup {r}
    /\ UNCHANGED <<disk, pc, call, linked, deaths>>

\* A bug: the content takes the place of the name.
ObjectPathSwapped(c) == Object(call[c].ref.hash, call[c].ref.name)

ObjectPath(c) == Object(call[c].ref.name, call[c].ref.hash)

\* A bug: an object that does not exist is not written.
StatObjectLater(c) ==
    /\ pc[c] = "stat"
    /\ Goes(c, "openIndex", call[c])
    /\ UNCHANGED <<disk, told, linked, deaths>>

\* writeObject leaves any existing file alone.
StatObject(c) ==
    /\ pc[c] = "stat"
    /\ Goes(c, IF Present(ObjectPath(c)) THEN "openIndex" ELSE "openObject", call[c])
    /\ UNCHANGED <<disk, told, linked, deaths>>

\* A bug: the content is never flushed.
OpenObjectUnflushed(c) == Open(c, "openObject", ObjectPath(c), "openIndex")

OpenObject(c) == Open(c, "openObject", ObjectPath(c), "fillObject")

\* Every writer of this path writes the same bytes.
FillObject(c) ==
    /\ pc[c] = "fillObject"
    /\ disk' = With(ObjectPath(c), call[c].ref.hash)
    /\ Goes(c, "openIndex", call[c])
    /\ UNCHANGED <<told, linked, deaths>>

OpenIndex(c) == Open(c, "openIndex", IndexOf(call[c].ref.episode), "fillIndex")

\* A bug: the references that were read are dropped.
NewIndexAlone(c) == [n \in {call[c].ref.name} |-> call[c].ref.hash]

\* The index that was read, with the new reference.
NewIndex(c) ==
    LET r == call[c].ref IN
    [n \in DOMAIN call[c].index \cup {r.name} |->
        IF n = r.name THEN r.hash ELSE call[c].index[n]]

FillIndex(c) ==
    /\ pc[c] = "fillIndex"
    /\ \E v \in Filled(IndexOf(call[c].ref.episode), NewIndex(c)) :
         disk' = With(IndexOf(call[c].ref.episode), v)
    /\ told' = told \cup {call[c].ref}
    /\ Ends(c)
    /\ UNCHANGED <<linked, deaths>>
-----------------------------------------------------------------------------
(***************************************************************************)
(* SaveEpisode and AddArtifactRef.                                         *)
(***************************************************************************)
NewRecord == [state |-> Backlog, refs |-> {}]

\* The record a caller of GetEpisode, such as AddArtifactRef, starts from.
LoadRecord(e) == Document(StateOf(e), NewRecord)

\* A record saved by a caller keeps the references it loaded, or has none.
StartSave(c) ==
    /\ pc[c] = "idle"
    /\ \E e \in Episodes, s \in States :
         \E R \in {{}} \cup {record.refs : record \in LoadRecord(e)} :
           /\ Goes(c, "openState",
                   [episode |-> e, record |-> [state |-> s, refs |-> R], link |-> {}])
           /\ linked' = [linked EXCEPT ![e] = @ \cap R]
    /\ UNCHANGED <<disk, told, deaths>>

StartLink(c) ==
    /\ pc[c] = "idle"
    /\ \E r \in told : \E record \in LoadRecord(r.episode) :
         /\ r \notin record.refs
         /\ Goes(c, "openState", [episode |-> r.episode, link |-> {r},
                                 record |-> [record EXCEPT !.refs = @ \cup {r}]])
    /\ UNCHANGED <<disk, told, linked, deaths>>

\* A reference the record already has is confirmed.
RepeatLink(c) ==
    /\ pc[c] = "idle"
    /\ \E r \in told : \E record \in LoadRecord(r.episode) :
         /\ r \in record.refs
         /\ linked' = [linked EXCEPT ![r.episode] = @ \cup {r}]
    /\ UNCHANGED <<disk, pc, call, told, deaths>>

OpenState(c) == Open(c, "openState", StateOf(call[c].episode), "fillState")

FillState(c) ==
    /\ pc[c] = "fillState"
    /\ \E v \in Filled(StateOf(call[c].episode), call[c].record) :
         disk' = With(StateOf(call[c].episode), v)
    /\ linked' = [linked EXCEPT ![call[c].episode] = @ \cup call[c].link]
    /\ Ends(c)
    /\ UNCHANGED <<told, deaths>>
-----------------------------------------------------------------------------
\* The writes that client c may be in the middle of: paths and whole contents.
Writing(c) ==
    CASE pc[c] = "fillObject" -> {<<ObjectPath(c), call[c].ref.hash>>}
      [] pc[c] = "fillIndex" -> {<<IndexOf(call[c].ref.episode), NewIndex(c)>>}
      [] pc[c] = "fillState" -> {<<StateOf(call[c].episode), call[c].record>>}
      [] OTHER -> {}

\* The process dies, or a write fails and the call returns its error.
Die(c) ==
    /\ pc[c] # "idle" /\ deaths < MaxDeaths
    /\ deaths' = deaths + 1
    /\ Ends(c)
    /\ \/ UNCHANGED disk
       \/ \E w \in Writing(c) : \E v \in {Torn, w[2]} : disk' = With(w[1], v)
    /\ UNCHANGED <<told, linked>>

PutArtifact(c) ==
    \/ StartPut(c) \/ RepeatPut(c) \/ StatObject(c)
    \/ OpenObject(c) \/ FillObject(c) \/ OpenIndex(c) \/ FillIndex(c)

KeepEpisode(c) ==
    StartSave(c) \/ StartLink(c) \/ RepeatLink(c) \/ OpenState(c) \/ FillState(c)

Next == \E c \in Clients : PutArtifact(c) \/ KeepEpisode(c) \/ Die(c)

Spec == Init /\ [][Next]_vars
-----------------------------------------------------------------------------
(***************************************************************************)
(* Properties.                                                             *)
(***************************************************************************)
Steps == {"idle", "stat", "openObject", "fillObject", "openIndex", "fillIndex",
          "openState", "fillState"}

\* Every file holds content of its kind, or an unfinished write.
TypeOK ==
    /\ DOMAIN disk \subseteq Paths
    /\ \A n \in Names, x \in Contents :
         Present(Object(n, x)) => disk[Object(n, x)] \in {x} \cup Unreadable
    /\ \A e \in Episodes :
         /\ Present(IndexOf(e)) => disk[IndexOf(e)] \in Indexes \cup Unreadable
         /\ Present(StateOf(e)) => disk[StateOf(e)] \in Records \cup Unreadable
    /\ pc \in [Clients -> Steps]
    /\ DOMAIN call = Clients
    /\ told \subseteq Refs
    /\ linked \in [Episodes -> SUBSET Refs]
    /\ deaths \in 0 .. MaxDeaths

\* A reference that an index lists has its object on disk, and so has every
\* reference a caller was given, with calls interleaved in any way and dying
\* anywhere: GetArtifact never answers ErrNotFound for a listed reference
\* (PutArtifact writes the object before the index).
IndexBacked ==
    /\ \A e \in Episodes : Whole(IndexOf(e)) =>
         \A n \in DOMAIN disk[IndexOf(e)] : Present(Object(n, disk[IndexOf(e)][n]))
    /\ \A r \in told : Present(Object(r.name, r.hash))

\* No two references that callers were given differ in the hash of one name:
\* "changing content for an existing name is rejected", also after a write of
\* the index was cut short.
Immutable ==
    \A r, t \in told : r.episode = t.episode /\ r.name = t.name => r.hash = t.hash

\* With one client, an episode record that can be read still has every reference
\* AddArtifactRef confirmed since it was last saved without it.
LinkedStay ==
    \A e \in Episodes : Whole(StateOf(e)) => linked[e] \subseteq disk[StateOf(e)].refs

\* As long as no call dies, the object of a reference that a caller was given is
\* whole, or another client is just writing the same bytes to it.
ToldObjectWhole ==
    deaths = 0 => \A r \in told :
        \/ Whole(Object(r.name, r.hash))
        \/ \E c \in Clients : \E w \in Writing(c) : w[1] = Object(r.name, r.hash)

Quiet == \A c \in Clients : pc[c] = "idle"

\* Between calls, a reference that PutArtifact returned can be read: its object is
\* whole ("ArtifactRef is the durable reference returned by an ArtifactStore").
ToldReadable == Quiet => \A r \in told : Whole(Object(r.name, r.hash))
=============================================================================
