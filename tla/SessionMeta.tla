---------------------------- MODULE SessionMeta -----------------------------
(***************************************************************************)
(* sessionMetaStore: the names, notes and types that users give sessions,  *)
(* in a map and in a file that holds the whole map.  One session's entry   *)
(* is modelled, and writes for other sessions by what they do to the file. *)
(* The map is changed first; persistLocked may fail at any step before the *)
(* rename of its temporary file, and then the file is what it was.         *)
(***************************************************************************)
CONSTANTS
  Metas,   \* meta data a user may save
  NoMeta   \* no entry: none of Metas

VARIABLES
  items,     \* sessionMetaStore.items, at this session's key
  disk,      \* the same entry in the file
  attached   \* the store has a path: New falls back to one without when load fails

metaVars == <<items, disk, attached>>
Entries == Metas \cup {NoMeta}

TypeOK == items \in Entries /\ disk \in Entries /\ attached \in BOOLEAN

\* newSessionMetaStore, load.  An unreadable file leaves an empty store with no path.
Load ==
  \/ items' = disk /\ attached' = TRUE /\ UNCHANGED disk
  \/ items' = NoMeta /\ attached' = FALSE /\ UNCHANGED disk

Init ==
  /\ disk \in Entries
  /\ attached \in BOOLEAN
  /\ items = IF attached THEN disk ELSE NoMeta

\* persistLocked; without a path it does nothing and succeeds.
Persist(ok) ==
  /\ ok \/ attached
  /\ disk' = IF attached /\ ok THEN items' ELSE disk
  /\ UNCHANGED attached

\* Mutant: the file is written before the map is changed.
WriteOldMap(meta, ok) ==
  /\ items' = meta
  /\ ok \/ attached
  /\ disk' = IF attached /\ ok THEN items ELSE disk
  /\ UNCHANGED attached

\* Upsert, and Delete when meta is NoMeta (or Upsert with nothing in it).
Write(meta, ok) ==
  /\ items' = meta
  /\ Persist(ok)

\* Upsert or Delete for another session: the whole map goes to the file.
WriteOther(ok) ==
  /\ UNCHANGED items
  /\ Persist(ok)

Next ==
  \/ \E meta \in Entries, ok \in BOOLEAN : Write(meta, ok)
  \/ \E ok \in BOOLEAN : WriteOther(ok)
  \/ Load

Spec == Init /\ [][Next]_metaVars
=============================================================================
