------------------------------- MODULE Vector -------------------------------
(***************************************************************************)
(* The growing arrays of libk/vector.c, which hold the pages of objects    *)
(* and the files of processes: tables of entries, under as many levels of  *)
(* tables as the largest index asks for.                                   *)
(***************************************************************************)
EXTENDS Integers, Sequences

CONSTANTS
  Indices,   \* the indices in use, naturals
  Values,    \* what tells the data stored under one index apart
  ENTRIES,   \* VECTOR_TABLE_ENTRIES
  Careful,   \* TRUE: callers keep to the indices that Supported names
  NULL

VARIABLES
  table,  \* v->table: a level, and entries that are tables or data
  stray,  \* an access was outside of every table
  held,   \* history: what callers have put under each index
  call,   \* the last call
  ret     \* the data it returned or walked over, in order

vars == <<table, stray, held, call, ret>>

vector_table_new(level) == [level |-> level, d |-> [i \in 0..ENTRIES - 1 |-> NULL]]

Init ==
  /\ table = vector_table_new(0)
  /\ stray = FALSE
  /\ held = [i \in Indices |-> NULL]
  /\ call = <<>> /\ ret = <<>>

\* The places of index i in the tables from t down; none when i is beyond t, or a
\* table is missing and is not to be created
RECURSIVE vector_entry_get(_, _, _)
vector_entry_get(t, i, create) ==
  LET size  == ENTRIES ^ t.level
      index == i \div size
      next  == IF t.d[index] = NULL THEN vector_table_new(t.level - 1) ELSE t.d[index]
      below == vector_entry_get(next, i % size, create)
  IN  IF t.level = 0 THEN <<i>>
      ELSE IF ENTRIES <= index \/ (t.d[index] = NULL /\ ~create) THEN <<>>
      ELSE IF below = <<>> THEN <<>> ELSE <<index>> \o below

\* Faulty variant: the old table becomes the last entry of the new one
Grown_last(t) == [vector_table_new(t.level + 1) EXCEPT !.d[ENTRIES - 1] = t]

\* t as the first entry of a new table
Grown(t) == [vector_table_new(t.level + 1) EXCEPT !.d[0] = t]

RECURSIVE vector_checksize(_, _)
vector_checksize(t, i) ==
  IF ENTRIES ^ (t.level + 1) < i THEN vector_checksize(Grown(t), i) ELSE t

RECURSIVE ReadAt(_, _)
ReadAt(t, path) ==
  IF Len(path) = 1 THEN t.d[Head(path)]
  ELSE IF t.d[Head(path)] = NULL THEN NULL ELSE ReadAt(t.d[Head(path)], Tail(path))

\* t with d at a place; the tables on the way are made where they are missing
RECURSIVE WriteAt(_, _, _)
WriteAt(t, path, d) ==
  LET i    == Head(path)
      next == IF t.d[i] = NULL THEN vector_table_new(t.level - 1) ELSE t.d[i]
  IN  [t EXCEPT !.d[i] = IF Len(path) = 1 THEN d ELSE WriteAt(next, Tail(path), d)]

\* The place is in a table
Inside(path) == path # <<>> /\ \A j \in DOMAIN path : path[j] < ENTRIES

Answer(d) == IF d = NULL THEN <<>> ELSE <<d>>

Supported(i, t) == i < ENTRIES \/ t.level > 0

vector_put(i, d) ==
  LET t    == vector_checksize(table, i)
      path == vector_entry_get(t, i, TRUE)
  IN  /\ ~stray
      /\ Careful => i < ENTRIES ^ (t.level + 1)
      /\ \/ /\ Inside(path)
            /\ table' = WriteAt(t, path, d)
            /\ held' = [held EXCEPT ![i] = d]
            /\ call' = <<IF d = NULL THEN "remove" ELSE "put", i>> \o Answer(d)
            /\ ret' = Answer(ReadAt(t, path))
            /\ UNCHANGED stray
         \/ /\ ~Inside(path)   \* past the last entry of a table, or at address 0
            /\ table' = t
            /\ stray' = TRUE
            /\ UNCHANGED <<held, call, ret>>

\* The condition is not looked at
vector_get(i, cond) ==
  LET path == vector_entry_get(table, i, FALSE)
  IN  /\ ~stray
      /\ Careful => Supported(i, table) /\ cond = "EQ"
      /\ \/ /\ path = <<>> \/ Inside(path)
            /\ call' = <<"get", i, cond>>
            /\ ret' = IF path = <<>> THEN <<>> ELSE Answer(ReadAt(table, path))
            /\ UNCHANGED stray
         \/ /\ path # <<>> /\ ~Inside(path)
            /\ stray' = TRUE
            /\ UNCHANGED <<call, ret>>
      /\ UNCHANGED <<table, held>>

\* The calls vector_walk_table makes, for the entries from i on
RECURSIVE vector_walk_table(_, _, _)
vector_walk_table(t, base, i) ==
  IF i = ENTRIES THEN <<>>
  ELSE (CASE t.d[i] = NULL -> <<>>
          [] t.d[i] # NULL /\ t.level > 0 -> vector_walk_table(t.d[i], (base + i) * ENTRIES, 0)
          [] OTHER -> <<[index |-> base + i, data |-> t.d[i]]>>)
       \o vector_walk_table(t, base, i + 1)

vector_walk ==
  LET calls == vector_walk_table(table, 0, 0)
  IN  /\ ~stray
      /\ call' = <<"walk">> /\ ret' = [n \in DOMAIN calls |-> calls[n].data]
      /\ UNCHANGED <<table, stray, held>>

Next ==
  \/ \E i \in Indices :
       \/ \E v \in Values : vector_put(i, <<i, v>>)
       \/ vector_put(i, NULL)
       \/ \E cond \in {"LT", "LE", "EQ", "GE", "GT"} : vector_get(i, cond)
  \/ vector_walk

Spec == Init /\ [][Next]_vars

-----------------------------------------------------------------------------
RECURSIVE IsTable(_, _)
IsTable(t, level) ==
  /\ t.level = level
  /\ DOMAIN t.d = 0..ENTRIES - 1
  /\ \A i \in DOMAIN t.d :
       t.d[i] # NULL => IF level = 0 THEN t.d[i] \in Indices \X Values
                                     ELSE IsTable(t.d[i], level - 1)

\* Every table is one level above the tables it holds, and the lowest hold data.
TypeOK == IsTable(table, table.level) /\ stray \in BOOLEAN

\* The index a walk reports with the data is the one they were put under: the
\* arithmetic of vector_walk_table undoes the shifts of vector_entry_get.
WalkNamesIndices ==
  LET calls == vector_walk_table(table, 0, 0)
  IN  \A n \in DOMAIN calls : calls[n].index = calls[n].data[1]

\* An index always leads to the place its data were put in: growing the vector,
\* which moves every table one level down, loses nothing and moves nothing.
HoldsWhatWasPut ==
  \A i \in Indices : Supported(i, table) =>
    LET path == vector_entry_get(table, i, FALSE)
    IN  held[i] = IF path = <<>> THEN NULL ELSE ReadAt(table, path)

\* "Extend the table as necessary": no put and no get reaches outside the tables.
NoStrayAccess == ~stray
=============================================================================
