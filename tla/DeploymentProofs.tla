-------------------------- MODULE DeploymentProofs --------------------------
(***************************************************************************)
(* What a start of the API leaves in the database, for any categories,     *)
(* terms and seeds, any older releases, any number of crashes and stops.   *)
(*                                                                         *)
(* First the sixteen migrations: what each creates and adds, that its way  *)
(* back undoes it, that the database takes both, that code written for a   *)
(* schema runs on every later one and the code of app/models/ on the last. *)
(* Then the rows and the steps of a boot. Then both: the tables are always *)
(* those of the revision, and no step of a start is refused.               *)
(***************************************************************************)
EXTENDS Deployment, NaturalsInduction, WellFoundedInduction, TLAPS

LEMMA SixteenRevisions == HeadRevision = 16
  BY DEF HeadRevision, Migrations

-----------------------------------------------------------------------------
(* Tables, and what a change does to them *)

\* A column is a record of a type and a kind, columns are a function to such records.
IsColumn(c) == c = [type |-> c.type, kind |-> c.kind]

IsColumns(columns) ==
  columns = [c \in DOMAIN columns |-> columns[c]] /\ \A c \in DOMAIN columns : IsColumn(columns[c])

\* A table is a record of columns, unique sets and references; a schema a function to tables.
IsTable(table) ==
  /\ table = [columns |-> table.columns, unique |-> table.unique, refs |-> table.refs]
  /\ IsColumns(table.columns)

IsSchema(s) == s = [t \in DOMAIN s |-> s[t]] /\ \A t \in DOMAIN s : IsTable(s[t])

\* The table with other columns.
With(table, columns) == [columns |-> columns, unique |-> table.unique, refs |-> table.refs]

\* Where f and g meet, f is taken.
LEMMA Joined ==
  ASSUME NEW f, NEW g
  PROVE  /\ DOMAIN (f ++ g) = DOMAIN f \cup DOMAIN g
         /\ \A x \in DOMAIN f : (f ++ g)[x] = f[x]
         /\ \A x \in DOMAIN g \ DOMAIN f : (f ++ g)[x] = g[x]
  BY DEF ++

LEMMA JoinedRight ==
  ASSUME NEW f, NEW g, NEW x, x \in DOMAIN g, x \notin DOMAIN f
  PROVE  (f ++ g)[x] = g[x]
  BY DEF ++

LEMMA JoinedLeft ==
  ASSUME NEW f, NEW g, NEW t, t \in DOMAIN f
  PROVE  (f ++ g)[t] = f[t]
  BY DEF ++

LEMMA JoinedDomains ==
  ASSUME NEW f, NEW g
  PROVE  DOMAIN (f ++ g) = DOMAIN f \cup DOMAIN g
  BY DEF ++

\* Columns joined are columns, and nothing joined to them leaves them as they are.
LEMMA JoinedColumns ==
  ASSUME NEW f, NEW g, IsColumns(f), IsColumns(g)
  PROVE  IsColumns(f ++ g)
  BY DEF ++, IsColumns

LEMMA JoinedNothing ==
  ASSUME NEW f, IsColumns(f)
  PROVE  f ++ <<>> = f
  BY DEF ++, IsColumns

\* What a change does to one table.
LEMMA OneTable ==
  ASSUME NEW s, NEW change, NEW t \in (DOMAIN s \cup DOMAIN change.create) \ Elements(change.drop),
         NEW table, table = (s ++ change.create)[t], IsTable(table)
  PROVE  /\ t \in DOMAIN Applied(s, change)
         /\ Applied(s, change)[t] = With(table, Changed(table.columns, change, t))
<1>1. /\ t \in DOMAIN Applied(s, change)
      /\ Applied(s, change)[t] = [table EXCEPT !.columns = Changed(table.columns, change, t)]
  BY Joined DEF Applied
<1>2. ASSUME NEW c PROVE [table EXCEPT !.columns = c] = With(table, c)
  BY DEF IsTable, With
<1> QED
  BY <1>1, <1>2

\* The tables after a change: those that were there or are created, without the dropped.
LEMMA AppliedTables ==
  ASSUME NEW s, NEW change
  PROVE  /\ DOMAIN Applied(s, change) = (DOMAIN s \cup DOMAIN change.create) \ Elements(change.drop)
         /\ Applied(s, change) = [t \in DOMAIN Applied(s, change) |-> Applied(s, change)[t]]
  BY Joined DEF Applied

LEMMA NoElements == Elements(<<>>) = {}
  BY DEF Elements

\* A change that only adds.
Adding(change) ==
  /\ change.drop = <<>> /\ change.remove = <<>> /\ change.retype = <<>>
  /\ IsSchema(change.create) /\ \A t \in DOMAIN change.add : IsColumns(change.add[t])

\* What such a change does to the columns of a table: it joins what it adds.
LEMMA AddedColumns ==
  ASSUME NEW change, Adding(change), NEW t, NEW columns, IsColumns(columns)
  PROVE  Changed(columns, change, t) = columns ++ At(change.add, t, <<>>)
<1>1. At(change.remove, t, {}) = {} /\ At(change.retype, t, <<>>) = <<>>
  BY DEF At, Adding
<1>2. [c \in DOMAIN columns \ At(change.remove, t, {}) |->
         IF c \in DOMAIN At(change.retype, t, <<>>)
         THEN [columns[c] EXCEPT !.type = change.retype[t][c]] ELSE columns[c]] = columns
  BY <1>1 DEF IsColumns
<1> QED
  BY <1>2 DEF Changed

\* A table that was there or is created gets the new columns and is otherwise as it was.
LEMMA AddedOne ==
  ASSUME NEW s, NEW change, Adding(change), NEW t \in DOMAIN s \cup DOMAIN change.create,
         NEW table, IsTable(table), table = (s ++ change.create)[t]
  PROVE  /\ Applied(s, change)[t] = With(table, table.columns ++ At(change.add, t, <<>>))
         /\ IsTable(Applied(s, change)[t])
         /\ t \notin DOMAIN change.add => Applied(s, change)[t] = table
<1>1. t \notin Elements(change.drop) /\ IsColumns(table.columns)
  BY NoElements DEF Adding, IsTable
<1>2. Applied(s, change)[t] = With(table, Changed(table.columns, change, t))
  BY <1>1, OneTable
<1>3. Changed(table.columns, change, t) = table.columns ++ At(change.add, t, <<>>)
  BY <1>1, AddedColumns
<1>4. IsColumns(<<>>)
  BY DEF IsColumns
<1>5. IsColumns(At(change.add, t, <<>>))
  BY <1>4 DEF At, Adding
<1>6. IsColumns(table.columns ++ At(change.add, t, <<>>))
  BY <1>1, <1>5, JoinedColumns
<1>7. t \notin DOMAIN change.add => At(change.add, t, <<>>) = <<>>
  BY DEF At
<1>8. table.columns ++ <<>> = table.columns
  BY <1>1, JoinedNothing
<1>9. ASSUME NEW columns, IsColumns(columns) PROVE IsTable(With(table, columns))
  BY <1>9 DEF IsTable, With
<1>10. With(table, table.columns) = table
  BY DEF IsTable, With
<1> QED
  BY <1>2, <1>3, <1>6, <1>7, <1>8, <1>9, <1>10

LEMMA AddedTable ==
  ASSUME NEW s, IsSchema(s), NEW change, Adding(change), NEW t \in DOMAIN s
  PROVE  /\ Applied(s, change)[t] = With(s[t], s[t].columns ++ At(change.add, t, <<>>))
         /\ IsTable(Applied(s, change)[t])
         /\ t \notin DOMAIN change.add => Applied(s, change)[t] = s[t]
<1>1. (s ++ change.create)[t] = s[t]
  BY Joined
<1>2. IsTable(s[t])
  BY DEF IsSchema
<1> QED
  BY <1>1, <1>2, AddedOne

LEMMA CreatedTable ==
  ASSUME NEW s, NEW change, Adding(change), NEW t \in DOMAIN change.create, t \notin DOMAIN s
  PROVE  /\ IsTable(Applied(s, change)[t])
         /\ t \notin DOMAIN change.add => Applied(s, change)[t] = change.create[t]
<1>1. (s ++ change.create)[t] = change.create[t]
  BY JoinedRight
<1>2. IsTable(change.create[t])
  BY DEF IsSchema, Adding
<1> QED
  BY <1>1, <1>2, AddedOne

\* A change that only adds leaves a schema, with the tables it creates.
LEMMA AddedSchema ==
  ASSUME NEW s, IsSchema(s), NEW change, Adding(change)
  PROVE  /\ IsSchema(Applied(s, change))
         /\ DOMAIN Applied(s, change) = DOMAIN s \cup DOMAIN change.create
<1>1. DOMAIN Applied(s, change) = DOMAIN s \cup DOMAIN change.create
  <2>1. Elements(change.drop) = {}
    BY NoElements DEF Adding
  <2>2. DOMAIN Applied(s, change) = (DOMAIN s \cup DOMAIN change.create) \ Elements(change.drop)
    BY AppliedTables
  <2> QED
    BY <2>1, <2>2
<1>2. Applied(s, change) = [t \in DOMAIN Applied(s, change) |-> Applied(s, change)[t]]
  BY AppliedTables
<1>3. \A t \in DOMAIN s \cup DOMAIN change.create : IsTable(Applied(s, change)[t])
  BY AddedTable, CreatedTable
<1> QED
  BY <1>1, <1>2, <1>3 DEF IsSchema

-----------------------------------------------------------------------------
(* Back again *)

\* A change that only takes away.
Removing(change) ==
  /\ change.create = <<>> /\ change.add = <<>> /\ change.retype = <<>>

\* The columns without those that are gone.
Without(columns, gone) == [c \in DOMAIN columns \ gone |-> columns[c]]

\* A change that only takes away leaves the other tables without the removed columns.
LEMMA Removed ==
  ASSUME NEW s, IsSchema(s), NEW change, Removing(change)
  PROVE  /\ DOMAIN Applied(s, change) = DOMAIN s \ Elements(change.drop)
         /\ \A t \in DOMAIN s \ Elements(change.drop) :
              Applied(s, change)[t] = With(s[t], Without(s[t].columns, At(change.remove, t, {})))
<1>1. DOMAIN change.create = {}
  BY DEF Removing
<1>2. DOMAIN Applied(s, change) = DOMAIN s \ Elements(change.drop)
  <2>1. DOMAIN Applied(s, change) = (DOMAIN s \cup DOMAIN change.create) \ Elements(change.drop)
    BY AppliedTables
  <2> QED
    BY <1>1, <2>1
<1>3. ASSUME NEW t \in DOMAIN s \ Elements(change.drop), NEW table, table = s[t],
             NEW columns, columns = table.columns
      PROVE  Applied(s, change)[t] =
               With(table, Without(columns, At(change.remove, t, {})))
  <2>1. (s ++ change.create)[t] = table
    BY <1>3, Joined
  <2>2. IsTable(table)
    BY <1>3 DEF IsSchema
  <2>3. Applied(s, change)[t] = With(table, Changed(columns, change, t))
    BY <1>3, <2>1, <2>2, OneTable
  <2>4. At(change.retype, t, <<>>) = <<>> /\ At(change.add, t, <<>>) = <<>>
    BY DEF At, Removing
  <2> DEFINE kept == [c \in DOMAIN columns \ At(change.remove, t, {}) |-> columns[c]]
  <2>5. [c \in DOMAIN columns \ At(change.remove, t, {}) |->
           IF c \in DOMAIN At(change.retype, t, <<>>)
           THEN [columns[c] EXCEPT !.type = change.retype[t][c]] ELSE columns[c]] = kept
    BY <2>4
  <2>6. Changed(columns, change, t) = kept ++ <<>>
    <3> HIDE DEF kept
    <3> QED
      BY <2>4, <2>5 DEF Changed
  <2>7. IsColumns(kept)
    BY <1>3, <2>2 DEF IsTable, IsColumns
  <2> HIDE DEF kept
  <2>8. Changed(columns, change, t) = kept
    BY <2>6, <2>7, JoinedNothing
  <2> QED
    BY <2>3, <2>8 DEF kept, Without
<1> QED
  BY <1>2, <1>3

\* The way back: what was created is dropped, what was added is removed.
Undoes(down, up) ==
  /\ Removing(down) /\ Elements(down.drop) = DOMAIN up.create /\ DOMAIN down.remove = DOMAIN up.add
  /\ \A t \in DOMAIN up.add : down.remove[t] = DOMAIN up.add[t]

\* What it adds is new.
AddsNew(s, change) ==
  /\ DOMAIN change.create \cap DOMAIN s = {} /\ DOMAIN change.add \subseteq DOMAIN s
  /\ \A t \in DOMAIN change.add : DOMAIN change.add[t] \cap DOMAIN s[t].columns = {}

\* New columns taken away again.
LEMMA JoinedAndTaken ==
  ASSUME NEW f, NEW g, IsColumns(f), DOMAIN g \cap DOMAIN f = {}
  PROVE  Without(f ++ g, DOMAIN g) = f
<1>1. DOMAIN (f ++ g) \ DOMAIN g = DOMAIN f
  <2>1. DOMAIN (f ++ g) = DOMAIN f \cup DOMAIN g
    BY Joined
  <2> QED
    BY <2>1
<1>2. \A c \in DOMAIN f : (f ++ g)[c] = f[c]
  BY Joined
<1>3. f = [c \in DOMAIN f |-> f[c]]
  BY DEF IsColumns
<1> QED
  BY <1>1, <1>2, <1>3 DEF Without

\* What a change adds that was not there, the way back takes away: the schema is the old one.
LEMMA Undone ==
  ASSUME NEW s, IsSchema(s), NEW up, Adding(up), AddsNew(s, up), NEW down, Undoes(down, up)
  PROVE  Applied(Applied(s, up), down) = s
<1> DEFINE u == Applied(s, up)
<1>1. /\ IsSchema(u) /\ DOMAIN u = DOMAIN s \cup DOMAIN up.create
      /\ \A t \in DOMAIN s : u[t] = With(s[t], s[t].columns ++ At(up.add, t, <<>>))
  <2>1. IsSchema(u) /\ DOMAIN u = DOMAIN s \cup DOMAIN up.create
    BY AddedSchema
  <2>2. ASSUME NEW t \in DOMAIN s PROVE u[t] = With(s[t], s[t].columns ++ At(up.add, t, <<>>))
    BY AddedTable
  <2> QED
    BY <2>1, <2>2
<1> HIDE DEF u
<1>2. Removing(down) /\ Elements(down.drop) = DOMAIN up.create
  BY DEF Undoes
<1>3. DOMAIN Applied(u, down) = DOMAIN s
  <2>1. DOMAIN Applied(u, down) = DOMAIN u \ Elements(down.drop)
    BY <1>1, <1>2, Removed
  <2> QED
    BY <1>1, <1>2, <2>1 DEF AddsNew
<1>4. ASSUME NEW t \in DOMAIN s, NEW table, table = s[t], NEW columns, columns = table.columns
      PROVE  Applied(u, down)[t] = table
  <2>1. t \in DOMAIN u \ Elements(down.drop)
    BY <1>1, <1>2 DEF AddsNew
  <2>3. IsTable(table) /\ IsColumns(columns)
    BY <1>4 DEF IsSchema, IsTable
  <2> DEFINE added == At(up.add, t, <<>>)
  <2>4. u[t] = With(table, columns ++ added)
    BY <1>1, <1>4
  <2>5. At(down.remove, t, {}) = DOMAIN added
    BY DEF At, Undoes
  <2>6. DOMAIN added \cap DOMAIN columns = {}
    BY <1>4 DEF At, AddsNew
  <2> HIDE DEF added
  <2> DEFINE all == columns ++ added
  <2>7. u[t].columns = all /\ u[t].unique = table.unique /\ u[t].refs = table.refs
    BY <2>4 DEF With
  <2> HIDE DEF all
  <2>2. Applied(u, down)[t] =
          With(u[t], Without(u[t].columns, At(down.remove, t, {})))
    BY <1>1, <1>2, <2>1, Removed
  <2>8. Without(all, DOMAIN added) = columns
    BY <2>3, <2>6, JoinedAndTaken DEF all
  <2>9. Applied(u, down)[t] = With(u[t], columns)
    BY <2>2, <2>5, <2>7, <2>8
  <2> QED
    BY <1>4, <2>3, <2>7, <2>9 DEF With, IsTable
<1>5. Applied(u, down) = [t \in DOMAIN Applied(u, down) |-> Applied(u, down)[t]]
  BY AppliedTables
<1>6. s = [t \in DOMAIN s |-> s[t]]
  BY DEF IsSchema
<1>7. Applied(u, down) = s
  BY <1>3, <1>4, <1>5, <1>6
<1> QED
  BY <1>7 DEF u

-----------------------------------------------------------------------------
(* Other types *)

\* The columns with another type for some of them.
Typed(columns, names, type) ==
  [c \in DOMAIN columns |-> IF c \in names THEN [type |-> type, kind |-> columns[c].kind] ELSE columns[c]]

LEMMA TypedColumns ==
  ASSUME NEW columns, IsColumns(columns), NEW names, NEW type
  PROVE  /\ IsColumns(Typed(columns, names, type)) /\ DOMAIN Typed(columns, names, type) = DOMAIN columns
         /\ \A c \in DOMAIN columns : Typed(columns, names, type)[c].kind = columns[c].kind
         /\ \A c \in DOMAIN columns :
              Typed(columns, names, type)[c].type = IF c \in names THEN type ELSE columns[c].type
  BY DEF Typed, IsColumns, IsColumn

\* What a change of types does to the columns of a table, and to a schema.
LEMMA RetypedColumns ==
  ASSUME NEW columns, IsColumns(columns), NEW table, NEW names, NEW type, NEW t
  PROVE  Changed(columns, Retypes(table, names, type), t) =
           IF t = table THEN Typed(columns, names, type) ELSE columns
<1> DEFINE change == Retypes(table, names, type)
<1>1. /\ change.remove = <<>> /\ change.add = <<>>
      /\ change.retype = [u \in {table} |-> [c \in names |-> type]]
  BY DEF Retypes, NoChange
<1> HIDE DEF change
<1>2. At(change.remove, t, {}) = {} /\ At(change.add, t, <<>>) = <<>>
  BY <1>1 DEF At
<1>3. CASE t = table
  <2>1. DOMAIN At(change.retype, t, <<>>) = names /\ \A c \in names : change.retype[t][c] = type
    BY <1>1, <1>3 DEF At
  <2>2. \A c \in DOMAIN columns :
          [columns[c] EXCEPT !.type = type] = [type |-> type, kind |-> columns[c].kind]
    BY DEF IsColumns, IsColumn
  <2>3. [c \in DOMAIN columns \ At(change.remove, t, {}) |->
           IF c \in DOMAIN At(change.retype, t, <<>>)
           THEN [columns[c] EXCEPT !.type = change.retype[t][c]] ELSE columns[c]] = Typed(columns, names, type)
    BY <1>2, <2>1, <2>2 DEF Typed
  <2>4. Changed(columns, change, t) = Typed(columns, names, type) ++ <<>>
    BY <1>2, <2>3 DEF Changed
  <2> QED
    BY <1>3, <2>4, TypedColumns, JoinedNothing DEF change
<1>4. CASE t # table
  <2>1. DOMAIN At(change.retype, t, <<>>) = {}
    BY <1>1, <1>4 DEF At
  <2>2. [c \in DOMAIN columns \ At(change.remove, t, {}) |->
           IF c \in DOMAIN At(change.retype, t, <<>>)
           THEN [columns[c] EXCEPT !.type = change.retype[t][c]] ELSE columns[c]] = columns
    BY <1>2, <2>1 DEF IsColumns
  <2>3. Changed(columns, change, t) = columns ++ <<>>
    BY <1>2, <2>2 DEF Changed
  <2> QED
    BY <1>4, <2>3, JoinedNothing DEF change
<1> QED
  BY <1>3, <1>4

LEMMA Retyped ==
  ASSUME NEW s, IsSchema(s), NEW table, NEW names, NEW type
  PROVE  /\ IsSchema(Applied(s, Retypes(table, names, type)))
         /\ DOMAIN Applied(s, Retypes(table, names, type)) = DOMAIN s
         /\ \A t \in DOMAIN s \ {table} : Applied(s, Retypes(table, names, type))[t] = s[t]
         /\ table \in DOMAIN s => Applied(s, Retypes(table, names, type))[table] =
              With(s[table], Typed(s[table].columns, names, type))
<1> DEFINE change == Retypes(table, names, type)
           u == Applied(s, change)
<1>1. DOMAIN change.create = {} /\ Elements(change.drop) = {}
  BY NoElements DEF Retypes, NoChange
<1>2. DOMAIN u = DOMAIN s
  <2> HIDE DEF change
  <2>1. DOMAIN u = (DOMAIN s \cup DOMAIN change.create) \ Elements(change.drop)
    BY AppliedTables
  <2> QED
    BY <1>1, <2>1
<1>3. ASSUME NEW t \in DOMAIN s, NEW old, old = s[t]
      PROVE  /\ t = table => u[t] = With(old, Typed(old.columns, names, type))
             /\ t # table => u[t] = old
             /\ IsTable(u[t])
  <2>1. IsTable(old) /\ IsColumns(old.columns)
    BY <1>3 DEF IsSchema, IsTable
  <2>2. u[t] = With(old, Changed(old.columns, change, t))
    <3> HIDE DEF change
    <3>1. (s ++ change.create)[t] = old
      BY <1>3, Joined
    <3> QED
      BY <1>1, <1>3, <2>1, <3>1, OneTable
  <2>3. t = table => Changed(old.columns, change, t) = Typed(old.columns, names, type)
    BY <2>1, RetypedColumns
  <2>4. t # table => Changed(old.columns, change, t) = old.columns
    BY <2>1, RetypedColumns
  <2> HIDE DEF u, change
  <2>5. IsColumns(Typed(old.columns, names, type))
    BY <2>1, TypedColumns
  <2>6. With(old, old.columns) = old
    BY <2>1 DEF With, IsTable
  <2>7. ASSUME NEW columns, IsColumns(columns) PROVE IsTable(With(old, columns))
    BY <2>7 DEF IsTable, With
  <2> QED
    BY <2>1, <2>2, <2>3, <2>4, <2>5, <2>6, <2>7
<1>4. u = [t \in DOMAIN u |-> u[t]]
  BY AppliedTables
<1> HIDE DEF u, change
<1>5. IsSchema(u)
  BY <1>2, <1>3, <1>4 DEF IsSchema
<1> QED
  BY <1>2, <1>3, <1>5 DEF u, change

\* A change of types back to the one that all had before.
LEMMA RetypeUndone ==
  ASSUME NEW s, IsSchema(s), NEW table \in DOMAIN s, NEW names, NEW old, NEW new,
         \A c \in DOMAIN s[table].columns \cap names : s[table].columns[c].type = old
  PROVE  Applied(Applied(s, Retypes(table, names, new)), Retypes(table, names, old)) = s
<1> DEFINE u == Applied(s, Retypes(table, names, new))
           back == Applied(u, Retypes(table, names, old))
<1>1. /\ IsSchema(u) /\ DOMAIN u = DOMAIN s /\ \A t \in DOMAIN s \ {table} : u[t] = s[t]
      /\ u[table] = With(s[table], Typed(s[table].columns, names, new))
  BY Retyped
<1> HIDE DEF u
<1>2. /\ DOMAIN back = DOMAIN s /\ \A t \in DOMAIN s \ {table} : back[t] = s[t]
      /\ back[table] = With(u[table], Typed(u[table].columns, names, old))
  BY <1>1, Retyped
<1>3. ASSUME NEW columns, columns = s[table].columns
      PROVE  Typed(Typed(columns, names, new), names, old) = columns
  <2>1. IsColumns(columns)
    BY <1>3 DEF IsSchema, IsTable
  <2>2. \A c \in DOMAIN columns : [type |-> columns[c].type, kind |-> columns[c].kind] = columns[c]
    BY <2>1 DEF IsColumns, IsColumn
  <2>3. columns = [c \in DOMAIN columns |-> columns[c]]
    BY <2>1 DEF IsColumns
  <2> DEFINE mid == Typed(columns, names, new)
  <2>4. /\ DOMAIN mid = DOMAIN columns
        /\ \A c \in DOMAIN columns : mid[c].kind = columns[c].kind
        /\ \A c \in DOMAIN columns : c \notin names => mid[c] = columns[c]
    BY DEF Typed
  <2> HIDE DEF mid
  <2>5. \A c \in DOMAIN columns \cap names : columns[c].type = old
    BY <1>3
  <2>6. ASSUME NEW c \in DOMAIN columns
        PROVE  (IF c \in names THEN [type |-> old, kind |-> mid[c].kind] ELSE mid[c]) = columns[c]
    BY <2>2, <2>4, <2>5
  <2>7. Typed(mid, names, old) = columns
    BY <2>3, <2>4, <2>6 DEF Typed
  <2> QED
    BY <2>7 DEF mid
<1>4. back[table] = s[table]
  <2>1. u[table].columns = Typed(s[table].columns, names, new)
        /\ u[table].unique = s[table].unique /\ u[table].refs = s[table].refs
    BY <1>1 DEF With
  <2>2. back[table] = With(u[table], s[table].columns)
    BY <1>2, <1>3, <2>1
  <2>3. IsTable(s[table])
    BY DEF IsSchema
  <2> QED
    BY <2>1, <2>2, <2>3 DEF With, IsTable
<1>5. back = [t \in DOMAIN back |-> back[t]]
  BY AppliedTables
<1>6. s = [t \in DOMAIN s |-> s[t]]
  BY DEF IsSchema
<1> HIDE DEF back
<1>7. \A t \in DOMAIN s : back[t] = s[t]
  BY <1>2, <1>4
<1>8. back = s
  BY <1>2, <1>5, <1>6, <1>7
<1> QED
  BY <1>8 DEF back, u

-----------------------------------------------------------------------------
(* The tables of the first migration *)

\* Columns of one type and kind, and a table made of columns.
LEMMA OneGroup ==
  ASSUME NEW names, NEW type, NEW kind
  PROVE  /\ IsColumns(Columns(names, type, kind)) /\ DOMAIN Columns(names, type, kind) = names
         /\ \A c \in names :
              Columns(names, type, kind)[c].type = type /\ Columns(names, type, kind)[c].kind = kind
  BY DEF Columns, IsColumns, IsColumn

LEMMA AGroup ==
  ASSUME NEW names, NEW type
  PROVE  /\ IsColumns(Required(names, type)) /\ DOMAIN Required(names, type) = names
         /\ IsColumns(Optional(names, type)) /\ DOMAIN Optional(names, type) = names
         /\ IsColumns(Defaulted(names, type)) /\ DOMAIN Defaulted(names, type) = names
  BY OneGroup DEF Required, Optional, Defaulted

LEMMA ATable ==
  ASSUME NEW columns, IsColumns(columns), NEW unique, NEW refs
  PROVE  IsTable(Table(columns, unique, refs))
<1>1. IsColumns(Defaulted({"id"}, Bigint) ++ Stamps)
  BY AGroup, JoinedColumns DEF Stamps
<1>2. IsColumns((Defaulted({"id"}, Bigint) ++ Stamps) ++ columns)
  BY <1>1, JoinedColumns
<1>3. Table(columns, unique, refs) =
        [columns |-> (Defaulted({"id"}, Bigint) ++ Stamps) ++ columns,
         unique |-> {{"id"}} \cup unique, refs |-> refs]
  BY DEF Table
<1> HIDE DEF Table
<1> QED
  BY <1>2, <1>3 DEF IsTable

\* The five groups of tables of 0001 are schemas.
LEMMA JoinedSchemas ==
  ASSUME NEW f, NEW g, IsSchema(f), IsSchema(g)
  PROVE  IsSchema(f ++ g)
  BY DEF IsSchema, ++

LEMMA TaxonomyTables == IsSchema(Taxonomy) /\ DOMAIN Taxonomy = {"categories", "hs_codes"}
  BY AGroup, JoinedColumns, ATable DEF Taxonomy, IsSchema
LEMMA SearchesTables == IsSchema(Searches) /\ DOMAIN Searches = {"keywords", "keyword_hs_mappings"}
  BY AGroup, JoinedColumns, ATable DEF Searches, IsSchema
LEMMA SnapshotsTables ==
  IsSchema(Snapshots) /\ DOMAIN Snapshots = {"keyword_metrics", "import_stats", "opportunity_scores"}
  BY AGroup, JoinedColumns, ATable DEF Snapshots, IsSchema
LEMMA SourcingTables ==
  IsSchema(Sourcing) /\ DOMAIN Sourcing = {"products", "product_scores", "channel_profits"}
<1>1. DOMAIN Sourcing = {"products", "product_scores", "channel_profits"}
      /\ Sourcing = [t \in DOMAIN Sourcing |-> Sourcing[t]]
  BY DEF Sourcing
<1>2. IsTable(Sourcing["products"])
  <2>1. IsColumns(Offer)
    BY AGroup, JoinedColumns DEF Offer
  <2> QED
    BY <2>1, ATable DEF Sourcing
<1>3. IsTable(Sourcing["product_scores"])
  BY AGroup, JoinedColumns, ATable DEF Sourcing
<1>4. IsTable(Sourcing["channel_profits"])
  BY AGroup, JoinedColumns, ATable DEF Sourcing
<1> QED
  BY <1>1, <1>2, <1>3, <1>4 DEF IsSchema
LEMMA OutcomesTables ==
  IsSchema(Outcomes) /\ DOMAIN Outcomes = {"feedbacks", "coupang_fees", "exchange_rates", "api_cache"}
  BY AGroup, JoinedColumns, ATable DEF Outcomes, IsSchema

\* The tables of 0001.
InitialTables == Taxonomy ++ Searches ++ Snapshots ++ Sourcing ++ Outcomes

FirstNames ==
  {"categories", "hs_codes", "keywords", "keyword_hs_mappings", "keyword_metrics", "import_stats",
   "opportunity_scores", "products", "product_scores", "channel_profits", "feedbacks", "coupang_fees",
   "exchange_rates", "api_cache"}

LEMMA InitialNames == IsSchema(InitialTables) /\ DOMAIN InitialTables = FirstNames
<1>1. IsSchema(Taxonomy ++ Searches) /\ DOMAIN (Taxonomy ++ Searches) = DOMAIN Taxonomy \cup DOMAIN Searches
  BY TaxonomyTables, SearchesTables, JoinedSchemas, Joined
<1> DEFINE two == Taxonomy ++ Searches
<1> HIDE DEF two
<1> DEFINE three == two ++ Snapshots
<1> DEFINE four == three ++ Sourcing
<1>2. IsSchema(three) /\ DOMAIN three = DOMAIN two \cup DOMAIN Snapshots
  BY <1>1, SnapshotsTables, JoinedSchemas, Joined DEF two
<1> HIDE DEF three
<1>3. IsSchema(four) /\ DOMAIN four = DOMAIN three \cup DOMAIN Sourcing
  BY <1>2, SourcingTables, JoinedSchemas, Joined
<1> HIDE DEF four
<1>4. IsSchema(four ++ Outcomes) /\ DOMAIN (four ++ Outcomes) = DOMAIN four \cup DOMAIN Outcomes
  BY <1>3, OutcomesTables, JoinedSchemas, Joined
<1>5. InitialTables = four ++ Outcomes
  BY DEF four, three, two, InitialTables
<1>6. DOMAIN two = DOMAIN Taxonomy \cup DOMAIN Searches
  BY <1>1 DEF two
<1> QED
  BY <1>2, <1>3, <1>4, <1>5, <1>6, TaxonomyTables, SearchesTables, SnapshotsTables, SourcingTables,
     OutcomesTables DEF FirstNames

-----------------------------------------------------------------------------
(* The migrations, one by one *)

\* A migration that creates tables and adds columns, and takes back both.
Grows(m, tables, columns) ==
  /\ Adding(m.up) /\ Undoes(m.down, m.up) /\ m.up.create = tables /\ m.up.add = columns

\* A migration that creates tables and drops them on the way back.
LEMMA CreatesGrows ==
  ASSUME NEW tables, IsSchema(tables), NEW order, NEW back, Elements(back) = DOMAIN tables,
         NEW m, m = Migration(Creates(tables, order), Drops(back))
  PROVE  Grows(m, tables, <<>>)
<1>1. /\ m.up.create = tables /\ m.up.add = <<>> /\ m.up.drop = <<>> /\ m.up.remove = <<>> /\ m.up.retype = <<>>
  BY DEF Migration, Creates, NoChange
<1>2. /\ m.down.create = <<>> /\ m.down.add = <<>> /\ m.down.retype = <<>> /\ m.down.remove = <<>>
      /\ m.down.drop = back
  BY DEF Migration, Drops, NoChange
<1> QED
  BY <1>1, <1>2 DEF Adding, Undoes, Removing, Grows

\* Columns for one table.
On(table, columns) == [t \in {table} |-> columns]

\* A migration that adds columns to a table and removes them on the way back.
LEMMA AddsGrows ==
  ASSUME NEW table, NEW columns, IsColumns(columns), NEW names, names = DOMAIN columns,
         NEW m, m = Migration(Adds(table, columns), Removes(table, names))
  PROVE  Grows(m, <<>>, On(table, columns))
<1>1. /\ m.up.create = <<>> /\ m.up.drop = <<>> /\ m.up.remove = <<>> /\ m.up.retype = <<>>
      /\ m.up.add = On(table, columns)
  BY DEF Migration, Adds, NoChange, On
<1>2. /\ m.down.create = <<>> /\ m.down.drop = <<>> /\ m.down.add = <<>> /\ m.down.retype = <<>>
      /\ m.down.remove = On(table, names)
  BY DEF Migration, Removes, NoChange, On
<1>3. /\ DOMAIN On(table, columns) = {table} /\ On(table, columns)[table] = columns
      /\ DOMAIN On(table, names) = {table} /\ On(table, names)[table] = names
  BY DEF On
<1>4. Adding(m.up)
  BY <1>1, <1>3 DEF Adding, IsSchema
<1>5. Undoes(m.down, m.up)
  <2>1. Removing(m.down)
    BY <1>2 DEF Removing
  <2>4. Elements(m.down.drop) = {} /\ DOMAIN m.up.create = {}
    BY <1>1, <1>2, NoElements
  <2>2. DOMAIN m.down.remove = {table} /\ DOMAIN m.up.add = {table}
    BY <1>1, <1>2, <1>3
  <2>3. m.down.remove[table] = names /\ m.up.add[table] = columns
    BY <1>1, <1>2, <1>3
  <2> QED
    BY <2>1, <2>2, <2>3, <2>4 DEF Undoes
<1> QED
  BY <1>1, <1>4, <1>5 DEF Grows

LEMMA NewColumnsGrow ==
  ASSUME NEW table, NEW names, NEW type
  PROVE  Grows(NewColumns(table, names, type), <<>>, On(table, Optional(names, type)))
  BY AGroup, AddsGrows DEF NewColumns

\* Each of the sixteen: the first, the two that change types, those that add columns, those that create tables.
LEMMA First == Grows(Migrations[1], InitialTables, <<>>)
<1> DEFINE back ==
      <<"api_cache", "exchange_rates", "coupang_fees", "feedbacks", "channel_profits", "product_scores",
        "products", "opportunity_scores", "import_stats", "keyword_metrics", "keyword_hs_mappings", "keywords",
        "hs_codes", "categories">>
<1>1. Elements(back) = FirstNames
  BY DEF Elements, FirstNames
<1> HIDE DEF back
<1>2. Migrations[1] = InitialSchema
  BY DEF Migrations
<1>3. \E order : InitialSchema = Migration(Creates(InitialTables, order), Drops(back))
  BY DEF InitialSchema, InitialTables, back
<1> QED
  BY <1>1, <1>2, <1>3, InitialNames, CreatesGrows

LEMMA Retypings ==
  /\ Migrations[2].up = Retypes("hs_codes", {"name_ko", "name_en"}, Text)
  /\ Migrations[2].down = Retypes("hs_codes", {"name_ko", "name_en"}, Varchar(255))
  /\ Migrations[3].up = Retypes("keyword_metrics", {"growth_rate_3m", "growth_rate_6m"}, Numeric(10, 4))
  /\ Migrations[3].down = Retypes("keyword_metrics", {"growth_rate_3m", "growth_rate_6m"}, Numeric(7, 4))
  BY DEF Migrations, HsCodesNameText, KeywordMetricsWidenGrowth, Migration

LEMMA Numbered ==
  /\ Migrations[4] = MetricsAvgPrice /\ Migrations[5] = ScoreDetails /\ Migrations[6] = ChineseTerm
  /\ Migrations[7] = ProductShipping /\ Migrations[8] = ProductDutyRate /\ Migrations[9] = CustomsDutyRates
  /\ Migrations[10] = ProductSellPrice /\ Migrations[11] = ProductAdCost /\ Migrations[12] = ShippingRates
  /\ Migrations[13] = ResetCategories /\ Migrations[14] = SeedCandidates /\ Migrations[15] = DetailPageTables
  /\ Migrations[16] = DetailPageTemplate
  BY DEF Migrations

LEMMA ColumnsGrow ==
  /\ Grows(Migrations[4], <<>>, On("keyword_metrics", Optional({"shopping_avg_price_krw"}, Int4)))
  /\ Grows(Migrations[5], <<>>, On("opportunity_scores", Optional({"details"}, Jsonb)))
  /\ Grows(Migrations[6], <<>>, On("keywords", Optional({"chinese_term"}, Text)))
  /\ Grows(Migrations[7], <<>>,
           On("products", Optional({"china_domestic_shipping_krw", "intl_shipping_krw"}, Int4)))
  /\ Grows(Migrations[8], <<>>, On("products", Optional({"customs_duty_pct"}, Numeric(5, 4))))
  /\ Grows(Migrations[10], <<>>, On("products", Optional({"expected_sell_price_krw"}, Int4)))
  /\ Grows(Migrations[11], <<>>, On("products", Optional({"ad_cost_pct"}, Numeric(5, 4))))
  BY Numbered, NewColumnsGrow DEF MetricsAvgPrice, ScoreDetails, ChineseTerm, ProductShipping,
     ProductDutyRate, ProductSellPrice, ProductAdCost

LEMMA TemplateGrows ==
  Grows(Migrations[16], <<>>, On("detail_pages", Defaulted({"template_name"}, Varchar(64))))
  BY Numbered, AGroup, AddsGrows DEF DetailPageTemplate

LEMMA ResetGrows == Grows(Migrations[13], <<>>, <<>>)
<1>1. ResetCategories.up = NoChange /\ ResetCategories.down = NoChange
  BY DEF Migration, ResetCategories
<1>2. Adding(NoChange) /\ Undoes(NoChange, NoChange)
  BY NoElements DEF NoChange, Adding, Undoes, Removing, IsSchema
<1>3. NoChange.create = <<>> /\ NoChange.add = <<>>
  BY DEF NoChange
<1> QED
  BY <1>1, <1>2, <1>3, Numbered DEF Grows

LEMMA DutyGrows ==
  /\ IsSchema(DutyTable) /\ DOMAIN DutyTable = {"customs_duty_rates"}
  /\ Grows(Migrations[9], DutyTable, <<>>)
<1>1. DOMAIN DutyTable = {"customs_duty_rates"}
  BY DEF DutyTable
<1>2. IsSchema(DutyTable)
  BY AGroup, JoinedColumns, ATable DEF DutyTable, IsSchema
<1>3. Elements(<<"customs_duty_rates">>) = {"customs_duty_rates"}
  BY DEF Elements
<1>4. Grows(CustomsDutyRates, DutyTable, <<>>)
  BY <1>1, <1>2, <1>3, CreatesGrows DEF CustomsDutyRates
<1> QED
  BY <1>1, <1>2, <1>4, Numbered

LEMMA CandidatesGrow ==
  /\ IsSchema(CandidateTable) /\ DOMAIN CandidateTable = {"seed_candidates"}
  /\ Grows(Migrations[14], CandidateTable, <<>>)
<1>1. DOMAIN CandidateTable = {"seed_candidates"}
  BY DEF CandidateTable
<1>2. IsSchema(CandidateTable)
  BY AGroup, JoinedColumns, ATable DEF CandidateTable, IsSchema
<1>3. Elements(<<"seed_candidates">>) = {"seed_candidates"}
  BY DEF Elements
<1>4. Grows(SeedCandidates, CandidateTable, <<>>)
  BY <1>1, <1>2, <1>3, CreatesGrows DEF SeedCandidates
<1> QED
  BY <1>1, <1>2, <1>4, Numbered

LEMMA PagesGrow ==
  /\ IsSchema(PageTables) /\ DOMAIN PageTables = {"source_products", "detail_pages"}
  /\ Grows(Migrations[15], PageTables, <<>>)
<1>1. DOMAIN PageTables = {"source_products", "detail_pages"}
  BY DEF PageTables
<1>2. IsSchema(PageTables)
  BY AGroup, JoinedColumns, ATable DEF PageTables, IsSchema
<1>3. Elements(<<"detail_pages", "source_products">>) = {"source_products", "detail_pages"}
  BY DEF Elements
<1>4. Grows(DetailPageTables, PageTables, <<>>)
  BY <1>1, <1>2, <1>3, CreatesGrows DEF DetailPageTables
<1> QED
  BY <1>1, <1>2, <1>4, Numbered

LEMMA RatesGrow ==
  /\ IsSchema(RateTable) /\ DOMAIN RateTable = {"international_shipping_rates"}
  /\ IsColumns(RateColumns) /\ DOMAIN RateColumns = {"unit_weight_kg", "shipping_method"}
  /\ Grows(Migrations[12], RateTable, On("products", RateColumns))
<1>1. DOMAIN RateTable = {"international_shipping_rates"}
  BY DEF RateTable
<1>2. IsSchema(RateTable)
  BY AGroup, JoinedColumns, ATable DEF RateTable, IsSchema
<1>3. IsColumns(RateColumns) /\ DOMAIN RateColumns = {"unit_weight_kg", "shipping_method"}
  <2>1. IsColumns(RateColumns)
    BY AGroup, JoinedColumns DEF RateColumns
  <2>2. DOMAIN RateColumns =
          DOMAIN Optional({"unit_weight_kg"}, Numeric(6, 3))
            \cup DOMAIN Optional({"shipping_method"}, Varchar(32))
    BY Joined DEF RateColumns
  <2> QED
    BY <2>1, <2>2, AGroup
<1>4. Elements(<<"international_shipping_rates">>) = {"international_shipping_rates"}
  BY DEF Elements
<1>5. /\ [products |-> RateColumns] = On("products", RateColumns)
      /\ [products |-> DOMAIN RateColumns] = On("products", DOMAIN RateColumns)
      /\ \A x : DOMAIN On("products", x) = {"products"} /\ On("products", x)["products"] = x
  BY DEF On
<1> DEFINE m == ShippingRates
<1>6. /\ m.up.create = RateTable /\ m.up.add = [products |-> RateColumns] /\ m.up.drop = <<>>
      /\ m.up.remove = <<>> /\ m.up.retype = <<>>
  BY DEF ShippingRates, Migration, Creates, NoChange
<1>7. /\ m.down.create = <<>> /\ m.down.add = <<>> /\ m.down.retype = <<>>
      /\ m.down.remove = [products |-> DOMAIN RateColumns] /\ m.down.drop = <<"international_shipping_rates">>
  BY DEF ShippingRates, Migration, Drops, NoChange
<1> HIDE DEF m
<1>8. Adding(m.up)
  BY <1>2, <1>3, <1>5, <1>6 DEF Adding
<1>9. Undoes(m.down, m.up)
  <2>1. Removing(m.down) /\ Elements(m.down.drop) = DOMAIN m.up.create
    BY <1>1, <1>4, <1>6, <1>7 DEF Removing
  <2>2. DOMAIN m.down.remove = {"products"} /\ DOMAIN m.up.add = {"products"}
    BY <1>5, <1>6, <1>7
  <2>3. m.down.remove["products"] = DOMAIN m.up.add["products"]
    BY <1>5, <1>6, <1>7
  <2> QED
    BY <2>1, <2>2, <2>3 DEF Undoes
<1> QED
  BY <1>1, <1>2, <1>3, <1>5, <1>6, <1>8, <1>9, Numbered DEF Grows, m

-----------------------------------------------------------------------------
(* The schemas of the revisions *)

\* Every set of naturals has a least element.
LEMMA Smallest ==
  ASSUME NEW T, T \subseteq Nat, T # {}
  PROVE  \E x \in T : \A y \in T : x <= y
<1>1. IsWellFoundedOn(OpToRel(<, Nat), Nat)
  BY NatLessThanWellFounded
<1>2. PICK x \in T : \A y \in T : ~(<<y, x>> \in OpToRel(<, Nat))
  BY <1>1, WFMin
<1>3. ASSUME NEW y \in T PROVE x <= y
  <2>1. x \in Nat /\ y \in Nat
    OBVIOUS
  <2>2. y < x => <<y, x>> \in OpToRel(<, Nat)
    BY <2>1 DEF OpToRel
  <2>3. ~(y < x)
    BY <1>2, <2>2
  <2> QED
    BY <2>1, <2>3
<1> QED
  BY <1>3

\* The schemas of the first revisions.
Built(f, n) == f = [r \in 0..n |-> IF r = 0 THEN <<>> ELSE Applied(f[r - 1], Migrations[r].up)]

\* The recursive function that Known stands for exists, so Known is built step by step.
LEMMA BuiltNext ==
  ASSUME NEW n \in Nat, NEW f, Built(f, n)
  PROVE  \E g : Built(g, n + 1)
<1> DEFINE g == [r \in 0..(n + 1) |-> IF r <= n THEN f[r] ELSE Applied(f[n], Migrations[n + 1].up)]
<1>1. ASSUME NEW r \in 0..(n + 1)
      PROVE  g[r] = IF r = 0 THEN <<>> ELSE Applied(g[r - 1], Migrations[r].up)
  <2>1. CASE r = 0
    BY <2>1 DEF Built
  <2>2. CASE r \in 1..n
    <3>1. g[r] = f[r] /\ g[r - 1] = f[r - 1]
      BY <2>2
    <3>2. f[r] = Applied(f[r - 1], Migrations[r].up)
      BY <2>2 DEF Built
    <3> QED
      BY <2>2, <3>1, <3>2
  <2>3. CASE r = n + 1
    <3>1. g[r] = Applied(f[n], Migrations[n + 1].up) /\ g[r - 1] = f[n] /\ r # 0
      BY <2>3
    <3> QED
      BY <2>3, <3>1
  <2> QED
    BY <2>1, <2>2, <2>3
<1>2. g = [r \in 0..(n + 1) |-> g[r]]
  OBVIOUS
<1> HIDE DEF g
<1>3. Built(g, n + 1)
  BY <1>1, <1>2 DEF Built
<1> QED
  BY <1>3

LEMMA AllBuilt == ASSUME NEW n \in Nat PROVE \E f : Built(f, n)
<1> DEFINE T == {m \in Nat : ~ \E f : Built(f, m)}
<1>1. ASSUME T # {} PROVE FALSE
  <2>1. PICK m \in T : \A i \in T : m <= i
    <3>1. T \subseteq Nat
      OBVIOUS
    <3> HIDE DEF T
    <3> QED
      BY <1>1, <3>1, Smallest
  <2>2. m # 0
    <3>1. Built([r \in 0..0 |-> <<>>], 0)
      BY DEF Built
    <3> QED
      BY <3>1
  <2>3. m - 1 \in Nat /\ m - 1 \notin T
    BY <2>1, <2>2
  <2>4. PICK f : Built(f, m - 1)
    BY <2>3
  <2>5. \E g : Built(g, (m - 1) + 1)
    BY <2>3, <2>4, BuiltNext
  <2> QED
    BY <2>1, <2>5
<1> QED
  BY <1>1

LEMMA KnownStep ==
  /\ DOMAIN Known = 0..16 /\ Known[0] = <<>>
  /\ \A r \in 1..16 : Known[r] = Applied(Known[r - 1], Migrations[r].up)
<1> DEFINE built == CHOOSE f : Built(f, HeadRevision)
<1>1. Built(built, HeadRevision)
  BY SixteenRevisions, AllBuilt
<1>2. Known = [r \in 0..HeadRevision |-> built[r]]
  BY DEF Known, Built
<1> HIDE DEF built
<1>3. DOMAIN Known = 0..16 /\ Known[0] = built[0]
  BY <1>2, SixteenRevisions
<1>4. \A r \in 1..16 : Known[r] = built[r] /\ Known[r - 1] = built[r - 1]
  BY <1>2, SixteenRevisions
<1>5. /\ built[0] = <<>>
      /\ \A r \in 1..16 : built[r] = Applied(built[r - 1], Migrations[r].up)
  BY <1>1, SixteenRevisions DEF Built
<1> QED
  BY <1>3, <1>4, <1>5

-----------------------------------------------------------------------------
(* What each migration creates and touches *)

\* The tables that a migration creates, and those whose columns it adds to or changes.
NewTables ==
  [r \in 1..16 |->
     CASE r = 1 -> FirstNames
       [] r = 9 -> {"customs_duty_rates"}
       [] r = 12 -> {"international_shipping_rates"}
       [] r = 14 -> {"seed_candidates"}
       [] r = 15 -> {"source_products", "detail_pages"}
       [] OTHER -> {}]

Touched ==
  [r \in 1..16 |->
     CASE r = 2 -> {"hs_codes"}
       [] r \in {3, 4} -> {"keyword_metrics"}
       [] r = 5 -> {"opportunity_scores"}
       [] r = 6 -> {"keywords"}
       [] r \in {7, 8, 10, 11, 12} -> {"products"}
       [] r = 16 -> {"detail_pages"}
       [] OTHER -> {}]

Growing == {1} \cup 4..16

\* The numbers of the migrations that do not change types.
LEMMA Numbers == 1..16 = {1, 2, 3} \cup 4..16 /\ 4..16 = {4, 5, 6, 7, 8, 9, 10, 11, 12, 13, 14, 15, 16}
  OBVIOUS

LEMMA OnDomain == ASSUME NEW t, NEW c PROVE DOMAIN On(t, c) = {t} /\ On(t, c)[t] = c
  BY DEF On

\* What they create and touch.
LEMMA AllGrow ==
  ASSUME NEW r \in Growing
  PROVE  /\ Adding(Migrations[r].up) /\ Undoes(Migrations[r].down, Migrations[r].up)
         /\ DOMAIN Migrations[r].up.create = NewTables[r] /\ DOMAIN Migrations[r].up.add = Touched[r]
<1> DEFINE Good(m, n, t) ==
             /\ Adding(m.up) /\ Undoes(m.down, m.up)
             /\ DOMAIN m.up.create = n /\ DOMAIN m.up.add = t
<1>1. ASSUME NEW m, NEW T, NEW A, Grows(m, T, A) PROVE Good(m, DOMAIN T, DOMAIN A)
  BY <1>1 DEF Grows
<1>2. DOMAIN <<>> = {}
  OBVIOUS
<1>8. ASSUME NEW m, NEW T, NEW t, NEW c, Grows(m, T, On(t, c)) PROVE Good(m, DOMAIN T, {t})
  BY <1>8, OnDomain DEF Grows
<1>9. ASSUME NEW m, NEW t, NEW c, Grows(m, <<>>, On(t, c)) PROVE Good(m, {}, {t})
  BY <1>8, <1>9, <1>2
<1> HIDE DEF Good
<1>3. Good(Migrations[1], FirstNames, {}) /\ Good(Migrations[13], {}, {})
  BY <1>1, <1>2, First, InitialNames, ResetGrows
<1>4. /\ Good(Migrations[4], {}, {"keyword_metrics"}) /\ Good(Migrations[5], {}, {"opportunity_scores"})
      /\ Good(Migrations[6], {}, {"keywords"}) /\ Good(Migrations[7], {}, {"products"})
      /\ Good(Migrations[8], {}, {"products"}) /\ Good(Migrations[10], {}, {"products"})
      /\ Good(Migrations[11], {}, {"products"}) /\ Good(Migrations[16], {}, {"detail_pages"})
  BY <1>9, ColumnsGrow, TemplateGrows
<1>5. /\ Good(Migrations[9], {"customs_duty_rates"}, {})
      /\ Good(Migrations[14], {"seed_candidates"}, {})
      /\ Good(Migrations[15], {"source_products", "detail_pages"}, {})
  BY <1>1, <1>2, DutyGrows, CandidatesGrow, PagesGrow
<1>6. Good(Migrations[12], {"international_shipping_rates"}, {"products"})
  BY <1>8, RatesGrow
<1>7. Good(Migrations[r], NewTables[r], Touched[r])
  BY <1>3, <1>4, <1>5, <1>6 DEF Growing, NewTables, Touched
<1> QED
  BY <1>7 DEF Good

\* One migration: the tables it creates come in, those it does not touch stay.
LEMMA KnownNext ==
  ASSUME NEW r \in 1..16, IsSchema(Known[r - 1])
  PROVE  /\ IsSchema(Known[r]) /\ DOMAIN Known[r] = DOMAIN Known[r - 1] \cup NewTables[r]
         /\ \A t \in DOMAIN Known[r - 1] \ Touched[r] : Known[r][t] = Known[r - 1][t]
<1> DEFINE s == Known[r - 1]
<1>1. Known[r] = Applied(s, Migrations[r].up)
  BY KnownStep
<1>2. CASE r \in Growing
  <2> HIDE DEF s
  <2>1. /\ Adding(Migrations[r].up) /\ DOMAIN Migrations[r].up.create = NewTables[r]
        /\ DOMAIN Migrations[r].up.add = Touched[r]
    BY <1>2, AllGrow
  <2>2. \A t \in DOMAIN s \ Touched[r] : Applied(s, Migrations[r].up)[t] = s[t]
    BY <2>1, AddedTable DEF s
  <2>3. IsSchema(s)
    BY DEF s
  <2>4. /\ IsSchema(Applied(s, Migrations[r].up))
        /\ DOMAIN Applied(s, Migrations[r].up) = DOMAIN s \cup NewTables[r]
    BY <2>1, <2>3, AddedSchema
  <2> QED
    BY <1>1, <2>2, <2>4 DEF s
<1>3. CASE r \in {2, 3}
  <2>1. NewTables[r] = {} /\ (r = 2 => Touched[r] = {"hs_codes"}) /\ (r = 3 => Touched[r] = {"keyword_metrics"})
    BY <1>3 DEF NewTables, Touched
  <2> HIDE DEF s
  <2>2. PICK names, type : \E table : Touched[r] = {table} /\ Migrations[r].up = Retypes(table, names, type)
    BY <1>3, <2>1, Retypings
  <2>3. PICK table : Touched[r] = {table} /\ Migrations[r].up = Retypes(table, names, type)
    BY <2>2
  <2> DEFINE u == Applied(s, Retypes(table, names, type))
  <2>4. IsSchema(u) /\ DOMAIN u = DOMAIN s /\ \A t \in DOMAIN s \ {table} : u[t] = s[t]
    BY Retyped DEF s
  <2>5. Known[r] = u
    BY <1>1, <2>3
  <2> QED
    BY <2>1, <2>3, <2>4, <2>5 DEF s
<1> QED
  BY <1>2, <1>3, Numbers DEF Growing

\* A schema of the history has the tables created so far.
LEMMA KnownSchemas ==
  ASSUME NEW r \in 0..16
  PROVE  IsSchema(Known[r]) /\ \A t : t \in DOMAIN Known[r] <=> \E k \in 1..r : t \in NewTables[k]
<1> DEFINE Fine(n) == IsSchema(Known[n]) /\ \A t : t \in DOMAIN Known[n] <=> \E k \in 1..n : t \in NewTables[k]
           T == {n \in 0..16 : ~Fine(n)}
<1>1. ASSUME T # {} PROVE FALSE
  <2>1. PICK n \in T : \A i \in T : n <= i
    <3>1. T \subseteq Nat
      OBVIOUS
    <3> HIDE DEF T
    <3> QED
      BY <1>1, <3>1, Smallest
  <2>2. n # 0
    <3>1. IsSchema(<<>>) /\ DOMAIN <<>> = {}
      BY DEF IsSchema
    <3>2. Fine(0)
      BY <3>1, KnownStep
    <3> QED
      BY <3>2
  <2>3. Fine(n - 1) /\ n \in 1..16
    BY <2>1, <2>2
  <2>4. IsSchema(Known[n]) /\ DOMAIN Known[n] = DOMAIN Known[n - 1] \cup NewTables[n]
    BY <2>3, KnownNext
  <2>5. ASSUME NEW t PROVE t \in DOMAIN Known[n] <=> \E k \in 1..n : t \in NewTables[k]
    <3>1. (\E k \in 1..n : t \in NewTables[k]) <=>
            (\E k \in 1..(n - 1) : t \in NewTables[k]) \/ t \in NewTables[n]
      BY <2>3
    <3> QED
      BY <2>3, <2>4, <3>1
  <2> QED
    BY <2>1, <2>4, <2>5
<1> QED
  BY <1>1

\* A table that no migration touches is as it was.
LEMMA Untouched ==
  ASSUME NEW a \in 0..16, NEW b \in a..16, NEW t \in DOMAIN Known[a],
         \A k \in (a + 1)..b : t \notin Touched[k]
  PROVE  t \in DOMAIN Known[b] /\ Known[b][t] = Known[a][t]
<1> DEFINE Fine(n) == t \in DOMAIN Known[n] /\ Known[n][t] = Known[a][t]
           T == {n \in a..b : ~Fine(n)}
<1>1. ASSUME T # {} PROVE FALSE
  <2>1. PICK n \in T : \A i \in T : n <= i
    <3>1. T \subseteq Nat
      OBVIOUS
    <3> HIDE DEF T
    <3> QED
      BY <1>1, <3>1, Smallest
  <2>2. n # a
    BY <2>1
  <2>3. Fine(n - 1) /\ n \in 1..16 /\ n - 1 \in 0..16 /\ n \in (a + 1)..b
    BY <2>1, <2>2
  <2>4. /\ DOMAIN Known[n] = DOMAIN Known[n - 1] \cup NewTables[n]
        /\ \A u \in DOMAIN Known[n - 1] \ Touched[n] : Known[n][u] = Known[n - 1][u]
    BY <2>3, KnownSchemas, KnownNext
  <2> QED
    BY <2>1, <2>3, <2>4
<1> QED
  BY <1>1

\* Which columns are there, one at a time.
LEMMA JoinedDomain ==
  ASSUME NEW f, NEW g, NEW x
  PROVE  x \in DOMAIN (f ++ g) <=> x \in DOMAIN f \/ x \in DOMAIN g
  BY Joined
LEMMA GroupDomain ==
  ASSUME NEW names, NEW type, NEW x
  PROVE  /\ x \in DOMAIN Required(names, type) <=> x \in names
         /\ x \in DOMAIN Optional(names, type) <=> x \in names
         /\ x \in DOMAIN Defaulted(names, type) <=> x \in names
  BY DEF Required, Optional, Defaulted, Columns

LEMMA TableDomain ==
  ASSUME NEW columns, NEW unique, NEW refs, NEW x
  PROVE  x \in DOMAIN Table(columns, unique, refs).columns <=>
           x \in {"id", "created_at", "updated_at"} \cup DOMAIN columns
<1>1. Table(columns, unique, refs).columns = (Defaulted({"id"}, Bigint) ++ Stamps) ++ columns
  BY DEF Table
<1> QED
  BY <1>1, JoinedDomain, GroupDomain DEF Stamps

\* The columns that later migrations add are not among the first.
LEMMA ChineseTermNew == "chinese_term" \notin DOMAIN Searches["keywords"].columns
  BY JoinedDomain, GroupDomain, TableDomain DEF Searches
LEMMA DetailsNew == "details" \notin DOMAIN Snapshots["opportunity_scores"].columns
  BY JoinedDomain, GroupDomain, TableDomain DEF Snapshots
LEMMA AvgPriceNew == "shopping_avg_price_krw" \notin DOMAIN Snapshots["keyword_metrics"].columns
  BY JoinedDomain, GroupDomain, TableDomain DEF Snapshots
LEMMA TemplateNew == "template_name" \notin DOMAIN PageTables["detail_pages"].columns
  BY JoinedDomain, GroupDomain, TableDomain DEF PageTables
LEMMA ProductColumnsNew ==
  ASSUME NEW c \in {"china_domestic_shipping_krw", "intl_shipping_krw", "customs_duty_pct",
                    "expected_sell_price_krw", "ad_cost_pct", "unit_weight_kg", "shipping_method"}
  PROVE  c \notin DOMAIN Sourcing["products"].columns
<1>1. c \notin DOMAIN Offer
  BY JoinedDomain, GroupDomain DEF Offer
<1> QED
  BY <1>1, TableDomain DEF Sourcing
-----------------------------------------------------------------------------
(* Columns of other types, and in another order *)

\* Other types for columns joined, for a group of one type, for a table.
LEMMA TypedJoined ==
  ASSUME NEW f, NEW g, NEW names, NEW type
  PROVE  Typed(f ++ g, names, type) = Typed(f, names, type) ++ Typed(g, names, type)
<1> DEFINE both == f ++ g
           apart == Typed(f, names, type) ++ Typed(g, names, type)
<1>1. /\ DOMAIN both = DOMAIN f \cup DOMAIN g
      /\ \A c \in DOMAIN both : both[c] = IF c \in DOMAIN f THEN f[c] ELSE g[c]
  BY DEF ++
<1>2. /\ DOMAIN Typed(f, names, type) = DOMAIN f
      /\ \A c \in DOMAIN f : Typed(f, names, type)[c] =
           IF c \in names THEN [type |-> type, kind |-> f[c].kind] ELSE f[c]
  BY DEF Typed
<1>3. /\ DOMAIN Typed(g, names, type) = DOMAIN g
      /\ \A c \in DOMAIN g : Typed(g, names, type)[c] =
           IF c \in names THEN [type |-> type, kind |-> g[c].kind] ELSE g[c]
  BY DEF Typed
<1>4. apart = [c \in DOMAIN f \cup DOMAIN g |->
                 IF c \in DOMAIN f THEN Typed(f, names, type)[c] ELSE Typed(g, names, type)[c]]
  BY <1>2, <1>3 DEF ++
<1> HIDE DEF both, apart
<1>5. ASSUME NEW c \in DOMAIN f \cup DOMAIN g
      PROVE  (IF c \in names THEN [type |-> type, kind |-> both[c].kind] ELSE both[c]) =
             (IF c \in DOMAIN f THEN Typed(f, names, type)[c] ELSE Typed(g, names, type)[c])
  BY <1>1, <1>2, <1>3
<1>6. Typed(both, names, type) = apart
  BY <1>1, <1>4, <1>5 DEF Typed
<1> QED
  BY <1>6 DEF both, apart

LEMMA TypedGroup ==
  ASSUME NEW names, NEW old, NEW new, NEW kind, NEW chosen
  PROVE  /\ names \subseteq chosen => Typed(Columns(names, old, kind), chosen, new) = Columns(names, new, kind)
         /\ names \cap chosen = {} => Typed(Columns(names, old, kind), chosen, new) = Columns(names, old, kind)
  BY DEF Typed, Columns

\* Columns are joined in any grouping.
LEMMA JoinedInARow ==
  ASSUME NEW f, NEW g, NEW h
  PROVE  (f ++ g) ++ h = f ++ (g ++ h)
<1> DEFINE front == f ++ g
           back == g ++ h
           left == front ++ h
           right == f ++ back
<1>1. /\ DOMAIN front = DOMAIN f \cup DOMAIN g
      /\ \A c \in DOMAIN front : front[c] = IF c \in DOMAIN f THEN f[c] ELSE g[c]
  BY DEF ++
<1>2. /\ DOMAIN back = DOMAIN g \cup DOMAIN h
      /\ \A c \in DOMAIN back : back[c] = IF c \in DOMAIN g THEN g[c] ELSE h[c]
  BY DEF ++
<1> HIDE DEF front, back
<1>3. /\ left = [c \in DOMAIN front \cup DOMAIN h |-> IF c \in DOMAIN front THEN front[c] ELSE h[c]]
      /\ right = [c \in DOMAIN f \cup DOMAIN back |-> IF c \in DOMAIN f THEN f[c] ELSE back[c]]
  BY DEF ++
<1> HIDE DEF left, right
<1>4. DOMAIN front \cup DOMAIN h = DOMAIN f \cup DOMAIN back
  BY <1>1, <1>2
<1>5. ASSUME NEW c \in DOMAIN f \cup DOMAIN back
      PROVE  (IF c \in DOMAIN front THEN front[c] ELSE h[c]) = (IF c \in DOMAIN f THEN f[c] ELSE back[c])
  BY <1>1, <1>2
<1>6. left = right
  BY <1>3, <1>4, <1>5
<1> QED
  BY <1>6 DEF left, right, front, back

LEMMA TypedStart ==
  ASSUME NEW names, NEW type, names \cap {"id", "created_at", "updated_at"} = {},
         NEW columns, IsColumns(columns), NEW unique, NEW refs
  PROVE  Typed(Table(columns, unique, refs).columns, names, type) =
           Table(Typed(columns, names, type), unique, refs).columns
<1>1. Table(columns, unique, refs).columns = (Defaulted({"id"}, Bigint) ++ Stamps) ++ columns
      /\ Table(Typed(columns, names, type), unique, refs).columns =
           (Defaulted({"id"}, Bigint) ++ Stamps) ++ Typed(columns, names, type)
  BY DEF Table
<1>2. Typed(Defaulted({"id"}, Bigint), names, type) = Defaulted({"id"}, Bigint)
      /\ Typed(Stamps, names, type) = Stamps
  BY TypedGroup DEF Defaulted, Stamps
<1> QED
  BY <1>1, <1>2, TypedJoined

\* The tables of 0002 and 0003 with another type for the columns these change.
LEMMA HsCodesTyped ==
  ASSUME NEW type
  PROVE  Typed(Taxonomy["hs_codes"].columns, {"name_ko", "name_en"}, type) =
           Table(Required({"code"}, Varchar(10)) ++ Required({"name_ko"}, type)
             ++ Optional({"name_en"}, type) ++ Optional({"category_id"}, Bigint),
             {{"code"}}, OfCategory).columns
<1> DEFINE names == {"name_ko", "name_en"}
           columns == Required({"code"}, Varchar(10)) ++ Required({"name_ko"}, Varchar(255))
             ++ Optional({"name_en"}, Varchar(255)) ++ Optional({"category_id"}, Bigint)
           after == Required({"code"}, Varchar(10)) ++ Required({"name_ko"}, type)
             ++ Optional({"name_en"}, type) ++ Optional({"category_id"}, Bigint)
<1>1. Taxonomy["hs_codes"] = Table(columns, {{"code"}}, OfCategory)
  BY DEF Taxonomy
<1>2. IsColumns(columns)
  BY AGroup, JoinedColumns
<1>3. /\ Typed(Required({"code"}, Varchar(10)), names, type) = Required({"code"}, Varchar(10))
      /\ Typed(Required({"name_ko"}, Varchar(255)), names, type) = Required({"name_ko"}, type)
      /\ Typed(Optional({"name_en"}, Varchar(255)), names, type) = Optional({"name_en"}, type)
      /\ Typed(Optional({"category_id"}, Bigint), names, type) = Optional({"category_id"}, Bigint)
  BY TypedGroup DEF Required, Optional
<1>4. Typed(columns, names, type) = after
  BY <1>3, TypedJoined
<1> HIDE DEF columns, after
<1> QED
  BY <1>1, <1>2, <1>4, TypedStart DEF after

LEMMA MetricsTyped ==
  ASSUME NEW type
  PROVE  Typed(Snapshots["keyword_metrics"].columns, {"growth_rate_3m", "growth_rate_6m"}, type) =
           Table(Required({"keyword_id"}, Bigint) ++ Required({"snapshot_date"}, Day)
             ++ Optional({"monthly_search_volume", "naver_shopping_count", "blog_post_count", "youtube_video_count"}, Int4)
             ++ Optional({"competition_score"}, Numeric(6, 3))
             ++ Optional({"growth_rate_3m", "growth_rate_6m"}, type),
             {{"keyword_id", "snapshot_date"}}, OfKeyword("CASCADE")).columns
<1> DEFINE names == {"growth_rate_3m", "growth_rate_6m"}
           counts == Optional({"monthly_search_volume", "naver_shopping_count", "blog_post_count", "youtube_video_count"}, Int4)
           columns == Required({"keyword_id"}, Bigint) ++ Required({"snapshot_date"}, Day) ++ counts
             ++ Optional({"competition_score"}, Numeric(6, 3)) ++ Optional(names, Numeric(7, 4))
           after == Required({"keyword_id"}, Bigint) ++ Required({"snapshot_date"}, Day) ++ counts
             ++ Optional({"competition_score"}, Numeric(6, 3)) ++ Optional(names, type)
<1>1. Snapshots["keyword_metrics"] = Table(columns, {{"keyword_id", "snapshot_date"}}, OfKeyword("CASCADE"))
  BY DEF Snapshots
<1>2. IsColumns(columns)
  BY AGroup, JoinedColumns
<1>3. /\ Typed(Required({"keyword_id"}, Bigint), names, type) = Required({"keyword_id"}, Bigint)
      /\ Typed(Required({"snapshot_date"}, Day), names, type) = Required({"snapshot_date"}, Day)
      /\ Typed(counts, names, type) = counts
      /\ Typed(Optional({"competition_score"}, Numeric(6, 3)), names, type) = Optional({"competition_score"}, Numeric(6, 3))
      /\ Typed(Optional(names, Numeric(7, 4)), names, type) = Optional(names, type)
  BY TypedGroup DEF Required, Optional
<1> HIDE DEF counts
<1>4. Typed(columns, names, type) = after
  BY <1>3, TypedJoined
<1>5. names \cap {"id", "created_at", "updated_at"} = {}
  OBVIOUS
<1> HIDE DEF columns, after, names
<1>6. Typed(Snapshots["keyword_metrics"].columns, names, type) =
        Table(after, {{"keyword_id", "snapshot_date"}}, OfKeyword("CASCADE")).columns
  BY <1>1, <1>2, <1>4, <1>5, TypedStart
<1> QED
  BY <1>6 DEF after, names, counts

\* A table with more columns.
LEMMA TableWith ==
  ASSUME NEW columns, NEW more, NEW unique, NEW refs
  PROVE  With(Table(columns, unique, refs), Table(columns, unique, refs).columns ++ more) =
           Table(columns ++ more, unique, refs)
<1> DEFINE start == Defaulted({"id"}, Bigint) ++ Stamps
<1>1. ASSUME NEW c
      PROVE  /\ Table(c, unique, refs).columns = start ++ c
             /\ Table(c, unique, refs).unique = {{"id"}} \cup unique /\ Table(c, unique, refs).refs = refs
             /\ Table(c, unique, refs) =
                  [columns |-> start ++ c, unique |-> {{"id"}} \cup unique, refs |-> refs]
  BY DEF Table
<1> DEFINE old == Table(columns, unique, refs)
           all == columns ++ more
<1>2. (start ++ columns) ++ more = start ++ all
  BY JoinedInARow
<1>3. old.columns = start ++ columns /\ old.unique = {{"id"}} \cup unique /\ old.refs = refs
  BY <1>1
<1> HIDE DEF start, old, all
<1>4. With(old, old.columns ++ more) =
        [columns |-> start ++ all, unique |-> {{"id"}} \cup unique, refs |-> refs]
  BY <1>2, <1>3 DEF With
<1>5. With(old, old.columns ++ more) = Table(all, unique, refs)
  BY <1>1, <1>4
<1> QED
  BY <1>5 DEF old, all

-----------------------------------------------------------------------------
(* The tables that migrations touch, step by step *)

\* A table to which a migration adds columns, and one that it creates.
LEMMA TouchedTable ==
  ASSUME NEW r \in Growing, NEW T, NEW t, NEW more, Grows(Migrations[r], T, On(t, more)),
         NEW before, before = Known[r - 1], t \in DOMAIN before, NEW old, old = before[t]
  PROVE  t \in DOMAIN Known[r] /\ Known[r][t] = With(old, old.columns ++ more)
<1> DEFINE s == Known[r - 1]
           up == Migrations[r].up
<1>1. r \in 1..16 /\ r - 1 \in 0..16
  BY DEF Growing
<1>2. Known[r] = Applied(s, up) /\ IsSchema(s)
  BY <1>1, KnownStep, KnownSchemas
<1>3. Adding(up) /\ up.add = On(t, more)
  BY DEF Grows
<1>4. At(up.add, t, <<>>) = more
  <2>1. DOMAIN up.add = {t} /\ up.add[t] = more
    BY <1>3, OnDomain
  <2> HIDE DEF up
  <2> QED
    BY <2>1 DEF At
<1> HIDE DEF s, up
<1>5. t \in DOMAIN s
  BY DEF s
<1>6. Applied(s, up)[t] = With(s[t], s[t].columns ++ At(up.add, t, <<>>))
  BY <1>2, <1>3, <1>5, AddedTable
<1>7. DOMAIN Applied(s, up) = DOMAIN s \cup DOMAIN up.create
  BY <1>2, <1>3, AddedSchema
<1> QED
  BY <1>2, <1>4, <1>5, <1>6, <1>7 DEF s

LEMMA NewTable ==
  ASSUME NEW r \in Growing, NEW T, NEW A, Grows(Migrations[r], T, A),
         NEW t \in DOMAIN T, t \notin DOMAIN A, t \notin DOMAIN Known[r - 1]
  PROVE  t \in DOMAIN Known[r] /\ Known[r][t] = T[t]
<1> DEFINE s == Known[r - 1]
           up == Migrations[r].up
<1>1. r \in 1..16 /\ r - 1 \in 0..16
  BY DEF Growing
<1>2. Known[r] = Applied(s, up) /\ IsSchema(s)
  BY <1>1, KnownStep, KnownSchemas
<1>3. Adding(up) /\ up.create = T /\ up.add = A
  BY DEF Grows
<1> HIDE DEF s, up
<1>4. t \notin DOMAIN s
  BY DEF s
<1>5. Applied(s, up)[t] = T[t]
  BY <1>3, <1>4, CreatedTable
<1>6. DOMAIN Applied(s, up) = DOMAIN s \cup DOMAIN up.create
  BY <1>2, <1>3, AddedSchema
<1> QED
  BY <1>2, <1>3, <1>5, <1>6

\* Each table is created once.
LEMMA CreatedOnce ==
  ASSUME NEW r \in 1..16, NEW k \in 1..16, NEW t, t \in NewTables[k], t \in NewTables[r]
  PROVE  k = r
  BY DEF NewTables, FirstNames

\* Before its migration a table is not there.
LEMMA NotYet ==
  ASSUME NEW r \in 1..16, NEW t \in NewTables[r]
  PROVE  t \notin DOMAIN Known[r - 1] /\ t \in DOMAIN Known[r]
<1>1. t \in DOMAIN Known[r]
  BY KnownSchemas
<1>2. ASSUME t \in DOMAIN Known[r - 1] PROVE FALSE
  <2>1. r - 1 \in 0..16
    OBVIOUS
  <2>2. PICK k \in 1..(r - 1) : t \in NewTables[k]
    BY <1>2, <2>1, KnownSchemas
  <2>3. k \in 1..16 /\ k # r
    OBVIOUS
  <2> QED
    BY <2>2, <2>3, CreatedOnce
<1> QED
  BY <1>1, <1>2

\* A table of 0001 is as its group has it.
LEMMA InitialTable ==
  ASSUME NEW t
  PROVE  /\ t \in DOMAIN Taxonomy => InitialTables[t] = Taxonomy[t]
         /\ t \in DOMAIN Searches => InitialTables[t] = Searches[t]
         /\ t \in DOMAIN Snapshots => InitialTables[t] = Snapshots[t]
         /\ t \in DOMAIN Sourcing => InitialTables[t] = Sourcing[t]
         /\ t \in DOMAIN Outcomes => InitialTables[t] = Outcomes[t]
<1> DEFINE two == Taxonomy ++ Searches
           three == two ++ Snapshots
           four == three ++ Sourcing
<1>1. InitialTables = four ++ Outcomes
  BY DEF InitialTables
<1>2. /\ t \in DOMAIN Taxonomy => two[t] = Taxonomy[t]
      /\ t \in DOMAIN Searches => two[t] = Searches[t]
      /\ DOMAIN two = DOMAIN Taxonomy \cup DOMAIN Searches
  <2>1. DOMAIN Taxonomy \cap DOMAIN Searches = {}
    BY TaxonomyTables, SearchesTables
  <2>2. t \in DOMAIN Taxonomy => two[t] = Taxonomy[t]
    BY JoinedLeft
  <2>3. t \in DOMAIN Searches => two[t] = Searches[t]
    BY <2>1, JoinedRight
  <2>4. DOMAIN two = DOMAIN Taxonomy \cup DOMAIN Searches
    BY JoinedDomains
  <2> QED
    BY <2>2, <2>3, <2>4
<1> HIDE DEF two
<1>3. /\ t \in DOMAIN two => three[t] = two[t]
      /\ t \in DOMAIN Snapshots => three[t] = Snapshots[t]
      /\ DOMAIN three = DOMAIN two \cup DOMAIN Snapshots
  <2>1. DOMAIN two \cap DOMAIN Snapshots = {}
    BY <1>2, TaxonomyTables, SearchesTables, SnapshotsTables
  <2>2. t \in DOMAIN two => three[t] = two[t]
    BY JoinedLeft
  <2>3. t \in DOMAIN Snapshots => three[t] = Snapshots[t]
    BY <2>1, JoinedRight
  <2>4. DOMAIN three = DOMAIN two \cup DOMAIN Snapshots
    BY JoinedDomains
  <2> QED
    BY <2>2, <2>3, <2>4
<1> HIDE DEF three
<1>4. /\ t \in DOMAIN three => four[t] = three[t]
      /\ t \in DOMAIN Sourcing => four[t] = Sourcing[t]
      /\ DOMAIN four = DOMAIN three \cup DOMAIN Sourcing
  <2>1. DOMAIN three \cap DOMAIN Sourcing = {}
    BY <1>2, <1>3, TaxonomyTables, SearchesTables, SnapshotsTables, SourcingTables
  <2>2. t \in DOMAIN three => four[t] = three[t]
    BY JoinedLeft
  <2>3. t \in DOMAIN Sourcing => four[t] = Sourcing[t]
    BY <2>1, JoinedRight
  <2>4. DOMAIN four = DOMAIN three \cup DOMAIN Sourcing
    BY JoinedDomains
  <2> QED
    BY <2>2, <2>3, <2>4
<1> HIDE DEF four
<1>5. /\ t \in DOMAIN four => InitialTables[t] = four[t]
      /\ t \in DOMAIN Outcomes => InitialTables[t] = Outcomes[t]
      /\ DOMAIN InitialTables = DOMAIN four \cup DOMAIN Outcomes
  <2>1. DOMAIN four \cap DOMAIN Outcomes = {}
    BY <1>2, <1>3, <1>4, TaxonomyTables, SearchesTables, SnapshotsTables, SourcingTables, OutcomesTables
  <2>2. t \in DOMAIN four => InitialTables[t] = four[t]
    BY JoinedLeft, <1>1
  <2>3. t \in DOMAIN Outcomes => InitialTables[t] = Outcomes[t]
    BY <2>1, JoinedRight, <1>1
  <2>4. DOMAIN InitialTables = DOMAIN four \cup DOMAIN Outcomes
    BY JoinedDomains, <1>1
  <2> QED
    BY <2>2, <2>3, <2>4
<1> QED
  BY <1>2, <1>3, <1>4, <1>5

\* The first revision has the tables of 0001.
LEMMA FirstTable == ASSUME NEW t \in FirstNames PROVE t \in DOMAIN Known[1] /\ Known[1][t] = InitialTables[t]
<1>1. t \in NewTables[1] /\ 1 \in 1..16 /\ 1 \in Growing
  BY DEF NewTables, Growing
<1>2. t \notin DOMAIN Known[1 - 1]
  BY <1>1, NotYet
<1>3. t \in DOMAIN InitialTables /\ t \notin DOMAIN <<>>
  BY InitialNames
<1> QED
  BY <1>1, <1>2, <1>3, First, NewTable

\* The tables that migrations change, at the revisions where they do.
LEMMA KeywordsTable ==
  /\ "keywords" \in DOMAIN Known[5] /\ Known[5]["keywords"] = Searches["keywords"]
  /\ "keywords" \in DOMAIN Known[6] /\ Known[6]["keywords"] = Keyword
<1>1. "keywords" \in DOMAIN Known[1] /\ Known[1]["keywords"] = Searches["keywords"]
  BY FirstTable, InitialTable, SearchesTables DEF FirstNames
<1>2. \A k \in 2..5 : "keywords" \notin Touched[k]
  BY DEF Touched
<1>3. "keywords" \in DOMAIN Known[5] /\ Known[5]["keywords"] = Searches["keywords"]
  BY <1>1, <1>2, Untouched
<1> DEFINE more == Optional({"chinese_term"}, Text)
<1>4. /\ "keywords" \in DOMAIN Known[6]
      /\ Known[6]["keywords"] = With(Searches["keywords"], Searches["keywords"].columns ++ more)
  <2>1. 6 \in Growing /\ Known[5] = Known[6 - 1]
    BY DEF Growing
  <2>2. Grows(Migrations[6], <<>>, On("keywords", more))
    BY ColumnsGrow
  <2> HIDE DEF more
  <2> QED
    BY <1>3, <2>1, <2>2, TouchedTable
<1>5. Keyword = With(Searches["keywords"], Searches["keywords"].columns ++ more)
  <2> DEFINE first == Required({"term"}, Varchar(255)) ++ Optional({"category_id"}, Bigint)
    ++ Defaulted({"is_seed"}, Bool)
    ++ Defaulted({"status"}, Enum("keyword_status")) ++ Optional({"last_collected_at"}, Instant)
  <2>1. Searches["keywords"] = Table(first, {{"term"}}, OfCategory)
    BY DEF Searches
  <2>2. Keyword = Table(first ++ more, {{"term"}}, OfCategory)
    BY DEF Keyword
  <2> HIDE DEF first, more
  <2> QED
    BY <2>1, <2>2, TableWith
<1> QED
  BY <1>3, <1>4, <1>5

LEMMA ScoresTable ==
  /\ "opportunity_scores" \in DOMAIN Known[4]
  /\ Known[4]["opportunity_scores"] = Snapshots["opportunity_scores"]
  /\ "opportunity_scores" \in DOMAIN Known[5] /\ Known[5]["opportunity_scores"] = OpportunityScore
<1>1. /\ "opportunity_scores" \in DOMAIN Known[1]
      /\ Known[1]["opportunity_scores"] = Snapshots["opportunity_scores"]
  BY FirstTable, InitialTable, SnapshotsTables DEF FirstNames
<1>2. \A k \in 2..4 : "opportunity_scores" \notin Touched[k]
  BY DEF Touched
<1>3. /\ "opportunity_scores" \in DOMAIN Known[4]
      /\ Known[4]["opportunity_scores"] = Snapshots["opportunity_scores"]
  BY <1>1, <1>2, Untouched
<1> DEFINE more == Optional({"details"}, Jsonb)
           old == Snapshots["opportunity_scores"]
<1>4. /\ "opportunity_scores" \in DOMAIN Known[5]
      /\ Known[5]["opportunity_scores"] = With(old, old.columns ++ more)
  <2>1. 5 \in Growing /\ Known[4] = Known[5 - 1]
    BY DEF Growing
  <2>2. Grows(Migrations[5], <<>>, On("opportunity_scores", more))
    BY ColumnsGrow
  <2>3. "opportunity_scores" \in DOMAIN Known[4] /\ Known[4]["opportunity_scores"] = old
    BY <1>3
  <2> HIDE DEF more, old
  <2> QED
    BY <2>1, <2>2, <2>3, TouchedTable
<1>5. OpportunityScore = With(old, old.columns ++ more)
  <2> DEFINE first == Required({"keyword_id"}, Bigint) ++ Required({"snapshot_date"}, Day)
      ++ Required({"total_score", "demand_score", "growth_score", "competition_score", "customs_score",
                   "trend_score", "stability_score"}, Numeric(6, 2))
      ++ Defaulted({"is_excluded"}, Bool) ++ Optional({"exclusion_reasons"}, Text)
             unique == {{"keyword_id", "snapshot_date"}}
  <2>1. old = Table(first, unique, OfKeyword("CASCADE"))
    BY DEF Snapshots
  <2>2. OpportunityScore = Table(first ++ more, unique, OfKeyword("CASCADE"))
    BY DEF OpportunityScore
  <2> HIDE DEF first, more, old, unique
  <2> QED
    BY <2>1, <2>2, TableWith
<1> QED
  BY <1>3, <1>4, <1>5

LEMMA PagesTable ==
  /\ "detail_pages" \in DOMAIN Known[15] /\ Known[15]["detail_pages"] = PageTables["detail_pages"]
  /\ "detail_pages" \in DOMAIN Known[16] /\ Known[16]["detail_pages"] = DetailPage
<1>1. "detail_pages" \in DOMAIN Known[15] /\ Known[15]["detail_pages"] = PageTables["detail_pages"]
  <2>1. 15 \in Growing /\ 15 \in 1..16 /\ "detail_pages" \in NewTables[15]
    BY DEF Growing, NewTables
  <2>2. "detail_pages" \notin DOMAIN Known[15 - 1] /\ "detail_pages" \notin DOMAIN <<>>
    BY <2>1, NotYet
  <2> QED
    BY <2>1, <2>2, PagesGrow, NewTable
<1> DEFINE more == Defaulted({"template_name"}, Varchar(64))
           old == PageTables["detail_pages"]
<1>4. "detail_pages" \in DOMAIN Known[16] /\ Known[16]["detail_pages"] = With(old, old.columns ++ more)
  <2>1. 16 \in Growing /\ Known[15] = Known[16 - 1]
    BY DEF Growing
  <2>2. Grows(Migrations[16], <<>>, On("detail_pages", more))
    BY TemplateGrows
  <2>3. "detail_pages" \in DOMAIN Known[15] /\ old = Known[15]["detail_pages"]
    BY <1>1
  <2> DEFINE before == Known[15]
  <2>4. before = Known[16 - 1] /\ "detail_pages" \in DOMAIN before /\ old = before["detail_pages"]
    BY <2>1, <2>3
  <2> HIDE DEF more, old, before
  <2> QED
    BY <2>1, <2>2, <2>4, TouchedTable
<1>5. DetailPage = With(old, old.columns ++ more)
  <2> DEFINE first == Required({"source_product_id"}, Bigint) ++ Defaulted({"status"}, Varchar(16))
       ++ Optional({"title_ko"}, Varchar(200)) ++ Optional({"props"}, Jsonb)
       ++ Optional({"image_path"}, Varchar(255)) ++ Optional({"failure_reason"}, Text)
             refs == {Ref("source_product_id", "source_products", "id", "CASCADE")}
  <2>1. old = Table(first, {}, refs)
    BY DEF PageTables
  <2>2. DetailPage = Table(first ++ more, {}, refs)
    BY DEF DetailPage
  <2> HIDE DEF first, more, old, refs
  <2> QED
    BY <2>1, <2>2, TableWith
<1> QED
  BY <1>1, <1>4, <1>5

LEMMA HsCodesTable ==
  /\ "hs_codes" \in DOMAIN Known[1] /\ Known[1]["hs_codes"] = Taxonomy["hs_codes"]
  /\ "hs_codes" \in DOMAIN Known[2] /\ Known[2]["hs_codes"] = HsCode
<1>1. "hs_codes" \in DOMAIN Known[1] /\ Known[1]["hs_codes"] = Taxonomy["hs_codes"]
  BY FirstTable, InitialTable, TaxonomyTables DEF FirstNames
<1> DEFINE old == Taxonomy["hs_codes"]
           names == {"name_ko", "name_en"}
<1>2. "hs_codes" \in DOMAIN Known[2] /\ Known[2]["hs_codes"] = With(old, Typed(old.columns, names, Text))
  <2>1. IsSchema(Known[1]) /\ Known[2] = Applied(Known[1], Retypes("hs_codes", names, Text))
    BY KnownSchemas, KnownStep, Retypings
  <2> HIDE DEF names
  <2> QED
    BY <1>1, <2>1, Retyped
<1>3. HsCode = With(old, Typed(old.columns, names, Text))
  <2> DEFINE after == Required({"code"}, Varchar(10)) ++ Required({"name_ko"}, Text)
             ++ Optional({"name_en"}, Text) ++ Optional({"category_id"}, Bigint)
  <2>1. Typed(old.columns, names, Text) = Table(after, {{"code"}}, OfCategory).columns
    BY HsCodesTyped
  <2>2. HsCode = Table(after, {{"code"}}, OfCategory)
    BY DEF HsCode
  <2>3. /\ old.unique = Table(after, {{"code"}}, OfCategory).unique
        /\ old.refs = Table(after, {{"code"}}, OfCategory).refs
    <3>1. \E first : old = Table(first, {{"code"}}, OfCategory)
      BY DEF Taxonomy
    <3> HIDE DEF old, after
    <3> QED
      BY <3>1 DEF Table
  <2>4. HsCode = [columns |-> HsCode.columns, unique |-> HsCode.unique, refs |-> HsCode.refs]
    <3> HIDE DEF after
    <3> QED
      BY <2>2 DEF Table
  <2> HIDE DEF old, after, names
  <2> QED
    BY <2>1, <2>2, <2>3, <2>4 DEF With
<1> QED
  BY <1>1, <1>2, <1>3

\* A table whose columns are replaced.
LEMMA TableParts ==
  ASSUME NEW first, NEW after, NEW unique, NEW refs
  PROVE  With(Table(first, unique, refs), Table(after, unique, refs).columns) = Table(after, unique, refs)
  BY DEF Table, With

LEMMA MetricsTable ==
  /\ "keyword_metrics" \in DOMAIN Known[2] /\ Known[2]["keyword_metrics"] = Snapshots["keyword_metrics"]
  /\ "keyword_metrics" \in DOMAIN Known[3]
  /\ Known[3]["keyword_metrics"] = With(Snapshots["keyword_metrics"],
       Typed(Snapshots["keyword_metrics"].columns, {"growth_rate_3m", "growth_rate_6m"}, Numeric(10, 4)))
  /\ "keyword_metrics" \in DOMAIN Known[4] /\ Known[4]["keyword_metrics"] = KeywordMetric
<1>1. "keyword_metrics" \in DOMAIN Known[1] /\ Known[1]["keyword_metrics"] = Snapshots["keyword_metrics"]
  BY FirstTable, InitialTable, SnapshotsTables DEF FirstNames
<1>2. \A k \in 2..2 : "keyword_metrics" \notin Touched[k]
  BY DEF Touched
<1>3. "keyword_metrics" \in DOMAIN Known[2] /\ Known[2]["keyword_metrics"] = Snapshots["keyword_metrics"]
  BY <1>1, <1>2, Untouched
<1> DEFINE old == Snapshots["keyword_metrics"]
           rates == {"growth_rate_3m", "growth_rate_6m"}
           more == Optional({"shopping_avg_price_krw"}, Int4)
           unique == {{"keyword_id", "snapshot_date"}}
           refs == OfKeyword("CASCADE")
           middle == Required({"keyword_id"}, Bigint) ++ Required({"snapshot_date"}, Day)
             ++ Optional({"monthly_search_volume", "naver_shopping_count", "blog_post_count", "youtube_video_count"}, Int4)
             ++ Optional({"competition_score"}, Numeric(6, 3)) ++ Optional(rates, Numeric(10, 4))
           wider == With(old, Typed(old.columns, rates, Numeric(10, 4)))
<1>4. "keyword_metrics" \in DOMAIN Known[3] /\ Known[3]["keyword_metrics"] = wider
  <2>1. IsSchema(Known[2]) /\ Known[3] = Applied(Known[2], Retypes("keyword_metrics", rates, Numeric(10, 4)))
    BY KnownSchemas, KnownStep, Retypings
  <2>2. old = Known[2]["keyword_metrics"]
    BY <1>3
  <2> HIDE DEF rates, old
  <2> QED
    BY <1>3, <2>1, <2>2, Retyped
<1>5. wider = Table(middle, unique, refs)
  <2>1. Typed(old.columns, rates, Numeric(10, 4)) = Table(middle, unique, refs).columns
    BY MetricsTyped
  <2>2. \E first : old = Table(first, unique, refs)
    BY DEF Snapshots
  <2> HIDE DEF old, middle, rates, unique, refs
  <2> QED
    BY <2>1, <2>2, TableParts
<1>6. "keyword_metrics" \in DOMAIN Known[4] /\ Known[4]["keyword_metrics"] = With(wider, wider.columns ++ more)
  <2>1. 4 \in Growing /\ Grows(Migrations[4], <<>>, On("keyword_metrics", more))
    BY ColumnsGrow DEF Growing
  <2> DEFINE before == Known[3]
  <2>2. before = Known[4 - 1] /\ "keyword_metrics" \in DOMAIN before /\ wider = before["keyword_metrics"]
    BY <1>4
  <2> HIDE DEF more, wider, before
  <2> QED
    BY <2>1, <2>2, TouchedTable
<1>7. KeywordMetric = Table(middle ++ more, unique, refs)
  BY DEF KeywordMetric
<1>8. KeywordMetric = With(wider, wider.columns ++ more)
  <2> HIDE DEF wider, middle, more, unique, refs
  <2> QED
    BY <1>5, <1>7, TableWith
<1> QED
  BY <1>3, <1>4, <1>6, <1>8

-----------------------------------------------------------------------------
(* The columns of products *)

\* The columns that 0007 ... 0011 add.
Shipping == Optional({"china_domestic_shipping_krw", "intl_shipping_krw"}, Int4)
DutyRate == Optional({"customs_duty_pct"}, Numeric(5, 4))
SellPrice == Optional({"expected_sell_price_krw"}, Int4)
AdCost == Optional({"ad_cost_pct"}, Numeric(5, 4))

\* Products with these columns besides the first.
ProductsWith(columns) == Table(columns, {}, OfKeyword("SET NULL"))

\* A migration that adds columns to products.
LEMMA MoreOfProducts ==
  ASSUME NEW r \in {7, 8, 10, 11, 12}, NEW q, q = r - 1, NEW T, NEW columns, NEW more,
         Grows(Migrations[r], T, On("products", more)),
         "products" \in DOMAIN Known[q], Known[q]["products"] = ProductsWith(columns)
  PROVE  "products" \in DOMAIN Known[r] /\ Known[r]["products"] = ProductsWith(columns ++ more)
<1> DEFINE before == Known[q]
           old == ProductsWith(columns)
<1>1. r \in Growing /\ before = Known[r - 1] /\ "products" \in DOMAIN before /\ old = before["products"]
  BY DEF Growing
<1>2. ProductsWith(columns ++ more) = With(old, old.columns ++ more)
  <2> DEFINE refs == OfKeyword("SET NULL")
             none == {}
  <2>1. old = Table(columns, none, refs) /\ ProductsWith(columns ++ more) = Table(columns ++ more, none, refs)
    BY DEF ProductsWith
  <2> HIDE DEF old, refs, none
  <2> QED
    BY <2>1, TableWith
<1> HIDE DEF before, old
<1> QED
  BY <1>1, <1>2, TouchedTable

\* The six steps of products, up to the table that app/models/product.py declares.
LEMMA ProductsTable ==
  /\ "products" \in DOMAIN Known[6] /\ Known[6]["products"] = ProductsWith(Offer)
  /\ "products" \in DOMAIN Known[7] /\ Known[7]["products"] = ProductsWith(Offer ++ Shipping)
  /\ "products" \in DOMAIN Known[8] /\ Known[8]["products"] = ProductsWith(Offer ++ Shipping ++ DutyRate)
  /\ "products" \in DOMAIN Known[9] /\ Known[9]["products"] = ProductsWith(Offer ++ Shipping ++ DutyRate)
  /\ "products" \in DOMAIN Known[10]
  /\ Known[10]["products"] = ProductsWith(Offer ++ Shipping ++ DutyRate ++ SellPrice)
  /\ "products" \in DOMAIN Known[11]
  /\ Known[11]["products"] = ProductsWith(Offer ++ Shipping ++ DutyRate ++ SellPrice ++ AdCost)
  /\ "products" \in DOMAIN Known[12] /\ Known[12]["products"] = Product
<1>1. "products" \in DOMAIN Known[1] /\ Known[1]["products"] = Sourcing["products"]
  BY FirstTable, InitialTable, SourcingTables DEF FirstNames
<1>2. /\ \A k \in (1 + 1)..6 : "products" \notin Touched[k]
      /\ \A k \in (8 + 1)..9 : "products" \notin Touched[k]
  BY DEF Touched
<1>3. "products" \in DOMAIN Known[6] /\ Known[6]["products"] = Sourcing["products"]
  BY <1>1, <1>2, Untouched
<1>4. Sourcing["products"] = ProductsWith(Offer)
  BY DEF Sourcing, ProductsWith
<1>5. /\ Grows(Migrations[7], <<>>, On("products", Shipping))
      /\ Grows(Migrations[8], <<>>, On("products", DutyRate))
      /\ Grows(Migrations[10], <<>>, On("products", SellPrice))
      /\ Grows(Migrations[11], <<>>, On("products", AdCost))
      /\ Grows(Migrations[12], RateTable, On("products", RateColumns))
  BY ColumnsGrow, RatesGrow DEF Shipping, DutyRate, SellPrice, AdCost
<1> DEFINE two == Offer ++ Shipping
           three == two ++ DutyRate
           four == three ++ SellPrice
           five == four ++ AdCost
           six == five ++ RateColumns
<1>7. "products" \in DOMAIN Known[7] /\ Known[7]["products"] = ProductsWith(two)
  <2>1. 6 = 7 - 1 /\ 7 \in {7, 8, 10, 11, 12}
    OBVIOUS
  <2> QED
    BY <1>3, <1>4, <1>5, <2>1, MoreOfProducts
<1> HIDE DEF two
<1>8. "products" \in DOMAIN Known[8] /\ Known[8]["products"] = ProductsWith(three)
  <2>1. 7 = 8 - 1 /\ 8 \in {7, 8, 10, 11, 12}
    OBVIOUS
  <2> QED
    BY <1>5, <1>7, <2>1, MoreOfProducts
<1>9. "products" \in DOMAIN Known[9] /\ Known[9]["products"] = ProductsWith(three)
  BY <1>2, <1>8, Untouched
<1> HIDE DEF three
<1>10. "products" \in DOMAIN Known[10] /\ Known[10]["products"] = ProductsWith(four)
  <2>1. 9 = 10 - 1 /\ 10 \in {7, 8, 10, 11, 12}
    OBVIOUS
  <2> QED
    BY <1>5, <1>9, <2>1, MoreOfProducts
<1> HIDE DEF four
<1>11. "products" \in DOMAIN Known[11] /\ Known[11]["products"] = ProductsWith(five)
  <2>1. 10 = 11 - 1 /\ 11 \in {7, 8, 10, 11, 12}
    OBVIOUS
  <2> QED
    BY <1>5, <1>10, <2>1, MoreOfProducts
<1> HIDE DEF five
<1>12. "products" \in DOMAIN Known[12] /\ Known[12]["products"] = ProductsWith(six)
  <2>1. 11 = 12 - 1 /\ 12 \in {7, 8, 10, 11, 12}
    OBVIOUS
  <2> QED
    BY <1>5, <1>11, <2>1, MoreOfProducts
<1>13. Product = ProductsWith(six)
  <2> DEFINE last == Shipping ++ DutyRate ++ SellPrice ++ AdCost ++ RateColumns
  <2>1. Product = ProductsWith(Offer ++ last)
    BY DEF Product, ProductsWith, Offer, Shipping, DutyRate, SellPrice, AdCost, RateColumns
  <2>2. three = Offer ++ (Shipping ++ DutyRate)
    BY JoinedInARow DEF three, two
  <2>3. four = Offer ++ (Shipping ++ DutyRate ++ SellPrice)
    BY <2>2, JoinedInARow DEF four
  <2>4. five = Offer ++ (Shipping ++ DutyRate ++ SellPrice ++ AdCost)
    BY <2>3, JoinedInARow DEF five
  <2>5. six = Offer ++ last
    BY <2>4, JoinedInARow
  <2> QED
    BY <2>1, <2>5
<1> QED
  BY <1>3, <1>4, <1>7, <1>8, <1>9, <1>10, <1>11, <1>12, <1>13 DEF two, three, four, five

-----------------------------------------------------------------------------
(* What is added is new, and the way back takes it away *)

\* What a migration creates is not there before.
LEMMA CreatesNew ==
  ASSUME NEW r \in Growing
  PROVE  DOMAIN Migrations[r].up.create \cap DOMAIN Known[r - 1] = {}
<1>1. r \in 1..16 /\ DOMAIN Migrations[r].up.create = NewTables[r]
  BY AllGrow DEF Growing
<1> QED
  BY <1>1, NotYet

\* A migration that adds to a table columns which it lacks, and one that adds none.
LEMMA NewInTable ==
  ASSUME NEW r \in Growing, NEW T, NEW t, NEW more, Grows(Migrations[r], T, On(t, more)),
         NEW before, before = Known[r - 1], t \in DOMAIN before, NEW columns, columns = before[t].columns,
         \A c \in DOMAIN more : c \notin DOMAIN columns
  PROVE  AddsNew(before, Migrations[r].up)
<1>1. DOMAIN Migrations[r].up.create \cap DOMAIN before = {}
  BY CreatesNew
<1>2. Migrations[r].up.add = On(t, more)
  BY DEF Grows
<1>3. DOMAIN Migrations[r].up.add = {t} /\ Migrations[r].up.add[t] = more
  BY <1>2, OnDomain
<1>4. DOMAIN more \cap DOMAIN before[t].columns = {}
  OBVIOUS
<1> QED
  BY <1>1, <1>3, <1>4 DEF AddsNew

LEMMA NewOnly ==
  ASSUME NEW r \in {1, 9, 13, 14, 15}
  PROVE  AddsNew(Known[r - 1], Migrations[r].up)
<1>1. r \in Growing /\ Touched[r] = {}
  BY DEF Growing, Touched
<1>2. DOMAIN Migrations[r].up.add = {}
  BY <1>1, AllGrow
<1> QED
  BY <1>1, <1>2, CreatesNew DEF AddsNew

\* The five migrations of products, and the four of other tables, add new columns.
LEMMA ProductsDomain ==
  ASSUME NEW columns, NEW c, c \notin {"id", "created_at", "updated_at"}, c \notin DOMAIN columns
  PROVE  c \notin DOMAIN ProductsWith(columns).columns
  BY TableDomain DEF ProductsWith

LEMMA NewInProducts ==
  ASSUME NEW r \in {7, 8, 10, 11, 12}
  PROVE  AddsNew(Known[r - 1], Migrations[r].up)
<1> DEFINE new == {"china_domestic_shipping_krw", "intl_shipping_krw", "customs_duty_pct",
                   "expected_sell_price_krw", "ad_cost_pct", "unit_weight_kg", "shipping_method"}
           two == Offer ++ Shipping
           three == two ++ DutyRate
           four == three ++ SellPrice
           five == four ++ AdCost
<1>1. \A c \in new : c \notin DOMAIN Offer /\ c \notin {"id", "created_at", "updated_at"}
  BY JoinedDomain, GroupDomain DEF Offer
<1>2. /\ DOMAIN Shipping = {"china_domestic_shipping_krw", "intl_shipping_krw"}
      /\ DOMAIN DutyRate = {"customs_duty_pct"} /\ DOMAIN SellPrice = {"expected_sell_price_krw"}
      /\ DOMAIN AdCost = {"ad_cost_pct"} /\ DOMAIN RateColumns = {"unit_weight_kg", "shipping_method"}
  BY AGroup, RatesGrow DEF Shipping, DutyRate, SellPrice, AdCost
<1>3. /\ DOMAIN two = DOMAIN Offer \cup DOMAIN Shipping /\ DOMAIN three = DOMAIN two \cup DOMAIN DutyRate
      /\ DOMAIN four = DOMAIN three \cup DOMAIN SellPrice /\ DOMAIN five = DOMAIN four \cup DOMAIN AdCost
  <2>1. DOMAIN two = DOMAIN Offer \cup DOMAIN Shipping
    BY JoinedDomains
  <2> HIDE DEF two
  <2>2. DOMAIN three = DOMAIN two \cup DOMAIN DutyRate
    BY JoinedDomains
  <2> HIDE DEF three
  <2>3. DOMAIN four = DOMAIN three \cup DOMAIN SellPrice
    BY JoinedDomains
  <2> HIDE DEF four
  <2>4. DOMAIN five = DOMAIN four \cup DOMAIN AdCost
    BY JoinedDomains
  <2> QED
    BY <2>1, <2>2, <2>3, <2>4
<1>4. /\ Grows(Migrations[7], <<>>, On("products", Shipping))
      /\ Grows(Migrations[8], <<>>, On("products", DutyRate))
      /\ Grows(Migrations[10], <<>>, On("products", SellPrice))
      /\ Grows(Migrations[11], <<>>, On("products", AdCost))
      /\ Grows(Migrations[12], RateTable, On("products", RateColumns))
  BY ColumnsGrow, RatesGrow DEF Shipping, DutyRate, SellPrice, AdCost
<1>5. /\ "products" \in DOMAIN Known[6] /\ Known[6]["products"] = ProductsWith(Offer)
      /\ "products" \in DOMAIN Known[7] /\ Known[7]["products"] = ProductsWith(two)
      /\ "products" \in DOMAIN Known[9] /\ Known[9]["products"] = ProductsWith(three)
      /\ "products" \in DOMAIN Known[10] /\ Known[10]["products"] = ProductsWith(four)
      /\ "products" \in DOMAIN Known[11] /\ Known[11]["products"] = ProductsWith(five)
  BY ProductsTable
<1> HIDE DEF two, three, four, five
<1>6. ASSUME NEW n \in {7, 8, 10, 11, 12}, NEW T, NEW columns, NEW more,
             Grows(Migrations[n], T, On("products", more)),
             NEW before, before = Known[n - 1], "products" \in DOMAIN before,
             before["products"] = ProductsWith(columns),
             DOMAIN more \subseteq new, DOMAIN more \cap DOMAIN columns = {}
      PROVE  AddsNew(before, Migrations[n].up)
  <2>1. n \in Growing
    BY DEF Growing
  <2>2. ASSUME NEW c \in DOMAIN more PROVE c \notin DOMAIN before["products"].columns
    BY <1>1, <1>6, ProductsDomain
  <2> QED
    BY <1>6, <2>1, <2>2, NewInTable
<1>7. DOMAIN Offer \cap new = {}
  BY <1>1
<1>8. CASE r = 7
  <2>1. DOMAIN Shipping \subseteq new /\ DOMAIN Shipping \cap DOMAIN Offer = {} /\ r - 1 = 6
    BY <1>2, <1>7, <1>8
  <2> HIDE DEF new
  <2> QED
    BY <1>4, <1>5, <1>6, <1>8, <2>1
<1>9. CASE r = 8
  <2>1. DOMAIN DutyRate \subseteq new /\ DOMAIN DutyRate \cap DOMAIN two = {} /\ r - 1 = 7
    BY <1>2, <1>3, <1>7, <1>9
  <2> HIDE DEF new
  <2> QED
    BY <1>4, <1>5, <1>6, <1>9, <2>1
<1>10. CASE r = 10
  <2>1. DOMAIN SellPrice \subseteq new /\ DOMAIN SellPrice \cap DOMAIN three = {} /\ r - 1 = 9
    BY <1>2, <1>3, <1>7, <1>10
  <2> HIDE DEF new
  <2> QED
    BY <1>4, <1>5, <1>6, <1>10, <2>1
<1>11. CASE r = 11
  <2>1. DOMAIN AdCost \subseteq new /\ DOMAIN AdCost \cap DOMAIN four = {} /\ r - 1 = 10
    BY <1>2, <1>3, <1>7, <1>11
  <2> HIDE DEF new
  <2> QED
    BY <1>4, <1>5, <1>6, <1>11, <2>1
<1>12. CASE r = 12
  <2>1. DOMAIN RateColumns \subseteq new /\ DOMAIN RateColumns \cap DOMAIN five = {} /\ r - 1 = 11
    BY <1>2, <1>3, <1>7, <1>12
  <2> HIDE DEF new
  <2> QED
    BY <1>4, <1>5, <1>6, <1>12, <2>1
<1> QED
  BY <1>8, <1>9, <1>10, <1>11, <1>12

LEMMA NewElsewhere ==
  ASSUME NEW r \in {4, 5, 6, 16}
  PROVE  AddsNew(Known[r - 1], Migrations[r].up)
<1>1. /\ DOMAIN Optional({"shopping_avg_price_krw"}, Int4) = {"shopping_avg_price_krw"}
      /\ DOMAIN Optional({"details"}, Jsonb) = {"details"}
      /\ DOMAIN Optional({"chinese_term"}, Text) = {"chinese_term"}
      /\ DOMAIN Defaulted({"template_name"}, Varchar(64)) = {"template_name"}
  BY AGroup
<1>2. CASE r = 4
  <2> DEFINE old == Snapshots["keyword_metrics"].columns
             columns == Known[3]["keyword_metrics"].columns
             more == Optional({"shopping_avg_price_krw"}, Int4)
  <2>1. Known[3]["keyword_metrics"].columns = Typed(old, {"growth_rate_3m", "growth_rate_6m"}, Numeric(10, 4))
    BY MetricsTable DEF With
  <2>2. DOMAIN columns = DOMAIN old
    BY <2>1 DEF Typed
  <2>3. \A c \in DOMAIN more : c \notin DOMAIN columns
    BY <1>1, <2>2, AvgPriceNew
  <2>4. r \in Growing /\ Known[3] = Known[r - 1] /\ Grows(Migrations[r], <<>>, On("keyword_metrics", more))
    BY <1>2, ColumnsGrow DEF Growing
  <2>5. "keyword_metrics" \in DOMAIN Known[3]
    BY MetricsTable
  <2> HIDE DEF more
  <2> QED
    BY <1>2, <2>3, <2>4, <2>5, NewInTable
<1>3. CASE r = 5
  <2> DEFINE columns == Known[4]["opportunity_scores"].columns
             more == Optional({"details"}, Jsonb)
  <2>3. \A c \in DOMAIN more : c \notin DOMAIN columns
    BY <1>1, ScoresTable, DetailsNew
  <2>4. r \in Growing /\ Known[4] = Known[r - 1] /\ Grows(Migrations[r], <<>>, On("opportunity_scores", more))
    BY <1>3, ColumnsGrow DEF Growing
  <2>5. "opportunity_scores" \in DOMAIN Known[4]
    BY ScoresTable
  <2> HIDE DEF more
  <2> QED
    BY <1>3, <2>3, <2>4, <2>5, NewInTable
<1>4. CASE r = 6
  <2> DEFINE columns == Known[5]["keywords"].columns
             more == Optional({"chinese_term"}, Text)
  <2>3. \A c \in DOMAIN more : c \notin DOMAIN columns
    BY <1>1, KeywordsTable, ChineseTermNew
  <2>4. r \in Growing /\ Known[5] = Known[r - 1] /\ Grows(Migrations[r], <<>>, On("keywords", more))
    BY <1>4, ColumnsGrow DEF Growing
  <2>5. "keywords" \in DOMAIN Known[5]
    BY KeywordsTable
  <2> HIDE DEF more
  <2> QED
    BY <1>4, <2>3, <2>4, <2>5, NewInTable
<1>5. CASE r = 16
  <2> DEFINE columns == Known[15]["detail_pages"].columns
             more == Defaulted({"template_name"}, Varchar(64))
  <2>3. \A c \in DOMAIN more : c \notin DOMAIN columns
    BY <1>1, PagesTable, TemplateNew
  <2>4. r \in Growing /\ Known[15] = Known[r - 1] /\ Grows(Migrations[r], <<>>, On("detail_pages", more))
    BY <1>5, TemplateGrows DEF Growing
  <2>5. "detail_pages" \in DOMAIN Known[15]
    BY PagesTable
  <2> HIDE DEF more
  <2> QED
    BY <1>5, <2>3, <2>4, <2>5, NewInTable
<1> QED
  BY <1>2, <1>3, <1>4, <1>5

\* Every migration that does not change types adds only what is new.
LEMMA AllNew ==
  ASSUME NEW r \in Growing
  PROVE  AddsNew(Known[r - 1], Migrations[r].up)
<1>1. r \in {1, 9, 13, 14, 15} \cup {7, 8, 10, 11, 12} \cup {4, 5, 6, 16}
  BY Numbers DEF Growing
<1> QED
  BY <1>1, NewOnly, NewInProducts, NewElsewhere

\* If a type for some columns changes nothing, these have the type.
LEMMA TypeOfTyped ==
  ASSUME NEW columns, IsColumns(columns), NEW names, NEW type, Typed(columns, names, type) = columns
  PROVE  \A c \in DOMAIN columns \cap names : columns[c].type = type
  BY TypedColumns

(* Each of the sixteen downgrade() (alembic/versions/) takes back what upgrade() of   *)
(* the same revision did to the tables of the one before, no more and no less.        *)
THEOREM WayBack ==
  ASSUME NEW r \in 1..16
  PROVE  Applied(Known[r], Migrations[r].down) = Known[r - 1]
<1> DEFINE s == Known[r - 1]
<1>1. Known[r] = Applied(s, Migrations[r].up) /\ IsSchema(s)
  <2>1. r - 1 \in 0..16
    OBVIOUS
  <2> QED
    BY <2>1, KnownStep, KnownSchemas
<1>2. CASE r \in Growing
  <2>1. Adding(Migrations[r].up) /\ Undoes(Migrations[r].down, Migrations[r].up) /\ AddsNew(s, Migrations[r].up)
    BY <1>2, AllGrow, AllNew
  <2> HIDE DEF s
  <2>2. Applied(Applied(s, Migrations[r].up), Migrations[r].down) = s
    BY <1>1, <2>1, Undone
  <2> QED
    BY <1>1, <2>2 DEF s
<1>3. CASE r = 2
  <2> DEFINE names == {"name_ko", "name_en"}
             columns == s["hs_codes"].columns
  <2>1. "hs_codes" \in DOMAIN s /\ s["hs_codes"] = Taxonomy["hs_codes"]
    BY <1>3, HsCodesTable
  <2>2. Typed(columns, names, Varchar(255)) = columns
    <3>1. Typed(Taxonomy["hs_codes"].columns, names, Varchar(255)) = Taxonomy["hs_codes"].columns
      BY HsCodesTyped DEF Taxonomy
    <3> QED
      BY <2>1, <3>1
  <2>3. IsColumns(columns)
    BY <1>1, <2>1 DEF IsSchema, IsTable
  <2>4. /\ Migrations[r].up = Retypes("hs_codes", names, Text)
        /\ Migrations[r].down = Retypes("hs_codes", names, Varchar(255))
    BY <1>3, Retypings
  <2> HIDE DEF s, names
  <2>5. \A c \in DOMAIN s["hs_codes"].columns \cap names : s["hs_codes"].columns[c].type = Varchar(255)
    BY <2>2, <2>3, TypeOfTyped
  <2>6. Applied(Applied(s, Retypes("hs_codes", names, Text)), Retypes("hs_codes", names, Varchar(255))) = s
    BY <1>1, <2>1, <2>5, RetypeUndone
  <2> QED
    BY <1>1, <2>4, <2>6 DEF s
<1>4. CASE r = 3
  <2> DEFINE names == {"growth_rate_3m", "growth_rate_6m"}
             columns == s["keyword_metrics"].columns
  <2>1. "keyword_metrics" \in DOMAIN s /\ s["keyword_metrics"] = Snapshots["keyword_metrics"]
    BY <1>4, MetricsTable
  <2>2. Typed(columns, names, Numeric(7, 4)) = columns
    <3>1. Typed(Snapshots["keyword_metrics"].columns, names, Numeric(7, 4)) =
            Snapshots["keyword_metrics"].columns
      BY MetricsTyped DEF Snapshots
    <3> QED
      BY <2>1, <3>1
  <2>3. IsColumns(columns)
    BY <1>1, <2>1 DEF IsSchema, IsTable
  <2>4. /\ Migrations[r].up = Retypes("keyword_metrics", names, Numeric(10, 4))
        /\ Migrations[r].down = Retypes("keyword_metrics", names, Numeric(7, 4))
    BY <1>4, Retypings
  <2> HIDE DEF s, names
  <2>5. \A c \in DOMAIN s["keyword_metrics"].columns \cap names :
          s["keyword_metrics"].columns[c].type = Numeric(7, 4)
    BY <2>2, <2>3, TypeOfTyped
  <2>6. Applied(Applied(s, Retypes("keyword_metrics", names, Numeric(10, 4))),
                Retypes("keyword_metrics", names, Numeric(7, 4))) = s
    BY <1>1, <2>1, <2>5, RetypeUndone
  <2> QED
    BY <1>1, <2>4, <2>6 DEF s
<1> QED
  BY <1>2, <1>3, <1>4, Numbers DEF Growing

-----------------------------------------------------------------------------
(* Walks along the migrations *)

\* The schemas after the first changes.
Successors(schemas, change, wide) == {Applied(s, change) : s \in {r \in schemas : Possible(r, change, wide)}}

\* The sets of schemas that a walk goes through, and that they exist.
StepsTo(f, s, changes, wide, n) ==
  f = [m \in 0..n |-> IF m = 0 THEN {s} ELSE Successors(f[m - 1], changes[m], wide)]

LEMMA StepsNext ==
  ASSUME NEW s, NEW changes, NEW wide, NEW n \in Nat, NEW f, StepsTo(f, s, changes, wide, n)
  PROVE  \E g : StepsTo(g, s, changes, wide, n + 1)
<1> DEFINE g == [m \in 0..(n + 1) |-> IF m <= n THEN f[m] ELSE Successors(f[n], changes[n + 1], wide)]
<1>1. ASSUME NEW m \in 0..(n + 1)
      PROVE  g[m] = IF m = 0 THEN {s} ELSE Successors(g[m - 1], changes[m], wide)
  <2>1. CASE m = 0
    BY <2>1 DEF StepsTo
  <2>2. CASE m \in 1..n
    <3>1. g[m] = f[m] /\ g[m - 1] = f[m - 1]
      BY <2>2
    <3>2. f[m] = Successors(f[m - 1], changes[m], wide)
      <4>1. m \in 0..n /\ m # 0
        BY <2>2
      <4>2. f[m] = IF m = 0 THEN {s} ELSE Successors(f[m - 1], changes[m], wide)
        BY <4>1 DEF StepsTo
      <4> QED
        BY <4>1, <4>2
    <3> QED
      BY <2>2, <3>1, <3>2
  <2>3. CASE m = n + 1
    <3>1. g[m] = Successors(f[n], changes[m], wide) /\ g[m - 1] = f[n] /\ m # 0
      BY <2>3
    <3> QED
      BY <2>3, <3>1
  <2> QED
    BY <2>1, <2>2, <2>3
<1>2. g = [m \in 0..(n + 1) |-> g[m]]
  OBVIOUS
<1> HIDE DEF g
<1>3. StepsTo(g, s, changes, wide, n + 1)
  BY <1>1, <1>2 DEF StepsTo
<1> QED
  BY <1>3

LEMMA AllSteps ==
  ASSUME NEW s, NEW changes, NEW wide, NEW n \in Nat
  PROVE  \E f : StepsTo(f, s, changes, wide, n)
<1> DEFINE T == {m \in Nat : ~ \E f : StepsTo(f, s, changes, wide, m)}
<1>1. ASSUME T # {} PROVE FALSE
  <2>1. PICK m \in T : \A i \in T : m <= i
    <3>1. T \subseteq Nat
      OBVIOUS
    <3> HIDE DEF T
    <3> QED
      BY <1>1, <3>1, Smallest
  <2>2. m # 0
    <3>1. StepsTo([i \in 0..0 |-> {s}], s, changes, wide, 0)
      BY DEF StepsTo
    <3> QED
      BY <3>1
  <2>3. m - 1 \in Nat /\ m - 1 \notin T
    BY <2>1, <2>2
  <2>4. PICK f : StepsTo(f, s, changes, wide, m - 1)
    BY <2>3
  <2>5. \E g : StepsTo(g, s, changes, wide, (m - 1) + 1)
    BY <2>3, <2>4, StepsNext
  <2> QED
    BY <2>1, <2>5
<1> QED
  BY <1>1

\* A walk along known schemas ends at the last of them, if it gets there.
LEMMA ReachedOnly ==
  ASSUME NEW s, NEW changes, NEW wide, NEW n \in Nat, n = Len(changes),
         NEW path, path[0] = s, \A m \in 1..n : path[m] = Applied(path[m - 1], changes[m])
  PROVE  Reached(s, changes, wide) \subseteq {path[n]}
<1> DEFINE f == CHOOSE f : StepsTo(f, s, changes, wide, n)
<1>1. StepsTo(f, s, changes, wide, n)
  BY AllSteps
<1>2. Reached(s, changes, wide) = f[n]
  BY DEF Reached, StepsTo, Successors
<1> HIDE DEF f
<1> DEFINE T == {m \in 0..n : ~(f[m] \subseteq {path[m]})}
<1>3. ASSUME T # {} PROVE FALSE
  <2>1. PICK m \in T : \A i \in T : m <= i
    <3>1. T \subseteq Nat
      OBVIOUS
    <3> HIDE DEF T
    <3> QED
      BY <1>3, <3>1, Smallest
  <2>2. m # 0
    BY <1>1, <2>1 DEF StepsTo
  <2>3. m \in 1..n /\ f[m - 1] \subseteq {path[m - 1]}
    BY <2>1, <2>2
  <2>4. f[m] = Successors(f[m - 1], changes[m], wide)
    BY <1>1, <2>2, <2>3 DEF StepsTo
  <2>5. f[m] \subseteq {path[m]}
    BY <2>3, <2>4 DEF Successors
  <2> QED
    BY <2>1, <2>5
<1> QED
  BY <1>2, <1>3

\* Whatever migrations lead to, it is the schema of the revision.
LEMMA ReachesKnown ==
  ASSUME NEW from \in 0..16, NEW to \in 0..16, NEW wide, NEW s \in Reached(Known[from], Changes(from, to), wide)
  PROVE  s = Known[to]
<1>1. CASE from <= to
  <2> DEFINE path == [m \in 0..(to - from) |-> Known[from + m]]
             changes == Changes(from, to)
  <2>1. Len(changes) = to - from /\ \A m \in 1..(to - from) : changes[m] = Migrations[from + m].up
    BY <1>1 DEF Changes
  <2> HIDE DEF changes
  <2>2. ASSUME NEW m \in 1..(to - from) PROVE path[m] = Applied(path[m - 1], changes[m])
    <3>1. from + m \in 1..16 /\ (from + m) - 1 = from + (m - 1) /\ m - 1 \in 0..(to - from)
      OBVIOUS
    <3>2. Known[from + m] = Applied(Known[from + (m - 1)], Migrations[from + m].up)
      BY <3>1, KnownStep
    <3> QED
      BY <2>1, <3>1, <3>2
  <2>3. path[0] = Known[from] /\ path[to - from] = Known[to] /\ to - from \in Nat
    BY <1>1
  <2> HIDE DEF path
  <2>4. Reached(Known[from], changes, wide) \subseteq {path[to - from]}
    BY <2>1, <2>2, <2>3, ReachedOnly
  <2> QED
    BY <2>3, <2>4 DEF changes
<1>2. CASE from > to
  <2> DEFINE path == [m \in 0..(from - to) |-> Known[from - m]]
             changes == Changes(from, to)
  <2>1. Len(changes) = from - to /\ \A m \in 1..(from - to) : changes[m] = Migrations[from - m + 1].down
    BY <1>2 DEF Changes
  <2> HIDE DEF changes
  <2>2. ASSUME NEW m \in 1..(from - to) PROVE path[m] = Applied(path[m - 1], changes[m])
    <3>1. /\ from - m + 1 \in 1..16 /\ (from - m + 1) - 1 = from - m
          /\ from - (m - 1) = from - m + 1 /\ m - 1 \in 0..(from - to)
      OBVIOUS
    <3>2. Known[from - m] = Applied(Known[from - m + 1], Migrations[from - m + 1].down)
      BY <3>1, WayBack
    <3> QED
      BY <2>1, <3>1, <3>2
  <2>3. path[0] = Known[from] /\ path[from - to] = Known[to] /\ from - to \in Nat
    BY <1>2
  <2> HIDE DEF path
  <2>4. Reached(Known[from], changes, wide) \subseteq {path[from - to]}
    BY <2>1, <2>2, <2>3, ReachedOnly
  <2> QED
    BY <2>3, <2>4 DEF changes
<1> QED
  BY <1>1, <1>2

-----------------------------------------------------------------------------
(* The database refuses no upgrade, and no downgrade but that of long names *)

\* A column that is there, with its type.
Has(columns, c, type) == c \in DOMAIN columns /\ columns[c].type = type

LEMMA HasGroup ==
  ASSUME NEW names, NEW type, NEW c \in names
  PROVE  /\ Has(Required(names, type), c, type) /\ Has(Optional(names, type), c, type)
         /\ Has(Defaulted(names, type), c, type)
  BY DEF Has, Required, Optional, Defaulted, Columns

LEMMA HasJoined ==
  ASSUME NEW f, NEW g, NEW c, NEW type, Has(f, c, type) \/ (c \notin DOMAIN f /\ Has(g, c, type))
  PROVE  Has(f ++ g, c, type)
  BY DEF Has, ++

\* A table is made of columns, unique sets and references, and has an id.
Made(table, refs) == \E columns, unique : table = Table(columns, unique, refs)

LEMMA MadeTable ==
  ASSUME NEW table, NEW refs, Made(table, refs)
  PROVE  table.refs = refs /\ {"id"} \in table.unique /\ Has(table.columns, "id", Bigint)
<1>1. PICK columns, unique : table = Table(columns, unique, refs)
  BY DEF Made
<1> DEFINE all == Defaulted({"id"}, Bigint) ++ Stamps ++ columns
<1>2. Has(all, "id", Bigint)
  BY HasGroup, HasJoined
<1> HIDE DEF all
<1>3. table = [columns |-> all, unique |-> {{"id"}} \cup unique, refs |-> refs]
  BY <1>1 DEF Table, all
<1> QED
  BY <1>2, <1>3

LEMMA TableHas ==
  ASSUME NEW columns, NEW unique, NEW refs, NEW c, NEW type, Has(columns, c, type),
         c \notin {"id", "created_at", "updated_at"}
  PROVE  Has(Table(columns, unique, refs).columns, c, type)
<1> DEFINE first == Defaulted({"id"}, Bigint) ++ Stamps
<1>1. c \notin DOMAIN first
  BY JoinedDomain, GroupDomain DEF Stamps
<1>2. Table(columns, unique, refs).columns = first ++ columns
  BY DEF Table
<1> HIDE DEF first
<1> QED
  BY <1>1, <1>2, HasJoined

\* The references of the tables of 0001.
LEMMA TaxonomyMade ==
  /\ Made(Taxonomy["categories"], {Ref("parent_id", "categories", "id", "RESTRICT")})
  /\ Made(Taxonomy["hs_codes"], OfCategory)
  BY DEF Taxonomy, Made
LEMMA SearchesMade ==
  /\ Made(Searches["keywords"], OfCategory)
  /\ Made(Searches["keyword_hs_mappings"], OfKeyword("CASCADE") \cup OfHsCode)
  BY DEF Searches, Made
LEMMA SnapshotsMade ==
  /\ Made(Snapshots["keyword_metrics"], OfKeyword("CASCADE")) /\ Made(Snapshots["import_stats"], OfHsCode)
  /\ Made(Snapshots["opportunity_scores"], OfKeyword("CASCADE"))
  BY DEF Snapshots, Made
LEMMA SourcingMade ==
  /\ Made(Sourcing["products"], OfKeyword("SET NULL")) /\ Made(Sourcing["product_scores"], OfProduct)
  /\ Made(Sourcing["channel_profits"], {Ref("product_score_id", "product_scores", "id", "CASCADE")})
  BY DEF Sourcing, Made
LEMMA OutcomesMade ==
  /\ Made(Outcomes["feedbacks"], OfProduct) /\ Made(Outcomes["coupang_fees"], {})
  /\ Made(Outcomes["exchange_rates"], {}) /\ Made(Outcomes["api_cache"], {})
  BY DEF Outcomes, Made

\* The columns that refer, and the code of hs_codes, which is referred to.
LEMMA TaxonomyHas ==
  /\ Has(Taxonomy["categories"].columns, "parent_id", Bigint)
  /\ Has(Taxonomy["hs_codes"].columns, "category_id", Bigint)
  /\ Has(Taxonomy["hs_codes"].columns, "code", Varchar(10))
  /\ {"code"} \in Taxonomy["hs_codes"].unique
  BY HasGroup, HasJoined, TableHas, JoinedDomain, GroupDomain DEF Taxonomy, Table
LEMMA SearchesHas ==
  /\ Has(Searches["keywords"].columns, "category_id", Bigint)
  /\ Has(Searches["keyword_hs_mappings"].columns, "keyword_id", Bigint)
  /\ Has(Searches["keyword_hs_mappings"].columns, "hs_code", Varchar(10))
<1>1. Has(Searches["keywords"].columns, "category_id", Bigint)
  <2>1. Has(Required({"term"}, Varchar(255)) ++ Optional({"category_id"}, Bigint), "category_id", Bigint)
    BY HasGroup, HasJoined, GroupDomain
  <2> QED
    BY <2>1, HasJoined, TableHas DEF Searches
<1>2. Has(Searches["keyword_hs_mappings"].columns, "keyword_id", Bigint)
  BY HasGroup, HasJoined, TableHas DEF Searches
<1>3. Has(Searches["keyword_hs_mappings"].columns, "hs_code", Varchar(10))
  <2>1. Has(Required({"keyword_id"}, Bigint) ++ Required({"hs_code"}, Varchar(10)), "hs_code", Varchar(10))
    BY HasGroup, HasJoined, GroupDomain
  <2> QED
    BY <2>1, HasJoined, TableHas DEF Searches
<1> QED
  BY <1>1, <1>2, <1>3
LEMMA SnapshotsHas ==
  /\ Has(Snapshots["keyword_metrics"].columns, "keyword_id", Bigint)
  /\ Has(Snapshots["import_stats"].columns, "hs_code", Varchar(10))
  /\ Has(Snapshots["opportunity_scores"].columns, "keyword_id", Bigint)
<1>1. Has(Snapshots["keyword_metrics"].columns, "keyword_id", Bigint)
  BY HasGroup, HasJoined, TableHas DEF Snapshots
<1>2. Has(Snapshots["import_stats"].columns, "hs_code", Varchar(10))
  BY HasGroup, HasJoined, TableHas DEF Snapshots
<1>3. Has(Snapshots["opportunity_scores"].columns, "keyword_id", Bigint)
  BY HasGroup, HasJoined, TableHas DEF Snapshots
<1> QED
  BY <1>1, <1>2, <1>3
LEMMA SourcingHas ==
  /\ Has(Sourcing["products"].columns, "keyword_id", Bigint)
  /\ Has(Sourcing["product_scores"].columns, "product_id", Bigint)
  /\ Has(Sourcing["channel_profits"].columns, "product_score_id", Bigint)
<1>1. Has(Sourcing["products"].columns, "keyword_id", Bigint)
  <2>1. Has(Offer, "keyword_id", Bigint)
    BY HasGroup, HasJoined DEF Offer
  <2> QED
    BY <2>1, TableHas DEF Sourcing
<1>2. Has(Sourcing["product_scores"].columns, "product_id", Bigint)
  BY HasGroup, HasJoined, TableHas DEF Sourcing
<1>3. Has(Sourcing["channel_profits"].columns, "product_score_id", Bigint)
  BY HasGroup, HasJoined, TableHas DEF Sourcing
<1> QED
  BY <1>1, <1>2, <1>3
LEMMA OutcomesHas == Has(Outcomes["feedbacks"].columns, "product_id", Bigint)
  BY HasGroup, HasJoined, TableHas, JoinedDomain, GroupDomain DEF Outcomes

\* References to an id, and to the code of hs_codes, resolve.
LEMMA IdResolves ==
  ASSUME NEW s, NEW table, NEW column, NEW to \in DOMAIN s, NEW ondelete,
         {"id"} \in s[to].unique, Has(s[to].columns, "id", Bigint), Has(table.columns, column, Bigint)
  PROVE  Resolves(s, table, Ref(column, to, "id", ondelete))
  BY DEF Resolves, Ref, Has

LEMMA CodeResolves ==
  ASSUME NEW s, NEW table, "hs_codes" \in DOMAIN s, s["hs_codes"] = Taxonomy["hs_codes"],
         Has(table.columns, "hs_code", Varchar(10))
  PROVE  \A r \in OfHsCode : Resolves(s, table, r)
  BY TaxonomyHas DEF Resolves, Ref, Has, OfHsCode

\* Every reference of 0001 resolves among its tables.
LEMMA InitialResolves ==
  ASSUME NEW s, DOMAIN s = FirstNames, \A t \in FirstNames : s[t] = InitialTables[t],
         NEW t \in FirstNames, NEW r \in InitialTables[t].refs
  PROVE  Resolves(s, InitialTables[t], r)
<1>1. /\ s["categories"] = Taxonomy["categories"] /\ s["hs_codes"] = Taxonomy["hs_codes"]
      /\ s["keywords"] = Searches["keywords"] /\ s["keyword_hs_mappings"] = Searches["keyword_hs_mappings"]
  BY InitialTable, TaxonomyTables, SearchesTables DEF FirstNames
<1>2. /\ s["keyword_metrics"] = Snapshots["keyword_metrics"] /\ s["import_stats"] = Snapshots["import_stats"]
      /\ s["opportunity_scores"] = Snapshots["opportunity_scores"]
  BY InitialTable, SnapshotsTables DEF FirstNames
<1>3. /\ s["products"] = Sourcing["products"] /\ s["product_scores"] = Sourcing["product_scores"]
      /\ s["channel_profits"] = Sourcing["channel_profits"]
  BY InitialTable, SourcingTables DEF FirstNames
<1>4. /\ s["feedbacks"] = Outcomes["feedbacks"] /\ s["coupang_fees"] = Outcomes["coupang_fees"]
      /\ s["exchange_rates"] = Outcomes["exchange_rates"] /\ s["api_cache"] = Outcomes["api_cache"]
  BY InitialTable, OutcomesTables DEF FirstNames
<1>5. t \in DOMAIN s /\ InitialTables[t] = s[t] /\ r \in s[t].refs
  OBVIOUS
<1>6. ASSUME NEW to \in {"categories", "keywords", "products", "product_scores"}
      PROVE  to \in DOMAIN s /\ {"id"} \in s[to].unique /\ Has(s[to].columns, "id", Bigint)
  BY <1>1, <1>3, MadeTable, TaxonomyMade, SearchesMade, SourcingMade DEF FirstNames
<1>7. ASSUME NEW table, NEW column, Has(table.columns, column, Bigint), NEW ondelete,
             NEW to \in {"categories", "keywords", "products", "product_scores"}
      PROVE  Resolves(s, table, Ref(column, to, "id", ondelete))
  BY <1>6, <1>7, IdResolves
<1>8. ASSUME NEW column, Has(s[t].columns, column, Bigint), NEW ondelete,
             NEW to \in {"categories", "keywords", "products", "product_scores"},
             s[t].refs = {Ref(column, to, "id", ondelete)}
      PROVE  Resolves(s, InitialTables[t], r)
  BY <1>5, <1>7, <1>8
<1>9. CASE t = "categories"
  <2>1. s[t].refs = {Ref("parent_id", "categories", "id", "RESTRICT")} /\ Has(s[t].columns, "parent_id", Bigint)
    BY <1>1, <1>9, TaxonomyMade, MadeTable, TaxonomyHas
  <2> QED
    BY <1>8, <2>1
<1>10. CASE t \in {"hs_codes", "keywords"}
  <2>1. /\ s[t].refs = {Ref("category_id", "categories", "id", "SET NULL")}
        /\ Has(s[t].columns, "category_id", Bigint)
    BY <1>1, <1>10, TaxonomyMade, SearchesMade, MadeTable, TaxonomyHas, SearchesHas DEF OfCategory
  <2> QED
    BY <1>8, <2>1
<1>11. CASE t = "keyword_hs_mappings"
  <2>1. r \in OfKeyword("CASCADE") \/ r \in OfHsCode
    BY <1>1, <1>5, <1>11, SearchesMade, MadeTable
  <2>2. Has(s[t].columns, "keyword_id", Bigint) /\ Has(s[t].columns, "hs_code", Varchar(10))
    BY <1>1, <1>11, SearchesHas
  <2>3. CASE r \in OfHsCode
    BY <1>1, <1>5, <2>2, <2>3, CodeResolves DEF FirstNames
  <2>4. CASE r \in OfKeyword("CASCADE")
    BY <1>5, <1>7, <2>2, <2>4 DEF OfKeyword
  <2> QED
    BY <2>1, <2>3, <2>4
<1>12. CASE t = "import_stats"
  <2>1. s[t].refs = OfHsCode /\ Has(s[t].columns, "hs_code", Varchar(10))
    BY <1>2, <1>12, SnapshotsMade, MadeTable, SnapshotsHas
  <2> QED
    BY <1>1, <1>5, <2>1, CodeResolves DEF FirstNames
<1>13. CASE t \in {"keyword_metrics", "opportunity_scores"}
  <2>1. s[t].refs = {Ref("keyword_id", "keywords", "id", "CASCADE")} /\ Has(s[t].columns, "keyword_id", Bigint)
    BY <1>2, <1>13, SnapshotsMade, MadeTable, SnapshotsHas DEF OfKeyword
  <2> QED
    BY <1>8, <2>1
<1>14. CASE t = "products"
  <2>1. s[t].refs = {Ref("keyword_id", "keywords", "id", "SET NULL")} /\ Has(s[t].columns, "keyword_id", Bigint)
    BY <1>3, <1>14, SourcingMade, MadeTable, SourcingHas DEF OfKeyword
  <2> QED
    BY <1>8, <2>1
<1>15. CASE t \in {"product_scores", "feedbacks"}
  <2>1. s[t].refs = {Ref("product_id", "products", "id", "CASCADE")} /\ Has(s[t].columns, "product_id", Bigint)
    <3>1. CASE t = "product_scores"
      BY <1>3, <3>1, SourcingMade, MadeTable, SourcingHas DEF OfProduct
    <3>2. CASE t = "feedbacks"
      BY <1>4, <3>2, OutcomesMade, MadeTable, OutcomesHas DEF OfProduct
    <3> QED
      BY <1>15, <3>1, <3>2
  <2> QED
    BY <1>8, <2>1
<1>16. CASE t = "channel_profits"
  <2>1. /\ s[t].refs = {Ref("product_score_id", "product_scores", "id", "CASCADE")}
        /\ Has(s[t].columns, "product_score_id", Bigint)
    BY <1>3, <1>16, SourcingMade, MadeTable, SourcingHas
  <2> QED
    BY <1>8, <2>1
<1>17. CASE t \in {"coupang_fees", "exchange_rates", "api_cache"}
  BY <1>4, <1>5, <1>17, OutcomesMade, MadeTable
<1> QED
  BY <1>9, <1>10, <1>11, <1>12, <1>13, <1>14, <1>15, <1>16, <1>17 DEF FirstNames

\* 0001 creates its tables in an order in which what is referred to comes first.
FirstOrder ==
  <<"categories", "hs_codes", "keywords", "keyword_hs_mappings", "keyword_metrics", "import_stats",
    "opportunity_scores", "products", "product_scores", "channel_profits", "feedbacks", "coupang_fees",
    "exchange_rates", "api_cache">>

LEMMA FirstPlaces ==
  /\ DOMAIN FirstOrder = 1..14 /\ \A n \in 1..14 : FirstOrder[n] \in FirstNames
  /\ \A t \in FirstNames : \E n \in 1..14 : FirstOrder[n] = t
  /\ \A m \in 1..14, n \in 1..14 : FirstOrder[m] = FirstOrder[n] => m = n
  BY DEF FirstOrder, FirstNames

\* The tables that those of 0001 refer to.
LEMMA RefersTo ==
  /\ \A d, r : r \in OfKeyword(d) => r.table = "keywords"
  /\ \A r \in OfCategory : r.table = "categories"
  /\ \A r \in OfHsCode : r.table = "hs_codes"
  /\ \A r \in OfProduct : r.table = "products"
  /\ \A c, t, i, d : Ref(c, t, i, d).table = t
  BY DEF OfKeyword, OfCategory, OfHsCode, OfProduct, Ref

LEMMA EarlyRefers ==
  /\ \A r \in InitialTables["categories"].refs : r.table = "categories"
  /\ \A r \in InitialTables["hs_codes"].refs : r.table = "categories"
  /\ \A r \in InitialTables["keywords"].refs : r.table = "categories"
  /\ \A r \in InitialTables["keyword_hs_mappings"].refs : r.table \in {"keywords", "hs_codes"}
  /\ \A r \in InitialTables["keyword_metrics"].refs : r.table = "keywords"
  /\ \A r \in InitialTables["import_stats"].refs : r.table = "hs_codes"
  /\ \A r \in InitialTables["opportunity_scores"].refs : r.table = "keywords"
<1>1. \A r \in Taxonomy["categories"].refs : r.table = "categories"
  BY TaxonomyMade, MadeTable, RefersTo
<1>2. \A r \in Taxonomy["hs_codes"].refs : r.table = "categories"
  BY TaxonomyMade, MadeTable, RefersTo
<1>3. \A r \in Searches["keywords"].refs : r.table = "categories"
  BY SearchesMade, MadeTable, RefersTo
<1>4. \A r \in Searches["keyword_hs_mappings"].refs : r.table \in {"keywords", "hs_codes"}
  <2>1. Searches["keyword_hs_mappings"].refs = OfKeyword("CASCADE") \cup OfHsCode
    BY SearchesMade, MadeTable
  <2> QED
    BY <2>1, RefersTo
<1>5. \A r \in Snapshots["keyword_metrics"].refs : r.table = "keywords"
  BY SnapshotsMade, MadeTable, RefersTo
<1>6. \A r \in Snapshots["import_stats"].refs : r.table = "hs_codes"
  BY SnapshotsMade, MadeTable, RefersTo
<1>7. \A r \in Snapshots["opportunity_scores"].refs : r.table = "keywords"
  BY SnapshotsMade, MadeTable, RefersTo
<1>8. /\ InitialTables["categories"] = Taxonomy["categories"] /\ InitialTables["hs_codes"] = Taxonomy["hs_codes"]
      /\ InitialTables["keywords"] = Searches["keywords"]
      /\ InitialTables["keyword_hs_mappings"] = Searches["keyword_hs_mappings"]
      /\ InitialTables["keyword_metrics"] = Snapshots["keyword_metrics"]
      /\ InitialTables["import_stats"] = Snapshots["import_stats"]
      /\ InitialTables["opportunity_scores"] = Snapshots["opportunity_scores"]
  BY InitialTable, TaxonomyTables, SearchesTables, SnapshotsTables
<1> QED
  BY <1>1, <1>2, <1>3, <1>4, <1>5, <1>6, <1>7, <1>8

LEMMA LateRefers ==
  /\ \A r \in InitialTables["products"].refs : r.table = "keywords"
  /\ \A r \in InitialTables["product_scores"].refs : r.table = "products"
  /\ \A r \in InitialTables["channel_profits"].refs : r.table = "product_scores"
  /\ \A r \in InitialTables["feedbacks"].refs : r.table = "products"
  /\ \A t \in {"coupang_fees", "exchange_rates", "api_cache"} : InitialTables[t].refs = {}
<1>1. \A r \in Sourcing["products"].refs : r.table = "keywords"
  <2>1. Sourcing["products"].refs = OfKeyword("SET NULL")
    BY SourcingMade, MadeTable
  <2> QED
    BY <2>1, RefersTo
<1>2. \A r \in Sourcing["product_scores"].refs : r.table = "products"
  BY SourcingMade, MadeTable, RefersTo
<1>3. \A r \in Sourcing["channel_profits"].refs : r.table = "product_scores"
  <2>1. Sourcing["channel_profits"].refs = {Ref("product_score_id", "product_scores", "id", "CASCADE")}
    BY SourcingMade, MadeTable
  <2> QED
    BY <2>1, RefersTo
<1>4. \A r \in Outcomes["feedbacks"].refs : r.table = "products"
  BY OutcomesMade, MadeTable, RefersTo
<1>5. /\ Outcomes["coupang_fees"].refs = {} /\ Outcomes["exchange_rates"].refs = {}
      /\ Outcomes["api_cache"].refs = {}
  BY OutcomesMade, MadeTable
<1>6. /\ InitialTables["products"] = Sourcing["products"]
      /\ InitialTables["product_scores"] = Sourcing["product_scores"]
      /\ InitialTables["channel_profits"] = Sourcing["channel_profits"]
      /\ \A t \in {"feedbacks", "coupang_fees", "exchange_rates", "api_cache"} : InitialTables[t] = Outcomes[t]
  BY InitialTable, SourcingTables, OutcomesTables
<1> QED
  BY <1>1, <1>2, <1>3, <1>4, <1>5, <1>6

LEMMA FirstRefers ==
  ASSUME NEW n \in 1..14, NEW r \in InitialTables[FirstOrder[n]].refs
  PROVE  \E m \in 1..n : FirstOrder[m] = r.table
<1>1. /\ FirstOrder[1] = "categories" /\ FirstOrder[2] = "hs_codes" /\ FirstOrder[3] = "keywords"
      /\ FirstOrder[4] = "keyword_hs_mappings" /\ FirstOrder[5] = "keyword_metrics"
      /\ FirstOrder[6] = "import_stats" /\ FirstOrder[7] = "opportunity_scores"
      /\ FirstOrder[8] = "products" /\ FirstOrder[9] = "product_scores" /\ FirstOrder[10] = "channel_profits"
      /\ FirstOrder[11] = "feedbacks" /\ FirstOrder[12] = "coupang_fees"
      /\ FirstOrder[13] = "exchange_rates" /\ FirstOrder[14] = "api_cache"
  BY DEF FirstOrder
<1>2. CASE n \in 1..3
  <2>1. n = 1 \/ n = 2 \/ n = 3
    BY <1>2
  <2>2. r.table = "categories"
    BY <1>1, <2>1, EarlyRefers
  <2> QED
    BY <1>1, <2>2
<1>3. CASE n \in 4..7
  <2>1. n = 4 \/ n = 5 \/ n = 6 \/ n = 7
    BY <1>3
  <2>2. r.table \in {"keywords", "hs_codes"}
    BY <1>1, <2>1, EarlyRefers
  <2> QED
    BY <1>1, <1>3, <2>2
<1>4. CASE n = 8 \/ n = 9 \/ n = 11
  <2>1. (n = 8 /\ r.table = "keywords") \/ (n > 8 /\ r.table = "products")
    BY <1>1, <1>4, LateRefers
  <2> QED
    BY <1>1, <2>1
<1>5. CASE n = 10
  BY <1>1, <1>5, LateRefers
<1>6. CASE n \in 12..14
  <2>1. n = 12 \/ n = 13 \/ n = 14
    BY <1>6
  <2> QED
    BY <1>1, <2>1, LateRefers
<1> QED
  BY <1>2, <1>3, <1>4, <1>5, <1>6

\* In which order the others create and drop.
LEMMA CreatesInOrder ==
  ASSUME NEW tables, NEW order, NEW back, NEW m, m = Migration(Creates(tables, order), Drops(back))
  PROVE  m.up.order = order /\ m.down.order = <<>> /\ m.down.drop = back
  BY DEF Migration, Creates, Drops, NoChange

LEMMA AddsInOrder ==
  ASSUME NEW table, NEW columns, NEW names, NEW m, m = Migration(Adds(table, columns), Removes(table, names))
  PROVE  m.up.order = <<>> /\ m.down.order = <<>> /\ m.down.drop = <<>>
  BY DEF Migration, Adds, Removes, NoChange

LEMMA Orders ==
  ASSUME NEW r \in Growing
  PROVE  /\ Migrations[r].down.order = <<>>
         /\ r = 1 => Migrations[r].up.order = FirstOrder
         /\ r = 9 => Migrations[r].up.order = <<"customs_duty_rates">>
         /\ r = 12 => Migrations[r].up.order = <<"international_shipping_rates">>
         /\ r = 14 => Migrations[r].up.order = <<"seed_candidates">>
         /\ r = 15 => Migrations[r].up.order = <<"source_products", "detail_pages">>
         /\ r = 1 => Migrations[r].down.drop = [n \in 1..14 |-> FirstOrder[15 - n]]
         /\ r = 9 => Migrations[r].down.drop = <<"customs_duty_rates">>
         /\ r = 12 => Migrations[r].down.drop = <<"international_shipping_rates">>
         /\ r = 14 => Migrations[r].down.drop = <<"seed_candidates">>
         /\ r = 15 => Migrations[r].down.drop = <<"detail_pages", "source_products">>
         /\ r \notin {1, 9, 12, 14, 15} => Migrations[r].up.order = <<>> /\ Migrations[r].down.drop = <<>>
<1>1. CASE r = 1
  <2> DEFINE back ==
        <<"api_cache", "exchange_rates", "coupang_fees", "feedbacks", "channel_profits", "product_scores",
          "products", "opportunity_scores", "import_stats", "keyword_metrics", "keyword_hs_mappings", "keywords",
          "hs_codes", "categories">>
  <2>1. back = [n \in 1..14 |-> FirstOrder[15 - n]]
    BY DEF FirstOrder
  <2>2. \E tables : Migrations[1] = Migration(Creates(tables, FirstOrder), Drops(back))
    BY DEF Migrations, InitialSchema, FirstOrder
  <2> HIDE DEF back
  <2> QED
    BY <1>1, <2>1, <2>2, CreatesInOrder
<1>2. CASE r = 9
  BY <1>2, Numbered, CreatesInOrder DEF CustomsDutyRates
<1>3. CASE r = 12
  <2>1. /\ ShippingRates.up.order = <<"international_shipping_rates">> /\ ShippingRates.down.order = <<>>
        /\ ShippingRates.down.drop = <<"international_shipping_rates">>
    BY DEF ShippingRates, Migration, Creates, Drops, NoChange
  <2> QED
    BY <1>3, <2>1, Numbered
<1>4. CASE r = 14
  BY <1>4, Numbered, CreatesInOrder DEF SeedCandidates
<1>5. CASE r = 15
  BY <1>5, Numbered, CreatesInOrder DEF DetailPageTables
<1>6. CASE r = 13
  BY <1>6, Numbered DEF ResetCategories, Migration, NoChange
<1>7. CASE r = 16
  BY <1>7, Numbered, AddsInOrder DEF DetailPageTemplate
<1>8. CASE r \in {4, 5, 6, 7, 8, 10, 11}
  <2>1. \E table, names, type : Migrations[r] = NewColumns(table, names, type)
    BY <1>8, Numbered DEF MetricsAvgPrice, ScoreDetails, ChineseTerm, ProductShipping, ProductDutyRate,
       ProductSellPrice, ProductAdCost
  <2> QED
    BY <1>8, <2>1, AddsInOrder DEF NewColumns
<1> QED
  BY <1>1, <1>2, <1>3, <1>4, <1>5, <1>6, <1>7, <1>8, Numbers DEF Growing

\* A migration keeps the references of the tables that are there.
LEMMA ReferencesStay ==
  ASSUME NEW r \in 1..16, NEW t \in DOMAIN Known[r - 1]
  PROVE  t \in DOMAIN Known[r] /\ Known[r][t].refs = Known[r - 1][t].refs
<1> DEFINE s == Known[r - 1]
<1>1. IsSchema(s) /\ Known[r] = Applied(s, Migrations[r].up)
  <2>1. r - 1 \in 0..16
    OBVIOUS
  <2> QED
    BY <2>1, KnownSchemas, KnownStep
<1>2. t \in DOMAIN Known[r]
  BY <1>1, KnownNext
<1>3. \A table, columns : With(table, columns).refs = table.refs
  BY DEF With
<1>4. CASE r \in Growing
  <2>1. Adding(Migrations[r].up)
    BY <1>4, AllGrow
  <2> HIDE DEF s
  <2>2. t \in DOMAIN s
    BY DEF s
  <2>3. Applied(s, Migrations[r].up)[t] = With(s[t], s[t].columns ++ At(Migrations[r].up.add, t, <<>>))
    BY <1>1, <2>1, <2>2, AddedTable
  <2> QED
    BY <1>1, <1>2, <1>3, <2>3 DEF s
<1>5. CASE r \in {2, 3}
  <2> HIDE DEF s
  <2>1. PICK table, names, type : Migrations[r].up = Retypes(table, names, type)
    BY <1>5, Retypings
  <2>2. t \in DOMAIN s
    BY DEF s
  <2>3. \/ Applied(s, Retypes(table, names, type))[t] = s[t]
        \/ Applied(s, Retypes(table, names, type))[t] = With(s[t], Typed(s[t].columns, names, type))
    BY <1>1, <2>2, Retyped
  <2> QED
    BY <1>1, <1>2, <1>3, <2>1, <2>3 DEF s
<1> QED
  BY <1>4, <1>5, Numbers DEF Growing

LEMMA LastMade ==
  /\ Made(DutyTable["customs_duty_rates"], {}) /\ Made(RateTable["international_shipping_rates"], {})
  /\ Made(CandidateTable["seed_candidates"], {}) /\ Made(PageTables["source_products"], {})
  /\ Made(PageTables["detail_pages"], {Ref("source_product_id", "source_products", "id", "CASCADE")})
<1>1. Made(DutyTable["customs_duty_rates"], {})
  BY DEF DutyTable, Made
<1>2. Made(RateTable["international_shipping_rates"], {})
  BY DEF RateTable, Made
<1>3. Made(CandidateTable["seed_candidates"], {})
  BY DEF CandidateTable, Made
<1>4. /\ Made(PageTables["source_products"], {})
      /\ Made(PageTables["detail_pages"], {Ref("source_product_id", "source_products", "id", "CASCADE")})
  BY DEF PageTables, Made
<1> QED
  BY <1>1, <1>2, <1>3, <1>4

\* What a migration creates, as it is referred to and as it refers.
LEMMA LastRefers ==
  /\ DutyTable["customs_duty_rates"].refs = {} /\ RateTable["international_shipping_rates"].refs = {}
  /\ CandidateTable["seed_candidates"].refs = {} /\ PageTables["source_products"].refs = {}
  /\ \A r \in PageTables["detail_pages"].refs : r.table = "source_products"
<1>1. PageTables["detail_pages"].refs = {Ref("source_product_id", "source_products", "id", "CASCADE")}
  BY LastMade, MadeTable
<1> QED
  BY <1>1, LastMade, MadeTable, RefersTo

\* The tables that a table may refer to.
Targets(t) ==
  IF t = "detail_pages" THEN {"source_products"}
  ELSE {"categories", "hs_codes", "keywords", "products", "product_scores"}

LEMMA CreatedTargets ==
  ASSUME NEW k \in Growing, NEW t \in NewTables[k]
  PROVE  \A r \in Migrations[k].up.create[t].refs : r.table \in Targets(t)
<1>1. CASE k = 1
  <2>1. Migrations[k].up.create = InitialTables /\ t \in FirstNames /\ t # "detail_pages"
    BY <1>1, First DEF NewTables, FirstNames, Grows
  <2>2. \A r \in InitialTables[t].refs :
          r.table \in {"categories", "hs_codes", "keywords", "products", "product_scores"}
    BY <2>1, EarlyRefers, LateRefers DEF FirstNames
  <2> QED
    BY <2>1, <2>2 DEF Targets
<1>2. CASE k = 9
  BY <1>2, DutyGrows, LastRefers DEF NewTables, Grows
<1>3. CASE k = 12
  BY <1>3, RatesGrow, LastRefers DEF NewTables, Grows
<1>4. CASE k = 14
  BY <1>4, CandidatesGrow, LastRefers DEF NewTables, Grows
<1>5. CASE k = 15
  <2>1. Migrations[k].up.create = PageTables /\ t \in {"source_products", "detail_pages"}
    BY <1>5, PagesGrow DEF NewTables, Grows
  <2> QED
    BY <2>1, LastRefers DEF Targets
<1>6. CASE k \notin {1, 9, 12, 14, 15}
  BY <1>6 DEF NewTables, Growing
<1> QED
  BY <1>1, <1>2, <1>3, <1>4, <1>5, <1>6

LEMMA KnownTargets ==
  ASSUME NEW n \in 0..16
  PROVE  \A t \in DOMAIN Known[n] : \A r \in Known[n][t].refs : r.table \in Targets(t)
<1> DEFINE Fine(m) == \A t \in DOMAIN Known[m] : \A r \in Known[m][t].refs : r.table \in Targets(t)
           T == {m \in 0..16 : ~Fine(m)}
<1>1. ASSUME T # {} PROVE FALSE
  <2>1. PICK m \in T : \A i \in T : m <= i
    <3>1. T \subseteq Nat
      OBVIOUS
    <3> HIDE DEF T
    <3> QED
      BY <1>1, <3>1, Smallest
  <2>2. m # 0
    <3>1. DOMAIN Known[0] = {}
      BY KnownStep
    <3> QED
      BY <2>1, <3>1
  <2>3. Fine(m - 1) /\ m \in 1..16 /\ m - 1 \in 0..16
    BY <2>1, <2>2
  <2>4. ASSUME NEW t \in DOMAIN Known[m - 1], NEW r \in Known[m][t].refs PROVE r.table \in Targets(t)
    BY <2>3, <2>4, ReferencesStay
  <2>5. ASSUME NEW t \in DOMAIN Known[m], t \notin DOMAIN Known[m - 1], NEW r \in Known[m][t].refs
        PROVE  r.table \in Targets(t)
    <3>1. t \in NewTables[m] /\ m \in Growing
      <4>1. t \in NewTables[m]
        BY <2>3, <2>5, KnownNext, KnownSchemas
      <4> QED
        BY <2>3, <4>1, Numbers DEF NewTables, Growing
    <3>2. /\ Adding(Migrations[m].up) /\ t \in DOMAIN Migrations[m].up.create
          /\ DOMAIN Migrations[m].up.add = Touched[m]
      BY <3>1, AllGrow
    <3>3. t \notin Touched[m]
      BY <3>1, <2>3 DEF Touched, NewTables, FirstNames
    <3>4. Applied(Known[m - 1], Migrations[m].up)[t] = Migrations[m].up.create[t]
      BY <2>5, <3>2, <3>3, CreatedTable
    <3>5. Known[m][t] = Migrations[m].up.create[t]
      BY <2>3, <3>4, KnownStep
    <3> QED
      BY <2>5, <3>1, <3>5, CreatedTargets
  <2> QED
    BY <2>1, <2>4, <2>5
<1> QED
  BY <1>1

\* What the database asks of a change that adds: tables in an order in which each is new and
\* refers to what is there, references that resolve, columns that are new.
InOrder(tables, order) ==
  /\ \A n \in DOMAIN order : \A r \in tables[order[n]].refs : \E m \in 1..n : order[m] = r.table
  /\ \A n \in DOMAIN order : order[n] \in DOMAIN tables /\ \A m \in 1..(n - 1) : order[m] # order[n]

LEMMA MayGrow ==
  ASSUME NEW s, NEW change, Adding(change), AddsNew(s, change), NEW wide, InOrder(change.create, change.order),
         \A t \in DOMAIN change.create : \A r \in change.create[t].refs :
           Resolves(Applied(s, change), change.create[t], r)
  PROVE  Possible(s, change, wide)
<1>1. ASSUME NEW n \in DOMAIN change.order
      PROVE  /\ change.order[n] \notin DOMAIN s \cup {change.order[m] : m \in 1..(n - 1)}
             /\ Refers(change.create, change.order[n]) \subseteq DOMAIN s \cup {change.order[m] : m \in 1..n}
  <2>1. change.order[n] \notin DOMAIN s
    BY DEF InOrder, AddsNew
  <2>2. \A m \in 1..(n - 1) : change.order[m] # change.order[n]
    BY DEF InOrder
  <2>3. \A r \in change.create[change.order[n]].refs : \E m \in 1..n : change.order[m] = r.table
    BY DEF InOrder
  <2> QED
    BY <2>1, <2>2, <2>3 DEF Refers
<1>2. DOMAIN change.drop = {} /\ DOMAIN change.remove = {} /\ DOMAIN change.retype = {}
  BY DEF Adding
<1>3. \A t \in DOMAIN change.add : t \in DOMAIN s /\ DOMAIN change.add[t] \cap DOMAIN s[t].columns = {}
  BY DEF AddsNew
<1> QED
  BY <1>1, <1>2, <1>3 DEF Possible

\* Of a change that takes away: tables that are there and that no other refers to any more,
\* columns that are there.
LEMMA MayRemove ==
  ASSUME NEW s, NEW change, Removing(change), NEW wide, change.order = <<>>,
         \A n \in DOMAIN change.drop :
           change.drop[n] \in DOMAIN s /\ \A m \in 1..(n - 1) : change.drop[m] # change.drop[n],
         \A n \in DOMAIN change.drop : \A t \in DOMAIN s : \A r \in s[t].refs :
           r.table = change.drop[n] => \E m \in 1..n : change.drop[m] = t,
         \A t \in DOMAIN change.remove : t \in DOMAIN s /\ change.remove[t] \subseteq DOMAIN s[t].columns
  PROVE  Possible(s, change, wide)
<1>1. DOMAIN change.create = {} /\ DOMAIN change.add = {} /\ DOMAIN change.retype = {} /\ DOMAIN change.order = {}
  BY DEF Removing
<1>2. ASSUME NEW n \in DOMAIN change.drop
      PROVE  /\ change.drop[n] \in DOMAIN s \ {change.drop[m] : m \in 1..(n - 1)}
             /\ \A t \in DOMAIN s \ {change.drop[m] : m \in 1..n} : change.drop[n] \notin Refers(s, t)
  BY <1>2 DEF Refers
<1> QED
  BY <1>1, <1>2 DEF Possible

\* Of new types: columns that are there and, where a value is wide, no narrower type.
LEMMA MayRetype ==
  ASSUME NEW s, NEW table \in DOMAIN s, NEW names, names \subseteq DOMAIN s[table].columns, NEW type, NEW wide,
         table \in wide => \A c \in names : ~Narrower(type, s[table].columns[c].type)
  PROVE  Possible(s, Retypes(table, names, type), wide)
<1> DEFINE change == Retypes(table, names, type)
<1>1. /\ DOMAIN change.create = {} /\ DOMAIN change.add = {} /\ DOMAIN change.remove = {}
      /\ DOMAIN change.order = {} /\ DOMAIN change.drop = {}
      /\ change.retype = [t \in {table} |-> [c \in names |-> type]]
  BY DEF Retypes, NoChange
<1> HIDE DEF change
<1>2. DOMAIN change.retype = {table} /\ DOMAIN change.retype[table] = names
      /\ \A c \in names : change.retype[table][c] = type
  BY <1>1
<1>3. Possible(s, change, wide)
  BY <1>1, <1>2 DEF Possible
<1> QED
  BY <1>3 DEF change

\* No upgrade() that creates tables and adds columns is refused.
LEMMA UpAllowed ==
  ASSUME NEW r \in Growing, NEW wide
  PROVE  Possible(Known[r - 1], Migrations[r].up, wide)
<1> DEFINE up == Migrations[r].up
           s == Known[r - 1]
<1>1. Adding(up) /\ AddsNew(s, up) /\ Known[r] = Applied(s, up) /\ DOMAIN up.create = NewTables[r]
  BY AllGrow, AllNew, KnownStep DEF Growing
<1>2. CASE r = 1
  <2>1. up.create = InitialTables /\ up.order = FirstOrder /\ DOMAIN InitialTables = FirstNames
    BY <1>2, First, Orders, InitialNames DEF Grows
  <2>2. InOrder(InitialTables, FirstOrder)
    <3>1. ASSUME NEW n \in 1..14, NEW m \in 1..(n - 1) PROVE FirstOrder[m] # FirstOrder[n]
      <4>1. m \in 1..14 /\ m # n
        OBVIOUS
      <4> QED
        BY <4>1, FirstPlaces
    <3> QED
      BY <3>1, FirstPlaces, FirstRefers, InitialNames DEF InOrder
  <2>3. DOMAIN Known[1] = FirstNames /\ \A t \in FirstNames : Known[1][t] = InitialTables[t]
    <3>1. DOMAIN Known[1] = {} \cup FirstNames
      <4>1. DOMAIN Applied(s, up) = DOMAIN s \cup DOMAIN up.create
        <5>1. IsSchema(s)
          BY <1>2, KnownSchemas
        <5> HIDE DEF s, up
        <5> QED
          BY <1>1, <5>1, AddedSchema
      <4>2. DOMAIN s = {}
        BY <1>2, KnownStep
      <4> QED
        BY <1>1, <1>2, <2>1, <4>1, <4>2
    <3> QED
      BY <3>1, FirstTable
  <2>4. \A t \in FirstNames : \A ref \in InitialTables[t].refs : Resolves(Known[1], InitialTables[t], ref)
    BY <2>3, InitialResolves
  <2> HIDE DEF up, s
  <2> QED
    BY <1>1, <1>2, <2>1, <2>2, <2>4, MayGrow DEF up, s
<1>3. CASE r \in {9, 12, 14}
  <2>1. \E t : up.order = <<t>> /\ DOMAIN up.create = {t} /\ up.create[t].refs = {}
    BY <1>3, <1>1, Orders, DutyGrows, RatesGrow, CandidatesGrow, LastRefers DEF Grows
  <2> HIDE DEF up, s
  <2>2. InOrder(up.create, up.order)
    BY <2>1 DEF InOrder
  <2>3. \A t \in DOMAIN up.create : up.create[t].refs = {}
    BY <2>1
  <2> QED
    BY <1>1, <2>2, <2>3, MayGrow DEF up, s
<1>4. CASE r = 15
  <2>1. up.create = PageTables /\ up.order = <<"source_products", "detail_pages">>
    BY <1>4, Orders, PagesGrow DEF Grows
  <2>2. InOrder(up.create, up.order)
    BY <2>1, LastRefers, PagesGrow DEF InOrder
  <2>3. "source_products" \in DOMAIN Known[15] /\ Known[15]["source_products"] = PageTables["source_products"]
    <3>1. 15 \in Growing /\ "source_products" \in NewTables[15] /\ 15 \in 1..16
      BY DEF Growing, NewTables
    <3>2. "source_products" \notin DOMAIN Known[15 - 1] /\ "source_products" \notin DOMAIN <<>>
      BY <3>1, NotYet
    <3> QED
      BY <3>1, <3>2, PagesGrow, NewTable
  <2>4. Has(PageTables["detail_pages"].columns, "source_product_id", Bigint)
    <3> DEFINE columns ==
          Required({"source_product_id"}, Bigint) ++ Defaulted({"status"}, Varchar(16))
            ++ Optional({"title_ko"}, Varchar(200)) ++ Optional({"props"}, Jsonb)
            ++ Optional({"image_path"}, Varchar(255)) ++ Optional({"failure_reason"}, Text)
    <3>1. Has(columns, "source_product_id", Bigint)
      BY HasGroup, HasJoined
    <3>2. \E refs : PageTables["detail_pages"] = Table(columns, {}, refs)
      BY DEF PageTables
    <3> HIDE DEF columns
    <3> QED
      BY <3>1, <3>2, TableHas
  <2>5. /\ PageTables["detail_pages"].refs = {Ref("source_product_id", "source_products", "id", "CASCADE")}
        /\ {"id"} \in PageTables["source_products"].unique
        /\ Has(PageTables["source_products"].columns, "id", Bigint)
    BY LastMade, MadeTable
  <2>6. \A ref \in PageTables["detail_pages"].refs : Resolves(Known[15], PageTables["detail_pages"], ref)
    BY <2>3, <2>4, <2>5, IdResolves
  <2>7. \A t \in DOMAIN up.create : \A ref \in up.create[t].refs : Resolves(Applied(s, up), up.create[t], ref)
    BY <1>1, <1>4, <2>1, <2>6, LastRefers, PagesGrow
  <2> HIDE DEF up, s
  <2> QED
    BY <1>1, <2>2, <2>7, MayGrow DEF up, s
<1>5. CASE r \notin {1, 9, 12, 14, 15}
  <2>1. up.order = <<>> /\ DOMAIN up.create = {}
    BY <1>1, <1>5, Orders DEF NewTables, Growing
  <2> HIDE DEF up, s
  <2>2. InOrder(up.create, up.order)
    BY <2>1 DEF InOrder
  <2> QED
    BY <1>1, <2>1, <2>2, MayGrow DEF up, s
<1> QED
  BY <1>2, <1>3, <1>4, <1>5

\* The columns of which a migration changes the type.
LEMMA RetypedNames ==
  /\ {"name_ko", "name_en"} \subseteq DOMAIN Taxonomy["hs_codes"].columns
  /\ {"growth_rate_3m", "growth_rate_6m"} \subseteq DOMAIN Snapshots["keyword_metrics"].columns
<1>1. {"name_ko", "name_en"} \subseteq DOMAIN Taxonomy["hs_codes"].columns
  BY JoinedDomain, GroupDomain, TableDomain DEF Taxonomy
<1>2. {"growth_rate_3m", "growth_rate_6m"} \subseteq DOMAIN Snapshots["keyword_metrics"].columns
  BY JoinedDomain, GroupDomain, TableDomain DEF Snapshots
<1> QED
  BY <1>1, <1>2

LEMMA RetypesAllowed ==
  ASSUME NEW r \in {2, 3}, NEW wide
  PROVE  /\ Possible(Known[r - 1], Migrations[r].up, wide)
         /\ (r = 2 => "hs_codes" \notin wide) /\ (r = 3 => "keyword_metrics" \notin wide) =>
              Possible(Known[r], Migrations[r].down, wide)
<1> DEFINE s == Known[r - 1]
<1>1. IsSchema(s) /\ Known[r] = Applied(s, Migrations[r].up)
  BY KnownSchemas, KnownStep
<1>2. ASSUME NEW table \in DOMAIN s, NEW names, NEW new, NEW old, names \subseteq DOMAIN s[table].columns,
             Migrations[r].up = Retypes(table, names, new), Migrations[r].down = Retypes(table, names, old),
             \A c \in names : ~Narrower(new, s[table].columns[c].type)
      PROVE  /\ Possible(s, Migrations[r].up, wide)
             /\ table \notin wide => Possible(Known[r], Migrations[r].down, wide)
  <2> HIDE DEF s
  <2>1. Possible(s, Migrations[r].up, wide)
    BY <1>2, MayRetype
  <2>2. DOMAIN Known[r] = DOMAIN s /\ Known[r][table] = With(s[table], Typed(s[table].columns, names, new))
    BY <1>1, <1>2, Retyped
  <2>3. table \in DOMAIN Known[r] /\ names \subseteq DOMAIN Known[r][table].columns
    BY <1>2, <2>2 DEF With, Typed
  <2> QED
    BY <1>2, <2>1, <2>3, MayRetype
<1>3. CASE r = 2
  <2> DEFINE names == {"name_ko", "name_en"}
  <2>1. "hs_codes" \in DOMAIN s /\ names \subseteq DOMAIN s["hs_codes"].columns
    BY <1>3, HsCodesTable, RetypedNames
  <2>2. /\ Migrations[r].up = Retypes("hs_codes", names, Text)
        /\ Migrations[r].down = Retypes("hs_codes", names, Varchar(255))
    BY <1>3, Retypings
  <2>3. ASSUME NEW type PROVE ~Narrower(Text, type)
    BY DEF Narrower, Text
  <2> HIDE DEF s, names
  <2> QED
    BY <1>2, <1>3, <2>1, <2>2, <2>3 DEF s
<1>4. CASE r = 3
  <2> DEFINE names == {"growth_rate_3m", "growth_rate_6m"}
  <2>1. /\ "keyword_metrics" \in DOMAIN s /\ s["keyword_metrics"] = Snapshots["keyword_metrics"]
        /\ names \subseteq DOMAIN s["keyword_metrics"].columns
    BY <1>4, MetricsTable, RetypedNames
  <2>2. /\ Migrations[r].up = Retypes("keyword_metrics", names, Numeric(10, 4))
        /\ Migrations[r].down = Retypes("keyword_metrics", names, Numeric(7, 4))
    BY <1>4, Retypings
  <2>3. \A c \in names : s["keyword_metrics"].columns[c].type = Numeric(7, 4)
    <3>1. Typed(Snapshots["keyword_metrics"].columns, names, Numeric(7, 4)) = Snapshots["keyword_metrics"].columns
      BY MetricsTyped DEF Snapshots
    <3>2. IsColumns(s["keyword_metrics"].columns)
      BY <1>1, <2>1 DEF IsSchema, IsTable
    <3> HIDE DEF s, names
    <3> QED
      BY <2>1, <3>1, <3>2, TypeOfTyped
  <2>4. ~Narrower(Numeric(10, 4), Numeric(7, 4))
    BY DEF Narrower, Numeric
  <2> HIDE DEF s, names
  <2> QED
    BY <1>2, <1>4, <2>1, <2>2, <2>3, <2>4 DEF s
<1> QED
  BY <1>3, <1>4

\* Nor is its downgrade(): it drops what no other table refers to any more.
LEMMA DownAllowed ==
  ASSUME NEW r \in Growing, NEW wide
  PROVE  Possible(Known[r], Migrations[r].down, wide)
<1> DEFINE up == Migrations[r].up
           down == Migrations[r].down
           s == Known[r - 1]
           u == Known[r]
<1>1. /\ Adding(up) /\ AddsNew(s, up) /\ Undoes(down, up) /\ u = Applied(s, up)
      /\ DOMAIN up.create = NewTables[r] /\ r \in 1..16
  <2>1. r \in 1..16
    BY DEF Growing
  <2>2. u = Applied(s, up)
    BY <2>1, KnownStep
  <2>3. Adding(up) /\ Undoes(down, up) /\ DOMAIN up.create = NewTables[r]
    BY AllGrow
  <2>4. AddsNew(s, up)
    BY AllNew
  <2> QED
    BY <2>1, <2>2, <2>3, <2>4
<1>2. down.order = <<>>
  BY Orders
<1>3. IsSchema(s) /\ DOMAIN u = DOMAIN s \cup NewTables[r]
  <2>1. r - 1 \in 0..16
    BY <1>1
  <2>2. IsSchema(s)
    BY <2>1, KnownSchemas
  <2> QED
    BY <1>1, <2>2, KnownNext
<1>4. ASSUME NEW t \in DOMAIN down.remove
      PROVE  t \in DOMAIN u /\ down.remove[t] \subseteq DOMAIN u[t].columns
  <2> HIDE DEF s, u, up, down
  <2>1. t \in DOMAIN up.add /\ t \in DOMAIN s /\ down.remove[t] = DOMAIN up.add[t]
    BY <1>1, <1>4 DEF Undoes, AddsNew
  <2>2. u[t] = With(s[t], s[t].columns ++ At(up.add, t, <<>>)) /\ At(up.add, t, <<>>) = up.add[t]
    BY <1>1, <1>3, <2>1, AddedTable DEF At
  <2>3. DOMAIN (s[t].columns ++ up.add[t]) = DOMAIN s[t].columns \cup DOMAIN up.add[t]
    BY Joined
  <2> QED
    BY <1>3, <2>1, <2>2, <2>3 DEF With
<1>5. \A t \in DOMAIN u : \A ref \in u[t].refs : ref.table \in Targets(t)
  BY <1>1, KnownTargets
<1>6. ASSUME \A n \in DOMAIN down.drop :
               down.drop[n] \in DOMAIN u /\ \A m \in 1..(n - 1) : down.drop[m] # down.drop[n],
             \A n \in DOMAIN down.drop : \A t \in DOMAIN u : \A ref \in u[t].refs :
               ref.table = down.drop[n] => \E m \in 1..n : down.drop[m] = t
      PROVE  Possible(u, down, wide)
  <2> HIDE DEF s, u, up, down
  <2>1. Removing(down)
    BY <1>1 DEF Undoes
  <2> QED
    BY <1>2, <1>4, <1>6, <2>1, MayRemove
<1>7. CASE r = 1
  <2>1. down.drop = [n \in 1..14 |-> FirstOrder[15 - n]] /\ NewTables[r] = FirstNames
    BY <1>7, Orders DEF NewTables
  <2>2. DOMAIN u = FirstNames /\ \A t \in FirstNames : u[t] = InitialTables[t]
    <3>1. DOMAIN s = {}
      BY <1>7, KnownStep
    <3> QED
      BY <1>3, <1>7, <2>1, <3>1, FirstTable
  <2> HIDE DEF s, u, up, down
  <2>3. ASSUME NEW n \in 1..14
        PROVE  down.drop[n] \in DOMAIN u /\ \A m \in 1..(n - 1) : down.drop[m] # down.drop[n]
    <3>1. 15 - n \in 1..14 /\ down.drop[n] = FirstOrder[15 - n]
      BY <2>1
    <3>2. ASSUME NEW m \in 1..(n - 1) PROVE down.drop[m] # down.drop[n]
      <4>1. 15 - m \in 1..14 /\ 15 - m # 15 - n /\ down.drop[m] = FirstOrder[15 - m]
        BY <2>1
      <4> QED
        BY <3>1, <4>1, FirstPlaces
    <3> QED
      BY <2>2, <3>1, <3>2, FirstPlaces
  <2>4. ASSUME NEW n \in 1..14, NEW t \in DOMAIN u, NEW ref \in u[t].refs, ref.table = down.drop[n]
        PROVE  \E m \in 1..n : down.drop[m] = t
    <3>1. PICK k \in 1..14 : FirstOrder[k] = t
      BY <2>2, FirstPlaces
    <3>2. PICK m \in 1..k : FirstOrder[m] = ref.table
      BY <2>2, <3>1, FirstRefers
    <3>3. m = 15 - n
      <4>1. 15 - n \in 1..14 /\ m \in 1..14 /\ FirstOrder[m] = FirstOrder[15 - n]
        BY <2>1, <2>4, <3>2
      <4> QED
        BY <4>1, FirstPlaces
    <3>4. 15 - k \in 1..n /\ down.drop[15 - k] = FirstOrder[k]
      BY <2>1, <3>2, <3>3
    <3> QED
      BY <3>1, <3>4
  <2>5. DOMAIN down.drop = 1..14
    BY <2>1
  <2> QED
    BY <1>6, <2>3, <2>4, <2>5 DEF u, down
<1>8. CASE r \in {9, 12, 14}
  <2>1. PICK t : down.drop = <<t>> /\ t \in NewTables[r] /\
                 t \in {"customs_duty_rates", "international_shipping_rates", "seed_candidates"}
    <3>1. /\ NewTables[9] = {"customs_duty_rates"} /\ NewTables[12] = {"international_shipping_rates"}
          /\ NewTables[14] = {"seed_candidates"}
      BY DEF NewTables
    <3>2. /\ r = 9 => down.drop = <<"customs_duty_rates">>
          /\ r = 12 => down.drop = <<"international_shipping_rates">>
          /\ r = 14 => down.drop = <<"seed_candidates">>
      BY Orders
    <3> HIDE DEF down
    <3> QED
      BY <1>8, <3>1, <3>2
  <2> HIDE DEF s, u, up, down
  <2>2. \A x \in DOMAIN u : \A ref \in u[x].refs : ref.table # t
    BY <1>5, <2>1 DEF Targets
  <2> QED
    BY <1>3, <1>6, <2>1, <2>2 DEF u, down
<1>9. CASE r = 15
  <2>1. down.drop = <<"detail_pages", "source_products">> /\ NewTables[r] = {"detail_pages", "source_products"}
    <3>1. NewTables[15] = {"detail_pages", "source_products"}
      BY DEF NewTables
    <3>2. r = 15 => down.drop = <<"detail_pages", "source_products">>
      BY Orders
    <3> QED
      BY <1>9, <3>1, <3>2
  <2> HIDE DEF s, u, up, down
  <2>2. \A x \in DOMAIN u : \A ref \in u[x].refs :
          ref.table # "detail_pages" /\ (ref.table = "source_products" => x = "detail_pages")
    BY <1>5 DEF Targets
  <2>3. ASSUME NEW n \in DOMAIN down.drop, NEW x \in DOMAIN u, NEW ref \in u[x].refs, ref.table = down.drop[n]
        PROVE  \E m \in 1..n : down.drop[m] = x
    <3>1. n = 2 /\ x = "detail_pages"
      BY <2>1, <2>2, <2>3
    <3> QED
      BY <2>1, <3>1
  <2>4. ASSUME NEW n \in DOMAIN down.drop
        PROVE  down.drop[n] \in DOMAIN u /\ \A m \in 1..(n - 1) : down.drop[m] # down.drop[n]
    BY <1>3, <2>1
  <2> QED
    BY <1>6, <2>3, <2>4 DEF u, down
<1>10. CASE r \notin {1, 9, 12, 14, 15}
  <2>1. down.drop = <<>>
    BY <1>10, Orders
  <2> HIDE DEF s, u, up, down
  <2> QED
    BY <1>6, <2>1 DEF u, down
<1> QED
  BY <1>7, <1>8, <1>9, <1>10

\* A walk of which no change is refused arrives.
LEMMA ReachedLast ==
  ASSUME NEW s, NEW changes, NEW wide, NEW n \in Nat, n = Len(changes), NEW path, path[0] = s,
         \A m \in 1..n : path[m] = Applied(path[m - 1], changes[m]),
         \A m \in 1..n : Possible(path[m - 1], changes[m], wide)
  PROVE  Reached(s, changes, wide) = {path[n]}
<1> DEFINE f == CHOOSE f : StepsTo(f, s, changes, wide, n)
<1>1. StepsTo(f, s, changes, wide, n)
  BY AllSteps
<1>2. Reached(s, changes, wide) = f[n]
  BY DEF Reached, StepsTo, Successors
<1> HIDE DEF f
<1> DEFINE T == {m \in 0..n : path[m] \notin f[m]}
<1>3. ASSUME T # {} PROVE FALSE
  <2>1. PICK m \in T : \A i \in T : m <= i
    <3>1. T \subseteq Nat
      OBVIOUS
    <3> HIDE DEF T
    <3> QED
      BY <1>3, <3>1, Smallest
  <2>2. m # 0
    BY <1>1, <2>1 DEF StepsTo
  <2>3. m \in 1..n /\ path[m - 1] \in f[m - 1]
    BY <2>1, <2>2
  <2>4. f[m] = Successors(f[m - 1], changes[m], wide)
    BY <1>1, <2>2, <2>3 DEF StepsTo
  <2>5. path[m] \in f[m]
    BY <2>3, <2>4 DEF Successors
  <2> QED
    BY <2>1, <2>5
<1>4. Reached(s, changes, wide) \subseteq {path[n]}
  BY ReachedOnly
<1> QED
  BY <1>2, <1>3, <1>4

\* So does every upgrade, whatever the columns hold; and every downgrade, unless it takes
\* back a wider type from a column that holds a wide value.
LEMMA UpgradesArrive ==
  ASSUME NEW from \in 0..16, NEW to \in from..16, NEW wide
  PROVE  Reached(Known[from], Changes(from, to), wide) = {Known[to]}
<1> DEFINE path == [m \in 0..(to - from) |-> Known[from + m]]
           changes == Changes(from, to)
<1>1. Len(changes) = to - from /\ \A m \in 1..(to - from) : changes[m] = Migrations[from + m].up
  BY DEF Changes
<1> HIDE DEF changes
<1>2. ASSUME NEW m \in 1..(to - from)
      PROVE  path[m] = Applied(path[m - 1], changes[m]) /\ Possible(path[m - 1], changes[m], wide)
  <2>1. from + m \in 1..16 /\ (from + m) - 1 = from + (m - 1) /\ m - 1 \in 0..(to - from)
    OBVIOUS
  <2>2. Known[from + m] = Applied(Known[from + (m - 1)], Migrations[from + m].up)
    BY <2>1, KnownStep
  <2>3. Possible(Known[(from + m) - 1], Migrations[from + m].up, wide)
    <3>1. from + m \in Growing \/ from + m \in {2, 3}
      BY <2>1, Numbers DEF Growing
    <3> QED
      BY <3>1, UpAllowed, RetypesAllowed
  <2> QED
    BY <1>1, <2>1, <2>2, <2>3
<1>3. path[0] = Known[from] /\ path[to - from] = Known[to] /\ to - from \in Nat
  OBVIOUS
<1> HIDE DEF path
<1>4. /\ \A m \in 1..(to - from) : path[m] = Applied(path[m - 1], changes[m])
      /\ \A m \in 1..(to - from) : Possible(path[m - 1], changes[m], wide)
  BY <1>2
<1>5. Reached(Known[from], changes, wide) = {path[to - from]}
  BY <1>1, <1>3, <1>4, ReachedLast
<1> QED
  BY <1>3, <1>5 DEF changes

LEMMA DowngradesArrive ==
  ASSUME NEW from \in 0..16, NEW to \in 0..16, to <= from, NEW wide,
         to < 2 /\ 2 <= from => "hs_codes" \notin wide, to < 3 /\ 3 <= from => "keyword_metrics" \notin wide
  PROVE  Reached(Known[from], Changes(from, to), wide) = {Known[to]}
<1>1. CASE to = from
  BY <1>1, UpgradesArrive
<1>2. CASE to < from
  <2> DEFINE path == [m \in 0..(from - to) |-> Known[from - m]]
             changes == Changes(from, to)
  <2>1. Len(changes) = from - to /\ \A m \in 1..(from - to) : changes[m] = Migrations[from - m + 1].down
    BY <1>2 DEF Changes
  <2> HIDE DEF changes
  <2>2. ASSUME NEW m \in 1..(from - to)
        PROVE  path[m] = Applied(path[m - 1], changes[m]) /\ Possible(path[m - 1], changes[m], wide)
    <3> DEFINE r == from - m + 1
    <3>1. /\ r \in 1..16 /\ r - 1 = from - m /\ from - (m - 1) = r /\ m - 1 \in 0..(from - to)
          /\ to < r /\ r <= from
      OBVIOUS
    <3>2. path[m] = Known[r - 1] /\ path[m - 1] = Known[r] /\ changes[m] = Migrations[r].down
      BY <2>1, <3>1
    <3> HIDE DEF r, path
    <3>3. Known[r - 1] = Applied(Known[r], Migrations[r].down)
      BY <3>1, WayBack
    <3>4. Possible(Known[r], Migrations[r].down, wide)
      <4>1. CASE r \in Growing
        BY <4>1, DownAllowed
      <4>2. CASE r \in {2, 3}
        <5>1. (r = 2 => "hs_codes" \notin wide) /\ (r = 3 => "keyword_metrics" \notin wide)
          BY <3>1
        <5> QED
          BY <4>2, <5>1, RetypesAllowed
      <4> QED
        BY <3>1, <4>1, <4>2, Numbers DEF Growing
    <3> QED
      BY <3>2, <3>3, <3>4
  <2>3. path[0] = Known[from] /\ path[from - to] = Known[to] /\ from - to \in Nat
    BY <1>2
  <2> HIDE DEF path
  <2>4. /\ \A m \in 1..(from - to) : path[m] = Applied(path[m - 1], changes[m])
        /\ \A m \in 1..(from - to) : Possible(path[m - 1], changes[m], wide)
    BY <2>2
  <2>5. Reached(Known[from], changes, wide) = {path[from - to]}
    <3> DEFINE n == from - to
    <3>1. n \in Nat /\ n = Len(changes) /\ path[0] = Known[from]
      BY <2>1, <2>3
    <3>2. /\ \A m \in 1..n : path[m] = Applied(path[m - 1], changes[m])
          /\ \A m \in 1..n : Possible(path[m - 1], changes[m], wide)
      BY <2>4
    <3> HIDE DEF n
    <3>3. Reached(Known[from], changes, wide) = {path[n]}
      BY <3>1, <3>2, ReachedLast
    <3> QED
      BY <3>3 DEF n
  <2> QED
    BY <2>3, <2>5 DEF changes
<1> QED
  BY <1>1, <1>2

-----------------------------------------------------------------------------
(* Code on a later schema *)

\* A type, and the wider one that a migration puts in its place.
Wider(wide, narrow) ==
  \/ wide = narrow
  \/ wide = Text /\ narrow = Varchar(255)
  \/ wide = Numeric(10, 4) /\ narrow = Numeric(7, 4)

\* A table with more and wider columns.
Extended(new, old) ==
  /\ new.unique = old.unique /\ new.refs = old.refs
  /\ \A c \in DOMAIN old.columns :
       /\ c \in DOMAIN new.columns /\ new.columns[c].kind = old.columns[c].kind
       /\ Wider(new.columns[c].type, old.columns[c].type)
  /\ \A c \in DOMAIN new.columns \ DOMAIN old.columns : new.columns[c].kind # "required"

Extends(db, code) == \A t \in DOMAIN code : t \in DOMAIN db /\ Extended(db[t], code[t])

\* The types in question are different ones, so widening goes on.
LEMMA FourTypes ==
  /\ Text # Varchar(255) /\ Numeric(10, 4) # Numeric(7, 4) /\ Text # Numeric(7, 4)
  /\ Numeric(10, 4) # Varchar(255)
<1>1. /\ Text[1] = "text" /\ Varchar(255)[1] = "varchar"
      /\ Numeric(10, 4)[1] = "numeric" /\ Numeric(7, 4)[1] = "numeric"
      /\ Numeric(10, 4)[2] = 10 /\ Numeric(7, 4)[2] = 7
  BY DEF Text, Varchar, Numeric
<1> QED
  BY <1>1

LEMMA WiderStill ==
  ASSUME NEW a, NEW b, NEW c, Wider(a, b), Wider(b, c)
  PROVE  Wider(a, c)
  BY FourTypes DEF Wider

\* A table extends itself, and what it extends twice over.
LEMMA ExtendedItself == ASSUME NEW table PROVE Extended(table, table)
  BY DEF Extended, Wider

LEMMA ExtendedTwice ==
  ASSUME NEW new, NEW mid, NEW old, Extended(new, mid), Extended(mid, old)
  PROVE  Extended(new, old)
<1>1. new.unique = old.unique /\ new.refs = old.refs
  BY DEF Extended
<1>2. ASSUME NEW c \in DOMAIN old.columns
      PROVE  /\ c \in DOMAIN new.columns /\ new.columns[c].kind = old.columns[c].kind
             /\ Wider(new.columns[c].type, old.columns[c].type)
  <2>1. /\ c \in DOMAIN mid.columns /\ mid.columns[c].kind = old.columns[c].kind
        /\ Wider(mid.columns[c].type, old.columns[c].type)
    BY DEF Extended
  <2>2. /\ c \in DOMAIN new.columns /\ new.columns[c].kind = mid.columns[c].kind
        /\ Wider(new.columns[c].type, mid.columns[c].type)
    BY <2>1 DEF Extended
  <2> QED
    BY <2>1, <2>2, WiderStill
<1>3. ASSUME NEW c \in DOMAIN new.columns \ DOMAIN old.columns
      PROVE  new.columns[c].kind # "required"
  <2>1. CASE c \in DOMAIN mid.columns
    <3>1. mid.columns[c].kind # "required" /\ new.columns[c].kind = mid.columns[c].kind
      BY <2>1 DEF Extended
    <3> QED
      BY <3>1
  <2>2. CASE c \notin DOMAIN mid.columns
    BY <2>2 DEF Extended
  <2> QED
    BY <2>1, <2>2
<1> QED
  BY <1>1, <1>2, <1>3 DEF Extended

\* Columns of which an INSERT need not know.
NotAsked(columns) == \A c \in DOMAIN columns : columns[c].kind # "required"

LEMMA NotAskedGroups ==
  ASSUME NEW names, NEW type
  PROVE  NotAsked(Optional(names, type)) /\ NotAsked(Defaulted(names, type))
  BY DEF NotAsked, Optional, Defaulted, Columns

LEMMA NotAskedJoined ==
  ASSUME NEW f, NEW g, NotAsked(f), NotAsked(g)
  PROVE  NotAsked(f ++ g)
  BY DEF NotAsked, ++

\* A migration asks for no value that older code does not give.
LEMMA NothingAsked ==
  ASSUME NEW r \in Growing, NEW t \in DOMAIN Migrations[r].up.add
  PROVE  NotAsked(Migrations[r].up.add[t])
<1>1. t \in Touched[r]
  BY AllGrow
<1>2. ASSUME NEW m, NEW T, NEW u, NEW more, Grows(m, T, On(u, more)), NotAsked(more), NEW v, v = u
      PROVE  NotAsked(m.up.add[v])
  BY <1>2, OnDomain DEF Grows
<1>3. NotAsked(RateColumns)
  BY NotAskedGroups, NotAskedJoined DEF RateColumns
<1>4. /\ NotAsked(Migrations[4].up.add["keyword_metrics"]) /\ NotAsked(Migrations[5].up.add["opportunity_scores"])
      /\ NotAsked(Migrations[6].up.add["keywords"]) /\ NotAsked(Migrations[7].up.add["products"])
      /\ NotAsked(Migrations[8].up.add["products"]) /\ NotAsked(Migrations[10].up.add["products"])
      /\ NotAsked(Migrations[11].up.add["products"])
  BY <1>2, ColumnsGrow, NotAskedGroups
<1>5. NotAsked(Migrations[12].up.add["products"]) /\ NotAsked(Migrations[16].up.add["detail_pages"])
  BY <1>2, <1>3, RatesGrow, TemplateGrows, NotAskedGroups
<1> QED
  BY <1>1, <1>4, <1>5 DEF Touched, Growing

\* A table with more columns, and with wider ones, extends the old one.
LEMMA WithMore ==
  ASSUME NEW old, NEW more, NotAsked(more)
  PROVE  Extended(With(old, old.columns ++ more), old)
<1> DEFINE columns == old.columns
           all == columns ++ more
           new == With(old, all)
<1>1. new.columns = all /\ new.unique = old.unique /\ new.refs = old.refs
  BY DEF With
<1>2. ASSUME NEW c \in DOMAIN columns PROVE c \in DOMAIN all /\ all[c] = columns[c]
  BY JoinedLeft, JoinedDomain
<1>3. ASSUME NEW c \in DOMAIN all, c \notin DOMAIN columns PROVE all[c].kind # "required"
  <2>1. c \in DOMAIN more
    BY <1>3, JoinedDomain
  <2> HIDE DEF columns
  <2>2. all[c] = more[c]
    BY <1>3, <2>1, JoinedRight
  <2> QED
    BY <2>1, <2>2 DEF NotAsked
<1> HIDE DEF new, all
<1>4. Extended(new, old)
  BY <1>1, <1>2, <1>3 DEF Extended, Wider
<1> QED
  BY <1>4 DEF new, all

LEMMA WithTyped ==
  ASSUME NEW old, IsColumns(old.columns), NEW names, NEW wide, NEW narrow, Wider(wide, narrow),
         \A c \in DOMAIN old.columns \cap names : old.columns[c].type = narrow
  PROVE  Extended(With(old, Typed(old.columns, names, wide)), old)
<1> DEFINE columns == old.columns
           all == Typed(columns, names, wide)
           new == With(old, all)
<1>1. new.columns = all /\ new.unique = old.unique /\ new.refs = old.refs
  BY DEF With
<1>2. DOMAIN all = DOMAIN columns
  BY TypedColumns
<1>3. ASSUME NEW c \in DOMAIN columns
      PROVE  all[c].kind = columns[c].kind /\ Wider(all[c].type, columns[c].type)
  <2>1. all[c].kind = columns[c].kind /\ all[c].type = IF c \in names THEN wide ELSE columns[c].type
    BY TypedColumns
  <2>2. Wider(columns[c].type, columns[c].type)
    BY DEF Wider
  <2> HIDE DEF all
  <2> QED
    BY <2>1, <2>2
<1> HIDE DEF new, all
<1>4. Extended(new, old)
  BY <1>1, <1>2, <1>3 DEF Extended
<1> QED
  BY <1>4 DEF new, all

\* The types that 0002 and 0003 change.
LEMMA OldTypes ==
  /\ "hs_codes" \in DOMAIN Known[1] /\ "keyword_metrics" \in DOMAIN Known[2]
  /\ IsColumns(Known[1]["hs_codes"].columns) /\ IsColumns(Known[2]["keyword_metrics"].columns)
  /\ \A c \in DOMAIN Known[1]["hs_codes"].columns \cap {"name_ko", "name_en"} :
       Known[1]["hs_codes"].columns[c].type = Varchar(255)
  /\ \A c \in DOMAIN Known[2]["keyword_metrics"].columns \cap {"growth_rate_3m", "growth_rate_6m"} :
       Known[2]["keyword_metrics"].columns[c].type = Numeric(7, 4)
<1> DEFINE hs == Known[1]["hs_codes"].columns
           metrics == Known[2]["keyword_metrics"].columns
<1>1. /\ "hs_codes" \in DOMAIN Known[1] /\ hs = Taxonomy["hs_codes"].columns
      /\ "keyword_metrics" \in DOMAIN Known[2] /\ metrics = Snapshots["keyword_metrics"].columns
  BY HsCodesTable, MetricsTable
<1>2. IsColumns(hs) /\ IsColumns(metrics)
  <2>1. IsSchema(Known[1]) /\ IsSchema(Known[2])
    BY KnownSchemas
  <2> QED
    BY <1>1, <2>1 DEF IsSchema, IsTable
<1>3. Typed(hs, {"name_ko", "name_en"}, Varchar(255)) = hs
  <2>1. Typed(Taxonomy["hs_codes"].columns, {"name_ko", "name_en"}, Varchar(255)) = Taxonomy["hs_codes"].columns
    BY HsCodesTyped DEF Taxonomy
  <2> QED
    BY <1>1, <2>1
<1>4. Typed(metrics, {"growth_rate_3m", "growth_rate_6m"}, Numeric(7, 4)) = metrics
  <2>1. Typed(Snapshots["keyword_metrics"].columns, {"growth_rate_3m", "growth_rate_6m"}, Numeric(7, 4)) =
          Snapshots["keyword_metrics"].columns
    BY MetricsTyped DEF Snapshots
  <2> QED
    BY <1>1, <2>1
<1> HIDE DEF hs, metrics
<1>5. \A c \in DOMAIN hs \cap {"name_ko", "name_en"} : hs[c].type = Varchar(255)
  BY <1>2, <1>3, TypeOfTyped
<1>6. \A c \in DOMAIN metrics \cap {"growth_rate_3m", "growth_rate_6m"} : metrics[c].type = Numeric(7, 4)
  BY <1>2, <1>4, TypeOfTyped
<1> QED
  BY <1>1, <1>2, <1>5, <1>6 DEF hs, metrics

\* Each migration extends the schema before it, so all of them together do.
LEMMA RetypedExtends ==
  ASSUME NEW s, IsSchema(s), NEW table \in DOMAIN s, NEW names, NEW wide, NEW narrow, Wider(wide, narrow),
         IsColumns(s[table].columns),
         \A c \in DOMAIN s[table].columns \cap names : s[table].columns[c].type = narrow
  PROVE  Extends(Applied(s, Retypes(table, names, wide)), s)
<1> DEFINE u == Applied(s, Retypes(table, names, wide))
<1>1. /\ DOMAIN u = DOMAIN s /\ \A t \in DOMAIN s \ {table} : u[t] = s[t]
      /\ u[table] = With(s[table], Typed(s[table].columns, names, wide))
  BY Retyped
<1>2. Extended(With(s[table], Typed(s[table].columns, names, wide)), s[table])
  BY WithTyped
<1> HIDE DEF u
<1>3. ASSUME NEW t \in DOMAIN s PROVE t \in DOMAIN u /\ Extended(u[t], s[t])
  BY <1>1, <1>2, ExtendedItself
<1>4. Extends(u, s)
  BY <1>3 DEF Extends
<1> QED
  BY <1>4 DEF u

LEMMA ExtendsOne ==
  ASSUME NEW r \in 1..16
  PROVE  Extends(Known[r], Known[r - 1])
<1> DEFINE s == Known[r - 1]
<1>1. Known[r] = Applied(s, Migrations[r].up) /\ IsSchema(s)
  <2>1. r - 1 \in 0..16
    OBVIOUS
  <2> QED
    BY <2>1, KnownStep, KnownSchemas
<1>2. CASE r \in Growing
  <2> DEFINE up == Migrations[r].up
             u == Applied(s, up)
  <2>1. Adding(up)
    BY <1>2, AllGrow
  <2>2. \A t \in DOMAIN up.add : NotAsked(up.add[t])
    BY <1>2, NothingAsked
  <2>3. NotAsked(<<>>)
    BY DEF NotAsked
  <2> HIDE DEF s, up
  <2>4. DOMAIN u = DOMAIN s \cup DOMAIN up.create
    BY <1>1, <2>1, AddedSchema
  <2>5. ASSUME NEW t \in DOMAIN s PROVE Extended(u[t], s[t])
    <3>1. u[t] = With(s[t], s[t].columns ++ At(up.add, t, <<>>))
      BY <1>1, <2>1, AddedTable
    <3>2. NotAsked(At(up.add, t, <<>>))
      BY <2>2, <2>3 DEF At
    <3> QED
      BY <3>1, <3>2, WithMore
  <2>6. Extends(u, s)
    BY <2>4, <2>5 DEF Extends
  <2> QED
    BY <1>1, <2>6 DEF s, up
<1>3. CASE r = 2
  <2>1. Wider(Text, Varchar(255)) /\ s = Known[1]
    BY <1>3 DEF Wider
  <2>2. /\ "hs_codes" \in DOMAIN s /\ IsColumns(s["hs_codes"].columns)
        /\ \A c \in DOMAIN s["hs_codes"].columns \cap {"name_ko", "name_en"} :
             s["hs_codes"].columns[c].type = Varchar(255)
    BY <2>1, OldTypes
  <2>3. Known[r] = Applied(s, Retypes("hs_codes", {"name_ko", "name_en"}, Text))
    BY <1>1, <1>3, Retypings
  <2> HIDE DEF s
  <2>4. Extends(Applied(s, Retypes("hs_codes", {"name_ko", "name_en"}, Text)), s)
    BY <1>1, <2>1, <2>2, RetypedExtends
  <2> QED
    BY <2>3, <2>4 DEF s
<1>4. CASE r = 3
  <2> DEFINE rates == {"growth_rate_3m", "growth_rate_6m"}
  <2>1. Wider(Numeric(10, 4), Numeric(7, 4)) /\ s = Known[2]
    BY <1>4 DEF Wider
  <2>2. /\ "keyword_metrics" \in DOMAIN s /\ IsColumns(s["keyword_metrics"].columns)
        /\ \A c \in DOMAIN s["keyword_metrics"].columns \cap rates :
             s["keyword_metrics"].columns[c].type = Numeric(7, 4)
    BY <2>1, OldTypes
  <2>3. Known[r] = Applied(s, Retypes("keyword_metrics", rates, Numeric(10, 4)))
    BY <1>1, <1>4, Retypings
  <2> HIDE DEF s, rates
  <2>4. Extends(Applied(s, Retypes("keyword_metrics", rates, Numeric(10, 4))), s)
    BY <1>1, <2>1, <2>2, RetypedExtends
  <2> QED
    BY <2>3, <2>4 DEF s
<1> QED
  BY <1>2, <1>3, <1>4, Numbers DEF Growing

LEMMA ExtendsAll ==
  ASSUME NEW a \in 0..16, NEW b \in a..16
  PROVE  Extends(Known[b], Known[a])
<1> DEFINE T == {n \in a..b : ~Extends(Known[n], Known[a])}
<1>1. ASSUME T # {} PROVE FALSE
  <2>1. PICK n \in T : \A i \in T : n <= i
    <3>1. T \subseteq Nat
      OBVIOUS
    <3> HIDE DEF T
    <3> QED
      BY <1>1, <3>1, Smallest
  <2>2. n # a
    <3>1. Extends(Known[a], Known[a])
      BY ExtendedItself DEF Extends
    <3> QED
      BY <2>1, <3>1
  <2>3. Extends(Known[n - 1], Known[a]) /\ n \in 1..16
    BY <2>1, <2>2
  <2>4. Extends(Known[n], Known[n - 1])
    BY <2>3, ExtendsOne
  <2>5. ASSUME NEW t \in DOMAIN Known[a]
        PROVE  t \in DOMAIN Known[n] /\ Extended(Known[n][t], Known[a][t])
    <3>1. t \in DOMAIN Known[n - 1] /\ Extended(Known[n - 1][t], Known[a][t])
      BY <2>3 DEF Extends
    <3>2. t \in DOMAIN Known[n] /\ Extended(Known[n][t], Known[n - 1][t])
      BY <2>4, <3>1 DEF Extends
    <3> QED
      BY <3>1, <3>2, ExtendedTwice
  <2>6. Extends(Known[n], Known[a])
    BY <2>5 DEF Extends
  <2> QED
    BY <2>1, <2>6
<1>2. b \in a..b
  OBVIOUS
<1> QED
  BY <1>1, <1>2

\* A wider type holds as much.
LEMMA WiderServes ==
  ASSUME NEW wide, NEW narrow, Wider(wide, narrow)
  PROVE  wide = narrow \/ Narrower(narrow, wide)
<1>1. Varchar(255)[1] = "varchar" /\ Numeric(7, 4)[1] = "numeric" /\ Numeric(10, 4)[1] = "numeric"
      /\ Numeric(10, 4)[2] = 10 /\ Numeric(7, 4)[2] = 7
  BY DEF Varchar, Numeric
<1> QED
  BY <1>1 DEF Wider, Narrower

(* Code written for a revision runs on every later one: its tables and columns are *)
(* there, wider at most, and no column asks for a value that it does not give.      *)
THEOREM LaterServes ==
  ASSUME NEW a \in 0..16, NEW b \in a..16
  PROVE  Serves(Known[b], Known[a])
<1> DEFINE db == Known[b]
           code == Known[a]
<1>1. Extends(db, code)
  BY ExtendsAll
<1> HIDE DEF db, code
<1>2. ASSUME NEW t \in DOMAIN code
      PROVE  /\ t \in DOMAIN db /\ db[t].unique = code[t].unique /\ db[t].refs = code[t].refs
             /\ \A c \in DOMAIN db[t].columns \ DOMAIN code[t].columns : db[t].columns[c].kind # "required"
  BY <1>1 DEF Extends, Extended
<1>3. ASSUME NEW t \in DOMAIN code, NEW c \in DOMAIN code[t].columns
      PROVE  c \in DOMAIN db[t].columns /\ ColumnServes(db[t].columns[c], code[t].columns[c])
  <2>1. /\ c \in DOMAIN db[t].columns /\ db[t].columns[c].kind = code[t].columns[c].kind
        /\ Wider(db[t].columns[c].type, code[t].columns[c].type)
    BY <1>1 DEF Extends, Extended
  <2> QED
    BY <2>1, WiderServes DEF ColumnServes
<1>4. Serves(db, code)
  BY <1>2, <1>3 DEF Serves
<1> QED
  BY <1>4 DEF db, code

-----------------------------------------------------------------------------
(* Code of the head on the schema of the head *)

\* The tables of the head.
LEMMA HeadOfFirst ==
  ASSUME NEW t \in {"categories", "keyword_hs_mappings", "import_stats", "product_scores", "channel_profits",
                    "feedbacks", "coupang_fees", "exchange_rates", "api_cache"}
  PROVE  t \in DOMAIN Known[16] /\ Known[16][t] = Declared[t]
<1>1. t \in FirstNames
  BY DEF FirstNames
<1>2. t \in DOMAIN Known[1] /\ Known[1][t] = InitialTables[t]
  BY <1>1, FirstTable
<1>3. \A k \in (1 + 1)..16 : t \notin Touched[k]
  BY DEF Touched
<1>4. t \in DOMAIN Known[16] /\ Known[16][t] = InitialTables[t]
  <2>1. 1 \in 0..16 /\ 16 \in 1..16
    OBVIOUS
  <2> QED
    BY <1>2, <1>3, <2>1, Untouched
<1>5. /\ t = "categories" => InitialTables[t] = Taxonomy[t]
      /\ t = "keyword_hs_mappings" => InitialTables[t] = Searches[t]
      /\ t = "import_stats" => InitialTables[t] = Snapshots[t]
      /\ t \in {"product_scores", "channel_profits"} => InitialTables[t] = Sourcing[t]
      /\ t \in {"feedbacks", "coupang_fees", "exchange_rates", "api_cache"} => InitialTables[t] = Outcomes[t]
  BY InitialTable, TaxonomyTables, SearchesTables, SnapshotsTables, SourcingTables, OutcomesTables
<1>6. /\ Declared["categories"] = Taxonomy["categories"]
      /\ Declared["keyword_hs_mappings"] = Searches["keyword_hs_mappings"]
      /\ Declared["import_stats"] = Snapshots["import_stats"]
      /\ Declared["product_scores"] = Sourcing["product_scores"]
      /\ Declared["channel_profits"] = Sourcing["channel_profits"]
      /\ Declared["feedbacks"] = Outcomes["feedbacks"] /\ Declared["coupang_fees"] = Outcomes["coupang_fees"]
      /\ Declared["exchange_rates"] = Outcomes["exchange_rates"] /\ Declared["api_cache"] = Outcomes["api_cache"]
  <2>1. Declared["categories"] = Category /\ Category = Taxonomy["categories"]
    BY DEF Declared, Category, Taxonomy
  <2>2. Declared["keyword_hs_mappings"] = KeywordHsMapping /\ KeywordHsMapping = Searches["keyword_hs_mappings"]
    BY DEF Declared, KeywordHsMapping, Searches
  <2>3. Declared["import_stats"] = ImportStat /\ ImportStat = Snapshots["import_stats"]
    BY DEF Declared, ImportStat, Snapshots
  <2>4. Declared["product_scores"] = ProductScore /\ ProductScore = Sourcing["product_scores"]
    BY DEF Declared, ProductScore, Sourcing
  <2>5. Declared["channel_profits"] = ChannelProfit /\ ChannelProfit = Sourcing["channel_profits"]
    BY DEF Declared, ChannelProfit, Sourcing
  <2>6. Declared["feedbacks"] = Feedback /\ Feedback = Outcomes["feedbacks"]
    BY DEF Declared, Feedback, Outcomes
  <2>7. Declared["coupang_fees"] = CoupangFee /\ CoupangFee = Outcomes["coupang_fees"]
    BY DEF Declared, CoupangFee, Outcomes
  <2>8. Declared["exchange_rates"] = ExchangeRate /\ ExchangeRate = Outcomes["exchange_rates"]
    BY DEF Declared, ExchangeRate, Outcomes
  <2>9. Declared["api_cache"] = ApiCache /\ ApiCache = Outcomes["api_cache"]
    BY DEF Declared, ApiCache, Outcomes
  <2> QED
    BY <2>1, <2>2, <2>3, <2>4, <2>5, <2>6, <2>7, <2>8, <2>9
<1> QED
  BY <1>4, <1>5, <1>6

\* A table that no later migration touches is that of the head.
LEMMA UntouchedTo16 ==
  ASSUME NEW a \in 0..16, NEW t \in DOMAIN Known[a], NEW table, Known[a][t] = table,
         \A k \in (a + 1)..16 : t \notin Touched[k]
  PROVE  t \in DOMAIN Known[16] /\ Known[16][t] = table
  BY Untouched

\* And the tables that were touched, or created later.
LEMMA HeadOfOthers ==
  ASSUME NEW t \in {"hs_codes", "keyword_metrics", "opportunity_scores", "keywords", "products",
                    "customs_duty_rates", "international_shipping_rates", "source_products", "detail_pages"}
  PROVE  t \in DOMAIN Known[16] /\ Known[16][t] = Declared[t]
<1>1. CASE t = "hs_codes"
  <2>1. \A k \in (2 + 1)..16 : t \notin Touched[k]
    BY <1>1 DEF Touched
  <2>2. t \in DOMAIN Known[16] /\ Known[16][t] = HsCode
    BY <1>1, <2>1, HsCodesTable, UntouchedTo16
  <2> QED
    BY <1>1, <2>2 DEF Declared
<1>2. CASE t = "keyword_metrics"
  <2>1. \A k \in (4 + 1)..16 : t \notin Touched[k]
    BY <1>2 DEF Touched
  <2>2. t \in DOMAIN Known[16] /\ Known[16][t] = KeywordMetric
    BY <1>2, <2>1, MetricsTable, UntouchedTo16
  <2> QED
    BY <1>2, <2>2 DEF Declared
<1>3. CASE t = "opportunity_scores"
  <2>1. \A k \in (5 + 1)..16 : t \notin Touched[k]
    BY <1>3 DEF Touched
  <2>2. t \in DOMAIN Known[16] /\ Known[16][t] = OpportunityScore
    BY <1>3, <2>1, ScoresTable, UntouchedTo16
  <2> QED
    BY <1>3, <2>2 DEF Declared
<1>4. CASE t = "keywords"
  <2>1. \A k \in (6 + 1)..16 : t \notin Touched[k]
    BY <1>4 DEF Touched
  <2>2. t \in DOMAIN Known[16] /\ Known[16][t] = Keyword
    BY <1>4, <2>1, KeywordsTable, UntouchedTo16
  <2> QED
    BY <1>4, <2>2 DEF Declared
<1>5. CASE t = "products"
  <2>1. \A k \in (12 + 1)..16 : t \notin Touched[k]
    BY <1>5 DEF Touched
  <2>2. t \in DOMAIN Known[16] /\ Known[16][t] = Product
    BY <1>5, <2>1, ProductsTable, UntouchedTo16
  <2> QED
    BY <1>5, <2>2 DEF Declared
<1>6. ASSUME NEW r \in {9, 12, 14, 15}, NEW T, NEW A, Grows(Migrations[r], T, A),
             t \in DOMAIN T, t \notin DOMAIN A,
             t \in NewTables[r]
      PROVE  t \in DOMAIN Known[r] /\ Known[r][t] = T[t]
  <2>1. r \in Growing /\ r \in 1..16
    BY DEF Growing
  <2> QED
    BY <1>6, <2>1, NotYet, NewTable
<1>7. CASE t = "customs_duty_rates"
  <2>1. t \in DOMAIN Known[9] /\ Known[9][t] = DutyTable[t]
    <3>1. t \in NewTables[9] /\ t \notin DOMAIN <<>>
      BY <1>7 DEF NewTables
    <3> QED
      BY <1>6, <1>7, <3>1, DutyGrows
  <2>2. \A k \in (9 + 1)..16 : t \notin Touched[k]
    BY <1>7 DEF Touched
  <2>3. t \in DOMAIN Known[16] /\ Known[16][t] = DutyTable[t]
    BY <2>1, <2>2, UntouchedTo16
  <2>4. DutyTable[t] = CustomsDutyRate
    BY <1>7 DEF DutyTable, CustomsDutyRate
  <2> QED
    BY <1>7, <2>3, <2>4 DEF Declared
<1>8. CASE t = "international_shipping_rates"
  <2>1. t \in DOMAIN Known[12] /\ Known[12][t] = RateTable[t]
    <3>1. t \in NewTables[12]
      BY <1>8 DEF NewTables
    <3>2. DOMAIN On("products", RateColumns) = {"products"}
      BY OnDomain
    <3> QED
      BY <1>6, <1>8, <3>1, <3>2, RatesGrow
  <2>2. \A k \in (12 + 1)..16 : t \notin Touched[k]
    BY <1>8 DEF Touched
  <2>3. t \in DOMAIN Known[16] /\ Known[16][t] = RateTable[t]
    BY <2>1, <2>2, UntouchedTo16
  <2>4. RateTable[t] = InternationalShippingRate
    BY <1>8 DEF RateTable, InternationalShippingRate
  <2> QED
    BY <1>8, <2>3, <2>4 DEF Declared
<1>9. CASE t = "source_products"
  <2>1. t \in DOMAIN Known[15] /\ Known[15][t] = PageTables[t]
    <3>1. t \in NewTables[15] /\ t \notin DOMAIN <<>>
      BY <1>9 DEF NewTables
    <3> QED
      BY <1>6, <1>9, <3>1, PagesGrow
  <2>2. \A k \in (15 + 1)..16 : t \notin Touched[k]
    BY <1>9 DEF Touched
  <2>3. t \in DOMAIN Known[16] /\ Known[16][t] = PageTables[t]
    BY <2>1, <2>2, UntouchedTo16
  <2>4. PageTables[t] = SourceProduct
    BY <1>9 DEF PageTables, SourceProduct
  <2> QED
    BY <1>9, <2>3, <2>4 DEF Declared
<1>10. CASE t = "detail_pages"
  BY <1>10, PagesTable DEF Declared
<1> QED
  BY <1>1, <1>2, <1>3, <1>4, <1>5, <1>7, <1>8, <1>9, <1>10

-----------------------------------------------------------------------------
(* The candidates: what the code gives, the database may fill in *)

\* Columns that serve others of the same names.
AllServe(db, code) == DOMAIN db = DOMAIN code /\ \A c \in DOMAIN code : ColumnServes(db[c], code[c])

\* Columns serve themselves, defaults serve what is given, and so do columns joined.
LEMMA SameServe == ASSUME NEW columns PROVE AllServe(columns, columns)
  BY DEF AllServe, ColumnServes

LEMMA DefaultServes ==
  ASSUME NEW names, NEW type
  PROVE  AllServe(Defaulted(names, type), Required(names, type))
  BY DEF AllServe, ColumnServes, Defaulted, Required, Columns

LEMMA JoinedServe ==
  ASSUME NEW f, NEW f1, NEW g, NEW g1, AllServe(f, f1), AllServe(g, g1)
  PROVE  AllServe(f ++ g, f1 ++ g1)
  BY DEF AllServe, ++

\* seed_candidates: the database has defaults where the code gives a value.
LEMMA HeadOfCandidates ==
  LET t == "seed_candidates" IN
  /\ t \in DOMAIN Known[16] /\ Known[16][t].unique = Declared[t].unique /\ Known[16][t].refs = Declared[t].refs
  /\ AllServe(Known[16][t].columns, Declared[t].columns)
<1> DEFINE t == "seed_candidates"
           db == CandidateTable[t]
<1>1. t \in DOMAIN Known[14] /\ Known[14][t] = db
  <2>1. 14 \in Growing /\ 14 \in 1..16 /\ t \in NewTables[14] /\ t \notin DOMAIN <<>>
    BY DEF Growing, NewTables
  <2>2. t \notin DOMAIN Known[14 - 1]
    BY <2>1, NotYet
  <2> QED
    BY <2>1, <2>2, CandidatesGrow, NewTable
<1>2. t \in DOMAIN Known[16] /\ Known[16][t] = db
  <2>1. \A k \in (14 + 1)..16 : t \notin Touched[k]
    BY DEF Touched
  <2> HIDE DEF db
  <2> QED
    BY <1>1, <2>1, UntouchedTo16
<1>3. Declared[t] = SeedCandidate
  BY DEF Declared
<1> DEFINE first == Required({"term"}, Varchar(255)) ++ Optional({"hs_code"}, Varchar(10))
    ++ Optional({"import_value_krw_3m"}, Bigint)
    ++ Optional({"import_growth_3m_pct", "search_growth_3m_pct"}, Numeric(8, 2))
    ++ Optional({"avg_unit_price_krw", "monthly_search_volume"}, Int4)
           defaulted == Defaulted({"combined_score"}, Numeric(8, 2)) ++ Defaulted({"is_approved"}, Bool)
      ++ Optional({"approved_at"}, Instant) ++ Defaulted({"last_refreshed_at"}, Instant)
           given == Required({"combined_score"}, Numeric(8, 2)) ++ Required({"is_approved"}, Bool)
      ++ Optional({"approved_at"}, Instant) ++ Required({"last_refreshed_at"}, Instant)
           unique == {{"term"}}
<1>4. db = Table(first ++ defaulted, unique, {}) /\ SeedCandidate = Table(first ++ given, unique, {})
  BY DEF CandidateTable, SeedCandidate
<1>5. AllServe(defaulted, given)
  BY SameServe, DefaultServes, JoinedServe
<1> HIDE DEF first, defaulted, given, unique, db
<1>6. AllServe(first ++ defaulted, first ++ given)
  BY <1>5, SameServe, JoinedServe
<1> DEFINE more == first ++ defaulted
           less == first ++ given
           start == Defaulted({"id"}, Bigint) ++ Stamps
<1>7. /\ db.columns = start ++ more /\ SeedCandidate.columns = start ++ less
      /\ db.unique = SeedCandidate.unique /\ db.refs = SeedCandidate.refs
  <2> HIDE DEF more, less
  <2>1. db = Table(more, unique, {}) /\ SeedCandidate = Table(less, unique, {})
    BY <1>4 DEF more, less
  <2> HIDE DEF start
  <2>2. ASSUME NEW c, NEW table, table = Table(c, unique, {})
        PROVE  table.columns = start ++ c /\ table.unique = {{"id"}} \cup unique /\ table.refs = {}
    BY <2>2 DEF Table, start
  <2> QED
    BY <2>1, <2>2
<1> HIDE DEF start, more, less
<1>8. AllServe(db.columns, SeedCandidate.columns)
  <2>1. AllServe(more, less)
    BY <1>6 DEF more, less
  <2> QED
    BY <1>7, <2>1, SameServe, JoinedServe
<1> QED
  BY <1>2, <1>3, <1>7, <1>8

(* "Hand-written initial migration covering every model" (alembic/versions/0001):  *)
(* the sixteen migrations build what app/models/ declares.                          *)
THEOREM HeadServes == Serves(Known[16], Declared)
<1> DEFINE db == Known[16]
<1>1. DOMAIN Declared = {"categories", "keyword_hs_mappings", "import_stats", "product_scores", "channel_profits",
                    "feedbacks", "coupang_fees", "exchange_rates", "api_cache"} \cup
        {"hs_codes", "keyword_metrics", "opportunity_scores", "keywords", "products", "customs_duty_rates",
                    "international_shipping_rates", "source_products", "detail_pages"} \cup {"seed_candidates"}
  BY DEF Declared
<1>2. ASSUME NEW t \in DOMAIN Declared
      PROVE  /\ t \in DOMAIN db /\ db[t].unique = Declared[t].unique /\ db[t].refs = Declared[t].refs
             /\ AllServe(db[t].columns, Declared[t].columns)
  <2>1. CASE t = "seed_candidates"
    BY <2>1, HeadOfCandidates
  <2>2. CASE t # "seed_candidates"
    <3>1. t \in DOMAIN db /\ db[t] = Declared[t]
      BY <1>1, <2>2, HeadOfFirst, HeadOfOthers
    <3> QED
      BY <3>1, SameServe
  <2> QED
    BY <2>1, <2>2
<1> HIDE DEF db
<1>3. ASSUME NEW t \in DOMAIN Declared, NEW c \in DOMAIN Declared[t].columns
      PROVE  c \in DOMAIN db[t].columns /\ ColumnServes(db[t].columns[c], Declared[t].columns[c])
  BY <1>2 DEF AllServe
<1>4. ASSUME NEW t \in DOMAIN Declared
      PROVE  DOMAIN db[t].columns \ DOMAIN Declared[t].columns = {}
  BY <1>2 DEF AllServe
<1>5. Serves(db, Declared)
  BY <1>2, <1>3, <1>4 DEF Serves
<1> QED
  BY <1>5 DEF db

-----------------------------------------------------------------------------
(* The rows and the boot *)

Imported == {"coupang_fees", "hs_codes", "customs_duty_rates", "international_shipping_rates"}
Filling == {"hs_codes", "customs_duty_rates", "international_shipping_rates"}
Seeding == {"keywords", "insert", "run"}
Phases == {"down", "migrate", "seed"} \cup Filling \cup Seeding

Shape ==
  /\ revision \in 0..HeadRevision /\ released \in 0..HeadRevision
  /\ categories \in [Names \cup {Legacy} -> 0..1]
  /\ keywords \in [Terms -> Rows \cup {None}]
  /\ filled \subseteq Imported /\ known \subseteq SeedTerms
  /\ phase \in [Containers -> Phases] /\ phase["scheduler"] \in {"down", "migrate", "run"}
  /\ image \in [Containers -> {"older", "head"}]
  /\ seen \in [Containers -> 0..HeadRevision \cup {None}]

\* A row of keywords is of a category that is there.
Classified ==
  \A t \in Terms : keywords[t] # None /\ keywords[t].category # None => categories[keywords[t].category] = 1

\* The revision moves up while a container runs, and never past the newest image.
Versions ==
  /\ image["api"] = "older" => phase["api"] \in {"run", "down"}
  /\ \A p \in Containers : seen[p] # None =>
       phase[p] # "down" /\ seen[p] <= revision /\ seen[p] <= Release(p)

\* What each step of the entrypoint finds done by those before it.
Booted == image["api"] = "head" /\ phase["api"] \notin {"down", "migrate"}

StepsDone ==
  Booted =>
    /\ revision = HeadRevision
    /\ phase["api"] # "seed" => "coupang_fees" \in filled /\ \A n \in Names : categories[n] = 1
    /\ phase["api"] \in Seeding \cup (Filling \ {"hs_codes"}) => "hs_codes" \in filled
    /\ phase["api"] \in Seeding \cup {"international_shipping_rates"} => "customs_duty_rates" \in filled
    /\ phase["api"] \in Seeding => "international_shipping_rates" \in filled

SeedsIn ==
  Booted =>
    /\ phase["api"] = "insert" => \A t \in known : keywords[t] # None
    /\ phase["api"] = "run" => \A t \in SeedTerms :
         keywords[t] # None /\ keywords[t].seed /\ keywords[t].category # None

IInv == Shape /\ Classified /\ Versions /\ StepsDone /\ SeedsIn

-----------------------------------------------------------------------------

LEMMA OfAnImage ==
  ASSUME Shape, NEW p \in Containers
  PROVE  Release(p) \in 0..HeadRevision /\ (image[p] = "head" => Release(p) = HeadRevision)
  BY SixteenRevisions DEF Shape, Release

\* A container ends and is started again: what the others have found is still there.
LEMMA RestartStep ==
  ASSUME IInv, NEW p \in Containers, Restarted(p),
         p = "api" => image'["api"] = "head",
         image' \in [Containers -> {"older", "head"}], \A q \in Containers : q # p => image'[q] = image[q],
         UNCHANGED <<revision, categories, keywords, filled, known, released>>
  PROVE  IInv'
<1> USE DEF IInv, Restarted
<1>1. Shape'
  BY SixteenRevisions DEF Shape, Phases, Containers
<1>2. Classified'
  BY DEF Classified
<1>3. Versions'
  BY DEF Shape, Versions, Containers, Release
<1>4. StepsDone'
  BY DEF Shape, StepsDone, Booted, Containers
<1>5. SeedsIn'
  BY DEF Shape, SeedsIn, Booted, Containers
<1> QED
  BY <1>1, <1>2, <1>3, <1>4, <1>5

LEMMA DownStep == IInv /\ Down => IInv'
<1> SUFFICES ASSUME IInv, Down PROVE IInv'
  OBVIOUS
<1> USE DEF IInv, Down, data
<1>1. Shape'
  BY DEF Shape, Phases, Containers
<1>2. Classified' /\ Versions' /\ StepsDone' /\ SeedsIn'
  BY DEF Shape, Classified, Versions, StepsDone, SeedsIn, Booted, Containers, Release
<1> QED
  BY <1>1, <1>2

LEMMA InitStep == Init => IInv
<1> SUFFICES ASSUME Init PROVE IInv
  OBVIOUS
<1>1. Shape
  <2>1. released \in 0..HeadRevision /\ revision \in 0..HeadRevision
    BY DeploymentAssumption DEF Init
  <2>2. categories \in [Names \cup {Legacy} -> 0..1]
    BY DEF Init
  <2>3. keywords \in [Terms -> Rows \cup {None}]
    BY DeploymentAssumption DEF Init, Rows
  <2>4. filled \subseteq Imported /\ known \subseteq SeedTerms
    BY DEF Init, Imported
  <2>5. /\ phase \in [Containers -> Phases] /\ phase["scheduler"] \in {"down", "migrate", "run"}
        /\ image \in [Containers -> {"older", "head"}]
        /\ seen \in [Containers -> 0..HeadRevision \cup {None}]
    BY DEF Init, Containers, Phases, Seeding
  <2> QED
    BY <2>1, <2>2, <2>3, <2>4, <2>5 DEF Shape
<1>2. Classified
  <2> SUFFICES ASSUME NEW t \in Terms, keywords[t] # None PROVE categories[keywords[t].category] = 1
    BY DEF Classified
  <2>1. released # 0 /\ released \in Nat
    BY DeploymentAssumption DEF Init
  <2>2. keywords[t].category = IF released < 13 THEN Legacy ELSE Pet
    BY DEF Init
  <2> QED
    BY <2>1, <2>2, DeploymentAssumption DEF Init
<1>3. Versions /\ StepsDone /\ SeedsIn
  BY DEF Init, Versions, StepsDone, SeedsIn, Booted, Containers
<1> QED
  BY <1>1, <1>2, <1>3 DEF IInv

LEMMA ReadRevisionStep == ASSUME IInv, NEW p \in Containers, ReadRevision(p) PROVE IInv'
<1> USE DEF IInv, ReadRevision, data
<1>1. Shape'
  BY DEF Shape
<1>2. Versions'
  BY OfAnImage, SixteenRevisions DEF Shape, Versions, Release
<1>3. Classified' /\ StepsDone' /\ SeedsIn'
  BY DEF Classified, StepsDone, SeedsIn, Booted
<1> QED
  BY <1>1, <1>2, <1>3

-----------------------------------------------------------------------------
(* Migrations *)

\* Rows keep their shape; a reset takes the categories and the rows' with them.
LEMMA RowsKept ==
  ASSUME Shape, Classified, NEW from \in Nat, NEW to \in Nat, RowsAfter(from, to)
  PROVE  /\ categories' \in [Names \cup {Legacy} -> 0..1]
         /\ keywords' \in [Terms -> Rows \cup {None}]
         /\ filled' \subseteq filled
         /\ Classified'
<1> DEFINE reset == from < 13 /\ 13 <= to
<1>1. /\ categories' = [n \in DOMAIN categories |-> IF reset \/ to = 0 THEN 0 ELSE categories[n]]
      /\ keywords' = [t \in Terms |->
           IF to = 0 \/ keywords[t] = None THEN None
           ELSE IF reset THEN [keywords[t] EXCEPT !.category = None] ELSE keywords[t]]
      /\ filled' \subseteq filled
  BY DEF RowsAfter
<1> HIDE DEF reset
<1>2. categories' \in [Names \cup {Legacy} -> 0..1]
  BY <1>1 DEF Shape
<1>3. keywords' \in [Terms -> Rows \cup {None}]
  BY <1>1 DEF Shape, Rows
<1>4. Classified'
  <2> SUFFICES ASSUME NEW t \in Terms, keywords'[t] # None, keywords'[t].category # None
               PROVE  categories'[keywords'[t].category] = 1
    BY DEF Classified
  <2>1. to # 0 /\ keywords[t] # None /\ keywords[t] \in Rows
    BY <1>1 DEF Shape
  <2>2. ~reset /\ keywords'[t] = keywords[t]
    BY <1>1, <2>1 DEF Rows
  <2>3. keywords[t].category \in DOMAIN categories
    BY <2>1, <2>2 DEF Shape, Rows
  <2> QED
    BY <1>1, <2>1, <2>2, <2>3 DEF Classified
<1> QED
  BY <1>1, <1>2, <1>3, <1>4

\* A container moves the revision only up, and only to that of its image.
LEMMA MigrationMovesUp ==
  ASSUME IInv, NEW p \in Containers, Migrate(p)
  PROVE  \/ /\ UNCHANGED <<revision, data>> /\ seen[p] = Release(p)
         \/ /\ revision < Release(p) /\ revision' = Release(p) /\ RowsAfter(revision, Release(p))
  BY OfAnImage, SixteenRevisions DEF IInv, Shape, Versions, Migrate, Reaches

LEMMA MigrateStep == ASSUME IInv, NEW p \in Containers, Migrate(p) PROVE IInv'
<1> USE DEF IInv
<1>1. /\ phase[p] = "migrate" /\ seen[p] # None /\ phase' = [phase EXCEPT ![p] = After(p)]
      /\ UNCHANGED <<image, seen, known, released>>
  BY DEF Migrate
<1>2. Release(p) \in 0..HeadRevision /\ Release(p)' = Release(p) /\ revision \in 0..HeadRevision
  BY <1>1, OfAnImage DEF Release, Shape
<1>3. revision' \in 0..HeadRevision /\ revision <= revision' /\ revision' >= Release(p)
  BY <1>1, <1>2, MigrationMovesUp, SixteenRevisions DEF Shape, Versions
<1>4. /\ categories' \in [Names \cup {Legacy} -> 0..1] /\ keywords' \in [Terms -> Rows \cup {None}]
      /\ filled' \subseteq Imported /\ Classified'
  <2>1. CASE UNCHANGED <<revision, data>>
    BY <2>1 DEF Shape, Classified, data
  <2>2. CASE RowsAfter(revision, Release(p))
    <3>1. revision \in Nat /\ Release(p) \in Nat /\ filled \subseteq Imported
      BY <1>2, SixteenRevisions DEF Shape
    <3> QED
      BY <2>2, <3>1, RowsKept
  <2> QED
    BY <2>1, <2>2, MigrationMovesUp
<1>5. Shape'
  BY <1>1, <1>3, <1>4 DEF Shape, After, Phases, Seeding, Containers
<1>6. Versions'
  BY <1>1, <1>2, <1>3, SixteenRevisions DEF Shape, Versions, After, Release
<1>7. Booted => UNCHANGED <<revision, data>>
  BY <1>2, MigrationMovesUp, SixteenRevisions DEF StepsDone
<1>8. Booted' => Booted \/ (p = "api" /\ image["api"] = "head" /\ phase'["api"] = "seed")
  BY <1>1 DEF Shape, Booted, After, Containers
<1>9. CASE Booted
  <2>1. p # "api" /\ phase'["api"] = phase["api"]
    BY <1>1, <1>9 DEF Booted, Shape
  <2> QED
    BY <1>1, <1>4, <1>5, <1>6, <1>7, <1>9, <2>1 DEF StepsDone, SeedsIn, Booted, data
<1>10. CASE p = "api" /\ image["api"] = "head" /\ phase'["api"] = "seed"
  <2>1. revision' = HeadRevision
    BY <1>2, <1>3, <1>10, OfAnImage, SixteenRevisions
  <2>2. StepsDone' /\ SeedsIn'
    BY <1>10, <2>1 DEF StepsDone, SeedsIn, Seeding, Filling
  <2> QED
    BY <1>4, <1>5, <1>6, <2>2
<1> QED
  BY <1>4, <1>5, <1>6, <1>8, <1>9, <1>10 DEF StepsDone, SeedsIn

LEMMA DowngradeStep == ASSUME IInv, NEW to \in Deployed, Downgrade(to) PROVE IInv'
<1> USE DEF IInv
<1>1. /\ \A p \in Containers : phase[p] = "down"
      /\ revision' = to /\ to \in 0..HeadRevision /\ RowsAfter(revision, to)
      /\ UNCHANGED <<phase, image, seen, known, released>>
  BY DeploymentAssumption DEF Downgrade, Reaches
<1>2. /\ categories' \in [Names \cup {Legacy} -> 0..1] /\ keywords' \in [Terms -> Rows \cup {None}]
      /\ filled' \subseteq filled /\ Classified'
  BY <1>1, RowsKept, SixteenRevisions DEF Shape
<1>3. Shape'
  BY <1>1, <1>2 DEF Shape
<1>4. Versions' /\ StepsDone' /\ SeedsIn'
  BY <1>1 DEF Versions, StepsDone, SeedsIn, Booted, Release, Containers
<1> QED
  BY <1>2, <1>3, <1>4

-----------------------------------------------------------------------------
(* The data *)

\* A step of the boot that touches no row of keywords or categories.
LEMMA FillStep ==
  ASSUME IInv, NEW from \in Phases, NEW to \in Phases, Moves("api", from, to),
         NEW table \in Imported, filled' = filled \cup {table},
         <<from, to, table>> \in
           {<<"hs_codes", "customs_duty_rates", "hs_codes">>,
            <<"customs_duty_rates", "international_shipping_rates", "customs_duty_rates">>,
            <<"international_shipping_rates", "keywords", "international_shipping_rates">>},
         UNCHANGED <<revision, categories, keywords, image, seen, known, released>>
  PROVE  IInv'
<1> USE DEF IInv, Moves
<1>1. Shape' /\ Classified' /\ Versions'
  BY DEF Shape, Classified, Versions, Containers, Release
<1>2. StepsDone' /\ SeedsIn'
  BY DEF Shape, StepsDone, SeedsIn, Booted, Containers, Filling, Seeding
<1> QED
  BY <1>1, <1>2

LEMMA ImportsStep == IInv /\ (ImportHsCodes \/ ImportCustomsRates \/ ImportShippingRates) => IInv'
<1>1. {"hs_codes", "customs_duty_rates", "international_shipping_rates", "keywords"} \subseteq Phases
      /\ Filling \subseteq Imported
  BY DEF Phases, Filling, Seeding, Imported
<1> QED
  BY <1>1, FillStep DEF ImportHsCodes, ImportCustomsRates, ImportShippingRates, Import, Filling

LEMMA SeedStep == IInv /\ Seed => IInv'
<1> SUFFICES ASSUME IInv, Seed PROVE IInv'
  OBVIOUS
<1> USE DEF IInv, Seed, Moves
<1>1. categories' \in [Names \cup {Legacy} -> 0..1] /\ \A n \in Names : categories'[n] = 1
  BY DEF Shape
<1>2. Shape'
  BY <1>1 DEF Shape, Imported, Phases, Filling, Containers
<1>3. Classified'
  BY DeploymentAssumption DEF Shape, Classified, Rows
<1>4. Versions'
  BY DEF Shape, Versions, Containers, Release
<1>5. StepsDone' /\ SeedsIn'
  BY <1>1 DEF Shape, StepsDone, SeedsIn, Booted, Containers, Filling, Seeding
<1> QED
  BY <1>2, <1>3, <1>4, <1>5

LEMMA ReadSeedsStep == IInv /\ ReadSeeds => IInv'
<1> SUFFICES ASSUME IInv, ReadSeeds PROVE IInv'
  OBVIOUS
<1> USE DEF IInv, ReadSeeds, Moves, data
<1>1. Shape' /\ Classified' /\ Versions'
  BY DEF Shape, Classified, Versions, Containers, Release, Phases, Seeding
<1>2. StepsDone' /\ SeedsIn'
  BY DEF Shape, StepsDone, SeedsIn, Booted, Containers, Filling, Seeding
<1> QED
  BY <1>1, <1>2

\* A container past its migration has an image of the head.
LEMMA BootedHere ==
  ASSUME IInv, phase["api"] \notin {"down", "migrate", "run"}
  PROVE  Booted
  BY DEF IInv, Shape, Versions, Booted, Containers

\* When the seeds are committed those that were found are put into the category, unless
\* they have one, and the others are new.
LEMMA SeedsCommitted ==
  ASSUME IInv, phase["api"] = "insert",
         keywords' = [t \in Terms |->
           IF t \in known THEN Promoted(keywords[t])
           ELSE IF t \in SeedTerms THEN [seed |-> TRUE, category |-> Pet]
           ELSE keywords[t]]
  PROVE  /\ keywords' \in [Terms -> Rows \cup {None}]
         /\ \A t \in SeedTerms :
              keywords'[t] # None /\ keywords'[t].seed /\ keywords'[t].category # None
         /\ \A t \in Terms : keywords'[t] # None /\ keywords'[t].category # None =>
              categories[keywords'[t].category] = 1
<1>1. /\ \A t \in known : keywords[t] # None /\ keywords[t] \in Rows
      /\ categories[Pet] = 1 /\ Pet \in Names /\ Pet # None /\ known \subseteq SeedTerms /\ SeedTerms \subseteq Terms
  BY BootedHere, DeploymentAssumption DEF IInv, Shape, StepsDone, SeedsIn, Booted
<1>2. [seed |-> TRUE, category |-> Pet] \in Rows
  BY <1>1 DEF Rows
<1>3. ASSUME NEW t \in known
      PROVE  /\ Promoted(keywords[t]) \in Rows /\ Promoted(keywords[t]).seed
             /\ Promoted(keywords[t]).category # None
             /\ categories[Promoted(keywords[t]).category] = 1
  BY <1>1, <1>3 DEF Promoted, Rows, IInv, Classified
<1>4. \A row \in Rows : row # None
  BY DeploymentAssumption
<1>5. keywords' \in [Terms -> Rows \cup {None}]
  BY <1>1, <1>2, <1>3 DEF IInv, Shape
<1>6. \A t \in SeedTerms : keywords'[t] # None /\ keywords'[t].seed /\ keywords'[t].category # None
  BY <1>1, <1>2, <1>3, <1>4
<1>7. \A t \in Terms : keywords'[t] # None /\ keywords'[t].category # None =>
        categories[keywords'[t].category] = 1
  BY <1>1, <1>3 DEF IInv, Classified
<1> QED
  BY <1>5, <1>6, <1>7

LEMMA InsertSeedsStep == IInv /\ InsertSeeds => IInv'
<1> SUFFICES ASSUME IInv, InsertSeeds PROVE IInv'
  OBVIOUS
<1>1. phase["api"] = "insert" /\ Booted
      /\ UNCHANGED <<revision, categories, filled, image, known, released>>
  BY BootedHere DEF InsertSeeds
<1>2. CASE \E t \in SeedTerms \ known : keywords[t] # None
  <2>1. Restarted("api") /\ UNCHANGED keywords
    BY <1>2 DEF InsertSeeds
  <2> QED
    BY <1>1, <2>1, RestartStep DEF Booted, Containers, IInv, Shape
<1>3. CASE ~ \E t \in SeedTerms \ known : keywords[t] # None
  <2>1. /\ phase' = [phase EXCEPT !["api"] = "run"] /\ UNCHANGED seen
        /\ keywords' = [t \in Terms |->
             IF t \in known THEN Promoted(keywords[t])
             ELSE IF t \in SeedTerms THEN [seed |-> TRUE, category |-> Pet]
             ELSE keywords[t]]
    BY <1>3 DEF InsertSeeds
  <2>2. /\ keywords' \in [Terms -> Rows \cup {None}]
        /\ \A t \in SeedTerms :
             keywords'[t] # None /\ keywords'[t].seed /\ keywords'[t].category # None
        /\ Classified'
    BY <1>1, <2>1, SeedsCommitted DEF Classified
  <2>3. Shape' /\ Versions'
    BY <1>1, <2>1, <2>2 DEF IInv, Shape, Versions, Containers, Release, Phases, Seeding
  <2>4. StepsDone' /\ SeedsIn'
    BY <1>1, <2>1, <2>2 DEF IInv, Shape, StepsDone, SeedsIn, Booted, Containers, Filling, Seeding
  <2> QED
    BY <2>2, <2>3, <2>4 DEF IInv
<1> QED
  BY <1>2, <1>3

-----------------------------------------------------------------------------
(* What runs meanwhile *)

\* A row is written while the boot goes on: no row disappears, and a seed stays a seed.
LEMMA RowWritten ==
  ASSUME IInv, NEW t \in Terms, NEW row \in Rows,
         keywords' = [keywords EXCEPT ![t] = row],
         row.category # None => categories[row.category] = 1,
         keywords[t] = None \/ (row.seed /\ row.category # None),
         UNCHANGED <<revision, categories, filled, phase, image, seen, known, released>>
  PROVE  IInv'
<1> USE DEF IInv
<1>1. row # None /\ \A s \in Terms : keywords'[s] = IF s = t THEN row ELSE keywords[s]
  BY DeploymentAssumption DEF Shape
<1>2. Shape' /\ Classified' /\ Versions'
  BY <1>1 DEF Shape, Classified, Versions, Release
<1>3. StepsDone'
  BY DEF StepsDone, Booted
<1>4. SeedsIn'
  BY <1>1, DeploymentAssumption DEF SeedsIn, Booted, Shape
<1> QED
  BY <1>2, <1>3, <1>4

LEMMA CollectStep == ASSUME IInv, NEW t \in Terms, Collect(t) PROVE IInv'
<1>1. PICK s \in Terms : /\ keywords[s] # None /\ keywords[s].seed
                         /\ keywords' = [keywords EXCEPT ![t] = [seed |-> FALSE, category |-> keywords[s].category]]
  BY DEF Collect
<1> DEFINE row == [seed |-> FALSE, category |-> keywords[s].category]
<1>2. row \in Rows /\ (row.category # None => categories[row.category] = 1)
  BY <1>1 DEF IInv, Shape, Classified, Rows
<1>3. /\ keywords' = [keywords EXCEPT ![t] = row] /\ keywords[t] = None
      /\ UNCHANGED <<revision, categories, filled, phase, image, seen, known, released>>
  BY <1>1 DEF Collect
<1> HIDE DEF row
<1> QED
  BY <1>2, <1>3, RowWritten

LEMMA TypeStep == ASSUME IInv, NEW t \in Terms, NEW n \in Names, Type(t, n) PROVE IInv'
<1> DEFINE row == [seed |-> TRUE, category |-> n]
<1>1. Booted /\ phase["api"] = "run"
  BY DEF Type, Booted
<1>2. row \in Rows /\ row.seed /\ row.category = n /\ n # None /\ categories[n] = 1
  BY <1>1, DeploymentAssumption DEF IInv, StepsDone, Rows
<1>3. /\ keywords' = [keywords EXCEPT ![t] = row]
      /\ UNCHANGED <<revision, categories, filled, phase, image, seen, known, released>>
  BY DEF Type
<1> HIDE DEF row
<1> QED
  BY <1>2, <1>3, RowWritten

-----------------------------------------------------------------------------

LEMMA ComposeStep == IInv /\ (Deploy \/ Recreate \/ MissesFile \/ \E p \in Containers : Breaks(p)) => IInv'
<1> SUFFICES ASSUME IInv, Deploy \/ Recreate \/ MissesFile \/ \E p \in Containers : Breaks(p) PROVE IInv'
  OBVIOUS
<1> USE DEF data
<1>1. CASE Deploy
  BY <1>1, RestartStep DEF Deploy, IInv, Shape, Containers
<1>2. CASE Recreate
  BY <1>2, RestartStep DEF Recreate, IInv, Shape, Containers
<1>4. CASE MissesFile
  <2>1. image["api"] = "head"
    BY <1>4, BootedHere DEF MissesFile, Files, Booted
  <2> QED
    BY <1>4, <2>1, RestartStep DEF MissesFile, IInv, Shape, Containers
<1>3. ASSUME NEW p \in Containers, Breaks(p) PROVE IInv'
  BY <1>3, RestartStep DEF Breaks, IInv, Shape, Containers
<1> QED
  BY <1>1, <1>2, <1>3, <1>4

LEMMA Inductive == IInv /\ [Next]_vars => IInv'
<1> SUFFICES ASSUME IInv, [Next]_vars PROVE IInv'
  OBVIOUS
<1>1. CASE Deploy \/ Recreate \/ Down \/ \E p \in Containers : Breaks(p)
  BY <1>1, ComposeStep, DownStep
<1>2. ASSUME NEW p \in Containers, Boot(p) PROVE IInv'
  BY <1>2, ReadRevisionStep, MigrateStep, SeedStep, ComposeStep, ImportsStep, ReadSeedsStep, InsertSeedsStep DEF Boot
<1>3. ASSUME NEW to \in Deployed, Downgrade(to) PROVE IInv'
  BY <1>3, DowngradeStep
<1>4. ASSUME NEW t \in Terms, Collect(t) \/ \E n \in Names : Type(t, n) PROVE IInv'
  BY <1>4, CollectStep, TypeStep
<1>5. CASE UNCHANGED vars
  BY <1>5 DEF vars, data, IInv, Shape, Classified, Versions, StepsDone, SeedsIn, Booted, Release
<1> QED
  BY <1>1, <1>2, <1>3, <1>4, <1>5 DEF Next

LEMMA Invariant == Spec => []IInv
  BY InitStep, Inductive, PTL DEF Spec

(* "default category should exist from seed.py" (routers/keywords.py): whenever *)
(* the API of the new release answers, after any crash, restart or downgrade and *)
(* whatever the scheduler's jobs insert meanwhile, each category is there once,  *)
(* the rates are, and every seed is a seed of a category.                        *)
THEOREM AnswersWhenBootstrapped == Spec => []Bootstrapped
<1>1. IInv => Bootstrapped
  <2> SUFFICES ASSUME IInv, phase["api"] = "run", image["api"] = "head" PROVE Bootstrapped
    BY DEF Bootstrapped
  <2>1. Booted
    BY DEF Booted
  <2>2. filled = Imported /\ \A n \in Names : categories[n] = 1
    BY <2>1 DEF IInv, Shape, StepsDone, Imported, Seeding
  <2>3. \A t \in SeedTerms : keywords[t] # None /\ keywords[t].seed /\ keywords[t].category # None
    BY <2>1 DEF IInv, SeedsIn
  <2> QED
    BY <2>2, <2>3 DEF Bootstrapped, Imported
<1> QED
  BY Invariant, <1>1, PTL

-----------------------------------------------------------------------------
(* Nothing of the operator's is taken back *)

Kept(t) ==
  keywords[t] # None =>
    /\ keywords'[t] # None /\ (keywords[t].seed => keywords'[t].seed)
    /\ keywords[t].category # None => keywords'[t].category = keywords[t].category

LEMMA RowsOfAStart ==
  ASSUME IInv, Next, revision >= 13, revision' >= 13, phase["api"] # "run", NEW t \in Terms
  PROVE  Kept(t)
<1>1. SUFFICES ASSUME keywords'[t] # keywords[t] PROVE Kept(t)
  BY DEF Kept
<1>2. CASE \E s \in Terms : Collect(s)
  BY <1>2 DEF Collect, Kept, IInv, Shape
<1>3. CASE InsertSeeds
  <2>1. keywords' = [s \in Terms |->
             IF s \in known THEN Promoted(keywords[s])
             ELSE IF s \in SeedTerms THEN [seed |-> TRUE, category |-> Pet]
             ELSE keywords[s]]
        /\ \A s \in SeedTerms \ known : keywords[s] = None
    BY <1>1, <1>3 DEF InsertSeeds
  <2>2. CASE t \in known
    <3>1. keywords'[t] # None
      BY <2>2, <1>3, <2>1, SeedsCommitted DEF InsertSeeds, IInv, Shape
    <3> QED
      BY <2>1, <2>2, <3>1 DEF Kept, Promoted
  <2>3. CASE t \in SeedTerms \ known
    BY <2>1, <2>3 DEF Kept
  <2>4. CASE t \notin SeedTerms
    BY <2>1, <2>4 DEF Kept, IInv, Shape
  <2> QED
    BY <2>2, <2>3, <2>4
<1>4. ASSUME NEW to \in Nat, revision' = to, RowsAfter(revision, to) PROVE Kept(t)
  <2>1. ~(revision < 13) /\ to # 0
    BY <1>4, SixteenRevisions DEF IInv, Shape
  <2>2. keywords'[t] = keywords[t]
    BY <1>4, <2>1 DEF RowsAfter
  <2> QED
    BY <1>1, <2>2
<1>5. ASSUME NEW p \in Containers, Migrate(p) PROVE Kept(t)
  BY <1>1, <1>4, <1>5, MigrationMovesUp, OfAnImage, SixteenRevisions DEF IInv, data
<1>6. ASSUME NEW to \in Deployed, Downgrade(to) PROVE Kept(t)
  BY <1>4, <1>6, DeploymentAssumption, SixteenRevisions DEF Downgrade, Reaches
<1>7. CASE Deploy \/ Recreate \/ Down \/ MissesFile \/ \E p \in Containers : Breaks(p) \/ ReadRevision(p)
  BY <1>1, <1>7 DEF Deploy, Recreate, Down, MissesFile, Breaks, ReadRevision, data
<1>8. CASE Seed \/ ReadSeeds \/ ImportHsCodes \/ ImportCustomsRates \/ ImportShippingRates
  BY <1>1, <1>8 DEF Seed, ReadSeeds, ImportHsCodes, ImportCustomsRates, ImportShippingRates, Import, data
<1>9. ~ \E s \in Terms, n \in Names : Type(s, n)
  BY DEF Type
<1> QED
  BY <1>2, <1>3, <1>5, <1>6, <1>7, <1>8, <1>9 DEF Next, Boot

(* "All steps are idempotent -- safe to re-run on every container start"        *)
(* (docker-entrypoint.sh): from 0013 on no start, migration or restart removes a *)
(* keyword, makes a seed an ordinary term or moves a row to another category.    *)
THEOREM StartsTakeNothingBack == Spec => RestartsKeep
<1>1. IInv /\ [Next]_vars =>
        [revision >= 13 /\ revision' >= 13 /\ phase["api"] # "run" =>
           \A t \in Terms : keywords[t] # None =>
             /\ keywords'[t] # None /\ (keywords[t].seed => keywords'[t].seed)
             /\ keywords[t].category # None => keywords'[t].category = keywords[t].category]_vars
  BY RowsOfAStart DEF Kept
<1> QED
  BY <1>1, Invariant, PTL DEF Spec, RestartsKeep

(* "SELECT by (name, parent_id) then INSERT-if-missing" (seed.py): a category is  *)
(* never there twice, and a keyword that is classified is of one that is there,   *)
(* whatever is interrupted.                                                       *)
THEOREM CategoriesOnce ==
  Spec => [](/\ \A n \in Names \cup {Legacy} : categories[n] \in 0..1
             /\ \A t \in Terms : keywords[t] # None /\ keywords[t].category # None =>
                  categories[keywords[t].category] = 1)
<1>1. IInv => /\ \A n \in Names \cup {Legacy} : categories[n] \in 0..1
              /\ \A t \in Terms : keywords[t] # None /\ keywords[t].category # None =>
                   categories[keywords[t].category] = 1
  BY DEF IInv, Shape, Classified
<1> QED
  BY Invariant, <1>1, PTL

-----------------------------------------------------------------------------
(* The database is always that of its revision *)

Tables ==
  /\ schema = Known[revision] /\ filled \subseteq DOMAIN schema
  /\ \A p \in Containers : phase[p] = "run" => Release(p) <= revision
  /\ trouble \in 0..MaxTrouble /\ stops \in 0..MaxStops

\* The tables that the scripts fill are those of the head.
LEMMA ImportedTables == Imported \subseteq DOMAIN Known[16]
<1>1. /\ "coupang_fees" \in NewTables[1] /\ "hs_codes" \in NewTables[1]
      /\ "customs_duty_rates" \in NewTables[9] /\ "international_shipping_rates" \in NewTables[12]
  BY DEF NewTables, FirstNames
<1>2. \A t : (\E k \in 1..16 : t \in NewTables[k]) => t \in DOMAIN Known[16]
  BY KnownSchemas
<1> QED
  BY <1>1, <1>2 DEF Imported

\* At the start, after a migration, after a downgrade.
LEMMA TablesInit == Init => Tables
<1> SUFFICES ASSUME Init PROVE Tables
  OBVIOUS
<1>1. schema = Known[revision] /\ filled \subseteq DOMAIN schema
  BY DEF Init
<1>2. \A p \in Containers : Release(p) = revision
  BY DEF Init, Release
<1>3. trouble \in 0..MaxTrouble /\ stops \in 0..MaxStops /\ revision <= revision
  BY DeploymentAssumption DEF Init
<1> QED
  BY <1>1, <1>2, <1>3 DEF Tables

LEMMA MigrateTables == ASSUME IInv, Tables, NEW p \in Containers, Migrate(p) PROVE Tables'
<1>1. Release(p) \in 0..16 /\ revision \in 0..16 /\ Release(p)' = Release(p)
  BY OfAnImage, SixteenRevisions DEF IInv, Shape, Migrate, Release
<1>2. revision' \in 0..16 /\ revision <= revision' /\ Release(p) <= revision'
  <2>1. seen[p] <= revision
    BY DEF IInv, Versions, Migrate
  <2>2. (revision' = revision /\ seen[p] = Release(p)) \/ (revision < Release(p) /\ revision' = Release(p))
    BY MigrationMovesUp
  <2> QED
    BY <1>1, <2>1, <2>2
<1>3. schema' = Known[revision'] /\ filled' \subseteq DOMAIN schema'
  <2>1. CASE UNCHANGED <<revision, schema, data>>
    BY <2>1 DEF Tables, data
  <2>2. CASE Reaches(revision, Release(p))
    <3>1. /\ schema' \in Reached(Known[revision], Changes(revision, Release(p)), Wide)
          /\ revision' = Release(p) /\ filled' = filled \cap DOMAIN schema'
      BY <2>2 DEF Reaches, RowsAfter, Tables
    <3>2. schema' = Known[Release(p)]
      BY <1>1, <3>1, ReachesKnown
    <3> QED
      BY <3>1, <3>2
  <2> QED
    BY <2>1, <2>2 DEF Migrate
<1>4. ASSUME NEW q \in Containers, phase'[q] = "run" PROVE Release(q)' <= revision'
  <2>1. CASE q = p
    BY <1>1, <1>2, <2>1
  <2>2. CASE q # p
    <3>1. phase[q] = "run" /\ Release(q)' = Release(q)
      BY <1>4, <2>2 DEF IInv, Shape, Migrate, Release
    <3>2. Release(q) <= revision /\ Release(q) \in 0..16
      BY <3>1, OfAnImage, SixteenRevisions DEF IInv, Tables
    <3> QED
      BY <1>1, <1>2, <3>1, <3>2
  <2> QED
    BY <2>1, <2>2
<1> QED
  BY <1>3, <1>4 DEF Tables, Migrate

LEMMA DowngradeTables == ASSUME IInv, Tables, NEW to \in Deployed, Downgrade(to) PROVE Tables'
<1>1. /\ schema' \in Reached(Known[revision], Changes(revision, to), Wide)
      /\ revision' = to /\ filled' = filled \cap DOMAIN schema'
  BY DEF Downgrade, Reaches, RowsAfter, Tables
<1>2. revision \in 0..16 /\ to \in 0..16
  BY DeploymentAssumption, SixteenRevisions DEF IInv, Shape
<1>3. schema' = Known[to]
  BY <1>1, <1>2, ReachesKnown
<1>4. /\ \A p \in Containers : phase'[p] = "down"
      /\ UNCHANGED <<trouble, stops>>
  BY DEF Downgrade
<1> QED
  BY <1>1, <1>3, <1>4 DEF Tables

\* A step of the data: the API is past its migration.
LEMMA DataTables ==
  ASSUME IInv, Tables,
         Seed \/ ImportHsCodes \/ ImportCustomsRates \/ ImportShippingRates \/ ReadSeeds \/ InsertSeeds
  PROVE  Tables'
<1>1. Booted
  BY BootedHere DEF Seed, ImportHsCodes, ImportCustomsRates, ImportShippingRates, Import, ReadSeeds,
     InsertSeeds, Moves
<1>2. revision = 16 /\ \A p \in Containers : Release(p) \in 0..16
  BY <1>1, OfAnImage, SixteenRevisions DEF IInv, StepsDone
<1>3. filled' \subseteq filled \cup Imported
  BY DEF Seed, ImportHsCodes, ImportCustomsRates, ImportShippingRates, Import, ReadSeeds, InsertSeeds,
     Imported, data
<1>4. UNCHANGED <<revision, schema, image, released, trouble, stops>>
  BY DEF Seed, ImportHsCodes, ImportCustomsRates, ImportShippingRates, Import, ReadSeeds, InsertSeeds
<1>5. \A p \in Containers : Release(p)' = Release(p)
  BY <1>4 DEF Release
<1>6. \A p \in Containers : Release(p)' <= revision'
  BY <1>2, <1>4, <1>5
<1>7. filled' \subseteq DOMAIN schema'
  BY <1>2, <1>3, <1>4, ImportedTables DEF Tables
<1> QED
  BY <1>4, <1>6, <1>7 DEF Tables

\* A step of compose: what is started again has yet to migrate.
LEMMA ComposeTables ==
  ASSUME IInv, Tables, Deploy \/ Recreate \/ Down \/ MissesFile \/ \E p \in Containers : Breaks(p)
  PROVE  Tables'
<1>1. UNCHANGED <<revision, schema, filled, released>>
  BY DEF Deploy, Recreate, Down, MissesFile, Breaks, data
<1>2. ASSUME NEW q \in Containers, phase'[q] = "run" PROVE Release(q)' <= revision'
  <2>1. phase[q] = "run" /\ image'[q] = image[q]
    BY <1>2 DEF Deploy, Recreate, Down, MissesFile, Breaks, Restarted, IInv, Shape, Containers
  <2> QED
    BY <1>1, <2>1 DEF Tables, Release
<1>3. trouble' \in 0..MaxTrouble /\ stops' \in 0..MaxStops
  BY DeploymentAssumption DEF Tables, Deploy, Recreate, Down, MissesFile, Breaks
<1> QED
  BY <1>1, <1>2, <1>3 DEF Tables

\* So the tables are those of the revision after every step.
LEMMA TablesKept == IInv /\ Tables /\ [Next]_vars => Tables'
<1> SUFFICES ASSUME IInv, Tables, [Next]_vars PROVE Tables'
  OBVIOUS
<1>1. ASSUME UNCHANGED <<revision, schema, filled, phase, image, released, trouble, stops>> PROVE Tables'
  BY <1>1 DEF Tables, Release
<1>2. ASSUME NEW p \in Containers, ReadRevision(p) PROVE Tables'
  BY <1>1, <1>2 DEF ReadRevision, data
<1>3. ASSUME NEW t \in Terms, Collect(t) \/ \E n \in Names : Type(t, n) PROVE Tables'
  BY <1>1, <1>3 DEF Collect, Type
<1>4. CASE UNCHANGED vars
  BY <1>1, <1>4 DEF vars, data
<1> QED
  BY <1>2, <1>3, <1>4, MigrateTables, DowngradeTables, DataTables, ComposeTables DEF Next, Boot

LEMMA TablesInvariant == Spec => [](IInv /\ Tables)
<1>1. Init => IInv /\ Tables
  BY InitStep, TablesInit
<1>2. IInv /\ Tables /\ [Next]_vars => (IInv /\ Tables)'
  BY Inductive, TablesKept
<1> QED
  BY <1>1, <1>2, PTL DEF Spec

(* Migrations run in one transaction (alembic/env.py), and downgrade() takes back *)
(* what upgrade() did: whatever upgrades, downgrades, crashes and restarts came     *)
(* before, the tables are those of the revision in alembic_version, the scripts    *)
(* have filled only tables that are there, and the rows are sound.                  *)
THEOREM DatabaseOfItsRevision == Spec => [](TypeOK /\ schema = Known[revision])
<1>1. IInv /\ Tables => TypeOK /\ schema = Known[revision]
  BY DEF IInv, Shape, Classified, Tables, TypeOK
<1> QED
  BY TablesInvariant, <1>1, PTL

(* "Hand-written initial migration covering every model" (alembic/versions/0001):   *)
(* the code of the head runs only on the tables that app/models/ declares, and the  *)
(* scheduler of an older release, which runs on while the API migrates, finds all   *)
(* that it knows and is asked for no more, for every older release and every walk   *)
(* up and down the sixteen revisions.                                                *)
THEOREM CodeFindsItsTables == Spec => []CodeFits
<1>1. IInv /\ Tables => CodeFits
  <2> SUFFICES ASSUME IInv, Tables, NEW p \in Containers, phase[p] = "run"
               PROVE  Serves(schema, IF image[p] = "head" THEN Declared ELSE Known[released])
    BY DEF CodeFits
  <2>1. revision \in 0..16 /\ released \in 0..16 /\ Release(p) <= revision /\ schema = Known[revision]
    BY SixteenRevisions DEF IInv, Shape, Tables
  <2>2. CASE image[p] = "head"
    <3>1. revision = 16
      BY <2>1, <2>2, SixteenRevisions DEF Release
    <3> QED
      BY <2>1, <2>2, <3>1, HeadServes
  <2>3. CASE image[p] # "head"
    <3>1. released \in 0..16 /\ revision \in released..16
      BY <2>1, <2>3 DEF Release
    <3> QED
      BY <2>1, <2>3, <3>1, LaterServes
  <2> QED
    BY <2>2, <2>3
<1> QED
  BY TablesInvariant, <1>1, PTL

-----------------------------------------------------------------------------
(* No step of a start is refused *)

\* What the steps of a start ask of the database: that it takes the migrations to their
\* revision, that each category is there once at most, and that what ON CONFLICT names in
\* each import is unique and the long names have room.
Accepted ==
  /\ \A p \in Containers : revision <= Release(p) =>
       Reached(schema, Changes(revision, Release(p)), Wide) = {Known[Release(p)]}
  /\ \A n \in Names : categories[n] <= 1
  /\ phase["api"] = "hs_codes" =>
       {"code"} \in schema["hs_codes"].unique /\ schema["hs_codes"].columns["name_ko"].type = Text
  /\ phase["api"] = "customs_duty_rates" => {"hs_code"} \in schema["customs_duty_rates"].unique
  /\ phase["api"] = "international_shipping_rates" =>
       {"method", "max_weight_kg"} \in schema["international_shipping_rates"].unique

LEMMA KeysOfImports ==
  /\ {"code"} \in Known[16]["hs_codes"].unique /\ Known[16]["hs_codes"].columns["name_ko"].type = Text
  /\ {"hs_code"} \in Known[16]["customs_duty_rates"].unique
  /\ {"method", "max_weight_kg"} \in Known[16]["international_shipping_rates"].unique
<1>1. /\ Known[16]["hs_codes"] = HsCode /\ Known[16]["customs_duty_rates"] = CustomsDutyRate
      /\ Known[16]["international_shipping_rates"] = InternationalShippingRate
  BY HeadOfOthers DEF Declared
<1>2. {"code"} \in HsCode.unique
  BY DEF HsCode, Table
<1>3. Has(HsCode.columns, "name_ko", Text)
  <2> DEFINE columns == Required({"code"}, Varchar(10)) ++ Required({"name_ko"}, Text)
               ++ Optional({"name_en"}, Text) ++ Optional({"category_id"}, Bigint)
  <2>1. Has(Required({"code"}, Varchar(10)) ++ Required({"name_ko"}, Text), "name_ko", Text)
    BY HasGroup, HasJoined, GroupDomain
  <2>2. Has(columns, "name_ko", Text)
    BY <2>1, HasJoined
  <2>3. HsCode = Table(columns, {{"code"}}, OfCategory)
    BY DEF HsCode
  <2> HIDE DEF columns
  <2> QED
    BY <2>2, <2>3, TableHas
<1>4. {"hs_code"} \in CustomsDutyRate.unique
  BY DEF CustomsDutyRate, Table
<1>5. {"method", "max_weight_kg"} \in InternationalShippingRate.unique
  BY DEF InternationalShippingRate, Table
<1> QED
  BY <1>1, <1>2, <1>3, <1>4, <1>5 DEF Has

(* The entrypoint ends at the first step that fails and would fail again at each start    *)
(* (docker-entrypoint.sh): whatever came before, no step of a start finds a database that *)
(* refuses it, from any revision that the image knows.                                    *)
THEOREM StartsAreAccepted == Spec => []Accepted
<1>1. IInv /\ Tables => Accepted
  <2> SUFFICES ASSUME IInv, Tables PROVE Accepted
    OBVIOUS
  <2>1. ASSUME NEW p \in Containers, revision <= Release(p)
        PROVE  Reached(schema, Changes(revision, Release(p)), Wide) = {Known[Release(p)]}
    <3>1. revision \in 0..16 /\ Release(p) \in revision..16
      BY <2>1, OfAnImage, SixteenRevisions DEF IInv, Shape
    <3> QED
      BY <3>1, UpgradesArrive DEF Tables
  <2>2. \A n \in Names : categories[n] <= 1
    BY DEF IInv, Shape
  <2>3. ASSUME phase["api"] \in Filling PROVE schema = Known[16]
    BY <2>3, BootedHere, SixteenRevisions DEF Filling, IInv, StepsDone, Tables
  <2> QED
    BY <2>1, <2>2, <2>3, KeysOfImports DEF Accepted, Filling
<1> QED
  BY TablesInvariant, <1>1, PTL

(* The official HS file has names longer than VARCHAR(255) (alembic/versions/0002): a     *)
(* downgrade, to any revision and after any release, arrives unless it takes the longer   *)
(* type back while the names are there.                                                   *)
THEOREM DowngradesAreAccepted ==
  Spec => [](\A to \in Deployed : to <= revision /\ ~(to < 2 /\ 2 <= revision /\ "hs_codes" \in filled) =>
               Reached(schema, Changes(revision, to), Wide) = {Known[to]})
<1>1. ASSUME IInv, Tables, NEW to \in Deployed, to <= revision,
             ~(to < 2 /\ 2 <= revision /\ "hs_codes" \in filled)
      PROVE  Reached(schema, Changes(revision, to), Wide) = {Known[to]}
  <2>1. revision \in 0..16 /\ to \in 0..16
    BY <1>1, DeploymentAssumption, SixteenRevisions DEF IInv, Shape
  <2>2. "keyword_metrics" \notin Wide /\ ("hs_codes" \in Wide => "hs_codes" \in filled)
    BY DEF Wide
  <2>3. schema = Known[revision]
    BY <1>1 DEF Tables
  <2> HIDE DEF Wide
  <2> QED
    BY <1>1, <2>1, <2>2, <2>3, DowngradesArrive
<1>2. IInv /\ Tables =>
        \A to \in Deployed : to <= revision /\ ~(to < 2 /\ 2 <= revision /\ "hs_codes" \in filled) =>
          Reached(schema, Changes(revision, to), Wide) = {Known[to]}
  BY <1>1
<1> QED
  BY TablesInvariant, <1>2, PTL

=============================================================================
