----------------------------- MODULE SchemaOps -----------------------------
(***************************************************************************)
(* The statements a migration runs, as PostgreSQL takes them: when each is *)
(* accepted and what it leaves.  A schema is a set of columns              *)
(* <<table, column, type, need>> and a set of keys.  A column is           *)
(* "required" (NOT NULL without a default), "defaulted" (NOT NULL with     *)
(* one, or an identity) or "optional".  Rows are not modelled, but a table *)
(* is taken to have some: a required column cannot be added to it.         *)
(***************************************************************************)
EXTENDS Naturals, Sequences, SequencesExt

Req(type, names) == {<<n, type, "required">> : n \in names}
Dft(type, names) == {<<n, type, "defaulted">> : n \in names}
Opt(type, names) == {<<n, type, "optional">> : n \in names}
Names(cols) == {c[1] : c \in cols}

\* A key: a constraint ("primary", "unique", "foreign") or an index ("index",
\* "unique index", "partial" for a unique index with a condition). `to` is the
\* table and the column a foreign key refers to.
KeyOf(kind, name, table, on, to) ==
    [kind |-> kind, name |-> name, table |-> table, on |-> on, to |-> to]
Nowhere == <<"", "">>

\* The names PostgreSQL gives to constraints that are declared without one.
Primary(t, on) == KeyOf("primary", t \o "_pkey", t, on, Nowhere)
UniqueNamed(name, t, on) == KeyOf("unique", name, t, on, Nowhere)
Unique(t, c) == UniqueNamed(t \o "_" \o c \o "_key", t, {c})
ForeignNamed(name, t, c, u) == KeyOf("foreign", name, t, {c}, <<u, "id">>)
ForeignTo(t, c, u, d) == KeyOf("foreign", t \o "_" \o c \o "_fkey", t, {c}, <<u, d>>)
Foreign(t, c, u) == ForeignTo(t, c, u, "id")

Indexes == {"index", "unique index", "partial"}
Constraints == {"primary", "unique", "foreign"}
\* What a foreign key and an ON CONFLICT clause can rest on.
Distinguishing == {"primary", "unique", "unique index"}

-----------------------------------------------------------------------------
(* The operations.  Every one is a record with the same fields, so that they *)
(* can stand in one sequence.                                                *)

Op(do, table, names, cols, keys, arg) ==
    [do |-> do, table |-> table, names |-> names, cols |-> cols, keys |-> keys, arg |-> arg]

Create(t, cols, keys) == Op("create", t, {}, cols, keys, "")
DropTable(t) == Op("drop table", t, {}, {}, {}, "")
DropCascade(t) == Op("drop cascade", t, {}, {}, {}, "")
RenameTable(t, u) == Op("rename table", t, {}, {}, {}, u)
AddWith(t, cols, keys) == Op("add", t, {}, cols, keys, "")
Add(t, cols) == AddWith(t, cols, {})
Drop(t, names) == Op("drop", t, names, {}, {}, "")
RenameColumn(t, c, d) == Op("rename", t, {c}, {}, {}, d)
Retype(t, c, type) == Op("retype", t, {c}, {}, {}, type)
Need(t, c, need) == Op("need", t, {c}, {}, {}, need)
AddKey(k) == Op("key", k.table, {}, {}, {k}, "")
Index(name, t, on) == AddKey(KeyOf("index", name, t, on, Nowhere))
UniqueIndex(name, t, on) == AddKey(KeyOf("unique index", name, t, on, Nowhere))
PartialIndex(name, t, on) == AddKey(KeyOf("partial", name, t, on, Nowhere))
UniqueKey(name, t, on) == AddKey(UniqueNamed(name, t, on))
DropIndex(name) == Op("drop index", "", {}, {}, {}, name)
DropConstraint(t, name) == Op("drop constraint", t, {}, {}, {}, name)
RenameKey(t, name, other) == Op("rename key", t, {name}, {}, {}, other)
\* A constraint found by its kind and column, whatever its name; nothing if
\* there is none.
DropFound(t, kind, c) == Op("drop found", t, {c}, {}, {}, kind)
DropPrimary(t) == Op("drop primary", t, {}, {}, {}, "")
\* What a migration adds or drops only if the inspector misses or finds it.
EnsureColumns(t, cols) == Op("ensure columns", t, {}, cols, {}, "")
EnsureKey(k) == Op("ensure key", k.table, {}, {}, {k}, "")
DropIfThere(t, names) == Op("drop if there", t, names, {}, {}, "")
\* Statements over the rows: a read or an update of columns, an insert of
\* columns, and an insert with ON CONFLICT (on).
Uses(t, names) == Op("uses", t, names, {}, {}, "")
Fills(t, names) == Op("fills", t, names, {}, {}, "")
Upserts(t, names, on) == Op("upserts", t, names, {<<c, "", "">> : c \in on}, {}, "")

\* The same operations for every member of a sequence.
Each(seq, Ops(_)) == FlattenSeq([i \in DOMAIN seq |-> Ops(seq[i])])

-----------------------------------------------------------------------------
EmptySchema == [cols |-> {}, keys |-> {}]

ColumnsOf(s, t) == {c \in s.cols : c[1] = t}
NamesOf(s, t) == {c[2] : c \in ColumnsOf(s, t)}
IsTable(s, t) == ColumnsOf(s, t) # {}
In(t, cols) == {<<t, c[1], c[2], c[3]>> : c \in cols}
Renamed(x, from, into) == IF x = from THEN into ELSE x

\* Every foreign key refers to columns that exist and are distinguishing: a
\* statement that takes that away without CASCADE is refused.
Sound(s) ==
    \A k \in s.keys : k.kind = "foreign" =>
        \E u \in s.keys :
            u.kind \in Distinguishing /\ u.table = k.to[1] /\ u.on = {k.to[2]}

\* Index names are the schema's, the names of foreign keys their table's.
NameFree(s, k) ==
    \A u \in s.keys : u.name = k.name =>
        (k.kind = "foreign" \/ u.kind = "foreign") /\ u.table # k.table
KeysFit(s, keys) == \A k \in keys : NameFree(s, k) /\ k.on \subseteq NamesOf(s, k.table)
WithKeys(s, keys) == [s EXCEPT !.keys = @ \cup keys]
WithoutKeys(s, keys) == [s EXCEPT !.keys = @ \ keys]
WithColumns(s, t, cols) == [s EXCEPT !.cols = @ \cup In(t, cols)]
\* A dropped column takes the indexes and constraints over it along.
WithoutColumns(s, t, names) ==
    [cols |-> {c \in s.cols : ~(c[1] = t /\ c[2] \in names)},
     keys |-> {k \in s.keys : ~(k.table = t /\ k.on \cap names # {})}]
WithoutTable(s, t) ==
    [cols |-> s.cols \ ColumnsOf(s, t), keys |-> {k \in s.keys : k.table # t}]
Named(s, name) == {k \in s.keys : k.name = name}
Found(s, t, kind, c) == {k \in s.keys : k.table = t /\ k.kind = kind /\ k.on = {c}}
Missing(s, t, cols) == {c \in cols : c[1] \notin NamesOf(s, t)}

Inserts(s, t, names) ==
    /\ names \subseteq NamesOf(s, t)
    /\ \A c \in ColumnsOf(s, t) : c[4] = "required" => c[2] \in names

\* PostgreSQL accepts the statement in schema s.
Ready(s, o) ==
    CASE o.do = "create" ->
            ~IsTable(s, o.table) /\ KeysFit(WithColumns(s, o.table, o.cols), o.keys)
      [] o.do \in {"drop table", "drop cascade"} -> IsTable(s, o.table)
      [] o.do = "rename table" -> IsTable(s, o.table) /\ ~IsTable(s, o.arg)
      [] o.do = "add" ->
            /\ IsTable(s, o.table)
            /\ Missing(s, o.table, o.cols) = o.cols
            /\ \A c \in o.cols : c[3] # "required"
            /\ KeysFit(WithColumns(s, o.table, o.cols), o.keys)
      [] o.do \in {"drop", "retype", "need", "uses"} -> o.names \subseteq NamesOf(s, o.table)
      [] o.do = "rename" -> o.names \subseteq NamesOf(s, o.table) /\ o.arg \notin NamesOf(s, o.table)
      [] o.do = "key" -> KeysFit(s, o.keys)
      [] o.do = "drop index" -> \E k \in Named(s, o.arg) : k.kind \in Indexes
      [] o.do = "drop constraint" ->
            \E k \in Named(s, o.arg) : k.table = o.table /\ k.kind \in Constraints
      [] o.do = "rename key" ->
            /\ \E k \in s.keys : k.table = o.table /\ k.name \in o.names
            /\ Named(s, o.arg) = {}
      [] o.do = "drop primary" -> \E k \in s.keys : k.table = o.table /\ k.kind = "primary"
      [] o.do = "fills" -> Inserts(s, o.table, o.names)
      [] o.do = "upserts" ->
            /\ Inserts(s, o.table, o.names)
            /\ \E k \in s.keys : k.kind \in Distinguishing /\ k.table = o.table /\ k.on = Names(o.cols)
      [] OTHER -> IsTable(s, o.table)

\* The schema after it.
Done(s, o) ==
    CASE o.do \in {"create", "add"} -> WithKeys(WithColumns(s, o.table, o.cols), o.keys)
      [] o.do = "drop table" -> WithoutTable(s, o.table)
      [] o.do = "drop cascade" ->
            LET r == WithoutTable(s, o.table)
            IN  WithoutKeys(r, {k \in r.keys : k.to[1] = o.table})
      [] o.do = "rename table" ->
            [cols |-> {<<Renamed(c[1], o.table, o.arg), c[2], c[3], c[4]>> : c \in s.cols},
             keys |-> {[k EXCEPT !.table = Renamed(@, o.table, o.arg),
                                 !.to[1] = Renamed(@, o.table, o.arg)] : k \in s.keys}]
      [] o.do \in {"drop", "drop if there"} -> WithoutColumns(s, o.table, o.names)
      [] o.do = "rename" ->
            LET New(t, c) == IF t = o.table /\ c \in o.names THEN o.arg ELSE c
            IN  [cols |-> {<<c[1], New(c[1], c[2]), c[3], c[4]>> : c \in s.cols},
                 keys |-> {[k EXCEPT !.on = {New(k.table, c) : c \in @},
                                     !.to[2] = New(k.to[1], @)] : k \in s.keys}]
      [] o.do = "retype" ->
            [s EXCEPT !.cols = {IF c[1] = o.table /\ c[2] \in o.names
                                THEN <<c[1], c[2], o.arg, c[4]>> ELSE c : c \in @}]
      [] o.do = "need" ->
            [s EXCEPT !.cols = {IF c[1] = o.table /\ c[2] \in o.names
                                THEN <<c[1], c[2], c[3], o.arg>> ELSE c : c \in @}]
      [] o.do = "key" -> WithKeys(s, o.keys)
      [] o.do = "drop index" -> WithoutKeys(s, {k \in Named(s, o.arg) : k.kind \in Indexes})
      [] o.do = "drop constraint" -> WithoutKeys(s, {k \in Named(s, o.arg) : k.table = o.table})
      [] o.do = "rename key" ->
            [s EXCEPT !.keys = {IF k.table = o.table /\ k.name \in o.names
                                THEN [k EXCEPT !.name = o.arg] ELSE k : k \in @}]
      [] o.do = "drop found" -> WithoutKeys(s, UNION {Found(s, o.table, o.arg, c) : c \in o.names})
      [] o.do = "drop primary" ->
            WithoutKeys(s, {k \in s.keys : k.table = o.table /\ k.kind = "primary"})
      [] o.do = "ensure columns" -> WithColumns(s, o.table, Missing(s, o.table, o.cols))
      [] o.do = "ensure key" -> WithKeys(s, {k \in o.keys : Named(s, k.name) = {}})
      [] OTHER -> s

\* A statement in a transaction: [ok, schema]. After an error the transaction
\* takes no further statement. (Intermediate schemas are members of a set of
\* one, which TLC evaluates once.)
Apply(r, o) ==
    IF ~r.ok \/ ~Ready(r.schema, o) THEN [r EXCEPT !.ok = FALSE]
    ELSE CHOOSE q \in {[ok |-> Sound(t), schema |-> t] : t \in {Done(r.schema, o)}} : TRUE

\* The statements of a sequence, one after the other.
Run(s, ops) ==
    LET after[i \in 0..Len(ops)] ==
            IF i = 0 THEN [ok |-> TRUE, schema |-> s]
            ELSE CHOOSE q \in {Apply(r, ops[i]) : r \in {after[i - 1]}} : TRUE
    IN  after[Len(ops)]

\* What a downgrade that mirrors its upgrade does for one operation of it: the
\* statements over rows are not taken back.
Undo(o) ==
    CASE o.do = "create" -> <<DropTable(o.table)>>
      [] o.do = "add" -> <<Drop(o.table, Names(o.cols))>>
      [] o.do = "rename table" -> <<RenameTable(o.arg, o.table)>>
      [] o.do = "key" ->
            LET k == CHOOSE k \in o.keys : TRUE
            IN  <<IF k.kind \in Indexes THEN DropIndex(k.name) ELSE DropConstraint(k.table, k.name)>>
      [] OTHER -> <<>>
Mirror(ops) == Each(Reverse(ops), Undo)
=============================================================================
