--------------------------- MODULE SchemaUpgrade ---------------------------
(***************************************************************************)
(* The database schema over the life of a deployment: every run of alembic *)
(* (backend/alembic/env.py) brings it to the revisions of one release, or  *)
(* takes it back to those of an earlier one, in one transaction; the       *)
(* revisions that build an index concurrently leave that transaction for   *)
(* their own statements.  A run can be stopped at any point.               *)
(***************************************************************************)
EXTENDS SchemaRevisions, ModelTables

CONSTANTS
    Releases,       \* ids of the revisions a run is told to go to
    MaxInterrupts,  \* bound on runs that are stopped
    MaxDowngrades   \* bound on runs that go back

ASSUME BoundsType == MaxInterrupts \in Nat /\ MaxDowngrades \in Nat

VARIABLES
    db,          \* what is committed: the schema and the revisions stamped
    work,        \* what the open transaction has; db when no run is open
    migration,   \* the run: mode "none", "up" or "down", and its goal
    block,       \* the revision in an autocommit block, its next statement
    loose,       \* statements committed by themselves, without their stamp
    torn,        \* a run was stopped in that state
    failed,      \* the revision the last run failed at, 0 if none
    interrupts, downgrades

schemaVars == <<db, work, migration, block, loose, torn, failed, interrupts, downgrades>>

Revisions == DOMAIN AllRevisions
NumberOf(id) == CHOOSE i \in Revisions : AllRevisions[i].id = id
ReleaseNumbers == {NumberOf(id) : id \in Releases}
Latest == Len(AllRevisions)
Parents == [i \in Revisions |-> {j \in Revisions : AllRevisions[j].id \in AllRevisions[i].after}]
\* A revision and all it follows, directly or not.
Lineage ==
    FoldLeft(LAMBDA known, i : Append(known, {i} \cup UNION {known[j] : j \in Parents[i]}),
             <<>>, [i \in Revisions |-> i])
Descendants(i) == {j \in Revisions : i \in Lineage[j]}

\* What alembic's map of the files gives: they can be listed so that each comes
\* after its parents, and a lineage has the lineages of its members.
ASSUME LineageOrder ==
    \A i \in Revisions :
        /\ Parents[i] \subseteq 1..i-1
        /\ {i} \cup Parents[i] \subseteq Lineage[i] /\ Lineage[i] \subseteq 1..i
        /\ \A j \in Lineage[i] : Lineage[j] \subseteq Lineage[i]

NoRun == [mode |-> "none", goal |-> {}]
NoBlock == [rev |-> 0, at |-> 0]

ASSUME ReleasesKnown == \A id \in Releases : \E i \in Revisions : AllRevisions[i].id = id

\* The domains of the variables; the stamped revisions have their parents with
\* them, and there is a transaction only during a run.
SchemaTypeOK ==
    /\ db.applied \cup work.applied \subseteq Revisions
    /\ \A i \in db.applied : Parents[i] \subseteq db.applied
    /\ migration.mode \in {"none", "up", "down"} /\ migration.goal \subseteq Revisions
    /\ migration = NoRun => work = db /\ block = NoBlock /\ ~loose
    /\ block.rev \in Revisions \cup {0}
    /\ {loose, torn} \subseteq BOOLEAN
    /\ failed \in Revisions \cup {0}
    /\ interrupts \in 0..MaxInterrupts /\ downgrades \in 0..MaxDowngrades

SchemaInit ==
    /\ db = [schema |-> EmptySchema, applied |-> {}]
    /\ work = db
    /\ migration = NoRun /\ block = NoBlock
    /\ loose = FALSE /\ torn = FALSE
    /\ failed = 0 /\ interrupts = 0 /\ downgrades = 0

-----------------------------------------------------------------------------
(* alembic upgrade <release>, alembic downgrade <release>.                   *)

StartUp(i) ==
    /\ migration = NoRun
    /\ ~(Lineage[i] \subseteq db.applied)
    /\ migration' = [mode |-> "up", goal |-> db.applied \cup Lineage[i]]
    /\ failed' = 0
    /\ UNCHANGED <<db, work, block, loose, torn, interrupts, downgrades>>

StartDown(i) ==
    /\ migration = NoRun
    /\ downgrades < MaxDowngrades
    /\ i \in db.applied /\ db.applied \cap Descendants(i) # {i}
    /\ migration' = [mode |-> "down", goal |-> (db.applied \ Descendants(i)) \cup {i}]
    /\ downgrades' = downgrades + 1
    /\ failed' = 0
    /\ UNCHANGED <<db, work, block, loose, torn, interrupts>>

\* Alembic takes the revisions in an order in which each comes after its
\* parents (going back: before them).
Due(i) ==
    /\ block = NoBlock
    /\ \/ /\ migration.mode = "up" /\ i \in migration.goal \ work.applied
          /\ Parents[i] \subseteq work.applied
       \/ /\ migration.mode = "down" /\ i \in work.applied \ migration.goal
          /\ \A j \in work.applied : i \notin Parents[j]

Statements(i) == IF migration.mode = "up" THEN AllRevisions[i].up ELSE AllRevisions[i].down
Stamped(i) == IF migration.mode = "up" THEN work.applied \cup {i} ELSE work.applied \ {i}

\* An error ends the run: its transaction is rolled back. What a block has
\* committed stays.
Fails(i) ==
    /\ work' = db
    /\ migration' = NoRun /\ block' = NoBlock
    /\ failed' = i
    /\ torn' = (torn \/ loose) /\ loose' = FALSE
    /\ UNCHANGED <<db, interrupts, downgrades>>

Migrate(i) ==
    /\ Due(i) /\ ~AllRevisions[i].alone
    /\ \E r \in {Run(work.schema, Statements(i))} :
           \/ /\ r.ok
              /\ work' = [schema |-> r.schema, applied |-> Stamped(i)]
              /\ UNCHANGED <<db, migration, block, loose, torn, failed, interrupts, downgrades>>
           \/ ~r.ok /\ Fails(i)

\* autocommit_block: what the transaction has is committed, with its stamps.
EnterBlock(i) ==
    /\ Due(i) /\ AllRevisions[i].alone
    /\ db' = work /\ loose' = FALSE
    /\ block' = [rev |-> i, at |-> 1]
    /\ UNCHANGED <<work, migration, torn, failed, interrupts, downgrades>>

\* A statement in the block is committed by itself.
BlockStatement ==
    /\ block # NoBlock /\ block.at <= Len(Statements(block.rev))
    /\ \E r \in {Apply([ok |-> TRUE, schema |-> db.schema], Statements(block.rev)[block.at])} :
           \/ /\ r.ok
              /\ db' = [db EXCEPT !.schema = r.schema]
              /\ block' = [block EXCEPT !.at = @ + 1]
              /\ loose' = TRUE
              /\ UNCHANGED <<work, migration, torn, failed, interrupts, downgrades>>
           \/ ~r.ok /\ Fails(block.rev)

\* The revision is stamped in the transaction that follows the block.
LeaveBlock ==
    /\ block # NoBlock /\ block.at > Len(Statements(block.rev))
    /\ work' = [schema |-> db.schema, applied |-> Stamped(block.rev)]
    /\ block' = NoBlock
    /\ UNCHANGED <<db, migration, loose, torn, failed, interrupts, downgrades>>

\* The end of a run commits it.
FinishRun ==
    /\ migration # NoRun /\ block = NoBlock /\ work.applied = migration.goal
    /\ db' = work /\ loose' = FALSE
    /\ migration' = NoRun
    /\ UNCHANGED <<work, block, torn, failed, interrupts, downgrades>>

\* The container is stopped, or the connection lost.
Interrupt ==
    /\ migration # NoRun
    /\ interrupts < MaxInterrupts /\ interrupts' = interrupts + 1
    /\ work' = db
    /\ migration' = NoRun /\ block' = NoBlock
    /\ torn' = (torn \/ loose) /\ loose' = FALSE
    /\ UNCHANGED <<db, failed, downgrades>>

\* The container's command runs `alembic upgrade head` whenever it starts.
StartHead == StartUp(Latest)
Proceeds ==
    \/ \E i \in Revisions : Migrate(i)
    \/ \E i \in Revisions : EnterBlock(i)
    \/ BlockStatement
    \/ LeaveBlock
    \/ FinishRun

SchemaNext ==
    \/ Proceeds
    \/ StartHead
    \/ \E i \in ReleaseNumbers : StartUp(i)
    \/ \E i \in ReleaseNumbers : StartDown(i)
    \/ Interrupt

SchemaSpec == SchemaInit /\ [][SchemaNext]_schemaVars

-----------------------------------------------------------------------------
\* No migration is refused by a database that the earlier ones made, whichever
\* releases it went through and in whatever order independent branches were
\* applied: a run fails only after an interrupted concurrent index build
\* (20261026_000000, 20261028_000000), which no later run gets past, or at the
\* downgrade that is declared unsupported (20260512_000002).
UpgradesApply ==
    failed # 0 => torn \/ AllRevisions[failed].down = Unsupported

\* What is compared of a key: its name may differ.
Shape(k) ==
    [kind |-> IF k.kind = "unique index" THEN "unique" ELSE k.kind,
     table |-> k.table, on |-> k.on, to |-> k.to]
Shapes(keys) == {Shape(k) : k \in keys}

\* Where the tables differ from models.py: two foreign keys went with the
\* tables that 20260512_000002 dropped, two columns the models declare nullable
\* are not.
LostForeignKeys ==
    Shapes({Foreign("task_logs", "task_id", "tasks"),
            Foreign("foreman_turns", "parent_id", "foreman_turns")})
StricterColumns == {<<"messages", "source">>, <<"user_spawn_settings", "settings_json">>}

Serves(s, m) ==
    /\ \A c \in m.cols : \E d \in ColumnsOf(s, m.table) :
           /\ d[2] = c[1] /\ d[3] = c[2]
           /\ c[3] = "optional" /\ <<m.table, c[1]>> \notin StricterColumns => d[4] = "optional"
    /\ \A d \in ColumnsOf(s, m.table) : d[4] = "required" => d[2] \in Names(m.cols)
    /\ Shapes(m.keys) \subseteq Shapes(s.keys) \cup LostForeignKeys

\* A database at the head revision has what the code's models need
\* (models.py): each column with its type, NULL allowed where the code writes
\* it, no column the code would leave empty, and the unique and foreign keys
\* that lookups, upserts and inserts rely on.
ModelsServed ==
    db.applied = Lineage[Latest] /\ ~torn => \A m \in Models : Serves(db.schema, m)
=============================================================================
