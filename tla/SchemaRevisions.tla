-------------------------- MODULE SchemaRevisions --------------------------
(***************************************************************************)
(* The migrations of backend/alembic/versions, one definition a file, named *)
(* after it: the revisions it follows, the statements of upgrade() and of   *)
(* downgrade() in their order.  A statement over the rows is represented by *)
(* the tables and columns it reads and writes.                              *)
(***************************************************************************)
EXTENDS SchemaOps

\* A migration. `alone`: its statements run in an autocommit block.
RevisionWith(id, after, up, down) ==
    [id |-> id, after |-> after, up |-> up, down |-> down, alone |-> FALSE]
\* One whose downgrade takes its upgrade's statements back in reverse order.
Revision(id, after, up) == RevisionWith(id, after, up, Mirror(up))
Merges(id, after) == Revision(id, after, <<>>)
Alone(r) == [r EXCEPT !.alone = TRUE]
\* A downgrade() that raises.
Unsupported == <<DropTable("nothing")>>

InitialSchema == Revision("887fdc31fa31", {},
    <<Create("github_tokens",
          Req("text", {"github_user_id", "access_token", "created_at", "updated_at"})
          \cup Dft("text", {"token_type"}) \cup Opt("text", {"github_username", "scope"}),
          {Primary("github_tokens", {"github_user_id"})}),
      Create("guilds", Req("text", {"id", "created_at"})
          \cup Opt("text", {"name", "github_user_id"}), {Primary("guilds", {"id"})}),
      Create("messages", Req("text", {"guild_id", "content", "message_type", "created_at"})
          \cup Dft("int", {"id"}) \cup Opt("text", {"from_agent", "to_agent"}),
          {Primary("messages", {"id"}), Foreign("messages", "guild_id", "guilds")}),
      Create("user_sessions", Req("text", {"token", "github_user_id", "created_at"}),
          {Primary("user_sessions", {"token"}), ForeignTo("user_sessions", "github_user_id",
          "github_tokens", "github_user_id")}),
      Create("workers", Req("text", {"id", "guild_id", "created_at"})
          \cup Dft("text", {"repos", "state"}), {Primary("workers", {"id"}),
          Foreign("workers", "guild_id", "guilds")}),
      Create("agents", Req("text", {"id", "guild_id", "name", "joined_at"})
          \cup Dft("text", {"type", "state"}) \cup Opt("text", {"worker_id"}), {Primary("agents",
          {"id"}), Foreign("agents", "guild_id", "guilds"), Foreign("agents", "worker_id",
          "workers")}),
      Create("tasks", Req("text", {"id", "worker_id", "guild_id", "description", "created_at"})
          \cup Dft("text", {"tool", "state"}) \cup Opt("text", {"issue_repo", "branch",
          "worktree_path", "pr_url", "finished_at", "name", "parent_task_id", "phase"})
          \cup Opt("int", {"issue_number"}), {Primary("tasks", {"id"}),
          Foreign("tasks", "worker_id", "workers")}),
      Create("task_logs", Req("text", {"task_id", "timestamp", "line"}) \cup Dft("int", {"id"})
          \cup Opt("text", {"worker_id", "agent_id"}), {Primary("task_logs", {"id"}),
          Foreign("task_logs", "task_id", "tasks")})>>)
MakeTaskIdNullable == RevisionWith("da1a6b1632f1", {"887fdc31fa31"},
    <<Need("task_logs", "task_id", "optional")>>,
    <<Need("task_logs", "task_id", "required")>>)
AddLogIdAndDataToTaskLogs == Revision("c3f8e2a91b45", {"da1a6b1632f1"},
    <<Add("task_logs", Opt("text", {"log_id", "data"}))>>)
BackfillNullTaskDescriptions == RevisionWith("f3a9c1e7b250", {"c3f8e2a91b45"},
    <<Uses("tasks", {"description"})>>,
    <<>>)
AddClaudeCredentials == Revision("b1e2f3a4c5d6", {"f3a9c1e7b250"},
    <<Create("claude_credentials", Req("text", {"guild_id", "credentials_blob", "updated_at"})
          \cup Dft("int", {"id"}), {Primary("claude_credentials", {"id"}),
          Foreign("claude_credentials", "guild_id", "guilds"), Unique("claude_credentials",
          "guild_id")})>>)
AddForemanTurns == Revision("d2e3f4a5b6c7", {"b1e2f3a4c5d6"},
    <<Create("foreman_turns",
          Req("text", {"guild_id", "user_id", "role", "content_json", "created_at"})
          \cup Dft("int", {"id", "is_tool_response"}) \cup Opt("int", {"parent_id"}),
          {Primary("foreman_turns", {"id"}), Foreign("foreman_turns", "parent_id",
          "foreman_turns")}),
      Index("ix_foreman_turns_guild_user", "foreman_turns", {"guild_id", "user_id"})>>)
AddUserIdToMessages == Revision("e3f4a5b6c7d8", {"d2e3f4a5b6c7"},
    <<Add("messages", Opt("text", {"user_id"}))>>)
MergeHeads == Merges("a1b2c3d4e5f6",
    {"e3f4a5b6c7d8", "f3a9c1e7b250"})
AddPrimaryRepoToGuilds == Revision("b2c3d4e5f6a7", {"a1b2c3d4e5f6"},
    <<Add("guilds", Opt("text", {"primary_repo"}))>>)
AddActivityToAgents == Revision("c4d5e6f7a8b9", {"b2c3d4e5f6a7"},
    <<Add("agents", Opt("text", {"activity"}))>>)
AddLastSeenToWorkersAndAgents == Revision("d5e6f7a8b9c0", {"c4d5e6f7a8b9"},
    <<Add("agents", Opt("text", {"last_seen"})), Add("workers", Opt("text", {"last_seen"})),
      Uses("workers", {"last_seen"}), Uses("agents", {"last_seen"})>>)
AddUsersAndGuildMembers == Revision("f4a5b6c7d8e9", {"d5e6f7a8b9c0"},
    <<Create("users", Req("text", {"id", "github_id", "created_at", "updated_at"})
          \cup Opt("text", {"github_login", "email", "display_name", "avatar_url"}),
          {Primary("users", {"id"}), Unique("users", "github_id")}),
      Create("guild_members", Req("text", {"guild_id", "user_id", "created_at"})
          \cup Dft("text", {"role"}), {Primary("guild_members", {"guild_id", "user_id"}),
          Foreign("guild_members", "guild_id", "guilds"), Foreign("guild_members", "user_id",
          "users")}), Add("workers", Opt("text", {"user_id"})),
      Uses("github_tokens", {"github_user_id", "github_username", "created_at", "updated_at"}),
      Fills("users", {"id", "github_id", "github_login", "created_at", "updated_at"}),
      Uses("guilds", {"id", "github_user_id", "created_at"}),
      Fills("guild_members", {"guild_id", "user_id", "role", "created_at"})>>)
AddDeletedAtToTasks == Revision("a5b6c7d8e9f0", {"f4a5b6c7d8e9"},
    <<Add("tasks", Opt("text", {"deleted_at"}))>>)
AddAuthTokenToWorkers == Revision("b6c7d8e9f0a1", {"a5b6c7d8e9f0"},
    <<Add("workers", Opt("text", {"auth_token"}))>>)
AddUserIdToTasks == Revision("c7d8e9f0a1b2", {"b6c7d8e9f0a1"},
    <<Add("tasks", Opt("text", {"user_id"}))>>)
AddGithubWebhooks == Revision("e7f8a9b0c1d2", {"c7d8e9f0a1b2"},
    <<Add("guilds", Opt("text", {"webhook_secret"})),
      Add("tasks", Opt("text", {"pr_repo"}) \cup Opt("int", {"pr_number"})),
      Create("github_events", Req("text", {"guild_id", "delivery_id", "event_type", "repo",
          "payload_json", "created_at"}) \cup Dft("int", {"id"})
          \cup Opt("text", {"task_id", "action", "pr_url", "sender_login"})
          \cup Opt("int", {"pr_number"}), {Primary("github_events", {"id"}),
          Foreign("github_events", "guild_id", "guilds"), Foreign("github_events", "task_id",
          "tasks"), Unique("github_events", "delivery_id")}),
      Index("ix_github_events_task_id", "github_events", {"task_id"}),
      Index("ix_github_events_guild_id", "github_events", {"guild_id", "created_at"})>>)
AddGuildKeys == Revision("20260506_000000_add_guild_keys", {"e7f8a9b0c1d2"},
    <<Create("guild_keys", Req("text", {"guild_id", "key_id", "public_key_pem", "private_key_pem",
          "created_at"}) \cup Dft("int", {"id"}), {Primary("guild_keys", {"id"}),
          Foreign("guild_keys", "guild_id", "guilds"), Unique("guild_keys", "guild_id")})>>)
AddCustomJwksToGuildKeys == Revision("20260506_000001_add_custom_jwks_to_guild_keys",
    {"20260506_000000_add_guild_keys"},
    <<Add("guild_keys", Opt("text", {"custom_jwks", "private_key_jwk"}))>>)
AddOrgToWorkers == Revision("20260506_000002_add_org_to_workers",
    {"20260506_000001_add_custom_jwks_to_guild_keys"},
    <<Add("workers", Opt("text", {"org"}))>>)
AddA2aFieldsToGuilds == Revision("20260506_000003_add_a2a_fields_to_guilds",
    {"20260506_000002_add_org_to_workers"},
    <<Add("guilds", Opt("text", {"description", "url", "version"}))>>)
GuildTexts == {"name", "github_user_id", "primary_repo", "webhook_secret", "description", "url", "version"}
GuildsIntegerPkSoftDelete == RevisionWith("20260512_000000_guilds_integer_pk_soft_delete",
    {"20260506_000003_add_a2a_fields_to_guilds"},
    <<Create("guilds_new", Dft("int", {"id"}) \cup Req("text", {"guild_id", "created_at"})
          \cup Opt("text", GuildTexts \cup {"deleted_at"}), {Primary("guilds_new", {"id"})}),
      Uses("guilds", {"id", "created_at"} \cup GuildTexts),
      Fills("guilds_new", {"guild_id", "created_at"} \cup GuildTexts), DropCascade("guilds"),
      RenameTable("guilds_new", "guilds"),
      PartialIndex("uq_guilds_guild_id_active", "guilds", {"guild_id"})>>,
    <<DropIndex("uq_guilds_guild_id_active"),
      Create("guilds_old", Req("text", {"id", "created_at"}) \cup Opt("text", GuildTexts),
          {Primary("guilds_old", {"id"})}),
      Uses("guilds", {"guild_id", "created_at", "deleted_at"} \cup GuildTexts),
      Fills("guilds_old", {"id", "created_at"} \cup GuildTexts), DropTable("guilds"),
      RenameTable("guilds_old", "guilds")>>)
FkTables == <<"agents", "messages", "workers", "guild_members", "claude_credentials", "guild_keys",
              "github_events">>
AddGuildPk(t) == AddWith(t, Opt("int", {"guild_pk"}), {Foreign(t, "guild_pk", "guilds")})
FkChildTablesReferenceGuildsIntPk == RevisionWith("20260512_000001_fk_child_tables_reference_guilds_int_pk",
    {"20260512_000000_guilds_integer_pk_soft_delete"},
    Each(FkTables, LAMBDA t : <<AddGuildPk(t), Uses(t, {"guild_pk", "guild_id"})>>),
    Each(FkTables, LAMBDA t : <<Drop(t, {"guild_pk"})>>))
\* A table made anew under another name with the columns `cols` and guild_pk,
\* filled from the old one and put in its place. Its constraints keep the names
\* they got under the other name.
Rebuild(t, cols, pk, refs, uniques, discard) ==
    LET new == t \o "_new"
        all == cols \cup Req("int", {"guild_pk"})
    IN  <<Create(new, all,
              {Primary(new, pk), Foreign(new, "guild_pk", "guilds")}
                \cup {Foreign(new, refs[i][1], refs[i][2]) : i \in DOMAIN refs}
                \cup {Unique(new, c) : c \in uniques}),
          Uses(t, Names(all)), Fills(new, Names(all)), discard, RenameTable(new, t)>>
DropGuildIdChildTables == RevisionWith("20260512_000002_drop_guild_id_child_tables",
    {"20260512_000001_fk_child_tables_reference_guilds_int_pk"},
    Each(FkTables, LAMBDA t : <<Uses(t, {"guild_pk", "guild_id"})>>)
    \o Each(<<"tasks", "foreman_turns">>, LAMBDA t : <<AddGuildPk(t), Uses(t, {"guild_pk", "guild_id"})>>)
    \o Rebuild("workers", Req("text", {"id", "created_at"}) \cup Dft("text", {"repos", "state"})
            \cup Opt("text", {"org", "last_seen", "user_id", "auth_token"}),
        {"id"}, <<<<"user_id", "users">>>>, {}, DropCascade("workers"))
    \o Rebuild("agents", Req("text", {"id", "name", "joined_at"}) \cup Dft("text", {"type", "state"})
            \cup Opt("text", {"worker_id", "activity", "last_seen"}),
        {"id"}, <<<<"worker_id", "workers">>>>, {}, DropTable("agents"))
    \o Rebuild("tasks", Req("text", {"id", "worker_id", "description", "created_at"})
            \cup Dft("text", {"tool", "state"}) \cup Opt("int", {"issue_number", "pr_number"})
            \cup Opt("text", {"issue_repo", "branch", "worktree_path", "pr_url", "pr_repo",
                              "finished_at", "name", "parent_task_id", "phase", "deleted_at", "user_id"}),
        {"id"}, <<<<"worker_id", "workers">>>>, {}, DropCascade("tasks"))
    \o Rebuild("messages", Dft("int", {"id"}) \cup Req("text", {"content", "message_type", "created_at"})
            \cup Opt("text", {"from_agent", "to_agent", "user_id"}),
        {"id"}, <<>>, {}, DropTable("messages"))
    \o Rebuild("guild_members", Req("text", {"user_id", "created_at"}) \cup Dft("text", {"role"}),
        {"guild_pk", "user_id"}, <<<<"user_id", "users">>>>, {}, DropTable("guild_members"))
    \o Rebuild("claude_credentials", Dft("int", {"id"}) \cup Req("text", {"credentials_blob", "updated_at"}),
        {"id"}, <<>>, {"guild_pk"}, DropTable("claude_credentials"))
    \o Rebuild("guild_keys", Dft("int", {"id"}) \cup Opt("text", {"custom_jwks", "private_key_jwk"})
            \cup Req("text", {"key_id", "public_key_pem", "private_key_pem", "created_at"}),
        {"id"}, <<>>, {"guild_pk"}, DropTable("guild_keys"))
    \o Rebuild("github_events", Dft("int", {"id"}) \cup Opt("int", {"pr_number"})
            \cup Req("text", {"delivery_id", "event_type", "repo", "payload_json", "created_at"})
            \cup Opt("text", {"task_id", "action", "pr_url", "sender_login"}),
        {"id"}, <<<<"task_id", "tasks">>>>, {"delivery_id"}, DropTable("github_events"))
    \o Rebuild("foreman_turns", Dft("int", {"id", "is_tool_response"}) \cup Opt("int", {"parent_id"})
            \cup Req("text", {"user_id", "role", "content_json", "created_at"}),
        {"id"}, <<>>, {}, DropTable("foreman_turns")),
    Unsupported)
AddNameToWorkers == Revision("20260515_000000_add_name_to_workers",
    {"20260512_000002_drop_guild_id_child_tables"},
    <<Add("workers", Opt("text", {"name"}))>>)
AddTokensToForemanTurns == Revision("20260515_000001_add_tokens_to_foreman_turns",
    {"20260515_000000_add_name_to_workers"},
    <<Add("foreman_turns", Opt("int", {"input_tokens", "output_tokens"}))>>)
AddCurrentTaskIdToAgents == Revision("20260518_000000_add_current_task_id_to_agents",
    {"20260515_000001_add_tokens_to_foreman_turns"},
    <<Add("agents", Opt("text", {"current_task_id"}))>>)
AddIndexWorkerLastSeen == Revision("20260520_000000_add_index_worker_last_seen",
    {"20260518_000000_add_current_task_id_to_agents"},
    <<Index("ix_workers_state_last_seen", "workers", {"state", "last_seen"})>>)
AddTaskLocking == Revision("20260520_000001_add_task_locking",
    {"20260520_000000_add_index_worker_last_seen"},
    <<Add("tasks", Opt("text", {"locked_at", "lock_holder"})),
      Create("task_events", Req("text", {"task_id", "event_type", "payload_json", "created_at"})
          \cup Dft("int", {"id"}), {Primary("task_events", {"id"}),
          Foreign("task_events", "task_id", "tasks")}),
      Index("ix_task_events_task_id", "task_events", {"task_id"})>>)
AddLocksTable == RevisionWith("20260520_000002_add_locks_table",
    {"20260520_000001_add_task_locking"},
    <<Create("locks", Req("text", {"key", "acquired_at"}) \cup Opt("text", {"owner", "expires_at"}),
          {Primary("locks", {"key"})}), Drop("tasks", {"locked_at", "lock_holder"})>>,
    <<Add("tasks", Opt("text", {"locked_at", "lock_holder"})), DropTable("locks")>>)
AddRoleAndMetaToMessages == Revision("20260520_000002_add_role_and_meta_to_messages",
    {"20260520_000001_add_task_locking"},
    <<Add("messages", Opt("text", {"role", "meta"}))>>)
MergeLockingAndMessages == Merges("20260520_000003_merge_locking_and_messages",
    {"20260520_000002_add_locks_table", "20260520_000002_add_role_and_meta_to_messages"})
NullableTaskWorkerId == RevisionWith("20260520_000004_nullable_task_worker_id",
    {"20260520_000003_merge_locking_and_messages"},
    <<Need("tasks", "worker_id", "optional"), Uses("tasks", {"worker_id"})>>,
    <<Uses("tasks", {"worker_id"}), Need("tasks", "worker_id", "required")>>)
CreateLocks ==
    <<Create("locks", Dft("int", {"id"}) \cup Req("text", {"key"}) \cup Req("time", {"acquired_at"})
          \cup Opt("text", {"owner"}) \cup Opt("time", {"expires_at"}), {Primary("locks", {"id"})}),
      UniqueIndex("locks_key_unique", "locks", {"key"})>>
PartialUniqueIndexOnLocksKey == RevisionWith("20260520_000004_partial_unique_index_on_locks_key",
    {"20260520_000003_merge_locking_and_messages"},
    <<DropTable("locks")>> \o CreateLocks,
    <<DropTable("locks"),
      Create("locks", Req("text", {"key", "acquired_at"}) \cup Opt("text", {"owner", "expires_at"}),
          {Primary("locks", {"key"})})>>)
SimpleFkTables == <<"agents", "messages", "workers", "tasks", "guild_members", "foreman_turns",
                    "github_events">>
UniqueFkTables == <<"claude_credentials", "guild_keys">>
RenameGuildPkToGuildId == RevisionWith("20260520_000004_rename_guild_pk_to_guild_id",
    {"20260520_000003_merge_locking_and_messages"},
    Each(SimpleFkTables, LAMBDA t :
        <<DropFound(t, "foreign", "guild_pk"), RenameColumn(t, "guild_pk", "guild_id"),
          AddKey(Foreign(t, "guild_id", "guilds"))>>)
    \o Each(UniqueFkTables, LAMBDA t :
        <<DropFound(t, "foreign", "guild_pk"), DropFound(t, "unique", "guild_pk"),
          RenameColumn(t, "guild_pk", "guild_id"), AddKey(Unique(t, "guild_id")),
          AddKey(Foreign(t, "guild_id", "guilds"))>>),
    Each(Reverse(UniqueFkTables), LAMBDA t :
        <<DropConstraint(t, t \o "_guild_id_fkey"), DropConstraint(t, t \o "_guild_id_key"),
          RenameColumn(t, "guild_id", "guild_pk"), AddKey(Unique(t, "guild_pk")),
          AddKey(Foreign(t, "guild_pk", "guilds"))>>)
    \o Each(Reverse(SimpleFkTables), LAMBDA t :
        <<DropConstraint(t, t \o "_guild_id_fkey"), RenameColumn(t, "guild_id", "guild_pk"),
          AddKey(Foreign(t, "guild_pk", "guilds"))>>))
FixLocksTimestampTypesAndIndexPredicate == RevisionWith("20260520_000005_fix_locks_timestamp_types_and_index_predicate",
    {"20260520_000004_partial_unique_index_on_locks_key"},
    <<DropTable("locks")>> \o CreateLocks,
    <<DropTable("locks")>> \o CreateLocks)
MergeNullableWorkerAndLocksFix == Merges("20260520_000006_merge_nullable_worker_and_locks_fix",
    {"20260520_000004_nullable_task_worker_id", "20260520_000005_fix_locks_timestamp_types_and_index_predicate"})
MergeRenameWithPriorHead == Merges("20260520_000007_merge_rename_with_prior_head",
    {"20260520_000006_merge_nullable_worker_and_locks_fix", "20260520_000004_rename_guild_pk_to_guild_id"})
DateColumns == <<
    <<"guilds", "created_at">>, <<"guilds", "deleted_at">>, <<"agents", "joined_at">>,
    <<"agents", "last_seen">>, <<"messages", "created_at">>, <<"workers", "created_at">>,
    <<"workers", "last_seen">>, <<"tasks", "created_at">>, <<"tasks", "finished_at">>,
    <<"tasks", "deleted_at">>, <<"github_tokens", "created_at">>, <<"github_tokens", "updated_at">>,
    <<"user_sessions", "created_at">>, <<"users", "created_at">>, <<"users", "updated_at">>,
    <<"guild_members", "created_at">>, <<"task_logs", "timestamp">>,
    <<"claude_credentials", "updated_at">>, <<"guild_keys", "created_at">>,
    <<"foreman_turns", "created_at">>, <<"github_events", "created_at">>,
    <<"task_events", "created_at">>>>
ConvertDatetimeColumns == RevisionWith("20260526_000000_convert_datetime_columns",
    {"20260520_000007_merge_rename_with_prior_head"},
    Each(DateColumns, LAMBDA d : <<Retype(d[1], d[2], "time")>>),
    Each(Reverse(DateColumns), LAMBDA d : <<Retype(d[1], d[2], "text")>>))
CreatePushTokens == Revision("20260527_000000_create_push_tokens",
    {"20260526_000000_convert_datetime_columns"},
    <<Create("push_tokens", Req("text", {"token", "user_id"})
          \cup Req("time", {"created_at", "last_seen_at"}) \cup Dft("text", {"platform"}),
          {Primary("push_tokens", {"token"}), Foreign("push_tokens", "user_id", "users")}),
      Index("ix_push_tokens_user_id", "push_tokens", {"user_id"})>>)
CreateClaudeUsage == Revision("20260530_000000_create_claude_usage",
    {"20260527_000000_create_push_tokens"},
    <<Create("claude_usage", Req("text", {"kind"}) \cup Req("int", {"guild_id"})
          \cup Req("time", {"created_at"}) \cup Dft("int", {"id", "input_tokens", "output_tokens",
          "cache_read_input_tokens", "cache_creation_input_tokens"}) \cup Opt("text", {"task_id",
          "worker_id", "session_id", "model", "stop_reason", "repo", "reporter"})
          \cup Opt("int", {"call_index", "num_turns"}) \cup Opt("float", {"cost_usd"}),
          {Primary("claude_usage", {"id"}), Foreign("claude_usage", "guild_id", "guilds"),
          Foreign("claude_usage", "task_id", "tasks"), Foreign("claude_usage", "worker_id",
          "workers")}), Index("ix_claude_usage_guild_id", "claude_usage", {"guild_id"}),
      Index("ix_claude_usage_task_id", "claude_usage", {"task_id"})>>)
AddLevelToTaskLogs == Revision("20260530_000000_add_level_to_task_logs",
    {"20260530_000000_create_claude_usage"},
    <<Add("task_logs", Opt("text", {"level"}))>>)
CreateUserSpawnSettings == Revision("20260603_000000_create_user_spawn_settings",
    {"20260530_000000_add_level_to_task_logs"},
    <<Create("user_spawn_settings", Req("text", {"user_id"}) \cup Req("int", {"guild_id"})
          \cup Req("time", {"updated_at"}) \cup Dft("text", {"settings_json"}),
          {Primary("user_spawn_settings", {"guild_id", "user_id"}), Foreign("user_spawn_settings",
          "guild_id", "guilds"), Foreign("user_spawn_settings", "user_id", "users")})>>)
AddModelProviderToTasks == Revision("20260601_000000_add_model_provider_to_tasks",
    {"20260603_000000_create_user_spawn_settings"},
    <<Add("tasks", Opt("text", {"model", "provider"}))>>)
AddToolsToWorkers == Revision("20260603_000001_add_tools_to_workers",
    {"20260601_000000_add_model_provider_to_tasks"},
    <<Add("workers", Dft("text", {"tools"}))>>)
AddForemanConfigToGuilds == Revision("20260604_000000_add_foreman_config_to_guilds",
    {"20260603_000001_add_tools_to_workers"},
    <<Add("guilds", Opt("json", {"foreman_config"}))>>)
AddDatabaseIndexes == Revision("20260605_000000_add_database_indexes",
    {"20260604_000000_add_foreman_config_to_guilds"},
    <<Index("ix_tasks_guild_id_deleted_at_created_at", "tasks",
          {"guild_id", "deleted_at", "created_at"}), Index("ix_tasks_state", "tasks", {"state"}),
      Index("ix_tasks_worker_id", "tasks", {"worker_id"}),
      Index("ix_agents_guild_id_state", "agents", {"guild_id", "state"}),
      Index("ix_agents_worker_id", "agents", {"worker_id"}),
      Index("ix_messages_guild_id_created_at", "messages", {"guild_id", "created_at"}),
      Index("ix_task_logs_task_id", "task_logs", {"task_id"}),
      Index("ix_workers_guild_id_created_at", "workers", {"guild_id", "created_at"}),
      Index("ix_guild_members_guild_id_role", "guild_members", {"guild_id", "role"})>>)
AddApiCallsToForemanTurns == Revision("20260605_000001_add_api_calls_to_foreman_turns",
    {"20260605_000000_add_database_indexes"},
    <<Add("foreman_turns", Opt("text", {"api_calls_json"}))>>)
AddApiRequestLog == Revision("20260605_000002_add_api_request_log",
    {"20260605_000001_add_api_calls_to_foreman_turns"},
    <<Create("api_request_log", Req("text", {"model"}) \cup Req("time", {"created_at"})
          \cup Dft("int", {"id"}) \cup Opt("text", {"request_id", "stop_reason", "task_id"})
          \cup Opt("int", {"input_tokens", "output_tokens", "cache_read_tokens",
          "cache_write_tokens"}) \cup Opt("time", {"completed_at"})
          \cup Opt("json", {"system", "messages", "response", "extra"}), {Primary("api_request_log",
          {"id"}), Unique("api_request_log", "request_id"), Foreign("api_request_log", "task_id",
          "tasks")}), Index("ix_api_request_log_task_id", "api_request_log", {"task_id"}),
      Index("ix_api_request_log_created_at", "api_request_log", {"created_at"})>>)
RefactorForemanTurns == Revision("20260605_000003_refactor_foreman_turns",
    {"20260605_000002_add_api_request_log"},
    <<AddWith("foreman_turns", Opt("text", {"task_id"}) \cup Opt("int", {"request_id"}),
          {Foreign("foreman_turns", "request_id", "api_request_log"), Foreign("foreman_turns",
          "task_id", "tasks")}),
      Index("ix_foreman_turns_request_id", "foreman_turns", {"request_id"}),
      Index("ix_foreman_turns_task_id", "foreman_turns", {"task_id"})>>)
IndexTasksParentTaskId == Revision("20260606_000000_index_tasks_parent_task_id",
    {"20260605_000003_refactor_foreman_turns"},
    <<Index("ix_tasks_parent_task_id", "tasks", {"parent_task_id"})>>)
AddWorkerLifecycleColumns == Revision("20260607_000000_add_worker_lifecycle_columns",
    {"20260606_000000_index_tasks_parent_task_id"},
    <<Add("workers", Opt("text", {"container_id", "spawned_version"})
          \cup Opt("time", {"started_at", "drain_requested_at"}))>>)
RenameGuildSlug == RevisionWith("20260608_000000_rename_guild_slug",
    {"20260607_000000_add_worker_lifecycle_columns"},
    <<DropIndex("uq_guilds_guild_id_active"), RenameColumn("guilds", "guild_id", "slug"),
      PartialIndex("uq_guilds_slug_active", "guilds", {"slug"})>>,
    <<DropIndex("uq_guilds_slug_active"), RenameColumn("guilds", "slug", "guild_id"),
      PartialIndex("uq_guilds_guild_id_active", "guilds", {"guild_id"})>>)
DropTasksFinishedAt == RevisionWith("20260610_000000_drop_tasks_finished_at",
    {"20260608_000000_rename_guild_slug"},
    <<Drop("tasks", {"finished_at"})>>,
    <<Add("tasks", Opt("time", {"finished_at"}))>>)
\* Variant: the column has another type than the model's.
AddWorkerDisabledAsText == Revision("20260614_000000_add_worker_disabled_column",
    {"20260610_000000_drop_tasks_finished_at"},
    <<Add("workers", Dft("text", {"disabled"}))>>)
AddWorkerDisabledColumn == Revision("20260614_000000_add_worker_disabled_column",
    {"20260610_000000_drop_tasks_finished_at"},
    <<Add("workers", Dft("bool", {"disabled"}))>>)
RenameClaudeUsageToLlmUsage == RevisionWith("20260619_000000_rename_claude_usage_to_llm_usage",
    {"20260614_000000_add_worker_disabled_column"},
    <<RenameTable("claude_usage", "llm_usage"), DropIndex("ix_claude_usage_guild_id"),
      DropIndex("ix_claude_usage_task_id"),
      Index("ix_llm_usage_guild_id", "llm_usage", {"guild_id"}),
      Index("ix_llm_usage_task_id", "llm_usage", {"task_id"}),
      Add("llm_usage", Opt("text", {"tool"}))>>,
    <<Drop("llm_usage", {"tool"}), DropIndex("ix_llm_usage_task_id"),
      DropIndex("ix_llm_usage_guild_id"),
      Index("ix_claude_usage_task_id", "llm_usage", {"task_id"}),
      Index("ix_claude_usage_guild_id", "llm_usage", {"guild_id"}),
      RenameTable("llm_usage", "claude_usage")>>)
AddGuildInvites == Revision("20260621_000000_add_guild_invites",
    {"20260619_000000_rename_claude_usage_to_llm_usage"},
    <<Create("guild_invites", Req("text", {"invited_by"}) \cup Req("int", {"guild_id"})
          \cup Req("time", {"created_at"}) \cup Dft("text", {"role", "status"})
          \cup Dft("int", {"id"}) \cup Opt("text", {"github_login", "github_id"}),
          {Primary("guild_invites", {"id"}), Foreign("guild_invites", "guild_id", "guilds"),
          Foreign("guild_invites", "invited_by", "users")}),
      Index("ix_guild_invites_guild_id_status", "guild_invites", {"guild_id", "status"}),
      PartialIndex("uq_guild_invites_login_pending", "guild_invites", {"guild_id", "github_login"}),
      PartialIndex("uq_guild_invites_github_id_pending", "guild_invites", {"guild_id", "github_id"})>>)
AddTaskIdToMessages == Revision("20260623_000000_add_task_id_to_messages",
    {"20260621_000000_add_guild_invites"},
    <<AddWith("messages", Opt("text", {"task_id"}), {Foreign("messages", "task_id", "tasks")}),
      Index("ix_messages_task_id", "messages", {"task_id"})>>)
AddModelCatalog == Revision("20260701_000000_add_model_catalog",
    {"20260623_000000_add_task_id_to_messages"},
    <<Create("model_catalog", Req("text", {"provider", "model_id", "display_name"})
          \cup Req("time", {"fetched_at"}) \cup Opt("json", {"capabilities", "raw"}),
          {Primary("model_catalog", {"provider", "model_id"})})>>)
AddProviderToolToWorkers == Revision("20260701_000001_add_provider_tool_to_workers",
    {"20260701_000000_add_model_catalog"},
    <<Add("workers", Opt("text", {"provider", "tool"}))>>)
AddBedrockModelIdToCatalog == Revision("20260701_000002_add_bedrock_model_id_to_catalog",
    {"20260701_000001_add_provider_tool_to_workers"},
    <<Add("model_catalog", Opt("text", {"bedrock_model_id"}))>>)
AddIssueStateToTasks == Revision("20260701_000003_add_issue_state_to_tasks",
    {"20260701_000002_add_bedrock_model_id_to_catalog"},
    <<Add("tasks", Opt("text", {"issue_state", "issue_title"}))>>)
AddDiscordThreads == Revision("20260703_000000_add_discord_threads",
    {"20260701_000003_add_issue_state_to_tasks"},
    <<Create("discord_threads", Req("text", {"issue_repo", "thread_id"})
          \cup Req("int", {"issue_number"}) \cup Req("time", {"created_at"})
          \cup Dft("int", {"id"}), {Primary("discord_threads", {"id"})}),
      UniqueIndex("uq_discord_threads_repo_number", "discord_threads",
          {"issue_repo", "issue_number"})>>)
AddModelTierToTasks == Revision("20260703_000000_add_model_tier_to_tasks",
    {"20260701_000003_add_issue_state_to_tasks"},
    <<Add("tasks", Opt("text", {"model_tier"}))>>)
MergeDiscordThreadsAndModelTier == Merges("20260704_000000_merge_discord_threads_and_model_tier",
    {"20260703_000000_add_discord_threads", "20260703_000000_add_model_tier_to_tasks"})
AddDiscordUsers == Revision("20260704_000001_add_discord_users",
    {"20260704_000000_merge_discord_threads_and_model_tier"},
    <<Create("discord_users", Req("text", {"github_login", "discord_user_id"})
          \cup Req("time", {"created_at", "updated_at"}),
          {Primary("discord_users", {"github_login"})})>>)
AddDiscordForemanThreads == Revision("20260704_000002_add_discord_foreman_threads",
    {"20260704_000001_add_discord_users"},
    <<Create("discord_foreman_threads", Req("text", {"guild_id", "session_key", "thread_id"})
          \cup Req("time", {"created_at"}) \cup Dft("int", {"id"}),
          {Primary("discord_foreman_threads", {"id"})}),
      UniqueIndex("uq_discord_foreman_threads_guild_session", "discord_foreman_threads",
          {"guild_id", "session_key"})>>)
AddDiscordChannelGuilds == Revision("20260704_000003_add_discord_channel_guilds",
    {"20260704_000002_add_discord_foreman_threads"},
    <<Create("discord_channel_guilds",
          Req("text", {"discord_guild_id", "discord_channel_id", "ps_guild_id"})
          \cup Req("time", {"created_at"}) \cup Dft("int", {"id"}),
          {Primary("discord_channel_guilds", {"id"})}),
      UniqueIndex("uq_discord_channel_guilds_guild_channel", "discord_channel_guilds",
          {"discord_guild_id", "discord_channel_id"})>>)
AddDiscordAccountLinks == Revision("20260704_000004_add_discord_account_links",
    {"20260704_000003_add_discord_channel_guilds"},
    <<Create("discord_connect_tokens", Req("text", {"token", "discord_user_id", "discord_username"})
          \cup Req("time", {"expires_at", "created_at"}) \cup Opt("time", {"used_at"}),
          {Primary("discord_connect_tokens", {"token"})}),
      Create("discord_account_links",
          Req("text", {"ps_user_id", "discord_user_id", "discord_username"})
          \cup Req("time", {"created_at"}) \cup Dft("int", {"id"}),
          {Primary("discord_account_links", {"id"}), Foreign("discord_account_links", "ps_user_id",
          "users"), UniqueNamed("uq_discord_account_links_discord_user_id", "discord_account_links",
          {"discord_user_id"})})>>)
AddSourceToMessages == Revision("20260705_000000_add_source_to_messages",
    {"20260704_000004_add_discord_account_links"},
    <<Add("messages", Dft("text", {"source"}))>>)
AddDiscordTaskThreads == Revision("20260705_000001_add_discord_task_threads",
    {"20260705_000000_add_source_to_messages"},
    <<Create("discord_task_threads", Req("text", {"task_id", "thread_id"})
          \cup Req("time", {"created_at"}) \cup Dft("int", {"id"}),
          {Primary("discord_task_threads", {"id"})}),
      UniqueIndex("uq_discord_task_threads_task_id", "discord_task_threads", {"task_id"})>>)
SingleColumnTables == <<<<"github_tokens", "github_user_id">>, <<"user_sessions", "token">>,
    <<"push_tokens", "token">>, <<"discord_users", "github_login">>, <<"discord_connect_tokens", "token">>>>
CompositeTables ==
    <<<<"guild_members", {"guild_id", "user_id"}, "uq_guild_members_guild_id_user_id">>,
      <<"user_spawn_settings", {"guild_id", "user_id"}, "uq_user_spawn_settings_guild_id_user_id">>,
      <<"model_catalog", {"provider", "model_id"}, "uq_model_catalog_provider_model_id">>>>
SessionToken == ForeignTo("user_sessions", "github_user_id", "github_tokens", "github_user_id")
AddIdPkEverywhere == RevisionWith("20260706_000000_add_id_pk_everywhere",
    {"20260705_000001_add_discord_task_threads"},
    <<DropConstraint("user_sessions", "user_sessions_github_user_id_fkey")>>
    \o Each(SingleColumnTables, LAMBDA d :
        <<Add(d[1], Dft("int", {"id"})), DropPrimary(d[1]), AddKey(Primary(d[1], {"id"})),
          AddKey(Unique(d[1], d[2]))>>)
    \o <<AddKey(SessionToken)>>
    \o Each(CompositeTables, LAMBDA d :
        <<Add(d[1], Dft("int", {"id"})), DropPrimary(d[1]), AddKey(Primary(d[1], {"id"})),
          UniqueIndex(d[3], d[1], d[2])>>),
    Each(Reverse(CompositeTables), LAMBDA d :
        <<DropIndex(d[3]), DropConstraint(d[1], d[1] \o "_pkey"), AddKey(Primary(d[1], d[2])),
          Drop(d[1], {"id"})>>)
    \o <<DropConstraint("user_sessions", "user_sessions_github_user_id_fkey")>>
    \o Each(Reverse(SingleColumnTables), LAMBDA d :
        <<DropConstraint(d[1], d[1] \o "_" \o d[2] \o "_key"), DropConstraint(d[1], d[1] \o "_pkey"),
          AddKey(Primary(d[1], {d[2]})), Drop(d[1], {"id"})>>)
    \o <<AddKey(SessionToken)>>)
AddIssuePhaseAndIndex == Revision("20260708_000000_add_issue_phase_and_index",
    {"20260706_000000_add_id_pk_everywhere"},
    <<Index("ix_tasks_issue_repo_issue_number", "tasks", {"issue_repo", "issue_number"})>>)
AddDiscordThreadIdToTasks == Revision("20260708_000001_add_discord_thread_id_to_tasks",
    {"20260708_000000_add_issue_phase_and_index"},
    <<Add("tasks", Opt("text", {"discord_thread_id"}))>>)
AddGithubIssuesAndPullRequests == Revision("20260709_000000_add_github_issues_and_pull_requests",
    {"20260708_000001_add_discord_thread_id_to_tasks"},
    <<Create("github_issues", Req("text", {"repo", "title", "state"}) \cup Req("int", {"number"})
          \cup Req("time", {"created_at", "updated_at"})
          \cup Req("json", {"assignees", "labels", "raw"}) \cup Dft("int", {"id"})
          \cup Opt("text", {"body", "milestone", "author"}) \cup Opt("time", {"closed_at"}),
          {Primary("github_issues", {"id"})}),
      UniqueIndex("uq_github_issues_repo_number", "github_issues", {"repo", "number"}),
      Create("github_pull_requests", Req("text", {"repo", "title", "state"})
          \cup Req("int", {"number"}) \cup Req("time", {"created_at", "updated_at"})
          \cup Req("json", {"assignees", "labels", "raw"}) \cup Dft("int", {"id"})
          \cup Dft("bool", {"merged", "draft"})
          \cup Opt("text", {"body", "head_sha", "head_ref", "base_ref", "author"})
          \cup Opt("time", {"closed_at", "merged_at"}), {Primary("github_pull_requests", {"id"})}),
      UniqueIndex("uq_github_pull_requests_repo_number", "github_pull_requests", {"repo", "number"})>>)
FoldIssueRootThreadsIntoDiscordThreads == RevisionWith("20260709_000001_fold_issue_root_threads_into_discord_threads",
    {"20260709_000000_add_github_issues_and_pull_requests"},
    <<Uses("tasks", {"issue_repo", "issue_number", "discord_thread_id"}),
      Upserts("discord_threads", {"issue_repo", "issue_number", "thread_id", "created_at"},
          {"issue_repo", "issue_number"}), Drop("tasks", {"discord_thread_id"})>>,
    <<Add("tasks", Opt("text", {"discord_thread_id"}))>>)
BindThreads == Upserts("discord_thread_bindings", {"subject_type", "subject_key", "thread_id", "created_at"},
                       {"subject_type", "subject_key"})
\* Variant: the index the upserts rest on is not unique.
UnifiesWithoutUnique == RevisionWith("20260711_000001_unify_discord_thread_bindings",
    {"20260709_000001_fold_issue_root_threads_into_discord_threads"},
    <<Create("discord_thread_bindings", Req("text", {"subject_type", "subject_key", "thread_id"})
          \cup Req("time", {"created_at"}) \cup Dft("int", {"id"}),
          {Primary("discord_thread_bindings", {"id"})}),
      Index("uq_discord_thread_bindings_subject", "discord_thread_bindings",
          {"subject_type", "subject_key"}),
      UniqueIndex("uq_discord_thread_bindings_thread_id", "discord_thread_bindings", {"thread_id"}),
      Uses("discord_threads", {"issue_repo", "issue_number", "thread_id", "created_at"}),
      BindThreads, Uses("discord_task_threads", {"task_id", "thread_id", "created_at"}),
      BindThreads,
      Uses("discord_foreman_threads", {"guild_id", "session_key", "thread_id", "created_at"}),
      BindThreads, DropTable("discord_threads"), DropTable("discord_task_threads"),
      DropTable("discord_foreman_threads")>>,
    <<Create("discord_threads", Req("text", {"issue_repo", "thread_id"})
          \cup Req("int", {"issue_number"}) \cup Req("time", {"created_at"})
          \cup Dft("int", {"id"}), {Primary("discord_threads", {"id"})}),
      UniqueIndex("uq_discord_threads_repo_number", "discord_threads",
          {"issue_repo", "issue_number"}),
      Create("discord_task_threads", Req("text", {"task_id", "thread_id"})
          \cup Req("time", {"created_at"}) \cup Dft("int", {"id"}),
          {Primary("discord_task_threads", {"id"})}),
      UniqueIndex("uq_discord_task_threads_task_id", "discord_task_threads", {"task_id"}),
      Create("discord_foreman_threads", Req("text", {"guild_id", "session_key", "thread_id"})
          \cup Req("time", {"created_at"}) \cup Dft("int", {"id"}),
          {Primary("discord_foreman_threads", {"id"})}),
      UniqueIndex("uq_discord_foreman_threads_guild_session", "discord_foreman_threads",
          {"guild_id", "session_key"}),
      Uses("discord_thread_bindings", {"subject_type", "subject_key", "thread_id", "created_at"}),
      Upserts("discord_threads", {"issue_repo", "issue_number", "thread_id", "created_at"},
          {"issue_repo", "issue_number"}),
      Upserts("discord_task_threads", {"task_id", "thread_id", "created_at"}, {"task_id"}),
      Upserts("discord_foreman_threads", {"guild_id", "session_key", "thread_id", "created_at"},
          {"guild_id", "session_key"}), DropIndex("uq_discord_thread_bindings_thread_id"),
      DropIndex("uq_discord_thread_bindings_subject"), DropTable("discord_thread_bindings")>>)
UnifyDiscordThreadBindings == RevisionWith("20260711_000001_unify_discord_thread_bindings",
    {"20260709_000001_fold_issue_root_threads_into_discord_threads"},
    <<Create("discord_thread_bindings", Req("text", {"subject_type", "subject_key", "thread_id"})
          \cup Req("time", {"created_at"}) \cup Dft("int", {"id"}),
          {Primary("discord_thread_bindings", {"id"})}),
      UniqueIndex("uq_discord_thread_bindings_subject", "discord_thread_bindings",
          {"subject_type", "subject_key"}),
      UniqueIndex("uq_discord_thread_bindings_thread_id", "discord_thread_bindings", {"thread_id"}),
      Uses("discord_threads", {"issue_repo", "issue_number", "thread_id", "created_at"}),
      BindThreads, Uses("discord_task_threads", {"task_id", "thread_id", "created_at"}),
      BindThreads,
      Uses("discord_foreman_threads", {"guild_id", "session_key", "thread_id", "created_at"}),
      BindThreads, DropTable("discord_threads"), DropTable("discord_task_threads"),
      DropTable("discord_foreman_threads")>>,
    <<Create("discord_threads", Req("text", {"issue_repo", "thread_id"})
          \cup Req("int", {"issue_number"}) \cup Req("time", {"created_at"})
          \cup Dft("int", {"id"}), {Primary("discord_threads", {"id"})}),
      UniqueIndex("uq_discord_threads_repo_number", "discord_threads",
          {"issue_repo", "issue_number"}),
      Create("discord_task_threads", Req("text", {"task_id", "thread_id"})
          \cup Req("time", {"created_at"}) \cup Dft("int", {"id"}),
          {Primary("discord_task_threads", {"id"})}),
      UniqueIndex("uq_discord_task_threads_task_id", "discord_task_threads", {"task_id"}),
      Create("discord_foreman_threads", Req("text", {"guild_id", "session_key", "thread_id"})
          \cup Req("time", {"created_at"}) \cup Dft("int", {"id"}),
          {Primary("discord_foreman_threads", {"id"})}),
      UniqueIndex("uq_discord_foreman_threads_guild_session", "discord_foreman_threads",
          {"guild_id", "session_key"}),
      Uses("discord_thread_bindings", {"subject_type", "subject_key", "thread_id", "created_at"}),
      Upserts("discord_threads", {"issue_repo", "issue_number", "thread_id", "created_at"},
          {"issue_repo", "issue_number"}),
      Upserts("discord_task_threads", {"task_id", "thread_id", "created_at"}, {"task_id"}),
      Upserts("discord_foreman_threads", {"guild_id", "session_key", "thread_id", "created_at"},
          {"guild_id", "session_key"}), DropIndex("uq_discord_thread_bindings_thread_id"),
      DropIndex("uq_discord_thread_bindings_subject"), DropTable("discord_thread_bindings")>>)
AddClaudeSessionIdToTasks == Revision("20260712_000000_add_claude_session_id_to_tasks",
    {"20260711_000001_unify_discord_thread_bindings"},
    <<Add("tasks", Opt("text", {"claude_session_id"}))>>)
AddTaskLogsWorkerAgentIndexes == Revision("20260714_000000_add_task_logs_worker_agent_indexes",
    {"20260712_000000_add_claude_session_id_to_tasks"},
    <<Index("ix_task_logs_worker_id", "task_logs", {"worker_id"}),
      Index("ix_task_logs_agent_id", "task_logs", {"agent_id"}),
      Index("ix_foreman_turns_guild_id_user_id_id", "foreman_turns", {"guild_id", "user_id", "id"})>>)
AddBotFieldsToUsers == Revision("20260715_000000_add_bot_fields_to_users",
    {"20260714_000000_add_task_logs_worker_agent_indexes"},
    <<Add("users", Dft("bool", {"is_bot"}) \cup Opt("text", {"parent_user_id"})),
      AddKey(ForeignNamed("fk_users_parent_user_id_users", "users", "parent_user_id", "users")),
      Index("ix_users_parent_user_id", "users", {"parent_user_id"})>>)
DropDiscordUsersRenameConnectTokens == RevisionWith("20260720_000000_drop_discord_users",
    {"20260715_000000_add_bot_fields_to_users"},
    <<Uses("discord_users", {"discord_user_id", "created_at", "github_login"}),
      Uses("users", {"id", "github_login"}),
      Upserts("discord_account_links",
          {"ps_user_id", "discord_user_id", "discord_username", "created_at"}, {"discord_user_id"}),
      DropTable("discord_users"), RenameTable("discord_connect_tokens", "discord_pending_connects"),
      RenameKey("discord_pending_connects", "discord_connect_tokens_pkey",
          "discord_pending_connects_pkey"),
      RenameKey("discord_pending_connects", "discord_connect_tokens_token_key",
          "discord_pending_connects_token_key")>>,
    <<RenameKey("discord_pending_connects", "discord_pending_connects_token_key",
          "discord_connect_tokens_token_key"),
      RenameKey("discord_pending_connects", "discord_pending_connects_pkey",
          "discord_connect_tokens_pkey"),
      RenameTable("discord_pending_connects", "discord_connect_tokens"),
      Create("discord_users", Req("text", {"github_login", "discord_user_id"})
          \cup Req("time", {"created_at", "updated_at"}) \cup Dft("int", {"id"}),
          {Primary("discord_users", {"id"}), Unique("discord_users", "github_login")})>>)
AddExternalA2aRequests == Revision("20260717_000000_add_external_a2a_requests",
    {"20260720_000000_drop_discord_users"},
    <<Create("external_a2a_requests", Req("text", {"replay_key", "external_message_id",
          "sender_fqdn", "governance_id", "dnssec_state", "dnsid_status", "skill"})
          \cup Req("int", {"guild_id"}) \cup Req("time", {"verified_at"})
          \cup Dft("text", {"state"}) \cup Dft("int", {"id"}) \cup Opt("text", {"task_id"})
          \cup Opt("int", {"message_id"}), {Primary("external_a2a_requests", {"id"}),
          Foreign("external_a2a_requests", "guild_id", "guilds"), Foreign("external_a2a_requests",
          "message_id", "messages"), Foreign("external_a2a_requests", "task_id", "tasks"),
          UniqueNamed("uq_external_a2a_sender_message", "external_a2a_requests", {"guild_id",
          "sender_fqdn", "external_message_id"})}),
      Index("ix_external_a2a_requests_guild_id", "external_a2a_requests", {"guild_id"}),
      Index("ix_external_a2a_requests_sender_fqdn", "external_a2a_requests", {"sender_fqdn"}),
      UniqueIndex("ix_external_a2a_requests_replay_key", "external_a2a_requests", {"replay_key"}),
      Index("ix_external_a2a_requests_task_id", "external_a2a_requests", {"task_id"})>>)
AddDiscordBotFieldsToUsers == Revision("20260722_000000_add_discord_bot_fields_to_users",
    {"20260717_000000_add_external_a2a_requests"},
    <<Add("users", Opt("text", {"bot_provider", "discord_channel_id"})
          \cup Opt("json", {"bot_metadata"}))>>)
AddGuildSpawnDefaults == Revision("20260723_000000_add_guild_spawn_defaults",
    {"20260722_000000_add_discord_bot_fields_to_users"},
    <<Create("guild_spawn_defaults", Req("int", {"guild_id"}) \cup Req("time", {"updated_at"})
          \cup Dft("text", {"repos", "tools"}) \cup Dft("int", {"id"})
          \cup Opt("int", {"agent_count"}), {Primary("guild_spawn_defaults", {"id"}),
          Foreign("guild_spawn_defaults", "guild_id", "guilds")}),
      UniqueIndex("uq_guild_spawn_defaults_guild_id", "guild_spawn_defaults", {"guild_id"}),
      Uses("workers", {"guild_id", "repos", "tools", "container_id", "created_at"}),
      Fills("guild_spawn_defaults", {"guild_id", "repos", "tools", "agent_count", "updated_at"})>>)
AddGuildGithubAppInstallation == Revision("20260725_000000_add_guild_github_app_installation",
    {"20260723_000000_add_guild_spawn_defaults"},
    <<Add("guilds", Opt("text", {"github_app_installation_id"}))>>)
AddLastRefreshedAtToGithubCache == Revision("20260728_000000_add_last_refreshed_at_to_github_cache",
    {"20260725_000000_add_guild_github_app_installation"},
    <<Add("github_issues", Dft("time", {"last_refreshed_at"})),
      Add("github_pull_requests", Dft("time", {"last_refreshed_at"}))>>)
AddGuildUserToApiRequestLog == Revision("20260728_000001_add_guild_user_to_api_request_log",
    {"20260728_000000_add_last_refreshed_at_to_github_cache"},
    <<Add("api_request_log", Opt("text", {"user_id"}) \cup Opt("int", {"guild_id"})),
      AddKey(ForeignNamed("fk_api_request_log_guild_id", "api_request_log", "guild_id", "guilds")),
      Index("ix_api_request_log_guild_id", "api_request_log", {"guild_id"})>>)
SpawnFields == {"guild_id", "user_id", "repos", "tools", "agent_count", "env_vars", "tool_env_vars",
                "provider", "model", "updated_at"}
AddSpawnSettings == Revision("20260728_000002_add_spawn_settings",
    {"20260728_000001_add_guild_user_to_api_request_log"},
    <<Create("spawn_settings", Req("int", {"guild_id"}) \cup Req("time", {"updated_at"})
          \cup Dft("text", {"repos", "tools"}) \cup Dft("int", {"id"})
          \cup Dft("json", {"env_vars", "tool_env_vars"})
          \cup Opt("text", {"user_id", "provider", "model"}) \cup Opt("int", {"agent_count"}),
          {Primary("spawn_settings", {"id"}), Foreign("spawn_settings", "guild_id", "guilds"),
          Foreign("spawn_settings", "user_id", "users")}),
      PartialIndex("uq_spawn_settings_guild_baseline", "spawn_settings", {"guild_id"}),
      PartialIndex("uq_spawn_settings_guild_user", "spawn_settings", {"guild_id", "user_id"}),
      Uses("guild_spawn_defaults", {"guild_id", "repos", "tools", "agent_count"}),
      Uses("guilds", {"id", "foreman_config"}),
      Uses("user_spawn_settings", {"guild_id", "user_id", "settings_json"}),
      Fills("spawn_settings", SpawnFields)>>)
AddTriggerToApiRequestLog == Revision("20260729_000000_add_trigger_to_api_request_log",
    {"20260728_000002_add_spawn_settings"},
    <<Add("api_request_log", Opt("text", {"trigger"})),
      Index("ix_api_request_log_trigger", "api_request_log", {"trigger"})>>)
DropForemanTurnsUsageColumns == RevisionWith("20260729_000001_drop_foreman_turns_usage_columns",
    {"20260729_000000_add_trigger_to_api_request_log"},
    <<Drop("foreman_turns", {"api_calls_json", "output_tokens", "input_tokens"})>>,
    <<Add("foreman_turns", Opt("text", {"api_calls_json"})
          \cup Opt("int", {"input_tokens", "output_tokens"}))>>)
AddExcludedEnvKeysToWorkers == Revision("20260801_000000_add_excluded_env_keys_to_workers",
    {"20260729_000001_drop_foreman_turns_usage_columns"},
    <<Add("workers", Opt("json", {"excluded_env_keys"}))>>)
AddHostnameToWorkers == Revision("20260801_000000_add_hostname_to_workers",
    {"20260801_000000_add_excluded_env_keys_to_workers"},
    <<Add("workers", Opt("text", {"hostname"}))>>)
AddSpawnProfiles == Revision("20260803_000000_add_spawn_profiles",
    {"20260801_000000_add_hostname_to_workers"},
    <<Create("spawn_profiles", Req("text", {"id", "name"}) \cup Req("int", {"guild_id"})
          \cup Req("time", {"created_at", "updated_at"}) \cup Dft("text", {"tool"}) \cup Opt("text",
          {"user_id", "description", "provider", "credentials_source", "default_repos"})
          \cup Opt("int", {"default_agent_count"}), {Primary("spawn_profiles", {"id"}),
          Foreign("spawn_profiles", "guild_id", "guilds"), Foreign("spawn_profiles", "user_id",
          "users")}),
      PartialIndex("uq_spawn_profiles_guild_name", "spawn_profiles", {"guild_id", "name"}),
      PartialIndex("uq_spawn_profiles_guild_user_name", "spawn_profiles",
          {"guild_id", "user_id", "name"})>>)
DefaultToolPi == RevisionWith("20260811_000000_default_tool_pi",
    {"20260803_000000_add_spawn_profiles"},
    <<Uses("tasks", {"tool"}), Uses("llm_usage", {"tool"}), Uses("spawn_profiles", {"tool"})>>,
    <<Uses("tasks", {"tool"}), Uses("llm_usage", {"tool"}), Uses("spawn_profiles", {"tool"})>>)
DropSpawnProfiles == RevisionWith("20260812_000000_drop_spawn_profiles",
    {"20260811_000000_default_tool_pi"},
    <<DropIndex("uq_spawn_profiles_guild_user_name"), DropIndex("uq_spawn_profiles_guild_name"),
      DropTable("spawn_profiles")>>,
    <<Create("spawn_profiles", Req("text", {"id", "name"}) \cup Req("int", {"guild_id"})
          \cup Req("time", {"created_at", "updated_at"}) \cup Dft("text", {"tool"}) \cup Opt("text",
          {"user_id", "description", "provider", "credentials_source", "default_repos"})
          \cup Opt("int", {"default_agent_count"}), {Primary("spawn_profiles", {"id"}),
          Foreign("spawn_profiles", "guild_id", "guilds"), Foreign("spawn_profiles", "user_id",
          "users")}),
      PartialIndex("uq_spawn_profiles_guild_name", "spawn_profiles", {"guild_id", "name"}),
      PartialIndex("uq_spawn_profiles_guild_user_name", "spawn_profiles",
          {"guild_id", "user_id", "name"})>>)
RepairApiRequestLogGuildUser == RevisionWith("20260812_000001_repair_api_request_log_guild_user",
    {"20260812_000000_drop_spawn_profiles"},
    <<EnsureColumns("api_request_log", Opt("int", {"guild_id"}) \cup Opt("text", {"user_id"})),
      EnsureKey(KeyOf("index", "ix_api_request_log_guild_id", "api_request_log", {"guild_id"},
          Nowhere)),
      EnsureKey(ForeignNamed("fk_api_request_log_guild_id", "api_request_log", "guild_id",
          "guilds"))>>,
    <<>>)
AddTaskType == RevisionWith("20260812_000002",
    {"20260812_000001_repair_api_request_log_guild_user"},
    <<EnsureColumns("tasks", Dft("text", {"task_type"}))>>,
    <<DropIfThere("tasks", {"task_type"})>>)
AddSoftDeleteGuildMembersDiscord == RevisionWith("20260813_000000_add_soft_delete_guild_members_discord",
    {"20260812_000002"},
    <<Add("guild_members", Opt("time", {"deleted_at"})), DropIndex("uq_guild_members_guild_id_user_id"),
      PartialIndex("uq_guild_members_guild_id_user_id_active", "guild_members",
          {"guild_id", "user_id"}), Add("discord_channel_guilds", Opt("time", {"deleted_at"})),
      DropIndex("uq_discord_channel_guilds_guild_channel"),
      PartialIndex("uq_discord_channel_guilds_guild_channel_active", "discord_channel_guilds",
          {"discord_guild_id", "discord_channel_id"}),
      Add("discord_account_links", Opt("time", {"deleted_at"})),
      DropConstraint("discord_account_links", "uq_discord_account_links_discord_user_id"),
      PartialIndex("uq_discord_account_links_discord_user_id_active", "discord_account_links",
          {"discord_user_id"})>>,
    <<DropIndex("uq_discord_account_links_discord_user_id_active"),
      UniqueKey("uq_discord_account_links_discord_user_id", "discord_account_links",
          {"discord_user_id"}), Drop("discord_account_links", {"deleted_at"}),
      DropIndex("uq_discord_channel_guilds_guild_channel_active"),
      UniqueIndex("uq_discord_channel_guilds_guild_channel", "discord_channel_guilds",
          {"discord_guild_id", "discord_channel_id"}),
      Drop("discord_channel_guilds", {"deleted_at"}),
      DropIndex("uq_guild_members_guild_id_user_id_active"),
      UniqueIndex("uq_guild_members_guild_id_user_id", "guild_members", {"guild_id", "user_id"}),
      Drop("guild_members", {"deleted_at"})>>)
AddThreadsAndConversations == Revision("20260813_000001_add_threads_and_conversations",
    {"20260813_000000_add_soft_delete_guild_members_discord"},
    <<Create("conversations", Req("int", {"guild_id"})
          \cup Req("time", {"created_at", "updated_at"}) \cup Dft("int", {"id"})
          \cup Opt("text", {"user_id"}), {Primary("conversations", {"id"}),
          Foreign("conversations", "guild_id", "guilds")}),
      Index("ix_conversations_guild_id_user_id", "conversations", {"guild_id", "user_id"}),
      Create("threads", Req("text", {"id"}) \cup Req("int", {"conversation_id"})
          \cup Req("time", {"created_at", "updated_at"}) \cup Dft("text", {"status"})
          \cup Opt("text", {"discord_thread_id", "name"}) \cup Opt("time", {"deleted_at"}),
          {Primary("threads", {"id"}), Foreign("threads", "conversation_id", "conversations")}),
      Index("ix_threads_conversation_id", "threads", {"conversation_id"}),
      Index("ix_threads_status", "threads", {"status"}),
      PartialIndex("uq_threads_discord_thread_id_active", "threads", {"discord_thread_id"}),
      Add("tasks", Opt("text", {"thread_id"})), Index("ix_tasks_thread_id", "tasks", {"thread_id"}),
      AddKey(ForeignNamed("fk_tasks_thread_id_threads", "tasks", "thread_id", "threads"))>>)
AddAvailableModelsToWorkers == Revision("20260814_000000_add_available_models_to_workers",
    {"20260813_000001_add_threads_and_conversations"},
    <<Add("workers", Opt("json", {"available_models"}))>>)
AddThreadIdToMessages == Revision("20260815_000000_add_thread_id_to_messages",
    {"20260814_000000_add_available_models_to_workers"},
    <<AddWith("messages", Opt("text", {"thread_id"}), {Foreign("messages", "thread_id", "threads")}),
      Index("ix_messages_thread_id", "messages", {"thread_id"})>>)
AddSpawnToolDefaults == Revision("20260821_000000", {"20260815_000000_add_thread_id_to_messages"},
    <<Add("spawn_settings", Dft("json", {"tool_defaults"}))>>)
FinishSpawnSettingsMigration == RevisionWith("20260831_000000", {"20260821_000000"},
    <<Uses("spawn_settings", SpawnFields \cup {"id", "tool_defaults"}),
      Uses("guilds", {"id", "foreman_config"}),
      Fills("spawn_settings", SpawnFields \cup {"tool_defaults"})>>,
    <<>>)
AddConversationIdColumns == Revision("20260904_000000_add_conversation_id_columns",
    {"20260831_000000"},
    <<AddWith("messages", Opt("int", {"conversation_id"}),
          {Foreign("messages", "conversation_id", "conversations")}),
      Index("ix_messages_conversation_id", "messages", {"conversation_id"}),
      AddWith("tasks", Opt("int", {"conversation_id"}),
          {Foreign("tasks", "conversation_id", "conversations")}),
      Index("ix_tasks_conversation_id", "tasks", {"conversation_id"}),
      AddWith("foreman_turns", Opt("int", {"conversation_id"}),
          {Foreign("foreman_turns", "conversation_id", "conversations")}),
      Index("ix_foreman_turns_conversation_id", "foreman_turns", {"conversation_id"}),
      AddWith("github_events", Opt("int", {"conversation_id"}),
          {Foreign("github_events", "conversation_id", "conversations")}),
      Index("ix_github_events_conversation_id", "github_events", {"conversation_id"}),
      Uses("threads", {"id", "conversation_id"}),
      Uses("messages", {"thread_id", "conversation_id"}),
      Uses("tasks", {"id", "thread_id", "conversation_id"}),
      Uses("conversations", {"id", "guild_id", "user_id"}),
      Uses("foreman_turns", {"guild_id", "user_id", "conversation_id"}),
      Uses("github_events", {"task_id", "conversation_id"})>>)
AddForemanTurnsConversationIdIndex == Revision("20260904_000001_add_foreman_turns_conversation_id_index",
    {"20260904_000000_add_conversation_id_columns"},
    <<Index("ix_foreman_turns_conversation_id_id", "foreman_turns", {"conversation_id", "id"})>>)
AddConversationIdToGithubCache == Revision("20260904_010000_add_conversation_id_to_github_cache",
    {"20260904_000000_add_conversation_id_columns"},
    <<AddWith("github_issues", Opt("int", {"conversation_id"}),
          {Foreign("github_issues", "conversation_id", "conversations")}),
      Index("ix_github_issues_conversation_id", "github_issues", {"conversation_id"}),
      AddWith("github_pull_requests", Opt("int", {"conversation_id"}),
          {Foreign("github_pull_requests", "conversation_id", "conversations")}),
      Index("ix_github_pull_requests_conversation_id", "github_pull_requests", {"conversation_id"}),
      Uses("tasks", {"issue_repo", "issue_number", "pr_repo", "pr_number", "conversation_id"}),
      Uses("github_issues", {"repo", "number", "conversation_id"}),
      Uses("github_pull_requests", {"repo", "number", "conversation_id"})>>)
AddUiLifecycleFieldsToConversations == Revision("20260904_020000_add_ui_lifecycle_fields_to_conversations",
    {"20260904_000001_add_foreman_turns_conversation_id_index", "20260904_010000_add_conversation_id_to_github_cache"},
    <<Add("conversations", Dft("text", {"status"}) \cup Opt("text", {"name", "discord_thread_id"})),
      Index("ix_conversations_status", "conversations", {"status"}),
      PartialIndex("uq_conversations_discord_thread_id_active", "conversations",
          {"discord_thread_id"}),
      Uses("threads", {"conversation_id", "name", "status", "discord_thread_id", "deleted_at",
          "updated_at"}), Uses("conversations", {"id", "name", "status", "discord_thread_id"})>>)
DropMessagesThreadId == RevisionWith("20260907_000000_drop_messages_thread_id",
    {"20260904_020000_add_ui_lifecycle_fields_to_conversations"},
    <<DropIndex("ix_messages_thread_id"), Drop("messages", {"thread_id"})>>,
    <<AddWith("messages", Opt("text", {"thread_id"}), {Foreign("messages", "thread_id", "threads")}),
      Index("ix_messages_thread_id", "messages", {"thread_id"})>>)
IndexGithubEventPrContext == Alone(Revision("20261026_000000",
    {"20260907_000000_drop_messages_thread_id"},
    <<Index("ix_github_events_guild_repo_pr_id", "github_events",
          {"guild_id", "repo", "pr_number", "id"})>>))
IndexConversationMessageHistory == Alone(RevisionWith("20261028_000000", {"20261026_000000"},
    <<Index("ix_messages_conversation_id_created_at_id", "messages",
          {"conversation_id", "created_at", "id"}), DropIndex("ix_messages_conversation_id")>>,
    <<Index("ix_messages_conversation_id", "messages", {"conversation_id"}),
      DropIndex("ix_messages_conversation_id_created_at_id")>>))

\* Every revision, each after those it follows.
AllRevisions == <<
    InitialSchema, MakeTaskIdNullable, AddLogIdAndDataToTaskLogs, BackfillNullTaskDescriptions,
    AddClaudeCredentials, AddForemanTurns, AddUserIdToMessages, MergeHeads, AddPrimaryRepoToGuilds,
    AddActivityToAgents, AddLastSeenToWorkersAndAgents, AddUsersAndGuildMembers,
    AddDeletedAtToTasks, AddAuthTokenToWorkers, AddUserIdToTasks, AddGithubWebhooks, AddGuildKeys,
    AddCustomJwksToGuildKeys, AddOrgToWorkers, AddA2aFieldsToGuilds, GuildsIntegerPkSoftDelete,
    FkChildTablesReferenceGuildsIntPk, DropGuildIdChildTables, AddNameToWorkers,
    AddTokensToForemanTurns, AddCurrentTaskIdToAgents, AddIndexWorkerLastSeen, AddTaskLocking,
    AddLocksTable, AddRoleAndMetaToMessages, MergeLockingAndMessages, NullableTaskWorkerId,
    PartialUniqueIndexOnLocksKey, RenameGuildPkToGuildId, FixLocksTimestampTypesAndIndexPredicate,
    MergeNullableWorkerAndLocksFix, MergeRenameWithPriorHead, ConvertDatetimeColumns,
    CreatePushTokens, CreateClaudeUsage, AddLevelToTaskLogs, CreateUserSpawnSettings,
    AddModelProviderToTasks, AddToolsToWorkers, AddForemanConfigToGuilds, AddDatabaseIndexes,
    AddApiCallsToForemanTurns, AddApiRequestLog, RefactorForemanTurns, IndexTasksParentTaskId,
    AddWorkerLifecycleColumns, RenameGuildSlug, DropTasksFinishedAt, AddWorkerDisabledColumn,
    RenameClaudeUsageToLlmUsage, AddGuildInvites, AddTaskIdToMessages, AddModelCatalog,
    AddProviderToolToWorkers, AddBedrockModelIdToCatalog, AddIssueStateToTasks, AddDiscordThreads,
    AddModelTierToTasks, MergeDiscordThreadsAndModelTier, AddDiscordUsers, AddDiscordForemanThreads,
    AddDiscordChannelGuilds, AddDiscordAccountLinks, AddSourceToMessages, AddDiscordTaskThreads,
    AddIdPkEverywhere, AddIssuePhaseAndIndex, AddDiscordThreadIdToTasks,
    AddGithubIssuesAndPullRequests, FoldIssueRootThreadsIntoDiscordThreads,
    UnifyDiscordThreadBindings, AddClaudeSessionIdToTasks, AddTaskLogsWorkerAgentIndexes,
    AddBotFieldsToUsers, DropDiscordUsersRenameConnectTokens, AddExternalA2aRequests,
    AddDiscordBotFieldsToUsers, AddGuildSpawnDefaults, AddGuildGithubAppInstallation,
    AddLastRefreshedAtToGithubCache, AddGuildUserToApiRequestLog, AddSpawnSettings,
    AddTriggerToApiRequestLog, DropForemanTurnsUsageColumns, AddExcludedEnvKeysToWorkers,
    AddHostnameToWorkers, AddSpawnProfiles, DefaultToolPi, DropSpawnProfiles,
    RepairApiRequestLogGuildUser, AddTaskType, AddSoftDeleteGuildMembersDiscord,
    AddThreadsAndConversations, AddAvailableModelsToWorkers, AddThreadIdToMessages,
    AddSpawnToolDefaults, FinishSpawnSettingsMigration, AddConversationIdColumns,
    AddForemanTurnsConversationIdIndex, AddConversationIdToGithubCache,
    AddUiLifecycleFieldsToConversations, DropMessagesThreadId, IndexGithubEventPrContext,
    IndexConversationMessageHistory>>
=============================================================================
