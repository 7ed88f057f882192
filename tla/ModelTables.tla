---------------------------- MODULE ModelTables ----------------------------
(***************************************************************************)
(* The tables as the code sees them: the SQLModel classes of               *)
(* backend/models.py, one definition a class.  "optional" is a column the  *)
(* class declares nullable; "defaulted" one with a server default, or an   *)
(* integer key the database numbers.                                       *)
(***************************************************************************)
EXTENDS SchemaOps

Model(t, cols, keys) == [table |-> t, cols |-> cols, keys |-> keys]
\* The unique indexes of __table_args__, with and without a condition.
UniqueAs(name, t, on) == KeyOf("unique index", name, t, on, Nowhere)
UniqueAmong(name, t, on) == KeyOf("partial", name, t, on, Nowhere)

GuildModel ==
    Model("guilds",
        Req("text", {"slug"}) \cup Req("time", {"created_at"}) \cup Dft("int", {"id"})
          \cup Opt("text", {"name", "github_user_id", "primary_repo", "webhook_secret",
          "github_app_installation_id", "description", "url", "version"})
          \cup Opt("time", {"deleted_at"}) \cup Opt("json", {"foreman_config"}),
        {Primary("guilds", {"id"}), UniqueAmong("uq_guilds_slug_active", "guilds", {"slug"})})
AgentModel ==
    Model("agents",
        Req("text", {"id", "name"}) \cup Req("int", {"guild_id"})
          \cup Req("time", {"joined_at"}) \cup Dft("text", {"type", "state"})
          \cup Opt("text", {"worker_id", "activity", "current_task_id"})
          \cup Opt("time", {"last_seen"}),
        {Primary("agents", {"id"}), Foreign("agents", "guild_id", "guilds"),
         Foreign("agents", "worker_id", "workers")})
MessageModel ==
    Model("messages",
        Req("text", {"content", "message_type"}) \cup Req("int", {"guild_id"})
          \cup Req("time", {"created_at"}) \cup Dft("int", {"id"}) \cup Opt("text",
          {"from_agent", "to_agent", "user_id", "role", "meta", "task_id", "source"})
          \cup Opt("int", {"conversation_id"}),
        {Primary("messages", {"id"}), Foreign("messages", "guild_id", "guilds"),
         Foreign("messages", "task_id", "tasks"),
         Foreign("messages", "conversation_id", "conversations")})
ConversationModel ==
    Model("conversations",
        Req("int", {"guild_id"}) \cup Req("time", {"created_at", "updated_at"})
          \cup Dft("text", {"status"}) \cup Dft("int", {"id"})
          \cup Opt("text", {"user_id", "name", "discord_thread_id"}),
        {Primary("conversations", {"id"}), Foreign("conversations", "guild_id", "guilds"),
         UniqueAmong("uq_conversations_discord_thread_id_active", "conversations", {"discord_thread_id"})})
ThreadModel ==
    Model("threads",
        Req("text", {"id"}) \cup Req("int", {"conversation_id"})
          \cup Req("time", {"created_at", "updated_at"}) \cup Dft("text", {"status"})
          \cup Opt("text", {"discord_thread_id", "name"}) \cup Opt("time", {"deleted_at"}),
        {Primary("threads", {"id"}), Foreign("threads", "conversation_id", "conversations"),
         UniqueAmong("uq_threads_discord_thread_id_active", "threads", {"discord_thread_id"})})
ExternalA2ARequestModel ==
    Model("external_a2a_requests",
        Req("text", {"replay_key", "external_message_id", "sender_fqdn", "governance_id",
          "dnssec_state", "dnsid_status", "skill"}) \cup Req("int", {"guild_id"})
          \cup Req("time", {"verified_at"}) \cup Dft("text", {"state"}) \cup Dft("int", {"id"})
          \cup Opt("text", {"task_id"}) \cup Opt("int", {"message_id"}),
        {Primary("external_a2a_requests", {"id"}),
         Foreign("external_a2a_requests", "guild_id", "guilds"),
         UniqueAs("ix_external_a2a_requests_replay_key", "external_a2a_requests", {"replay_key"}),
         Foreign("external_a2a_requests", "message_id", "messages"),
         Foreign("external_a2a_requests", "task_id", "tasks"),
         UniqueNamed("uq_external_a2a_sender_message", "external_a2a_requests", {"guild_id", "sender_fqdn", "external_message_id"})})
WorkerModel ==
    Model("workers",
        Req("text", {"id"}) \cup Req("int", {"guild_id"}) \cup Req("time", {"created_at"})
          \cup Dft("text", {"repos", "tools", "state"}) \cup Dft("bool", {"disabled"})
          \cup Opt("text", {"org", "user_id", "auth_token", "name", "container_id",
          "spawned_version", "provider", "tool", "hostname"})
          \cup Opt("time", {"last_seen", "started_at", "drain_requested_at"})
          \cup Opt("json", {"excluded_env_keys", "available_models"}),
        {Primary("workers", {"id"}), Foreign("workers", "guild_id", "guilds"),
         Foreign("workers", "user_id", "users")})
TaskModel ==
    Model("tasks",
        Req("text", {"id", "description"}) \cup Req("int", {"guild_id"})
          \cup Req("time", {"created_at"}) \cup Dft("text", {"tool", "task_type", "state"})
          \cup Opt("text", {"worker_id", "model", "provider", "issue_repo", "issue_state",
          "issue_title", "branch", "worktree_path", "pr_url", "pr_repo", "name",
          "parent_task_id", "phase", "user_id", "model_tier", "claude_session_id",
          "thread_id"}) \cup Opt("int", {"issue_number", "pr_number", "conversation_id"})
          \cup Opt("time", {"deleted_at"}),
        {Primary("tasks", {"id"}), Foreign("tasks", "worker_id", "workers"),
         Foreign("tasks", "guild_id", "guilds"), Foreign("tasks", "thread_id", "threads"),
         Foreign("tasks", "conversation_id", "conversations")})
GithubTokenModel ==
    Model("github_tokens",
        Req("text", {"github_user_id", "access_token"})
          \cup Req("time", {"created_at", "updated_at"}) \cup Dft("text", {"token_type"})
          \cup Dft("int", {"id"}) \cup Opt("text", {"github_username", "scope"}),
        {Primary("github_tokens", {"id"}), Unique("github_tokens", "github_user_id")})
UserSessionModel ==
    Model("user_sessions",
        Req("text", {"token", "github_user_id"}) \cup Req("time", {"created_at"})
          \cup Dft("int", {"id"}),
        {Primary("user_sessions", {"id"}), Unique("user_sessions", "token"),
         ForeignTo("user_sessions", "github_user_id", "github_tokens", "github_user_id")})
UserModel ==
    Model("users",
        Req("text", {"id", "github_id"}) \cup Req("time", {"created_at", "updated_at"})
          \cup Dft("bool", {"is_bot"}) \cup Opt("text", {"github_login", "email",
          "display_name", "avatar_url", "parent_user_id", "bot_provider",
          "discord_channel_id"}) \cup Opt("json", {"bot_metadata"}),
        {Primary("users", {"id"}), Unique("users", "github_id"),
         Foreign("users", "parent_user_id", "users")})
GuildMemberModel ==
    Model("guild_members",
        Req("text", {"user_id"}) \cup Req("int", {"guild_id"}) \cup Req("time", {"created_at"})
          \cup Dft("text", {"role"}) \cup Dft("int", {"id"}) \cup Opt("time", {"deleted_at"}),
        {Primary("guild_members", {"id"}), Foreign("guild_members", "guild_id", "guilds"),
         Foreign("guild_members", "user_id", "users"),
         UniqueAmong("uq_guild_members_guild_id_user_id_active", "guild_members", {"guild_id", "user_id"})})
GuildInviteModel ==
    Model("guild_invites",
        Req("text", {"invited_by"}) \cup Req("int", {"guild_id"})
          \cup Req("time", {"created_at"}) \cup Dft("text", {"role", "status"})
          \cup Dft("int", {"id"}) \cup Opt("text", {"github_login", "github_id"}),
        {Primary("guild_invites", {"id"}), Foreign("guild_invites", "guild_id", "guilds"),
         Foreign("guild_invites", "invited_by", "users")})
TaskLogModel ==
    Model("task_logs",
        Req("text", {"line"}) \cup Req("time", {"timestamp"}) \cup Dft("int", {"id"})
          \cup Opt("text", {"task_id", "worker_id", "agent_id", "data", "level"}),
        {Primary("task_logs", {"id"}), Foreign("task_logs", "task_id", "tasks")})
GuildKeyModel ==
    Model("guild_keys",
        Req("text", {"key_id", "public_key_pem", "private_key_pem"})
          \cup Req("int", {"guild_id"}) \cup Req("time", {"created_at"})
          \cup Dft("int", {"id"}) \cup Opt("text", {"custom_jwks", "private_key_jwk"}),
        {Primary("guild_keys", {"id"}), Foreign("guild_keys", "guild_id", "guilds"),
         Unique("guild_keys", "guild_id")})
ApiRequestLogModel ==
    Model("api_request_log",
        Req("text", {"model"}) \cup Req("time", {"created_at"}) \cup Dft("int", {"id"})
          \cup Opt("text", {"request_id", "stop_reason", "task_id", "user_id", "trigger"})
          \cup Opt("int", {"input_tokens", "output_tokens", "cache_read_tokens",
          "cache_write_tokens", "guild_id"}) \cup Opt("time", {"completed_at"})
          \cup Opt("json", {"system", "messages", "response", "extra"}),
        {Primary("api_request_log", {"id"}), Unique("api_request_log", "request_id"),
         Foreign("api_request_log", "task_id", "tasks"),
         Foreign("api_request_log", "guild_id", "guilds")})
ForemanTurnModel ==
    Model("foreman_turns",
        Req("text", {"user_id", "role", "content_json"}) \cup Req("int", {"guild_id"})
          \cup Req("time", {"created_at"}) \cup Dft("int", {"id", "is_tool_response"})
          \cup Opt("text", {"task_id"})
          \cup Opt("int", {"parent_id", "request_id", "conversation_id"}),
        {Primary("foreman_turns", {"id"}), Foreign("foreman_turns", "guild_id", "guilds"),
         Foreign("foreman_turns", "parent_id", "foreman_turns"),
         Foreign("foreman_turns", "request_id", "api_request_log"),
         Foreign("foreman_turns", "task_id", "tasks"),
         Foreign("foreman_turns", "conversation_id", "conversations")})
GithubEventModel ==
    Model("github_events",
        Req("text", {"delivery_id", "event_type", "repo", "payload_json"})
          \cup Req("int", {"guild_id"}) \cup Req("time", {"created_at"})
          \cup Dft("int", {"id"})
          \cup Opt("text", {"task_id", "action", "pr_url", "sender_login"})
          \cup Opt("int", {"conversation_id", "pr_number"}),
        {Primary("github_events", {"id"}), Foreign("github_events", "guild_id", "guilds"),
         Foreign("github_events", "task_id", "tasks"),
         Foreign("github_events", "conversation_id", "conversations"),
         Unique("github_events", "delivery_id")})
GithubIssueModel ==
    Model("github_issues",
        Req("text", {"repo", "title", "state"}) \cup Req("int", {"number"})
          \cup Req("time", {"created_at", "updated_at"})
          \cup Req("json", {"assignees", "labels", "raw"}) \cup Dft("int", {"id"})
          \cup Dft("time", {"last_refreshed_at"})
          \cup Opt("text", {"body", "milestone", "author"})
          \cup Opt("int", {"conversation_id"}) \cup Opt("time", {"closed_at"}),
        {Primary("github_issues", {"id"}),
         Foreign("github_issues", "conversation_id", "conversations"),
         UniqueAs("uq_github_issues_repo_number", "github_issues", {"repo", "number"})})
GithubPullRequestModel ==
    Model("github_pull_requests",
        Req("text", {"repo", "title", "state"}) \cup Req("int", {"number"})
          \cup Req("time", {"created_at", "updated_at"})
          \cup Req("json", {"assignees", "labels", "raw"}) \cup Dft("int", {"id"})
          \cup Dft("time", {"last_refreshed_at"}) \cup Dft("bool", {"merged", "draft"})
          \cup Opt("text", {"body", "head_sha", "head_ref", "base_ref", "author"})
          \cup Opt("int", {"conversation_id"}) \cup Opt("time", {"closed_at", "merged_at"}),
        {Primary("github_pull_requests", {"id"}),
         Foreign("github_pull_requests", "conversation_id", "conversations"),
         UniqueAs("uq_github_pull_requests_repo_number", "github_pull_requests", {"repo", "number"})})
LockModel ==
    Model("locks",
        Req("text", {"key"}) \cup Req("time", {"acquired_at"}) \cup Dft("int", {"id"})
          \cup Opt("text", {"owner"}) \cup Opt("time", {"expires_at"}),
        {Primary("locks", {"id"})})
TaskEventModel ==
    Model("task_events",
        Req("text", {"task_id", "event_type", "payload_json"}) \cup Req("time", {"created_at"})
          \cup Dft("int", {"id"}),
        {Primary("task_events", {"id"}), Foreign("task_events", "task_id", "tasks")})
LlmUsageModel ==
    Model("llm_usage",
        Req("text", {"kind"}) \cup Req("int", {"guild_id"}) \cup Req("time", {"created_at"})
          \cup Dft("text", {"tool"}) \cup Dft("int", {"id", "input_tokens", "output_tokens",
          "cache_read_input_tokens", "cache_creation_input_tokens"}) \cup Opt("text",
          {"task_id", "worker_id", "session_id", "model", "stop_reason", "repo", "reporter"})
          \cup Opt("int", {"call_index", "num_turns"}) \cup Opt("float", {"cost_usd"}),
        {Primary("llm_usage", {"id"}), Foreign("llm_usage", "guild_id", "guilds"),
         Foreign("llm_usage", "task_id", "tasks"),
         Foreign("llm_usage", "worker_id", "workers")})
UserSpawnSettingsModel ==
    Model("user_spawn_settings",
        Req("text", {"user_id"}) \cup Req("int", {"guild_id"}) \cup Req("time", {"updated_at"})
          \cup Dft("int", {"id"}) \cup Opt("text", {"settings_json"}),
        {Primary("user_spawn_settings", {"id"}),
         Foreign("user_spawn_settings", "guild_id", "guilds"),
         Foreign("user_spawn_settings", "user_id", "users"),
         UniqueAs("uq_user_spawn_settings_guild_id_user_id", "user_spawn_settings", {"guild_id", "user_id"})})
GuildSpawnDefaultsModel ==
    Model("guild_spawn_defaults",
        Req("int", {"guild_id"}) \cup Req("time", {"updated_at"})
          \cup Dft("text", {"repos", "tools"}) \cup Dft("int", {"id"})
          \cup Opt("int", {"agent_count"}),
        {Primary("guild_spawn_defaults", {"id"}),
         Foreign("guild_spawn_defaults", "guild_id", "guilds"),
         UniqueAs("uq_guild_spawn_defaults_guild_id", "guild_spawn_defaults", {"guild_id"})})
SpawnSettingsModel ==
    Model("spawn_settings",
        Req("int", {"guild_id"}) \cup Req("time", {"updated_at"})
          \cup Dft("text", {"repos", "tools"}) \cup Dft("int", {"id"})
          \cup Dft("json", {"env_vars", "tool_env_vars", "tool_defaults"})
          \cup Opt("text", {"user_id", "provider", "model"}) \cup Opt("int", {"agent_count"}),
        {Primary("spawn_settings", {"id"}), Foreign("spawn_settings", "guild_id", "guilds"),
         Foreign("spawn_settings", "user_id", "users"),
         UniqueAmong("uq_spawn_settings_guild_baseline", "spawn_settings", {"guild_id"}),
         UniqueAmong("uq_spawn_settings_guild_user", "spawn_settings", {"guild_id", "user_id"})})
PushTokenModel ==
    Model("push_tokens",
        Req("text", {"token", "user_id"}) \cup Req("time", {"created_at", "last_seen_at"})
          \cup Dft("text", {"platform"}) \cup Dft("int", {"id"}),
        {Primary("push_tokens", {"id"}), Unique("push_tokens", "token"),
         Foreign("push_tokens", "user_id", "users")})
DiscordThreadBindingModel ==
    Model("discord_thread_bindings",
        Req("text", {"subject_type", "subject_key", "thread_id"})
          \cup Req("time", {"created_at"}) \cup Dft("int", {"id"}),
        {Primary("discord_thread_bindings", {"id"}),
         UniqueAs("uq_discord_thread_bindings_subject", "discord_thread_bindings", {"subject_type", "subject_key"}),
         UniqueAs("uq_discord_thread_bindings_thread_id", "discord_thread_bindings", {"thread_id"})})
DiscordChannelGuildModel ==
    Model("discord_channel_guilds",
        Req("text", {"discord_guild_id", "discord_channel_id", "ps_guild_id"})
          \cup Req("time", {"created_at"}) \cup Dft("int", {"id"})
          \cup Opt("time", {"deleted_at"}),
        {Primary("discord_channel_guilds", {"id"}),
         UniqueAmong("uq_discord_channel_guilds_guild_channel_active", "discord_channel_guilds", {"discord_guild_id", "discord_channel_id"})})
DiscordPendingConnectModel ==
    Model("discord_pending_connects",
        Req("text", {"token", "discord_user_id", "discord_username"})
          \cup Req("time", {"expires_at", "created_at"}) \cup Dft("int", {"id"})
          \cup Opt("time", {"used_at"}),
        {Primary("discord_pending_connects", {"id"}),
         Unique("discord_pending_connects", "token")})
DiscordAccountLinkModel ==
    Model("discord_account_links",
        Req("text", {"ps_user_id", "discord_user_id", "discord_username"})
          \cup Req("time", {"created_at"}) \cup Dft("int", {"id"})
          \cup Opt("time", {"deleted_at"}),
        {Primary("discord_account_links", {"id"}),
         Foreign("discord_account_links", "ps_user_id", "users"),
         UniqueAmong("uq_discord_account_links_discord_user_id_active", "discord_account_links", {"discord_user_id"})})
ModelCatalogModel ==
    Model("model_catalog",
        Req("text", {"provider", "model_id", "display_name"}) \cup Req("time", {"fetched_at"})
          \cup Dft("int", {"id"}) \cup Opt("text", {"bedrock_model_id"})
          \cup Opt("json", {"capabilities", "raw"}),
        {Primary("model_catalog", {"id"}),
         UniqueAs("uq_model_catalog_provider_model_id", "model_catalog", {"provider", "model_id"})})

Models == {
    GuildModel, AgentModel, MessageModel, ConversationModel, ThreadModel,
    ExternalA2ARequestModel, WorkerModel, TaskModel, GithubTokenModel, UserSessionModel,
    UserModel, GuildMemberModel, GuildInviteModel, TaskLogModel, GuildKeyModel,
    ApiRequestLogModel, ForemanTurnModel, GithubEventModel, GithubIssueModel,
    GithubPullRequestModel, LockModel, TaskEventModel, LlmUsageModel, UserSpawnSettingsModel,
    GuildSpawnDefaultsModel, SpawnSettingsModel, PushTokenModel, DiscordThreadBindingModel,
    DiscordChannelGuildModel, DiscordPendingConnectModel, DiscordAccountLinkModel,
    ModelCatalogModel}
=============================================================================
