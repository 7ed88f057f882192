------------------------ MODULE MCDiscordInbound ------------------------
EXTENDS DiscordInbound

\* Replies in the task's thread and messages in the channel take turns.
Placed == [n \in Messages |-> IF n % 2 = 1 THEN "task" ELSE "chat"]
=============================================================================
